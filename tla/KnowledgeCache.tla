--------------------------- MODULE KnowledgeCache ---------------------------
(***************************************************************************)
(* What is known of a client's attribute, and its reuse by the validation  *)
(* of other campaigns (app/db/knowledge.py, db_insert_result of app/db/    *)
(* validation.py, worker/workflows/validation.py, the table and its tiers  *)
(* in app/db/_schema.py).  A campaign has one entity and one attribute     *)
(* here: the validation of a pair looks for a row of the campaign's team,  *)
(* then for one of no team, and researches what it does not find fresh     *)
(* enough; a researched result is stored, then written to the cache by a   *)
(* statement that reads the entity, the attribute and the campaign anew.   *)
(* Edits, the end of a team and failures come in between.  The pairs of    *)
(* the handler that nothing enqueues any more (validation_pair) are left   *)
(* out.                                                                    *)
(***************************************************************************)
EXTENDS Naturals

CONSTANTS
    Campaigns,
    Clients,   \* gwm ids
    NoClient,  \* an entity without one
    Labels,    \* labels of attributes
    Teams,
    NoTeam,    \* the campaigns and the rows of no team
    Warm,      \* days after which a row is no more reused
    MaxDay,    \* bound
    MaxEdits,  \* bound: edits and ends of teams
    MaxFaults  \* bound: failures

VARIABLES
    day,       \* what day it is
    campaign,  \* [client, label, team] of each campaign
    teams,     \* the teams there are
    known,     \* playbook.entity_attribute_knowledge
    job,       \* the validation of each campaign
    edits, faults

cacheVars == <<day, campaign, teams, known, job, edits, faults>>

\* A row, and of it what the code does not keep: whose research it was, of what,
\* and whether the campaign was edited during it.
Keys == Clients \X Labels \X (Teams \cup {NoTeam})
NoRow == [day |-> 0, by |-> "none"]
Row(about, team, edited) ==
    [day |-> day, by |-> "research", about |-> about, team |-> team, edited |-> edited]
IsRow(row) == row.by = "research"

NoJob == [at |-> "none"]
At(c, at) == job[c].at = at
Goes(c, at) == job' = [job EXCEPT ![c].at = at]
Pair(c) == <<campaign[c].client, campaign[c].label>>

Init ==
    /\ day = 1
    /\ campaign \in [Campaigns -> [client : Clients, label : Labels, team : Teams \cup {NoTeam}]]
    /\ teams = Teams
    /\ known = [k \in Keys |-> NoRow]
    /\ job = [c \in Campaigns |-> NoJob]
    /\ edits = 0 /\ faults = 0

-----------------------------------------------------------------------------
(* The lookup for the whole job. *)

\* A row of the team hides the one of no team, however old it is.
Scope(pair, team) ==
    IF team # NoTeam /\ IsRow(known[<<pair[1], pair[2], team>>]) THEN team ELSE NoTeam

\* compute_staleness_tier: fresh or warm.
IsFresh(row) == IsRow(row) /\ day - row.day < Warm

\* The campaign's entity, attribute and team are read; a hit is copied to the
\* results and leaves the row as it is.
CheckStaleness(c) ==
    LET team == campaign[c].team
        pair == Pair(c)
        row  == known[<<pair[1], pair[2], Scope(pair, team)>>]
    IN  /\ At(c, "none")
        /\ job' = [job EXCEPT ![c] =
             IF pair[1] # NoClient /\ IsFresh(row)
             THEN [at |-> "reused", pair |-> pair, team |-> team, row |-> row]
             ELSE [at |-> "enqueued"]]
        /\ UNCHANGED <<day, campaign, teams, known, edits, faults>>

\* The results are in: the campaign can be validated again.
Reused(c) ==
    /\ At(c, "reused") /\ job' = [job EXCEPT ![c] = NoJob]
    /\ UNCHANGED <<day, campaign, teams, known, edits, faults>>

\* The lookup fails: everything is researched.
CheckFails(c) ==
    /\ At(c, "none") /\ faults < MaxFaults /\ faults' = faults + 1
    /\ job' = [job EXCEPT ![c] = [at |-> "enqueued"]]
    /\ UNCHANGED <<day, campaign, teams, known, edits>>

-----------------------------------------------------------------------------
(* The research of a pair. *)

Research(c) ==
    /\ At(c, "enqueued")
    /\ job' = [job EXCEPT ![c] = [at |-> "researched", about |-> Pair(c), edited |-> FALSE]]
    /\ UNCHANGED <<day, campaign, teams, known, edits, faults>>

\* db_insert_result: the result, whether the entity has a client, the cache.
StoreResult(c) ==
    /\ At(c, "researched") /\ Goes(c, "stored")
    /\ UNCHANGED <<day, campaign, teams, known, edits, faults>>

AskForClient(c) ==
    /\ At(c, "stored")
    /\ job' = [job EXCEPT ![c] = IF campaign[c].client = NoClient THEN NoJob ELSE [@ EXCEPT !.at = "caching"]]
    /\ UNCHANGED <<day, campaign, teams, known, edits, faults>>

\* The statement finds no entity to insert when its client was taken away.
UpsertKnowledge(c) ==
    LET team == campaign[c].team
        key  == <<campaign[c].client, campaign[c].label, team>>
    IN  /\ At(c, "caching")
        /\ known' = IF campaign[c].client = NoClient THEN known
                    ELSE [known EXCEPT ![key] = Row(job[c].about, team, job[c].edited)]
        /\ job' = [job EXCEPT ![c] = NoJob]
        /\ UNCHANGED <<day, campaign, teams, edits, faults>>

\* A statement fails: the job is tried again, from the load of its entity, or dead.
StatementFails(c) ==
    /\ job[c].at \in {"researched", "stored", "caching"}
    /\ faults < MaxFaults /\ faults' = faults + 1
    /\ \E next \in {[at |-> "enqueued"], NoJob} : job' = [job EXCEPT ![c] = next]
    /\ UNCHANGED <<day, campaign, teams, known, edits>>

-----------------------------------------------------------------------------
(* Meanwhile. *)

\* A job takes minutes: no day passes between a research and its storage.
NextDay ==
    /\ day < MaxDay /\ day' = day + 1
    /\ \A c \in Campaigns : job[c].at \in {"none", "enqueued"}
    /\ UNCHANGED <<campaign, teams, known, job, edits, faults>>

\* db_update_entity, db_update_attribute.
Edit(c, client, label) ==
    /\ edits < MaxEdits /\ edits' = edits + 1
    /\ <<client, label>> # Pair(c)
    /\ campaign' = [campaign EXCEPT ![c].client = client, ![c].label = label]
    /\ job' = [job EXCEPT ![c] = IF @.at \in {"researched", "stored", "caching"}
                                 THEN [@ EXCEPT !.edited = TRUE] ELSE @]
    /\ UNCHANGED <<day, teams, known, faults>>

\* The campaigns of a deleted team are of no team, and so are its rows: the
\* deletion fails when one of no team has their key already.
TeamRows(t) == {k \in Keys : k[3] = t /\ IsRow(known[k])}
DeleteTeam(t) ==
    /\ t \in teams /\ edits < MaxEdits /\ edits' = edits + 1
    /\ \A k \in TeamRows(t) : ~ IsRow(known[<<k[1], k[2], NoTeam>>])
    /\ teams' = teams \ {t}
    /\ campaign' = [c \in Campaigns |-> IF campaign[c].team = t
                                        THEN [campaign[c] EXCEPT !.team = NoTeam] ELSE campaign[c]]
    /\ known' = [k \in Keys |->
         IF k[3] = t THEN NoRow
         ELSE IF k[3] = NoTeam /\ <<k[1], k[2], t>> \in TeamRows(t) THEN known[<<k[1], k[2], t>>]
         ELSE known[k]]
    /\ UNCHANGED <<day, job, faults>>

Next ==
    \/ \E c \in Campaigns :
          \/ CheckStaleness(c) \/ Reused(c) \/ CheckFails(c) \/ Research(c) \/ StoreResult(c)
          \/ AskForClient(c) \/ UpsertKnowledge(c) \/ StatementFails(c)
          \/ \E client \in Clients \cup {NoClient}, label \in Labels : Edit(c, client, label)
    \/ NextDay \/ \E t \in Teams : DeleteTeam(t)

Spec == Init /\ [][Next]_cacheVars

-----------------------------------------------------------------------------
TypeOK ==
    /\ day \in 1..MaxDay /\ teams \subseteq Teams
    /\ \A c \in Campaigns : campaign[c].team \in teams \cup {NoTeam}
    /\ \A k \in Keys : IsRow(known[k]) => k[3] \in teams \cup {NoTeam} /\ known[k].day \in 1..day
    /\ \A c \in Campaigns : job[c].at \in {"none", "enqueued", "reused", "researched", "stored", "caching"}
    /\ edits \in 0..MaxEdits /\ faults \in 0..MaxFaults

\* A result that is reused is of the client and the label it is reused for, unless
\* the campaign that had it researched was edited meanwhile; it is of no other team
\* that still exists; and it is not older than a warm one, however often it was
\* reused before.
ReusedIsKnown ==
    \A c \in Campaigns : At(c, "reused") =>
        LET row == job[c].row IN
        /\ row.about = job[c].pair \/ row.edited
        /\ row.team \in {job[c].team, NoTeam} \/ row.team \notin teams
        /\ day - row.day < Warm
=============================================================================
