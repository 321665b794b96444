---------------------------- MODULE CampaignScores ----------------------------
(***************************************************************************)
(* The matrix of one campaign and the scores computed from it              *)
(* (app/routers/matrix.py, attributes.py and import_export.py, app/db/     *)
(* matrix.py, campaign_attributes.py, scores.py and validation.py).  A     *)
(* request commits its edit first; a second transaction then recalculates  *)
(* the score of one entity or of all, and its failure is only logged.      *)
(* The transaction marks the score rows stale, which locks them, and       *)
(* computes in the next statement, which has a snapshot of its own.        *)
(* A value or a weight is not kept, only when it was last edited; scores   *)
(* are told apart by what they were computed from: when it was read, and   *)
(* the entities among whose values the maximum of an attribute was found,  *)
(* by which numbers without bounds are divided.  That is the entity alone  *)
(* when one entity is recalculated, and all of them otherwise; an edit of  *)
(* another entity changes the maximum, but neither recalculates the score  *)
(* nor marks it stale.  The campaign is its                                *)
(* owner's: in a team's, _acquire_team runs SET LOCAL with a parameter     *)
(* before every statement (app/db/_pool.py:137), which PostgreSQL refuses, *)
(* so that no cell of it is ever written.                                  *)
(***************************************************************************)
EXTENDS Naturals

CONSTANTS
    Requests,    \* requests that may run at once
    Entities,    \* the entities of the campaign
    Attributes,  \* its attributes
    Text,        \* those of type text, which are never scored
    MaxEdits,    \* a bound: how many edits and imports there are
    MaxFaults    \* a bound: how many recalculations fail

VARIABLES
    entity,    \* playbook.entities of the campaign
    attribute, \* playbook.attributes of the campaign
    assigned,  \* playbook.campaign_attributes: attributes with an override
    cell,      \* playbook.entity_attribute_assignments that hold a value
    score,     \* playbook.entity_scores
    req,       \* what each request is doing
    clock,     \* how many edits and imports there were
    edited,    \* when an edit that is followed by a recalculation last
               \* changed what the entity's score is made of
    excused,   \* entities that lost a recalculation to a failure, or whose
               \* first score was out of date when it was inserted, and that
               \* no later one has put right
    faults     \* how many recalculations failed

scoreVars == <<entity, attribute, assigned, cell, score, req, edited, excused, faults, clock>>
rows == <<entity, attribute, assigned, cell>>

NoScore == [exists |-> FALSE, stale |-> FALSE, by |-> "none", seen |-> 0, over |-> {}]
Idle == [pc |-> "idle", scope |-> {}, later |-> {}, locked |-> {}, found |-> {}, seen |-> 0]

\* The campaign has its entities and attributes, and nothing is filled in.
Init ==
    /\ entity = Entities /\ attribute = Attributes
    /\ assigned = {} /\ cell = {}
    /\ score = [e \in Entities |-> NoScore]
    /\ req = [r \in Requests |-> Idle]
    /\ clock = 0
    /\ edited = [e \in Entities |-> 0]
    /\ excused = {}
    /\ faults = 0

Scorable == {e \in entity : \E a \in attribute \ Text : <<e, a>> \in cell}
Held(r) == UNION {req[q].locked : q \in Requests \ {r}}

\* An edit is committed; the entities in es are then recalculated, one by one
\* when there are several and all at once when es is the whole campaign.
Tick == clock < MaxEdits /\ clock' = clock + 1
Touches(es) == edited' = [e \in Entities |-> IF e \in es THEN clock + 1 ELSE edited[e]]
Starts(r, scope, later) ==
    /\ req[r].pc = "idle"
    /\ req' = [req EXCEPT ![r] = [Idle EXCEPT !.pc = "mark", !.scope = scope, !.later = later]]

-----------------------------------------------------------------------------
(* Edits. *)

\* One cell or several of them, in one transaction; a row or an attribute that
\* is gone fails the whole of it.
UpsertCells(r, cells) ==
    /\ cells # {} /\ \A c \in cells : c[1] \in entity /\ c[2] \in attribute
    /\ Tick
    /\ cell' = cell \cup cells
    /\ LET es == {c[1] : c \in cells} IN
         /\ Touches(es)
         /\ \E e \in es : Starts(r, {e}, es \ {e})
    /\ UNCHANGED <<entity, attribute, assigned, score, excused, faults>>

DeleteCell(r, e, a) ==
    /\ <<e, a>> \in cell /\ Tick
    /\ cell' = cell \ {<<e, a>>}
    /\ Touches({e}) /\ Starts(r, {e}, {})
    /\ UNCHANGED <<entity, attribute, assigned, score, excused, faults>>

\* The weight of an attribute, or its override in the campaign: every entity.
UpdateWeight(r) ==
    /\ attribute # {} /\ Tick /\ Touches(entity) /\ Starts(r, Entities, {})
    /\ UNCHANGED <<rows, score, excused, faults>>

UpdateOverride(r, a) == a \in assigned /\ UpdateWeight(r)

\* Edits the code does not recalculate after: an assignment with a weight, its
\* removal, and the loss of an attribute with its cells.
AssignAttribute(a) ==
    /\ a \in attribute \ assigned /\ Tick /\ assigned' = assigned \cup {a}
    /\ UNCHANGED <<entity, attribute, cell, score, req, edited, excused, faults>>

UnassignAttribute(a) ==
    /\ a \in assigned /\ Tick /\ assigned' = assigned \ {a}
    /\ UNCHANGED <<entity, attribute, cell, score, req, edited, excused, faults>>

DeleteAttribute(a) ==
    /\ a \in attribute /\ Tick /\ attribute' = attribute \ {a}
    /\ assigned' = assigned \ {a}
    /\ cell' = {c \in cell : c[2] # a}
    /\ UNCHANGED <<entity, score, req, edited, excused, faults>>

\* The cells and the score go with the entity; a score that a recalculation
\* has locked is waited for.
DeleteEntity(e) ==
    /\ e \in entity /\ Tick /\ \A r \in Requests : e \notin req[r].locked
    /\ entity' = entity \ {e}
    /\ cell' = {c \in cell : c[1] # e}
    /\ score' = [score EXCEPT ![e] = NoScore]
    /\ UNCHANGED <<attribute, assigned, req, edited, excused, faults>>

\* An import fills in entities, attributes and cells, then recalculates all;
\* with cells it fails before that, and what came before them is kept.
CommitImport(r) ==
    /\ Tick /\ Starts(r, Entities, {})
    /\ UNCHANGED <<rows, score, edited, excused, faults>>

\* A validation job ends: the sum of its own results replaces the score, and the
\* stale mark is left as it was.
RecomputeScores(es) ==
    /\ es # {} /\ es \subseteq entity /\ Tick
    /\ \A r \in Requests : es \cap req[r].locked = {}
    /\ score' = [e \in Entities |->
         IF e \in es THEN [score[e] EXCEPT !.exists = TRUE, !.by = "validation", !.over = {}] ELSE score[e]]
    /\ UNCHANGED <<rows, req, edited, excused, faults>>

-----------------------------------------------------------------------------
(* The recalculation. *)

RowsOf(r) == {e \in req[r].scope : score[e].exists}

\* UPDATE ... SET score_stale = TRUE: waits for, then locks the rows there are.
\* (Mutant: it does not wait.)
MarkNoWait(r) ==
    /\ req[r].pc = "mark"
    /\ req' = [req EXCEPT ![r].pc = "compute", ![r].locked = RowsOf(r)]
    /\ UNCHANGED <<rows, score, clock, edited, excused, faults>>
MarkStale(r) ==
    /\ req[r].pc = "mark" /\ RowsOf(r) \cap Held(r) = {}
    /\ req' = [req EXCEPT ![r].pc = "compute", ![r].locked = RowsOf(r)]
    /\ UNCHANGED <<rows, score, clock, edited, excused, faults>>

\* The SELECT of the second statement: what it finds, and when.
Compute(r) ==
    /\ req[r].pc = "compute"
    /\ req' = [req EXCEPT ![r].pc = "write", ![r].seen = clock,
                          ![r].found = req[r].scope \cap Scorable]
    /\ UNCHANGED <<rows, score, clock, edited, excused, faults>>

\* The next entity of the request, or its end.
NextEntity(r) ==
    req' = [req EXCEPT ![r] =
      IF req[r].later = {} THEN Idle
      ELSE LET e == CHOOSE e \in req[r].later : TRUE IN
           [Idle EXCEPT !.pc = "mark", !.scope = {e}, !.later = req[r].later \ {e}]]

\* INSERT ... ON CONFLICT DO UPDATE and the commit: the scores of what was found, by
\* the maxima among what was found.  A row that appeared since
\* is waited for and overwritten; a row that was marked and has nothing left to
\* be scored keeps its old score, stale.
WriteScores(r) ==
    /\ req[r].pc = "write" /\ req[r].found \subseteq entity
    /\ req[r].found \cap Held(r) = {}
    /\ LET new == [exists |-> TRUE, stale |-> FALSE, by |-> "matrix", seen |-> req[r].seen,
                over |-> req[r].found] IN
       score' = [e \in Entities |->
         IF e \in req[r].found THEN new
         ELSE IF e \in req[r].locked THEN [score[e] EXCEPT !.stale = TRUE] ELSE score[e]]
    /\ LET old == {e \in req[r].found : edited[e] > req[r].seen} IN
         excused' = (excused \ (req[r].found \ old)) \cup (old \ req[r].locked)
    /\ NextEntity(r)
    /\ UNCHANGED <<rows, clock, edited, faults>>

\* The mark goes too: the score there is stays, and is not stale.
RolledBack(r) ==
    /\ excused' = excused \cup req[r].scope
    /\ NextEntity(r)
    /\ UNCHANGED <<rows, score, clock, edited>>

\* An entity that was deleted has no score: the insert fails, for all of them.
EntityIsGone(r) ==
    /\ req[r].pc = "write" /\ ~(req[r].found \subseteq entity)
    /\ RolledBack(r) /\ UNCHANGED faults

RecalculationFails(r) ==
    /\ req[r].pc \in {"mark", "compute", "write"}
    /\ faults < MaxFaults /\ faults' = faults + 1
    /\ RolledBack(r)

Next ==
    \/ \E r \in Requests :
         \/ \E cells \in SUBSET (Entities \X Attributes) : UpsertCells(r, cells)
         \/ \E e \in Entities, a \in Attributes : DeleteCell(r, e, a)
         \/ UpdateWeight(r)
         \/ \E a \in Attributes : UpdateOverride(r, a)
         \/ CommitImport(r)
         \/ MarkStale(r) \/ Compute(r) \/ WriteScores(r)
         \/ EntityIsGone(r) \/ RecalculationFails(r)
    \/ \E a \in Attributes : AssignAttribute(a) \/ UnassignAttribute(a) \/ DeleteAttribute(a)
    \/ \E e \in Entities : DeleteEntity(e)
    \/ \E es \in SUBSET Entities : RecomputeScores(es)

Spec == Init /\ [][Next]_scoreVars

-----------------------------------------------------------------------------
(* What the scores promise. *)

\* Types; and no two recalculations hold the same score row.
TypeOK ==
    /\ entity \subseteq Entities /\ attribute \subseteq Attributes
    /\ assigned \subseteq attribute /\ cell \subseteq entity \X attribute
    /\ \A e \in Entities :
         /\ score[e].stale \in BOOLEAN /\ score[e].by \in {"none", "matrix", "validation"}
         /\ score[e].exists => e \in entity /\ score[e].over \subseteq Entities
         /\ score[e].seen <= clock /\ edited[e] <= clock
    /\ \A r, q \in Requests : r # q => req[r].locked \cap req[q].locked = {}
    /\ clock \in 0..MaxEdits /\ faults \in 0..MaxFaults /\ excused \subseteq Entities

\* When no request is under way, a score of the matrix that is not marked stale
\* counts every edit of the entity's own cells and of the weights (routers/matrix.py
\* and attributes.py recalculate after each), however the requests overlapped: the
\* row locks make a recalculation read after the one before it has written.  Not so,
\* until its next recalculation, for an entity whose recalculation failed, for the
\* stale mark is rolled back with the rest, nor for a first score, which has no row to
\* lock: an edit and a recalculation may pass it by.  And nothing is said of the edits
\* of the other entities in score[e].over, which move the maximum.
OwnEditsAreScored ==
    (\A r \in Requests : req[r].pc = "idle") =>
        \A e \in entity \ excused :
            score[e].by = "matrix" /\ ~score[e].stale => score[e].seen >= edited[e]
===============================================================================
