---------------------------- MODULE CampaignCatalog ----------------------------
(***************************************************************************)
(* Campaigns with their status and audit trail, the entities and           *)
(* attributes typed into them or copied from another campaign, a library   *)
(* or a template, and the programs that group campaigns (app/routers/ and  *)
(* app/db/ campaigns, entities, attributes, library, templates and         *)
(* programs).  A statement is a transaction of its own, except that a      *)
(* change of status, an assignment to a program and a clone are one        *)
(* transaction of several.  An entity is its label and its GWM id, an      *)
(* attribute its label: their unique indexes are over these.  What the     *)
(* matrix and the scores do is in CampaignScores.                          *)
(***************************************************************************)
EXTENDS Naturals

CONSTANTS
    Users,       \* who sends requests
    Members,     \* those who are in the team
    Campaigns, Programs,  \* identities
    Items,       \* entities: records of a label and a GWM id, or NoId
    NoId,        \* no GWM id
    Labels,      \* labels of attributes
    MaxRequests  \* a bound: how many requests are made

VARIABLES
    campaign,   \* playbook.campaigns: owner, team, status
    audit,      \* playbook.campaign_status_audit: rows that are only told apart, and
                \* listed, by changed_at, when their transaction began
    entities,   \* playbook.entities of each campaign
    attributes, \* playbook.attributes of each campaign
    library,    \* entity_library and attribute_library: owner, team, item
    templates,  \* playbook.attribute_templates: owner, attributes
    program,    \* playbook.programs: owner, team
    assigned,   \* playbook.program_campaigns
    req,        \* what each user's request is doing
    requests    \* how many requests were made

catalogVars == <<campaign, audit, entities, attributes, library, templates, program, assigned,
                 req, requests>>
things == <<entities, attributes, library, templates>>
groups == <<program, assigned>>

Nothing == [exists |-> FALSE]
Idle == [pc |-> "idle"]

Init ==
    /\ campaign = [c \in Campaigns |-> Nothing] /\ audit = [c \in Campaigns |-> {}]
    /\ entities = [c \in Campaigns |-> {}] /\ attributes = [c \in Campaigns |-> {}]
    /\ library = {} /\ templates = {}
    /\ program = [p \in Programs |-> Nothing] /\ assigned = {}
    /\ req = [u \in Users |-> Idle]
    /\ requests = 0

\* A request of u begins and does r next; a request of one statement is over.
Begin(u, r) ==
    /\ req[u] = Idle /\ requests < MaxRequests
    /\ requests' = requests + 1
    /\ req' = [req EXCEPT ![u] = r]
Once(u) == Begin(u, Idle)
At(u, pc) == req[u].pc = pc /\ req' = [req EXCEPT ![u] = Idle] /\ UNCHANGED requests

\* _get_owned_campaign and its like: a member of the team, or the owner.
MayUse(u, row) == row.exists /\ IF row.team THEN u \in Members ELSE row.owner = u
New(u, team) == [exists |-> TRUE, owner |-> u, team |-> team]

-----------------------------------------------------------------------------
(* Campaigns and their status. *)

Insert(c, u, team) ==
    /\ campaign[c] = Nothing
    /\ campaign' = [campaign EXCEPT ![c] =
         [exists |-> TRUE, owner |-> u, team |-> team, status |-> "draft", locked |-> FALSE]]

CreateCampaign(u, c, team) ==
    /\ team => u \in Members
    /\ Once(u) /\ Insert(c, u, team)
    /\ UNCHANGED <<audit, things, groups>>

\* Everything that belongs to it goes with it; a lock on its row is waited for.
DeleteCampaign(u, c) ==
    /\ campaign[c].exists /\ ~campaign[c].locked
    /\ campaign[c].owner = u \/ (campaign[c].team /\ u \in Members)
    /\ Once(u)
    /\ campaign' = [campaign EXCEPT ![c] = [exists |-> FALSE, owner |-> u]]
    /\ audit' = [audit EXCEPT ![c] = {}]
    /\ entities' = [entities EXCEPT ![c] = {}] /\ attributes' = [attributes EXCEPT ![c] = {}]
    /\ assigned' = {x \in assigned : x[2] # c}
    /\ UNCHANGED <<library, templates, program>>

\* One transaction; the copy is a draft of the user who asked for it, in the
\* same team.
CloneCampaign(u, c, copy) ==
    /\ MayUse(u, campaign[c]) /\ Once(u) /\ Insert(copy, u, campaign[c].team)
    /\ entities' = [entities EXCEPT ![copy] = entities[c]]
    /\ attributes' = [attributes EXCEPT ![copy] = attributes[c]]
    /\ UNCHANGED <<audit, library, templates, groups>>

Allowed(status) ==
    CASE status = "draft" -> {"active"}
      [] status = "active" -> {"completed", "archived"}
      [] status = "completed" -> {"archived"}
      [] status = "archived" -> {}

\* BEGIN: what NOW() is for the rest of the transaction; requests are the clock.  The
\* status asked for is named in the next step, before which nothing depends on it.
BeginTransition(u, c) ==
    /\ campaign[c].exists
    /\ Begin(u, [pc |-> "begun", c |-> c, at |-> requests + 1])
    /\ UNCHANGED <<campaign, audit, things, groups>>

\* SELECT ... FOR UPDATE, the access check and the check of the transition, which
\* may end it; (mutant: without the lock).
ReadStatus(u, new, locked) ==
    /\ req[u].pc = "begun"
    /\ LET c == req[u].c IN
         IF MayUse(u, campaign[c]) /\ new \in Allowed(campaign[c].status)
         THEN /\ req' = [req EXCEPT ![u] = [pc |-> "transition", c |-> c, at |-> @.at,
                            old |-> campaign[c].status, new |-> new]]
              /\ campaign' = [campaign EXCEPT ![c].locked = locked]
         ELSE req' = [req EXCEPT ![u] = Idle] /\ UNCHANGED campaign
    /\ UNCHANGED <<audit, things, groups, requests>>
LockStatusNot(u, new) == ReadStatus(u, new, FALSE)
LockStatus(u, new) ==
    /\ req[u].pc = "begun"
    /\ campaign[req[u].c].exists => ~campaign[req[u].c].locked
    /\ ReadStatus(u, new, TRUE)

\* The update, the audit row and the commit.
ChangeStatus(u) ==
    /\ At(u, "transition")
    /\ LET c == req[u].c IN
         IF campaign[c].exists
         THEN /\ campaign' = [campaign EXCEPT ![c].status = req[u].new, ![c].locked = FALSE]
              /\ audit' = [audit EXCEPT ![c] =
                   @ \cup {[old |-> req[u].old, new |-> req[u].new, at |-> req[u].at]}]
         ELSE UNCHANGED <<campaign, audit>>
    /\ UNCHANGED <<things, groups>>

-----------------------------------------------------------------------------
(* Entities and attributes. *)

Clash(i, j) == i.label = j.label \/ (i.gwm = j.gwm /\ i.gwm # NoId)

\* INSERT ... SELECT ... ON CONFLICT DO NOTHING: what may be in the table after
\* rows were inserted one by one into what it holds.
Merged(held, rows) ==
    {held \cup k : k \in {k \in SUBSET rows :
        /\ \A i \in k, j \in held \cup k : i = j \/ ~Clash(i, j)
        /\ \A i \in rows \ k : \E j \in held \cup k : Clash(i, j)}}

AddEntities(u, c, rows) ==
    /\ MayUse(u, campaign[c]) /\ rows # {} /\ Once(u)
    /\ \E merged \in Merged(entities[c] , rows) : entities' = [entities EXCEPT ![c] = merged]
    /\ UNCHANGED <<campaign, audit, attributes, library, templates, groups>>

\* Create and update look the label up first; a clash refuses the request.
CheckLabel(u, c, old, new) ==
    /\ MayUse(u, campaign[c]) /\ old \subseteq entities[c]
    /\ \A i \in entities[c] \ old : i.label # new.label
    /\ Begin(u, [pc |-> "entity", c |-> c, old |-> old, new |-> new])
    /\ UNCHANGED <<campaign, audit, things, groups>>

\* The statement after the check: the campaign or the row may be gone, and a
\* unique index may refuse what another request has taken meanwhile.
WriteEntity(u) ==
    /\ At(u, "entity")
    /\ LET c == req[u].c  rest == entities[c] \ req[u].old IN
       entities' = IF /\ campaign[c].exists /\ req[u].old \subseteq entities[c]
                      /\ \A i \in rest : ~Clash(i, req[u].new)
                   THEN [entities EXCEPT ![c] = rest \cup {req[u].new}]
                   ELSE entities
    /\ UNCHANGED <<campaign, audit, attributes, library, templates, groups>>

DeleteEntities(u, c, rows) ==
    /\ MayUse(u, campaign[c]) /\ rows # {} /\ Once(u)
    /\ entities' = [entities EXCEPT ![c] = @ \ rows]
    /\ UNCHANGED <<campaign, audit, attributes, library, templates, groups>>

\* From another campaign, or from the library: of the team, or one's own.
ImportEntities(u, c, from) ==
    MayUse(u, campaign[from]) /\ AddEntities(u, c, entities[from])
Usable(u, c) == {x \in library : IF campaign[c].team THEN x.team ELSE x.owner = u}
ImportFromLibrary(u, c, rows) ==
    /\ MayUse(u, campaign[c])
    /\ \/ AddEntities(u, c, {x.item : x \in {x \in Usable(u, c) : x.item \in rows}})
       \/ AddEntities(u, c, {x.item : x \in {x \in library : x.item \in rows}})  \* /entities/assign

\* Attributes: one more, several (labels taken are skipped), another label, fewer.
SetAttributes(u, c, labels) ==
    /\ MayUse(u, campaign[c]) /\ Once(u)
    /\ attributes' = [attributes EXCEPT ![c] = labels]
    /\ UNCHANGED <<campaign, audit, entities, library, templates, groups>>
AddAttributes(u, c, labels) == labels # {} /\ SetAttributes(u, c, attributes[c] \cup labels)
RenameAttribute(u, c, old, new) ==
    /\ old \in attributes[c] /\ new \notin attributes[c] \ {old}
    /\ SetAttributes(u, c, (attributes[c] \ {old}) \cup {new})
DeleteAttributes(u, c, labels) == labels # {} /\ SetAttributes(u, c, attributes[c] \ labels)
ImportAttributes(u, c, from) ==
    MayUse(u, campaign[from]) /\ SetAttributes(u, c, attributes[c] \cup attributes[from])

-----------------------------------------------------------------------------
(* Libraries, templates and programs. *)

\* A library holds a label once: of the team, or of the owner.
SameShelf(x, y) == x.team = y.team /\ (x.team \/ x.owner = y.owner) /\ x.item.label = y.item.label
AddToLibrary(u, team, item) ==
    /\ team => u \in Members
    /\ Once(u)
    /\ LET new == [owner |-> u, team |-> team, item |-> item] IN
       library' = IF \E y \in library : SameShelf(new, y) THEN library ELSE library \cup {new}
    /\ UNCHANGED <<campaign, audit, entities, attributes, templates, groups>>

\* Only its owner changes or deletes an item, of the team's library too.
ChangeInLibrary(u, x, item) ==
    /\ x \in library /\ x.owner = u /\ Once(u)
    /\ LET new == [x EXCEPT !.item = item] IN
       /\ \A y \in library \ {x} : ~SameShelf(new, y)
       /\ library' = (library \ {x}) \cup {new}
    /\ UNCHANGED <<campaign, audit, entities, attributes, templates, groups>>
RemoveFromLibrary(u, x) ==
    /\ x \in library /\ x.owner = u /\ Once(u)
    /\ library' = library \ {x}
    /\ UNCHANGED <<campaign, audit, entities, attributes, templates, groups>>

SaveTemplate(u, c) ==
    /\ MayUse(u, campaign[c]) /\ Once(u)
    /\ templates' = templates \cup {[owner |-> u, attributes |-> attributes[c]]}
    /\ UNCHANGED <<campaign, audit, entities, attributes, library, groups>>
DeleteTemplate(u, t) ==
    /\ t \in templates /\ t.owner = u /\ Once(u)
    /\ templates' = templates \ {t}
    /\ UNCHANGED <<campaign, audit, entities, attributes, library, groups>>

CreateProgram(u, p, team) ==
    /\ team => u \in Members
    /\ program[p] = Nothing /\ Once(u)
    /\ program' = [program EXCEPT ![p] = New(u, team)]
    /\ UNCHANGED <<campaign, audit, things, assigned>>
DeleteProgram(u, p) ==
    /\ MayUse(u, program[p]) /\ Once(u)
    /\ program' = [program EXCEPT ![p] = [@ EXCEPT !.exists = FALSE]]
    /\ assigned' = {x \in assigned : x[1] # p}
    /\ UNCHANGED <<campaign, audit, things>>

\* SELECT ... FOR UPDATE of the campaign's assignments: it locks the rows there
\* are, and there is none when the campaign is in no program.
CheckProgram(u, p, c) ==
    /\ MayUse(u, program[p])
    /\ \A x \in assigned : x[2] = c => x[1] = p
    /\ Begin(u, [pc |-> "assign", p |-> p, c |-> c])
    /\ UNCHANGED <<campaign, audit, things, groups>>
AssignCampaign(u) ==
    /\ At(u, "assign")
    /\ assigned' = IF campaign[req[u].c].exists /\ program[req[u].p].exists
                   THEN assigned \cup {<<req[u].p, req[u].c>>} ELSE assigned
    /\ UNCHANGED <<campaign, audit, things, program>>
UnassignCampaign(u, x) ==
    /\ x \in assigned /\ MayUse(u, program[x[1]]) /\ Once(u)
    /\ assigned' = assigned \ {x}
    /\ UNCHANGED <<campaign, audit, things, program>>

Next ==
    \E u \in Users :
      \/ \E c \in Campaigns :
           \/ \E team \in BOOLEAN : CreateCampaign(u, c, team)
           \/ DeleteCampaign(u, c)
           \/ \E copy \in Campaigns : CloneCampaign(u, c, copy)
           \/ BeginTransition(u, c)
           \/ \E rows \in SUBSET Items :
                \/ AddEntities(u, c, rows) \/ DeleteEntities(u, c, rows)
                \/ ImportFromLibrary(u, c, rows)
           \/ \E new \in Items : \/ CheckLabel(u, c, {}, new)
                                 \/ \E old \in entities[c] : CheckLabel(u, c, {old}, new)
           \/ \E from \in Campaigns : ImportEntities(u, c, from) \/ ImportAttributes(u, c, from)
           \/ \E labels \in SUBSET Labels : AddAttributes(u, c, labels) \/ DeleteAttributes(u, c, labels)
           \/ \E old, new \in Labels : RenameAttribute(u, c, old, new)
           \/ SaveTemplate(u, c)
           \/ \E p \in Programs : CheckProgram(u, p, c)
      \/ \E team \in BOOLEAN, item \in Items : AddToLibrary(u, team, item)
      \/ \E x \in library : RemoveFromLibrary(u, x) \/ \E item \in Items : ChangeInLibrary(u, x, item)
      \/ \E t \in templates : DeleteTemplate(u, t)
      \/ \E p \in Programs, team \in BOOLEAN : CreateProgram(u, p, team) \/ DeleteProgram(u, p)
      \/ \E x \in assigned : UnassignCampaign(u, x)
      \/ \E new \in {"active", "completed", "archived"} : LockStatus(u, new)
      \/ ChangeStatus(u) \/ WriteEntity(u) \/ AssignCampaign(u)

Spec == Init /\ [][Next]_catalogVars

-----------------------------------------------------------------------------
(* What the catalog promises. *)

\* Types; what belongs to a campaign does not outlive it.
TypeOK ==
    /\ \A c \in Campaigns :
         /\ entities[c] \subseteq Items /\ attributes[c] \subseteq Labels
         /\ campaign[c].exists =>
              campaign[c].status \in {"draft", "active", "completed", "archived"}
         /\ ~campaign[c].exists => entities[c] = {} /\ attributes[c] = {} /\ audit[c] = {}
    /\ \A x \in library : x.item \in Items /\ x.owner \in Users
    /\ assigned \subseteq Programs \X Campaigns
    /\ \A x \in assigned : campaign[x[2]].exists /\ program[x[1]].exists
    /\ requests \in 0..MaxRequests

\* The audit rows of a campaign tell its whole story: each status was left once, each
\* row starts at "draft" or where another one ends, and the status the campaign has is
\* where a row ends and none starts (db_transition_campaign_status checks and writes
\* under one row lock, so that no two requests leave one status).  As a status is never
\* taken again, that is one chain, whatever the order of the rows: their only order is
\* changed_at, and a transition that waited for the lock has the earlier time and is
\* listed before the one it follows.
AuditIsAChain ==
    \A c \in Campaigns : campaign[c].exists =>
        /\ \A x, y \in audit[c] : x.old = y.old => x = y
        /\ \A x \in audit[c] : x.old = "draft" \/ \E y \in audit[c] : y.new = x.old
        /\ campaign[c].status = "draft" \/ \E x \in audit[c] : x.new = campaign[c].status
        /\ \A x \in audit[c] : x.old # campaign[c].status
===============================================================================
