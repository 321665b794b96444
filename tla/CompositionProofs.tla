------------------------- MODULE CompositionProofs -------------------------
(***************************************************************************)
(* First the campaigns: the audit rows of each make a chain, for every     *)
(* number of users, campaigns, programs, items and requests, and scores    *)
(* that are not marked stale count the edits of their own entity, for      *)
(* every number of requests, entities, attributes, edits and failures.     *)
(* Then all services together: a behaviour of Services is one of a single  *)
(* service, so what ServiceProofs, DocumentProofs and the first part say   *)
(* of each holds of the whole, for every value of the constants.           *)
(***************************************************************************)
EXTENDS Services, ServiceProofs, DocumentProofs

-----------------------------------------------------------------------------
(* The campaigns and the trails of their status *)

Status == {"draft", "active", "completed", "archived"}
Live == [exists : {TRUE}, owner : Users, team : BOOLEAN, status : Status, locked : BOOLEAN]
Gone == {Catalog!Nothing} \cup [exists : {FALSE}, owner : Users]
Row == [old : Status, new : Status, at : Nat]
Transition == [pc : {"transition"}, c : Campaigns, at : Nat, old : Status, new : Status]
Plain == {Catalog!Idle} \cup [pc : {"begun"}, c : Campaigns, at : Nat]
                \cup [pc : {"entity"}, c : Campaigns, old : SUBSET Items, new : Items]
                \cup [pc : {"assign"}, p : Programs, c : Campaigns]

\* Every variable's values.
CatalogTypes ==
    /\ campaign \in [Campaigns -> Live \cup Gone]
    /\ audit \in [Campaigns -> SUBSET Row]
    /\ entities \in [Campaigns -> SUBSET Items] /\ attributes \in [Campaigns -> SUBSET AttributeLabels]
    /\ library \subseteq [owner : Users, team : BOOLEAN, item : Items]
    /\ program \in [Programs -> {Catalog!Nothing} \cup [exists : BOOLEAN, owner : Users, team : BOOLEAN]]
    /\ assigned \subseteq Programs \X Campaigns
    /\ req \in [Users -> Plain \cup Transition]
    /\ requests \in Nat /\ requests <= MaxCalls

\* What belongs to a campaign or a program does not outlive it.
NothingOutlives ==
    /\ \A c \in Campaigns :
         ~ campaign[c].exists => entities[c] = {} /\ attributes[c] = {} /\ audit[c] = {}
    /\ \A x \in assigned : campaign[x[2]].exists /\ program[x[1]].exists

\* Who is about to change a status holds the row, alone, and the status is still the
\* one that was read.
StatusLocks ==
    \A u \in Users : req[u].pc = "transition" =>
        /\ campaign[req[u].c].exists /\ campaign[req[u].c].locked
        /\ campaign[req[u].c].status = req[u].old /\ req[u].new \in Catalog!Allowed(req[u].old)
        /\ \A v \in Users \ {u} : req[v].pc = "transition" => req[v].c # req[u].c

\* A status comes after those it can be reached from; that of a campaign comes after
\* every status its rows have left.
After(s) == {t \in Status : \/ s = "draft" /\ t # "draft"
                            \/ s = "active" /\ t \in {"completed", "archived"}
                            \/ s = "completed" /\ t = "archived"}
StatusOnward == \A c \in Campaigns : campaign[c].exists =>
            \A x \in audit[c] : campaign[c].status \in After(x.old)

Trails == Catalog!AuditIsAChain /\ StatusOnward

CatalogInv == CatalogTypes /\ NothingOutlives /\ StatusLocks /\ Trails

\* What is allowed leads onward, and nothing comes after itself.
LEMMA AfterFacts ==
    \A s, t \in Status : /\ t \in Catalog!Allowed(s) => t \in After(s)
                         /\ s \notin After(s)
                         /\ \A w \in Status : t \in After(s) /\ w \in Catalog!Allowed(t) => w \in After(s)
BY DEF Status, After, Catalog!Allowed

-----------------------------------------------------------------------------
(* Rows and requests *)

\* What exists is a whole row.
LEMMA Shapes ==
    ASSUME CatalogTypes
    PROVE  /\ \A c \in Campaigns :
                /\ campaign[c].exists \in BOOLEAN
                /\ campaign[c].exists => campaign[c] \in Live
                /\ campaign[c] = Catalog!Nothing => ~ campaign[c].exists
           /\ \A u \in Users :
                /\ req[u].pc = "transition" => req[u] \in Transition
                /\ req[u] = Catalog!Idle => req[u].pc # "transition"
<1>1. ASSUME NEW c \in Campaigns
      PROVE  /\ campaign[c].exists \in BOOLEAN
             /\ campaign[c].exists => campaign[c] \in Live
             /\ campaign[c] = Catalog!Nothing => ~ campaign[c].exists
  <2>1. campaign[c] \in Live \/ campaign[c] = Catalog!Nothing \/ campaign[c] \in [exists : {FALSE}, owner : Users]
    BY DEF CatalogTypes, Gone
  <2>2. Catalog!Nothing.exists = FALSE
    BY DEF Catalog!Nothing
  <2>3. \A x \in Live : x.exists = TRUE
    BY DEF Live
  <2>4. \A x \in [exists : {FALSE}, owner : Users] : x.exists = FALSE
    OBVIOUS
  <2>. QED
    BY <2>1, <2>2, <2>3, <2>4, Zenon
<1>2. ASSUME NEW u \in Users
      PROVE  /\ req[u].pc = "transition" => req[u] \in Transition
             /\ req[u] = Catalog!Idle => req[u].pc # "transition"
  <2>1. \/ req[u] \in Transition \/ req[u] = Catalog!Idle
        \/ req[u] \in [pc : {"begun"}, c : Campaigns, at : Nat]
        \/ req[u] \in [pc : {"entity"}, c : Campaigns, old : SUBSET Items, new : Items]
        \/ req[u] \in [pc : {"assign"}, p : Programs, c : Campaigns]
    BY DEF CatalogTypes, Plain
  <2>. QED
    BY <2>1 DEF Catalog!Idle
<1>. QED
  BY <1>1, <1>2

\* A request that begins with k, or is of one statement, or does its last one.
Moves(u, k) ==
    /\ req' = [req EXCEPT ![u] = k]
    /\ requests' \in Nat /\ requests' <= MaxCalls

\* What the first and the last statement of a request make of it.
LEMMA RequestValues ==
    ASSUME CatalogTypes, MaxCalls \in Nat, NEW u \in Users
    PROVE  /\ \A k : Catalog!Begin(u, k) => Moves(u, k) /\ req[u] = Catalog!Idle
           /\ Catalog!Once(u) => Moves(u, Catalog!Idle) /\ req[u] = Catalog!Idle
           /\ \A at : Catalog!At(u, at) => Moves(u, Catalog!Idle) /\ req[u].pc = at
           /\ Catalog!Idle \in Plain
BY DEF CatalogTypes, Catalog!Begin, Catalog!Once, Catalog!At, Moves, Plain

\* What a step makes of the requests.
LEMMA Moved ==
    ASSUME CatalogTypes, NEW u \in Users, NEW k \in Plain \cup Transition, Moves(u, k)
    PROVE  /\ req' \in [Users -> Plain \cup Transition]
           /\ req'[u] = k /\ \A v \in Users \ {u} : req'[v] = req[v]
           /\ requests' \in Nat /\ requests' <= MaxCalls
BY DEF CatalogTypes, Moves

\* Nothing but a transition waits for a status.
LEMMA PlainWaits == \A k \in Plain : k.pc # "transition"
BY DEF Plain, Catalog!Idle

-----------------------------------------------------------------------------
(* Steps that leave campaigns and their trails alone *)

Aside(u) == /\ UNCHANGED <<campaign, audit>>
            /\ \E k \in Plain : Moves(u, k)

\* They keep the trail and the locks.
LEMMA AsideKeeps ==
    ASSUME CatalogTypes, StatusLocks, Trails, NEW u \in Users, Aside(u)
    PROVE  StatusLocks' /\ Trails' /\ req' \in [Users -> Plain \cup Transition]
           /\ requests' \in Nat /\ requests' <= MaxCalls
<1>1. PICK k \in Plain : Moves(u, k)
  BY DEF Aside
<1>2. /\ req' \in [Users -> Plain \cup Transition]
      /\ req'[u] = k /\ \A v \in Users \ {u} : req'[v] = req[v]
      /\ requests' \in Nat /\ requests' <= MaxCalls
  BY <1>1, Moved
<1>3. req'[u].pc # "transition"
  BY <1>2, PlainWaits
<1>4. StatusLocks'
  BY <1>2, <1>3 DEF StatusLocks, Aside
<1>5. Trails'
  BY DEF Trails, StatusOnward, Catalog!AuditIsAChain, Aside
<1>. QED
  BY <1>2, <1>4, <1>5

\* The entities of a campaign that somebody may use change.
EntitySteps(u, c) ==
    \/ \E saved \in SUBSET Items :
         \/ Catalog!AddEntities(u, c, saved) \/ Catalog!DeleteEntities(u, c, saved) \/ Catalog!ImportFromLibrary(u, c, saved)
    \/ \E from \in Campaigns : Catalog!ImportEntities(u, c, from)

\* They are items still, of a campaign there is.
LEMMA EntityStepsKeep ==
    ASSUME CatalogInv, MaxCalls \in Nat, NEW u \in Users, NEW c \in Campaigns, EntitySteps(u, c)
    PROVE  CatalogInv'
<1>0. CatalogTypes /\ NothingOutlives /\ StatusLocks /\ Trails
  BY DEF CatalogInv
<1>1. ASSUME NEW saved \in SUBSET Items, Catalog!AddEntities(u, c, saved)
      PROVE  /\ Aside(u) /\ campaign[c].exists
             /\ UNCHANGED <<attributes, library, Catalog!groups>>
             /\ \E es \in SUBSET Items : entities' = [entities EXCEPT ![c] = es]
  <2>1. PICK merged \in Catalog!Merged(entities[c], saved) : entities' = [entities EXCEPT ![c] = merged]
    BY <1>1 DEF Catalog!AddEntities
  <2>2. merged \subseteq entities[c] \cup saved
    BY <2>1 DEF Catalog!Merged
  <2>3. merged \in SUBSET Items
    BY <1>0, <2>2 DEF CatalogTypes
  <2>4. Aside(u)
    BY <1>0, <1>1, RequestValues DEF Catalog!AddEntities, Aside
  <2>. QED
    BY <1>1, <2>1, <2>3, <2>4 DEF Catalog!AddEntities, Catalog!MayUse, Catalog!things
<1>2. ASSUME NEW saved \in SUBSET Items, Catalog!DeleteEntities(u, c, saved)
      PROVE  /\ Aside(u) /\ campaign[c].exists
             /\ UNCHANGED <<attributes, library, Catalog!groups>>
             /\ \E es \in SUBSET Items : entities' = [entities EXCEPT ![c] = es]
  <2>1. entities[c] \ saved \in SUBSET Items
    BY <1>0 DEF CatalogTypes
  <2>2. entities' = [entities EXCEPT ![c] = entities[c] \ saved]
    BY <1>2 DEF Catalog!DeleteEntities
  <2>3. Aside(u)
    BY <1>0, <1>2, RequestValues DEF Catalog!DeleteEntities, Aside
  <2>. QED
    BY <1>2, <2>1, <2>2, <2>3 DEF Catalog!DeleteEntities, Catalog!MayUse
<1>3. ASSUME NEW from \in Campaigns, Catalog!ImportEntities(u, c, from)
      PROVE  \E saved \in SUBSET Items : Catalog!AddEntities(u, c, saved)
  BY <1>0, <1>3 DEF Catalog!ImportEntities, CatalogTypes
<1>4. ASSUME NEW saved \in SUBSET Items, Catalog!ImportFromLibrary(u, c, saved)
      PROVE  \E more \in SUBSET Items : Catalog!AddEntities(u, c, more)
  <2>1. /\ {x.item : x \in {x \in Catalog!Usable(u, c) : x.item \in saved}} \in SUBSET Items
        /\ {x.item : x \in {x \in library : x.item \in saved}} \in SUBSET Items
    OBVIOUS
  <2>. QED
    BY <1>4, <2>1, Zenon DEF Catalog!ImportFromLibrary
<1>5. /\ Aside(u) /\ campaign[c].exists
      /\ UNCHANGED <<attributes, library, Catalog!groups>>
      /\ \E es \in SUBSET Items : entities' = [entities EXCEPT ![c] = es]
  BY <1>1, <1>2, <1>3, <1>4 DEF EntitySteps
<1>6. PICK es \in SUBSET Items : entities' = [entities EXCEPT ![c] = es]
  BY <1>5
<1>7. UNCHANGED <<campaign, audit>>
  BY <1>5 DEF Aside
<1>8. CatalogTypes'
  BY <1>0, <1>5, <1>6, <1>7, AsideKeeps DEF CatalogTypes, Catalog!groups
<1>9. NothingOutlives'
  BY <1>0, <1>5, <1>6, <1>7 DEF NothingOutlives, CatalogTypes, Catalog!groups
<1>. QED
  BY <1>0, <1>5, <1>8, <1>9, AsideKeeps DEF CatalogInv

\* So do its attributes.
AttributeSteps(u, c) ==
    \/ \E labels \in SUBSET AttributeLabels : Catalog!AddAttributes(u, c, labels) \/ Catalog!DeleteAttributes(u, c, labels)
    \/ \E old, new \in AttributeLabels : Catalog!RenameAttribute(u, c, old, new)
    \/ \E from \in Campaigns : Catalog!ImportAttributes(u, c, from)

\* And they are labels still.
LEMMA AttributeStepsKeep ==
    ASSUME CatalogInv, MaxCalls \in Nat, NEW u \in Users, NEW c \in Campaigns, AttributeSteps(u, c)
    PROVE  CatalogInv'
<1>0. CatalogTypes /\ NothingOutlives /\ StatusLocks /\ Trails
  BY DEF CatalogInv
<1>1. PICK labels \in SUBSET AttributeLabels : Catalog!SetAttributes(u, c, labels)
  BY <1>0 DEF AttributeSteps, Catalog!AddAttributes, Catalog!DeleteAttributes, Catalog!RenameAttribute, Catalog!ImportAttributes, CatalogTypes
<1>2. Aside(u)
  BY <1>0, <1>1, RequestValues DEF Catalog!SetAttributes, Aside
<1>3. /\ UNCHANGED <<campaign, audit, entities, library, Catalog!groups>> /\ campaign[c].exists
      /\ attributes' = [attributes EXCEPT ![c] = labels]
  BY <1>1 DEF Catalog!SetAttributes, Catalog!MayUse
<1>4. CatalogTypes'
  BY <1>0, <1>2, <1>3, AsideKeeps DEF CatalogTypes, Catalog!groups
<1>5. NothingOutlives'
  BY <1>0, <1>3 DEF NothingOutlives, CatalogTypes, Catalog!groups
<1>. QED
  BY <1>0, <1>2, <1>4, <1>5, AsideKeeps DEF CatalogInv

\* An entity that is created or changed, in two statements.
AttributeLabelSteps(u) ==
    \/ \E c \in Campaigns, new \in Items :
         Catalog!CheckLabel(u, c, {}, new) \/ \E old \in entities[c] : Catalog!CheckLabel(u, c, {old}, new)
    \/ Catalog!WriteEntity(u)

\* What it writes is an item, if the campaign is still there.
LEMMA AttributeLabelStepsKeep ==
    ASSUME CatalogInv, MaxCalls \in Nat, NEW u \in Users, AttributeLabelSteps(u)
    PROVE  CatalogInv'
<1>0. CatalogTypes /\ NothingOutlives /\ StatusLocks /\ Trails
  BY DEF CatalogInv
<1>1. CASE Catalog!WriteEntity(u)
  <2>1. Aside(u) /\ UNCHANGED <<attributes, library, Catalog!groups>>
    BY <1>0, <1>1, RequestValues DEF Catalog!WriteEntity, Aside
  <2>2. req[u] \in [pc : {"entity"}, c : Campaigns, old : SUBSET Items, new : Items]
    <3>1. req[u].pc = "entity"
      BY <1>1 DEF Catalog!WriteEntity, Catalog!At
    <3>2. \/ req[u] \in Transition \/ req[u] = Catalog!Idle
          \/ req[u] \in [pc : {"begun"}, c : Campaigns, at : Nat]
          \/ req[u] \in [pc : {"entity"}, c : Campaigns, old : SUBSET Items, new : Items]
          \/ req[u] \in [pc : {"assign"}, p : Programs, c : Campaigns]
      BY <1>0 DEF CatalogTypes, Plain
    <3>. QED
      BY <3>1, <3>2 DEF Catalog!Idle, Transition
  <2>3. PICK c : c = req[u].c
    OBVIOUS
  <2>4. PICK es : es = (entities[c] \ req[u].old) \cup {req[u].new}
    OBVIOUS
  <2>5. c \in Campaigns /\ es \in SUBSET Items
    BY <1>0, <2>2, <2>3, <2>4 DEF CatalogTypes
  <2>6. \/ entities' = entities
        \/ campaign[c].exists /\ entities' = [entities EXCEPT ![c] = es]
    BY <1>1, <2>3, <2>4 DEF Catalog!WriteEntity
  <2>7. UNCHANGED <<campaign, audit>>
    BY <2>1 DEF Aside
  <2>8. CatalogTypes'
    BY <1>0, <2>1, <2>5, <2>6, <2>7, AsideKeeps DEF CatalogTypes, Catalog!groups
  <2>9. NothingOutlives'
    BY <1>0, <2>1, <2>5, <2>6, <2>7 DEF NothingOutlives, CatalogTypes, Catalog!groups
  <2>. QED
    BY <1>0, <2>1, <2>8, <2>9, AsideKeeps DEF CatalogInv
<1>2. ASSUME NEW c \in Campaigns, NEW new \in Items, NEW old \in SUBSET Items, Catalog!CheckLabel(u, c, old, new)
      PROVE  CatalogInv'
  <2>1. PICK k : k = [pc |-> "entity", c |-> c, old |-> old, new |-> new]
    OBVIOUS
  <2>2. k \in Plain
    BY <2>1 DEF Plain
  <2>3. Catalog!Begin(u, k) /\ UNCHANGED <<campaign, audit, Catalog!things, Catalog!groups>>
    BY <1>2, <2>1 DEF Catalog!CheckLabel
  <2>4. Aside(u)
    BY <1>0, <2>2, <2>3, RequestValues DEF Aside
  <2>5. CatalogTypes'
    BY <1>0, <2>3, <2>4, AsideKeeps DEF CatalogTypes, Catalog!things, Catalog!groups
  <2>6. NothingOutlives'
    BY <1>0, <2>3 DEF NothingOutlives, Catalog!things, Catalog!groups
  <2>. QED
    BY <1>0, <2>4, <2>5, <2>6, AsideKeeps DEF CatalogInv
<1>3. \A c \in Campaigns : {} \in SUBSET Items /\ \A old \in entities[c] : {old} \in SUBSET Items
  BY <1>0 DEF CatalogTypes
<1>. QED
  BY <1>1, <1>2, <1>3 DEF AttributeLabelSteps

-----------------------------------------------------------------------------
(* Libraries, templates and programs *)

LibrarySteps(u) ==
    \/ \E shared \in BOOLEAN, item \in Items : Catalog!AddToLibrary(u, shared, item)
    \/ \E x \in library : Catalog!RemoveFromLibrary(u, x) \/ \E item \in Items : Catalog!ChangeInLibrary(u, x, item)
    \/ \E c \in Campaigns : Catalog!SaveTemplate(u, c)
    \/ \E t \in templates : Catalog!DeleteTemplate(u, t)

\* No campaign sees what is done to the libraries and the templates.
LEMMA LibraryStepsKeep ==
    ASSUME CatalogInv, MaxCalls \in Nat, NEW u \in Users, LibrarySteps(u)
    PROVE  CatalogInv'
<1>0. CatalogTypes /\ NothingOutlives /\ StatusLocks /\ Trails
  BY DEF CatalogInv
<1>1. PICK Book : Book = [owner : Users, team : BOOLEAN, item : Items]
  OBVIOUS
<1>2. library \subseteq Book
  BY <1>0, <1>1 DEF CatalogTypes
<1>3. ASSUME NEW shared \in BOOLEAN, NEW item \in Items, Catalog!AddToLibrary(u, shared, item)
      PROVE  Catalog!Once(u) /\ library' \subseteq Book /\ UNCHANGED <<campaign, audit, entities, attributes, Catalog!groups>>
  <2>1. PICK new : new = [owner |-> u, team |-> shared, item |-> item]
    OBVIOUS
  <2>2. new \in Book
    BY <1>1, <2>1
  <2>3. library' = library \/ library' = library \cup {new}
    BY <1>3, <2>1 DEF Catalog!AddToLibrary
  <2>. QED
    BY <1>2, <1>3, <2>2, <2>3 DEF Catalog!AddToLibrary
<1>4. ASSUME NEW x \in library, NEW item \in Items, Catalog!ChangeInLibrary(u, x, item)
      PROVE  Catalog!Once(u) /\ library' \subseteq Book /\ UNCHANGED <<campaign, audit, entities, attributes, Catalog!groups>>
  <2>1. PICK new : new = [x EXCEPT !.item = item]
    OBVIOUS
  <2>2. new \in Book
    BY <1>1, <1>2, <2>1
  <2>3. library' = (library \ {x}) \cup {new}
    BY <1>4, <2>1 DEF Catalog!ChangeInLibrary
  <2>. QED
    BY <1>2, <1>4, <2>2, <2>3 DEF Catalog!ChangeInLibrary
<1>5. ASSUME NEW x \in library, Catalog!RemoveFromLibrary(u, x)
      PROVE  Catalog!Once(u) /\ library' \subseteq Book /\ UNCHANGED <<campaign, audit, entities, attributes, Catalog!groups>>
  BY <1>2, <1>5 DEF Catalog!RemoveFromLibrary
<1>6. ASSUME \/ \E c \in Campaigns : Catalog!SaveTemplate(u, c)
             \/ \E t \in templates : Catalog!DeleteTemplate(u, t)
      PROVE  Catalog!Once(u) /\ library' \subseteq Book /\ UNCHANGED <<campaign, audit, entities, attributes, Catalog!groups>>
  BY <1>2, <1>6 DEF Catalog!SaveTemplate, Catalog!DeleteTemplate
<1>7. Catalog!Once(u) /\ library' \subseteq Book /\ UNCHANGED <<campaign, audit, entities, attributes, Catalog!groups>>
  BY <1>3, <1>4, <1>5, <1>6 DEF LibrarySteps
<1>8. Aside(u)
  BY <1>0, <1>7, RequestValues DEF Aside
<1>9. CatalogTypes'
  BY <1>0, <1>1, <1>7, <1>8, AsideKeeps DEF CatalogTypes, Catalog!groups
<1>10. NothingOutlives'
  BY <1>0, <1>7 DEF NothingOutlives, Catalog!groups
<1>. QED
  BY <1>0, <1>8, <1>9, <1>10, AsideKeeps DEF CatalogInv

ProgramSteps(u) ==
    \/ \E p \in Programs, shared \in BOOLEAN : Catalog!CreateProgram(u, p, shared) \/ Catalog!DeleteProgram(u, p)
    \/ \E p \in Programs, c \in Campaigns : Catalog!CheckProgram(u, p, c)
    \/ \E x \in assigned : Catalog!UnassignCampaign(u, x)
    \/ Catalog!AssignCampaign(u)

\* A program has only campaigns there are.
LEMMA ProgramStepsKeep ==
    ASSUME CatalogInv, MaxCalls \in Nat, NEW u \in Users, ProgramSteps(u)
    PROVE  CatalogInv'
<1>0. CatalogTypes /\ NothingOutlives /\ StatusLocks /\ Trails
  BY DEF CatalogInv
<1>1. PICK Group : Group = {Catalog!Nothing} \cup [exists : BOOLEAN, owner : Users, team : BOOLEAN]
  OBVIOUS
<1>2. program \in [Programs -> Group]
  BY <1>0, <1>1 DEF CatalogTypes
<1>3. Catalog!Nothing.exists = FALSE
  BY DEF Catalog!Nothing
<1>4. ASSUME NEW p \in Programs, NEW shared \in BOOLEAN, Catalog!CreateProgram(u, p, shared)
      PROVE  /\ UNCHANGED <<campaign, audit, Catalog!things, assigned>> /\ Aside(u)
             /\ program' \in [Programs -> Group]
             /\ \A q \in Programs : program[q].exists => program'[q].exists
  <2>1. PICK k : k = Catalog!New(u, shared)
    OBVIOUS
  <2>2. k \in Group
    BY <1>1, <2>1 DEF Catalog!New
  <2>3. program' = [program EXCEPT ![p] = k]
    BY <1>4, <2>1 DEF Catalog!CreateProgram
  <2>4. program[p].exists = FALSE
    BY <1>3, <1>4 DEF Catalog!CreateProgram
  <2>5. Aside(u)
    BY <1>0, <1>4, RequestValues DEF Catalog!CreateProgram, Aside
  <2>. QED
    BY <1>2, <1>4, <2>2, <2>3, <2>4, <2>5 DEF Catalog!CreateProgram
<1>5. ASSUME NEW p \in Programs, Catalog!DeleteProgram(u, p)
      PROVE  /\ UNCHANGED <<campaign, audit, Catalog!things>> /\ Aside(u)
             /\ program' \in [Programs -> Group]
             /\ \A q \in Programs \ {p} : program[q].exists => program'[q].exists
             /\ assigned' = {x \in assigned : x[1] # p}
  <2>1. PICK k : k = [program[p] EXCEPT !.exists = FALSE]
    OBVIOUS
  <2>2. program[p].exists /\ program[p] \in Group
    BY <1>2, <1>5 DEF Catalog!DeleteProgram, Catalog!MayUse
  <2>3. program[p] \in [exists : BOOLEAN, owner : Users, team : BOOLEAN]
    BY <1>1, <1>3, <2>2
  <2>4. k \in Group
    BY <1>1, <2>1, <2>3
  <2>5. program' = [program EXCEPT ![p] = k]
    BY <1>2, <1>5, <2>1 DEF Catalog!DeleteProgram
  <2>6. Aside(u)
    BY <1>0, <1>5, RequestValues DEF Catalog!DeleteProgram, Aside
  <2>. QED
    BY <1>2, <1>5, <2>4, <2>5, <2>6 DEF Catalog!DeleteProgram
<1>6. ASSUME NEW p \in Programs, NEW c \in Campaigns, Catalog!CheckProgram(u, p, c)
      PROVE  Aside(u) /\ UNCHANGED <<campaign, audit, Catalog!things, Catalog!groups>>
  <2>1. PICK k : k = [pc |-> "assign", p |-> p, c |-> c]
    OBVIOUS
  <2>2. k \in Plain
    BY <2>1 DEF Plain
  <2>3. Catalog!Begin(u, k) /\ UNCHANGED <<campaign, audit, Catalog!things, Catalog!groups>>
    BY <1>6, <2>1 DEF Catalog!CheckProgram
  <2>. QED
    BY <1>0, <2>2, <2>3, RequestValues DEF Aside
<1>7. ASSUME NEW x \in assigned, Catalog!UnassignCampaign(u, x)
      PROVE  Aside(u) /\ UNCHANGED <<campaign, audit, Catalog!things, program>> /\ assigned' \subseteq assigned
  BY <1>0, <1>7, RequestValues DEF Catalog!UnassignCampaign, Aside
<1>8. ASSUME Catalog!AssignCampaign(u)
      PROVE  /\ Aside(u) /\ UNCHANGED <<campaign, audit, Catalog!things, program>>
             /\ assigned' \subseteq Programs \X Campaigns
             /\ \A x \in assigned' : campaign[x[2]].exists /\ program[x[1]].exists
  <2>1. Aside(u) /\ UNCHANGED <<campaign, audit, Catalog!things, program>>
    BY <1>0, <1>8, RequestValues DEF Catalog!AssignCampaign, Aside
  <2>2. req[u] \in [pc : {"assign"}, p : Programs, c : Campaigns]
    <3>1. req[u].pc = "assign"
      BY <1>8 DEF Catalog!AssignCampaign, Catalog!At
    <3>2. \/ req[u] \in Transition \/ req[u] = Catalog!Idle
          \/ req[u] \in [pc : {"begun"}, c : Campaigns, at : Nat]
          \/ req[u] \in [pc : {"entity"}, c : Campaigns, old : SUBSET Items, new : Items]
          \/ req[u] \in [pc : {"assign"}, p : Programs, c : Campaigns]
      BY <1>0 DEF CatalogTypes, Plain
    <3>. QED
      BY <3>1, <3>2 DEF Catalog!Idle, Transition
  <2>3. PICK p \in Programs : p = req[u].p
    BY <2>2
  <2>4. PICK c \in Campaigns : c = req[u].c
    BY <2>2
  <2>5. \/ assigned' = assigned
        \/ assigned' = assigned \cup {<<p, c>>} /\ campaign[c].exists /\ program[p].exists
    BY <1>8, <2>3, <2>4 DEF Catalog!AssignCampaign
  <2>. QED
    BY <1>0, <2>1, <2>5 DEF CatalogTypes, NothingOutlives
<1>9. /\ Aside(u) /\ UNCHANGED <<campaign, audit, Catalog!things>>
      /\ program' \in [Programs -> Group] /\ assigned' \subseteq Programs \X Campaigns
      /\ \A x \in assigned' : campaign[x[2]].exists /\ program'[x[1]].exists
  <2>0. /\ assigned \subseteq Programs \X Campaigns
        /\ \A x \in assigned : campaign[x[2]].exists /\ program[x[1]].exists
    BY <1>0 DEF CatalogTypes, NothingOutlives
  <2>1. ASSUME NEW p \in Programs, NEW shared \in BOOLEAN, Catalog!CreateProgram(u, p, shared)
        PROVE  \A x \in assigned' : campaign[x[2]].exists /\ program'[x[1]].exists
    BY <1>4, <2>0, <2>1
  <2>2. ASSUME NEW p \in Programs, Catalog!DeleteProgram(u, p)
        PROVE  \A x \in assigned' : campaign[x[2]].exists /\ program'[x[1]].exists
    BY <1>5, <2>0, <2>2
  <2>. QED
    BY <1>2, <1>4, <1>5, <1>6, <1>7, <1>8, <2>0, <2>1, <2>2 DEF ProgramSteps, Catalog!groups
<1>10. CatalogTypes'
  BY <1>0, <1>1, <1>9, AsideKeeps DEF CatalogTypes, Catalog!things
<1>11. NothingOutlives'
  BY <1>0, <1>9 DEF NothingOutlives, Catalog!things
<1>. QED
  BY <1>0, <1>9, <1>10, <1>11, AsideKeeps DEF CatalogInv

-----------------------------------------------------------------------------
(* Campaigns and their trails *)

\* A campaign that is created, or copied, has no trail and is a draft.
LEMMA CampaignInsertKeeps ==
    ASSUME CatalogInv, MaxCalls \in Nat, NEW u \in Users, NEW c \in Campaigns, NEW shared \in BOOLEAN,
           NEW es \in SUBSET Items, NEW labels \in SUBSET AttributeLabels,
           Catalog!Once(u), Catalog!Insert(c, u, shared),
           entities' = [entities EXCEPT ![c] = es], attributes' = [attributes EXCEPT ![c] = labels],
           UNCHANGED <<audit, library, Catalog!groups>>
    PROVE  CatalogInv'
<1>0. CatalogTypes /\ NothingOutlives /\ StatusLocks /\ Trails
  BY DEF CatalogInv
<1>1. PICK k : k = [exists |-> TRUE, owner |-> u, team |-> shared, status |-> "draft", locked |-> FALSE]
  OBVIOUS
<1>2. k \in Live /\ k.exists = TRUE /\ k.status = "draft"
  BY <1>1 DEF Live, Status
<1>3. campaign' = [campaign EXCEPT ![c] = k] /\ campaign[c] = Catalog!Nothing
  BY <1>1 DEF Catalog!Insert
<1>4. ~ campaign[c].exists
  BY <1>0, <1>3, Shapes
<1>5. audit[c] = {}
  BY <1>0, <1>4 DEF NothingOutlives
<1>6. /\ campaign' \in [Campaigns -> Live \cup Gone]
      /\ campaign'[c] = k /\ \A d \in Campaigns \ {c} : campaign'[d] = campaign[d]
  BY <1>0, <1>2, <1>3 DEF CatalogTypes
<1>7. /\ req' \in [Users -> Plain \cup Transition] /\ requests' \in Nat /\ requests' <= MaxCalls
      /\ req'[u].pc # "transition" /\ \A v \in Users \ {u} : req'[v] = req[v]
  BY <1>0, RequestValues, Moved, PlainWaits
<1>8. CatalogTypes'
  BY <1>0, <1>6, <1>7 DEF CatalogTypes, Catalog!groups
<1>9. NothingOutlives'
  BY <1>0, <1>2, <1>6 DEF NothingOutlives, CatalogTypes, Catalog!groups
<1>10. StatusLocks'
  <2>1. \A v \in Users : req[v].pc = "transition" => req[v].c # c
    BY <1>0, <1>4 DEF StatusLocks
  <2>2. \A v \in Users : req[v].pc = "transition" => req[v].c \in Campaigns
    BY <1>0, Shapes DEF Transition
  <2>. QED
    BY <1>0, <1>6, <1>7, <2>1, <2>2 DEF StatusLocks
<1>11. Trails'
  BY <1>0, <1>2, <1>5, <1>6 DEF Trails, StatusOnward, Catalog!AuditIsAChain
<1>. QED
  BY <1>8, <1>9, <1>10, <1>11 DEF CatalogInv

CampaignSteps(u) ==
    \/ \E c \in Campaigns, shared \in BOOLEAN : Catalog!CreateCampaign(u, c, shared)
    \/ \E c \in Campaigns, copy \in Campaigns : Catalog!CloneCampaign(u, c, copy)

\* It is created by a statement, or copied by a transaction.
LEMMA CampaignStepsKeep ==
    ASSUME CatalogInv, MaxCalls \in Nat, NEW u \in Users, CampaignSteps(u)
    PROVE  CatalogInv'
<1>0. CatalogTypes /\ NothingOutlives
  BY DEF CatalogInv
<1>1. ASSUME NEW c \in Campaigns, NEW shared \in BOOLEAN, Catalog!CreateCampaign(u, c, shared)
      PROVE  CatalogInv'
  <2>1. PICK es \in SUBSET Items : es = entities[c]
    BY <1>0 DEF CatalogTypes
  <2>2. PICK labels \in SUBSET AttributeLabels : labels = attributes[c]
    BY <1>0 DEF CatalogTypes
  <2>3. /\ entities' = [entities EXCEPT ![c] = es]
        /\ attributes' = [attributes EXCEPT ![c] = labels]
    BY <1>0, <1>1, <2>1, <2>2 DEF Catalog!CreateCampaign, Catalog!things, CatalogTypes
  <2>4. /\ UNCHANGED <<audit, library, Catalog!groups>> /\ Catalog!Once(u) /\ Catalog!Insert(c, u, shared)
    BY <1>1 DEF Catalog!CreateCampaign, Catalog!things
  <2>. QED
    BY <2>3, <2>4, CampaignInsertKeeps
<1>2. ASSUME NEW c \in Campaigns, NEW copy \in Campaigns, Catalog!CloneCampaign(u, c, copy)
      PROVE  CatalogInv'
  <2>1. PICK es \in SUBSET Items : es = entities[c]
    BY <1>0 DEF CatalogTypes
  <2>2. PICK labels \in SUBSET AttributeLabels : labels = attributes[c]
    BY <1>0 DEF CatalogTypes
  <2>3. campaign[c].exists
    BY <1>2 DEF Catalog!CloneCampaign, Catalog!MayUse
  <2>4. campaign[c].team \in BOOLEAN
    BY <1>0, <2>3, Shapes DEF Live
  <2>5. /\ UNCHANGED <<audit, library, Catalog!groups>> /\ Catalog!Once(u) /\ Catalog!Insert(copy, u, campaign[c].team)
        /\ entities' = [entities EXCEPT ![copy] = es]
        /\ attributes' = [attributes EXCEPT ![copy] = labels]
    BY <1>2, <2>1, <2>2 DEF Catalog!CloneCampaign
  <2>. QED
    BY <2>4, <2>5, CampaignInsertKeeps
<1>. QED
  BY <1>1, <1>2 DEF CampaignSteps

\* A campaign whose row nobody holds goes with all that belongs to it.
LEMMA DeleteKeeps ==
    ASSUME CatalogInv, MaxCalls \in Nat, NEW u \in Users, NEW c \in Campaigns, Catalog!DeleteCampaign(u, c)
    PROVE  CatalogInv'
<1>0. CatalogTypes /\ NothingOutlives /\ StatusLocks /\ Trails
  BY DEF CatalogInv
<1>1. PICK k : k = [exists |-> FALSE, owner |-> u]
  OBVIOUS
<1>2. k \in Gone /\ k.exists = FALSE
  BY <1>1 DEF Gone
<1>3. campaign' = [campaign EXCEPT ![c] = k]
  BY <1>1 DEF Catalog!DeleteCampaign
<1>4. /\ campaign' \in [Campaigns -> Live \cup Gone]
      /\ campaign'[c] = k /\ \A d \in Campaigns \ {c} : campaign'[d] = campaign[d]
  BY <1>0, <1>2, <1>3 DEF CatalogTypes
<1>5. /\ req' \in [Users -> Plain \cup Transition] /\ requests' \in Nat /\ requests' <= MaxCalls
      /\ req'[u].pc # "transition" /\ \A v \in Users \ {u} : req'[v] = req[v]
  BY <1>0, RequestValues, Moved, PlainWaits DEF Catalog!DeleteCampaign
<1>6. /\ ~ campaign[c].locked /\ assigned' = {x \in assigned : x[2] # c}
      /\ audit' = [audit EXCEPT ![c] = {}]
      /\ entities' = [entities EXCEPT ![c] = {}] /\ attributes' = [attributes EXCEPT ![c] = {}]
      /\ UNCHANGED <<library, program>>
  BY DEF Catalog!DeleteCampaign
<1>7. /\ audit' \in [Campaigns -> SUBSET Row]
      /\ audit'[c] = {} /\ \A d \in Campaigns \ {c} : audit'[d] = audit[d]
  BY <1>0, <1>6 DEF CatalogTypes
<1>8. CatalogTypes'
  BY <1>0, <1>4, <1>5, <1>6, <1>7 DEF CatalogTypes
<1>9. NothingOutlives'
  BY <1>0, <1>2, <1>4, <1>6, <1>7 DEF NothingOutlives, CatalogTypes
<1>10. StatusLocks'
  <2>1. \A v \in Users : req[v].pc = "transition" => req[v].c # c /\ req[v].c \in Campaigns
    BY <1>0, <1>6, Shapes DEF StatusLocks, Transition
  <2>. QED
    BY <1>0, <1>4, <1>5, <2>1 DEF StatusLocks
<1>11. Trails'
  BY <1>0, <1>2, <1>4, <1>7 DEF Trails, StatusOnward, Catalog!AuditIsAChain
<1>. QED
  BY <1>8, <1>9, <1>10, <1>11 DEF CatalogInv

\* A transaction that begins changes nothing yet.
LEMMA BeginKeeps ==
    ASSUME CatalogInv, MaxCalls \in Nat, NEW u \in Users, NEW c \in Campaigns,
           Catalog!BeginTransition(u, c)
    PROVE  CatalogInv'
<1>0. CatalogTypes /\ NothingOutlives /\ StatusLocks /\ Trails
  BY DEF CatalogInv
<1>1. PICK r : r = [pc |-> "begun", c |-> c, at |-> requests + 1]
  OBVIOUS
<1>2. r \in Plain
  BY <1>0, <1>1 DEF Plain, CatalogTypes
<1>3. Catalog!Begin(u, r) /\ UNCHANGED <<campaign, audit, Catalog!things, Catalog!groups>>
  BY <1>1 DEF Catalog!BeginTransition
<1>4. Aside(u)
  BY <1>0, <1>2, <1>3, RequestValues DEF Aside
<1>5. CatalogTypes' /\ NothingOutlives'
  BY <1>0, <1>3, <1>4, AsideKeeps DEF CatalogTypes, NothingOutlives, Catalog!things, Catalog!groups
<1>. QED
  BY <1>0, <1>4, <1>5, AsideKeeps DEF CatalogInv

\* Its first statement holds a row that nobody held, or ends it.
LEMMA LockKeeps ==
    ASSUME CatalogInv, MaxCalls \in Nat, NEW u \in Users,
           NEW new \in {"active", "completed", "archived"}, Catalog!LockStatus(u, new)
    PROVE  CatalogInv'
<1>0. CatalogTypes /\ NothingOutlives /\ StatusLocks /\ Trails
  BY DEF CatalogInv
<1>1. /\ req[u].pc = "begun" /\ Catalog!ReadStatus(u, new, TRUE)
      /\ campaign[req[u].c].exists => ~ campaign[req[u].c].locked
  BY DEF Catalog!LockStatus
<1>2. req[u] \in [pc : {"begun"}, c : Campaigns, at : Nat]
  <2>1. \/ req[u] \in Transition \/ req[u] = Catalog!Idle
        \/ req[u] \in [pc : {"begun"}, c : Campaigns, at : Nat]
        \/ req[u] \in [pc : {"entity"}, c : Campaigns, old : SUBSET Items, new : Items]
        \/ req[u] \in [pc : {"assign"}, p : Programs, c : Campaigns]
    BY <1>0 DEF CatalogTypes, Plain
  <2>. QED
    BY <1>1, <2>1 DEF Catalog!Idle, Transition
<1>3. PICK c \in Campaigns : c = req[u].c
  BY <1>2
<1>4. UNCHANGED <<audit, Catalog!things, Catalog!groups, requests>>
  BY <1>1 DEF Catalog!ReadStatus
<1>5. CASE ~ (Catalog!MayUse(u, campaign[c]) /\ new \in Catalog!Allowed(campaign[c].status))
  <2>1. req' = [req EXCEPT ![u] = Catalog!Idle] /\ UNCHANGED campaign
    BY <1>1, <1>3, <1>5, Zenon DEF Catalog!ReadStatus
  <2>2. Aside(u)
    BY <1>0, <1>4, <2>1, RequestValues DEF Aside, Moves, CatalogTypes
  <2>3. CatalogTypes' /\ NothingOutlives'
    BY <1>0, <1>4, <2>1, <2>2, AsideKeeps DEF CatalogTypes, NothingOutlives, Catalog!things, Catalog!groups
  <2>. QED
    BY <1>0, <2>2, <2>3, AsideKeeps DEF CatalogInv
<1>6. CASE Catalog!MayUse(u, campaign[c]) /\ new \in Catalog!Allowed(campaign[c].status)
  <2>1. campaign[c].exists /\ campaign[c] \in Live /\ ~ campaign[c].locked
    BY <1>0, <1>1, <1>3, <1>6, Shapes DEF Catalog!MayUse
  <2>2. PICK k : k = [campaign[c] EXCEPT !.locked = TRUE]
    OBVIOUS
  <2>3. k \in Live /\ k.exists /\ k.locked /\ k.status = campaign[c].status
    BY <2>1, <2>2 DEF Live
  <2>4. PICK r : r = [pc |-> "transition", c |-> c, at |-> req[u].at,
                      old |-> campaign[c].status, new |-> new]
    OBVIOUS
  <2>5. /\ r \in Transition /\ r.pc = "transition" /\ r.c = c
        /\ r.old = campaign[c].status /\ r.new = new
    BY <1>2, <2>1, <2>4 DEF Transition, Live, Status
  <2>6. req' = [req EXCEPT ![u] = r]
    BY <1>1, <1>3, <1>6, <2>4 DEF Catalog!ReadStatus
  <2>7. campaign' = [campaign EXCEPT ![c] = k]
    BY <1>0, <1>1, <1>3, <1>6, <2>2 DEF Catalog!ReadStatus, CatalogTypes
  <2>8. /\ campaign' \in [Campaigns -> Live \cup Gone]
        /\ campaign'[c] = k /\ \A d \in Campaigns \ {c} : campaign'[d] = campaign[d]
    BY <1>0, <2>3, <2>7 DEF CatalogTypes
  <2>9. /\ req' \in [Users -> Plain \cup Transition]
        /\ req'[u] = r /\ \A v \in Users \ {u} : req'[v] = req[v]
    BY <1>0, <2>5, <2>6 DEF CatalogTypes
  <2>10. CatalogTypes'
    BY <1>0, <1>4, <2>8, <2>9 DEF CatalogTypes, Catalog!things, Catalog!groups
  <2>11. NothingOutlives'
    BY <1>0, <1>4, <2>1, <2>3, <2>8 DEF NothingOutlives, CatalogTypes, Catalog!things, Catalog!groups
  <2>12. StatusLocks'
    <3>1. \A v \in Users : req[v].pc = "transition" => req[v].c # c /\ req[v].c \in Campaigns
      BY <1>0, <2>1, Shapes DEF StatusLocks, Transition
    <3>2. ASSUME NEW v \in Users, req'[v].pc = "transition"
          PROVE  /\ campaign'[req'[v].c].exists /\ campaign'[req'[v].c].locked
                 /\ campaign'[req'[v].c].status = req'[v].old
                 /\ req'[v].new \in Catalog!Allowed(req'[v].old)
                 /\ \A w \in Users \ {v} : req'[w].pc = "transition" => req'[w].c # req'[v].c
      <4>1. CASE v = u
        BY <1>6, <2>3, <2>5, <2>8, <2>9, <3>1, <4>1
      <4>2. CASE v # u
        BY <1>0, <2>5, <2>8, <2>9, <3>1, <3>2, <4>2 DEF StatusLocks
      <4>. QED
        BY <4>1, <4>2
    <3>. QED
      BY <3>2 DEF StatusLocks
  <2>13. Trails'
    <3>1. \A d \in Campaigns : campaign'[d].exists =>
            campaign[d].exists /\ campaign'[d].status = campaign[d].status
      BY <2>1, <2>3, <2>8
    <3>. QED
      BY <1>0, <1>4, <3>1 DEF Trails, StatusOnward, Catalog!AuditIsAChain
  <2>. QED
    BY <2>10, <2>11, <2>12, <2>13 DEF CatalogInv
<1>. QED
  BY <1>5, <1>6

\* The rest writes a row that starts at the status it has read, which no row has left.
LEMMA ChangeKeeps ==
    ASSUME CatalogInv, MaxCalls \in Nat, NEW u \in Users, Catalog!ChangeStatus(u)
    PROVE  CatalogInv'
<1>0. CatalogTypes /\ NothingOutlives /\ StatusLocks /\ Trails
  BY DEF CatalogInv
<1>1. Catalog!At(u, "transition") /\ UNCHANGED <<Catalog!things, Catalog!groups>>
  BY DEF Catalog!ChangeStatus
<1>2. req[u].pc = "transition" /\ req[u] \in Transition
  BY <1>0, <1>1, RequestValues, Shapes
<1>3. PICK c \in Campaigns : c = req[u].c
  BY <1>2 DEF Transition
<1>4. PICK old \in Status : old = req[u].old
  BY <1>2 DEF Transition
<1>5. PICK new \in Status : new = req[u].new
  BY <1>2 DEF Transition
<1>6. /\ campaign[c].exists /\ campaign[c].locked /\ campaign[c].status = old
      /\ new \in Catalog!Allowed(old)
  BY <1>0, <1>2, <1>3, <1>4, <1>5 DEF StatusLocks
<1>7. PICK k : k = [campaign[c] EXCEPT !.status = new, !.locked = FALSE]
  OBVIOUS
<1>8. k \in Live /\ k.exists /\ k.status = new
  BY <1>0, <1>6, <1>7, Shapes DEF Live
<1>9. PICK row : row = [old |-> old, new |-> new, at |-> req[u].at]
  OBVIOUS
<1>10. row \in Row /\ row.old = old /\ row.new = new
  BY <1>2, <1>9 DEF Row, Transition
<1>11. PICK trail : trail = audit[c] \cup {row}
  OBVIOUS
<1>12. /\ campaign' = [campaign EXCEPT ![c] = k]
       /\ audit' = [audit EXCEPT ![c] = trail]
  BY <1>0, <1>3, <1>4, <1>5, <1>6, <1>7, <1>9, <1>11 DEF Catalog!ChangeStatus, CatalogTypes
<1>13. /\ campaign' \in [Campaigns -> Live \cup Gone]
       /\ campaign'[c] = k /\ \A d \in Campaigns \ {c} : campaign'[d] = campaign[d]
  BY <1>0, <1>8, <1>12 DEF CatalogTypes
<1>14. /\ audit' \in [Campaigns -> SUBSET Row]
       /\ audit'[c] = trail /\ \A d \in Campaigns \ {c} : audit'[d] = audit[d]
  BY <1>0, <1>10, <1>11, <1>12 DEF CatalogTypes
<1>15. /\ req' \in [Users -> Plain \cup Transition] /\ requests' \in Nat /\ requests' <= MaxCalls
       /\ req'[u].pc # "transition" /\ \A v \in Users \ {u} : req'[v] = req[v]
  BY <1>0, <1>1, RequestValues, Moved, PlainWaits
<1>16. CatalogTypes'
  BY <1>0, <1>1, <1>13, <1>14, <1>15 DEF CatalogTypes, Catalog!things, Catalog!groups
<1>17. NothingOutlives'
  BY <1>0, <1>1, <1>6, <1>8, <1>13, <1>14 DEF NothingOutlives, CatalogTypes, Catalog!things, Catalog!groups
<1>18. StatusLocks'
  <2>1. \A v \in Users \ {u} : req[v].pc = "transition" => req[v].c # c /\ req[v].c \in Campaigns
    BY <1>0, <1>2, <1>3, Shapes DEF StatusLocks, Transition
  <2>. QED
    BY <1>0, <1>13, <1>15, <2>1 DEF StatusLocks
<1>19. Trails'
  <2>1. \A d \in Campaigns \ {c} : campaign'[d] = campaign[d] /\ audit'[d] = audit[d]
    BY <1>13, <1>14
  <2>2. /\ \A x \in audit[c] : x \in Row /\ old \in After(x.old) /\ x.old # old
        /\ \A x, y \in audit[c] : x.old = y.old => x = y
        /\ \A x \in audit[c] : x.old = "draft" \/ \E y \in audit[c] : y.new = x.old
        /\ old = "draft" \/ \E x \in audit[c] : x.new = old
    BY <1>0, <1>6 DEF Trails, StatusOnward, Catalog!AuditIsAChain, CatalogTypes
  <2>3. \A x \in trail : x.old \in Status /\ new \in After(x.old)
    BY <1>6, <1>10, <1>11, <2>2, AfterFacts DEF Row
  <2>4. \A x \in trail : x.old # new
    BY <2>3, AfterFacts
  <2>5. \A x, y \in trail : x.old = y.old => x = y
    BY <1>10, <1>11, <2>2
  <2>6. \A x \in trail : x.old = "draft" \/ \E y \in trail : y.new = x.old
    BY <1>10, <1>11, <2>2
  <2>7. \E x \in trail : x.new = new
    BY <1>10, <1>11
  <2>8. StatusOnward'
    BY <1>0, <1>8, <1>13, <1>14, <2>1, <2>3 DEF Trails, StatusOnward
  <2>9. Catalog!AuditIsAChain'
    BY <1>0, <1>8, <1>13, <1>14, <2>1, <2>4, <2>5, <2>6, <2>7 DEF Trails, Catalog!AuditIsAChain
  <2>. QED
    BY <2>8, <2>9 DEF Trails
<1>. QED
  BY <1>16, <1>17, <1>18, <1>19 DEF CatalogInv

-----------------------------------------------------------------------------
(* The theorems *)

\* There is nothing at first.
LEMMA CatalogInit == ASSUME MaxCalls \in Nat, Catalog!Init PROVE CatalogInv
<1>1. Catalog!Nothing.exists = FALSE /\ Catalog!Idle.pc # "transition"
  BY DEF Catalog!Nothing, Catalog!Idle
<1>2. \A c \in Campaigns : /\ campaign[c] = Catalog!Nothing /\ audit[c] = {}
                            /\ entities[c] = {} /\ attributes[c] = {}
  BY DEF Catalog!Init
<1>3. \A u \in Users : req[u] = Catalog!Idle
  BY DEF Catalog!Init
<1>4. CatalogTypes
  BY DEF Catalog!Init, CatalogTypes, Gone, Plain
<1>5. NothingOutlives
  BY <1>2 DEF Catalog!Init, NothingOutlives
<1>6. StatusLocks
  <2>1. \A u \in Users : req[u].pc # "transition"
    BY <1>1, <1>3, Zenon
  <2>. QED
    BY <2>1 DEF StatusLocks
<1>7. Trails
  <2>1. \A c \in Campaigns : ~ campaign[c].exists
    BY <1>1, <1>2, Zenon
  <2>. QED
    BY <2>1 DEF Trails, StatusOnward, Catalog!AuditIsAChain
<1>. QED
  BY <1>4, <1>5, <1>6, <1>7 DEF CatalogInv

\* Every step keeps the invariant.
LEMMA CatalogStep == ASSUME MaxCalls \in Nat, CatalogInv, [Catalog!Next]_Catalog!catalogVars PROVE CatalogInv'
<1>1. CASE UNCHANGED Catalog!catalogVars
  BY <1>1 DEF Catalog!catalogVars, CatalogInv, CatalogTypes, NothingOutlives, StatusLocks, Trails,
              StatusOnward, Catalog!AuditIsAChain
<1>2. ASSUME NEW u \in Users,
             \/ CampaignSteps(u) \/ AttributeLabelSteps(u) \/ LibrarySteps(u) \/ ProgramSteps(u)
             \/ Catalog!ChangeStatus(u)
             \/ \E new \in {"active", "completed", "archived"} : Catalog!LockStatus(u, new)
             \/ \E c \in Campaigns :
                  \/ EntitySteps(u, c) \/ AttributeSteps(u, c) \/ Catalog!DeleteCampaign(u, c)
                  \/ Catalog!BeginTransition(u, c)
      PROVE  CatalogInv'
  BY <1>2, CampaignStepsKeep, AttributeLabelStepsKeep, LibraryStepsKeep, ProgramStepsKeep, ChangeKeeps,
     EntityStepsKeep, AttributeStepsKeep, DeleteKeeps, BeginKeeps, LockKeeps
<1>3. CASE Catalog!Next
  BY <1>2, <1>3, Zenon DEF Catalog!Next, CampaignSteps, AttributeLabelSteps, LibrarySteps, ProgramSteps, EntitySteps,
     AttributeSteps
<1>. QED
  BY <1>1, <1>3

\* The values are of their types, and what belongs to a campaign or to a program does
\* not outlive it, for any number of users, campaigns, programs, items and requests.
THEOREM CatalogTypesCorrect == ASSUME MaxCalls \in Nat PROVE Catalog!Spec => []Catalog!TypeOK
<1>1. Catalog!Init => CatalogInv
  BY CatalogInit
<1>2. CatalogInv /\ [Catalog!Next]_Catalog!catalogVars => CatalogInv'
  BY CatalogStep
<1>3. CatalogInv => Catalog!TypeOK
  <2>. SUFFICES ASSUME CatalogInv PROVE Catalog!TypeOK
    OBVIOUS
  <2>1. \A c \in Campaigns : campaign[c].exists => campaign[c].status \in Status
    BY Shapes DEF CatalogInv, Live
  <2>2. \A x \in library : x.item \in Items /\ x.owner \in Users
    BY DEF CatalogInv, CatalogTypes
  <2>. QED
    BY <2>1, <2>2 DEF CatalogInv, CatalogTypes, NothingOutlives, Catalog!TypeOK, Status
<1>. QED
  BY <1>1, <1>2, <1>3, PTL DEF Catalog!Spec

\* The audit rows of a campaign, which have no order but changed_at, make one chain from
\* "draft" to its status (db_transition_campaign_status reads the status, and writes it
\* with its audit row, under one row lock), for any number of users and requests.
THEOREM AuditIsAChainCorrect == ASSUME MaxCalls \in Nat PROVE Catalog!Spec => []Catalog!AuditIsAChain
<1>1. Catalog!Init => CatalogInv
  BY CatalogInit
<1>2. CatalogInv /\ [Catalog!Next]_Catalog!catalogVars => CatalogInv'
  BY CatalogStep
<1>3. CatalogInv => Catalog!AuditIsAChain
  BY DEF CatalogInv, Trails
<1>. QED
  BY <1>1, <1>2, <1>3, PTL DEF Catalog!Spec

-----------------------------------------------------------------------------
(* The scores of one campaign *)

Point == {"idle", "mark", "compute", "write"}
Request == [pc : Point, scope : SUBSET Entities, later : SUBSET Entities,
            locked : SUBSET Entities, found : SUBSET Entities, seen : Nat]
Score == [exists : BOOLEAN, stale : BOOLEAN, by : {"none", "matrix", "validation"}, seen : Nat,
          over : SUBSET Entities]

\* Every variable's values, and what the parts of a request have to do with its place.
ScoreTypes ==
    /\ entity \subseteq Entities /\ attribute \subseteq ScoredAttributes
    /\ assigned \subseteq attribute /\ cell \subseteq entity \X attribute
    /\ score \in [Entities -> Score] /\ req \in [Requests -> Request]
    /\ edited \in [Entities -> Nat] /\ excused \subseteq Entities
    /\ clock \in Nat /\ clock <= ScoreEdits /\ faults \in Nat /\ faults <= MaxFaults

\* Nothing was seen or edited in the future, and a score belongs to an entity.
Past ==
    /\ \A e \in Entities : score[e].seen <= clock /\ edited[e] <= clock
    /\ \A r \in Requests : req[r].seen <= clock
    /\ \A e \in Entities : score[e].exists => e \in entity
    /\ \A e \in Entities : score[e].by = "matrix" => score[e].exists

\* A request between two transactions holds no lock; the rows it holds are rows of
\* its scope, they exist, and nobody else holds them.
ScoreLocks ==
    /\ \A r \in Requests : req[r].pc = "idle" => req[r].later = {}
    /\ \A r \in Requests : req[r].pc \in {"idle", "mark"} => req[r].locked = {}
    /\ \A r \in Requests : req[r].locked \subseteq req[r].scope
    /\ \A r \in Requests, e \in Entities : e \in req[r].locked => score[e].exists
    /\ \A r, q \in Requests : r # q => req[r].locked \cap req[q].locked = {}

\* A score that passes for current and misses an edit.
Missed(e) == score[e].by = "matrix" /\ ~ score[e].stale /\ score[e].seen < edited[e]

\* A recalculation that is about to write such a score.
WillMiss(r, e) == req[r].pc = "write" /\ e \in req[r].locked /\ req[r].seen < edited[e]

\* A recalculation that has still to read the entity, or has read the last edit, and
\* holds its row by then.
Serves(r, e) ==
    \/ e \in req[r].later
    \/ req[r].pc = "mark" /\ e \in req[r].scope
    \/ req[r].pc = "compute" /\ e \in req[r].locked
    \/ req[r].pc = "write" /\ e \in req[r].locked /\ req[r].seen >= edited[e]

\* What misses an edit, or will, is served.
Served ==
    \A e \in entity \ excused :
        (Missed(e) \/ \E r \in Requests : WillMiss(r, e)) => \E r \in Requests : Serves(r, e)

ScoreInv == ScoreTypes /\ Past /\ ScoreLocks /\ Served

-----------------------------------------------------------------------------
(* Its steps *)

\* A request that begins, and one that goes on to its next entity or ends.
LEMMA RequestTypes ==
    ASSUME ScoreTypes
    PROVE  /\ Scoring!Idle \in Request
           /\ \A r \in Requests, scope \in SUBSET Entities, later \in SUBSET Entities :
                Scoring!Starts(r, scope, later) =>
                  /\ req' \in [Requests -> Request]
                  /\ req'[r] = [Scoring!Idle EXCEPT !.pc = "mark", !.scope = scope, !.later = later]
                  /\ \A q \in Requests \ {r} : req'[q] = req[q]
<1>1. Scoring!Idle \in Request
  BY DEF Scoring!Idle, Request, Point
<1>2. ASSUME NEW scope \in SUBSET Entities, NEW later \in SUBSET Entities
      PROVE  [Scoring!Idle EXCEPT !.pc = "mark", !.scope = scope, !.later = later] \in Request
  BY DEF Scoring!Idle, Request, Point
<1>3. req \in [Requests -> Request]
  BY DEF ScoreTypes
<1>4. ASSUME NEW r \in Requests, NEW k \in Request, req' = [req EXCEPT ![r] = k]
      PROVE  /\ req' \in [Requests -> Request] /\ req'[r] = k
             /\ \A q \in Requests \ {r} : req'[q] = req[q]
  BY <1>3, <1>4
<1>. QED
  BY <1>1, <1>2, <1>4 DEF Scoring!Starts

\* A request that is done with one entity has the others still to do.
LEMMA NextRequest ==
    ASSUME ScoreTypes, NEW r \in Requests, Scoring!NextEntity(r)
    PROVE  /\ req' \in [Requests -> Request]
           /\ \A q \in Requests \ {r} : req'[q] = req[q]
           /\ req'[r].pc \in {"idle", "mark"} /\ req'[r].locked = {} /\ req'[r].seen = 0
           /\ req'[r].pc = "idle" => req'[r].later = {}
           /\ \A x \in req[r].later :
                x \in req'[r].later \/ (req'[r].pc = "mark" /\ x \in req'[r].scope)
<1>0. req \in [Requests -> Request] /\ req[r] \in Request
  BY DEF ScoreTypes
<1>1. CASE req[r].later = {}
  <2>1. req' = [req EXCEPT ![r] = Scoring!Idle]
    BY <1>1 DEF Scoring!NextEntity
  <2>. QED
    BY <1>0, <1>1, <2>1, RequestTypes DEF Scoring!Idle
<1>2. CASE req[r].later # {}
  <2>1. PICK e : e = CHOOSE x \in req[r].later : TRUE
    OBVIOUS
  <2>2. e \in req[r].later /\ e \in Entities
    BY <1>0, <1>2, <2>1 DEF Request
  <2>3. PICK k : k = [Scoring!Idle EXCEPT !.pc = "mark", !.scope = {e}, !.later = req[r].later \ {e}]
    OBVIOUS
  <2>4. /\ k.pc = "mark" /\ k.scope = {e} /\ k.later = req[r].later \ {e}
        /\ k.locked = {} /\ k.seen = 0
    BY <2>3 DEF Scoring!Idle
  <2>5. k \in Request
    BY <1>0, <2>2, <2>3 DEF Scoring!Idle, Request, Point
  <2>6. req' = [req EXCEPT ![r] = k]
    BY <1>2, <2>1, <2>3, Zenon DEF Scoring!NextEntity
  <2>7. req'[r] = k /\ \A q \in Requests \ {r} : req'[q] = req[q]
    BY <1>0, <2>6
  <2>8. req' \in [Requests -> Request]
    BY <1>0, <2>5, <2>6
  <2>9. \A x \in req[r].later : x \in k.later \/ x \in k.scope
    BY <2>4
  <2>. QED
    BY <2>4, <2>7, <2>8, <2>9
<1>. QED
  BY <1>1, <1>2

\* The steps of a request that starts after an edit.
Edit(r) == \/ \E cells \in SUBSET (Entities \X ScoredAttributes) : Scoring!UpsertCells(r, cells)
           \/ \E e \in Entities, a \in ScoredAttributes : Scoring!DeleteCell(r, e, a)
           \/ Scoring!UpdateWeight(r) \/ \E a \in ScoredAttributes : Scoring!UpdateOverride(r, a)
           \/ Scoring!CommitImport(r)

\* An edit of which no request takes note.
Silent == \E a \in ScoredAttributes : Scoring!AssignAttribute(a) \/ Scoring!UnassignAttribute(a) \/ Scoring!DeleteAttribute(a)

\* What an edit leaves and does: the request serves all that the edit has touched.
LEMMA EditStarts ==
    ASSUME ScoreTypes, NEW r \in Requests, Edit(r)
    PROVE  /\ UNCHANGED <<entity, score, excused, faults>>
           /\ clock' = clock + 1 /\ clock < ScoreEdits
           /\ req[r].pc = "idle"
           /\ \E scope \in SUBSET Entities, later \in SUBSET Entities :
                /\ Scoring!Starts(r, scope, later)
                /\ \/ edited' = edited
                   \/ Scoring!Touches(scope \cup later)
                   \/ Scoring!Touches(entity) /\ scope = Entities
<1>. USE DEF Scoring!rows, Scoring!Tick
<1>1. ASSUME NEW cells \in SUBSET (Entities \X ScoredAttributes), Scoring!UpsertCells(r, cells)
      PROVE  /\ UNCHANGED <<entity, score, excused, faults>>
             /\ clock' = clock + 1 /\ clock < ScoreEdits
             /\ \E scope \in SUBSET Entities, later \in SUBSET Entities :
                  Scoring!Starts(r, scope, later) /\ Scoring!Touches(scope \cup later)
  <2>1. PICK es : es = {c[1] : c \in cells}
    OBVIOUS
  <2>2. es \in SUBSET Entities
    BY <2>1
  <2>3. Scoring!Touches(es) /\ \E e \in es : Scoring!Starts(r, {e}, es \ {e})
    BY <1>1, <2>1, Zenon DEF Scoring!UpsertCells
  <2>4. PICK e \in es : Scoring!Starts(r, {e}, es \ {e})
    BY <2>3
  <2>5. {e} \cup (es \ {e}) = es /\ {e} \in SUBSET Entities /\ es \ {e} \in SUBSET Entities
    BY <2>2, <2>4
  <2>6. Scoring!Touches({e} \cup (es \ {e}))
    BY <2>3, <2>5
  <2>. QED
    BY <1>1, <2>4, <2>5, <2>6 DEF Scoring!UpsertCells
<1>2. ASSUME NEW e \in Entities, NEW a \in ScoredAttributes, Scoring!DeleteCell(r, e, a)
      PROVE  /\ UNCHANGED <<entity, score, excused, faults>>
             /\ clock' = clock + 1 /\ clock < ScoreEdits
             /\ Scoring!Starts(r, {e}, {}) /\ Scoring!Touches({e} \cup {})
  <2>1. {e} \cup {} = {e}
    OBVIOUS
  <2>2. Scoring!Touches({e})
    BY <1>2 DEF Scoring!DeleteCell
  <2>3. Scoring!Touches({e} \cup {})
    BY <2>1, <2>2
  <2>. QED
    BY <1>2, <2>3 DEF Scoring!DeleteCell
<1>3. ASSUME Scoring!UpdateWeight(r)
      PROVE  /\ UNCHANGED <<entity, score, excused, faults>>
             /\ clock' = clock + 1 /\ clock < ScoreEdits
             /\ Scoring!Starts(r, Entities, {}) /\ Scoring!Touches(entity)
  BY <1>3 DEF Scoring!UpdateWeight
<1>4. ASSUME Scoring!CommitImport(r)
      PROVE  /\ UNCHANGED <<entity, score, excused, faults>>
             /\ clock' = clock + 1 /\ clock < ScoreEdits
             /\ Scoring!Starts(r, Entities, {}) /\ edited' = edited
  BY <1>4 DEF Scoring!CommitImport
<1>5. \A a \in ScoredAttributes : Scoring!UpdateOverride(r, a) => Scoring!UpdateWeight(r)
  BY DEF Scoring!UpdateOverride
<1>6. \A scope, later : Scoring!Starts(r, scope, later) => req[r].pc = "idle"
  BY DEF Scoring!Starts
<1>. QED
  BY <1>1, <1>2, <1>3, <1>4, <1>5, <1>6 DEF Edit

\* An edit keeps the types.
LEMMA EditTypes ==
    ASSUME ScoreTypes, NEW r \in Requests, Edit(r), ScoreEdits \in Nat PROVE ScoreTypes'
<1>. USE DEF Scoring!rows
<1>1. /\ UNCHANGED <<entity, score, excused, faults>>
      /\ clock' = clock + 1 /\ clock < ScoreEdits
  BY EditStarts
<1>2. PICK scope \in SUBSET Entities :
        \E later \in SUBSET Entities :
          /\ Scoring!Starts(r, scope, later)
          /\ \/ edited' = edited
             \/ Scoring!Touches(scope \cup later)
             \/ Scoring!Touches(entity) /\ scope = Entities
  BY EditStarts
<1>3. PICK later \in SUBSET Entities :
          /\ Scoring!Starts(r, scope, later)
          /\ \/ edited' = edited
             \/ Scoring!Touches(scope \cup later)
             \/ Scoring!Touches(entity) /\ scope = Entities
  BY <1>2
<1>4. req' \in [Requests -> Request]
  BY <1>3, RequestTypes
<1>5. edited' \in [Entities -> Nat]
  BY <1>3 DEF ScoreTypes, Scoring!Touches
<1>6. assigned' \subseteq attribute' /\ cell' \subseteq entity' \X attribute' /\ attribute' = attribute
  <2>1. ASSUME NEW cells \in SUBSET (Entities \X ScoredAttributes), Scoring!UpsertCells(r, cells)
        PROVE  /\ assigned' = assigned /\ attribute' = attribute
               /\ cell' \subseteq entity \X attribute
    <3>1. cells \subseteq entity \X attribute
      BY <2>1 DEF Scoring!UpsertCells
    <3>. QED
      BY <2>1, <3>1 DEF Scoring!UpsertCells, ScoreTypes
  <2>2. ASSUME NEW e \in Entities, NEW a \in ScoredAttributes, Scoring!DeleteCell(r, e, a)
        PROVE  assigned' = assigned /\ attribute' = attribute /\ cell' \subseteq entity \X attribute
    BY <2>2 DEF Scoring!DeleteCell, ScoreTypes
  <2>3. ASSUME Scoring!UpdateWeight(r) \/ Scoring!CommitImport(r) \/ \E a \in ScoredAttributes : Scoring!UpdateOverride(r, a)
        PROVE  assigned' = assigned /\ attribute' = attribute /\ cell' \subseteq entity \X attribute
    BY <2>3 DEF Scoring!UpdateWeight, Scoring!UpdateOverride, Scoring!CommitImport, ScoreTypes
  <2>4. assigned' = assigned /\ attribute' = attribute /\ cell' \subseteq entity \X attribute
    BY <2>1, <2>2, <2>3 DEF Edit
  <2>. QED
    BY <1>1, <2>4 DEF ScoreTypes
<1>. QED
  BY <1>1, <1>4, <1>5, <1>6 DEF ScoreTypes

\* A score whose mark is set, and one that a validation job replaced.
LEMMA MarkedScore ==
    \A k \in Score : LET m == [k EXCEPT !.stale = TRUE] IN
        m \in Score /\ m.exists = k.exists /\ m.by = k.by /\ m.seen = k.seen /\ m.stale = TRUE
BY DEF Score
LEMMA ReplacedScore ==
    \A k \in Score : [k EXCEPT !.exists = TRUE, !.by = "validation", !.over = {}] \in Score
<1>1. {} \in SUBSET Entities
  OBVIOUS
<1>. QED
  BY <1>1 DEF Score

\* So do the edits that start no request.
LEMMA OtherTypes ==
    ASSUME ScoreTypes, ScoreEdits \in Nat,
           \/ Silent
           \/ \E e \in Entities : Scoring!DeleteEntity(e)
           \/ \E es \in SUBSET Entities : Scoring!RecomputeScores(es)
    PROVE  ScoreTypes'
<1>. USE DEF Scoring!rows, Scoring!Tick
<1>1. ASSUME NEW a \in ScoredAttributes, Scoring!AssignAttribute(a) \/ Scoring!UnassignAttribute(a) PROVE ScoreTypes'
  BY <1>1 DEF Scoring!AssignAttribute, Scoring!UnassignAttribute, ScoreTypes
<1>2. ASSUME NEW a \in ScoredAttributes, Scoring!DeleteAttribute(a) PROVE ScoreTypes'
  <2>1. cell' \subseteq entity \X attribute'
    BY <1>2 DEF Scoring!DeleteAttribute, ScoreTypes
  <2>. QED
    BY <1>2, <2>1 DEF Scoring!DeleteAttribute, ScoreTypes
<1>3. ASSUME NEW e \in Entities, Scoring!DeleteEntity(e) PROVE ScoreTypes'
  <2>1. Scoring!NoScore \in Score
    BY DEF Scoring!NoScore, Score
  <2>2. cell' \subseteq entity' \X attribute
    BY <1>3 DEF Scoring!DeleteEntity, ScoreTypes
  <2>. QED
    BY <1>3, <2>1, <2>2 DEF Scoring!DeleteEntity, ScoreTypes
<1>4. ASSUME NEW es \in SUBSET Entities, Scoring!RecomputeScores(es) PROVE ScoreTypes'
  <2>0. \A e \in Entities : score[e] \in Score
    BY DEF ScoreTypes
  <2>1. \A e \in Entities : [score[e] EXCEPT !.exists = TRUE, !.by = "validation", !.over = {}] \in Score
    BY <2>0, ReplacedScore, Zenon
  <2>2. score' \in [Entities -> Score]
    BY <1>4, <2>1 DEF Scoring!RecomputeScores, ScoreTypes
  <2>3. /\ UNCHANGED <<entity, attribute, assigned, cell, req, edited, excused, faults>>
        /\ clock' = clock + 1 /\ clock < ScoreEdits
    BY <1>4 DEF Scoring!RecomputeScores
  <2>. HIDE DEF Scoring!Tick
  <2>. QED
    BY <2>2, <2>3 DEF ScoreTypes
<1>. QED
  BY <1>1, <1>2, <1>3, <1>4 DEF Silent

\* What the two statements of a recalculation make of the request.
LEMMA Records ==
    ASSUME ScoreTypes, NEW r \in Requests
    PROVE  /\ Scoring!MarkStale(r) =>
                /\ req' \in [Requests -> Request]
                /\ req'[r].pc = "compute" /\ req'[r].locked = Scoring!RowsOf(r)
                /\ req'[r].scope = req[r].scope /\ req'[r].later = req[r].later
                /\ req'[r].seen = req[r].seen
                /\ \A q \in Requests \ {r} : req'[q] = req[q]
           /\ Scoring!Compute(r) =>
                /\ req' \in [Requests -> Request]
                /\ req'[r].pc = "write" /\ req'[r].locked = req[r].locked
                /\ req'[r].scope = req[r].scope /\ req'[r].later = req[r].later
                /\ req'[r].seen = clock
                /\ \A q \in Requests \ {r} : req'[q] = req[q]
<1>0. req \in [Requests -> Request] /\ req[r] \in Request /\ clock \in Nat /\ entity \subseteq Entities
  BY DEF ScoreTypes
<1>1. Scoring!RowsOf(r) \subseteq Entities /\ req[r].scope \cap Scoring!Scorable \subseteq Entities
  BY <1>0 DEF Scoring!RowsOf, Scoring!Scorable, Request
<1>2. ASSUME Scoring!MarkStale(r)
      PROVE  /\ req' \in [Requests -> Request]
             /\ req'[r].pc = "compute" /\ req'[r].locked = Scoring!RowsOf(r)
             /\ req'[r].scope = req[r].scope /\ req'[r].later = req[r].later
             /\ req'[r].seen = req[r].seen
             /\ \A q \in Requests \ {r} : req'[q] = req[q]
  <2>1. PICK k : k = [req[r] EXCEPT !.pc = "compute", !.locked = Scoring!RowsOf(r)]
    OBVIOUS
  <2>2. /\ k \in Request /\ k.pc = "compute" /\ k.locked = Scoring!RowsOf(r)
        /\ k.scope = req[r].scope /\ k.later = req[r].later /\ k.seen = req[r].seen
    BY <1>0, <1>1, <2>1 DEF Request, Point
  <2>3. req' = [req EXCEPT ![r] = k]
    BY <1>0, <1>2, <2>1 DEF Scoring!MarkStale
  <2>4. req'[r] = k /\ \A q \in Requests \ {r} : req'[q] = req[q]
    BY <1>0, <2>3
  <2>5. req' \in [Requests -> Request]
    BY <1>0, <2>2, <2>3
  <2>. QED
    BY <2>2, <2>4, <2>5
<1>3. ASSUME Scoring!Compute(r)
      PROVE  /\ req' \in [Requests -> Request]
             /\ req'[r].pc = "write" /\ req'[r].locked = req[r].locked
             /\ req'[r].scope = req[r].scope /\ req'[r].later = req[r].later
             /\ req'[r].seen = clock
             /\ \A q \in Requests \ {r} : req'[q] = req[q]
  <2>1. PICK k : k = [req[r] EXCEPT !.pc = "write", !.seen = clock,
                                    !.found = req[r].scope \cap Scoring!Scorable]
    OBVIOUS
  <2>2. /\ k \in Request /\ k.pc = "write" /\ k.locked = req[r].locked
        /\ k.scope = req[r].scope /\ k.later = req[r].later /\ k.seen = clock
    BY <1>0, <1>1, <2>1 DEF Request, Point
  <2>3. req' = [req EXCEPT ![r] = k]
    BY <1>0, <1>3, <2>1 DEF Scoring!Compute
  <2>4. req'[r] = k /\ \A q \in Requests \ {r} : req'[q] = req[q]
    BY <1>0, <2>3
  <2>5. req' \in [Requests -> Request]
    BY <1>0, <2>2, <2>3
  <2>. QED
    BY <2>2, <2>4, <2>5
<1>. QED
  BY <1>2, <1>3

\* What a recalculation makes of the scores, row by row.
LEMMA Written ==
    ASSUME ScoreTypes, NEW r \in Requests, Scoring!WriteScores(r)
    PROVE  /\ score' \in [Entities -> Score]
           /\ \A e \in Entities :
                /\ e \in req[r].found =>
                     /\ score'[e].exists /\ ~ score'[e].stale
                     /\ score'[e].by = "matrix" /\ score'[e].seen = req[r].seen
                /\ e \notin req[r].found =>
                     /\ score'[e].exists = score[e].exists /\ score'[e].by = score[e].by
                     /\ score'[e].seen = score[e].seen
                     /\ e \in req[r].locked => score'[e].stale
                     /\ e \notin req[r].locked => score'[e] = score[e]
<1>0. score \in [Entities -> Score] /\ req[r].seen \in Nat /\ req[r].found \in SUBSET Entities
  BY DEF ScoreTypes, Request
<1>1. PICK new : new = [exists |-> TRUE, stale |-> FALSE, by |-> "matrix", seen |-> req[r].seen,
                      over |-> req[r].found]
  OBVIOUS
<1>2. /\ new \in Score /\ new.exists = TRUE /\ new.stale = FALSE
      /\ new.by = "matrix" /\ new.seen = req[r].seen
  BY <1>0, <1>1 DEF Score
<1>3. score' = [e \in Entities |->
         IF e \in req[r].found THEN new
         ELSE IF e \in req[r].locked THEN [score[e] EXCEPT !.stale = TRUE] ELSE score[e]]
  BY <1>1, Zenon DEF Scoring!WriteScores
<1>4. \A e \in Entities : LET k == [score[e] EXCEPT !.stale = TRUE] IN
        /\ k \in Score /\ k.exists = score[e].exists /\ k.by = score[e].by
        /\ k.seen = score[e].seen /\ k.stale = TRUE
  <2>1. \A e \in Entities : score[e] \in Score
    BY <1>0
  <2>. QED
    BY <2>1, MarkedScore, Zenon
<1>6. \A e \in Entities :
        score'[e] = IF e \in req[r].found THEN new
                    ELSE IF e \in req[r].locked THEN [score[e] EXCEPT !.stale = TRUE] ELSE score[e]
  BY <1>3
<1>5. score' \in [Entities -> Score]
  <2>1. \A e \in Entities : score'[e] \in Score
    BY <1>0, <1>2, <1>4, <1>6
  <2>2. score' = [e \in Entities |-> score'[e]]
    BY <1>3
  <2>. QED
    BY <2>1, <2>2
<1>7. ASSUME NEW e \in Entities, e \in req[r].found
      PROVE  /\ score'[e].exists /\ ~ score'[e].stale
             /\ score'[e].by = "matrix" /\ score'[e].seen = req[r].seen
  BY <1>2, <1>6, <1>7
<1>8. ASSUME NEW e \in Entities, e \notin req[r].found
      PROVE  /\ score'[e].exists = score[e].exists /\ score'[e].by = score[e].by
             /\ score'[e].seen = score[e].seen
             /\ e \in req[r].locked => score'[e].stale
             /\ e \notin req[r].locked => score'[e] = score[e]
  <2>1. CASE e \in req[r].locked
    <3>1. score'[e] = [score[e] EXCEPT !.stale = TRUE]
      BY <1>6, <1>8, <2>1
    <3>. QED
      BY <1>4, <2>1, <3>1
  <2>2. CASE e \notin req[r].locked
    BY <1>6, <1>8, <2>2
  <2>. QED
    BY <2>1, <2>2
<1>. QED
  BY <1>5, <1>7, <1>8

\* The steps of a recalculation keep the types.
LEMMA ScoreStepTypes ==
    ASSUME ScoreTypes, MaxFaults \in Nat, NEW r \in Requests,
           \/ Scoring!MarkStale(r) \/ Scoring!Compute(r) \/ Scoring!WriteScores(r)
           \/ Scoring!EntityIsGone(r) \/ Scoring!RecalculationFails(r)
    PROVE  ScoreTypes'
<1>. USE DEF Scoring!rows
<1>1. CASE Scoring!MarkStale(r)
  BY <1>1, Records DEF Scoring!MarkStale, ScoreTypes
<1>2. CASE Scoring!Compute(r)
  BY <1>2, Records DEF Scoring!Compute, ScoreTypes
<1>3. CASE Scoring!WriteScores(r)
  <2>1. req[r].found \subseteq Entities
    BY DEF ScoreTypes, Request
  <2>2. excused' \subseteq Entities
    BY <1>3, <2>1 DEF Scoring!WriteScores, ScoreTypes
  <2>. QED
    BY <1>3, <2>2, Written, NextRequest DEF Scoring!WriteScores, ScoreTypes
<1>4. CASE Scoring!EntityIsGone(r) \/ Scoring!RecalculationFails(r)
  <2>1. Scoring!RolledBack(r) /\ faults' \in Nat /\ faults' <= MaxFaults
    BY <1>4 DEF Scoring!EntityIsGone, Scoring!RecalculationFails, ScoreTypes
  <2>2. excused' \subseteq Entities
    BY <2>1 DEF Scoring!RolledBack, ScoreTypes, Request
  <2>. QED
    BY <2>1, <2>2, NextRequest DEF Scoring!RolledBack, ScoreTypes
<1>. QED
  BY <1>1, <1>2, <1>3, <1>4

-----------------------------------------------------------------------------
(* The invariant of the scores *)

\* An edit is served by the request that made it.
LEMMA EditKeeps ==
    ASSUME ScoreInv, NEW r \in Requests, Edit(r) PROVE Past' /\ ScoreLocks' /\ Served'
<1>0. ScoreTypes /\ Past /\ ScoreLocks /\ Served
  BY DEF ScoreInv
<1>1. /\ UNCHANGED <<entity, score, excused>>
      /\ clock' = clock + 1 /\ req[r].pc = "idle" /\ clock \in Nat /\ entity \subseteq Entities
  BY <1>0, EditStarts DEF ScoreTypes
<1>2. PICK scope \in SUBSET Entities :
        \E later \in SUBSET Entities :
          /\ Scoring!Starts(r, scope, later)
          /\ \/ edited' = edited
             \/ Scoring!Touches(scope \cup later)
             \/ Scoring!Touches(entity) /\ scope = Entities
  BY <1>0, EditStarts
<1>3. PICK later \in SUBSET Entities :
          /\ Scoring!Starts(r, scope, later)
          /\ \/ edited' = edited
             \/ Scoring!Touches(scope \cup later)
             \/ Scoring!Touches(entity) /\ scope = Entities
  BY <1>2
<1>4. PICK k : k = [Scoring!Idle EXCEPT !.pc = "mark", !.scope = scope, !.later = later]
  OBVIOUS
<1>5. req'[r] = k /\ \A q \in Requests \ {r} : req'[q] = req[q]
  <2>1. req' = [req EXCEPT ![r] = k]
    BY <1>3, <1>4, Zenon DEF Scoring!Starts
  <2>2. req \in [Requests -> Request]
    BY <1>0 DEF ScoreTypes
  <2>. QED
    BY <2>1, <2>2
<1>6. k.pc = "mark" /\ k.scope = scope /\ k.later = later /\ k.locked = {} /\ k.seen = 0
  BY <1>4 DEF Scoring!Idle
<1>7. \A e \in Entities : /\ edited[e] \in Nat
                          /\ edited'[e] = edited[e] \/ (edited'[e] = clock + 1 /\ e \in scope \cup later)
  BY <1>0, <1>1, <1>3 DEF ScoreTypes, Scoring!Touches
<1>8. Past'
  <2>1. /\ \A e \in Entities : score[e].seen \in Nat
        /\ \A q \in Requests : req[q].seen \in Nat
    BY <1>0 DEF ScoreTypes, Score, Request
  <2>. QED
    BY <1>0, <1>1, <1>5, <1>6, <1>7, <2>1 DEF Past
<1>9. ScoreLocks'
  BY <1>0, <1>1, <1>5, <1>6 DEF ScoreLocks
<1>10. Served'
  <2>. SUFFICES ASSUME NEW e \in entity \ excused, Missed(e)' \/ \E q \in Requests : WillMiss(q, e)'
                PROVE  \E q \in Requests : Serves(q, e)'
    BY <1>1 DEF Served
  <2>0. e \in Entities
    BY <1>1
  <2>1. CASE e \in scope \cup later
    <3>1. Serves(r, e)'
      BY <1>5, <1>6, <2>1 DEF Serves
    <3>. QED
      BY <3>1
  <2>2. CASE e \notin scope \cup later
    <3>1. edited'[e] = edited[e]
      BY <1>7, <2>0, <2>2
    <3>2. Missed(e)' => Missed(e)
      BY <1>1, <3>1 DEF Missed
    <3>3. \A q \in Requests : WillMiss(q, e)' => WillMiss(q, e)
      BY <1>5, <1>6, <3>1 DEF WillMiss
    <3>4. PICK q \in Requests : Serves(q, e)
      BY <1>0, <3>2, <3>3 DEF Served
    <3>5. q # r
      BY <1>0, <1>1, <3>4 DEF ScoreLocks, Serves
    <3>6. Serves(q, e)'
      BY <1>5, <3>1, <3>4, <3>5 DEF Serves
    <3>. QED
      BY <3>6
  <2>. QED
    BY <2>1, <2>2
<1>. QED
  BY <1>8, <1>9, <1>10

\* What no recalculation follows misses no edit that one follows.
LEMMA OthersKeep ==
    ASSUME ScoreInv,
           \/ Silent
           \/ \E e \in Entities : Scoring!DeleteEntity(e)
           \/ \E es \in SUBSET Entities : Scoring!RecomputeScores(es)
    PROVE  Past' /\ ScoreLocks' /\ Served'
<1>. USE DEF Scoring!rows, Scoring!Tick
<1>0. ScoreTypes /\ Past /\ ScoreLocks /\ Served
  BY DEF ScoreInv
<1>1. /\ UNCHANGED <<req, edited, excused>> /\ entity' \subseteq entity
      /\ clock' = clock + 1 /\ clock \in Nat /\ entity \subseteq Entities
      /\ score \in [Entities -> Score]
  BY <1>0 DEF Silent, Scoring!AssignAttribute, Scoring!UnassignAttribute, Scoring!DeleteAttribute, Scoring!DeleteEntity,
              Scoring!RecomputeScores, ScoreTypes
<1>2. \A e \in Entities :
        \/ score'[e] = score[e] /\ (e \in entity => e \in entity')
        \/ /\ \A r \in Requests : e \notin req[r].locked
           /\ \/ ~ score'[e].exists /\ score'[e].by = "none" /\ score'[e].seen = 0
              \/ score'[e].by = "validation" /\ e \in entity' /\ score'[e].seen = score[e].seen
  <2>1. CASE Silent
    BY <2>1 DEF Silent, Scoring!AssignAttribute, Scoring!UnassignAttribute, Scoring!DeleteAttribute
  <2>2. ASSUME NEW e \in Entities, Scoring!DeleteEntity(e)
        PROVE  /\ \A f \in Entities \ {e} : score'[f] = score[f] /\ (f \in entity => f \in entity')
               /\ \A r \in Requests : e \notin req[r].locked
               /\ ~ score'[e].exists /\ score'[e].by = "none" /\ score'[e].seen = 0
    BY <1>1, <2>2 DEF Scoring!DeleteEntity, Scoring!NoScore
  <2>3. ASSUME NEW es \in SUBSET Entities, Scoring!RecomputeScores(es)
        PROVE  /\ entity' = entity /\ es \subseteq entity
               /\ \A f \in Entities \ es : score'[f] = score[f]
               /\ \A f \in es : /\ \A r \in Requests : f \notin req[r].locked
                                /\ score'[f].by = "validation" /\ score'[f].seen = score[f].seen
    <3>1. \A f \in Entities : score[f] \in Score
      BY <1>1
    <3>2. \A f \in es : score'[f] = [score[f] EXCEPT !.exists = TRUE, !.by = "validation", !.over = {}]
      BY <2>3 DEF Scoring!RecomputeScores
    <3>3. \A f \in es : score'[f].by = "validation" /\ score'[f].seen = score[f].seen
      BY <3>1, <3>2 DEF Score
    <3>. QED
      BY <2>3, <3>3 DEF Scoring!RecomputeScores
  <2>4. CASE \E e \in Entities : Scoring!DeleteEntity(e)
    <3>1. PICK e \in Entities : Scoring!DeleteEntity(e)
      BY <2>4
    <3>. QED
      BY <2>2, <3>1
  <2>5. CASE \E es \in SUBSET Entities : Scoring!RecomputeScores(es)
    <3>1. PICK es \in SUBSET Entities : Scoring!RecomputeScores(es)
      BY <2>5
    <3>. QED
      BY <2>3, <3>1
  <2>. QED
    BY <2>1, <2>4, <2>5
<1>3. Past'
  <2>1. /\ \A e \in Entities : score[e].seen \in Nat /\ edited[e] \in Nat
        /\ \A r \in Requests : req[r].seen \in Nat
    BY <1>0 DEF ScoreTypes, Score, Request
  <2>. QED
    BY <1>0, <1>1, <1>2, <2>1 DEF Past
<1>4. ScoreLocks'
  BY <1>0, <1>1, <1>2 DEF ScoreLocks
<1>5. Served'
  <2>. SUFFICES ASSUME NEW e \in entity' \ excused', Missed(e)' \/ \E r \in Requests : WillMiss(r, e)'
                PROVE  \E r \in Requests : Serves(r, e)'
    BY DEF Served
  <2>1. e \in Entities /\ e \in entity \ excused
    BY <1>1
  <2>2. Missed(e)' => Missed(e)
    BY <1>1, <1>2, <2>1 DEF Missed
  <2>3. \A r \in Requests : WillMiss(r, e)' => WillMiss(r, e)
    BY <1>1 DEF WillMiss
  <2>4. \A r \in Requests : Serves(r, e) => Serves(r, e)'
    BY <1>1 DEF Serves
  <2>. QED
    BY <1>0, <2>1, <2>2, <2>3, <2>4 DEF Served
<1>. QED
  BY <1>3, <1>4, <1>5

\* The first statement waits for the rows and holds them; what it serves it still serves.
LEMMA MarkKeeps ==
    ASSUME ScoreInv, NEW r \in Requests, Scoring!MarkStale(r) PROVE Past' /\ ScoreLocks' /\ Served'
<1>0. ScoreTypes /\ Past /\ ScoreLocks /\ Served
  BY DEF ScoreInv
<1>1. /\ UNCHANGED <<entity, score, edited, excused, clock>> /\ req[r].pc = "mark"
      /\ Scoring!RowsOf(r) \cap Scoring!Held(r) = {} /\ entity \subseteq Entities
  BY <1>0 DEF Scoring!MarkStale, Scoring!rows, ScoreTypes
<1>2. /\ req'[r].pc = "compute" /\ req'[r].locked = Scoring!RowsOf(r)
      /\ req'[r].scope = req[r].scope /\ req'[r].later = req[r].later
      /\ req'[r].seen = req[r].seen
      /\ \A q \in Requests \ {r} : req'[q] = req[q]
  BY <1>0, Records
<1>3. Past'
  BY <1>0, <1>1, <1>2 DEF Past
<1>4. Scoring!RowsOf(r) \subseteq req[r].scope /\ \A e \in Scoring!RowsOf(r) : score[e].exists
  BY DEF Scoring!RowsOf
<1>5. \A q \in Requests \ {r} : Scoring!RowsOf(r) \cap req[q].locked = {}
  BY <1>1 DEF Scoring!Held
<1>6. ScoreLocks'
  BY <1>0, <1>1, <1>2, <1>4, <1>5 DEF ScoreLocks
<1>7. Served'
  <2>. SUFFICES ASSUME NEW e \in entity \ excused, Missed(e)' \/ \E q \in Requests : WillMiss(q, e)'
                PROVE  \E q \in Requests : Serves(q, e)'
    BY <1>1 DEF Served
  <2>0. e \in Entities
    BY <1>1
  <2>1. (Missed(e)' => Missed(e)) /\ \A q \in Requests : WillMiss(q, e)' => WillMiss(q, e)
    BY <1>1, <1>2 DEF Missed, WillMiss
  <2>2. PICK q \in Requests : Serves(q, e)
    BY <1>0, <2>1 DEF Served
  <2>3. CASE q # r
    <3>1. Serves(q, e)'
      BY <1>1, <1>2, <2>2, <2>3 DEF Serves
    <3>. QED
      BY <3>1
  <2>4. CASE q = r /\ e \in req[r].later
    <3>1. Serves(r, e)'
      BY <1>2, <2>4 DEF Serves
    <3>. QED
      BY <3>1
  <2>5. CASE q = r /\ e \in req[r].scope
    <3>1. score[e].exists
      BY <1>0, <1>1, <2>0, <2>1 DEF Missed, WillMiss, Past, ScoreLocks
    <3>2. Serves(r, e)'
      BY <1>2, <2>5, <3>1 DEF Serves, Scoring!RowsOf
    <3>. QED
      BY <3>2
  <2>. QED
    BY <1>1, <2>2, <2>3, <2>4, <2>5 DEF Serves
<1>. QED
  BY <1>3, <1>6, <1>7

\* The second statement reads all that was edited until then.
LEMMA ComputeKeeps ==
    ASSUME ScoreInv, NEW r \in Requests, Scoring!Compute(r) PROVE Past' /\ ScoreLocks' /\ Served'
<1>0. ScoreTypes /\ Past /\ ScoreLocks /\ Served
  BY DEF ScoreInv
<1>1. /\ UNCHANGED <<entity, score, edited, excused, clock>> /\ req[r].pc = "compute"
      /\ entity \subseteq Entities /\ clock \in Nat
  BY <1>0 DEF Scoring!Compute, Scoring!rows, ScoreTypes
<1>2. /\ req'[r].pc = "write" /\ req'[r].locked = req[r].locked
      /\ req'[r].scope = req[r].scope /\ req'[r].later = req[r].later
      /\ req'[r].seen = clock
      /\ \A q \in Requests \ {r} : req'[q] = req[q]
  BY <1>0, Records
<1>3. Past'
  BY <1>0, <1>1, <1>2 DEF Past
<1>4. ScoreLocks'
  BY <1>0, <1>1, <1>2 DEF ScoreLocks
<1>5. Served'
  <2>. SUFFICES ASSUME NEW e \in entity \ excused, Missed(e)' \/ \E q \in Requests : WillMiss(q, e)'
                PROVE  \E q \in Requests : Serves(q, e)'
    BY <1>1 DEF Served
  <2>0. e \in Entities /\ edited[e] \in Nat /\ clock >= edited[e]
    BY <1>0, <1>1 DEF ScoreTypes, Past
  <2>1. (Missed(e)' => Missed(e)) /\ \A q \in Requests : WillMiss(q, e)' => WillMiss(q, e)
    BY <1>1, <1>2, <2>0 DEF Missed, WillMiss
  <2>2. PICK q \in Requests : Serves(q, e)
    BY <1>0, <2>1 DEF Served
  <2>3. Serves(q, e)'
    BY <1>1, <1>2, <2>0, <2>2 DEF Serves
  <2>. QED
    BY <2>3
<1>. QED
  BY <1>3, <1>4, <1>5

\* A request that goes on to its next entity or ends holds no row.
LEMMA NextLocks ==
    ASSUME ScoreTypes, ScoreLocks, NEW r \in Requests, Scoring!NextEntity(r),
           \A q \in Requests \ {r}, e \in Entities : e \in req[q].locked => score'[e].exists
    PROVE  ScoreLocks'
<1>1. /\ \A q \in Requests \ {r} : req'[q] = req[q]
      /\ req'[r].pc \in {"idle", "mark"} /\ req'[r].locked = {}
      /\ req'[r].pc = "idle" => req'[r].later = {}
  BY NextRequest
<1>. QED
  BY <1>1 DEF ScoreLocks

\* What is written counts all that was edited before it was read; an edit made
\* since is served by another request, or by a later part of this one.
LEMMA WriteKeeps ==
    ASSUME ScoreInv, NEW r \in Requests, Scoring!WriteScores(r) PROVE Past' /\ ScoreLocks' /\ Served'
<1>0. ScoreTypes /\ Past /\ ScoreLocks /\ Served
  BY DEF ScoreInv
<1>1. /\ UNCHANGED <<entity, edited, clock>> /\ req[r].pc = "write"
      /\ req[r].found \subseteq entity /\ req[r].found \cap Scoring!Held(r) = {}
      /\ Scoring!NextEntity(r)
      /\ LET old == {e \in req[r].found : edited[e] > req[r].seen} IN
           excused' = (excused \ (req[r].found \ old)) \cup (old \ req[r].locked)
  BY DEF Scoring!WriteScores, Scoring!rows
<1>2. /\ entity \subseteq Entities /\ \A e \in Entities : edited[e] \in Nat
      /\ \A q \in Requests : req[q].seen \in Nat
      /\ clock \in Nat
  BY <1>0 DEF ScoreTypes, Request
<1>3. /\ \A q \in Requests \ {r} : req'[q] = req[q]
      /\ req'[r].pc \in {"idle", "mark"} /\ req'[r].locked = {} /\ req'[r].seen = 0
      /\ \A x \in req[r].later :
           x \in req'[r].later \/ (req'[r].pc = "mark" /\ x \in req'[r].scope)
  BY <1>0, <1>1, NextRequest
<1>4. \A e \in Entities :
        /\ e \in req[r].found =>
             /\ score'[e].exists /\ ~ score'[e].stale
             /\ score'[e].by = "matrix" /\ score'[e].seen = req[r].seen
        /\ e \notin req[r].found =>
             /\ score'[e].exists = score[e].exists /\ score'[e].by = score[e].by
             /\ score'[e].seen = score[e].seen
             /\ e \in req[r].locked => score'[e].stale
             /\ e \notin req[r].locked => score'[e] = score[e]
  BY <1>0, Written
<1>5. Past'
  BY <1>0, <1>1, <1>2, <1>3, <1>4 DEF Past
<1>6. ScoreLocks'
  <2>1. \A q \in Requests \ {r}, e \in Entities : e \in req[q].locked => score'[e].exists
    BY <1>0, <1>4 DEF ScoreLocks
  <2>. QED
    BY <1>0, <1>1, <2>1, NextLocks
<1>7. Served'
  <2>. SUFFICES ASSUME NEW e \in entity \ excused', Missed(e)' \/ \E q \in Requests : WillMiss(q, e)'
                PROVE  \E q \in Requests : Serves(q, e)'
    BY <1>1 DEF Served
  <2>0. /\ e \in Entities /\ e \in entity
        /\ e \in excused => e \in req[r].found /\ ~ (edited[e] > req[r].seen)
        /\ e \in req[r].found /\ edited[e] > req[r].seen => e \in req[r].locked
    BY <1>1, <1>2
  <2>1. \A q \in Requests : WillMiss(q, e)' => q # r /\ WillMiss(q, e) /\ e \in req[q].locked
    BY <1>1, <1>3 DEF WillMiss
  <2>2. \A q \in Requests : WillMiss(q, e)' => e \notin req[r].found /\ e \notin req[r].locked
    <3>1. \A q \in Requests \ {r} : req[q].locked \subseteq Scoring!Held(r)
      BY DEF Scoring!Held
    <3>. QED
      BY <1>0, <1>1, <2>1, <3>1 DEF ScoreLocks
  <2>a. e \notin excused
    <3>1. SUFFICES ASSUME e \in req[r].found, ~ (edited[e] > req[r].seen) PROVE FALSE
      BY <2>0
    <3>2. ~ Missed(e)'
      BY <1>1, <1>2, <1>4, <2>0, <3>1 DEF Missed
    <3>. QED
      BY <2>2, <3>1, <3>2
  <2>3. Missed(e) \/ \E q \in Requests : WillMiss(q, e)
    <3>1. CASE \E q \in Requests : WillMiss(q, e)'
      BY <2>1, <3>1
    <3>2. CASE Missed(e)' /\ e \in req[r].found
      <4>1. req[r].seen < edited[e]
        BY <1>1, <1>4, <2>0, <3>2 DEF Missed
      <4>2. e \in req[r].locked
        BY <1>1, <1>2, <2>0, <3>2, <4>1
      <4>3. WillMiss(r, e)
        BY <1>1, <4>1, <4>2 DEF WillMiss
      <4>. QED
        BY <4>3
    <3>3. CASE Missed(e)' /\ e \notin req[r].found
      BY <1>1, <1>4, <2>0, <3>3 DEF Missed
    <3>. QED
      BY <3>1, <3>2, <3>3
  <2>4. PICK q \in Requests : Serves(q, e)
    BY <1>0, <2>0, <2>a, <2>3 DEF Served
  <2>5. CASE q # r
    <3>1. Serves(q, e)'
      BY <1>1, <1>3, <2>4, <2>5 DEF Serves
    <3>. QED
      BY <3>1
  <2>6. CASE q = r /\ e \in req[r].later
    <3>1. Serves(r, e)'
      BY <1>3, <2>6 DEF Serves
    <3>. QED
      BY <3>1
  <2>7. CASE q = r /\ e \in req[r].locked /\ req[r].seen >= edited[e]
    <3>1. ~ Missed(e)'
      BY <1>1, <1>2, <1>4, <2>0, <2>7 DEF Missed
    <3>. QED
      BY <2>2, <2>7, <3>1
  <2>. QED
    BY <1>1, <2>4, <2>5, <2>6, <2>7 DEF Serves
<1>. QED
  BY <1>5, <1>6, <1>7

\* A recalculation that is rolled back is lost for what it was about, and only for that.
LEMMA RollbackKeeps ==
    ASSUME ScoreInv, NEW r \in Requests, Scoring!RolledBack(r) PROVE Past' /\ ScoreLocks' /\ Served'
<1>0. ScoreTypes /\ Past /\ ScoreLocks /\ Served
  BY DEF ScoreInv
<1>1. /\ UNCHANGED <<entity, score, edited, clock>> /\ entity \subseteq Entities
      /\ excused' = excused \cup req[r].scope /\ Scoring!NextEntity(r) /\ clock \in Nat
  BY <1>0 DEF Scoring!RolledBack, Scoring!rows, ScoreTypes
<1>2. /\ \A q \in Requests \ {r} : req'[q] = req[q]
      /\ req'[r].pc \in {"idle", "mark"} /\ req'[r].locked = {} /\ req'[r].seen = 0
      /\ \A x \in req[r].later :
           x \in req'[r].later \/ (req'[r].pc = "mark" /\ x \in req'[r].scope)
  BY <1>0, <1>1, NextRequest
<1>3. Past'
  BY <1>0, <1>1, <1>2 DEF Past
<1>4. ScoreLocks'
  <2>1. \A q \in Requests \ {r}, e \in Entities : e \in req[q].locked => score'[e].exists
    BY <1>0, <1>1 DEF ScoreLocks
  <2>. QED
    BY <1>0, <1>1, <2>1, NextLocks
<1>5. Served'
  <2>. SUFFICES ASSUME NEW e \in entity \ excused', Missed(e)' \/ \E q \in Requests : WillMiss(q, e)'
                PROVE  \E q \in Requests : Serves(q, e)'
    BY <1>1 DEF Served
  <2>0. e \in Entities /\ e \in entity \ excused /\ e \notin req[r].scope
    BY <1>1
  <2>1. (Missed(e)' => Missed(e)) /\ \A q \in Requests : WillMiss(q, e)' => WillMiss(q, e)
    BY <1>1, <1>2 DEF Missed, WillMiss
  <2>2. PICK q \in Requests : Serves(q, e)
    BY <1>0, <2>0, <2>1 DEF Served
  <2>3. e \notin req[r].locked
    BY <1>0, <2>0 DEF ScoreLocks
  <2>4. Serves(q, e)'
    BY <1>1, <1>2, <2>0, <2>2, <2>3 DEF Serves
  <2>. QED
    BY <2>4
<1>. QED
  BY <1>3, <1>4, <1>5

-----------------------------------------------------------------------------
(* The theorems *)

\* The invariant holds at first: nothing was edited and nobody is at work.
LEMMA ScoreInit == ASSUME ScoreEdits \in Nat, MaxFaults \in Nat, Scoring!Init PROVE ScoreInv
<1>1. Scoring!Idle \in Request /\ Scoring!NoScore \in Score
  BY DEF Scoring!Idle, Request, Point, Scoring!NoScore, Score
<1>2. \A r \in Requests : req[r] = Scoring!Idle
  BY DEF Scoring!Init
<1>3. \A e \in Entities : score[e] = Scoring!NoScore /\ edited[e] = 0
  BY DEF Scoring!Init
<1>4. ScoreTypes
  BY <1>1 DEF ScoreTypes, Scoring!Init
<1>5. Past
  BY <1>2, <1>3 DEF Past, Scoring!Init, Scoring!Idle, Scoring!NoScore
<1>6. ScoreLocks
  BY <1>2 DEF ScoreLocks, Scoring!Idle
<1>7. Served
  <2>1. \A e \in Entities : ~ Missed(e)
    BY <1>3 DEF Missed, Scoring!NoScore
  <2>2. \A r \in Requests : req[r].pc = "idle"
    <3>1. Scoring!Idle.pc = "idle"
      BY DEF Scoring!Idle
    <3>. QED
      BY <1>2, <3>1, Zenon
  <2>3. \A e \in Entities, r \in Requests : ~ WillMiss(r, e)
    BY <2>2 DEF WillMiss
  <2>. QED
    BY <1>4, <2>1, <2>3 DEF Served, ScoreTypes
<1>. QED
  BY <1>4, <1>5, <1>6, <1>7 DEF ScoreInv

\* Every step keeps it.
LEMMA ScoreStep ==
    ASSUME ScoreEdits \in Nat, MaxFaults \in Nat, ScoreInv, [Scoring!Next]_Scoring!scoreVars PROVE ScoreInv'
<1>0. ScoreTypes
  BY DEF ScoreInv
<1>1. ASSUME NEW r \in Requests, Edit(r) PROVE ScoreInv'
  BY <1>0, <1>1, EditTypes, EditKeeps DEF ScoreInv
<1>2. ASSUME \/ Silent
             \/ \E e \in Entities : Scoring!DeleteEntity(e)
             \/ \E es \in SUBSET Entities : Scoring!RecomputeScores(es)
      PROVE  ScoreInv'
  BY <1>0, <1>2, OtherTypes, OthersKeep DEF ScoreInv
<1>3. ASSUME NEW r \in Requests,
             \/ Scoring!MarkStale(r) \/ Scoring!Compute(r) \/ Scoring!WriteScores(r)
             \/ Scoring!EntityIsGone(r) \/ Scoring!RecalculationFails(r)
      PROVE  ScoreInv'
  <2>1. ScoreTypes'
    BY <1>0, <1>3, ScoreStepTypes
  <2>2. Scoring!EntityIsGone(r) \/ Scoring!RecalculationFails(r) => Scoring!RolledBack(r)
    BY DEF Scoring!EntityIsGone, Scoring!RecalculationFails
  <2>3. Past' /\ ScoreLocks' /\ Served'
    BY <1>3, <2>2, MarkKeeps, ComputeKeeps, WriteKeeps, RollbackKeeps
  <2>. QED
    BY <2>1, <2>3 DEF ScoreInv
<1>4. CASE UNCHANGED Scoring!scoreVars
  BY <1>4 DEF Scoring!scoreVars, ScoreInv, ScoreTypes, Past, ScoreLocks, Served, Missed, WillMiss, Serves
<1>5. CASE Scoring!Next
  BY <1>1, <1>2, <1>3, <1>5, Zenon DEF Scoring!Next, Edit, Silent
<1>. QED
  BY <1>4, <1>5

\* The values are of their types, scores belong to entities, nothing is seen before
\* it is edited, and no two recalculations hold the same row (the row locks of
\* db/scores.py), for any number of requests, entities, attributes, edits and failures.
THEOREM ScoreTypesCorrect ==
    ASSUME ScoreEdits \in Nat, MaxFaults \in Nat PROVE Scoring!Spec => []Scoring!TypeOK
<1>1. Scoring!Init => ScoreInv
  BY ScoreInit
<1>2. ScoreInv /\ [Scoring!Next]_Scoring!scoreVars => ScoreInv'
  BY ScoreStep
<1>3. ScoreInv => Scoring!TypeOK
  <2>. SUFFICES ASSUME ScoreInv PROVE Scoring!TypeOK
    OBVIOUS
  <2>1. \A e \in Entities : /\ score[e].stale \in BOOLEAN /\ score[e].over \subseteq Entities
                            /\ score[e].by \in {"none", "matrix", "validation"}
    BY DEF ScoreInv, ScoreTypes, Score
  <2>. QED
    BY <2>1 DEF ScoreInv, ScoreTypes, Past, ScoreLocks, Scoring!TypeOK
<1>. QED
  BY <1>1, <1>2, <1>3, PTL DEF Scoring!Spec

\* When no request is under way, a matrix score that is not stale counts every edit of
\* the entity's own cells and of the weights that a recalculation follows, but for an
\* entity excused: the row locks put the recalculations of a score that is there in
\* the order of their snapshots (routers/matrix.py, db/scores.py).
THEOREM OwnEditsAreScoredCorrect ==
    ASSUME ScoreEdits \in Nat, MaxFaults \in Nat PROVE Scoring!Spec => []Scoring!OwnEditsAreScored
<1>1. Scoring!Init => ScoreInv
  BY ScoreInit
<1>2. ScoreInv /\ [Scoring!Next]_Scoring!scoreVars => ScoreInv'
  BY ScoreStep
<1>3. ScoreInv => Scoring!OwnEditsAreScored
  <2>. SUFFICES ASSUME ScoreInv, \A r \in Requests : req[r].pc = "idle",
                       NEW e \in entity \ excused, score[e].by = "matrix", ~ score[e].stale
                PROVE  score[e].seen >= edited[e]
    BY DEF Scoring!OwnEditsAreScored
  <2>1. e \in Entities /\ score[e].seen \in Nat /\ edited[e] \in Nat
    BY DEF ScoreInv, ScoreTypes, Score
  <2>2. \A r \in Requests : ~ Serves(r, e)
    BY DEF ScoreInv, ScoreLocks, Serves
  <2>3. ~ Missed(e)
    BY <2>2 DEF ScoreInv, Served
  <2>. QED
    BY <2>1, <2>3 DEF Missed
<1>. QED
  BY <1>1, <1>2, <1>3, PTL DEF Scoring!Spec

-----------------------------------------------------------------------------
(* The services together *)

\* A step is one of a single service; the others stay as they are.
Turn == [ServicesNext]_<<which, vars, slots>>

\* A behaviour starts as one of its service does.
LEMMA Starts ==
    ServicesInit =>
      /\ Init
      /\ In("scheduler") => Sched!Init
      /\ In("clusters") => Clusters!Init
      /\ In("cache") => Cache!Init
      /\ In("collaboration") => Collab!Init
      /\ In("catalog") => Catalog!Init
      /\ In("scores") => Scoring!Init
      /\ In("startup") => Startup!Init
      /\ In("schema") => Schema!Init
      /\ In("pool") => Pool!Init
      /\ In("chat") => Chat!Init
      /\ In("research") => Research!Init
      /\ In("query") => Query!Init
      /\ In("resolver") => Resolver!Init
      /\ In("traversal") => Traversal!Init
      /\ In("knowledge") => Known!Init
      /\ In("history") => Talk!Init
      /\ In("batches") => Batches!Init
BY DEF ServicesInit, In

\* Nothing but the service's own steps is taken in its turn, and it is always its turn.
LEMMA Turns ==
    ASSUME Turn
    PROVE  /\ which' = which /\ [Next]_vars
           /\ In("scheduler") => [Sched!Next]_(Sched!schedVars)
           /\ In("clusters") => [Clusters!Next]_(Clusters!clusterVars)
           /\ In("cache") => [Cache!Next]_(Cache!cacheVars)
           /\ In("collaboration") => [Collab!Next]_(Collab!collabVars)
           /\ In("catalog") => [Catalog!Next]_(Catalog!catalogVars)
           /\ In("scores") => [Scoring!Next]_(Scoring!scoreVars)
           /\ In("startup") => [Startup!Next]_(Startup!startupVars)
           /\ In("schema") => [Schema!Next]_rows
           /\ In("pool") => [Pool!Next]_(Pool!poolVars)
           /\ In("chat") => [Chat!Next]_(Chat!chatVars)
           /\ In("research") => [Research!Next]_(Research!researchVars)
           /\ In("query") => [Query!Next]_(Query!queryVars)
           /\ In("resolver") => [Resolver!Next]_(Resolver!resolverVars)
           /\ In("traversal") => [Traversal!Next]_(Traversal!traversalVars)
           /\ In("knowledge") => [Known!Next]_(Known!cacheVars)
           /\ In("history") => [Talk!Next]_(Talk!historyVars)
           /\ In("batches") => [Batches!Next]_(Batches!batchVars)
<1>1. CASE UNCHANGED <<which, vars, slots>>
  <2>1. UNCHANGED Sched!schedVars
    BY <1>1 DEF slots, Sched!schedVars, day, monitor, lock, loop, task, sessions, edits,
               faults
  <2>2. UNCHANGED Clusters!clusterVars
    BY <1>1 DEF slots, Clusters!clusterVars, rows, job, faults
  <2>3. UNCHANGED Cache!cacheVars
    BY <1>1 DEF slots, Cache!cacheVars, docs, cache, lock, call, expiries, faults
  <2>4. UNCHANGED Collab!collabVars
    BY <1>1 DEF slots, Collab!collabVars, team, role, session, comment, notes, req,
               requests, faults
  <2>5. UNCHANGED Catalog!catalogVars
    BY <1>1 DEF slots, Catalog!catalogVars, campaign, audit, entities, attributes,
               library, templates, program, assigned, req, requests
  <2>6. UNCHANGED Scoring!scoreVars
    BY <1>1 DEF slots, Scoring!scoreVars, entity, attribute, assigned, cell, score, req,
               edited, excused, faults, clock
  <2>7. UNCHANGED Startup!startupVars
    BY <1>1 DEF slots, Startup!startupVars, rows, graph, indexes, lock, pc, last, starts,
               faults
  <2>8. UNCHANGED rows
    BY <1>1 DEF slots, rows
  <2>9. UNCHANGED Pool!poolVars
    BY <1>1 DEF slots, Pool!poolVars, password, published, secret, pool, pools, lock,
               call, faults
  <2>10. UNCHANGED Chat!chatVars
    BY <1>1 DEF slots, Chat!chatVars, window, exists, deleted, messages, req, faults
  <2>11. UNCHANGED Research!researchVars
    BY <1>1 DEF slots, Research!researchVars, st, store, resolved, job, faults
  <2>12. UNCHANGED Query!queryVars
    BY <1>1 DEF slots, Query!queryVars, docs, answer, keys, cost, call, upload, excused,
               faults, spent
  <2>13. UNCHANGED Resolver!resolverVars
    BY <1>1 DEF slots, Resolver!resolverVars, chunks, heard, people, stage, entries,
               call, output
  <2>14. UNCHANGED Traversal!traversalVars
    BY <1>1 DEF slots, Traversal!traversalVars, entities, edges, retired, query, changes
  <2>15. UNCHANGED Known!cacheVars
    BY <1>1 DEF slots, Known!cacheVars, day, campaign, teams, known, job, edits, faults
  <2>16. UNCHANGED Talk!historyVars
    BY <1>1 DEF slots, Talk!historyVars, history, messages, past, pc, rounds, questions,
               lost
  <2>17. UNCHANGED Batches!batchVars
    BY <1>1 DEF slots, Batches!batchVars, use, pages, taken, parts, batches, call, read
  <2>. QED
    BY <1>1, <2>1, <2>2, <2>3, <2>4, <2>5, <2>6, <2>7, <2>8, <2>9, <2>10, <2>11, <2>12,
            <2>13, <2>14, <2>15, <2>16, <2>17
<1>2. CASE ServicesNext
  BY <1>2 DEF ServicesNext, Of, In, TimingRuns, SchedRuns, ClustersRuns, CacheRuns,
              CollabRuns, CatalogRuns, ScoresRuns, StartupRuns, SchemaRuns, PoolRuns,
              ChatRuns, ResearchRuns, QueryRuns, ResolverRuns, TraversalRuns, KnownRuns,
              TalkRuns, BatchesRuns
<1>. QED
  BY <1>1, <1>2 DEF Turn

SchedOk == In("scheduler") => Sched!TypeOK /\ Sched!ParentsAreOlder

\* The monitors: a report hangs on an older one.
LEMMA SchedHolds == ServicesSpec => []SchedOk /\ (In("scheduler") => Sched!Init /\ [][Sched!Next]_(Sched!schedVars))
<1>1. ServicesInit /\ In("scheduler") => Sched!Init
  BY Starts
<1>2. Turn => /\ In("scheduler") <=> In("scheduler")'
              /\ In("scheduler") => [Sched!Next]_(Sched!schedVars)
  BY Turns DEF In
<1>3. Sched!Init => SchedInv
  BY ServicesAssumption, SchedInit
<1>4. SchedInv /\ [Sched!Next]_(Sched!schedVars) => SchedInv'
  BY ServicesAssumption, SchedStep
<1>5. SchedInv => Sched!TypeOK /\ Sched!ParentsAreOlder
  BY ServicesAssumption, SchedInvSuffices
<1>. QED
  BY <1>1, <1>2, <1>3, <1>4, <1>5, PTL DEF ServicesSpec, Turn, SchedOk

ClustersOk == In("clusters") => Clusters!TypeOK /\ Clusters!CallCoversItsAttributes

\* The clusters of attributes: they cover what the model was shown.
LEMMA ClustersHolds == ServicesSpec => []ClustersOk /\ (In("clusters") => Clusters!Spec)
<1>1. ServicesInit /\ In("clusters") => Clusters!Init
  BY Starts
<1>2. Turn => /\ In("clusters") <=> In("clusters")'
              /\ In("clusters") => [Clusters!Next]_(Clusters!clusterVars)
  BY Turns DEF In
<1>3. Clusters!Spec => [](Clusters!TypeOK /\ Clusters!CallCoversItsAttributes)
  BY ServicesAssumption, ClustersCoverCorrect, PTL DEF ClusterConstants
<1>. QED
  BY <1>1, <1>2, <1>3, PTL DEF ServicesSpec, Turn, Clusters!Spec, ClustersOk

CacheOk == In("cache") => Cache!TypeOK /\ Cache!OverlapIsBounded

\* The schema of a document: few compute it at once.
LEMMA CacheHolds == ServicesSpec => []CacheOk /\ (In("cache") => Cache!Spec)
<1>1. ServicesInit /\ In("cache") => Cache!Init
  BY Starts
<1>2. Turn => /\ In("cache") <=> In("cache")'
              /\ In("cache") => [Cache!Next]_(Cache!cacheVars)
  BY Turns DEF In
<1>3. Cache!Spec => [](Cache!TypeOK /\ Cache!OverlapIsBounded)
  BY ServicesAssumption, OverlapIsBoundedCorrect, PTL DEF CacheConstants
<1>. QED
  BY <1>1, <1>2, <1>3, PTL DEF ServicesSpec, Turn, Cache!Spec, CacheOk

CollabOk == In("collaboration") => Collab!TypeOK /\ Collab!EachReasonIsToldOnce

\* Comments: those concerned are told once.
LEMMA CollabHolds == ServicesSpec => []CollabOk /\ (In("collaboration") => Collab!Spec)
<1>1. ServicesInit /\ In("collaboration") => Collab!Init
  BY Starts
<1>2. Turn => /\ In("collaboration") <=> In("collaboration")'
              /\ In("collaboration") => [Collab!Next]_(Collab!collabVars)
  BY Turns DEF In
<1>3. Collab!Spec => [](Collab!TypeOK /\ Collab!EachReasonIsToldOnce)
  BY ServicesAssumption, EachReasonIsToldOnceCorrect, PTL DEF CollabConstants
<1>. QED
  BY <1>1, <1>2, <1>3, PTL DEF ServicesSpec, Turn, Collab!Spec, CollabOk

CatalogOk == In("catalog") => Catalog!TypeOK /\ Catalog!AuditIsAChain

\* Campaigns: the trail of a status is a chain.
LEMMA CatalogHolds == ServicesSpec => []CatalogOk /\ (In("catalog") => Catalog!Spec)
<1>1. ServicesInit /\ In("catalog") => Catalog!Init
  BY Starts
<1>2. Turn => /\ In("catalog") <=> In("catalog")'
              /\ In("catalog") => [Catalog!Next]_(Catalog!catalogVars)
  BY Turns DEF In
<1>3. Catalog!Spec => [](Catalog!TypeOK /\ Catalog!AuditIsAChain)
  BY ServicesAssumption, CatalogTypesCorrect, AuditIsAChainCorrect, PTL DEF CatalogConstants
<1>. QED
  BY <1>1, <1>2, <1>3, PTL DEF ServicesSpec, Turn, Catalog!Spec, CatalogOk

ScoringOk == In("scores") => Scoring!TypeOK /\ Scoring!OwnEditsAreScored

\* Scores: what is not stale counts every edit.
LEMMA ScoringHolds == ServicesSpec => []ScoringOk /\ (In("scores") => Scoring!Spec)
<1>1. ServicesInit /\ In("scores") => Scoring!Init
  BY Starts
<1>2. Turn => /\ In("scores") <=> In("scores")'
              /\ In("scores") => [Scoring!Next]_(Scoring!scoreVars)
  BY Turns DEF In
<1>3. Scoring!Spec => [](Scoring!TypeOK /\ Scoring!OwnEditsAreScored)
  BY ServicesAssumption, ScoreTypesCorrect, OwnEditsAreScoredCorrect, PTL DEF ScoreConstants
<1>. QED
  BY <1>1, <1>2, <1>3, PTL DEF ServicesSpec, Turn, Scoring!Spec, ScoringOk

StartupOk == In("startup") => Startup!TypeOK /\ Startup!LastStartHolds

\* Startups: what the last one put in force is in force.
LEMMA StartupHolds == ServicesSpec => []StartupOk /\ (In("startup") => Startup!Spec)
<1>1. ServicesInit /\ In("startup") => Startup!Init
  BY Starts
<1>2. Turn => /\ In("startup") <=> In("startup")'
              /\ In("startup") => [Startup!Next]_(Startup!startupVars)
  BY Turns DEF In
<1>3. Startup!Spec => [](Startup!TypeOK /\ Startup!LastStartHolds)
  BY ServicesAssumption, LastStartHoldsCorrect, PTL DEF StartupConstants
<1>. QED
  BY <1>1, <1>2, <1>3, PTL DEF ServicesSpec, Turn, Startup!Spec, StartupOk

SchemaOk == In("schema") => Schema!TypeOK /\ Schema!DeletesSucceed /\ Schema!CellsKeepTheirHistory

\* The schema: deletes succeed.
LEMMA SchemaHolds == ServicesSpec => []SchemaOk /\ (In("schema") => Schema!Spec)
<1>1. ServicesInit /\ In("schema") => Schema!Init
  BY Starts
<1>2. Turn => /\ In("schema") <=> In("schema")'
              /\ In("schema") => [Schema!Next]_rows
  BY Turns DEF In
<1>3. Schema!Spec => [](Schema!TypeOK /\ Schema!DeletesSucceed /\ Schema!CellsKeepTheirHistory)
  BY ServicesAssumption, DeletesSucceedCorrect, PTL DEF SchemaConstants
<1>. QED
  BY <1>1, <1>2, <1>3, PTL DEF ServicesSpec, Turn, Schema!Spec, SchemaOk

PoolOk == In("pool") => Pool!TypeOK /\ Pool!NoPoolLeaks

\* Connections: no pool is left open.
LEMMA PoolHolds == ServicesSpec => []PoolOk /\ (In("pool") => Pool!Spec)
<1>1. ServicesInit /\ In("pool") => Pool!Init
  BY Starts
<1>2. Turn => /\ In("pool") <=> In("pool")'
              /\ In("pool") => [Pool!Next]_(Pool!poolVars)
  BY Turns DEF In
<1>3. Pool!Spec => [](Pool!TypeOK /\ Pool!NoPoolLeaks)
  BY ServicesAssumption, NoPoolLeaksCorrect, PTL DEF PoolConstants
<1>. QED
  BY <1>1, <1>2, <1>3, PTL DEF ServicesSpec, Turn, Pool!Spec, PoolOk

ChatOk == In("chat") => Chat!TypeOK /\ Chat!LimitsHold

\* The chat about the graph: its limits hold.
LEMMA ChatHolds == ServicesSpec => []ChatOk /\ (In("chat") => Chat!Spec)
<1>1. ServicesInit /\ In("chat") => Chat!Init
  BY Starts
<1>2. Turn => /\ In("chat") <=> In("chat")'
              /\ In("chat") => [Chat!Next]_(Chat!chatVars)
  BY Turns DEF In
<1>3. Chat!Spec => [](Chat!TypeOK /\ Chat!LimitsHold)
  BY ServicesAssumption, ChatLimitsCorrect, PTL DEF ChatConstants
<1>. QED
  BY <1>1, <1>2, <1>3, PTL DEF ServicesSpec, Turn, Chat!Spec, ChatOk

ResearchOk == In("research") => Research!TypeOK /\ Research!QuestionsEndWithTheirStream

\* Research streams: a question ends with its stream.
LEMMA ResearchHolds == ServicesSpec => []ResearchOk /\ (In("research") => Research!Spec)
<1>1. ServicesInit /\ In("research") => Research!Init
  BY Starts
<1>2. Turn => /\ In("research") <=> In("research")'
              /\ In("research") => [Research!Next]_(Research!researchVars)
  BY Turns DEF In
<1>3. Research!Spec => [](Research!TypeOK /\ Research!QuestionsEndWithTheirStream)
  BY ServicesAssumption, QuestionsEndCorrect, PTL DEF ResearchConstants
<1>. QED
  BY <1>1, <1>2, <1>3, PTL DEF ServicesSpec, Turn, Research!Spec, ResearchOk

QueryOk == In("query") => Query!TypeOK /\ Query!AnswersCoverTheChunks /\ Query!BudgetHolds

\* Queries of documents: answers cover the chunks and are paid from the budget.
LEMMA QueryHolds == ServicesSpec => []QueryOk /\ (In("query") => Query!Spec)
<1>1. ServicesInit /\ In("query") => Query!Init
  BY Starts
<1>2. Turn => /\ In("query") <=> In("query")'
              /\ In("query") => [Query!Next]_(Query!queryVars)
  BY Turns DEF In
<1>3. Query!Spec => [](Query!TypeOK /\ Query!AnswersCoverTheChunks /\ Query!BudgetHolds)
  BY ServicesAssumption, QueryAnswersCorrect, PTL DEF QueryConstants
<1>. QED
  BY <1>1, <1>2, <1>3, PTL DEF ServicesSpec, Turn, Query!Spec, QueryOk

ResolverOk == In("resolver") => Resolver!TypeOK /\ Resolver!LookupsAreBounded /\ Resolver!EveryNameIsAnswered

\* Lookups of clients: bounded, and every name is answered.
LEMMA ResolverHolds == ServicesSpec => []ResolverOk /\ (In("resolver") => Resolver!Spec)
<1>1. ServicesInit /\ In("resolver") => Resolver!Init
  BY Starts
<1>2. Turn => /\ In("resolver") <=> In("resolver")'
              /\ In("resolver") => [Resolver!Next]_(Resolver!resolverVars)
  BY Turns DEF In
<1>3. Resolver!Spec => [](Resolver!TypeOK /\ Resolver!LookupsAreBounded /\ Resolver!EveryNameIsAnswered)
  BY ServicesAssumption, EveryNameIsAnsweredCorrect, PTL DEF ResolverConstants
<1>. QED
  BY <1>1, <1>2, <1>3, PTL DEF ServicesSpec, Turn, Resolver!Spec, ResolverOk

TraversalOk == In("traversal") => Traversal!TypeOK /\ Traversal!AnswersAreExact

\* Walks of the graph: they find what there is.
LEMMA TraversalHolds == ServicesSpec => []TraversalOk /\ (In("traversal") => Traversal!Spec)
<1>1. ServicesInit /\ In("traversal") => Traversal!Init
  BY Starts
<1>2. Turn => /\ In("traversal") <=> In("traversal")'
              /\ In("traversal") => [Traversal!Next]_(Traversal!traversalVars)
  BY Turns DEF In
<1>3. Traversal!Spec => [](Traversal!TypeOK /\ Traversal!AnswersAreExact)
  BY ServicesAssumption, TraversalAnswersAreExact, PTL DEF TraversalConstants
<1>. QED
  BY <1>1, <1>2, <1>3, PTL DEF ServicesSpec, Turn, Traversal!Spec, TraversalOk

KnownOk == In("knowledge") => Known!TypeOK /\ Known!ReusedIsKnown

\* What is known of a client: what is reused is known.
LEMMA KnownHolds == ServicesSpec => []KnownOk /\ (In("knowledge") => Known!Spec)
<1>1. ServicesInit /\ In("knowledge") => Known!Init
  BY Starts
<1>2. Turn => /\ In("knowledge") <=> In("knowledge")'
              /\ In("knowledge") => [Known!Next]_(Known!cacheVars)
  BY Turns DEF In
<1>3. Known!Spec => [](Known!TypeOK /\ Known!ReusedIsKnown)
  BY ServicesAssumption, ReusedIsKnownCorrect, PTL DEF KnownConstants
<1>. QED
  BY <1>1, <1>2, <1>3, PTL DEF ServicesSpec, Turn, Known!Spec, KnownOk

TalkOk == In("history") => Talk!TypeOK /\ Talk!CallsKeepTheirResults /\ Talk!HistoryFits

\* The conversation with the agent: calls keep their results, within the budget.
LEMMA TalkHolds == ServicesSpec => []TalkOk /\ (In("history") => Talk!Spec)
<1>1. ServicesInit /\ In("history") => Talk!Init
  BY Starts
<1>2. Turn => /\ In("history") <=> In("history")'
              /\ In("history") => [Talk!Next]_(Talk!historyVars)
  BY Turns DEF In
<1>3. Talk!Spec => [](Talk!TypeOK /\ Talk!CallsKeepTheirResults /\ Talk!HistoryFits)
  BY ServicesAssumption, CallsKeepTheirResultsCorrect, PTL DEF TalkConstants
<1>. QED
  BY <1>1, <1>2, <1>3, PTL DEF ServicesSpec, Turn, Talk!Spec, TalkOk

BatchesOk == In("batches") => Batches!TypeOK /\ Batches!PagesAreRead /\ Batches!BatchesAreBounded

\* The pages of a document: all are read, in bounded batches.
LEMMA BatchesHolds == ServicesSpec => []BatchesOk /\ (In("batches") => Batches!Spec)
<1>1. ServicesInit /\ In("batches") => Batches!Init
  BY Starts
<1>2. Turn => /\ In("batches") <=> In("batches")'
              /\ In("batches") => [Batches!Next]_(Batches!batchVars)
  BY Turns DEF In
<1>3. Batches!Spec => [](Batches!TypeOK /\ Batches!PagesAreRead /\ Batches!BatchesAreBounded)
  BY ServicesAssumption, PagesAreReadCorrect, PTL DEF BatchConstants
<1>. QED
  BY <1>1, <1>2, <1>3, PTL DEF ServicesSpec, Turn, Batches!Spec, BatchesOk

\* The clocks of a job run next to the services, and on their own.
LEMMA TimingHolds == ServicesSpec => Spec /\ [](In("timing") => TypeOK)
<1>1. Init => TypeOK
  <2>. SUFFICES ASSUME Init PROVE TypeOK
    OBVIOUS
  <2>1. alive \in BOOLEAN
    BY Zenon DEF Init
  <2>. QED
    BY <2>1 DEF Init, TypeOK
<1>2. TypeOK /\ [Next]_vars => TypeOK'
  <2>. SUFFICES ASSUME TypeOK, [Next]_vars PROVE TypeOK'
    OBVIOUS
  <2>. USE DEF TypeOK, handler
  <2>1. CASE Claim
    BY <2>1 DEF Claim
  <2>2. CASE Start
    BY <2>2 DEF Start
  <2>3. CASE Beat
    BY <2>3 DEF Beat, Refreshed
  <2>4. CASE BeatFails
    BY <2>4 DEF BeatFails
  <2>5. CASE Finish
    BY <2>5 DEF Finish
  <2>6. CASE Die
    BY <2>6 DEF Die
  <2>7. CASE Reclaim
    BY <2>7 DEF Reclaim
  <2>8. CASE Pass
    BY <2>8 DEF Pass
  <2>9. CASE UNCHANGED vars
    BY <2>9 DEF vars
  <2>. QED
    BY <2>1, <2>2, <2>3, <2>4, <2>5, <2>6, <2>7, <2>8, <2>9 DEF Next
<1>3. ServicesInit => Init
  BY Starts
<1>4. Turn => [Next]_vars
  BY Turns
<1>. QED
  BY <1>1, <1>2, <1>3, <1>4, PTL DEF ServicesSpec, Turn, Spec

-----------------------------------------------------------------------------
(* The theorems *)

\* Put together, the services do what each of them does alone: the clocks run as they
\* do, and a behaviour of one service is one that its own module describes (of the
\* scheduler's, all but the fairness).
THEOREM BehavesAsItsService ==
    ServicesSpec =>
      /\ Spec
      /\ In("scheduler") => Sched!Init /\ [][Sched!Next]_(Sched!schedVars)
      /\ In("clusters") => Clusters!Spec
      /\ In("cache") => Cache!Spec
      /\ In("collaboration") => Collab!Spec
      /\ In("catalog") => Catalog!Spec
      /\ In("scores") => Scoring!Spec
      /\ In("startup") => Startup!Spec
      /\ In("schema") => Schema!Spec
      /\ In("pool") => Pool!Spec
      /\ In("chat") => Chat!Spec
      /\ In("research") => Research!Spec
      /\ In("query") => Query!Spec
      /\ In("resolver") => Resolver!Spec
      /\ In("traversal") => Traversal!Spec
      /\ In("knowledge") => Known!Spec
      /\ In("history") => Talk!Spec
      /\ In("batches") => Batches!Spec
<1>1. ServicesSpec => Spec
  BY TimingHolds, PTL
<1>2. ServicesSpec => (In("scheduler") => Sched!Init /\ [][Sched!Next]_(Sched!schedVars))
  BY SchedHolds, PTL
<1>3. ServicesSpec => (In("clusters") => Clusters!Spec)
  BY ClustersHolds, PTL
<1>4. ServicesSpec => (In("cache") => Cache!Spec)
  BY CacheHolds, PTL
<1>5. ServicesSpec => (In("collaboration") => Collab!Spec)
  BY CollabHolds, PTL
<1>6. ServicesSpec => (In("catalog") => Catalog!Spec)
  BY CatalogHolds, PTL
<1>7. ServicesSpec => (In("scores") => Scoring!Spec)
  BY ScoringHolds, PTL
<1>8. ServicesSpec => (In("startup") => Startup!Spec)
  BY StartupHolds, PTL
<1>9. ServicesSpec => (In("schema") => Schema!Spec)
  BY SchemaHolds, PTL
<1>10. ServicesSpec => (In("pool") => Pool!Spec)
  BY PoolHolds, PTL
<1>11. ServicesSpec => (In("chat") => Chat!Spec)
  BY ChatHolds, PTL
<1>12. ServicesSpec => (In("research") => Research!Spec)
  BY ResearchHolds, PTL
<1>13. ServicesSpec => (In("query") => Query!Spec)
  BY QueryHolds, PTL
<1>14. ServicesSpec => (In("resolver") => Resolver!Spec)
  BY ResolverHolds, PTL
<1>15. ServicesSpec => (In("traversal") => Traversal!Spec)
  BY TraversalHolds, PTL
<1>16. ServicesSpec => (In("knowledge") => Known!Spec)
  BY KnownHolds, PTL
<1>17. ServicesSpec => (In("history") => Talk!Spec)
  BY TalkHolds, PTL
<1>18. ServicesSpec => (In("batches") => Batches!Spec)
  BY BatchesHolds, PTL
<1>. QED
  BY <1>1, <1>2, <1>3, <1>4, <1>5, <1>6, <1>7, <1>8, <1>9, <1>10, <1>11, <1>12, <1>13,
     <1>14, <1>15, <1>16, <1>17, <1>18

\* Whichever service runs and however its requests, jobs, ticks, streams and startups
\* overlap and fail, its variables hold values the code could hold.
THEOREM TypesCorrect == ServicesSpec => []TypesOK
<1>1. /\ In("timing") => TypeOK
      /\ SchedOk /\ ClustersOk /\ CacheOk /\ CollabOk /\ CatalogOk /\ ScoringOk /\ StartupOk /\ SchemaOk
      /\ PoolOk /\ ChatOk /\ ResearchOk /\ QueryOk /\ ResolverOk /\ TraversalOk /\ KnownOk /\ TalkOk
      /\ BatchesOk
      => TypesOK
  BY DEF TypesOK, SchedOk, ClustersOk, CacheOk, CollabOk, CatalogOk, ScoringOk, StartupOk, SchemaOk,
         PoolOk, ChatOk, ResearchOk, QueryOk, ResolverOk, TraversalOk, KnownOk, TalkOk, BatchesOk
<1>. QED
  BY <1>1, TimingHolds, SchedHolds, ClustersHolds, CacheHolds, CollabHolds, CatalogHolds,
     ScoringHolds, StartupHolds, SchemaHolds, PoolHolds, ChatHolds, ResearchHolds, QueryHolds,
     ResolverHolds, TraversalHolds, KnownHolds, TalkHolds, BatchesHolds, PTL

\* Nothing the code limits grows past its limit and nothing it holds is kept: messages and
\* tool calls of a chat, lookups, connection pools, the questions of a stream, the tokens
\* of a conversation and the batches of pages; and the model calls of a session and the
\* computations of a schema pass theirs by no more than the queries that overlap, the
\* failures of Redis and the expired locks account for.
THEOREM LimitsCorrect == ServicesSpec => []LimitsHold
<1>1. ChatOk /\ QueryOk /\ CacheOk /\ ResolverOk /\ PoolOk /\ ResearchOk /\ TalkOk /\ BatchesOk
      => LimitsHold
  BY DEF LimitsHold, ChatOk, QueryOk, CacheOk, ResolverOk, PoolOk, ResearchOk, TalkOk, BatchesOk
<1>. QED
  BY <1>1, ChatHolds, QueryHolds, CacheHolds, ResolverHolds, PoolHolds, ResearchHolds, TalkHolds,
     BatchesHolds, PTL

\* What is handed out is all that was asked for, up to where the code cuts a prompt, a list
\* or a page and but for what each service excuses: cached answers, batches of lookups,
\* clusters, walks of the graph, reused results, the results of tool calls and the pages
\* of a document.
THEOREM AnswersAreWholeCorrect == ServicesSpec => []AnswersAreWhole
<1>1. QueryOk /\ ResolverOk /\ ClustersOk /\ TraversalOk /\ KnownOk /\ TalkOk /\ BatchesOk
      => AnswersAreWhole
  BY DEF AnswersAreWhole, QueryOk, ResolverOk, ClustersOk, TraversalOk, KnownOk, TalkOk, BatchesOk
<1>. QED
  BY <1>1, QueryHolds, ResolverHolds, ClustersHolds, TraversalHolds, KnownHolds, TalkHolds,
     BatchesHolds, PTL

\* A comment is told of once to who is mentioned or subscribed, and once to the author of
\* what it replies to (routers/comments.py).
THEOREM ReasonsAreToldOnce == ServicesSpec => []EachReasonIsToldOnce
<1>1. CollabOk => EachReasonIsToldOnce
  BY DEF CollabOk, EachReasonIsToldOnce
<1>. QED
  BY <1>1, CollabHolds, PTL

\* A score that is not marked stale counts the edits of its own entity, but for a first
\* score and until the recalculation after a failed one (db/scores.py).
THEOREM ScoresCountOwnEdits == ServicesSpec => []OwnEditsAreScored
<1>1. ScoringOk => OwnEditsAreScored
  BY DEF ScoringOk, OwnEditsAreScored
<1>. QED
  BY <1>1, ScoringHolds, PTL

\* The rows of a campaign's status audit make one chain of changes, in whatever order
\* they are listed (db/campaigns.py).
THEOREM AuditsAreChains == ServicesSpec => []AuditIsAChain
<1>1. CatalogOk => AuditIsAChain
  BY DEF CatalogOk, AuditIsAChain
<1>. QED
  BY <1>1, CatalogHolds, PTL

\* While the last startup is one that completed, what it put in force is in force
\* (db/_schema.py).
THEOREM StartsHold == ServicesSpec => []LastStartHolds
<1>1. StartupOk => LastStartHolds
  BY DEF StartupOk, LastStartHolds
<1>. QED
  BY <1>1, StartupHolds, PTL

\* Deletes succeed and cells keep their history (the foreign keys and triggers of
\* db/_schema.py).
THEOREM EveryDeleteSucceeds == ServicesSpec => []DeletesSucceed
<1>1. SchemaOk => DeletesSucceed
  BY DEF SchemaOk, DeletesSucceed
<1>. QED
  BY <1>1, SchemaHolds, PTL

\* With safe settings no running job is reclaimed prematurely, whichever service runs
\* next to the clocks (HeartbeatTiming).
THEOREM NothingIsReclaimedEarly == SafeTiming /\ ServicesSpec => []NoPrematureReclaim
BY TimingHolds, NoPrematureReclaimCorrect, PTL
=============================================================================
