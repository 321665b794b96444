-------------------------- MODULE KnowledgeGraphProofs --------------------------
(***************************************************************************)
(* The knowledge graph keeps its names and pairs unique, its history on     *)
(* record and its links alive, for every number of callers, calls, teams    *)
(* and entities.                                                            *)
(*                                                                         *)
(* What the tables promise rests on what a call in the middle of its        *)
(* statements still knows of the rows it has seen (Known), and that on the  *)
(* row locks: two calls never hold the same row (Exclusive).                *)
(***************************************************************************)
EXTENDS KnowledgeGraph, TLAPS

-----------------------------------------------------------------------------
(* The inductive invariant. *)

\* Types of the tables, and of what the calls are in the middle of.
Rows ==
  /\ ids \in [e: Nat \ {0}, r: Nat \ {0}]
  /\ DOMAIN entities \subseteq 1 .. ids.e - 1
  /\ DOMAIN rels \subseteq 1 .. ids.r - 1
  /\ \A e \in DOMAIN entities : entities[e] \in EntityRow
  /\ \A r \in DOMAIN rels : rels[r] \in RelRow
Records ==
  /\ conflicts \subseteq Nat \X Nat
  /\ flags \subseteq Nat \X BOOLEAN
  /\ promotions \subseteq Teams \X Nat
  /\ ops \in 0 .. MaxOps
Typed == call \in [Callers -> Calls]

\* What the tables say of each other.
Joins == \A r \in DOMAIN rels : IntraTeam(rels[r].s, rels[r].o, rels[r].team)
Links ==
  \A e \in DOMAIN entities : entities[e].master # NoEntity =>
    entities[e].master \in DOMAIN entities /\ entities[entities[e].master].team = Master
Promoted ==
  \A p \in promotions : p[2] \in DOMAIN entities /\ entities[p[2]].team = Master
OneName ==
  \A e, d \in DOMAIN entities :
    entities[e].name = entities[d].name /\ entities[e].team = entities[d].team => e = d

\* An id that was given out, and stands for an entity of the team while it lasts.
OfTeam(e, team) ==
  e < ids.e /\ (e \in DOMAIN entities => entities[e].team = team)

\* What a call in the middle of its statements knows.
Known(c) ==
  LET k == call[c] IN
  /\ k.pc = "copy" => OfTeam(k.e, Master)
  /\ k.pc = "sync" => OfTeam(k.e, k.team)
  /\ k.pc \in {"winner", "loser", "apply"} => OfTeam(k.w, k.team) /\ OfTeam(k.l, k.team)
  /\ k.pc = "apply" => k.w \in DOMAIN entities /\ k.l \in DOMAIN entities
  /\ k.pc = "supersede" => k.old \in Standing(k.f, k.team)
  /\ k.pc \in {"select", "insert", "await", "supersede"} => k.logged \/ k.team = Master

\* A row is locked by one call.
Exclusive == \A c, d \in Callers : c # d => Holds(c) \cap Holds(d) = {}

Calling == Typed /\ (\A c \in Callers : Known(c)) /\ Exclusive

-----------------------------------------------------------------------------
(* Calls and locks. *)

\* The records a call can be: constructors and selectors of Calls.
LEMMA Idle == [pc |-> "idle"] \in Calls
  BY DEF Calls

\* The call of a mention, at its lookups and at the insert.
LEMMA MentionCall ==
  ASSUME NEW k \in Calls, k.pc \in {"name", "alias", "master", "create"}
  PROVE  k \in [pc: {"name", "alias", "master", "create"}, m: Mentions, team: Teams]
  BY DEF Calls

LEMMA TouchCall ==
  ASSUME NEW k \in Calls, k.pc = "touch"
  PROVE  k \in [pc: {"touch"}, m: Mentions, team: Teams, e: Nat]
  BY DEF Calls

LEMMA CopyCall ==
  ASSUME NEW k \in Calls, k.pc = "copy"
  PROVE  k \in [pc: {"copy"}, m: Mentions, team: Teams, e: Nat, row: EntityRow]
  BY DEF Calls

LEMMA FactCall ==
  ASSUME NEW k \in Calls, k.pc \in {"select", "insert"}
  PROVE  k \in [pc: {"select", "insert"}, f: Facts, team: Teams, todo: SUBSET Facts, logged: BOOLEAN]
  BY DEF Calls

LEMMA OldCall ==
  ASSUME NEW k \in Calls, k.pc \in {"await", "supersede"}
  PROVE  k \in [pc: {"await", "supersede"}, f: Facts, team: Teams, todo: SUBSET Facts,
                logged: BOOLEAN, old: Nat]
  BY DEF Calls

LEMMA MergeCall ==
  ASSUME NEW k \in Calls, k.pc \in {"winner", "loser", "apply"}
  PROVE  k \in [pc: {"winner", "loser", "apply"}, team: Teams, w: Nat, l: Nat]
  BY DEF Calls

LEMMA SyncCall ==
  ASSUME NEW k \in Calls, k.pc = "sync"
  PROVE  k \in [pc: {"sync"}, team: Teams, e: Nat, name: Names, aliases: SUBSET Names]
  BY DEF Calls

LEMMA LiftCall ==
  ASSUME NEW k \in Calls, k.pc = "lift"
  PROVE  k \in [pc: {"lift"}, team: Teams, e: Nat, row: EntityRow]
  BY DEF Calls

LEMMA NextCall ==
  ASSUME NEW k \in Calls, k.pc = "next"
  PROVE  k \in [pc: {"next"}, team: Teams, todo: SUBSET Nat, map: SUBSET (Nat \X Nat)]
  BY DEF Calls

LEMMA PromoteCall ==
  ASSUME NEW k \in Calls, k.pc = "promote"
  PROVE  k \in [pc: {"promote"}, team: Teams, todo: SUBSET Nat, map: SUBSET (Nat \X Nat),
                e: Nat, row: EntityRow]
  BY DEF Calls
\* Row identities: an entity's is no relationship's, and ids are told apart.
LEMMA RowNames ==
  /\ \A a, b : E(a) = E(b) <=> a = b
  /\ \A a, b : R(a) = R(b) <=> a = b
  /\ \A a, b : E(a) # R(b)
  BY DEF E, R

\* What each call holds, one step at a time.
LEMMA HeldRows ==
  ASSUME NEW c \in Callers
  PROVE  /\ call[c].pc = "loser" => Holds(c) = {E(call[c].w)}
         /\ call[c].pc = "apply" => Holds(c) = {E(call[c].w), E(call[c].l)}
         /\ call[c].pc = "supersede" => Holds(c) = {R(call[c].old)}
         /\ call[c].pc \notin {"loser", "apply", "supersede"} => Holds(c) = {}
  BY DEF Holds

\* The same of the next state.
LEMMA HeldRowsNext ==
  ASSUME NEW c \in Callers
  PROVE  /\ call'[c].pc = "loser" => Holds(c)' = {E(call'[c].w)}
         /\ call'[c].pc = "apply" => Holds(c)' = {E(call'[c].w), E(call'[c].l)}
         /\ call'[c].pc = "supersede" => Holds(c)' = {R(call'[c].old)}
         /\ call'[c].pc \notin {"loser", "apply", "supersede"} => Holds(c)' = {}
  BY DEF Holds, E, R

\* A statement that can run touches no row that another call has locked.
LEMMA NoWait ==
  ASSUME NEW c \in Callers, CanRun(c), NEW d \in Callers, d # c
  PROVE  Needs(c) \cap Holds(d) = {}
  BY DEF CanRun, WaitsFor

\* The rows that the statements which lock or change rows need.
LEMMA NeededRows ==
  ASSUME NEW c \in Callers
  PROVE  /\ call[c].pc = "winner" => Needs(c) = {E(call[c].w)}
         /\ call[c].pc = "loser" => Needs(c) = {E(call[c].l)}
         /\ call[c].pc = "apply" => Needs(c) = {R(r) : r \in Touching(call[c].l)}
         /\ call[c].pc = "await" => Needs(c) = {R(call[c].old)}
  BY DEF Needs

-----------------------------------------------------------------------------
(* What a step of one call leaves alone. *)

\* The other calls, and a call that is still one.
OwnCall(c) == \E k \in Calls : call' = [call EXCEPT ![c] = k]

\* Entities that stay are of their team, and an id is never given out twice.
TeamsStay ==
  /\ ids.e <= ids'.e
  /\ \A e \in DOMAIN entities' :
       \/ e \in DOMAIN entities /\ entities'[e].team = entities[e].team
       \/ ids.e <= e

\* The rows that others have locked stay as they are.
LocksRespected(c) ==
  \A d \in Callers \ {c} :
    /\ \A e \in DOMAIN entities : E(e) \in Holds(d) => e \in DOMAIN entities'
    /\ \A r \in DOMAIN rels : R(r) \in Holds(d) => r \in DOMAIN rels' /\ rels'[r] = rels[r]

\* What is locked now was free.
LocksOnlyFree(c) == \A d \in Callers \ {c} : Holds(c)' \cap Holds(d) = {}

\* A step of this kind takes nothing from what the other calls know.
LEMMA OthersKnow ==
  ASSUME Rows, Typed, NEW c \in Callers, OwnCall(c), TeamsStay, LocksRespected(c),
         Rows', NEW d \in Callers, d # c, Known(d)
  PROVE  Known(d)'
<1>0. PICK k : k = call[d]
  OBVIOUS
<1>1. call'[d] = k
  BY <1>0 DEF OwnCall, Typed
<1>2. k \in Calls
  BY <1>0 DEF Typed
<1>3. \A e, team : OfTeam(e, team) /\ e \in Nat => OfTeam(e, team)'
  BY DEF OfTeam, TeamsStay, Rows
<1>4. k.pc = "copy" => OfTeam(k.e, Master)'
  BY <1>0, <1>2, <1>3, CopyCall DEF Known
<1>5. k.pc = "sync" => OfTeam(k.e, k.team)'
  BY <1>0, <1>2, <1>3, SyncCall DEF Known
<1>6. k.pc \in {"winner", "loser", "apply"} => OfTeam(k.w, k.team)' /\ OfTeam(k.l, k.team)'
  BY <1>0, <1>2, <1>3, MergeCall DEF Known
<1>7. k.pc = "apply" => k.w \in DOMAIN entities' /\ k.l \in DOMAIN entities'
  BY <1>0, HeldRows DEF Known, LocksRespected
<1>8. k.pc = "supersede" => k.old \in Standing(k.f, k.team)'
  <2> SUFFICES ASSUME k.pc = "supersede"
               PROVE  k.old \in Standing(k.f, k.team)'
    OBVIOUS
  <2>1. k.old \in Standing(k.f, k.team)
    BY <1>0 DEF Known
  <2>2. R(k.old) \in Holds(d)
    BY <1>0, HeldRows
  <2>3. k.old \in DOMAIN rels' /\ rels'[k.old] = rels[k.old]
    BY <2>1, <2>2 DEF LocksRespected, Standing
  <2> QED
    BY <2>1, <2>3 DEF Standing
<1>9. k.pc \in {"select", "insert", "await", "supersede"} => k.logged \/ k.team = Master
  BY <1>0 DEF Known
<1> QED
  BY <1>1, <1>4, <1>5, <1>6, <1>7, <1>8, <1>9 DEF Known, OfTeam, Standing

\* Nor does it take a row that another call has locked.
LEMMA LocksApart ==
  ASSUME Typed, Exclusive, NEW c \in Callers, OwnCall(c), LocksOnlyFree(c)
  PROVE  Exclusive'
<1>1. \A d \in Callers \ {c} : Holds(d)' = Holds(d)
  <2> TAKE d \in Callers \ {c}
  <2>1. call'[d] = call[d]
    BY DEF OwnCall, Typed
  <2> QED
    BY <2>1, HeldRows, HeldRowsNext DEF Holds, E, R
<1> QED
  BY <1>1 DEF Exclusive, LocksOnlyFree

\* The calls after a step of one of them: what is left to show is its own.
LEMMA CallingKept ==
  ASSUME Rows, Rows', Calling, NEW c \in Callers, OwnCall(c), TeamsStay,
         LocksRespected(c), LocksOnlyFree(c), Known(c)'
  PROVE  Calling'
<1>1. Typed'
  BY DEF Calling, OwnCall, Typed
<1>2. \A d \in Callers : Known(d)'
  BY OthersKnow DEF Calling
<1> QED
  BY <1>1, <1>2, LocksApart DEF Calling
-----------------------------------------------------------------------------
(* What a step owes to its own call. *)

Own(c) == OwnCall(c) /\ LocksOnlyFree(c) /\ Known(c)' /\ ops' \in 0 .. MaxOps

\* A call that is where it holds no row.
LEMMA HoldsNothing ==
  ASSUME Typed, NEW c \in Callers, NEW n \in Calls, call' = [call EXCEPT ![c] = n],
         n.pc \notin {"loser", "apply", "supersede"}
  PROVE  OwnCall(c) /\ LocksOnlyFree(c) /\ call'[c] = n
<1>1. call'[c] = n
  BY DEF Typed
<1> QED
  BY <1>1, HeldRowsNext DEF OwnCall, LocksOnlyFree

\* A call that is where it relies on nothing it has read, or has ended.
LEMMA ReliesOnNothing ==
  ASSUME Typed, NEW c \in Callers, NEW n \in Calls, call' = [call EXCEPT ![c] = n],
         n.pc \notin {"loser", "apply", "supersede", "copy", "sync", "winner",
                      "select", "insert", "await"},
         ops' \in 0 .. MaxOps
  PROVE  Own(c)
<1>1. call'[c] = n
  BY HoldsNothing
<1>2. Known(c)'
  BY <1>1 DEF Known
<1> QED
  BY <1>2, HoldsNothing DEF Own

\* The end of a call.
LEMMA Returned ==
  ASSUME Typed, NEW c \in Callers, Return(c), ops' \in 0 .. MaxOps
  PROVE  Own(c) /\ call'[c].pc = "idle"
<1>1. PICK n : n = [pc |-> "idle"]
  OBVIOUS
<1>2. n \in Calls /\ n.pc = "idle" /\ call' = [call EXCEPT ![c] = n]
  BY <1>1, Idle DEF Return, Goto
<1> QED
  BY <1>2, ReliesOnNothing, HoldsNothing

\* A call that has begun counts, within the bound.
LEMMA Begun ==
  ASSUME Records, NEW c \in Callers, NEW n, Begin(c, n)
  PROVE  /\ call' = [call EXCEPT ![c] = n] /\ call[c].pc = "idle"
         /\ ops' \in 0 .. MaxOps
  BY GraphAssumption DEF Begin, Records

\* A call that is at one of its facts, with no row locked.
LEMMA AtFact ==
  ASSUME Typed, NEW c \in Callers, NEW n \in Calls, call' = [call EXCEPT ![c] = n],
         n.pc \in {"select", "insert", "await"}, n.logged \/ n.team = Master,
         ops' \in 0 .. MaxOps
  PROVE  Own(c)
<1>1. call'[c] = n
  BY HoldsNothing
<1>2. Known(c)'
  BY <1>1 DEF Known
<1> QED
  BY <1>2, HoldsNothing DEF Own

\* The next fact, or the end of the call.
LEMMA AtNextFact ==
  ASSUME Typed, NEW c \in Callers, Known(c), NextFact(c),
         call[c].pc \in {"select", "insert", "await", "supersede"}, ops' \in 0 .. MaxOps
  PROVE  Own(c)
<1>0. PICK k : k = call[c]
  OBVIOUS
<1>1. k \in Calls
  BY <1>0 DEF Typed
<1>2. k.team \in Teams /\ k.todo \in SUBSET Facts /\ k.logged \in BOOLEAN
  BY <1>0, <1>1, FactCall, OldCall
<1>3. k.logged \/ k.team = Master
  BY <1>0 DEF Known
<1>4. CASE k.todo = {}
  BY <1>0, <1>4, Returned DEF NextFact
<1>5. CASE k.todo # {}
  <2>1. PICK f \in k.todo : call' = [call EXCEPT ![c] =
          [pc |-> "select", f |-> f, team |-> k.team, todo |-> k.todo \ {f}, logged |-> k.logged]]
    BY <1>0, <1>5 DEF NextFact, Goto
  <2>2. PICK n : n = [pc |-> "select", f |-> f, team |-> k.team, todo |-> k.todo \ {f},
                      logged |-> k.logged]
    OBVIOUS
  <2>3. n \in [pc: {"select", "insert"}, f: Facts, team: Teams, todo: SUBSET Facts, logged: BOOLEAN]
    BY <1>2, <2>2
  <2>4. n \in Calls
    BY <2>3 DEF Calls
  <2> QED
    BY <1>3, <2>1, <2>2, <2>4, AtFact
<1> QED
  BY <1>4, <1>5

\* The row that is found is locked, or the fact is already there.
LEMMA AtMatch ==
  ASSUME Typed, Rows, NEW c \in Callers, Known(c), NEW r \in Standing(call[c].f, call[c].team),
         Matched(c, r), call[c].pc \in {"select", "await"}, ops' \in 0 .. MaxOps,
         UNCHANGED tables, \A d \in Callers \ {c} : R(r) \notin Holds(d)
  PROVE  Own(c)
<1>0. PICK k : k = call[c]
  OBVIOUS
<1>1. k \in Calls
  BY <1>0 DEF Typed
<1>2. /\ k.team \in Teams /\ k.todo \in SUBSET Facts /\ k.logged \in BOOLEAN
      /\ k.f \in Facts
  BY <1>0, <1>1, FactCall, OldCall
<1>3. k.logged \/ k.team = Master
  BY <1>0 DEF Known
<1>4. CASE rels[r].pred = k.f.pred
  BY <1>0, <1>4, AtNextFact DEF Matched
<1>5. CASE rels[r].pred # k.f.pred
  <2>1. PICK n : n = [pc |-> "supersede", f |-> k.f, team |-> k.team, todo |-> k.todo,
                      logged |-> k.logged, old |-> r]
    OBVIOUS
  <2>2. call' = [call EXCEPT ![c] = n]
    BY <1>0, <1>5, <2>1 DEF Matched, Goto
  <2>3. r \in Nat
    BY DEF Standing, Rows
  <2>4. n \in [pc: {"await", "supersede"}, f: Facts, team: Teams, todo: SUBSET Facts,
                logged: BOOLEAN, old: Nat]
    BY <1>2, <2>1, <2>3
  <2>5. n \in Calls
    BY <2>4 DEF Calls
  <2>6. call'[c] = n
    BY <2>2 DEF Typed
  <2>7. n.old \in Standing(n.f, n.team)'
    BY <1>0, <2>1 DEF Standing, tables
  <2>8. Known(c)'
    BY <1>3, <2>1, <2>6, <2>7 DEF Known, Standing
  <2>9. LocksOnlyFree(c)
    BY <2>1, <2>6, HeldRowsNext DEF LocksOnlyFree
  <2> QED
    BY <2>2, <2>5, <2>8, <2>9 DEF Own, OwnCall
<1> QED
  BY <1>4, <1>5
-----------------------------------------------------------------------------
(* Steps that change no table: looking up, locking, giving up. *)

\* Tables that do not change take nothing from anyone.
LEMMA SameTables ==
  ASSUME Rows, NEW c \in Callers, UNCHANGED tables
  PROVE  Rows' /\ TeamsStay /\ LocksRespected(c)
<1>1. Rows'
  BY DEF Rows, tables
<1>2. TeamsStay
  BY DEF Rows, tables, TeamsStay
<1>3. LocksRespected(c)
  BY DEF tables, LocksRespected
<1> QED
  BY <1>1, <1>2, <1>3

LEMMA OwnFindOrCreate ==
  ASSUME Typed, Records, NEW c \in Callers, FindOrCreate(c)
  PROVE  Own(c)
<1>1. PICK m \in Mentioned, t \in Teams : Begin(c, [pc |-> "name", m |-> m, team |-> t])
  BY DEF FindOrCreate
<1>2. PICK n : n = [pc |-> "name", m |-> m, team |-> t]
  OBVIOUS
<1>3. n \in [pc: {"name", "alias", "master", "create"}, m: Mentions, team: Teams]
  BY <1>2, GraphAssumption
<1>4. n \in Calls /\ n.pc = "name"
  BY <1>2, <1>3 DEF Calls
<1>5. call' = [call EXCEPT ![c] = n] /\ ops' \in 0 .. MaxOps
  BY <1>1, <1>2, Begun
<1> QED
  BY <1>4, <1>5, ReliesOnNothing

LEMMA OwnFindByName ==
  ASSUME Typed, Rows, Records, NEW c \in Callers, FindByName(c)
  PROVE  Own(c)
<1>0. PICK k : k = call[c]
  OBVIOUS
<1>1. k \in [pc: {"name", "alias", "master", "create"}, m: Mentions, team: Teams]
  BY <1>0, MentionCall DEF FindByName, At1, Typed
<1>2. ops' \in 0 .. MaxOps
  BY DEF FindByName, At1, Records
<1>3. ASSUME NEW e \in At(k.m.name, k.team),
             call' = [call EXCEPT ![c] = [pc |-> "touch", m |-> k.m, team |-> k.team, e |-> e]]
      PROVE  Own(c)
  <2>1. PICK n : n = [pc |-> "touch", m |-> k.m, team |-> k.team, e |-> e]
    OBVIOUS
  <2>2. e \in Nat
    BY DEF At, Rows
  <2>3. n \in [pc: {"touch"}, m: Mentions, team: Teams, e: Nat]
    BY <1>1, <2>1, <2>2
  <2>4. n \in Calls /\ n.pc = "touch"
    BY <2>1, <2>3 DEF Calls
  <2> QED
    BY <1>2, <1>3, <2>1, <2>4, ReliesOnNothing
<1>4. ASSUME call' = [call EXCEPT ![c] = [k EXCEPT !.pc = "alias"]]
      PROVE  Own(c)
  <2>1. PICK n : n = [k EXCEPT !.pc = "alias"]
    OBVIOUS
  <2>2. n \in [pc: {"name", "alias", "master", "create"}, m: Mentions, team: Teams] /\ n.pc = "alias"
    BY <1>1, <2>1
  <2>3. n \in Calls
    BY <2>2 DEF Calls
  <2> QED
    BY <1>2, <1>4, <2>1, <2>2, <2>3, ReliesOnNothing
<1> QED
  BY <1>0, <1>3, <1>4 DEF FindByName, Goto

LEMMA OwnFindByAlias ==
  ASSUME Typed, Rows, Records, NEW c \in Callers, FindByAlias(c)
  PROVE  Own(c)
<1>0. PICK k : k = call[c]
  OBVIOUS
<1>1. k \in [pc: {"name", "alias", "master", "create"}, m: Mentions, team: Teams]
  BY <1>0, MentionCall DEF FindByAlias, At1, Typed
<1>2. ops' \in 0 .. MaxOps
  BY DEF FindByAlias, At1, Records
<1>3. ASSUME NEW e \in DOMAIN entities,
             call' = [call EXCEPT ![c] = [pc |-> "touch", m |-> k.m, team |-> k.team, e |-> e]]
      PROVE  Own(c)
  <2>1. PICK n : n = [pc |-> "touch", m |-> k.m, team |-> k.team, e |-> e]
    OBVIOUS
  <2>2. e \in Nat
    BY DEF Rows
  <2>3. n \in [pc: {"touch"}, m: Mentions, team: Teams, e: Nat]
    BY <1>1, <2>1, <2>2
  <2>4. n \in Calls /\ n.pc = "touch"
    BY <2>1, <2>3 DEF Calls
  <2> QED
    BY <1>2, <1>3, <2>1, <2>4, ReliesOnNothing
<1>4. ASSUME call' = [call EXCEPT ![c] = [k EXCEPT !.pc = "master"]]
      PROVE  Own(c)
  <2>1. PICK n : n = [k EXCEPT !.pc = "master"]
    OBVIOUS
  <2>2. n \in [pc: {"name", "alias", "master", "create"}, m: Mentions, team: Teams] /\ n.pc = "master"
    BY <1>1, <2>1
  <2>3. n \in Calls
    BY <2>2 DEF Calls
  <2> QED
    BY <1>2, <1>4, <2>1, <2>2, <2>3, ReliesOnNothing
<1> QED
  BY <1>0, <1>3, <1>4 DEF FindByAlias, Goto

\* A master entity that is found is one of the master team from then on.
LEMMA OwnFindInMaster ==
  ASSUME Typed, Rows, Records, NEW c \in Callers, FindInMaster(c)
  PROVE  Own(c)
<1>0. PICK k : k = call[c]
  OBVIOUS
<1>1. k \in [pc: {"name", "alias", "master", "create"}, m: Mentions, team: Teams]
  BY <1>0, MentionCall DEF FindInMaster, At1, Typed
<1>2. ops' \in 0 .. MaxOps
  BY DEF FindInMaster, At1, Records
<1>3. ASSUME NEW e \in At(k.m.name, Master),
             call' = [call EXCEPT ![c] = [pc |-> "copy", m |-> k.m, team |-> k.team, e |-> e,
                                          row |-> entities[e]]]
      PROVE  Own(c)
  <2>1. PICK n : n = [pc |-> "copy", m |-> k.m, team |-> k.team, e |-> e, row |-> entities[e]]
    OBVIOUS
  <2>2. e \in DOMAIN entities /\ e \in Nat /\ e < ids.e /\ entities[e].team = Master
    BY DEF At, Rows
  <2>3. entities[e] \in EntityRow
    BY <2>2 DEF Rows
  <2>4. n \in [pc: {"copy"}, m: Mentions, team: Teams, e: Nat, row: EntityRow]
    BY <1>1, <2>1, <2>2, <2>3
  <2>5. n \in Calls
    BY <2>4 DEF Calls
  <2>6. OwnCall(c) /\ LocksOnlyFree(c) /\ call'[c] = n
    BY <1>3, <2>1, <2>5, HoldsNothing
  <2>7. OfTeam(n.e, Master)'
    BY <2>1, <2>2 DEF OfTeam, FindInMaster, tables
  <2>8. Known(c)'
    BY <2>1, <2>6, <2>7 DEF Known, OfTeam
  <2> QED
    BY <1>2, <2>6, <2>8 DEF Own
<1>4. ASSUME call' = [call EXCEPT ![c] = [k EXCEPT !.pc = "create"]]
      PROVE  Own(c)
  <2>1. PICK n : n = [k EXCEPT !.pc = "create"]
    OBVIOUS
  <2>2. n \in [pc: {"name", "alias", "master", "create"}, m: Mentions, team: Teams] /\ n.pc = "create"
    BY <1>1, <2>1
  <2>3. n \in Calls
    BY <2>2 DEF Calls
  <2> QED
    BY <1>2, <1>4, <2>1, <2>2, <2>3, ReliesOnNothing
<1> QED
  BY <1>0, <1>3, <1>4 DEF FindInMaster, Goto
LEMMA OwnUpsertRelationship ==
  ASSUME Typed, Rows, Records, NEW c \in Callers, UpsertRelationship(c)
  PROVE  Own(c)
<1>1. PICK s \in DOMAIN entities, o \in DOMAIN entities, p \in Predicates :
        Begin(c, [pc |-> "select", f |-> [s |-> s, o |-> o, pred |-> p],
                  team |-> entities[s].team, todo |-> {}, logged |-> TRUE])
  BY DEF UpsertRelationship
<1>2. PICK n : n = [pc |-> "select", f |-> [s |-> s, o |-> o, pred |-> p],
                    team |-> entities[s].team, todo |-> {}, logged |-> TRUE]
  OBVIOUS
<1>3. s \in Nat /\ o \in Nat /\ entities[s] \in EntityRow
  BY DEF Rows
<1>4. n \in [pc: {"select", "insert"}, f: Facts, team: Teams, todo: SUBSET Facts, logged: BOOLEAN]
  BY <1>2, <1>3 DEF Facts, EntityRow
<1>5. n \in Calls /\ n.pc = "select" /\ n.logged
  BY <1>2, <1>4 DEF Calls
<1>6. call' = [call EXCEPT ![c] = n] /\ ops' \in 0 .. MaxOps
  BY <1>1, <1>2, Begun
<1> QED
  BY <1>5, <1>6, AtFact

\* A row that is found free is locked, one that is not is waited for.
LEMMA OwnSelectActive ==
  ASSUME Typed, Rows, Records, NEW c \in Callers, Known(c), SelectActive(c)
  PROVE  Own(c)
<1>0. PICK k : k = call[c]
  OBVIOUS
<1>1. k \in [pc: {"select", "insert"}, f: Facts, team: Teams, todo: SUBSET Facts, logged: BOOLEAN]
  BY <1>0, FactCall DEF SelectActive, At1, Typed
<1>2. ops' \in 0 .. MaxOps /\ call[c].pc = "select" /\ UNCHANGED tables
  BY DEF SelectActive, At1, Records
<1>3. k.logged \/ k.team = Master
  BY <1>0, <1>2 DEF Known
<1>4. ASSUME call' = [call EXCEPT ![c] = [k EXCEPT !.pc = "insert"]]
      PROVE  Own(c)
  <2>1. PICK n : n = [k EXCEPT !.pc = "insert"]
    OBVIOUS
  <2>2. /\ n \in [pc: {"select", "insert"}, f: Facts, team: Teams, todo: SUBSET Facts, logged: BOOLEAN]
        /\ n.pc = "insert" /\ n.logged = k.logged /\ n.team = k.team
    BY <1>1, <2>1
  <2>3. n \in Calls
    BY <2>2 DEF Calls
  <2> QED
    BY <1>2, <1>3, <1>4, <2>1, <2>2, <2>3, AtFact
<1>5. ASSUME NEW r \in Standing(k.f, k.team), Free({R(r)}), Matched(c, r)
      PROVE  Own(c)
  <2>1. \A d \in Callers \ {c} : R(r) \notin Holds(d)
    BY <1>5 DEF Free
  <2> QED
    BY <1>0, <1>2, <1>5, <2>1, AtMatch
<1>6. ASSUME NEW r \in Standing(k.f, k.team),
             call' = [call EXCEPT ![c] = [pc |-> "await", f |-> k.f, team |-> k.team,
                                          todo |-> k.todo, logged |-> k.logged, old |-> r]]
      PROVE  Own(c)
  <2>1. PICK n : n = [pc |-> "await", f |-> k.f, team |-> k.team,
                      todo |-> k.todo, logged |-> k.logged, old |-> r]
    OBVIOUS
  <2>2. r \in Nat
    BY DEF Standing, Rows
  <2>3. n \in [pc: {"await", "supersede"}, f: Facts, team: Teams, todo: SUBSET Facts,
                logged: BOOLEAN, old: Nat]
    BY <1>1, <2>1, <2>2
  <2>4. n \in Calls /\ n.pc = "await" /\ n.logged = k.logged /\ n.team = k.team
    BY <2>1, <2>3 DEF Calls
  <2> QED
    BY <1>2, <1>3, <1>6, <2>1, <2>4, AtFact
<1> QED
  BY <1>0, <1>4, <1>5, <1>6 DEF SelectActive, Goto

LEMMA OwnSelectAgain ==
  ASSUME Typed, Rows, Records, NEW c \in Callers, Known(c), SelectAgain(c)
  PROVE  Own(c)
<1>0. PICK k : k = call[c]
  OBVIOUS
<1>1. k \in [pc: {"await", "supersede"}, f: Facts, team: Teams, todo: SUBSET Facts,
             logged: BOOLEAN, old: Nat]
  BY <1>0, OldCall DEF SelectAgain, At1, Typed
<1>2. ops' \in 0 .. MaxOps /\ call[c].pc = "await" /\ UNCHANGED tables
  BY DEF SelectAgain, At1, Records
<1>3. k.logged \/ k.team = Master
  BY <1>0, <1>2 DEF Known
<1>4. ASSUME call' = [call EXCEPT ![c] = [pc |-> "insert", f |-> k.f, team |-> k.team,
                                          todo |-> k.todo, logged |-> k.logged]]
      PROVE  Own(c)
  <2>1. PICK n : n = [pc |-> "insert", f |-> k.f, team |-> k.team,
                      todo |-> k.todo, logged |-> k.logged]
    OBVIOUS
  <2>2. n \in [pc: {"select", "insert"}, f: Facts, team: Teams, todo: SUBSET Facts, logged: BOOLEAN]
    BY <1>1, <2>1
  <2>3. n \in Calls /\ n.pc = "insert" /\ n.logged = k.logged /\ n.team = k.team
    BY <2>1, <2>2 DEF Calls
  <2> QED
    BY <1>2, <1>3, <1>4, <2>1, <2>3, AtFact
<1>5. ASSUME k.old \in Standing(k.f, k.team), Matched(c, k.old)
      PROVE  Own(c)
  <2>1. CanRun(c)
    BY DEF SelectAgain, At1
  <2>2. \A d \in Callers \ {c} : R(k.old) \notin Holds(d)
    BY <1>0, <1>2, <2>1, NeededRows, NoWait
  <2> QED
    BY <1>0, <1>2, <1>5, <2>2, AtMatch
<1> QED
  BY <1>0, <1>4, <1>5 DEF SelectAgain, Goto

\* Two entities of a team are being merged.
LEMMA OwnMergeEntities ==
  ASSUME Typed, Rows, Records, NEW c \in Callers, MergeEntities(c)
  PROVE  Own(c)
<1>1. PICK w \in DOMAIN entities, l \in DOMAIN entities :
        /\ entities[w].team = entities[l].team
        /\ Begin(c, [pc |-> "winner", team |-> entities[w].team, w |-> w, l |-> l])
  BY DEF MergeEntities
<1>2. PICK n : n = [pc |-> "winner", team |-> entities[w].team, w |-> w, l |-> l]
  OBVIOUS
<1>3. /\ w \in Nat /\ w < ids.e /\ l \in Nat /\ l < ids.e
      /\ entities[w] \in EntityRow
  BY DEF Rows
<1>4. n \in [pc: {"winner", "loser", "apply"}, team: Teams, w: Nat, l: Nat]
  BY <1>2, <1>3 DEF EntityRow
<1>5. n \in Calls
  BY <1>4 DEF Calls
<1>6. call' = [call EXCEPT ![c] = n] /\ ops' \in 0 .. MaxOps
  BY <1>1, <1>2, Begun
<1>7. OwnCall(c) /\ LocksOnlyFree(c) /\ call'[c] = n
  BY <1>2, <1>5, <1>6, HoldsNothing
<1>8. OfTeam(n.w, n.team)' /\ OfTeam(n.l, n.team)'
  BY <1>1, <1>2, <1>3 DEF OfTeam, MergeEntities, tables
<1>9. Known(c)'
  BY <1>2, <1>7, <1>8 DEF Known, OfTeam
<1> QED
  BY <1>6, <1>7, <1>9 DEF Own

LEMMA OwnLockWinner ==
  ASSUME Typed, Rows, Records, NEW c \in Callers, Known(c), LockWinner(c)
  PROVE  Own(c)
<1>0. PICK k : k = call[c]
  OBVIOUS
<1>1. k \in [pc: {"winner", "loser", "apply"}, team: Teams, w: Nat, l: Nat] /\ k.pc = "winner"
  BY <1>0, MergeCall DEF LockWinner, At1, Typed
<1>2. PICK n : n = [k EXCEPT !.pc = "loser"]
  OBVIOUS
<1>3. /\ n \in [pc: {"winner", "loser", "apply"}, team: Teams, w: Nat, l: Nat] /\ n.pc = "loser"
      /\ n.team = k.team /\ n.w = k.w /\ n.l = k.l
  BY <1>1, <1>2
<1>4. n \in Calls
  BY <1>3 DEF Calls
<1>5. call' = [call EXCEPT ![c] = n] /\ ops' \in 0 .. MaxOps /\ CanRun(c) /\ UNCHANGED tables
  BY <1>0, <1>2 DEF LockWinner, At1, Goto, Records
<1>6. call'[c] = n
  BY <1>5 DEF Typed
<1>7. OfTeam(n.w, n.team)' /\ OfTeam(n.l, n.team)'
  BY <1>0, <1>1, <1>3, <1>5 DEF Known, OfTeam, tables
<1>8. Known(c)'
  BY <1>3, <1>6, <1>7 DEF Known, OfTeam
<1>9. LocksOnlyFree(c)
  BY <1>0, <1>1, <1>3, <1>5, <1>6, HeldRowsNext, NeededRows, NoWait DEF LocksOnlyFree
<1> QED
  BY <1>4, <1>5, <1>8, <1>9 DEF Own, OwnCall

LEMMA OwnLockLoser ==
  ASSUME Typed, Rows, Records, Exclusive, NEW c \in Callers, Known(c), LockLoser(c)
  PROVE  Own(c)
<1>0. PICK k : k = call[c]
  OBVIOUS
<1>1. k \in [pc: {"winner", "loser", "apply"}, team: Teams, w: Nat, l: Nat] /\ k.pc = "loser"
  BY <1>0, MergeCall DEF LockLoser, At1, Typed
<1>2. ops' \in 0 .. MaxOps /\ CanRun(c) /\ UNCHANGED tables
  BY DEF LockLoser, At1, Records
<1>3. CASE {k.w, k.l} \subseteq DOMAIN entities
  <2>1. PICK n : n = [k EXCEPT !.pc = "apply"]
    OBVIOUS
  <2>2. /\ n \in [pc: {"winner", "loser", "apply"}, team: Teams, w: Nat, l: Nat] /\ n.pc = "apply"
        /\ n.team = k.team /\ n.w = k.w /\ n.l = k.l
    BY <1>1, <2>1
  <2>3. n \in Calls
    BY <2>2 DEF Calls
  <2>4. call' = [call EXCEPT ![c] = n]
    BY <1>0, <1>3, <2>1 DEF LockLoser, Goto
  <2>5. call'[c] = n
    BY <2>4 DEF Typed
  <2>6. OfTeam(n.w, n.team)' /\ OfTeam(n.l, n.team)'
    BY <1>0, <1>1, <1>2, <2>2 DEF Known, OfTeam, tables
  <2>7. n.w \in DOMAIN entities' /\ n.l \in DOMAIN entities'
    BY <1>2, <1>3, <2>2 DEF tables
  <2>8. Known(c)'
    BY <2>2, <2>5, <2>6, <2>7 DEF Known, OfTeam
  <2>9. LocksOnlyFree(c)
    BY <1>0, <1>1, <1>2, <2>2, <2>5, HeldRows, HeldRowsNext, NeededRows, NoWait
       DEF LocksOnlyFree, Exclusive
  <2> QED
    BY <1>2, <2>3, <2>4, <2>8, <2>9 DEF Own, OwnCall
<1>4. CASE ~({k.w, k.l} \subseteq DOMAIN entities)
  BY <1>0, <1>2, <1>4, Returned DEF LockLoser
<1> QED
  BY <1>3, <1>4
LEMMA OwnSyncFromMaster ==
  ASSUME Typed, Rows, Records, Links, NEW c \in Callers, SyncFromMaster(c)
  PROVE  Own(c)
<1>1. PICK e \in DOMAIN entities :
        /\ entities[e].master # NoEntity
        /\ Begin(c, [pc |-> "sync", team |-> entities[e].team, e |-> e,
                     name |-> entities[entities[e].master].name,
                     aliases |-> entities[entities[e].master].aliases])
  BY DEF SyncFromMaster
<1>2. PICK n : n = [pc |-> "sync", team |-> entities[e].team, e |-> e,
                    name |-> entities[entities[e].master].name,
                    aliases |-> entities[entities[e].master].aliases]
  OBVIOUS
<1>3. e \in Nat /\ e < ids.e /\ entities[e] \in EntityRow
  BY DEF Rows
<1>4. entities[entities[e].master] \in EntityRow
  BY <1>1 DEF Links, Rows
<1>5. n \in [pc: {"sync"}, team: Teams, e: Nat, name: Names, aliases: SUBSET Names]
  BY <1>2, <1>3, <1>4 DEF EntityRow
<1>6. n \in Calls
  BY <1>5 DEF Calls
<1>7. call' = [call EXCEPT ![c] = n] /\ ops' \in 0 .. MaxOps
  BY <1>1, <1>2, Begun
<1>8. OwnCall(c) /\ LocksOnlyFree(c) /\ call'[c] = n
  BY <1>2, <1>6, <1>7, HoldsNothing
<1>9. OfTeam(n.e, n.team)'
  BY <1>2, <1>3 DEF OfTeam, SyncFromMaster, tables
<1>10. Known(c)'
  BY <1>2, <1>8, <1>9 DEF Known, OfTeam
<1> QED
  BY <1>7, <1>8, <1>10 DEF Own

LEMMA OwnPromoteByHand ==
  ASSUME Typed, Rows, Records, NEW c \in Callers, PromoteByHand(c)
  PROVE  Own(c)
<1>1. PICK e \in DOMAIN entities :
        Begin(c, [pc |-> "lift", team |-> entities[e].team, e |-> e, row |-> entities[e]])
  BY DEF PromoteByHand
<1>2. PICK n : n = [pc |-> "lift", team |-> entities[e].team, e |-> e, row |-> entities[e]]
  OBVIOUS
<1>3. e \in Nat /\ entities[e] \in EntityRow
  BY DEF Rows
<1>4. entities[e].team \in Teams
  BY <1>3 DEF EntityRow
<1>5. n \in [pc: {"lift"}, team: Teams, e: Nat, row: EntityRow]
  BY <1>2, <1>3, <1>4
<1>6. n \in Calls /\ n.pc = "lift"
  BY <1>2, <1>5 DEF Calls
<1>7. call' = [call EXCEPT ![c] = n] /\ ops' \in 0 .. MaxOps
  BY <1>1, <1>2, Begun
<1> QED
  BY <1>6, <1>7, ReliesOnNothing

LEMMA OwnStartPromotion ==
  ASSUME Typed, Rows, Records, NEW c \in Callers, StartPromotion(c)
  PROVE  Own(c)
<1>0. PICK t \in Teams : \E es \in SUBSET Eligible(t) :
        Begin(c, [pc |-> "next", team |-> t, todo |-> es, map |-> {}])
  BY DEF StartPromotion
<1>1. PICK es \in SUBSET Eligible(t) :
        Begin(c, [pc |-> "next", team |-> t, todo |-> es, map |-> {}])
  BY <1>0
<1>2. PICK n : n = [pc |-> "next", team |-> t, todo |-> es, map |-> {}]
  OBVIOUS
<1>3. es \subseteq Nat
  <2>1. Eligible(t) \subseteq DOMAIN entities
    BY DEF Eligible
  <2> QED
    BY <2>1 DEF Rows
<1>4. n \in [pc: {"next"}, team: Teams, todo: SUBSET Nat, map: SUBSET (Nat \X Nat)]
  BY <1>2, <1>3
<1>5. n \in Calls /\ n.pc = "next"
  BY <1>2, <1>4 DEF Calls
<1>6. call' = [call EXCEPT ![c] = n] /\ ops' \in 0 .. MaxOps
  BY <1>1, <1>2, Begun
<1> QED
  BY <1>5, <1>6, ReliesOnNothing

LEMMA OwnLoadEntity ==
  ASSUME Typed, Rows, Records, NEW c \in Callers, LoadEntity(c)
  PROVE  Own(c)
<1>0. PICK k : k = call[c]
  OBVIOUS
<1>1. k \in [pc: {"next"}, team: Teams, todo: SUBSET Nat, map: SUBSET (Nat \X Nat)]
  BY <1>0, NextCall DEF LoadEntity, At1, Typed
<1>2. ops' \in 0 .. MaxOps
  BY DEF LoadEntity, At1, Records
<1>3. ASSUME NEW e \in k.todo, e \in DOMAIN entities,
             call' = [call EXCEPT ![c] = [pc |-> "promote", team |-> k.team, todo |-> k.todo \ {e},
                                          map |-> k.map, e |-> e, row |-> entities[e]]]
      PROVE  Own(c)
  <2>1. PICK n : n = [pc |-> "promote", team |-> k.team, todo |-> k.todo \ {e},
                      map |-> k.map, e |-> e, row |-> entities[e]]
    OBVIOUS
  <2>2. entities[e] \in EntityRow /\ e \in Nat
    BY <1>3 DEF Rows
  <2>3. n \in [pc: {"promote"}, team: Teams, todo: SUBSET Nat, map: SUBSET (Nat \X Nat),
                e: Nat, row: EntityRow]
    BY <1>1, <2>1, <2>2
  <2>4. n \in Calls /\ n.pc = "promote"
    BY <2>1, <2>3 DEF Calls
  <2> QED
    BY <1>2, <1>3, <2>1, <2>4, ReliesOnNothing
<1>4. ASSUME NEW e \in k.todo, call' = [call EXCEPT ![c] = [k EXCEPT !.todo = k.todo \ {e}]]
      PROVE  Own(c)
  <2>1. PICK n : n = [k EXCEPT !.todo = k.todo \ {e}]
    OBVIOUS
  <2>2. /\ n \in [pc: {"next"}, team: Teams, todo: SUBSET Nat, map: SUBSET (Nat \X Nat)]
        /\ n.pc = "next"
    BY <1>1, <2>1
  <2>3. n \in Calls
    BY <2>2 DEF Calls
  <2> QED
    BY <1>2, <1>4, <2>1, <2>2, <2>3, ReliesOnNothing
<1>5. PICK e \in k.todo :
        IF e \in DOMAIN entities
        THEN Goto(c, [pc |-> "promote", team |-> k.team, todo |-> k.todo \ {e}, map |-> k.map,
                      e |-> e, row |-> entities[e]])
        ELSE Goto(c, [k EXCEPT !.todo = k.todo \ {e}])
  BY <1>0 DEF LoadEntity
<1> QED
  BY <1>3, <1>4, <1>5 DEF Goto

\* The facts of a promotion are between master entities, and are not logged.
LEMMA OwnPromoteFacts ==
  ASSUME Typed, Rows, Records, NEW c \in Callers, PromoteFacts(c)
  PROVE  Own(c)
<1> DEFINE k == call[c]
<1>1. k \in [pc: {"next"}, team: Teams, todo: SUBSET Nat, map: SUBSET (Nat \X Nat)]
  BY NextCall DEF PromoteFacts, At1, Typed
<1>2. ops' \in 0 .. MaxOps
  BY DEF PromoteFacts, At1, Records
<1> DEFINE both == {r \in DOMAIN rels :
                      /\ rels[r].active /\ rels[r].team = k.team
                      /\ {rels[r].s, rels[r].o} \subseteq {x[1] : x \in k.map}}
           master(e) == (CHOOSE x \in k.map : x[1] = e)[2]
           fact(r) == [s |-> master(rels[r].s), o |-> master(rels[r].o), pred |-> rels[r].pred]
<1>3. \A e \in {x[1] : x \in k.map} : master(e) \in Nat
  <2> TAKE e \in {x[1] : x \in k.map}
  <2>1. PICK y : y = CHOOSE x \in k.map : x[1] = e
    OBVIOUS
  <2>2. y \in k.map
    BY <2>1
  <2> QED
    BY <1>1, <2>1, <2>2
<1>4. \A r \in both : fact(r) \in Facts
  <2> TAKE r \in both
  <2>1. rels[r] \in RelRow
    BY DEF Rows
  <2>2. rels[r].pred \in Predicates
    BY <2>1 DEF RelRow
  <2>3. master(rels[r].s) \in Nat /\ master(rels[r].o) \in Nat
    BY <1>3
  <2> HIDE DEF master
  <2> QED
    BY <2>2, <2>3 DEF Facts
<1>5. PICK sure \in SUBSET both :
        \/ {fact(r) : r \in sure} = {} /\ Return(c)
        \/ \E f \in {fact(r) : r \in sure} :
             Goto(c, [pc |-> "select", f |-> f, team |-> Master,
                      todo |-> {fact(r) : r \in sure} \ {f}, logged |-> FALSE])
  BY Zenon DEF PromoteFacts
<1> HIDE DEF fact
<1>6. PICK facts : facts = {fact(r) : r \in sure}
  OBVIOUS
<1>7. facts \subseteq Facts
  BY <1>4, <1>6
<1>8. CASE Return(c)
  BY <1>2, <1>8, Returned
<1>9. ASSUME NEW f \in facts,
             Goto(c, [pc |-> "select", f |-> f, team |-> Master, todo |-> facts \ {f}, logged |-> FALSE])
      PROVE  Own(c)
  <2>1. PICK n : n = [pc |-> "select", f |-> f, team |-> Master, todo |-> facts \ {f}, logged |-> FALSE]
    OBVIOUS
  <2>2. n \in [pc: {"select", "insert"}, f: Facts, team: Teams, todo: SUBSET Facts, logged: BOOLEAN]
    BY <1>7, <2>1, GraphAssumption
  <2>3. n \in Calls /\ n.pc = "select" /\ n.team = Master
    BY <2>1, <2>2 DEF Calls
  <2> QED
    BY <1>2, <1>9, <2>1, <2>3, AtFact DEF Goto
<1> QED
  BY <1>5, <1>6, <1>8, <1>9

LEMMA OwnDeadlockVictim ==
  ASSUME Typed, Records, NEW c \in Callers, DeadlockVictim(c)
  PROVE  Own(c)
<1>1. Return(c) /\ ops' \in 0 .. MaxOps
  BY DEF DeadlockVictim, Records
<1> QED
  BY <1>1, Returned

\* The steps that read and lock.
Quiet(c) ==
  \/ FindOrCreate(c) \/ UpsertRelationship(c) \/ MergeEntities(c) \/ SyncFromMaster(c)
  \/ PromoteByHand(c) \/ StartPromotion(c) \/ FindByName(c) \/ FindByAlias(c)
  \/ FindInMaster(c) \/ SelectActive(c) \/ SelectAgain(c) \/ LockWinner(c) \/ LockLoser(c)
  \/ LoadEntity(c) \/ PromoteFacts(c) \/ DeadlockVictim(c)

\* All of them leave the tables as they are, and their call in order.
LEMMA QuietStep ==
  ASSUME Rows, Records, Links, Calling, NEW c \in Callers, Quiet(c)
  PROVE  UNCHANGED tables /\ Own(c)
<1>1. UNCHANGED tables
  BY DEF Quiet, FindOrCreate, UpsertRelationship, MergeEntities, SyncFromMaster,
         PromoteByHand, StartPromotion, FindByName, FindByAlias, FindInMaster, SelectActive,
         SelectAgain, LockWinner, LockLoser, LoadEntity, PromoteFacts, DeadlockVictim, tables
<1>2. Typed /\ Exclusive /\ Known(c)
  BY DEF Calling
<1> QED
  BY <1>1, <1>2, OwnFindOrCreate, OwnUpsertRelationship, OwnMergeEntities, OwnSyncFromMaster,
     OwnPromoteByHand, OwnStartPromotion, OwnFindByName, OwnFindByAlias, OwnFindInMaster,
     OwnSelectActive, OwnSelectAgain, OwnLockWinner, OwnLockLoser, OwnLoadEntity,
     OwnPromoteFacts, OwnDeadlockVictim DEF Quiet
-----------------------------------------------------------------------------
(* Steps that write entities, and delete none. *)

\* Entities may be added, each keeps its team, and a link that is new leads to a
\* master entity.
EntitiesGrow ==
  /\ ids' \in {ids, [ids EXCEPT !.e = ids.e + 1]}
  /\ DOMAIN entities \subseteq DOMAIN entities'
  /\ \A e \in DOMAIN entities' :
       e \in DOMAIN entities \/ (e = ids.e /\ ids' = [ids EXCEPT !.e = ids.e + 1])
  /\ \A e \in DOMAIN entities' : entities'[e] \in EntityRow
  /\ \A e \in DOMAIN entities : entities'[e].team = entities[e].team
  /\ \A e \in DOMAIN entities' :
       \/ entities'[e].master = NoEntity
       \/ e \in DOMAIN entities /\ entities'[e].master = entities[e].master
       \/ entities'[e].master \in DOMAIN entities' /\ entities'[entities'[e].master].team = Master

\* Whatever refers to an entity goes on referring to one of the same team.
LEMMA GrowthKeeps ==
  ASSUME Rows, Joins, Links, NEW c \in Callers, EntitiesGrow, rels' = rels
  PROVE  /\ Rows' /\ Joins' /\ Links' /\ TeamsStay /\ LocksRespected(c)
         /\ \A e \in DOMAIN entities : entities[e].team = Master =>
              e \in DOMAIN entities' /\ entities'[e].team = Master
<1>1. ids' \in [e: Nat \ {0}, r: Nat \ {0}] /\ ids'.r = ids.r /\ ids.e <= ids'.e
  BY DEF Rows, EntitiesGrow
<1>2. DOMAIN entities' \subseteq 1 .. ids'.e - 1
  <2> SUFFICES ASSUME NEW e \in DOMAIN entities'
               PROVE  e \in 1 .. ids'.e - 1
    OBVIOUS
  <2>1. CASE e \in DOMAIN entities
    BY <1>1, <2>1 DEF Rows
  <2>2. CASE e = ids.e /\ ids' = [ids EXCEPT !.e = ids.e + 1]
    BY <2>2 DEF Rows
  <2> QED
    BY <2>1, <2>2 DEF EntitiesGrow
<1>3. Rows'
  BY <1>1, <1>2 DEF Rows, EntitiesGrow
<1>4. Joins'
  BY DEF Joins, IntraTeam, EntitiesGrow
<1>5. Links'
  <2> SUFFICES ASSUME NEW e \in DOMAIN entities', entities'[e].master # NoEntity
               PROVE  /\ entities'[e].master \in DOMAIN entities'
                      /\ entities'[entities'[e].master].team = Master
    BY DEF Links
  <2>1. CASE e \in DOMAIN entities /\ entities'[e].master = entities[e].master
    BY <2>1 DEF Links, EntitiesGrow
  <2> QED
    BY <2>1 DEF EntitiesGrow
<1>6. TeamsStay
  BY <1>1 DEF TeamsStay, EntitiesGrow, Rows
<1>7. LocksRespected(c)
  BY DEF LocksRespected, EntitiesGrow
<1> QED
  BY <1>3, <1>4, <1>5, <1>6, <1>7 DEF EntitiesGrow

\* The unique index on names decides an upsert: the row is added, or the one that
\* holds the name is changed where it is.
Upserts(table, new) ==
  /\ DOMAIN table = DOMAIN entities \cup {IdOf(new)}
  /\ \A x \in DOMAIN table : table[x] \in EntityRow
  /\ \A x \in DOMAIN entities : /\ table[x].name = entities[x].name
                                /\ table[x].team = entities[x].team
                                /\ table[x].master = entities[x].master
  /\ table[IdOf(new)].team = new.team
  /\ \/ IdOf(new) \in DOMAIN entities /\ NextIds(new) = ids
     \/ /\ IdOf(new) = ids.e /\ NextIds(new) = [ids EXCEPT !.e = ids.e + 1]
        /\ table[ids.e] = new /\ At(new.name, new.team) = {} /\ ids.e \notin DOMAIN entities

\* What INSERT ... ON CONFLICT does, for an update that keeps name, team and link.
LEMMA UpsertDoes ==
  ASSUME Rows, NEW new \in EntityRow, NEW table,
         At(new.name, new.team) = {} => table = With(entities, ids.e, new),
         At(new.name, new.team) # {} =>
           /\ DOMAIN table = DOMAIN entities
           /\ \A x \in DOMAIN entities : /\ table[x] \in EntityRow
                                         /\ table[x].name = entities[x].name
                                         /\ table[x].team = entities[x].team
                                         /\ table[x].master = entities[x].master
  PROVE  Upserts(table, new)
<1>1. CASE At(new.name, new.team) = {}
  <2>1. IdOf(new) = ids.e /\ NextIds(new) = [ids EXCEPT !.e = ids.e + 1]
    BY <1>1 DEF IdOf, NextIds
  <2>2. ids.e \notin DOMAIN entities
    BY DEF Rows
  <2>3. /\ DOMAIN table = DOMAIN entities \cup {ids.e} /\ table[ids.e] = new
        /\ \A x \in DOMAIN entities : table[x] = entities[x]
    BY <1>1, <2>2 DEF With
  <2> QED
    BY <1>1, <2>1, <2>2, <2>3 DEF Upserts, Rows
<1>2. CASE At(new.name, new.team) # {}
  <2>1. IdOf(new) \in At(new.name, new.team) /\ NextIds(new) = ids
    BY <1>2 DEF IdOf, NextIds
  <2>2. IdOf(new) \in DOMAIN entities /\ entities[IdOf(new)].team = new.team
    BY <2>1 DEF At
  <2> QED
    BY <1>2, <2>1, <2>2 DEF Upserts
<1> QED
  BY <1>1, <1>2

\* Names stay apart through an upsert, and through a change of links.
LEMMA UpsertNames ==
  ASSUME Rows, OneName, NEW new \in EntityRow, NEW table, Upserts(table, new),
         DOMAIN entities' = DOMAIN table,
         \A x \in DOMAIN table : /\ entities'[x].name = table[x].name
                                 /\ entities'[x].team = table[x].team
  PROVE  OneName'
<1> SUFFICES ASSUME NEW e \in DOMAIN table, NEW d \in DOMAIN table,
                    table[e].name = table[d].name, table[e].team = table[d].team
             PROVE  e = d
  BY DEF OneName
<1>1. CASE IdOf(new) \in DOMAIN entities
  BY <1>1 DEF Upserts, OneName
<1>2. CASE /\ IdOf(new) = ids.e /\ table[ids.e] = new
           /\ At(new.name, new.team) = {} /\ ids.e \notin DOMAIN entities
  <2>1. \A x \in DOMAIN entities : ~(entities[x].name = new.name /\ entities[x].team = new.team)
    BY <1>2 DEF At
  <2> QED
    BY <1>2, <2>1 DEF Upserts, OneName
<1> QED
  BY <1>1, <1>2 DEF Upserts
\* A step that writes entities and nothing else, except that it may promote one.
Writes(c) == /\ EntitiesGrow /\ OneName' /\ Own(c)
             /\ UNCHANGED <<rels, conflicts, flags>>

\* An upsert without a change of links is such a step.
LEMMA UpsertGrows ==
  ASSUME Rows, OneName, NEW new \in EntityRow, Upserts(entities', new), ids' = NextIds(new),
         \/ new.master = NoEntity
         \/ IdOf(new) \in DOMAIN entities
         \/ new.master \in DOMAIN entities /\ entities[new.master].team = Master
  PROVE  EntitiesGrow /\ OneName'
<1>1. OneName'
  BY UpsertNames
<1>2. ASSUME NEW e \in DOMAIN entities'
      PROVE  \/ entities'[e].master = NoEntity
             \/ e \in DOMAIN entities /\ entities'[e].master = entities[e].master
             \/ entities'[e].master \in DOMAIN entities' /\ entities'[entities'[e].master].team = Master
  <2>1. CASE e \in DOMAIN entities
    BY <2>1 DEF Upserts
  <2>2. CASE e \notin DOMAIN entities
    <3>1. IdOf(new) \notin DOMAIN entities /\ entities'[e] = new
      BY <2>2 DEF Upserts
    <3>2. CASE new.master # NoEntity
      <4>1. new.master \in DOMAIN entities /\ entities[new.master].team = Master
        BY <3>1, <3>2
      <4>2. new.master \in DOMAIN entities' /\ entities'[new.master].team = Master
        BY <4>1 DEF Upserts
      <4> QED
        BY <3>1, <4>2
    <3> QED
      BY <3>1, <3>2
  <2> QED
    BY <2>1, <2>2
<1>3. /\ ids' \in {ids, [ids EXCEPT !.e = ids.e + 1]}
      /\ DOMAIN entities \subseteq DOMAIN entities'
      /\ \A e \in DOMAIN entities' : entities'[e] \in EntityRow
      /\ \A e \in DOMAIN entities : entities'[e].team = entities[e].team
  BY DEF Upserts
<1>4. \A e \in DOMAIN entities' :
        e \in DOMAIN entities \/ (e = ids.e /\ ids' = [ids EXCEPT !.e = ids.e + 1])
  BY DEF Upserts
<1> QED
  BY <1>1, <1>2, <1>3, <1>4 DEF EntitiesGrow

LEMMA WriteMergeAliases ==
  ASSUME Rows, OneName, Records, Typed, NEW c \in Callers, MergeAliases(c)
  PROVE  Writes(c) /\ promotions' = promotions
<1>0. PICK k : k = call[c]
  OBVIOUS
<1>1. k.m \in Mentions
  BY <1>0, TouchCall DEF MergeAliases, At1, Typed
<1>2. Own(c)
  BY Returned DEF MergeAliases, At1, Records
<1>3. entities' = IF k.e \in DOMAIN entities
                  THEN [entities EXCEPT ![k.e] = Touched(entities[k.e], k.m)] ELSE entities
  BY <1>0 DEF MergeAliases
<1>4. \A x \in DOMAIN entities :
        /\ Touched(entities[x], k.m) \in EntityRow
        /\ Touched(entities[x], k.m).name = entities[x].name
        /\ Touched(entities[x], k.m).team = entities[x].team
        /\ Touched(entities[x], k.m).master = entities[x].master
  BY <1>1 DEF Touched, Rows, EntityRow, Mentions
<1>5. DOMAIN entities' = DOMAIN entities
  BY <1>3
<1>6. \A x \in DOMAIN entities :
        /\ entities'[x] \in EntityRow
        /\ entities'[x].name = entities[x].name
        /\ entities'[x].team = entities[x].team
        /\ entities'[x].master = entities[x].master
  BY <1>3, <1>4 DEF Rows
<1>7. UNCHANGED <<rels, conflicts, flags, promotions, ids>>
  BY DEF MergeAliases
<1> QED
  BY <1>2, <1>5, <1>6, <1>7 DEF Writes, EntitiesGrow, OneName

\* The unique index lets through a name that no other entity of the team has.
LEMMA WriteRenameEntity ==
  ASSUME Rows, OneName, Records, Typed, NEW c \in Callers, RenameEntity(c)
  PROVE  Writes(c) /\ promotions' = promotions
<1>1. PICK e \in DOMAIN entities, n \in Names :
        /\ At(n, entities[e].team) \subseteq {e}
        /\ entities' = [entities EXCEPT ![e].name = n]
  BY DEF RenameEntity
<1>2. Own(c)
  <2>1. PICK n0 : n0 = [pc |-> "idle"]
    OBVIOUS
  <2>2. n0 \in Calls /\ n0.pc = "idle" /\ Begin(c, n0)
    BY <2>1, Idle DEF RenameEntity
  <2> QED
    BY <2>2, Begun, ReliesOnNothing
<1>3. DOMAIN entities' = DOMAIN entities
  BY <1>1
<1>4. \A x \in DOMAIN entities :
        /\ entities'[x] \in EntityRow
        /\ entities'[x].name = IF x = e THEN n ELSE entities[x].name
        /\ entities'[x].team = entities[x].team
        /\ entities'[x].master = entities[x].master
  BY <1>1 DEF Rows, EntityRow
<1>5. \A x \in DOMAIN entities :
        entities[x].name = n /\ entities[x].team = entities[e].team => x = e
  BY <1>1 DEF At
<1>6. OneName'
  BY <1>3, <1>4, <1>5 DEF OneName
<1>7. UNCHANGED <<rels, conflicts, flags, promotions, ids>>
  BY DEF RenameEntity
<1> QED
  BY <1>2, <1>3, <1>4, <1>6, <1>7 DEF Writes, EntitiesGrow

\* The name a copy takes over is free in its own team, which it has not left.
LEMMA WriteWriteSync ==
  ASSUME Rows, OneName, Records, Typed, NEW c \in Callers, Known(c), WriteSync(c)
  PROVE  Writes(c) /\ promotions' = promotions
<1>0. PICK k : k = call[c]
  OBVIOUS
<1>1. k \in [pc: {"sync"}, team: Teams, e: Nat, name: Names, aliases: SUBSET Names]
  BY <1>0, SyncCall DEF WriteSync, At1, Typed
<1>2. Own(c)
  BY Returned DEF WriteSync, At1, Records
<1>3. UNCHANGED <<rels, conflicts, flags, promotions, ids>>
  BY DEF WriteSync
<1>4. CASE k.e \in DOMAIN entities /\ At(k.name, k.team) \subseteq {k.e}
  <2>1. entities' = [entities EXCEPT ![k.e].name = k.name, ![k.e].aliases = k.aliases]
    BY <1>0, <1>4 DEF WriteSync
  <2>2. entities[k.e].team = k.team
    BY <1>0, <1>1, <1>4 DEF Known, OfTeam
  <2>3. DOMAIN entities' = DOMAIN entities
    BY <2>1
  <2>4. \A x \in DOMAIN entities :
          /\ entities'[x] \in EntityRow
          /\ entities'[x].name = IF x = k.e THEN k.name ELSE entities[x].name
          /\ entities'[x].team = entities[x].team
          /\ entities'[x].master = entities[x].master
    BY <1>1, <2>1 DEF Rows, EntityRow
  <2>5. \A x \in DOMAIN entities :
          entities[x].name = k.name /\ entities[x].team = entities[k.e].team => x = k.e
    BY <1>4, <2>2 DEF At
  <2>6. OneName'
    BY <1>4, <2>3, <2>4, <2>5 DEF OneName
  <2> QED
    BY <1>2, <1>3, <2>3, <2>4, <2>6 DEF Writes, EntitiesGrow
<1>5. CASE ~(k.e \in DOMAIN entities /\ At(k.name, k.team) \subseteq {k.e})
  <2>1. entities' = entities
    BY <1>0, <1>5 DEF WriteSync
  <2> QED
    BY <1>2, <1>3, <2>1 DEF Writes, EntitiesGrow, OneName, Rows
<1> QED
  BY <1>4, <1>5
\* A copy is linked to a master entity that is there, or is not inserted.
LEMMA WriteCopyFromMaster ==
  ASSUME Rows, OneName, Records, Typed, NEW c \in Callers, Known(c), CopyFromMaster(c)
  PROVE  Writes(c) /\ promotions' = promotions
<1>0. PICK k : k = call[c]
  OBVIOUS
<1>1. /\ k \in [pc: {"copy"}, m: Mentions, team: Teams, e: Nat, row: EntityRow]
      /\ OfTeam(k.e, Master)
  BY <1>0, CopyCall DEF CopyFromMaster, At1, Typed, Known
<1>2. Own(c)
  BY Returned DEF CopyFromMaster, At1, Records
<1>3. UNCHANGED <<rels, conflicts, flags, promotions>>
  BY DEF CopyFromMaster
<1>4. PICK new : new = [name |-> k.row.name, aliases |-> k.row.aliases \cup k.m.aliases,
                        ctx |-> IF k.row.ctx # {} THEN k.row.ctx ELSE k.m.ctx,
                        team |-> k.team, master |-> k.e]
  OBVIOUS
<1>5. /\ new.name \in Names /\ new.aliases \in SUBSET Names /\ new.team \in Teams
      /\ new.master = k.e /\ new \in EntityRow
  BY <1>1, <1>4 DEF EntityRow, Mentions
<1>6. CASE k.e \in DOMAIN entities \/ At(new.name, new.team) # {}
  <2>1. /\ entities' = IF At(new.name, new.team) = {} THEN With(entities, ids.e, new)
                       ELSE [x \in DOMAIN entities |->
                               IF x \in At(new.name, new.team)
                               THEN [entities[x] EXCEPT !.aliases = entities[x].aliases \cup new.aliases]
                               ELSE entities[x]]
        /\ ids' = NextIds(new)
    BY <1>0, <1>4, <1>6 DEF CopyFromMaster, Upsert
  <2>2. \A x \in DOMAIN entities :
          LET row == [entities[x] EXCEPT !.aliases = entities[x].aliases \cup new.aliases] IN
          /\ row \in EntityRow /\ row.name = entities[x].name
          /\ row.team = entities[x].team /\ row.master = entities[x].master
    BY <1>5 DEF Rows, EntityRow
  <2>3. Upserts(entities', new)
    BY <1>5, <2>1, <2>2, UpsertDoes DEF Rows
  <2>4. \/ IdOf(new) \in DOMAIN entities
        \/ new.master \in DOMAIN entities /\ entities[new.master].team = Master
    <3>1. CASE At(new.name, new.team) # {}
      BY <3>1 DEF IdOf, At
    <3>2. CASE k.e \in DOMAIN entities
      BY <1>1, <1>5, <3>2 DEF OfTeam
    <3> QED
      BY <1>6, <3>1, <3>2
  <2>5. EntitiesGrow /\ OneName'
    BY <1>5, <2>1, <2>3, <2>4, UpsertGrows
  <2> QED
    BY <1>2, <1>3, <2>5 DEF Writes
<1>7. CASE ~(k.e \in DOMAIN entities \/ At(new.name, new.team) # {})
  <2>1. UNCHANGED <<entities, ids>>
    BY <1>0, <1>4, <1>7 DEF CopyFromMaster
  <2> QED
    BY <1>2, <1>3, <2>1 DEF Writes, EntitiesGrow, OneName, Rows
<1> QED
  BY <1>6, <1>7

LEMMA WriteCreateEntity ==
  ASSUME Rows, OneName, Records, Typed, NEW c \in Callers, CreateEntity(c)
  PROVE  Writes(c) /\ promotions' = promotions
<1>0. PICK k : k = call[c]
  OBVIOUS
<1>1. k \in [pc: {"name", "alias", "master", "create"}, m: Mentions, team: Teams]
  BY <1>0, MentionCall DEF CreateEntity, At1, Typed
<1>2. Own(c)
  BY Returned DEF CreateEntity, At1, Records
<1>3. UNCHANGED <<rels, conflicts, flags, promotions>>
  BY DEF CreateEntity
<1>4. PICK new : new = [name |-> k.m.name, aliases |-> k.m.aliases, ctx |-> k.m.ctx,
                        team |-> k.team, master |-> NoEntity]
  OBVIOUS
<1>5. new \in EntityRow /\ new.master = NoEntity
  BY <1>1, <1>4 DEF EntityRow, Mentions
<1>6. /\ entities' = IF At(new.name, new.team) = {} THEN With(entities, ids.e, new)
                     ELSE [x \in DOMAIN entities |->
                             IF x \in At(new.name, new.team) THEN Touched(entities[x], k.m)
                             ELSE entities[x]]
      /\ ids' = NextIds(new)
  BY <1>0, <1>4 DEF CreateEntity, Upsert
<1>7. \A x \in DOMAIN entities :
        /\ Touched(entities[x], k.m) \in EntityRow
        /\ Touched(entities[x], k.m).name = entities[x].name
        /\ Touched(entities[x], k.m).team = entities[x].team
        /\ Touched(entities[x], k.m).master = entities[x].master
  BY <1>1 DEF Touched, Rows, EntityRow, Mentions
<1>8. Upserts(entities', new)
  BY <1>5, <1>6, <1>7, UpsertDoes DEF Rows
<1>9. EntitiesGrow /\ OneName'
  BY <1>5, <1>6, <1>8, UpsertGrows
<1> QED
  BY <1>2, <1>3, <1>9 DEF Writes

\* The row of the master graph that an entity of a team is lifted to.
LEMMA MasterRow ==
  ASSUME NEW row \in EntityRow, NEW ctx \in SUBSET Words, NEW new, new = InMaster(row, ctx)
  PROVE  new \in EntityRow /\ new.team = Master /\ new.master = NoEntity
         /\ new.aliases \in SUBSET Names
  BY GraphAssumption DEF InMaster, EntityRow

\* The entity that is lifted, if it is still there, is linked to the master's.
LEMMA WriteWriteLift ==
  ASSUME Rows, OneName, Records, Typed, NEW c \in Callers, WriteLift(c)
  PROVE  Writes(c) /\ promotions' = promotions
<1>0. PICK k : k = call[c]
  OBVIOUS
<1>1. k.row \in EntityRow /\ k.row.ctx \in SUBSET Words
  BY <1>0, LiftCall DEF WriteLift, At1, Typed, EntityRow
<1>2. Own(c)
  BY Returned DEF WriteLift, At1, Records
<1>3. UNCHANGED <<rels, conflicts, flags, promotions>>
  BY DEF WriteLift
<1>4. PICK new : new = InMaster(k.row, k.row.ctx)
  OBVIOUS
<1>5. new \in EntityRow /\ new.team = Master /\ new.master = NoEntity /\ new.aliases \in SUBSET Names
  BY <1>1, <1>4, MasterRow
<1>6. PICK table :
        table = IF At(new.name, new.team) = {} THEN With(entities, ids.e, new)
                ELSE [x \in DOMAIN entities |->
                        IF x \in At(new.name, new.team)
                        THEN [entities[x] EXCEPT !.aliases = entities[x].aliases \cup new.aliases]
                        ELSE entities[x]]
  OBVIOUS
<1>7. /\ entities' = IF k.e \in DOMAIN table THEN [table EXCEPT ![k.e].master = IdOf(new)] ELSE table
      /\ ids' = NextIds(new)
  BY <1>0, <1>4, <1>6 DEF WriteLift, Upsert
<1>8. \A x \in DOMAIN entities :
        LET row == [entities[x] EXCEPT !.aliases = entities[x].aliases \cup new.aliases] IN
        /\ row \in EntityRow /\ row.name = entities[x].name
        /\ row.team = entities[x].team /\ row.master = entities[x].master
  BY <1>5 DEF Rows, EntityRow
<1>9. Upserts(table, new)
  BY <1>5, <1>6, <1>8, UpsertDoes DEF Rows
<1>10. IdOf(new) \in Nat /\ IdOf(new) \in DOMAIN table /\ table[IdOf(new)].team = Master
  BY <1>5, <1>9 DEF Upserts, Rows
<1>11. DOMAIN entities' = DOMAIN table
  <2>1. CASE k.e \in DOMAIN table
    BY <1>7, <2>1
  <2>2. CASE k.e \notin DOMAIN table
    BY <1>7, <2>2
  <2> QED
    BY <2>1, <2>2
<1>12. \A x \in DOMAIN table :
         /\ entities'[x] \in EntityRow
         /\ entities'[x].name = table[x].name /\ entities'[x].team = table[x].team
         /\ entities'[x].master = IF x = k.e THEN IdOf(new) ELSE table[x].master
  <2>1. \A x \in DOMAIN table : table[x] \in EntityRow
    BY <1>9 DEF Upserts
  <2>2. CASE k.e \in DOMAIN table
    <3>1. entities' = [table EXCEPT ![k.e].master = IdOf(new)]
      BY <1>7, <2>2
    <3>2. \A x \in DOMAIN table :
            entities'[x] = IF x = k.e THEN [table[x] EXCEPT !.master = IdOf(new)] ELSE table[x]
      BY <1>11, <3>1
    <3>3. \A x \in DOMAIN table :
            LET row == [table[x] EXCEPT !.master = IdOf(new)] IN
            /\ row \in EntityRow /\ row.name = table[x].name /\ row.team = table[x].team
            /\ row.master = IdOf(new)
      BY <1>10, <2>1 DEF EntityRow
    <3> QED
      BY <2>1, <3>2, <3>3
  <2>3. CASE k.e \notin DOMAIN table
    BY <1>7, <2>1, <2>3
  <2> QED
    BY <2>2, <2>3
<1>13. OneName'
  BY <1>5, <1>9, <1>11, <1>12, UpsertNames
<1>14. \A x \in DOMAIN entities' :
         \/ entities'[x].master = NoEntity
         \/ x \in DOMAIN entities /\ entities'[x].master = entities[x].master
         \/ entities'[x].master \in DOMAIN entities' /\ entities'[entities'[x].master].team = Master
  <2> TAKE x \in DOMAIN entities'
  <2>1. CASE x = k.e
    BY <1>10, <1>11, <1>12, <2>1
  <2>2. CASE x # k.e
    BY <1>5, <1>9, <1>11, <1>12, <2>2 DEF Upserts
  <2> QED
    BY <2>1, <2>2
<1>15. /\ ids' \in {ids, [ids EXCEPT !.e = ids.e + 1]}
       /\ DOMAIN entities \subseteq DOMAIN entities'
       /\ \A x \in DOMAIN entities : entities'[x].team = entities[x].team
       /\ \A x \in DOMAIN entities' :
            x \in DOMAIN entities \/ (x = ids.e /\ ids' = [ids EXCEPT !.e = ids.e + 1])
  BY <1>7, <1>9, <1>11, <1>12 DEF Upserts
<1>16. EntitiesGrow
  BY <1>11, <1>12, <1>14, <1>15 DEF EntitiesGrow
<1> QED
  BY <1>2, <1>3, <1>13, <1>16 DEF Writes

\* What is promoted is an entity of the master team.
LEMMA WritePromoteEntity ==
  ASSUME Rows, OneName, Records, Typed, NEW c \in Callers, PromoteEntity(c)
  PROVE  /\ Writes(c)
         /\ \A p \in promotions' : \/ p \in promotions
                                   \/ /\ p \in Teams \X Nat /\ p[2] \in DOMAIN entities'
                                      /\ entities'[p[2]].team = Master
<1>0. PICK k : k = call[c]
  OBVIOUS
<1>1. k \in [pc: {"promote"}, team: Teams, todo: SUBSET Nat, map: SUBSET (Nat \X Nat),
             e: Nat, row: EntityRow]
  BY <1>0, PromoteCall DEF PromoteEntity, At1, Typed
<1>2. ops' \in 0 .. MaxOps
  BY DEF PromoteEntity, At1, Records
<1>3. UNCHANGED <<rels, conflicts, flags>>
  BY DEF PromoteEntity
<1>4. PICK new : new = InMaster(k.row, {})
  OBVIOUS
<1>5. new \in EntityRow /\ new.team = Master /\ new.master = NoEntity /\ new.aliases \in SUBSET Names
  BY <1>1, <1>4, MasterRow
<1>6. /\ entities' = IF At(new.name, new.team) = {} THEN With(entities, ids.e, new)
                     ELSE [x \in DOMAIN entities |->
                             IF x \in At(new.name, new.team)
                             THEN [entities[x] EXCEPT !.aliases = entities[x].aliases \cup new.aliases]
                             ELSE entities[x]]
      /\ ids' = NextIds(new)
      /\ promotions' = promotions \cup {<<k.team, IdOf(new)>>}
      /\ call' = [call EXCEPT ![c] = [pc |-> "next", team |-> k.team, todo |-> k.todo,
                                      map |-> k.map \cup {<<k.e, IdOf(new)>>}]]
  BY <1>0, <1>4 DEF PromoteEntity, Upsert, Goto
<1>7. \A x \in DOMAIN entities :
        LET row == [entities[x] EXCEPT !.aliases = entities[x].aliases \cup new.aliases] IN
        /\ row \in EntityRow /\ row.name = entities[x].name
        /\ row.team = entities[x].team /\ row.master = entities[x].master
  BY <1>5 DEF Rows, EntityRow
<1>8. Upserts(entities', new)
  BY <1>5, <1>6, <1>7, UpsertDoes DEF Rows
<1>9. EntitiesGrow /\ OneName'
  BY <1>5, <1>6, <1>8, UpsertGrows
<1>10. /\ IdOf(new) \in Nat /\ IdOf(new) \in DOMAIN entities'
       /\ entities'[IdOf(new)].team = Master
  BY <1>5, <1>8 DEF Upserts, Rows
<1>11. PICK n : n = [pc |-> "next", team |-> k.team, todo |-> k.todo,
                     map |-> k.map \cup {<<k.e, IdOf(new)>>}]
  OBVIOUS
<1>12. n \in [pc: {"next"}, team: Teams, todo: SUBSET Nat, map: SUBSET (Nat \X Nat)]
  BY <1>1, <1>10, <1>11
<1>13. n \in Calls /\ n.pc = "next"
  BY <1>11, <1>12 DEF Calls
<1>14. Own(c)
  BY <1>2, <1>6, <1>11, <1>13, ReliesOnNothing
<1>15. <<k.team, IdOf(new)>> \in Teams \X Nat
  BY <1>1, <1>10
<1> QED
  BY <1>3, <1>6, <1>9, <1>10, <1>14, <1>15 DEF Writes
-----------------------------------------------------------------------------
(* Steps that write relationships, with the rows of the entities left alone. *)

SameEntities == entities' = entities /\ ids'.e = ids.e /\ promotions' = promotions

\* Nothing is said of entities that was not so before.
LEMMA EntitiesKept ==
  ASSUME Rows, Links, Promoted, OneName, SameEntities
  PROVE  TeamsStay /\ Links' /\ Promoted' /\ OneName'
  BY DEF SameEntities, TeamsStay, Links, Promoted, OneName, Rows

\* What a step that writes relationships owes to the tables.
Records0 == conflicts \subseteq Nat \X Nat /\ flags \subseteq Nat \X BOOLEAN
RelsInOrder == Rows' /\ Joins' /\ NoTwoActive(rels') /\ HistoryIsKept' /\ Records0'

\* A new predicate, as far as the unique index of pairs and families lets it through.
LEMMA StepUpdateRelationship ==
  ASSUME Rows, Joins, HistoryIsKept, Records, Typed, NEW c \in Callers, UpdateRelationship(c)
  PROVE  SameEntities /\ RelsInOrder /\ LocksRespected(c) /\ Own(c)
<1>1. PICK r \in DOMAIN rels, p \in Predicates :
        Free({R(r)}) /\ NoTwoActive([rels EXCEPT ![r].pred = p])
        /\ rels' = [rels EXCEPT ![r].pred = p]
  BY DEF UpdateRelationship
<1>2. Own(c)
  <2>1. PICK n0 : n0 = [pc |-> "idle"]
    OBVIOUS
  <2>2. n0 \in Calls /\ n0.pc = "idle" /\ Begin(c, n0)
    BY <2>1, Idle DEF UpdateRelationship
  <2> QED
    BY <2>2, Begun, ReliesOnNothing
<1>3. UNCHANGED <<entities, conflicts, flags, promotions, ids>>
  BY DEF UpdateRelationship
<1>4. DOMAIN rels' = DOMAIN rels
  BY <1>1
<1>5. \A q \in DOMAIN rels :
        /\ rels'[q] \in RelRow
        /\ rels'[q].s = rels[q].s /\ rels'[q].o = rels[q].o
        /\ rels'[q].team = rels[q].team /\ rels'[q].active = rels[q].active
        /\ q # r => rels'[q] = rels[q]
  BY <1>1 DEF Rows, RelRow
<1>6. Rows'
  BY <1>3, <1>4, <1>5 DEF Rows
<1>7. Joins'
  BY <1>3, <1>4, <1>5 DEF Joins, IntraTeam
<1>8. HistoryIsKept'
  BY <1>3, <1>4, <1>5 DEF HistoryIsKept
<1>9. NoTwoActive(rels')
  BY <1>1
<1>10. \A d \in Callers : R(r) \notin Holds(d)
  BY <1>1 DEF Free
<1>11. LocksRespected(c)
  BY <1>3, <1>4, <1>5, <1>10 DEF LocksRespected
<1> QED
  BY <1>2, <1>3, <1>6, <1>7, <1>8, <1>9, <1>11 DEF SameEntities, RelsInOrder, Records, Records0

\* Fewer relationships are in order when those on record stay.
LEMMA FewerRels ==
  ASSUME Rows, Joins, HistoryIsKept, NoTwoActive(rels), NEW gone,
         \A x \in conflicts : x[1] \notin gone /\ x[2] \notin gone
  PROVE  /\ DOMAIN Without(rels, gone) = DOMAIN rels \ gone
         /\ \A r \in DOMAIN rels \ gone : Without(rels, gone)[r] = rels[r]
         /\ NoTwoActive(Without(rels, gone))
         /\ \A x \in conflicts : {x[1], x[2]} \subseteq DOMAIN Without(rels, gone)
<1>1. /\ DOMAIN Without(rels, gone) = DOMAIN rels \ gone
      /\ \A r \in DOMAIN rels \ gone : Without(rels, gone)[r] = rels[r]
  BY DEF Without
<1>2. NoTwoActive(Without(rels, gone))
  BY <1>1 DEF NoTwoActive
<1>3. \A x \in conflicts : {x[1], x[2]} \subseteq DOMAIN Without(rels, gone)
  BY <1>1 DEF HistoryIsKept
<1> QED
  BY <1>1, <1>2, <1>3

LEMMA StepDeleteRelationship ==
  ASSUME Rows, Joins, HistoryIsKept, NoTwoActive(rels), Records, Typed, NEW c \in Callers,
         DeleteRelationship(c)
  PROVE  SameEntities /\ RelsInOrder /\ LocksRespected(c) /\ Own(c)
<1>1. PICK r \in DOMAIN rels :
        /\ Free({R(r)})
        /\ \A x \in conflicts : r \notin {x[1], x[2]}
        /\ rels' = Without(rels, {r})
  BY DEF DeleteRelationship
<1>2. Own(c)
  <2>1. PICK n0 : n0 = [pc |-> "idle"]
    OBVIOUS
  <2>2. n0 \in Calls /\ n0.pc = "idle" /\ Begin(c, n0)
    BY <2>1, Idle DEF DeleteRelationship
  <2> QED
    BY <2>2, Begun, ReliesOnNothing
<1>3. UNCHANGED <<entities, conflicts, flags, promotions, ids>>
  BY DEF DeleteRelationship
<1>4. /\ DOMAIN rels' = DOMAIN rels \ {r}
      /\ \A q \in DOMAIN rels \ {r} : rels'[q] = rels[q]
      /\ NoTwoActive(rels')
      /\ \A x \in conflicts : {x[1], x[2]} \subseteq DOMAIN rels'
  <2>1. PICK gone : gone = {r}
    OBVIOUS
  <2>2. \A x \in conflicts : x[1] \notin gone /\ x[2] \notin gone
    BY <1>1, <2>1
  <2>3. /\ DOMAIN Without(rels, gone) = DOMAIN rels \ gone
        /\ \A q \in DOMAIN rels \ gone : Without(rels, gone)[q] = rels[q]
        /\ NoTwoActive(Without(rels, gone))
        /\ \A x \in conflicts : {x[1], x[2]} \subseteq DOMAIN Without(rels, gone)
    BY <2>2, FewerRels
  <2>4. rels' = Without(rels, gone)
    BY <1>1, <2>1
  <2> QED
    BY <2>1, <2>3, <2>4
<1>5. Rows' /\ Joins'
  BY <1>3, <1>4 DEF Rows, Joins, IntraTeam
<1>6. HistoryIsKept'
  BY <1>3, <1>4 DEF HistoryIsKept
<1>7. \A d \in Callers : R(r) \notin Holds(d)
  BY <1>1 DEF Free
<1>8. LocksRespected(c)
  BY <1>3, <1>4, <1>7 DEF LocksRespected
<1> QED
  BY <1>2, <1>3, <1>4, <1>5, <1>6, <1>8 DEF SameEntities, RelsInOrder, Records, Records0

\* The row a fact becomes.
LEMMA FactRow ==
  ASSUME Rows, Typed, NEW c \in Callers, NEW k, k = call[c], k.pc \in {"insert", "supersede"},
         NEW row, row = Row(k)
  PROVE  /\ row \in RelRow /\ row.s = k.f.s /\ row.o = k.f.o /\ row.pred = k.f.pred
         /\ row.team = k.team /\ row.active
<1>1. k.f \in Facts /\ k.team \in Teams
  BY FactCall, OldCall DEF Typed
<1> QED
  BY <1>1 DEF Row, Facts, RelRow

\* A pair without an active relationship of the family gets one.
LEMMA StepInsertFact ==
  ASSUME Rows, Joins, HistoryIsKept, NoTwoActive(rels), Records, Typed, NEW c \in Callers,
         Known(c), InsertFact(c)
  PROVE  SameEntities /\ RelsInOrder /\ LocksRespected(c) /\ Own(c)
<1>0. PICK k : k = call[c]
  OBVIOUS
<1>1. /\ k.pc = "insert" /\ ops' \in 0 .. MaxOps
      /\ UNCHANGED <<entities, conflicts, flags, promotions>>
  BY <1>0 DEF InsertFact, At1, Records
<1>2. CASE /\ IntraTeam(k.f.s, k.f.o, k.team) /\ Standing(k.f, k.team) = {}
           /\ rels' = With(rels, ids.r, Row(k))
           /\ ids' = [ids EXCEPT !.r = ids.r + 1]
           /\ NextFact(c)
  <2>1. PICK row : row = Row(k)
    OBVIOUS
  <2>2. /\ row \in RelRow /\ row.s = k.f.s /\ row.o = k.f.o /\ row.pred = k.f.pred
        /\ row.team = k.team /\ row.active
    BY <1>0, <1>1, <2>1, FactRow
  <2>3. ids.r \notin DOMAIN rels /\ ids.r \in Nat \ {0}
    BY DEF Rows
  <2>4. /\ DOMAIN rels' = DOMAIN rels \cup {ids.r} /\ rels'[ids.r] = row
        /\ \A q \in DOMAIN rels : rels'[q] = rels[q]
    BY <1>2, <2>1, <2>3 DEF With
  <2>5. ids' \in [e: Nat \ {0}, r: Nat \ {0}] /\ ids'.e = ids.e /\ ids'.r = ids.r + 1
    BY <1>2 DEF Rows
  <2>6. Rows'
    BY <1>1, <2>2, <2>3, <2>4, <2>5 DEF Rows
  <2>7. Joins'
    BY <1>1, <1>2, <2>2, <2>4 DEF Joins, IntraTeam
  <2>8. HistoryIsKept'
    BY <1>1, <2>2, <2>4 DEF HistoryIsKept
  <2>9. \A q \in DOMAIN rels :
          ~(/\ rels[q].active /\ rels[q].s = row.s /\ rels[q].o = row.o /\ rels[q].team = row.team
            /\ FamilyOf[rels[q].pred] = FamilyOf[row.pred])
    BY <1>2, <2>2 DEF Standing
  <2>10. NoTwoActive(rels')
    BY <2>4, <2>9 DEF NoTwoActive
  <2>11. LocksRespected(c)
    BY <1>1, <2>4 DEF LocksRespected
  <2>12. Own(c)
    BY <1>0, <1>1, <1>2, AtNextFact
  <2> QED
    BY <1>1, <2>5, <2>6, <2>7, <2>8, <2>10, <2>11, <2>12
       DEF SameEntities, RelsInOrder, Records, Records0
<1>3. CASE Return(c) /\ UNCHANGED <<rels, ids>>
  <2>1. Own(c)
    BY <1>1, <1>3, Returned
  <2>2. Rows' /\ Joins' /\ HistoryIsKept' /\ NoTwoActive(rels') /\ LocksRespected(c)
    BY <1>1, <1>3 DEF Rows, Joins, IntraTeam, HistoryIsKept, LocksRespected
  <2> QED
    BY <1>1, <1>3, <2>1, <2>2 DEF SameEntities, RelsInOrder, Records, Records0
<1> QED
  BY <1>0, <1>2, <1>3 DEF InsertFact

\* The relationship that is replaced is the active one of the pair and family, it
\* is on record with the one that replaces it, and no one else had locked it.
LEMMA StepSupersede ==
  ASSUME Rows, Joins, HistoryIsKept, NoTwoActive(rels), Records, Typed, Exclusive,
         NEW c \in Callers, Known(c), Supersede(c)
  PROVE  SameEntities /\ RelsInOrder /\ LocksRespected(c) /\ Own(c)
<1>0. PICK k : k = call[c]
  OBVIOUS
<1>1. /\ k.pc = "supersede" /\ ops' \in 0 .. MaxOps
      /\ UNCHANGED <<entities, flags, promotions>>
  BY <1>0 DEF Supersede, At1, Records
<1>2. /\ rels' = With([rels EXCEPT ![k.old].active = FALSE], ids.r, Row(k))
      /\ ids' = [ids EXCEPT !.r = ids.r + 1]
      /\ conflicts' = IF k.logged THEN conflicts \cup {<<k.old, ids.r>>} ELSE conflicts
      /\ NextFact(c)
  BY <1>0 DEF Supersede, Superseded
<1>3. k.old \in Standing(k.f, k.team) /\ (k.logged \/ k.team = Master)
  BY <1>0, <1>1 DEF Known
<1>4. /\ k.old \in DOMAIN rels /\ rels[k.old].active /\ rels[k.old].team = k.team
      /\ rels[k.old].s = k.f.s /\ rels[k.old].o = k.f.o
      /\ FamilyOf[rels[k.old].pred] = FamilyOf[k.f.pred]
  BY <1>3 DEF Standing
<1>5. PICK row : row = Row(k)
  OBVIOUS
<1>6. /\ row \in RelRow /\ row.s = k.f.s /\ row.o = k.f.o /\ row.pred = k.f.pred
      /\ row.team = k.team /\ row.active
  BY <1>0, <1>1, <1>5, FactRow
<1>7. ids.r \notin DOMAIN rels /\ ids.r \in Nat \ {0} /\ k.old \in Nat
  BY <1>4 DEF Rows
<1>8. PICK ended : ended = [rels EXCEPT ![k.old].active = FALSE]
  OBVIOUS
<1>9. /\ DOMAIN ended = DOMAIN rels
      /\ \A q \in DOMAIN rels :
           /\ ended[q] \in RelRow
           /\ ended[q].s = rels[q].s /\ ended[q].o = rels[q].o
           /\ ended[q].team = rels[q].team /\ ended[q].pred = rels[q].pred
           /\ ended[q].active = IF q = k.old THEN FALSE ELSE rels[q].active
           /\ q # k.old => ended[q] = rels[q]
  BY <1>4, <1>8 DEF Rows, RelRow
<1>10. /\ DOMAIN rels' = DOMAIN rels \cup {ids.r} /\ rels'[ids.r] = row
       /\ \A q \in DOMAIN rels : rels'[q] = ended[q]
  BY <1>2, <1>5, <1>7, <1>8, <1>9 DEF With
<1>11. /\ rels'[k.old] \in RelRow /\ ~rels'[k.old].active
       /\ rels'[k.old].s = rels[k.old].s /\ rels'[k.old].o = rels[k.old].o
       /\ rels'[k.old].team = rels[k.old].team
  BY <1>4, <1>9, <1>10
<1>12. \A q \in DOMAIN rels \ {k.old} : rels'[q] = rels[q] /\ rels[q] \in RelRow
  BY <1>9, <1>10 DEF Rows
<1>13. ids' \in [e: Nat \ {0}, r: Nat \ {0}] /\ ids'.e = ids.e /\ ids'.r = ids.r + 1
  BY <1>2 DEF Rows
<1>14. Rows'
  BY <1>1, <1>6, <1>7, <1>10, <1>11, <1>12, <1>13 DEF Rows
<1>15. Joins'
  <2>1. IntraTeam(row.s, row.o, row.team)
    BY <1>4, <1>6 DEF Joins
  <2> QED
    BY <1>1, <1>10, <1>11, <1>12, <2>1 DEF Joins, IntraTeam
<1>16. \A q \in DOMAIN rels :
         (/\ rels[q].active /\ rels[q].s = row.s /\ rels[q].o = row.o /\ rels[q].team = row.team
          /\ FamilyOf[rels[q].pred] = FamilyOf[row.pred]) => q = k.old
  BY <1>4, <1>6 DEF NoTwoActive
<1>17. NoTwoActive(rels')
  <2> SUFFICES ASSUME NEW q \in DOMAIN rels', NEW r \in DOMAIN rels',
                      rels'[q].active, rels'[r].active,
                      rels'[q].s = rels'[r].s, rels'[q].o = rels'[r].o,
                      rels'[q].team = rels'[r].team,
                      FamilyOf[rels'[q].pred] = FamilyOf[rels'[r].pred]
               PROVE  q = r
    BY DEF NoTwoActive
  <2>1. CASE q \in DOMAIN rels /\ r \in DOMAIN rels
    BY <1>10, <1>11, <1>12, <2>1 DEF NoTwoActive
  <2>2. CASE q = ids.r \/ r = ids.r
    BY <1>10, <1>11, <1>12, <1>16, <2>2
  <2> QED
    BY <1>10, <2>1, <2>2
<1>18. HistoryIsKept'
  <2>1. k.team = Master \/ <<k.old, ids.r>> \in conflicts'
    BY <1>2, <1>3
  <2>2. conflicts \subseteq conflicts' /\ conflicts' \subseteq conflicts \cup {<<k.old, ids.r>>}
    BY <1>2
  <2>3. ASSUME NEW q \in DOMAIN rels', ~rels'[q].active, rels'[q].team # Master
        PROVE  \E x \in conflicts' : x[1] = q
    <3>1. CASE q = k.old
      BY <1>4, <1>10, <1>11, <1>12, <2>1, <2>3, <3>1
    <3>2. CASE q # k.old
      BY <1>6, <1>10, <1>11, <1>12, <2>2, <2>3, <3>2 DEF HistoryIsKept
    <3> QED
      BY <3>1, <3>2
  <2>4. \A x \in conflicts' : {x[1], x[2]} \subseteq DOMAIN rels'
    BY <1>4, <1>10, <2>2 DEF HistoryIsKept
  <2> QED
    BY <2>3, <2>4 DEF HistoryIsKept
<1>19. \A d \in Callers \ {c} : R(k.old) \notin Holds(d)
  BY <1>0, <1>1, HeldRows DEF Exclusive
<1>20. LocksRespected(c)
  BY <1>1, <1>9, <1>10, <1>19 DEF LocksRespected
<1>21. Own(c)
  BY <1>0, <1>1, <1>2, AtNextFact
<1>22. Records0'
  BY <1>1, <1>2, <1>7 DEF Records, Records0
<1> QED
  BY <1>1, <1>13, <1>14, <1>15, <1>17, <1>18, <1>20, <1>21, <1>22 DEF SameEntities, RelsInOrder
-----------------------------------------------------------------------------
(* Review flags. *)

\* One statement, which writes flags of entities that exist and nothing else.
LEMMA StepFlags ==
  ASSUME Rows, Joins, HistoryIsKept, NoTwoActive(rels), Records, Typed, NEW c \in Callers,
         FlagForReview(c) \/ ResolveFlag(c)
  PROVE  SameEntities /\ RelsInOrder /\ LocksRespected(c) /\ Own(c)
<1>1. UNCHANGED <<entities, rels, conflicts, promotions, ids>>
  BY DEF FlagForReview, ResolveFlag
<1>2. Own(c)
  <2>1. PICK n0 : n0 = [pc |-> "idle"]
    OBVIOUS
  <2>2. n0 \in Calls /\ n0.pc = "idle" /\ Begin(c, n0)
    BY <2>1, Idle DEF FlagForReview, ResolveFlag
  <2> QED
    BY <2>2, Begun, ReliesOnNothing
<1>3. flags' \subseteq Nat \X BOOLEAN
  <2>1. CASE FlagForReview(c)
    <3>1. PICK e \in DOMAIN entities : flags' = flags \cup {<<e, FALSE>>}
      BY <2>1 DEF FlagForReview
    <3>2. e \in Nat
      BY DEF Rows
    <3>3. <<e, FALSE>> \in Nat \X BOOLEAN
      BY <3>2, Zenon
    <3> QED
      BY <3>1, <3>3 DEF Records
  <2>2. CASE ResolveFlag(c)
    <3>1. PICK e \in DOMAIN entities : flags' = (flags \ {<<e, FALSE>>}) \cup {<<e, TRUE>>}
      BY <2>2 DEF ResolveFlag
    <3>2. e \in Nat
      BY DEF Rows
    <3>3. <<e, TRUE>> \in Nat \X BOOLEAN
      BY <3>2, Zenon
    <3> QED
      BY <3>1, <3>3 DEF Records
  <2> QED
    BY <2>1, <2>2
<1>4. Rows' /\ Joins' /\ HistoryIsKept' /\ NoTwoActive(rels') /\ LocksRespected(c)
  BY <1>1 DEF Rows, Joins, IntraTeam, HistoryIsKept, LocksRespected
<1> QED
  BY <1>1, <1>2, <1>3, <1>4 DEF SameEntities, RelsInOrder, Records, Records0

-----------------------------------------------------------------------------
(* Steps that delete an entity. *)

\* The entity goes; the others keep names and teams, and lose their links to it.
Deletes(e) ==
  /\ DOMAIN entities' = DOMAIN entities \ {e}
  /\ \A x \in DOMAIN entities \ {e} :
       /\ entities'[x] \in EntityRow
       /\ entities'[x].name = entities[x].name /\ entities'[x].team = entities[x].team
       /\ entities'[x].master = IF entities[x].master = e THEN NoEntity ELSE entities[x].master
  /\ \A p \in promotions : p[2] # e
  /\ promotions' = promotions /\ ids' = ids

\* What still refers to an entity refers to one that is left.
LEMMA DeletionKeeps ==
  ASSUME Rows, Links, Promoted, OneName, NEW e, Deletes(e)
  PROVE  TeamsStay /\ Links' /\ Promoted' /\ OneName'
<1>1. TeamsStay
  BY DEF Deletes, TeamsStay, Rows
<1>2. Links'
  BY DEF Deletes, Links
<1>3. Promoted'
  BY DEF Deletes, Promoted
<1>4. OneName'
  BY DEF Deletes, OneName
<1> QED
  BY <1>1, <1>2, <1>3, <1>4

\* The relationships of the entity go with it: none of them is on record, and
\* none of these rows is locked.
LEMMA StepDeleteEntity ==
  ASSUME Rows, Joins, HistoryIsKept, NoTwoActive(rels), Records, Typed, NEW c \in Callers,
         DeleteEntity(c)
  PROVE  (\E e : Deletes(e)) /\ RelsInOrder /\ LocksRespected(c) /\ Own(c)
<1>1. PICK e \in DOMAIN entities :
        /\ Free({E(e)} \cup {R(r) : r \in Touching(e)})
        /\ Deletable(e, Touching(e))
        /\ entities' = Unlinked(e)
        /\ rels' = Without(rels, Touching(e))
        /\ flags' = FlagsWithout(e)
  BY DEF DeleteEntity
<1>2. Own(c)
  <2>1. PICK n0 : n0 = [pc |-> "idle"]
    OBVIOUS
  <2>2. n0 \in Calls /\ n0.pc = "idle" /\ Begin(c, n0)
    BY <2>1, Idle DEF DeleteEntity
  <2> QED
    BY <2>2, Begun, ReliesOnNothing
<1>3. UNCHANGED <<conflicts, promotions, ids>>
  BY DEF DeleteEntity
<1>4. Deletes(e)
  <2>1. DOMAIN entities' = DOMAIN entities \ {e}
    BY <1>1 DEF Unlinked
  <2>2. \A x \in DOMAIN entities \ {e} :
          entities'[x] = IF entities[x].master = e THEN [entities[x] EXCEPT !.master = NoEntity]
                         ELSE entities[x]
    BY <1>1 DEF Unlinked
  <2>3. \A x \in DOMAIN entities \ {e} :
          /\ entities'[x] \in EntityRow
          /\ entities'[x].name = entities[x].name /\ entities'[x].team = entities[x].team
          /\ entities'[x].master = IF entities[x].master = e THEN NoEntity ELSE entities[x].master
    BY <2>2 DEF Rows, EntityRow
  <2> QED
    BY <1>1, <1>3, <2>1, <2>3 DEF Deletes, Deletable
<1>5. PICK gone : gone = Touching(e)
  OBVIOUS
<1>6. \A x \in conflicts : x[1] \notin gone /\ x[2] \notin gone
  BY <1>1, <1>5 DEF Deletable
<1>7. rels' = Without(rels, gone)
  BY <1>1, <1>5
<1>8. /\ DOMAIN Without(rels, gone) = DOMAIN rels \ gone
      /\ \A q \in DOMAIN rels \ gone : Without(rels, gone)[q] = rels[q]
      /\ NoTwoActive(Without(rels, gone))
      /\ \A x \in conflicts : {x[1], x[2]} \subseteq DOMAIN Without(rels, gone)
  BY <1>6, FewerRels
<1>9. /\ DOMAIN rels' = DOMAIN rels \ gone
      /\ \A q \in DOMAIN rels \ gone : rels'[q] = rels[q]
      /\ NoTwoActive(rels')
      /\ \A x \in conflicts : {x[1], x[2]} \subseteq DOMAIN rels'
  BY <1>7, <1>8
<1>10. \A q \in DOMAIN rels \ gone : rels[q].s # e /\ rels[q].o # e
  BY <1>5 DEF Touching
<1>11. Rows'
  BY <1>3, <1>4, <1>9 DEF Rows, Deletes
<1>12. Joins'
  BY <1>4, <1>9, <1>10 DEF Joins, IntraTeam, Deletes
<1>13. HistoryIsKept'
  BY <1>3, <1>9 DEF HistoryIsKept
<1>14. \A d \in Callers : E(e) \notin Holds(d) /\ \A r \in gone : R(r) \notin Holds(d)
  BY <1>1, <1>5 DEF Free
<1>15. LocksRespected(c)
  <2>1. \A x \in DOMAIN entities : x # e => x \in DOMAIN entities'
    BY <1>4 DEF Deletes
  <2> QED
    BY <1>9, <1>14, <2>1 DEF LocksRespected
<1>16. Records0'
  BY <1>1, <1>3 DEF Records, Records0, FlagsWithout
<1> QED
  BY <1>2, <1>4, <1>9, <1>11, <1>12, <1>13, <1>15, <1>16 DEF RelsInOrder

\* The relationships after their endpoint l has become w.
LEMMA RepointedRows ==
  ASSUME Rows, NEW w \in Nat, NEW l \in Nat, NEW table, table = Repointed(w, l)
  PROVE  /\ DOMAIN table = DOMAIN rels
         /\ \A r \in DOMAIN rels :
              /\ table[r] \in RelRow
              /\ table[r].s = IF rels[r].s = l THEN w ELSE rels[r].s
              /\ table[r].o = IF rels[r].o = l THEN w ELSE rels[r].o
              /\ table[r].team = rels[r].team /\ table[r].active = rels[r].active
              /\ r \notin Touching(l) => table[r] = rels[r]
<1>1. /\ DOMAIN table = DOMAIN rels
      /\ \A r \in DOMAIN rels :
           table[r] = [rels[r] EXCEPT !.s = IF rels[r].s = l THEN w ELSE rels[r].s,
                                      !.o = IF rels[r].o = l THEN w ELSE rels[r].o]
  BY DEF Repointed
<1>2. \A r \in DOMAIN rels : rels[r] \in RelRow
  BY DEF Rows
<1>3. \A r \in DOMAIN rels :
        /\ table[r] \in RelRow
        /\ table[r].s = IF rels[r].s = l THEN w ELSE rels[r].s
        /\ table[r].o = IF rels[r].o = l THEN w ELSE rels[r].o
        /\ table[r].team = rels[r].team /\ table[r].active = rels[r].active
        /\ table[r].pred = rels[r].pred
  BY <1>1, <1>2 DEF RelRow
<1>4. \A r \in DOMAIN rels : r \notin Touching(l) => table[r] = rels[r]
  <2> SUFFICES ASSUME NEW r \in DOMAIN rels, r \notin Touching(l)
               PROVE  table[r] = rels[r]
    OBVIOUS
  <2>1. rels[r].s # l /\ rels[r].o # l
    BY DEF Touching
  <2> QED
    BY <1>2, <1>3, <2>1 DEF RelRow
<1> QED
  BY <1>1, <1>3, <1>4
\* A merge that its checks let through: what becomes of the tables.
Merged(c) ==
  LET w == call[c].w
      l == call[c].l
      table == Repointed(w, l)
      gone == {r \in DOMAIN table : l \in {table[r].s, table[r].o}} IN
  /\ \A r \in DOMAIN table : table[r].s # table[r].o
  /\ NoTwoActive(table)
  /\ Deletable(l, gone)
  /\ rels' = Without(table, gone)
  /\ DOMAIN entities' = DOMAIN entities \ {l}
  /\ \A x \in DOMAIN entities \ {l} :
       /\ entities'[x] \in EntityRow
       /\ entities'[x].name = entities[x].name /\ entities'[x].team = entities[x].team
       /\ entities'[x].master = IF entities[x].master = l THEN NoEntity ELSE entities[x].master
       /\ x = w => {entities[l].name} \cup entities[l].aliases \subseteq entities'[x].aliases
  /\ flags' = FlagsWithout(l)

\* A merge does that, or nothing.
LEMMA MergeDoes ==
  ASSUME Rows, Typed, NEW c \in Callers, Known(c), ApplyMerge(c)
  PROVE  Merged(c) \/ UNCHANGED <<rels, entities, flags>>
<1> DEFINE w == call[c].w
           l == call[c].l
           table == Repointed(w, l)
           gone == {r \in DOMAIN table : l \in {table[r].s, table[r].o}}
           more == {entities[l].name} \cup entities[l].aliases
           widened == [entities EXCEPT ![w].aliases = entities[w].aliases \cup {entities[l].name}
                                                                       \cup entities[l].aliases]
           legal == /\ \A r \in DOMAIN table : table[r].s # table[r].o
                    /\ NoTwoActive(table)
                    /\ Deletable(l, gone)
<1>1. IF legal
      THEN /\ rels' = Without(table, gone)
           /\ entities' = [x \in DOMAIN entities \ {l} |->
                 IF entities[x].master = l THEN [widened[x] EXCEPT !.master = NoEntity] ELSE widened[x]]
           /\ flags' = FlagsWithout(l)
      ELSE UNCHANGED <<rels, entities, flags>>
  BY Zenon DEF ApplyMerge
<1>2. w \in DOMAIN entities /\ l \in DOMAIN entities
  BY DEF Known, ApplyMerge, At1
<1>3. \A x \in DOMAIN entities : entities[x] \in EntityRow
  BY DEF Rows
<1>4. \A x \in DOMAIN entities :
        /\ widened[x] \in EntityRow
        /\ widened[x].name = entities[x].name /\ widened[x].team = entities[x].team
        /\ widened[x].master = entities[x].master
        /\ x = w => more \subseteq widened[x].aliases
  <2> SUFFICES ASSUME NEW x \in DOMAIN entities
               PROVE  /\ widened[x] \in EntityRow
                      /\ widened[x].name = entities[x].name /\ widened[x].team = entities[x].team
                      /\ widened[x].master = entities[x].master
                      /\ x = w => more \subseteq widened[x].aliases
    OBVIOUS
  <2>1. CASE x = w
    <3>1. widened[x] = [entities[x] EXCEPT !.aliases = entities[x].aliases \cup {entities[l].name}
                                                                       \cup entities[l].aliases]
      BY <2>1
    <3> HIDE DEF widened
    <3> QED
      BY <1>2, <1>3, <3>1 DEF EntityRow
  <2>2. CASE x # w
    <3>1. widened[x] = entities[x]
      BY <2>2
    <3> HIDE DEF widened
    <3> QED
      BY <1>3, <2>2, <3>1
  <2> QED
    BY <2>1, <2>2
<1>5. CASE legal
  <2> HIDE DEF widened, more
  <2>1. \A x \in DOMAIN entities \ {l} :
          entities'[x] = IF entities[x].master = l THEN [widened[x] EXCEPT !.master = NoEntity]
                         ELSE widened[x]
    BY <1>1, <1>5
  <2>2. \A x \in DOMAIN entities \ {l} :
          /\ entities'[x] \in EntityRow
          /\ entities'[x].name = entities[x].name /\ entities'[x].team = entities[x].team
          /\ entities'[x].master = IF entities[x].master = l THEN NoEntity ELSE entities[x].master
          /\ x = w => more \subseteq entities'[x].aliases
    BY <1>4, <2>1 DEF EntityRow
  <2>3. DOMAIN entities' = DOMAIN entities \ {l}
    BY <1>1, <1>5
  <2> QED
    BY <1>1, <1>5, <2>2, <2>3 DEF Merged, more
<1> QED
  BY <1>1, <1>5
\* The loser goes, its relationships now join the winner, and no row that is on
\* record or locked by another call has changed.
LEMMA StepMerged ==
  ASSUME Rows, Joins, HistoryIsKept, Records, Typed, Exclusive,
         NEW c \in Callers, Known(c), ApplyMerge(c), Merged(c)
  PROVE  (\E e : Deletes(e)) /\ RelsInOrder /\ LocksRespected(c)
<1>0. PICK k : k = call[c]
  OBVIOUS
<1>1. /\ k \in [pc: {"winner", "loser", "apply"}, team: Teams, w: Nat, l: Nat]
      /\ k.pc = "apply" /\ k.w \in Nat /\ k.l \in Nat
  BY <1>0, MergeCall DEF ApplyMerge, At1, Typed
<1>2. CanRun(c) /\ UNCHANGED <<conflicts, promotions, ids>>
  BY DEF ApplyMerge, At1
<1>3. /\ k.w \in DOMAIN entities /\ k.l \in DOMAIN entities
      /\ entities[k.w].team = k.team /\ entities[k.l].team = k.team
  BY <1>0, <1>1 DEF Known, OfTeam
<1>4. PICK table : table = Repointed(k.w, k.l)
  OBVIOUS
<1>5. PICK gone : gone = {r \in DOMAIN table : k.l \in {table[r].s, table[r].o}}
  OBVIOUS
<1>6. /\ \A r \in DOMAIN table : table[r].s # table[r].o
      /\ NoTwoActive(table) /\ Deletable(k.l, gone)
      /\ rels' = Without(table, gone)
      /\ DOMAIN entities' = DOMAIN entities \ {k.l}
      /\ \A x \in DOMAIN entities \ {k.l} :
           /\ entities'[x] \in EntityRow
           /\ entities'[x].name = entities[x].name /\ entities'[x].team = entities[x].team
           /\ entities'[x].master = IF entities[x].master = k.l THEN NoEntity ELSE entities[x].master
      /\ flags' = FlagsWithout(k.l)
  BY <1>0, <1>4, <1>5 DEF Merged
<1>7. Deletes(k.l)
  BY <1>2, <1>6 DEF Deletes, Deletable
<1>8. /\ DOMAIN table = DOMAIN rels
      /\ \A r \in DOMAIN rels :
           /\ table[r] \in RelRow
           /\ table[r].s = IF rels[r].s = k.l THEN k.w ELSE rels[r].s
           /\ table[r].o = IF rels[r].o = k.l THEN k.w ELSE rels[r].o
           /\ table[r].team = rels[r].team /\ table[r].active = rels[r].active
           /\ r \notin Touching(k.l) => table[r] = rels[r]
  BY <1>1, <1>4, RepointedRows
<1>9. /\ DOMAIN rels' = DOMAIN rels \ gone
      /\ \A r \in DOMAIN rels \ gone : rels'[r] = table[r]
  BY <1>6, <1>8 DEF Without
<1>10. Rows'
  BY <1>2, <1>6, <1>8, <1>9 DEF Rows
<1>11. Joins'
  <2> SUFFICES ASSUME NEW r \in DOMAIN rels \ gone
               PROVE  IntraTeam(table[r].s, table[r].o, table[r].team)'
    <3> SUFFICES ASSUME NEW q \in DOMAIN rels'
                 PROVE  IntraTeam(rels[q].s, rels[q].o, rels[q].team)'
      BY DEF Joins
    <3>1. q \in DOMAIN rels \ gone /\ rels'[q] = table[q]
      BY <1>9
    <3> QED
      BY <3>1 DEF IntraTeam
  <2>1. \A e \in {rels[r].s, rels[r].o} : e \in DOMAIN entities /\ entities[e].team = rels[r].team
    BY DEF Joins, IntraTeam
  <2>2. table[r].s # k.l /\ table[r].o # k.l /\ table[r].s # table[r].o
    BY <1>5, <1>6, <1>8
  <2>3. \A e \in {table[r].s, table[r].o} : e \in DOMAIN entities /\ entities[e].team = rels[r].team
    BY <1>3, <1>8, <2>1
  <2>4. \A e \in {table[r].s, table[r].o} : e \in DOMAIN entities' /\ entities'[e].team = table[r].team
    BY <1>6, <1>8, <2>2, <2>3
  <2> QED
    BY <2>2, <2>4 DEF IntraTeam
<1>12. NoTwoActive(rels')
  BY <1>6, <1>8, <1>9 DEF NoTwoActive
<1>13. HistoryIsKept'
  BY <1>2, <1>6, <1>8, <1>9 DEF HistoryIsKept, Deletable
<1>14. \A d \in Callers \ {c} :
         E(k.l) \notin Holds(d) /\ \A r \in Touching(k.l) : R(r) \notin Holds(d)
  BY <1>0, <1>1, <1>2, HeldRows, NeededRows, NoWait DEF Exclusive
<1>15. \A r \in gone : r \in DOMAIN rels /\ (r \in Touching(k.l) \/ k.w = k.l)
  BY <1>5, <1>8 DEF Touching
<1>16. k.w = k.l => gone \subseteq Touching(k.l)
  BY <1>5, <1>8 DEF Touching
<1>17. \A r \in DOMAIN rels : r \notin Touching(k.l) => r \in DOMAIN rels' /\ rels'[r] = rels[r]
  BY <1>8, <1>9, <1>15, <1>16
<1>18. LocksRespected(c)
  BY <1>6, <1>14, <1>17 DEF LocksRespected
<1>19. Records0'
  BY <1>2, <1>6 DEF Records, Records0, FlagsWithout
<1> QED
  BY <1>7, <1>10, <1>11, <1>12, <1>13, <1>18, <1>19 DEF RelsInOrder

\* The merge, whether it is let through or raises.
LEMMA StepApplyMerge ==
  ASSUME Rows, Joins, HistoryIsKept, NoTwoActive(rels), Records, Typed, Exclusive,
         NEW c \in Callers, Known(c), ApplyMerge(c)
  PROVE  (SameEntities \/ \E e : Deletes(e)) /\ RelsInOrder /\ LocksRespected(c) /\ Own(c)
<1>1. Own(c)
  BY Returned DEF ApplyMerge, At1, Records
<1>2. CASE Merged(c)
  BY <1>1, <1>2, StepMerged
<1>3. CASE UNCHANGED <<rels, entities, flags>>
  <2>1. UNCHANGED <<rels, entities, flags, conflicts, promotions, ids>>
    BY <1>3 DEF ApplyMerge
  <2>2. Rows' /\ Joins' /\ HistoryIsKept' /\ NoTwoActive(rels') /\ LocksRespected(c)
    BY <2>1 DEF Rows, Joins, IntraTeam, HistoryIsKept, LocksRespected
  <2> QED
    BY <1>1, <2>1, <2>2 DEF SameEntities, RelsInOrder, Records, Records0
<1> QED
  BY <1>2, <1>3, MergeDoes
-----------------------------------------------------------------------------
(* Every step. *)

IInv ==
  /\ Rows /\ Records /\ Joins /\ Links /\ Promoted
  /\ OneOfEach /\ HistoryIsKept /\ Calling

Writing(c) ==
  \/ MergeAliases(c) \/ RenameEntity(c) \/ WriteSync(c) \/ CopyFromMaster(c)
  \/ CreateEntity(c) \/ WriteLift(c) \/ PromoteEntity(c)
Relating(c) ==
  \/ UpdateRelationship(c) \/ DeleteRelationship(c) \/ InsertFact(c) \/ Supersede(c)
  \/ FlagForReview(c) \/ ResolveFlag(c)
Removing(c) == DeleteEntity(c) \/ ApplyMerge(c)

LEMMA OneOfEachParts == OneOfEach <=> NoTwoActive(rels) /\ OneName
  BY DEF OneOfEach, OneName

\* Nothing is there at first, and no call is under way.
LEMMA InitInv == Init => IInv
<1> SUFFICES ASSUME Init PROVE IInv
  OBVIOUS
<1>1. DOMAIN entities = {} /\ DOMAIN rels = {} /\ conflicts = {} /\ flags = {} /\ promotions = {}
  BY DEF Init
<1>2. \A c \in Callers : call[c] \in Calls /\ call[c].pc = "idle"
  BY Idle DEF Init
<1>3. Rows /\ Records
  BY <1>1, GraphAssumption DEF Init, Rows, Records
<1>4. Joins /\ Links /\ Promoted /\ OneOfEach /\ HistoryIsKept
  BY <1>1 DEF Joins, Links, Promoted, OneOfEach, NoTwoActive, HistoryIsKept
<1>5. \A c \in Callers : Known(c) /\ Holds(c) = {}
  BY <1>2, HeldRows DEF Known
<1>6. Typed
  BY <1>2 DEF Init, Typed
<1> QED
  BY <1>3, <1>4, <1>5, <1>6 DEF IInv, Calling, Exclusive

LEMMA QuietKeeps ==
  ASSUME IInv, NEW c \in Callers, Quiet(c)
  PROVE  IInv' /\ Own(c)
<1>1. UNCHANGED tables /\ Own(c)
  BY QuietStep DEF IInv
<1>2. Rows' /\ TeamsStay /\ LocksRespected(c)
  BY <1>1, SameTables DEF IInv
<1>3. Calling'
  BY <1>1, <1>2, CallingKept DEF IInv, Own
<1>4. Records' /\ Joins' /\ Links' /\ Promoted'
  BY <1>1 DEF IInv, Own, tables, Records, Joins, IntraTeam, Links, Promoted
<1>5. OneOfEach' /\ HistoryIsKept'
  BY <1>1 DEF IInv, tables, OneOfEach, NoTwoActive, HistoryIsKept
<1> QED
  BY <1>1, <1>2, <1>3, <1>4, <1>5 DEF IInv

LEMMA WritingKeeps ==
  ASSUME IInv, NEW c \in Callers, Writing(c)
  PROVE  IInv' /\ Own(c)
<1>1. Rows /\ OneName /\ Records /\ Typed /\ Known(c) /\ Joins /\ Links /\ Promoted
  BY OneOfEachParts DEF IInv, Calling
<1>2. /\ Writes(c)
      /\ \A p \in promotions' : \/ p \in promotions
                                \/ /\ p \in Teams \X Nat /\ p[2] \in DOMAIN entities'
                                   /\ entities'[p[2]].team = Master
  BY <1>1, WriteMergeAliases, WriteRenameEntity, WriteWriteSync, WriteCopyFromMaster,
     WriteCreateEntity, WriteWriteLift, WritePromoteEntity DEF Writing
<1>3. /\ EntitiesGrow /\ OneName' /\ Own(c) /\ UNCHANGED <<rels, conflicts, flags>>
  BY <1>2 DEF Writes
<1>4. /\ Rows' /\ Joins' /\ Links' /\ TeamsStay /\ LocksRespected(c)
      /\ \A e \in DOMAIN entities : entities[e].team = Master =>
           e \in DOMAIN entities' /\ entities'[e].team = Master
  BY <1>1, <1>3, GrowthKeeps
<1>5. Promoted'
  BY <1>1, <1>2, <1>4 DEF Promoted
<1>6. Records'
  BY <1>1, <1>2, <1>3 DEF Records, Own
<1>7. Calling'
  BY <1>3, <1>4, CallingKept DEF IInv, Own
<1>8. HistoryIsKept' /\ OneOfEach'
  BY <1>3 DEF IInv, HistoryIsKept, OneOfEach, NoTwoActive, OneName
<1> QED
  BY <1>3, <1>4, <1>5, <1>6, <1>7, <1>8 DEF IInv

LEMMA RelatingKeeps ==
  ASSUME IInv, NEW c \in Callers, Relating(c)
  PROVE  IInv' /\ Own(c)
<1>1. /\ Rows /\ OneName /\ NoTwoActive(rels) /\ HistoryIsKept /\ Records /\ Joins /\ Links
      /\ Promoted /\ Typed /\ Exclusive /\ Known(c)
  BY OneOfEachParts DEF IInv, Calling
<1>2. SameEntities /\ RelsInOrder /\ LocksRespected(c) /\ Own(c)
  BY <1>1, StepUpdateRelationship, StepDeleteRelationship, StepInsertFact, StepSupersede,
     StepFlags DEF Relating
<1>3. TeamsStay /\ Links' /\ Promoted' /\ OneName'
  BY <1>1, <1>2, EntitiesKept
<1>4. Rows' /\ Joins' /\ HistoryIsKept' /\ Records0' /\ NoTwoActive(rels')
  BY <1>2 DEF RelsInOrder
<1>5. Calling'
  BY <1>2, <1>3, <1>4, CallingKept DEF IInv, Own
<1>6. OneOfEach'
  BY <1>3, <1>4 DEF OneOfEach, OneName, NoTwoActive
<1>7. Records'
  BY <1>1, <1>2, <1>4 DEF Records, Records0, Own, SameEntities
<1> QED
  BY <1>2, <1>3, <1>4, <1>5, <1>6, <1>7 DEF IInv

LEMMA RemovingKeeps ==
  ASSUME IInv, NEW c \in Callers, Removing(c)
  PROVE  IInv' /\ Own(c)
<1>1. /\ Rows /\ OneName /\ NoTwoActive(rels) /\ HistoryIsKept /\ Records /\ Joins /\ Links
      /\ Promoted /\ Typed /\ Exclusive /\ Known(c)
  BY OneOfEachParts DEF IInv, Calling
<1>2. (SameEntities \/ \E e : Deletes(e)) /\ RelsInOrder /\ LocksRespected(c) /\ Own(c)
  BY <1>1, StepDeleteEntity, StepApplyMerge DEF Removing
<1>3. /\ TeamsStay /\ Links' /\ Promoted' /\ OneName' /\ promotions' = promotions
  <2>1. CASE SameEntities
    BY <1>1, <2>1, EntitiesKept DEF SameEntities
  <2>2. CASE \E e : Deletes(e)
    <3>1. PICK e : Deletes(e)
      BY <2>2
    <3> QED
      BY <1>1, <3>1, DeletionKeeps DEF Deletes
  <2> QED
    BY <1>2, <2>1, <2>2
<1>4. Rows' /\ Joins' /\ HistoryIsKept' /\ Records0' /\ NoTwoActive(rels')
  BY <1>2 DEF RelsInOrder
<1>5. Calling'
  BY <1>2, <1>3, <1>4, CallingKept DEF IInv, Own
<1>6. OneOfEach'
  BY <1>3, <1>4 DEF OneOfEach, OneName, NoTwoActive
<1>7. Records'
  BY <1>1, <1>2, <1>3, <1>4 DEF Records, Records0, Own
<1> QED
  BY <1>2, <1>3, <1>4, <1>5, <1>6, <1>7 DEF IInv

\* A step in which nothing happens.
LEMMA StutterKeeps ==
  ASSUME IInv, UNCHANGED vars
  PROVE  IInv'
<1>1. Rows' /\ Records' /\ Joins' /\ Links' /\ Promoted' /\ OneOfEach' /\ HistoryIsKept'
  BY DEF IInv, vars, Rows, Records, Joins, IntraTeam, Links, Promoted, OneOfEach,
         NoTwoActive, HistoryIsKept
<1>2. \A c \in Callers : Holds(c)' = Holds(c)
  BY HeldRows, HeldRowsNext DEF vars
<1>3. \A c \in Callers : Known(c)'
  BY DEF IInv, Calling, vars, Known, OfTeam, Standing
<1>4. Typed' /\ Exclusive'
  BY <1>2 DEF IInv, Calling, vars, Typed, Exclusive
<1> QED
  BY <1>1, <1>3, <1>4 DEF IInv, Calling

LEMMA StepInv == IInv /\ [Next]_vars => IInv'
<1> SUFFICES ASSUME IInv, [Next]_vars PROVE IInv'
  OBVIOUS
<1>1. ASSUME NEW c \in Callers, Starts(c) \/ Continues(c)
      PROVE  IInv'
  <2>1. Quiet(c) \/ Writing(c) \/ Relating(c) \/ Removing(c)
    BY <1>1 DEF Starts, Continues, Quiet, Writing, Relating, Removing
  <2> QED
    BY <2>1, QuietKeeps, WritingKeeps, RelatingKeeps, RemovingKeeps
<1> QED
  BY <1>1, StutterKeeps DEF Next

LEMMA Invariant == Spec => []IInv
  BY InitInv, StepInv, PTL DEF Spec

-----------------------------------------------------------------------------
(* The theorems. *)

\* Types; whatever is merged, deleted, copied or promoted meanwhile, a relationship
\* joins two entities of its own team, and links and promotions lead to entities of
\* the master team.
THEOREM TypeCorrect == Spec => []TypeOK
<1>1. IInv => TypeOK
  BY DEF IInv, Rows, Records, Joins, Links, Promoted, Calling, Typed, TypeOK
<1> QED
  BY <1>1, Invariant, PTL

\* A name is one entity of a team, and a pair has one active relationship in a
\* family, however the statements of upserts, merges and promotions interleave.
THEOREM NamesAndPairsAreOne == Spec => []OneOfEach
<1>1. IInv => OneOfEach
  BY DEF IInv
<1> QED
  BY <1>1, Invariant, PTL

\* What was superseded outside the master graph stays on record, with both rows.
THEOREM SupersededStaysOnRecord == Spec => []HistoryIsKept
<1>1. IInv => HistoryIsKept
  BY DEF IInv
<1> QED
  BY <1>1, Invariant, PTL

\* A call that has locked both entities of a merge applies it or is aborted.
LEMMA OnlyTheMerge ==
  ASSUME NEW c \in Callers, Starts(c) \/ Continues(c), call[c].pc = "apply"
  PROVE  ApplyMerge(c) \/ DeadlockVictim(c)
<1>1. ~Starts(c)
  BY DEF Starts, FindOrCreate, FlagForReview, ResolveFlag, RenameEntity, DeleteEntity,
         UpdateRelationship, DeleteRelationship, UpsertRelationship, MergeEntities,
         SyncFromMaster, PromoteByHand, StartPromotion, Begin
<1>2. /\ ~FindByName(c) /\ ~FindByAlias(c) /\ ~MergeAliases(c) /\ ~FindInMaster(c)
      /\ ~CopyFromMaster(c) /\ ~CreateEntity(c) /\ ~SelectActive(c) /\ ~SelectAgain(c)
      /\ ~InsertFact(c) /\ ~Supersede(c) /\ ~LockWinner(c) /\ ~LockLoser(c)
      /\ ~WriteSync(c) /\ ~WriteLift(c) /\ ~LoadEntity(c) /\ ~PromoteEntity(c) /\ ~PromoteFacts(c)
  BY DEF FindByName, FindByAlias, MergeAliases, FindInMaster, CopyFromMaster, CreateEntity,
         SelectActive, SelectAgain, InsertFact, Supersede, LockWinner, LockLoser, WriteSync,
         WriteLift, LoadEntity, PromoteEntity, PromoteFacts, At1
<1> QED
  BY <1>1, <1>2 DEF Continues

\* A merge keeps every relationship of both entities, re-pointed, and the winner
\* answers to the names of the loser.
THEOREM MergesAreLossless == Spec => MergeLosesNothing
<1>1. ASSUME IInv, [Next]_vars, NEW c \in Callers,
             call[c].pc = "apply", call[c].w # call[c].l, call'[c].pc = "idle",
             call[c].l \in DOMAIN entities, call[c].l \notin DOMAIN entities'
      PROVE  /\ DOMAIN rels' = DOMAIN rels
             /\ \A r \in DOMAIN rels :
                  {rels'[r].s, rels'[r].o} \ {call[c].w} =
                  {rels[r].s, rels[r].o} \ {call[c].w, call[c].l}
             /\ {entities[call[c].l].name} \cup entities[call[c].l].aliases
                  \subseteq entities'[call[c].w].aliases
  <2>1. PICK k : k = call[c]
    OBVIOUS
  <2>2. Rows /\ Typed /\ Known(c)
    BY <1>1 DEF IInv, Calling
  <2>3. /\ k \in [pc: {"winner", "loser", "apply"}, team: Teams, w: Nat, l: Nat]
        /\ k.w \in DOMAIN entities /\ k.l \in DOMAIN entities
    BY <1>1, <2>1, <2>2, MergeCall DEF Typed, Known
  <2>4. PICK d \in Callers : Starts(d) \/ Continues(d)
    BY <1>1 DEF Next, vars
  <2>5. Quiet(d) \/ Writing(d) \/ Relating(d) \/ Removing(d)
    BY <2>4 DEF Starts, Continues, Quiet, Writing, Relating, Removing
  <2>6. OwnCall(d)
    BY <1>1, <2>5, QuietKeeps, WritingKeeps, RelatingKeeps, RemovingKeeps DEF Own
  <2>7. d = c
    BY <1>1, <2>2, <2>6 DEF OwnCall, Typed
  <2>8. ApplyMerge(c)
    BY <1>1, <2>4, <2>7, OnlyTheMerge DEF DeadlockVictim, tables
  <2>9. Merged(c)
    BY <1>1, <2>2, <2>8, MergeDoes
  <2>10. PICK table : table = Repointed(k.w, k.l)
    OBVIOUS
  <2>11. /\ DOMAIN table = DOMAIN rels
         /\ \A r \in DOMAIN rels :
              /\ table[r].s = IF rels[r].s = k.l THEN k.w ELSE rels[r].s
              /\ table[r].o = IF rels[r].o = k.l THEN k.w ELSE rels[r].o
    BY <2>2, <2>3, <2>10, RepointedRows
  <2>12. /\ rels' = Without(table, {r \in DOMAIN table : k.l \in {table[r].s, table[r].o}})
         /\ {entities[k.l].name} \cup entities[k.l].aliases \subseteq entities'[k.w].aliases
    BY <1>1, <2>1, <2>3, <2>9, <2>10 DEF Merged
  <2>13. {r \in DOMAIN table : k.l \in {table[r].s, table[r].o}} = {}
    BY <1>1, <2>1, <2>11
  <2>14. rels' = [r \in DOMAIN table |-> table[r]]
    BY <2>12, <2>13 DEF Without
  <2>15. \A r \in DOMAIN rels : {table[r].s, table[r].o} \ {k.w} = {rels[r].s, rels[r].o} \ {k.w, k.l}
    BY <1>1, <2>1, <2>11
  <2> QED
    BY <2>1, <2>11, <2>12, <2>14, <2>15
<1>2. IInv /\ [Next]_vars =>
        [\A c \in Callers :
           LET w == call[c].w
               l == call[c].l IN
           (/\ call[c].pc = "apply" /\ w # l /\ call'[c].pc = "idle"
            /\ l \in DOMAIN entities /\ l \notin DOMAIN entities') =>
             /\ DOMAIN rels' = DOMAIN rels
             /\ \A r \in DOMAIN rels :
                  {rels'[r].s, rels'[r].o} \ {w} = {rels[r].s, rels[r].o} \ {w, l}
             /\ {entities[l].name} \cup entities[l].aliases \subseteq entities'[w].aliases]_vars
  BY <1>1
<1> QED
  BY <1>2, InitInv, StepInv, PTL DEF Spec, MergeLosesNothing
=============================================================================
