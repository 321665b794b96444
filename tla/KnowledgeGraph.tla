--------------------------- MODULE KnowledgeGraph ---------------------------
(***************************************************************************)
(* The knowledge graph: entities and relationships of each team and of the  *)
(* master team, the log of superseded relationships, review flags and       *)
(* promotions.                                                              *)
(*                                                                         *)
(*   app/db/knowledge_graph.py        every operation that writes           *)
(*   worker/workflows/kg_promotion.py the promotion of a team's graph       *)
(*   app/db/_schema.py                foreign keys, unique indexes, CHECK   *)
(*                                                                         *)
(* PostgreSQL runs at READ COMMITTED: a call outside a transaction commits  *)
(* each statement, and a call in a transaction holds the rows it locked.    *)
(* Each statement is a step; a call that raises rolls back, releases its    *)
(* locks and ends.  A name stands for LOWER(name); descriptions, types and  *)
(* metadata are left out; so are confidences, and which of the entities and  *)
(* relationships reach the thresholds of a promotion is left open.          *)
(***************************************************************************)
EXTENDS Integers, FiniteSets

CONSTANTS
  Callers,    \* connections: API handlers and workers
  Teams, Master,
  Names,
  Words, Long,        \* words of a disambiguation context, those longer than 3
  Mentioned,          \* mentions of entities that documents make
  Predicates, FamilyOf,
  NoEntity,
  MaxOps      \* bound: calls in one behaviour

Mentions == [name: Names, aliases: SUBSET Names, ctx: SUBSET Words]

ASSUME GraphAssumption ==
  /\ Mentioned \subseteq Mentions
  /\ Master \in Teams /\ Long \subseteq Words /\ MaxOps \in Nat
  /\ NoEntity \notin Nat
  /\ FamilyOf \in [Predicates -> Predicates]

VARIABLES
  entities,   \* kg_entities, by id
  rels,       \* kg_relationships, by id
  conflicts,  \* kg_relationship_conflicts: <<old id, new id>>
  flags,      \* kg_entity_flags: <<entity, resolved>>
  promotions, \* kg_promotions: <<source team, entity>>
  call,       \* what each connection is in the middle of
  ids,        \* the next ids: UUIDs are never used twice
  ops

vars == <<entities, rels, conflicts, flags, promotions, call, ids, ops>>
tables == <<entities, rels, conflicts, flags, promotions, ids>>

EntityRow == [name: Names, aliases: SUBSET Names, ctx: SUBSET Words,
              team: Teams, master: Nat \cup {NoEntity}]
Facts     == [s: Nat, o: Nat, pred: Predicates]
RelRow    == [s: Nat, o: Nat, pred: Predicates, team: Teams, active: BOOLEAN]

\* An upsert is logged and has one fact; a promotion writes the facts in todo.
Calls ==
  [pc: {"idle"}]
  \cup [pc: {"name", "alias", "master", "create"}, m: Mentions, team: Teams]
  \cup [pc: {"touch"}, m: Mentions, team: Teams, e: Nat]
  \cup [pc: {"copy"}, m: Mentions, team: Teams, e: Nat, row: EntityRow]
  \cup [pc: {"select", "insert"}, f: Facts, team: Teams, todo: SUBSET Facts, logged: BOOLEAN]
  \cup [pc: {"await", "supersede"}, f: Facts, team: Teams, todo: SUBSET Facts,
        logged: BOOLEAN, old: Nat]
  \cup [pc: {"winner", "loser", "apply"}, team: Teams, w: Nat, l: Nat]
  \cup [pc: {"sync"}, team: Teams, e: Nat, name: Names, aliases: SUBSET Names]
  \cup [pc: {"lift"}, team: Teams, e: Nat, row: EntityRow]
  \cup [pc: {"next"}, team: Teams, todo: SUBSET Nat, map: SUBSET (Nat \X Nat)]
  \cup [pc: {"promote"}, team: Teams, todo: SUBSET Nat, map: SUBSET (Nat \X Nat),
        e: Nat, row: EntityRow]

-----------------------------------------------------------------------------
(* Rows, constraints and locks. *)

At(name, team) == {e \in DOMAIN entities : entities[e].name = name /\ entities[e].team = team}

Touching(e) == {r \in DOMAIN rels : e \in {rels[r].s, rels[r].o}}

\* The active relationship of a fact's pair and family in a team.
Standing(f, team) ==
  {r \in DOMAIN rels : /\ rels[r].active /\ rels[r].team = team
                       /\ rels[r].s = f.s /\ rels[r].o = f.o
                       /\ FamilyOf[rels[r].pred] = FamilyOf[f.pred]}

\* CHECK kg_rel_intra_team_check: two different entities, both of the team.
IntraTeam(s, o, team) ==
  s # o /\ \A e \in {s, o} : e \in DOMAIN entities /\ entities[e].team = team

\* kg_rel_active_family_team_idx.
NoTwoActive(table) ==
  \A r, q \in DOMAIN table :
    (/\ table[r].active /\ table[q].active
     /\ table[r].s = table[q].s /\ table[r].o = table[q].o
     /\ table[r].team = table[q].team
     /\ FamilyOf[table[r].pred] = FamilyOf[table[q].pred]) => r = q

DeletableMutant(e, gone) == \A p \in promotions : p[2] # e

\* kg_relationship_conflicts and kg_promotions name no ON DELETE action, so a
\* row they refer to cannot be deleted.
Deletable(e, gone) ==
  /\ \A p \in promotions : p[2] # e
  /\ \A x \in conflicts : x[1] \notin gone /\ x[2] \notin gone

\* Deleting an entity: its relationships and flags go, its copies lose their link.
Unlinked(e) ==
  [x \in DOMAIN entities \ {e} |->
     IF entities[x].master = e THEN [entities[x] EXCEPT !.master = NoEntity] ELSE entities[x]]
FlagsWithout(e) == {f \in flags : f[1] # e}
Without(table, gone) == [r \in DOMAIN table \ gone |-> table[r]]
With(table, id, row) == [x \in DOMAIN table \cup {id} |-> IF x = id THEN row ELSE table[x]]

\* The rows a transaction has locked, and those its next statement must lock.
E(id) == <<"e", id>>
R(id) == <<"r", id>>
Holds(c) ==
  CASE call[c].pc = "loser"     -> {E(call[c].w)}
    [] call[c].pc = "apply"     -> {E(call[c].w), E(call[c].l)}
    [] call[c].pc = "supersede" -> {R(call[c].old)}
    [] OTHER                    -> {}
Needs(c) ==
  CASE call[c].pc = "winner" -> {E(call[c].w)}
    [] call[c].pc = "loser"  -> {E(call[c].l)}
    [] call[c].pc = "apply"  -> {R(r) : r \in Touching(call[c].l)}
    [] call[c].pc = "await"  -> {R(call[c].old)}
    [] call[c].pc \in {"insert", "supersede"} -> {E(call[c].f.s), E(call[c].f.o)}
    [] call[c].pc \in {"touch", "sync"} -> {E(call[c].e)}
    [] call[c].pc = "create" -> {E(e) : e \in At(call[c].m.name, call[c].team)}
    [] call[c].pc = "copy"   -> {E(e) : e \in At(call[c].row.name, call[c].team) \cup {call[c].e}}
    [] call[c].pc = "promote" -> {E(e) : e \in At(call[c].row.name, Master)}
    [] call[c].pc = "lift"   -> {E(e) : e \in At(call[c].row.name, Master) \cup {call[c].e}}
    [] OTHER -> {}

Free(rows)     == \A d \in Callers : Holds(d) \cap rows = {}
WaitsFor(c, d) == c # d /\ Needs(c) \cap Holds(d) # {}
CanRun(c)      == \A d \in Callers : ~WaitsFor(c, d)

Begin(c, next) ==
  /\ call[c].pc = "idle"
  /\ ops < MaxOps
  /\ ops' = ops + 1
  /\ call' = [call EXCEPT ![c] = next]
At1(c, pc)  == call[c].pc = pc /\ CanRun(c) /\ UNCHANGED ops
Goto(c, k)  == call' = [call EXCEPT ![c] = k]
Return(c)   == Goto(c, [pc |-> "idle"])

-----------------------------------------------------------------------------
(* db_find_or_create_entity: four lookups, each a statement of its own. *)

Conflicting(a, b) ==
  a \cap Long # {} /\ b \cap Long # {} /\ (a \cap b) \cap Long = {}

Touched(row, m) ==
  [row EXCEPT !.aliases = @ \cup m.aliases, !.ctx = IF @ = {} THEN m.ctx ELSE @]

FindOrCreate(c) ==
  /\ \E m \in Mentioned, t \in Teams : Begin(c, [pc |-> "name", m |-> m, team |-> t])
  /\ UNCHANGED tables

FindByName(c) ==
  /\ At1(c, "name") /\ UNCHANGED tables
  /\ LET k == call[c]
         found == At(k.m.name, k.team) IN
     \/ \E e \in found : Goto(c, [pc |-> "touch", m |-> k.m, team |-> k.team, e |-> e])
     \/ found = {} /\ Goto(c, [k EXCEPT !.pc = "alias"])

FindByAlias(c) ==
  /\ At1(c, "alias") /\ UNCHANGED tables
  /\ LET k == call[c]
         found == {e \in DOMAIN entities : k.m.name \in entities[e].aliases /\ entities[e].team = k.team}
         clash(e) == Conflicting(k.m.ctx, entities[e].ctx) IN
     \/ \E e \in found : ~clash(e) /\ Goto(c, [pc |-> "touch", m |-> k.m, team |-> k.team, e |-> e])
     \/ (found = {} \/ \E e \in found : clash(e)) /\ Goto(c, [k EXCEPT !.pc = "master"])

\* _merge_aliases: an UPDATE by id, which finds nothing when the row has gone.
MergeAliases(c) ==
  /\ At1(c, "touch") /\ Return(c)
  /\ LET k == call[c] IN
     entities' = IF k.e \in DOMAIN entities THEN [entities EXCEPT ![k.e] = Touched(@, k.m)] ELSE entities
  /\ UNCHANGED <<rels, conflicts, flags, promotions, ids>>

FindInMaster(c) ==
  /\ At1(c, "master") /\ UNCHANGED tables
  /\ LET k == call[c]
         found == At(k.m.name, Master) IN
     \/ \E e \in found : Goto(c, [pc |-> "copy", m |-> k.m, team |-> k.team, e |-> e, row |-> entities[e]])
     \/ found = {} /\ Goto(c, [k EXCEPT !.pc = "create"])

IdsMutant(new) == ids

\* INSERT ... ON CONFLICT (LOWER(name), team_id) DO UPDATE, and the id it returns.
Upsert(new, onConflict(_)) ==
  LET held == At(new.name, new.team) IN
  IF held = {} THEN With(entities, ids.e, new)
  ELSE [x \in DOMAIN entities |-> IF x \in held THEN onConflict(entities[x]) ELSE entities[x]]
IdOf(new) ==
  LET held == At(new.name, new.team) IN IF held = {} THEN ids.e ELSE CHOOSE x \in held : TRUE
NextIds(new) == IF At(new.name, new.team) = {} THEN [ids EXCEPT !.e = @ + 1] ELSE ids

\* The link to a master entity that has gone breaks the foreign key of a new row.
CopyFromMaster(c) ==
  /\ At1(c, "copy") /\ Return(c)
  /\ LET k == call[c]
         new == [name |-> k.row.name, aliases |-> k.row.aliases \cup k.m.aliases,
                 ctx |-> IF k.row.ctx # {} THEN k.row.ctx ELSE k.m.ctx,
                 team |-> k.team, master |-> k.e]
         widen(row) == [row EXCEPT !.aliases = @ \cup new.aliases] IN
     IF k.e \in DOMAIN entities \/ At(new.name, new.team) # {}
     THEN entities' = Upsert(new, widen) /\ ids' = NextIds(new)
     ELSE UNCHANGED <<entities, ids>>
  /\ UNCHANGED <<rels, conflicts, flags, promotions>>

CreateEntity(c) ==
  /\ At1(c, "create") /\ Return(c)
  /\ LET k == call[c]
         new == [name |-> k.m.name, aliases |-> k.m.aliases, ctx |-> k.m.ctx,
                 team |-> k.team, master |-> NoEntity]
         touch(row) == Touched(row, k.m) IN
     entities' = Upsert(new, touch) /\ ids' = NextIds(new)
  /\ UNCHANGED <<rels, conflicts, flags, promotions>>

-----------------------------------------------------------------------------
(* Calls of one statement, made by a connection that is otherwise idle. *)

\* db_flag_entity_for_review: one flag per entity, resolved or not.
FlagForReview(c) ==
  /\ Begin(c, [pc |-> "idle"])
  /\ \E e \in DOMAIN entities : /\ \A f \in flags : f[1] # e
                                /\ Free({E(e)})
                                /\ flags' = flags \cup {<<e, FALSE>>}
  /\ UNCHANGED <<entities, rels, conflicts, promotions, ids>>

ResolveFlag(c) ==
  /\ Begin(c, [pc |-> "idle"])
  /\ \E e \in DOMAIN entities : /\ <<e, FALSE>> \in flags
                                /\ flags' = (flags \ {<<e, FALSE>>}) \cup {<<e, TRUE>>}
  /\ UNCHANGED <<entities, rels, conflicts, promotions, ids>>

RenameMutant(c) ==
  /\ Begin(c, [pc |-> "idle"])
  /\ \E e \in DOMAIN entities, n \in Names : entities' = [entities EXCEPT ![e].name = n]
  /\ UNCHANGED <<rels, conflicts, flags, promotions, ids>>

\* db_update_kg_entity, for a new name; the unique index refuses one that is taken.
RenameEntity(c) ==
  /\ Begin(c, [pc |-> "idle"])
  /\ \E e \in DOMAIN entities, n \in Names :
       /\ Free({E(e)})
       /\ At(n, entities[e].team) \subseteq {e}
       /\ entities' = [entities EXCEPT ![e].name = n]
  /\ UNCHANGED <<rels, conflicts, flags, promotions, ids>>

\* db_delete_kg_entity, when no foreign key stands in the way.
DeleteEntity(c) ==
  /\ Begin(c, [pc |-> "idle"])
  /\ \E e \in DOMAIN entities :
       /\ Free({E(e)} \cup {R(r) : r \in Touching(e)})
       /\ Deletable(e, Touching(e))
       /\ entities' = Unlinked(e)
       /\ rels' = Without(rels, Touching(e))
       /\ flags' = FlagsWithout(e)
  /\ UNCHANGED <<conflicts, promotions, ids>>

\* db_update_kg_relationship: the predicate and its family, whatever the team.
UpdateRelationship(c) ==
  /\ Begin(c, [pc |-> "idle"])
  /\ \E r \in DOMAIN rels, p \in Predicates :
       LET next == [rels EXCEPT ![r].pred = p] IN
       /\ Free({R(r)}) /\ NoTwoActive(next)
       /\ rels' = next
  /\ UNCHANGED <<entities, conflicts, flags, promotions, ids>>

DeleteRelationship(c) ==
  /\ Begin(c, [pc |-> "idle"])
  /\ \E r \in DOMAIN rels :
       /\ Free({R(r)}) /\ \A x \in conflicts : r \notin {x[1], x[2]}
       /\ rels' = Without(rels, {r})
  /\ UNCHANGED <<entities, conflicts, flags, promotions, ids>>

-----------------------------------------------------------------------------
(* db_upsert_relationship, and promote_relationships_to_master for each fact. *)

UpsertRelationship(c) ==
  /\ \E s, o \in DOMAIN entities, p \in Predicates :
       Begin(c, [pc |-> "select", f |-> [s |-> s, o |-> o, pred |-> p],
                 team |-> entities[s].team, todo |-> {}, logged |-> TRUE])
  /\ UNCHANGED tables

\* The next fact of a promotion, or the end of the call.
NextFact(c) ==
  LET k == call[c] IN
  IF k.todo = {} THEN Return(c)
  ELSE \E f \in k.todo : Goto(c, [pc |-> "select", f |-> f, team |-> k.team,
                                  todo |-> k.todo \ {f}, logged |-> k.logged])

\* SELECT ... FOR UPDATE.  A statement that had to wait looks at the row again,
\* and only at that row: it does not see what has replaced it.
Matched(c, r) ==
  LET k == call[c] IN
  IF rels[r].pred = k.f.pred THEN NextFact(c)
  ELSE Goto(c, [pc |-> "supersede", f |-> k.f, team |-> k.team, todo |-> k.todo,
                logged |-> k.logged, old |-> r])

SelectActive(c) ==
  /\ At1(c, "select") /\ UNCHANGED tables
  /\ LET k == call[c]
         held == Standing(k.f, k.team) IN
     \/ held = {} /\ Goto(c, [k EXCEPT !.pc = "insert"])
     \/ \E r \in held : Free({R(r)}) /\ Matched(c, r)
     \/ \E r \in held : /\ ~Free({R(r)})
                        /\ Goto(c, [pc |-> "await", f |-> k.f, team |-> k.team, todo |-> k.todo,
                                    logged |-> k.logged, old |-> r])

SelectAgain(c) ==
  /\ At1(c, "await") /\ UNCHANGED tables
  /\ LET k == call[c] IN
     IF k.old \in Standing(k.f, k.team) THEN Matched(c, k.old)
     ELSE Goto(c, [pc |-> "insert", f |-> k.f, team |-> k.team, todo |-> k.todo, logged |-> k.logged])

Row(k) == [s |-> k.f.s, o |-> k.f.o, pred |-> k.f.pred, team |-> k.team, active |-> TRUE]

\* A duplicate ends an upsert quietly and a promotion with an exception.
InsertFact(c) ==
  /\ At1(c, "insert")
  /\ LET k == call[c] IN
     \/ /\ IntraTeam(k.f.s, k.f.o, k.team) /\ Standing(k.f, k.team) = {}
        /\ rels' = With(rels, ids.r, Row(k))
        /\ ids' = [ids EXCEPT !.r = @ + 1]
        /\ NextFact(c)
     \/ /\ ~IntraTeam(k.f.s, k.f.o, k.team) \/ Standing(k.f, k.team) # {}
        /\ Return(c) /\ UNCHANGED <<rels, ids>>
  /\ UNCHANGED <<entities, conflicts, flags, promotions>>

Superseded(k, log) ==
  /\ rels' = With([rels EXCEPT ![k.old].active = FALSE], ids.r, Row(k))
  /\ ids' = [ids EXCEPT !.r = @ + 1]
  /\ conflicts' = IF log THEN conflicts \cup {<<k.old, ids.r>>} ELSE conflicts

\* The locked row keeps its two entities from being deleted.
Supersede(c) ==
  /\ At1(c, "supersede")
  /\ Superseded(call[c], call[c].logged)
  /\ NextFact(c)
  /\ UNCHANGED <<entities, flags, promotions>>

-----------------------------------------------------------------------------
(* db_merge_kg_entities.  Nothing keeps a caller from merging an entity with *)
(* itself.                                                                  *)

MergeEntities(c) ==
  /\ \E w, l \in DOMAIN entities :
       /\ entities[w].team = entities[l].team
       /\ Begin(c, [pc |-> "winner", team |-> entities[w].team, w |-> w, l |-> l])
  /\ UNCHANGED tables

LockWinner(c) ==
  At1(c, "winner") /\ Goto(c, [call[c] EXCEPT !.pc = "loser"]) /\ UNCHANGED tables

LockLoser(c) ==
  /\ At1(c, "loser")
  /\ IF {call[c].w, call[c].l} \subseteq DOMAIN entities
     THEN Goto(c, [call[c] EXCEPT !.pc = "apply"]) ELSE Return(c)
  /\ UNCHANGED tables

RepointMutant(w, l) ==
  [r \in DOMAIN rels |-> IF rels[r].s = l THEN [rels[r] EXCEPT !.s = w] ELSE rels[r]]

Repointed(w, l) ==
  LET to(x) == IF x = l THEN w ELSE x IN
  [r \in DOMAIN rels |-> [rels[r] EXCEPT !.s = to(@), !.o = to(@)]]

\* Every re-pointed row is checked as it is updated, so a merge of two entities
\* that are related to each other never gets as far as deleting the self-references.
ApplyMerge(c) ==
  /\ At1(c, "apply") /\ Return(c)
  /\ LET w == call[c].w
         l == call[c].l
         table == Repointed(w, l)
         gone == {r \in DOMAIN table : l \in {table[r].s, table[r].o}}
         widened == [entities EXCEPT ![w].aliases = @ \cup {entities[l].name} \cup entities[l].aliases]
         legal == /\ \A r \in DOMAIN table : table[r].s # table[r].o
                  /\ NoTwoActive(table)
                  /\ Deletable(l, gone) IN
     IF legal
     THEN /\ rels' = Without(table, gone)
          /\ entities' = [x \in DOMAIN entities \ {l} |->
                IF entities[x].master = l THEN [widened[x] EXCEPT !.master = NoEntity] ELSE widened[x]]
          /\ flags' = FlagsWithout(l)
     ELSE UNCHANGED <<rels, entities, flags>>
  /\ UNCHANGED <<conflicts, promotions, ids>>

-----------------------------------------------------------------------------
(* The master graph: a copy is brought up to date, an entity is promoted by  *)
(* hand, and the kg_promotion workflow promotes what a team is sure of.      *)

SyncFromMaster(c) ==
  /\ \E e \in DOMAIN entities :
       LET m == entities[e].master IN
       /\ m # NoEntity
       /\ Begin(c, [pc |-> "sync", team |-> entities[e].team, e |-> e,
                    name |-> entities[m].name, aliases |-> entities[m].aliases])
  /\ UNCHANGED tables

WriteSync(c) ==
  /\ At1(c, "sync") /\ Return(c)
  /\ LET k == call[c] IN
     entities' = IF k.e \in DOMAIN entities /\ At(k.name, k.team) \subseteq {k.e}
                 THEN [entities EXCEPT ![k.e].name = k.name, ![k.e].aliases = k.aliases]
                 ELSE entities
  /\ UNCHANGED <<rels, conflicts, flags, promotions, ids>>

InMaster(row, ctx) ==
  [name |-> row.name, aliases |-> row.aliases, ctx |-> ctx, team |-> Master, master |-> NoEntity]

PromoteByHand(c) ==
  /\ \E e \in DOMAIN entities :
       Begin(c, [pc |-> "lift", team |-> entities[e].team, e |-> e, row |-> entities[e]])
  /\ UNCHANGED tables

WriteLift(c) ==
  /\ At1(c, "lift") /\ Return(c)
  /\ LET k == call[c]
         new == InMaster(k.row, k.row.ctx)
         widen(row) == [row EXCEPT !.aliases = @ \cup new.aliases]
         table == Upsert(new, widen) IN
     /\ entities' = IF k.e \in DOMAIN table
                    THEN [table EXCEPT ![k.e].master = IdOf(new)] ELSE table
     /\ ids' = NextIds(new)
  /\ UNCHANGED <<rels, conflicts, flags, promotions>>

\* Two sessions take two active relationships.
Eligible(t) ==
  {e \in DOMAIN entities :
     LET active == {r \in Touching(e) : rels[r].active /\ rels[r].team = t} IN
     entities[e].team = t /\ <<t, e>> \notin promotions /\ Cardinality(active) >= 2}

StartPromotion(c) ==
  /\ \E t \in Teams : \E es \in SUBSET Eligible(t) :
       es # {} /\ Begin(c, [pc |-> "next", team |-> t, todo |-> es, map |-> {}])
  /\ UNCHANGED tables

LoadEntity(c) ==
  /\ At1(c, "next") /\ UNCHANGED tables
  /\ LET k == call[c] IN
     \E e \in k.todo :
       IF e \in DOMAIN entities
       THEN Goto(c, [pc |-> "promote", team |-> k.team, todo |-> k.todo \ {e}, map |-> k.map,
                     e |-> e, row |-> entities[e]])
       ELSE Goto(c, [k EXCEPT !.todo = @ \ {e}])

\* Under the advisory lock of the name, look and write are one step.  The record
\* names the master's entity, so Eligible never finds it.
PromoteEntity(c) ==
  /\ At1(c, "promote")
  /\ LET k == call[c]
         new == InMaster(k.row, {})
         widen(row) == [row EXCEPT !.aliases = @ \cup new.aliases] IN
     /\ entities' = Upsert(new, widen)
     /\ ids' = NextIds(new)
     /\ promotions' = promotions \cup {<<k.team, IdOf(new)>>}
     /\ Goto(c, [pc |-> "next", team |-> k.team, todo |-> k.todo,
                 map |-> k.map \cup {<<k.e, IdOf(new)>>}])
  /\ UNCHANGED <<rels, conflicts, flags>>

PromoteFacts(c) ==
  /\ At1(c, "next") /\ call[c].todo = {} /\ UNCHANGED tables
  /\ LET k == call[c]
         both == {r \in DOMAIN rels :
                    /\ rels[r].active /\ rels[r].team = k.team
                    /\ {rels[r].s, rels[r].o} \subseteq {x[1] : x \in k.map}}
         master(e) == (CHOOSE x \in k.map : x[1] = e)[2] IN
     \E sure \in SUBSET both :
       LET facts == {[s |-> master(rels[r].s), o |-> master(rels[r].o), pred |-> rels[r].pred] :
                       r \in sure} IN
       \/ facts = {} /\ Return(c)
       \/ \E f \in facts : Goto(c, [pc |-> "select", f |-> f, team |-> Master,
                                    todo |-> facts \ {f}, logged |-> FALSE])

-----------------------------------------------------------------------------
\* PostgreSQL's deadlock detector aborts a transaction of a cycle of waits.
DeadlockVictim(c) ==
  /\ \E S \in SUBSET Callers :
       c \in S /\ \A x \in S : (\E y \in S : WaitsFor(x, y)) /\ (\E y \in S : WaitsFor(y, x))
  /\ Return(c)
  /\ UNCHANGED <<tables, ops>>

Starts(c) ==
  \/ FindOrCreate(c) \/ FlagForReview(c) \/ ResolveFlag(c) \/ RenameEntity(c)
  \/ DeleteEntity(c) \/ UpdateRelationship(c) \/ DeleteRelationship(c)
  \/ UpsertRelationship(c) \/ MergeEntities(c) \/ SyncFromMaster(c)
  \/ PromoteByHand(c) \/ StartPromotion(c)

Continues(c) ==
  \/ FindByName(c) \/ FindByAlias(c) \/ MergeAliases(c) \/ FindInMaster(c)
  \/ CopyFromMaster(c) \/ CreateEntity(c) \/ SelectActive(c) \/ SelectAgain(c)
  \/ InsertFact(c) \/ Supersede(c) \/ LockWinner(c) \/ LockLoser(c) \/ ApplyMerge(c)
  \/ WriteSync(c) \/ WriteLift(c) \/ LoadEntity(c) \/ PromoteEntity(c) \/ PromoteFacts(c)
  \/ DeadlockVictim(c)

Next == \E c \in Callers : Starts(c) \/ Continues(c)

Init ==
  /\ entities = <<>> /\ rels = <<>>
  /\ conflicts = {} /\ flags = {} /\ promotions = {}
  /\ call = [c \in Callers |-> [pc |-> "idle"]]
  /\ ids = [e |-> 1, r |-> 1] /\ ops = 0

Spec == Init /\ [][Next]_vars

-----------------------------------------------------------------------------
(* Properties. *)

\* Types; a relationship joins two different entities of its own team, and the
\* master entity an entity is linked to, or was promoted to, is one of the master
\* team, whatever was merged, deleted or promoted in the meantime.
TypeOK ==
  /\ DOMAIN entities \subseteq 1 .. ids.e - 1
  /\ DOMAIN rels \subseteq 1 .. ids.r - 1
  /\ \A e \in DOMAIN entities : entities[e] \in EntityRow
  /\ \A r \in DOMAIN rels : rels[r] \in RelRow
  /\ conflicts \subseteq Nat \X Nat
  /\ flags \subseteq Nat \X BOOLEAN
  /\ promotions \subseteq Teams \X Nat
  /\ DOMAIN call = Callers
  /\ \A c \in Callers : call[c] \in Calls
  /\ ids \in [e: Nat \ {0}, r: Nat \ {0}]
  /\ ops \in 0 .. MaxOps
  /\ \A r \in DOMAIN rels : IntraTeam(rels[r].s, rels[r].o, rels[r].team)
  /\ \A e \in DOMAIN entities :
       entities[e].master # NoEntity =>
         entities[e].master \in DOMAIN entities /\ entities[entities[e].master].team = Master
  /\ \A p \in promotions : p[2] \in DOMAIN entities /\ entities[p[2]].team = Master

\* Outside the master graph a relationship that was replaced stays on record
\* with the one that replaced it: no delete, merge or later upsert loses either.
HistoryIsKept ==
  /\ \A r \in DOMAIN rels :
       ~rels[r].active /\ rels[r].team # Master => \E x \in conflicts : x[1] = r
  /\ \A x \in conflicts : {x[1], x[2]} \subseteq DOMAIN rels

\* A name is one entity of a team, and a pair of entities has one active
\* relationship in a family: what the lookups by name and by pair rely on.
OneOfEach ==
  /\ NoTwoActive(rels)
  /\ \A e, d \in DOMAIN entities :
       entities[e].name = entities[d].name /\ entities[e].team = entities[d].team => e = d

\* A merge of two entities keeps every relationship of both, with its other
\* endpoint, and the winner answers to the loser's name from then on.
MergeLosesNothing ==
  [][\A c \in Callers :
       LET w == call[c].w
           l == call[c].l IN
       (/\ call[c].pc = "apply" /\ w # l /\ call'[c].pc = "idle"
        /\ l \in DOMAIN entities /\ l \notin DOMAIN entities') =>
         /\ DOMAIN rels' = DOMAIN rels
         /\ \A r \in DOMAIN rels :
              {rels'[r].s, rels'[r].o} \ {w} = {rels[r].s, rels[r].o} \ {w, l}
         /\ {entities[l].name} \cup entities[l].aliases \subseteq entities'[w].aliases]_vars
=============================================================================
