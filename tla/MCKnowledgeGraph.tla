-------------------------- MODULE MCKnowledgeGraph --------------------------
(* Small instances of KnowledgeGraph, started from graphs that earlier calls  *)
(* have built.                                                               *)
EXTENDS KnowledgeGraph, TLC

CONSTANTS n1, n2, n3, n4, t1, p1, p2, w1, w2, c1, c2

MCFamilyOf == [p \in Predicates |-> p1]
MCMentioned ==
  {[name |-> n4, aliases |-> {n1}, ctx |-> {w1}], [name |-> n4, aliases |-> {}, ctx |-> {}]}

Rel(s, o, p, b) == [s |-> s, o |-> o, pred |-> p, team |-> t1, active |-> b]
Entity(n, t, m, a, x) == [name |-> n, aliases |-> a, ctx |-> x, team |-> t, master |-> m]

\* Three entities of a team, one of them a copy of the master's, renamed since.
\* They are related in a ring, or two of them are and a third is to be merged.
MCInit ==
  /\ entities = <<Entity(n4, Master, NoEntity, {}, {}), Entity(n2, t1, 1, {}, {}),
                  Entity(n1, t1, NoEntity, {}, {}), Entity(n3, t1, NoEntity, {n4}, {w2})>>
  /\ \/ /\ rels = <<Rel(3, 2, p1, TRUE), Rel(2, 4, p1, TRUE), Rel(4, 3, p1, TRUE)>>
        /\ conflicts = {} /\ promotions = {}
     \/ /\ rels = <<Rel(3, 2, p1, FALSE), Rel(3, 2, p2, TRUE)>>
        /\ conflicts = {<<1, 2>>} /\ promotions = {<<t1, 1>>}
  /\ flags = {}
  /\ call = [c \in Callers |-> [pc |-> "idle"]]
  /\ ids = [e |-> 5, r |-> Cardinality(DOMAIN rels) + 1] /\ ops = 0

\* Callers are alike: one that finds the other idle is c1.
MCNext == Next /\ (call[c1].pc = "idle" /\ call[c2].pc = "idle" => call'[c2] = call[c2])

MCSpec == MCInit /\ [][MCNext]_vars
=============================================================================
