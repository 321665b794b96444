----------------------------- MODULE MCServices -----------------------------
(***************************************************************************)
(* The services together, on a small instance of each.                     *)
(***************************************************************************)
EXTENDS Services

\* One client under two labels.
MCItems == {[label |-> "l1", gwm |-> "g1"], [label |-> "l2", gwm |-> "g1"]}

\* Of the first document, the second row of a chunk is past its prompt.
MCPastTheCut == {<<1, 2>>}

\* The tables that have a foreign key or are the parent of one.
MCTables == {k.table : k \in Foreign!AllKeys} \cup {k.parent : k \in Foreign!AllKeys}

\* The graphs at the start: the deals are of the two persons, with n3; of two graphs
\* that differ in which person is n1, one is enough.
FewGraphs ==
    /\ \A e \in edges : e.deal => e.s \in {"n1", "n2"} /\ e.o = "n3"
    /\ Cardinality({e \in edges : e.s = "n1"}) >= Cardinality({e \in edges : e.s = "n2"})

\* The one campaign's client and team; the other has any.
OneTeam == campaign["c1"].client = "g1" /\ campaign["c1"].team = "t1"

MCInit ==
    /\ ServicesInit
    /\ In("traversal") => FewGraphs
    /\ In("knowledge") => OneTeam
MCSpec == MCInit /\ [][ServicesNext]_<<which, vars, slots>> /\ ServicesFairness
=============================================================================
