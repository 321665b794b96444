--------------------------- MODULE GraphTraversal ---------------------------
(***************************************************************************)
(* The queries that walk a team's knowledge graph (agent/kg_tools.py and   *)
(* the read side of db/knowledge_graph.py), while the graph is written.    *)
(*                                                                         *)
(* A query is one or several statements, each seeing the graph as it is    *)
(* when it runs.  find_connections is a recursive query over the directed  *)
(* relationships and then a lookup of the rows of its paths;               *)
(* explore_neighborhood reads one hop after another and then the nodes;    *)
(* db_get_neighbors does the same walk in one recursive query; db_query_kg *)
(* finds entities and then what touches them; db_get_kg_graph, the         *)
(* relationships of one entity and the deal partners are one statement.    *)
(*                                                                         *)
(* A relationship is [s, o, deal], active unless it is in retired; deal    *)
(* tells the transaction family from the others.                           *)
(***************************************************************************)
EXTENDS Integers, Sequences, FiniteSets, SequencesExt

CONSTANTS Nodes,       \* entities of the team
          Persons,     \* those of them of type person
          MaxHops,     \* the largest max_hops or depth asked for
          MaxPaths,    \* LIMIT 5 of find_connections
          Limit,       \* the row limit of the other queries
          MaxEdges,    \* bound: relationships at the start
          MaxChanges   \* bound: writes while a query runs

VARIABLES entities,  \* the entities there are
          edges,     \* the relationship rows
          retired,   \* those that are no longer active
          query,     \* the running query, or what it answered
          changes    \* writes so far

traversalVars == <<entities, edges, retired, query, changes>>

Edges == {e \in [s: Nodes, o: Nodes, deal: BOOLEAN] : e.s # e.o}
Active == edges \ retired
Touches(e, s) == e.s \in s \/ e.o \in s
Touching(es, s) == {e \in es : Touches(e, s)}
Incident(s) == Touching(Active, s)
Ends(es) == {e.s : e \in es} \cup {e.o : e \in es}
Shortest(a, b) == IF a < b THEN a ELSE b

(* The sets LIMIT n may leave of s: the first by some order in which       *)
(* Before(x, y) holds.                                                     *)
Limited(s, n, Before(_, _)) ==
    {t \in SUBSET s : /\ Cardinality(t) = Shortest(n, Cardinality(s))
                      /\ \A x \in t, y \in s \ t : ~Before(y, x)}
AnyOrder(x, y) == FALSE

Idle == [at |-> "idle"]

TypeOK ==
    /\ entities \subseteq Nodes
    /\ retired \subseteq edges /\ edges \subseteq Edges
    /\ Ends(edges) \subseteq entities
    /\ query.at \in {"idle", "paths", "hops", "found", "answered"}
    /\ changes \in 0..MaxChanges

Init == /\ entities = Nodes
        /\ edges \in {s \in SUBSET Edges : Cardinality(s) <= MaxEdges}
        /\ retired \in {{}} \cup {{e} : e \in edges}
        /\ query = Idle
        /\ changes = 0

Asks(q) == query' = q /\ UNCHANGED <<entities, edges, retired, changes>>
Answers(op, input, nodes, result, whole) ==
    Asks([at |-> "answered", op |-> op, input |-> input, nodes |-> nodes, result |-> result,
          whole |-> whole,
          still |-> query.at = "idle" \/ query.since = changes])

-----------------------------------------------------------------------------
(* find_connections.  A row of the recursion is the relationships walked;  *)
(* one that would leave an entity a second time is not expanded, the       *)
(* entity arrived at is not looked at.                                     *)
MayExpand(hops, max) == hops < max
Left(path) == {path[i].s : i \in DOMAIN path}
NextRows(es, rows) ==
    {Append(x[1], x[2]) : x \in {y \in rows \X es : /\ Last(y[1]).o = y[2].s
                                                   /\ y[2].s \notin Left(y[1])}}
PathRows(es, source, max) ==
    LET rows[h \in 1..max + 1] ==
            IF h = 1 THEN {<<e>> : e \in {d \in es : d.s = source}}
            ELSE IF MayExpand(h - 1, max) THEN NextRows(es, rows[h - 1]) ELSE {}
    IN  rows
Search(source, max) ==
    LET rows == PathRows(Active, source, max)
    IN  UNION {rows[h] : h \in 1..max + 1}

FindConnections(source, target, max) ==
    /\ query = Idle /\ source # target
    /\ LET rows == {p \in Search(source, max) : Last(p).o = target}
       IN  \E paths \in Limited(rows, MaxPaths, LAMBDA p, q : Len(p) < Len(q)) :
             IF rows = {}
             THEN Answers("paths", [from |-> source, to |-> target, max |-> max], {}, {}, TRUE)
             ELSE Asks([at |-> "paths", input |-> [from |-> source, to |-> target, max |-> max],
                        paths |-> paths, since |-> changes])

(* The rows of the paths are read by id: what was deleted meanwhile is     *)
(* left out of the middle of its path.                                     *)
NodesOfPath(p) == [i \in 1..Len(p) + 1 |-> IF i <= Len(p) THEN p[i].s ELSE Last(p).o]
StillThere(s, known) ==
    LET places == {i \in DOMAIN s : s[i] \in known}
        place(k) == CHOOSE i \in places : Cardinality({j \in places : j <= i}) = k
    IN  [k \in 1..Cardinality(places) |-> s[place(k)]]
LookUpPaths ==
    /\ query.at = "paths"
    /\ Answers("paths", query.input, {},
               {[hops |-> Len(p),
                 nodes |-> StillThere(NodesOfPath(p), entities),
                 rels |-> StillThere(p, edges)] : p \in query.paths}, TRUE)

-----------------------------------------------------------------------------
(* explore_neighborhood: the centre, then one statement for each hop, then *)
(* the nodes.                                                              *)
Explore(center, depth) ==
    /\ query = Idle /\ center \in entities
    /\ Asks([at |-> "hops", input |-> [center |-> center, depth |-> depth], left |-> depth,
             visited |-> {center}, frontier |-> {center}, edges |-> {}, whole |-> TRUE,
             since |-> changes])

HopsOf(s) == Incident(s)
ExploreHop ==
    /\ query.at = "hops" /\ query.left > 0 /\ query.frontier # {}
    /\ \E rows \in Limited(HopsOf(query.frontier), Limit, AnyOrder) :
          Asks([query EXCEPT !.left = @ - 1, !.edges = @ \cup rows, !.visited = @ \cup Ends(rows),
                             !.frontier = Ends(rows) \ query.visited,
                             !.whole = @ /\ rows = HopsOf(query.frontier)])

ExploreNodes ==
    /\ query.at = "hops" /\ (query.left = 0 \/ query.frontier = {})
    /\ Answers("explore", query.input, query.visited \cap entities, query.edges, query.whole)

(* db_get_neighbors: the recursion follows any relationship of the entity  *)
(* arrived at but the one it came by, a row for each walk; a relationship  *)
(* is kept with its fewest hops, and the limit takes them by their id.     *)
OtherEnd(e, n) == IF e.s = n THEN e.o ELSE e.s
Walks(es, center, depth) ==
    LET walk[h \in 1..depth] ==
            IF h = 1 THEN {[rel |-> e, to |-> OtherEnd(e, center), hop |-> 1] : e \in Touching(es, {center})}
            ELSE {[rel |-> x[1], to |-> OtherEnd(x[1], x[2].to), hop |-> h] :
                     x \in {y \in es \X walk[h - 1] : Touches(y[1], {y[2].to}) /\ y[1] # y[2].rel}}
    IN  walk
Arrivals(center, depth) ==
    LET walk == Walks(Active, center, depth) IN UNION {walk[h] : h \in 1..depth}
Neighbors(center, depth, excluded) ==
    /\ query = Idle
    /\ LET kept == {w \in Arrivals(center, depth) : w.to \notin excluded}
           near == {w \in kept : \A v \in kept : v.rel = w.rel => w.hop <= v.hop}
           rels == {[rel |-> w.rel, hop |-> w.hop] : w \in near}
       IN  \E rows \in Limited(rels, Limit, AnyOrder) :
             Answers("neighbors", [center |-> center, depth |-> depth, excluded |-> excluded],
                     {}, rows, rows = rels)

-----------------------------------------------------------------------------
(* db_query_kg: the entities whose text matches, then what touches them.   *)
FindEntities(matching) ==
    /\ query = Idle
    /\ \E found \in Limited(matching \cap entities, Limit, AnyOrder) :
          IF found = {} THEN Answers("query", [of |-> {}], {}, {}, TRUE)
          ELSE Asks([at |-> "found", found |-> found, since |-> changes])
FindRelationships ==
    /\ query.at = "found"
    /\ \E rows \in Limited(Incident(query.found), Limit, AnyOrder) :
          Answers("query", [of |-> query.found], query.found, rows, rows = Incident(query.found))

(* get_entity_relationships: one direction or both.                        *)
Relationships(entity, direction) ==
    /\ query = Idle /\ entity \in entities
    /\ LET all == {e \in Active : \/ direction # "incoming" /\ e.s = entity
                                  \/ direction # "outgoing" /\ e.o = entity}
       IN  \E rows \in Limited(all, Limit, AnyOrder) :
             Answers("relationships", [entity |-> entity, direction |-> direction], {entity}, rows, rows = all)

(* db_get_kg_graph: the relationships of the busiest entities first.       *)
Degree(n) == Cardinality(Incident({n}))
Busier(e, f) ==
    LET most(x) == IF Degree(x.s) > Degree(x.o) THEN Degree(x.s) ELSE Degree(x.o)
    IN  most(e) > most(f)
ReadGraph(types) ==
    /\ query = Idle
    /\ LET all == Incident(types)
       IN  \E rows \in Limited(all, Limit, Busier) :
             Answers("graph", [of |-> types], Ends(rows), rows, rows = all)

(* db_get_deal_partners: two persons with a deal to the same entity, the   *)
(* pair once.                                                              *)
DealPartners ==
    /\ query = Idle
    /\ LET deals == {e \in Active : e.deal /\ e.s \in Persons}
       IN  Answers("partners", [of |-> {}], {}, {[pair |-> {x[1].s, x[2].s}, of |-> x[1].o] :
                       x \in {y \in deals \X deals : y[1].o = y[2].o /\ y[1].s # y[2].s}}, TRUE)

(* The graph is written while a query runs (KnowledgeGraph has the calls): *)
(* an entity goes with its relationships, one is added, deleted or         *)
(* superseded.                                                             *)
Write ==
    /\ changes < MaxChanges /\ query.at \in {"paths", "hops", "found"} /\ changes' = changes + 1
    /\ \/ \E n \in entities : /\ entities' = entities \ {n}
                              /\ edges' = {e \in edges : ~Touches(e, {n})}
                              /\ retired' = retired \cap edges'
       \/ \E e \in Edges \ edges : /\ Ends({e}) \subseteq entities /\ edges' = edges \cup {e}
                                   /\ UNCHANGED <<entities, retired>>
       \/ \E e \in edges : /\ edges' = edges \ {e} /\ retired' = retired \ {e}
                           /\ UNCHANGED entities
       \/ \E e \in Active : retired' = retired \cup {e} /\ UNCHANGED <<entities, edges>>
    /\ UNCHANGED query

Next == \/ \E a, b \in Nodes, h \in 1..MaxHops : FindConnections(a, b, h)
        \/ LookUpPaths
        \/ \E a \in Nodes, h \in 1..MaxHops : Explore(a, h)
        \/ ExploreHop
        \/ ExploreNodes
        \/ \E a \in Nodes, h \in 1..MaxHops : \E x \in {{}} \cup {{n} : n \in Nodes} : Neighbors(a, h, x)
        \/ \E m \in SUBSET Nodes : FindEntities(m) \/ ReadGraph(m)
        \/ FindRelationships
        \/ \E a \in Nodes, d \in {"outgoing", "incoming", "both"} : Relationships(a, d)
        \/ DealPartners
        \/ Write

Spec == Init /\ [][Next]_traversalVars

-----------------------------------------------------------------------------
(* Reference definitions: what is within k steps of an entity, along the   *)
(* relationships and whatever their direction.                             *)
Balls(es, n, k) ==
    LET ball[i \in 0..k] ==
            IF i = 0 THEN {n} ELSE ball[i - 1] \cup {e.o : e \in {d \in es : d.s \in ball[i - 1]}}
    IN  ball
Within(es, n, k) == Balls(es, n, k)[k]
Hoods(es, n, k) ==
    LET ball[i \in 0..k] == IF i = 0 THEN {n} ELSE ball[i - 1] \cup Ends(Touching(es, ball[i - 1]))
    IN  ball
Around(es, n, k) == Hoods(es, n, k)[k]

(* A path is found when there is one within the hops asked for, the first  *)
(* is as short as any, and each leads from the source to the target.       *)
PathsAreRight(es, i, paths) ==
    /\ paths # {} <=> i.to \in Within(es, i.from, i.max)
    /\ paths # {} => \E p \in paths : i.to \notin Within(es, i.from, p.hops - 1)
    /\ \A p \in paths : /\ Head(p.nodes) = i.from /\ Last(p.nodes) = i.to /\ p.hops <= i.max
                        /\ Len(p.rels) = p.hops /\ Len(p.nodes) = p.hops + 1
                        /\ \A k \in 1..p.hops : p.rels[k].s = p.nodes[k] /\ p.rels[k].o = p.nodes[k + 1]

(* The neighbourhood is what is around the centre, with what touches it    *)
(* but for its rim.                                                        *)
NeighbourhoodIsRight(es, i, nodes, rels) ==
    /\ nodes = Around(es, i.center, i.depth)
    /\ rels = Touching(es, Around(es, i.center, i.depth - 1))

(* Each of the same relationships is at the distance of its nearer end.    *)
HopsOfRel(es, center, depth, e) ==
    IF Touches(e, {center}) THEN 1
    ELSE CHOOSE k \in 2..depth : /\ Touches(e, Around(es, center, k - 1))
                                 /\ ~Touches(e, Around(es, center, k - 2))
DistancesAreRight(es, i, rels) ==
    rels = {[rel |-> e, hop |-> HopsOfRel(es, i.center, i.depth, e)] :
               e \in Touching(es, Around(es, i.center, i.depth - 1))}

(* On a graph that nobody wrote meanwhile, and unless a row limit was      *)
(* reached, the recursive queries answer what the reference definitions    *)
(* say: the paths, the neighbourhood read hop by hop, and the same         *)
(* neighbourhood read in one query.                                        *)
AnswersAreExact ==
    query.at = "answered" /\ query.still /\ query.whole =>
        /\ query.op = "paths" => PathsAreRight(Active, query.input, query.result)
        /\ query.op = "explore" =>
              NeighbourhoodIsRight(Active, query.input, query.nodes, query.result)
        /\ query.op = "neighbors" /\ query.input.excluded = {} =>
              DistancesAreRight(Active, query.input, query.result)
=============================================================================
