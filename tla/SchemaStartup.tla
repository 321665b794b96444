----------------------------- MODULE SchemaStartup -----------------------------
(***************************************************************************)
(* init_schema (app/db/_schema.py): what every instance of the application *)
(* runs before it serves, under one advisory lock, while other instances   *)
(* serve.  Each execute is a transaction of its own; a statement that      *)
(* fails ends the startup and releases the lock.  The tables are those     *)
(* DatabaseSchema describes; here are the unique indexes and constraints   *)
(* that are dropped, made again and made stricter at every start.  The     *)
(* tables of a campaign and those of the libraries go through the same     *)
(* steps one after the other, delete the duplicates, drop the unique       *)
(* indexes, create them: "campaign" and "library" stand for one of each.   *)
(***************************************************************************)
EXTENDS Naturals, Sequences, FiniteSets

CONSTANTS
    Instances,  \* processes of the application
    Teams,      \* teams other than the master team
    Master,     \* settings.kg_master_team_id
    NoTeam,     \* a NULL team_id
    Names,      \* names of graph entities, LOWER(name)
    Labels,     \* labels of rows, LOWER(label); rows of different labels never meet
    NoInstance, \* nobody holds the advisory lock
    MaxRows,    \* a bound: rows of each table
    MaxStarts,  \* a bound: how often an instance is started
    MaxFaults   \* a bound: connections and instances that die

VARIABLES
    rows,     \* of each labelled table: creation order -> label, for the rows that exist
    graph,    \* playbook.kg_entities: id, name and team
    indexes,  \* the unique indexes and constraints in force
    lock,     \* who holds pg_advisory_lock(8675309)
    pc,       \* where each instance is
    last,     \* how the last startup that held the lock ended
    starts, faults

startupVars == <<rows, graph, indexes, lock, pc, last, starts, faults>>

Tables == {"campaign", "library"}
Stored == [id : 1..MaxRows, name : Names, team : Teams \cup {Master, NoTeam}]
\* What is done for each of the tables, one after the other.
Dedup == [t \in Tables |-> IF t = "campaign" THEN "dedup campaign" ELSE "dedup library"]
Drop == [t \in Tables |-> IF t = "campaign" THEN "drop campaign" ELSE "drop library"]
Create == [t \in Tables |-> IF t = "campaign" THEN "create campaign" ELSE "create library"]
Steps == {"tables", "dedup campaign", "drop campaign", "create campaign", "dedup library",
          "drop library", "create library", "merge", "own", "scope", "dropScoped", "dropNames",
          "scopeNames", "dropFamily", "constrain", "require"}

\* A database of the first version: labels that differ by case alone, graph entities
\* without a team.
NoRows == <<>>
Init ==
    /\ \E old \in {NoRows} \cup {<<l, l>> : l \in Labels} : rows = [t \in Tables |-> IF t = "campaign" THEN old ELSE NoRows]
    /\ graph \in {{}} \cup {{[id |-> 1, name |-> n, team |-> NoTeam]} : n \in Names}
    /\ indexes = {}
    /\ lock = NoInstance /\ pc = [i \in Instances |-> "down"]
    /\ last = "none"
    /\ starts = 0 /\ faults = 0

\* The unique indexes of the graph: over LOWER(name) it is "names", over (LOWER(name),
\* team_id) it is "scoped", or "coalesced" in its first form, with a sentinel for NULL.
NamesDiffer(g) == \A p, q \in g : p.name = q.name => p = q
NamesDifferByTeam(g) == \A p, q \in g : p.name = q.name /\ p.team = q.team => p = q
LabelsDiffer(r) == \A i, j \in DOMAIN r : r[i] = r[j] => i = j

\* await pg_advisory_lock
Start(i) ==
    /\ pc[i] = "down" /\ starts < MaxStarts
    /\ starts' = starts + 1
    /\ pc' = [pc EXCEPT ![i] = "waiting"]
    /\ UNCHANGED <<rows, graph, indexes, lock, last, faults>>

\* Mutant: no advisory lock, two startups run at once.
LockNothing(i) ==
    /\ pc[i] = "waiting"
    /\ lock' = i /\ last' = "started"
    /\ pc' = [pc EXCEPT ![i] = "tables"]
    /\ UNCHANGED <<rows, graph, indexes, starts, faults>>

Lock(i) ==
    /\ pc[i] = "waiting" /\ lock = NoInstance
    /\ lock' = i /\ last' = "started"
    /\ pc' = [pc EXCEPT ![i] = "tables"]
    /\ UNCHANGED <<rows, graph, indexes, starts, faults>>

Runs(i, from, to) ==
    /\ pc[i] = from
    /\ pc' = [pc EXCEPT ![i] = to]
    /\ UNCHANGED <<lock, last, starts, faults>>

\* finally: the lock is released; the exception leaves startup() and the process exits.
Fails(i, from) ==
    /\ pc[i] = from
    /\ pc' = [pc EXCEPT ![i] = "down"]
    /\ lock' = NoInstance /\ last' = "failed"
    /\ UNCHANGED <<rows, graph, indexes, starts, faults>>

\* The first execute, one transaction: CREATE UNIQUE INDEX IF NOT EXISTS over the names of
\* all teams, and the family index.
CreateTables(i) ==
    /\ NamesDiffer(graph) \/ "names" \in indexes
    /\ Runs(i, "tables", "dedup campaign")
    /\ indexes' = indexes \cup {"names", "family"}
    /\ UNCHANGED <<rows, graph>>
CreateTablesFails(i) == ~NamesDiffer(graph) /\ "names" \notin indexes /\ Fails(i, "tables")

\* ROW_NUMBER() OVER (PARTITION BY label ORDER BY created_at): the oldest row stays.
Kept(r) == {i \in DOMAIN r : \A j \in DOMAIN r : r[j] = r[i] => i <= j}
DeleteDuplicates(i, t) ==
    /\ Runs(i, Dedup[t], Drop[t])
    /\ rows' = [rows EXCEPT ![t] = [j \in Kept(@) |-> @[j]]]
    /\ UNCHANGED <<graph, indexes>>
DropLabels(i, t) ==
    /\ Runs(i, Drop[t], Create[t])
    /\ indexes' = indexes \ {t}
    /\ UNCHANGED <<rows, graph>>
CreateLabels(i, t) ==
    /\ LabelsDiffer(rows[t])
    /\ Runs(i, Create[t], IF t = "campaign" THEN "dedup library" ELSE "merge")
    /\ indexes' = indexes \cup {t}
    /\ UNCHANGED <<rows, graph>>
CreateLabelsFails(i, t) == ~LabelsDiffer(rows[t]) /\ Fails(i, Create[t])

\* Task 2.1: the entities of one name without a team become one of them.
\* Tasks 2.2 to 2.5: what has no team goes to the master team.
MergeUnowned(i) ==
    /\ Runs(i, "merge", "own")
    /\ \E kept \in SUBSET {p \in graph : p.team = NoTeam} :
        /\ NamesDiffer(kept)
        /\ {p.name : p \in kept} = {p.name : p \in {q \in graph : q.team = NoTeam}}
        /\ graph' = {p \in graph : p.team # NoTeam} \cup kept
    /\ UNCHANGED <<rows, indexes>>
Owned(g) == {[p EXCEPT !.team = IF @ = NoTeam THEN Master ELSE @] : p \in g}
OwnUnowned(i) ==
    /\ Runs(i, "own", "scope")
    /\ graph' = Owned(graph)
    /\ UNCHANGED <<rows, indexes>>

\* The DO block: only where there is no scoped index yet, in its first form.  Until then
\* "names" is in force, so that it never fails to build.
ScopeNames(i) ==
    /\ Runs(i, "scope", "dropScoped")
    /\ indexes' = IF indexes \cap {"scoped", "coalesced"} # {} THEN indexes
                  ELSE (indexes \ {"names"}) \cup {"coalesced"}
    /\ UNCHANGED <<rows, graph>>
\* Tasks 3.1 and 3.2: both are dropped, one after the other, then the scoped index is made
\* without the sentinel.  Until it is, a serving instance may give two entities of a team
\* one name, and the statement fails.
DropScoped(i) ==
    /\ Runs(i, "dropScoped", "dropNames")
    /\ indexes' = indexes \ {"scoped", "coalesced"}
    /\ UNCHANGED <<rows, graph>>
DropNames(i) ==
    /\ Runs(i, "dropNames", "scopeNames")
    /\ indexes' = indexes \ {"names"}
    /\ UNCHANGED <<rows, graph>>
ScopeByTeam(i) ==
    /\ NamesDifferByTeam(graph)
    /\ Runs(i, "scopeNames", "dropFamily")
    /\ indexes' = indexes \cup {"scoped"}
    /\ UNCHANGED <<rows, graph>>
ScopeByTeamFails(i) == ~NamesDifferByTeam(graph) /\ Fails(i, "scopeNames")
\* Tasks 3.3 to 3.7: the family index with the team, the check on endpoints, RESTRICT.
SwapFamily(i) ==
    /\ Runs(i, "dropFamily", "constrain")
    /\ indexes' = (indexes \ {"family"}) \cup {"teamFamily"}
    /\ UNCHANGED <<rows, graph>>
Constrain(i) ==
    /\ Runs(i, "constrain", "require")
    /\ indexes' = indexes \cup {"intraTeam", "restrict"}
    /\ UNCHANGED <<rows, graph>>
\* Task 3.8, the chat tables, and pg_advisory_unlock.
Require(i) ==
    /\ pc[i] = "require"
    /\ pc' = [pc EXCEPT ![i] = "serving"]
    /\ indexes' = indexes \cup {"teamRequired"}
    /\ lock' = NoInstance /\ last' = "done"
    /\ UNCHANGED <<rows, graph, starts, faults>>

\* The process or its connection dies; the server ends the session and its lock.
Crash(i) ==
    /\ pc[i] # "down" /\ faults < MaxFaults
    /\ faults' = faults + 1
    /\ pc' = [pc EXCEPT ![i] = "down"]
    /\ lock' = IF lock = i THEN NoInstance ELSE lock
    /\ last' = IF lock = i THEN "failed" ELSE last
    /\ UNCHANGED <<rows, graph, indexes, starts>>

\* A serving instance adds a labelled row.
Newest(r) == CHOOSE n \in {0} \cup DOMAIN r : \A m \in DOMAIN r : m <= n
AddRow(i, t, l) ==
    /\ pc[i] = "serving" /\ Cardinality(DOMAIN rows[t]) < MaxRows
    /\ t \in indexes => \A j \in DOMAIN rows[t] : rows[t][j] # l
    /\ rows' = [rows EXCEPT ![t] =
                   [j \in DOMAIN @ \cup {Newest(@) + 1} |-> IF j \in DOMAIN @ THEN @[j] ELSE l]]
    /\ UNCHANGED <<graph, indexes, lock, pc, last, starts, faults>>
\* What the unique indexes in force let in beside the rows g.
Fits(p, g) ==
    /\ "names" \in indexes => \A q \in g : q.name # p.name
    /\ indexes \cap {"scoped", "coalesced"} # {} => \A q \in g : q.name # p.name \/ q.team # p.team

\* INSERT ... ON CONFLICT (LOWER(name), team_id): refused while no such index is there.
AddEntity(i, n, t) ==
    /\ pc[i] = "serving" /\ "scoped" \in indexes /\ Cardinality(graph) < MaxRows
    /\ \E k \in 1..MaxRows :
         LET new == [id |-> k, name |-> n, team |-> t] IN
         /\ \A q \in graph : q.id # k
         /\ Fits(new, graph)
         /\ graph' = graph \cup {new}
    /\ UNCHANGED <<rows, indexes, lock, pc, last, starts, faults>>

\* UPDATE ... SET name, of a request or of a synchronisation with the master's entity.
RenameEntity(i, p, n) ==
    /\ pc[i] = "serving" /\ p \in graph /\ p.team # NoTeam
    /\ Fits([p EXCEPT !.name = n], graph \ {p})
    /\ graph' = (graph \ {p}) \cup {[p EXCEPT !.name = n]}
    /\ UNCHANGED <<rows, indexes, lock, pc, last, starts, faults>>

StartupStep(i) ==
    \/ Start(i)
    \/ Lock(i)
    \/ CreateTables(i) \/ CreateTablesFails(i)
    \/ \E t \in Tables : \/ DeleteDuplicates(i, t)
                        \/ DropLabels(i, t)
                        \/ CreateLabels(i, t)
                        \/ CreateLabelsFails(i, t)
    \/ MergeUnowned(i) \/ OwnUnowned(i)
    \/ ScopeNames(i) \/ DropScoped(i) \/ DropNames(i) \/ ScopeByTeam(i) \/ ScopeByTeamFails(i)
    \/ SwapFamily(i) \/ Constrain(i) \/ Require(i)
    \/ Crash(i)
    \/ \E t \in Tables, l \in Labels : AddRow(i, t, l)
    \/ \E n \in Names, t \in Teams : AddEntity(i, n, t)
    \/ \E n \in Names, p \in graph : RenameEntity(i, p, n)

Next == \E i \in Instances : StartupStep(i)
Spec == Init /\ [][Next]_startupVars

-----------------------------------------------------------------------------
TypeOK ==
    /\ \A t \in Tables : /\ DOMAIN rows[t] \subseteq Nat \ {0}
                          /\ \A j \in DOMAIN rows[t] : rows[t][j] \in Labels
    /\ graph \subseteq Stored /\ \A p, q \in graph : p.id = q.id => p = q
    /\ indexes \subseteq Tables \cup {"names", "coalesced", "scoped", "family", "teamFamily",
                                      "intraTeam", "restrict", "teamRequired"}
    /\ lock \in Instances \cup {NoInstance}
    /\ \A i \in Instances : /\ pc[i] \in Steps \cup {"down", "waiting", "serving"}
                             /\ pc[i] \in Steps <=> lock = i
    /\ last \in {"none", "started", "failed", "done"}
    /\ starts \in 0..MaxStarts /\ faults \in 0..MaxFaults

\* While no startup holds the lock and the last that held it succeeded, every unique index
\* and constraint is in force and the data meets them, whatever the serving instances and
\* startups that failed or died did meanwhile; and neither the migration to the master
\* team nor the first scoped index ever meets two entities of one name (_schema.py:773-806,
\* 965-980).  Nothing is said of a startup that fails: the index it could not make stays
\* away, and as long as the names are there it fails again.
LastStartHolds ==
    /\ last = "done" =>
        /\ Tables \cup {"scoped", "teamFamily", "intraTeam", "restrict", "teamRequired"} \subseteq indexes
        /\ \A t \in Tables : LabelsDiffer(rows[t])
        /\ NamesDifferByTeam(graph) /\ \A p \in graph : p.team # NoTeam
    /\ (\E i \in Instances : pc[i] \in {"own", "scope"}) => NamesDiffer(Owned(graph))

\* What _schema.py:1651 says, "Two teams MAY have entities with the same name": names that
\* teams share do not keep an instance from starting.
TeamsMayShareNames ==
    \A i \in Instances : pc[i] = "tables" => NamesDiffer(graph) \/ "names" \in indexes
================================================================================
