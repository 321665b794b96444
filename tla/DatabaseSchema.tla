---------------------------- MODULE DatabaseSchema ----------------------------
(***************************************************************************)
(* The tables of app/db/_schema.py as what refers to what, and what the    *)
(* deletion of a row does to the rows that refer to it, directly and       *)
(* through others: removes them, clears their column, or is refused.  The  *)
(* constraints are those in force after init_schema (SchemaStartup).  A    *)
(* row is its table, a number and the rows it refers to; what else a row   *)
(* holds is left to the modules of the components, and tables that neither *)
(* refer nor are referred to are left out.                                 *)
(***************************************************************************)
EXTENDS Naturals, Sequences, FiniteSets

CONSTANTS
    Tables,   \* the tables looked at
    KeysOfTable, \* of each of them, its foreign keys: those of AllKeys
    MaxRows   \* a bound: rows that are inserted and not deleted

VARIABLES
    rows  \* row -> column -> row or Null, for the rows that exist

\* A foreign key: rule "cascade", "clear" (SET NULL), "refuse" (NO ACTION) or "restrict";
\* given when the code that inserts the row always fills the column.
Fk(table, column, parent, rule, given) ==
    [table |-> table, column |-> column, parent |-> parent, rule |-> rule, given |-> given]
\* A column that is named after the table it refers to.
Part(table, parents) == {Fk(table, p, p, "cascade", TRUE) : p \in parents}
May(table, parent, rule) == {Fk(table, parent, parent, rule, FALSE)}
Must(table, parent, rule) == {Fk(table, parent, parent, rule, TRUE)}

\* Users, sessions, teams and their sharing.
SharingKeys ==
    Must("sessions", "users", "refuse") \cup May("sessions", "sessions", "clear")
    \cup Part("agent_memory", {"sessions"})
    \cup May("teams", "users", "refuse")
    \cup Part("team_members", {"teams", "users"})
    \cup Part("session_teams", {"sessions", "teams"})
    \cup Part("pinned_sessions", {"users", "sessions", "teams"})
    \cup Part("team_activity", {"teams"}) \cup Must("team_activity", "users", "refuse")

TalkKeys ==
    Part("comments", {"sessions"}) \cup Must("comments", "users", "refuse")
    \cup May("comments", "comments", "refuse") \cup May("comments", "teams", "clear")
    \cup Part("notifications", {"users"})
    \cup Part("comment_reactions", {"comments", "users"})
    \cup Part("session_subscriptions", {"sessions", "users"})
    \cup Part("session_presence", {"sessions", "users"})

\* Mutant: a result does not go with its job.
ResultsRefuse ==
    May("campaigns", "teams", "clear") \cup May("programs", "teams", "clear")
    \cup Part("entities", {"campaigns"}) \cup Part("attributes", {"campaigns"})
    \cup Part("validation_jobs", {"campaigns"})
    \cup Part("validation_results", {"entities"}) \cup Must("validation_results", "attributes", "restrict")
    \cup Part("entity_scores", {"entities", "campaigns"})

\* Campaigns, what is validated in them, and what validation finds.
CampaignKeys ==
    May("campaigns", "teams", "clear") \cup May("programs", "teams", "clear")
    \cup Part("entities", {"campaigns"}) \cup Part("attributes", {"campaigns"})
    \cup Part("validation_jobs", {"campaigns"})
    \cup Part("validation_results", {"validation_jobs", "entities", "attributes"})
    \cup Part("entity_scores", {"entities", "campaigns"})

QueueKeys ==
    {Fk("job_queue", "parent", "job_queue", "clear", FALSE),
     Fk("job_queue", "root", "job_queue", "clear", FALSE)}
    \cup May("job_queue", "validation_jobs", "cascade")

MatrixKeys ==
    Part("campaign_status_audit", {"campaigns"}) \cup Part("attribute_clusters", {"campaigns"})
    \cup Part("entity_external_ids", {"entities"})
    \cup Part("user_preferences", {"users"}) \cup May("user_preferences", "campaigns", "cascade")
    \cup Part("program_campaigns", {"programs", "campaigns"})
    \cup Part("entity_attribute_assignments", {"campaigns", "entities", "attributes"})
    \cup Part("campaign_attributes", {"campaigns", "attributes"})
    \cup Part("metadata_schemas", {"teams"})

HistoryKeys ==
    Part("entity_attribute_value_history", {"campaigns", "entities", "attributes"})
    \cup May("entity_attribute_value_history", "teams", "clear")

LibraryKeys ==
    Part("attribute_templates", {"users"}) \cup May("attribute_templates", "teams", "cascade")
    \cup Part("entity_library", {"users"}) \cup May("entity_library", "teams", "clear")
    \cup Part("attribute_library", {"users"}) \cup May("attribute_library", "teams", "clear")

\* The knowledge graph, its chat and the cached knowledge.
GraphKeys ==
    Must("kg_entities", "teams", "restrict") \cup May("kg_entities", "kg_entities", "clear")
    \cup {Fk("kg_relationships", "subject", "kg_entities", "cascade", TRUE),
          Fk("kg_relationships", "object", "kg_entities", "cascade", TRUE),
          Fk("kg_relationship_conflicts", "old", "kg_relationships", "refuse", TRUE),
          Fk("kg_relationship_conflicts", "new", "kg_relationships", "refuse", TRUE)}
    \cup Must("kg_relationships", "teams", "restrict")
    \cup Must("kg_relationship_conflicts", "teams", "refuse")
    \cup May("entity_attribute_knowledge", "teams", "clear")

ReviewKeys ==
    Part("kg_entity_flags", {"kg_entities", "teams"}) \cup May("kg_entity_flags", "users", "refuse")
    \cup Must("kg_promotions", "teams", "refuse") \cup Must("kg_promotions", "kg_entities", "refuse")

ChatKeys == Part("kg_chat_sessions", {"teams"}) \cup Part("kg_chat_messages", {"kg_chat_sessions"})

AllKeys == UNION {SharingKeys, TalkKeys, CampaignKeys, QueueKeys, MatrixKeys, HistoryKeys,
                  LibraryKeys, GraphKeys, ReviewKeys, ChatKeys}
KeysOf(table) == KeysOfTable[table]

\* Tables of which a second row matters: rows that refer to each other.
Copies(table) == IF table \in {"sessions", "comments", "kg_entities"} THEN 2 ELSE 1
Table(row) == row[1]
Null == <<>>  \* a column without a value
Rows == DOMAIN rows

Init == rows = [r \in {} |-> Null]

\* The columns a new row may have.  kg_rel_intra_team_check: two endpoints of the team.
Choices(k) == {r \in Rows : Table(r) = k.parent} \cup IF k.given THEN {} ELSE {Null}
Columns(table) ==
    {f \in [{k.column : k \in KeysOf(table)} -> Rows \cup {Null}] :
        \A k \in KeysOf(table) : f[k.column] \in Choices(k)}
MayStand(table, f) ==
    table = "kg_relationships" =>
        /\ f.subject # f.object
        /\ \A end \in {f.subject, f.object} : rows[end].teams = f.teams
With(table, f, n) == [r \in Rows \cup {<<table, n>>} |-> IF r = <<table, n>> THEN f ELSE rows[r]]

\* capture_assignment_history, after an insertion or an update of a cell.
History == "entity_attribute_value_history"
HistoryRow(f) ==
    [campaigns |-> f.campaigns, entities |-> f.entities, attributes |-> f.attributes,
     teams |-> rows[f.campaigns].teams]

Insert(table) ==
    /\ table # History /\ Cardinality(Rows) < MaxRows
    /\ \E n \in 1..Copies(table), f \in Columns(table) :
        /\ <<table, n>> \notin Rows /\ \A m \in 1..(n - 1) : <<table, m>> \in Rows
        /\ MayStand(table, f)
        /\ rows' = IF table = "entity_attribute_assignments"
                     THEN [r \in Rows \cup {<<table, n>>, <<History, 1>>} |->
                              IF r = <<table, n>> THEN f
                              ELSE IF r = <<History, 1>> THEN HistoryRow(f) ELSE rows[r]]
                     ELSE With(table, f, n)

\* The rows that go with a row: those that cascade to it, to these, and so on.
Beneath(set) ==
    {r \in Rows : \E k \in KeysOf(Table(r)) : k.rule = "cascade" /\ rows[r][k.column] \in set}
Removed(row) ==
    LET within[n \in 0..Cardinality(Rows)] ==
            IF n = 0 THEN {row} ELSE within[n - 1] \cup Beneath(within[n - 1])
    IN  within[Cardinality(Rows)]
Refused(row) ==
    LET gone == Removed(row)
    IN  \E r \in Rows : \E k \in KeysOf(Table(r)) :
            /\ rows[r][k.column] \in gone
            /\ k.rule = "restrict" \/ (k.rule = "refuse" /\ r \notin gone)

\* The tables the program deletes from.
Deletable ==
    {"sessions", "session_subscriptions", "teams", "team_members", "session_teams",
     "pinned_sessions", "comments", "comment_reactions", "campaigns", "entities", "attributes",
     "campaign_attributes", "attribute_clusters", "entity_attribute_assignments",
     "entity_external_ids", "entity_library", "attribute_library", "attribute_templates",
     "programs", "program_campaigns", "kg_entities", "kg_relationships", "kg_chat_sessions"}

Delete(row) ==
    /\ Table(row) \in Deletable
    /\ ~Refused(row)
    /\ LET gone == Removed(row)
           cleared(r) == {k.column : k \in {k \in KeysOf(Table(r)) :
                                               k.rule = "clear" /\ rows[r][k.column] \in gone}}
       IN  rows' = [r \in Rows \ gone |->
                       [c \in DOMAIN rows[r] |-> IF c \in cleared(r) THEN Null ELSE rows[r][c]]]
\* A violated foreign key: the statement fails and nothing changes.
DeleteFails(row) == Table(row) \in Deletable /\ Refused(row) /\ UNCHANGED rows

Next ==
    \/ \E t \in Tables : Insert(t)
    \/ \E r \in Rows : Delete(r) \/ DeleteFails(r)
Spec == Init /\ [][Next]_rows

-----------------------------------------------------------------------------
TypeOK ==
    \A r \in Rows :
        /\ Table(r) \in Tables /\ r[2] \in 1..Copies(Table(r))
        /\ DOMAIN rows[r] = {k.column : k \in KeysOf(Table(r))}
        /\ \A k \in KeysOf(Table(r)) : rows[r][k.column] \in Choices(k)

\* What the delete endpoints rely on: apart from teams, graph entities, relationships and
\* comments with replies, no row, however much has come to refer to it, refuses to be
\* deleted; a session refuses only where a comment of another session answers one of its own.
DeletesSucceed ==
    \A r \in Rows :
        /\ Table(r) \in Deletable \ {"teams", "kg_entities", "kg_relationships", "comments",
                                      "sessions"} => ~Refused(r)
        /\ Table(r) = "sessions" /\ Refused(r) =>
               \E a, b \in Rows : /\ Table(a) = "comments" /\ Table(b) = "comments"
                                  /\ rows[b].comments = a
                                  /\ rows[a].sessions # rows[b].sessions

\* A cell of the matrix has its history as long as it exists, whatever teams, entities or
\* programs are deleted meanwhile.
CellsKeepTheirHistory ==
    \A r \in Rows : Table(r) = "entity_attribute_assignments" =>
        \E h \in Rows : /\ Table(h) = History
                        /\ \A c \in DOMAIN rows[r] : rows[h][c] = rows[r][c]
================================================================================
