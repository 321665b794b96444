---------------------------- MODULE ServiceState ----------------------------
(***************************************************************************)
(* What the services that share no state with one another are put together *)
(* from: their constants, and ten slots for their variables.  A behaviour  *)
(* is one of a single service, so the services take turns using the slots; *)
(* a name stands for the same slot in every service that has it.           *)
(***************************************************************************)
EXTENDS Integers, Sequences, FiniteSets

CONSTANTS
    \* who and what there is
    Users, Members, SharedWith, Teams, TeamOfNone, Master, Instances, NoInstance,
    Callers, Nested, NoCaller, Askers, Requests, NoOne, NoId, Clients, NoClient, Nobody,
    \* the rows they work on
    Monitors, Tasks, Jobs, Sessions, Comments, Campaigns, Programs, Items,
    AttributeLabels, Entities, ScoredAttributes, TextAttributes, Names, RowLabels, SchemaTables, Chats,
    Streams, Investigations, Queries, DocumentRows, MentionKeys, Forms, Blank, Scores, Certainties,
    Nodes, Persons, Sizes, Lengths,
    \* limits and intervals of the code
    Daily, Weekly, Limit, MaxHops, MaxPaths, RateLimit, SessionLimit, CallLimit, Parallel,
    Abreast, Concurrency, RowsPerChunk, PastTheCut, Budget, HistoryBudget, Keep, Warm, Target, Separator,
    Retries,
    \* bounds
    LastDay, MaxSessions, MonitorEdits, MaxAttribute, MaxSize, MaxAnswer, MaxDocs, MaxPolls,
    MaxRequests, MaxCalls, ScoreEdits, MaxRows, MaxStarts, RowsInAll, MaxRotations, MaxPools,
    MaxTurns, MaxTalkers, MaxMentions, MaxEdges, MaxChanges, MaxDay, MaxEdits, MaxParallel,
    MaxRounds, MaxQuestions, MaxPages, MaxFaults

VARIABLES v1, v2, v3, v4, v5, v6, v7, v8, v9, v10

slots == <<v1, v2, v3, v4, v5, v6, v7, v8, v9, v10>>

\* The variables of the services, by slot.
batches == v1
chunks == v1
entities == v1
faults == v1
history == v1

call == v2
changes == v2
job == v2
loop == v2
pc == v2
req == v2

campaign == v3
comment == v3
edges == v3
entries == v3
excused == v3
lock == v3
messages == v3
pages == v3
resolved == v3

assigned == v4
day == v4
deleted == v4
docs == v4
heard == v4
lost == v4
notes == v4
parts == v4
password == v4
query == v4
rows == v4
st == v4

answer == v5
attribute == v5
cache == v5
edits == v5
exists == v5
graph == v5
output == v5
past == v5
pool == v5
read == v5
requests == v5
retired == v5
store == v5

attributes == v6
cell == v6
cost == v6
expiries == v6
indexes == v6
known == v6
monitor == v6
people == v6
pools == v6
questions == v6
role == v6
taken == v6
window == v6

audit == v7
clock == v7
keys == v7
last == v7
published == v7
rounds == v7
session == v7
sessions == v7
stage == v7
teams == v7
use == v7

edited == v8
library == v8
secret == v8
starts == v8
task == v8
team == v8
upload == v8

entity == v9
program == v9
spent == v9

score == v10
templates == v10
=============================================================================
