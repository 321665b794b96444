------------------------------ MODULE Services ------------------------------
(***************************************************************************)
(* The services put together: each behaviour is one of a single service,   *)
(* named by which.  The clocks of HeartbeatTiming have variables of their  *)
(* own.                                                                    *)
(***************************************************************************)
EXTENDS TeamServices, DocumentServices

CONSTANT Services  \* the services a run looks at

VARIABLE which

ASSUME ServicesAssumption ==
    /\ ClusterConstants /\ CacheConstants /\ CollabConstants /\ CatalogConstants /\ ScoreConstants
    /\ StartupConstants /\ SchemaConstants /\ PoolConstants /\ ChatConstants /\ ResearchConstants
    /\ QueryConstants /\ ResolverConstants /\ KnownConstants /\ SchedConstants /\ TalkConstants
    /\ BatchConstants /\ TraversalConstants

-----------------------------------------------------------------------------
ServicesInit ==
    /\ Init /\ which \in Services
    /\ \/ which = "timing" /\ v1 = 0 /\ v2 = 0 /\ v3 = 0 /\ v4 = 0 /\ v5 = 0
                           /\ v6 = 0 /\ v7 = 0 /\ v8 = 0 /\ v9 = 0 /\ v10 = 0
       \/ which = "scheduler" /\ Sched!Init /\ v9 = 0 /\ v10 = 0
       \/ which = "clusters" /\ Clusters!Init /\ v3 = 0 /\ v5 = 0 /\ v6 = 0 /\ v7 = 0 /\ v8 = 0 /\ v9 = 0 /\ v10 = 0
       \/ which = "cache" /\ Cache!Init /\ v7 = 0 /\ v8 = 0 /\ v9 = 0 /\ v10 = 0
       \/ which = "collaboration" /\ Collab!Init /\ v9 = 0 /\ v10 = 0
       \/ which = "catalog" /\ Catalog!Init
       \/ which = "scores" /\ Scoring!Init
       \/ which = "startup" /\ Startup!Init /\ v9 = 0 /\ v10 = 0
       \/ which = "schema" /\ Schema!Init /\ v1 = 0 /\ v2 = 0 /\ v3 = 0 /\ v5 = 0
                           /\ v6 = 0 /\ v7 = 0 /\ v8 = 0 /\ v9 = 0 /\ v10 = 0
       \/ which = "pool" /\ Pool!Init /\ v9 = 0 /\ v10 = 0
       \/ which = "chat" /\ Chat!Init /\ v7 = 0 /\ v8 = 0 /\ v9 = 0 /\ v10 = 0
       \/ which = "research" /\ Research!Init /\ v6 = 0 /\ v7 = 0 /\ v8 = 0 /\ v9 = 0 /\ v10 = 0
       \/ which = "query" /\ Query!Init /\ v10 = 0
       \/ which = "resolver" /\ Resolver!Init /\ v8 = 0 /\ v9 = 0 /\ v10 = 0
       \/ which = "traversal" /\ Traversal!Init /\ v6 = 0 /\ v7 = 0 /\ v8 = 0 /\ v9 = 0 /\ v10 = 0
       \/ which = "knowledge" /\ Known!Init /\ v8 = 0 /\ v9 = 0 /\ v10 = 0
       \/ which = "history" /\ Talk!Init /\ v8 = 0 /\ v9 = 0 /\ v10 = 0
       \/ which = "batches" /\ Batches!Init /\ v8 = 0 /\ v9 = 0 /\ v10 = 0

\* A step of one service: the clocks, the choice and the slots it does not use stay.
Of(service) == which = service /\ UNCHANGED <<which, vars>>

TimingRuns == which = "timing" /\ Next /\ UNCHANGED <<which, slots>>
SchedRuns == Of("scheduler") /\ Sched!Next /\ UNCHANGED <<v9, v10>>
ClustersRuns == Of("clusters") /\ Clusters!Next /\ UNCHANGED <<v3, v5, v6, v7, v8, v9, v10>>
CacheRuns == Of("cache") /\ Cache!Next /\ UNCHANGED <<v7, v8, v9, v10>>
CollabRuns == Of("collaboration") /\ Collab!Next /\ UNCHANGED <<v9, v10>>
CatalogRuns == Of("catalog") /\ Catalog!Next
ScoresRuns == Of("scores") /\ Scoring!Next
StartupRuns == Of("startup") /\ Startup!Next /\ UNCHANGED <<v9, v10>>
SchemaRuns == Of("schema") /\ Schema!Next /\ UNCHANGED <<v1, v2, v3, v5, v6, v7, v8, v9, v10>>
PoolRuns == Of("pool") /\ Pool!Next /\ UNCHANGED <<v9, v10>>
ChatRuns == Of("chat") /\ Chat!Next /\ UNCHANGED <<v7, v8, v9, v10>>
ResearchRuns == Of("research") /\ Research!Next /\ UNCHANGED <<v6, v7, v8, v9, v10>>
QueryRuns == Of("query") /\ Query!Next /\ UNCHANGED v10
ResolverRuns == Of("resolver") /\ Resolver!Next /\ UNCHANGED <<v8, v9, v10>>
TraversalRuns == Of("traversal") /\ Traversal!Next /\ UNCHANGED <<v6, v7, v8, v9, v10>>
KnownRuns == Of("knowledge") /\ Known!Next /\ UNCHANGED <<v8, v9, v10>>
TalkRuns == Of("history") /\ Talk!Next /\ UNCHANGED <<v8, v9, v10>>
BatchesRuns == Of("batches") /\ Batches!Next /\ UNCHANGED <<v8, v9, v10>>

ServicesNext ==
    \/ TimingRuns \/ SchedRuns \/ ClustersRuns \/ CacheRuns \/ CollabRuns \/ CatalogRuns
    \/ ScoresRuns \/ StartupRuns \/ SchemaRuns \/ PoolRuns \/ ChatRuns \/ ResearchRuns
    \/ QueryRuns \/ ResolverRuns \/ TraversalRuns \/ KnownRuns \/ TalkRuns \/ BatchesRuns

schedSlots == <<day, monitor, lock, loop, task, sessions, edits, faults>>

\* The fairness of Scheduler's Spec, for the behaviours that are the scheduler's.
ServicesFairness ==
    /\ \A i \in Instances : /\ WF_schedSlots(which = "scheduler" /\ Sched!TickStep(i))
                            /\ SF_schedSlots(which = "scheduler" /\ Sched!StartOne(i))
    /\ \A t \in Tasks : WF_schedSlots(which = "scheduler" /\ Sched!RunStep(t))

ServicesSpec == ServicesInit /\ [][ServicesNext]_<<which, vars, slots>> /\ ServicesFairness

-----------------------------------------------------------------------------
In(service) == which = service

\* Every service's variables hold values the code could hold.
TypesOK ==
    /\ In("timing") => TypeOK
    /\ In("scheduler") => Sched!TypeOK /\ Sched!ParentsAreOlder
    /\ In("clusters") => Clusters!TypeOK
    /\ In("cache") => Cache!TypeOK
    /\ In("collaboration") => Collab!TypeOK
    /\ In("catalog") => Catalog!TypeOK
    /\ In("scores") => Scoring!TypeOK
    /\ In("startup") => Startup!TypeOK
    /\ In("schema") => Schema!TypeOK
    /\ In("pool") => Pool!TypeOK
    /\ In("chat") => Chat!TypeOK
    /\ In("research") => Research!TypeOK
    /\ In("query") => Query!TypeOK
    /\ In("resolver") => Resolver!TypeOK
    /\ In("traversal") => Traversal!TypeOK
    /\ In("knowledge") => Known!TypeOK
    /\ In("history") => Talk!TypeOK
    /\ In("batches") => Batches!TypeOK

\* What the code limits stays limited and what it holds is given back, however
\* the calls overlap: a chat's messages and tool calls, the lookups of a batch, the
\* open connection pools, the questions of a stream that has ended, the tokens of a
\* conversation, the batches of pages at once.  Two limits give way to failures, by a
\* stated amount: the model calls of a session pass the budget by one query's for each
\* query that overlaps and each failure of Redis, and the callers that compute one
\* schema at once are one more for each lock that expired.
LimitsHold ==
    /\ In("chat") => Chat!LimitsHold
    /\ In("query") => Query!BudgetHolds
    /\ In("cache") => Cache!OverlapIsBounded
    /\ In("resolver") => Resolver!LookupsAreBounded
    /\ In("pool") => Pool!NoPoolLeaks
    /\ In("research") => Research!QuestionsEndWithTheirStream
    /\ In("history") => Talk!HistoryFits
    /\ In("batches") => Batches!BatchesAreBounded

\* What is handed out is all that was asked for, up to where the code cuts: a cached
\* answer looked at every chunk of the documents, of a wide table only at what the
\* prompt holds; a batch of lookups answers for every name; a call's clusters cover
\* its attributes if they are no more than the model is shown; a walk of the graph
\* finds what there is; a reused result is of that client, if its campaign was not
\* edited meanwhile; the model is shown no result without its call, unless the call was
\* trimmed away; every page is read, but for the end of one that is too long.  Each
\* module names what it excuses.
AnswersAreWhole ==
    /\ In("query") => Query!AnswersCoverTheChunks
    /\ In("resolver") => Resolver!EveryNameIsAnswered
    /\ In("clusters") => Clusters!CallCoversItsAttributes
    /\ In("traversal") => Traversal!AnswersAreExact
    /\ In("knowledge") => Known!ReusedIsKnown
    /\ In("history") => Talk!CallsKeepTheirResults
    /\ In("batches") => Batches!PagesAreRead

\* A comment is told of once for each reason: to who is mentioned or subscribed, and to
\* the author of what it replies to (routers/comments.py).
EachReasonIsToldOnce == In("collaboration") => Collab!EachReasonIsToldOnce

\* A score that is not marked stale counts the edits of its own entity, but for a first
\* score and until the recalculation after a failed one (db/scores.py).
OwnEditsAreScored == In("scores") => Scoring!OwnEditsAreScored

\* The rows of a campaign's status audit make one chain of changes, in whatever order
\* they are listed (db/campaigns.py).
AuditIsAChain == In("catalog") => Catalog!AuditIsAChain

\* While the last startup is one that completed, what it put in force is in force
\* (db/_schema.py).
LastStartHolds == In("startup") => Startup!LastStartHolds

\* Deletes succeed and cells keep their history (the foreign keys and triggers
\* of db/_schema.py).
DeletesSucceed == In("schema") => Schema!DeletesSucceed /\ Schema!CellsKeepTheirHistory

\* An active monitor that is due is run (scheduler.py).
DueMonitorIsRun ==
    \A m \in Monitors :
        (In("scheduler") /\ Sched!Due(m)) ~> (In("scheduler") => Sched!Attended(m))
=============================================================================
