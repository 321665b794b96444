# m-clone: a formal model of its jobs, documents, knowledge graph and services

m-clone ("Playbook Research" and "Scout") is a research assistant: a FastAPI
application with a Svelte front end, a PostgreSQL schema that also holds a job
queue, a dispatcher that copies queued jobs to Redis Streams, and workers that
execute them, most of them long-running LLM research. This directory holds
TLA+ modules of the parts whose correctness depends on the order in which
processes, statements and messages interleave, TLC configurations that check
them, and proofs of the properties that must hold for every size of system.

Paths below are relative to `src/backend/`.

## 1. Inventory

### Parts, their state and their operations

| Part | State | Operations |
|---|---|---|
| Job queue table (`app/job_queue.py`) | `playbook.job_queue`: status, attempts, heartbeat_at, run_at, root and parent of each row | enqueue, enqueue_many, dequeue (`FOR UPDATE SKIP LOCKED`), mark_running, ack, fail, update_heartbeat, reclaim_stale, retry_dead, finalize_validation_job |
| Dispatcher (`job_runner/dispatcher.py`) | the batch it claimed and has not published | poll loop, rollback after a failed publish, reclaim loop, reconcile loop, LISTEN loop |
| Streams (`app/streams.py`) | one Redis Stream per job type and one for extraction, each with a consumer group and its pending-entries list | publish_job, consume_jobs, ack_job, XAUTOCLAIM |
| Worker (`worker/consumer.py`, `heartbeat.py`, `registry.py`) | a semaphore, the running tasks, a heartbeat per task | consume loop, PEL reclaim loop, `_process_message`, drain |
| Validation workflow (`worker/workflows/validation.py`, `app/db/validation.py`) | `validation_jobs`, `validation_results`, `entity_scores` | campaign fan-out, cluster handler, progress, on_dead hooks, scores |
| Users of jobs (`app/routers/jobs.py`, `app/db/campaigns.py`) | none of their own | create and enqueue, cancel, retry of dead rows |
| Attribute clustering (`worker/workflows/attribute_clustering.py`) | `attribute_clusters` of a campaign | reuse, incremental or full clustering |
| Entity extraction (`worker/entity_extraction.py`) | the extraction stream, `extraction_dead_letters` | read, chunk, extract, merge, store, acknowledge |
| Knowledge graph (`app/db/knowledge_graph.py`, `workflows/kg_promotion.py`, `app/kg_ontology.py`) | entities, relationships, conflicts, per team and master | find or create, upsert, merge, promote |
| Knowledge cache (`app/db/knowledge.py`) | `entity_knowledge` with staleness | lookup, upsert |
| Document sessions (`app/redis_client.py`, `app/db/document_sessions.py`, upload in `app/routers/documents.py`) | a list in Redis (two formats), a copy in each process's memory and one in PostgreSQL; cached query answers | set, append (WATCH/MULTI/EXEC), get, query, invalidate |
| Scheduler (`app/scheduler.py`, `app/db/monitors.py`) | `next_run_at` of monitors and campaigns, an advisory lock | tick, run, reschedule |
| Document intelligence (`document_parser.py`, `document_chunking.py`, `document_intelligence.py`) | the schema and the answers of a session in Redis, a budget per session | parse, batch, classify, plan, query, invalidate |
| Client lookup (`app/agent/client_resolver.py`, `batch_resolver.py`, `app/db/client_lookup.py`) | the tasks of a batch | extract names, search, adjudicate, batch with timeouts |
| Agent and chat (`app/agent/*`, `app/routers/research.py`, `kg_chat.py`) | the messages of a turn, pending clarifications, background jobs, stored chats, a rate limit in Redis | stream, call tools, ask and answer, trim history, walk the graph |
| Campaigns, matrix and scores (`app/db/campaigns.py`, `entities.py`, `attributes.py`, `matrix.py`, `scores.py`, `library.py`, `programs.py`, `templates.py`) | campaigns with status and audit, their entities, attributes, cells, weights and scores; libraries, templates, programs | create, copy, import, change status, edit a cell, recalculate |
| Collaboration (`teams`, `sessions`, `comments`, `notifications`) | members and roles, shared sessions, comments, notifications | invite, share, subscribe, comment, notify, delete |
| Schema (`app/db/_schema.py`) | tables, indexes, constraints, triggers | init_schema at every start of every instance |
| Infrastructure (`_pool.py`, `secrets.py`, `openai_factory.py`, `config.py`) | pools and cached credentials | acquire, rotate |
| Front end (`src/frontend`) | user interface | not part of the model |

### How they interact

A client inserts rows; the dispatcher claims a batch (`pending -> claimed`),
publishes a message per row to Redis, and undoes the claim if publishing
raised. A worker reads the message, calls mark_running (`claimed -> running`,
and the only thing that decides which of two readers executes), starts a
heartbeat and the handler under `wait_for`, then ack or fail, then XACK. Two
repair loops run beside it: the dispatcher puts rows with an old heartbeat back
to pending, and workers take over stream entries that were idle for five
minutes. PostgreSQL and Redis share no transaction, so each pair of calls can be
cut in half.

A validation job is a `validation_jobs` row, a campaign row in the queue and one
row per (entity, cluster of attributes). The campaign handler clusters,
answers what it can from the knowledge cache, and inserts the children in one
transaction that counts existing children first. Every child stores results
and updates the progress; the last child, an on_dead hook or the dispatcher's
reconcile loop finalizes the job under `FOR UPDATE SKIP LOCKED`; scores and the
report to the extraction stream follow after the commit.

### What is hard here

* Delivery is at least once, and a publish that raised may have been applied.
* The rollback, ack and fail are guarded by a status or by nothing, never by the
  claim they belong to.
* A call to PostgreSQL may raise after it was applied, inside the `try` block.
* A handler can outlive its heartbeat, its timeout or its cancellation.
* Three kinds of actor finalize the same job, from snapshots of different age.
* Progress is counted in one snapshot and written under a later lock.
* A document list is read, extended and written back by several uploads at once,
  in three stores without a common transaction, beside a cache of answers.
* An entity, a relationship or a merge is several statements, under row locks that
  concurrent calls take in different orders.
* Chunks of one document are extracted by several workers and merged by the one
  that counts last, in a Redis hash.
* Locks with a lifetime (the schema of a session) and advisory locks (the scheduler,
  the startup) cover less than what follows from them.
* Limits, budgets and counters are read first and charged later.
* Scores, caches and histories are derived from what may be edited meanwhile.
* A process can die between any two of these steps.

PROJECT.json lists these hazards one by one, at their lines.

### What makes each part correct

* Queue: one claim, one execution; no job executed by two workers while
  heartbeats are in time; done and dead are final; attempts are only burnt by
  attempts; no job and no stream entry is lost.
* Timing: a running handler is not reclaimed.
* Validation: a job called done answered for every pair of an entity and an attribute
  the clustering was shown; the report is published at most once; the fan-out inserts nothing twice; a settled job stays settled;
  every job settles.
* Document sessions: no upload overwrites another, none is stored twice, an
  accepted one stays readable, and cached answers are those of the current list.
* Scheduler: a due monitor is run, and its reports form a chain into the past.
* Extraction: the chunks are merged once and whole, and what is acknowledged is stored.
* Knowledge graph: one node per name and team, one active relationship per pair and
  family, its history kept, nothing lost by a merge.
* Clustering, queries, lookups, walks, reuse: what is handed out covers what was asked,
  up to where the code cuts it.
* Scores: a score not marked stale counts every edit of its own entity and of the weights,
  but for a first score and after a failed recalculation.
* Campaigns: the rows of the audit make one chain. Comments: everybody concerned is told
  once for each reason.
* Limits: what is overshot is bounded by what overlaps and what fails.
* Schema: what the last startup, if it succeeded, put in force is in force; deletions succeed.

## 2. Modules

| Module | Models | Uses |
|---|---|---|
| `JobRow` | one row of the queue and what each SQL statement makes of it | |
| `JobQueue` | dispatchers, stream and PEL, workers, heartbeats, clients | `JobRow`, `JobLifecycle` (refinement) |
| `JobLifecycle` | what the queue promises: queued, executing, done, dead | |
| `HeartbeatTiming` | the clocks behind "late": one row, discrete time | |
| `ValidationPipeline` | one validation job from creation to published report | `JobRow` |
| `DocumentSessions` | one document session, its copies, and the cached answer to one question | |
| `KnowledgeGraph` | entities, relationships, conflicts, flags and promotions of a team and the master graph, statement by statement | |
| `EntityExtraction` | publishers, extraction stream and workers, chunk progress, merge, dead letters | |
| `Scheduler` | the ticks of all instances, the runs of monitors, the chain of their reports | |
| `AttributeClusters` | clusters of a campaign's attributes, reused and extended by concurrent jobs | |
| `SchemaCache` | the schema of a document session, its cache and its lock with a lifetime | |
| `DocumentQuery` | questions to a session: cache, budget, chunks, invalidation | |
| `DocumentBatches` | the pages of a long document, packed and read in batches | |
| `ClientResolver` | names of a document or list, resolved in a batch with two timeouts | |
| `Collaboration` | teams, shared sessions, comments and notifications | |
| `CampaignCatalog` | campaigns with status and audit, libraries, templates, programs | |
| `CampaignScores` | cells, weights, imports and the scores recalculated after them | |
| `KnowledgeCache` | what is known of a client's attribute and its reuse by other campaigns and teams | |
| `ResearchStream` | research streams, their tools, clarifications and background jobs | |
| `AgentHistory` | the messages of a conversation, cut, trimmed and extended | |
| `KgChat` | chats about the graph: rate, message and call limits | |
| `GraphTraversal` | the queries that walk the graph, while it is written | |
| `SchemaStartup` | `init_schema` of several instances beside instances that serve | |
| `DatabaseSchema` | foreign keys and triggers, and what a deletion does | |
| `ConnectionPool` | the pool of one process and the rotation of its password | |
| `MCJobQueue`, `MCValidationPipeline`, `MCDocumentSessions` | symmetry sets for TLC | |
| `MCKnowledgeGraph`, `MCEntityExtraction` | the graphs and texts TLC starts from | |
| `ServiceState` | the constants of the services that share no state, and the slots for their variables | |
| `TeamServices`, `DocumentServices` | the instances of these services, and what each expects of its constants | `ServiceState`; between them every module from `Scheduler` to `ConnectionPool`, `HeartbeatTiming` |
| `Services` | those services put together, each behaviour one of them | `TeamServices`, `DocumentServices` |
| `MCServices` | the graphs, campaigns and tables TLC starts from | `Services` |
| `JobQueueProofs`, `DocumentSessionsProofs`, `ValidationPipelineProofs`, `EntityExtractionProofs`, `KnowledgeGraphProofs` | proofs about the module of that name | |
| `ServiceProofs`, `DocumentProofs`, `CompositionProofs` | proofs about the instances of `TeamServices`, those of `DocumentServices`, and about `Services` | |

### JobRow and JobQueue

A row keeps status, attempts and whether its heartbeat is null, fresh or stale.
`worker_id` and `claimed_at` are written by the code and read by no statement;
`run_at` only delays a row, which an untimed `Dequeue` covers. Each statement is
an operator (`Claimed`, `Marked`, `Acked`, `Failed`, `Reclaimed`, `RolledBack`,
`Retried`, `Cancelled`), and a statement whose WHERE does not match leaves the
row alone.

`JobQueue` has one action per await: `Dequeue`, `Publish` / `PublishFails` (the
XADD may have been applied), `Rollback`, `Read`, `AutoClaim`, `StartRead`,
`MarkRunning` / `Skip`, `HandlerReturns` / `HandlerRaises`, `Ack`, `Fail`,
`OnDead`, `Xack`, `Heartbeat`, the two repair loops and the clients. A message
carries the claim it was published for, a history variable no guard reads. Each
kind of fault is an action of its own that spends from `MaxFaults`:

* `crash`: a dispatcher loses its batch, a worker its tasks and its backlog, or
  is stopped and drains, when tasks inside the try block still acknowledge;
* `redis`, `db`: a call raises; where the code cannot tell, both the applied and
  the unapplied outcome are explored;
* `late`: a row that somebody tends goes stale, or an entry in use is claimed by
  another consumer. `Tended` says which rows the default timing keeps fresh.

Not in `JobQueue`: the LISTEN loop, which only shortens the poll loop's sleep, and
stream trimming.

### HeartbeatTiming

Justifies and delimits "late". The row's heartbeat age, the handler's running
time and its beats advance with a discrete clock; `Claim` resets the age,
`Start` (mark_running) does not, `Beat` does, `BeatFails` counts up to
`MaxFailures` and then the heartbeat gives up. `TimingAssumption` is the code's
startup check, stale threshold > default timeout.

### ValidationPipeline

The `validation_jobs` row (`status`, `total`, `completed`), the queue rows of the
campaign (`Root`) and of its children (`Units \X 1..Copies`, so that a
duplicated fan-out is a state and not an assumption), results, scores, and a
task per handler, hook or reconcile task with the point between two awaits where
it stands. The row lock of `finalize_validation_job` is explicit: a task at
`locked` holds it, writers of the row wait (`Unlocked`), other finalizers skip.
`Check`/`FanOut` and `CountResults`/`WriteProgress` are split where the code
reads in one snapshot and writes later. `Cluster` makes clusters of the first hundred
attributes that have none; the units of the others are `unshown`: the handler
queues nothing for them. How a row reaches a handler is
`JobQueue`'s subject; here `Begin` is one step, and a second handler of the same
row appears only after a "late" fault or a cancellation, which is what
`NoDuplicatesCorrect` establishes. The LLM, the cache and the research are
nondeterministic choices; the contents of results, reports and scores are left
out, whether they exist is kept.

### DocumentSessions

The `doc:` and `pdf:` keys of one session in Redis, `_memory_store` of every API
process, the row of `document_sessions`, and the cached answer with its entry in the
set of keys (`registered`). A request is a record with the await it stands at.
`Watch` reads, `Exec` commits only if `version`, which every write of either key
moves, is what `Watch` saw; otherwise `Retry`, and after `MaxTries` `GiveUp`
falls back to memory as a Redis error does (`AppendFails`, with EXEC
applied or not). `Invalidate` and `Delete` are the SMEMBERS and the DEL of the
invalidation; `Store` and `Register` the SETEX and the SADD of an answer.
`WritePg` writes the list the request holds, and after a fallback the shared
list in memory as it is at that time, since `_memory_append` returns that
list itself. The environment's `Expire`, `ExpirePg` and `Crash` spend from
`MaxFaults`; an answer expires freely. Not modelled: the character cap, which no
caller passes; the schema cache is `SchemaCache`, a query over several chunks
`DocumentQuery`.

### KnowledgeGraph and GraphTraversal

PostgreSQL runs at READ COMMITTED: a call outside a transaction commits each
statement, so `KnowledgeGraph` has an action per statement, and a call inside one holds the
rows it locked until it ends. A waiting call is one whose action is not enabled; two
that wait for each other are ended by the deadlock detection (one of them raises). The
unique indexes, the trigger that keeps both ends of a relationship in its team and
the foreign keys are guards of the statements they would refuse (`IntraTeam`, `NoTwoActive`,
`Deletable`). Find or create with its lookups by name, alias and context, the upsert of
a relationship with its conflict log, edit, merge, flags, views, deletion and promotion are
all there. Types, confidences and descriptions are left out; which facts reach the
thresholds of a promotion is a choice. `GraphTraversal` has the reads that take
several statements, with the graph changing in between, against the definition
of what is reachable (`AnswersAreExact`).

### EntityExtraction and DocumentBatches

One document is one message or `N` chunks with a progress hash. A worker extracts,
tracks, counts, merges, stores and acknowledges, each call to Redis or PostgreSQL a
step that may fail, after its effect or before it; `losses` remembers the kinds of failure
the code does not repair: among them a chunk that is never counted, because its
message was not published or lost, its worker died, or its progress could not be
written, so that the others wait for a merge that does not come. `DocumentBatches` is how one text becomes calls of the model.

### Services and the modules it puts together

These modules are independent: they share no state, and what one
takes from another (a graph, a campaign) is an input of its own. `Services` is their sum,
not their product: a behaviour is that of one service, named by `which`. `ServiceState` declares
ten slots, `v1` to `v10`, and says which slot stands for which variable name (`lock == v3`), so
that an INSTANCE finds its variables by name; two services may have a name in common, but never
two variables of one service a slot. `TeamServices` and `DocumentServices` hold the instances and, as
`...Constants`, what each expects of its constants (a WITH renames a constant whose name means
something else in another service: `Rows` of `DocumentQuery` is `DocumentRows`); `ServicesAssumption` is all of that, and
`ServicesNext` a step of the service whose turn it is, with the slots it does not use
left alone. The properties of `Services` say of each service what its module states. `MCSpec` only
restricts the initial states: of two graphs that differ in which person is `n1`, one; and one client and
team for the first campaign. Each module:

* `Scheduler`: a tick is select, unlock, start; a run is stream, list, create, link,
  reschedule. The lock is a session lock that a dying instance frees.
* `AttributeClusters`: read, ask, save; the model's answer is any family of sets of
  labels, invented ones included.
* `SchemaCache`: look, lock, compute, store, unlock, with a lock that may expire under
  its holder and callers that poll.
* `DocumentQuery`: load from the cache, check the budget, plan, a call per chunk, merge,
  charge, store; uploads invalidate and append meanwhile. The prompt of a chunk ends after a
  number of characters: `PastTheCut` are the rows beyond, which the model is not shown. Where
  Redis fails, the budget is not known and the query goes on (`BudgetUnknown`), or its cost is
  not counted: `spent` is what was used, `cost` what Redis knows of it.
* `ClientResolver`: the names of the chunks merge into entries; each is searched,
  judged or decided by the fast path or the fallback; two timeouts.
* `Collaboration`: requests of several users, one statement a step.
* `CampaignCatalog`: the same. A change of status has its time (`at`) from `BeginTransition`
  and waits for the campaign's row after that; the audit is a set of rows with their times, as the
  only order they are read in is by time.
* `CampaignScores`: edit and commit; then lock, recalculate, commit, under row
  locks; values are replaced by when they were last edited. A score remembers when its data was
  read and among which entities the maximum was found that numbers are divided by (`over`): its own
  entity alone, when only that one is recalculated, and otherwise all of them. The campaign is its owner's:
  in a team's every cell statement fails (`app/db/_pool.py:137`).
* `KnowledgeCache`: the staleness lookup of a job, the research, the three statements of
  its result; edits, days and the end of a team in between.
* `ResearchStream`: completions, parallel calls, questions, disconnection, restart.
* `AgentHistory`: a message is its role, its tokens and the ids that tie results to calls.
* `KgChat`: a message counts against three limits before it is stored.
* `SchemaStartup`: the statements of `init_schema` that replace or tighten something, in
  their order, each its own transaction, beside instances that insert rows and rename entities. A
  rename is a plain UPDATE: between the DROP of the index over names and teams and its CREATE it
  may give two entities of a team one name, and then `ScopeByTeamFails`.
* `DatabaseSchema`: every foreign key with its ON DELETE; a deletion removes, clears or
  is refused, transitively.
* `ConnectionPool`: acquire, refusal by a rotated password, reset, nested acquire.

## 3. Runs

| Run | Question | Bounds |
|---|---|---|
| `queue_liveness` | Under two faults of any kind and a cancellation: types, one execution per claim, honest attempt counts; and does every job end and the stream drain? | 1 job, 1 dispatcher, 2 workers, 2 faults, 1 cancellation |
| `queue_exclusive` | With crashes and Redis errors but timely heartbeats: mutual exclusion, ownership, final states, and the refinement of `JobLifecycle` | 2 jobs in one batch, 2 workers, 1 fault, 1 retry |
| `queue_cancel` | Is a cancelled job final? No: violated | 1 job, 1 cancellation, no fault |
| `validation_safety` | Finalizers race: published once, and done is covered, even if clustering leaves attributes out | 2 units, 1 fault of any kind, 1 cancellation, 1 retry |
| `validation_settles` | The campaign handler is executed again after a crash: nothing is inserted twice, a settled job stays settled, every job settles and everything comes to rest | 1 unit of 2 attributes, 2 crashes or Redis errors, cancellation, retry, deletion |
| `sessions_copies` | Concurrent uploads, fallbacks and the answer cache: nothing overwritten, stored twice or lost, no stale answer of an undisturbed query | 3 uploads, 1 query, 2 processes, 2 tries, 1 fault of any kind |
| `sessions_durable` | Does the PostgreSQL copy only grow? No: violated | 3 uploads, no fault |
| `graph_concurrent` | Any two calls at once: unique names and pairs, history kept, merges lose nothing | 3 entities of a team and one of the master graph, 2 or 3 relationships, 2 callers, 2 operations |
| `extraction` | Chunked and whole documents: merged once and whole, acknowledged is kept, and without faults the document is stored | 2 chunks that share a fact, 2 workers, 2 faults |
| `extraction_redelivery` | Is a message left unacknowledged delivered again? No: violated | the same, 1 fault |
| `services` | The eighteen services, each on its own instance (see `services.cfg`): limits, wholeness of answers, notifications, scores, audit, startup, deletions, heartbeats, and liveness of monitors | 2 or 3 actors and 1 fault each; the clocks: threshold 12, timeout 8, wait 4, every beat may fail |
| `schema_restart` | May two teams share a name and the application still start? No: violated | 2 instances, 2 teams, 1 name |

Why these bounds are enough to be interesting. Exclusion and ownership concern
two tasks and one row, so two workers of one slot and up to three claims of the row
(two attempts and a redelivery) show every pairing; two jobs are needed for the
batch of the dispatcher. `MaxAttempts = 2` has a first failure that retries and
a last one that dies. One fault at each place is followed by every repair;
what several faults do together is covered by the proofs, which bound nothing.
In the pipeline two units make siblings, `Copies = 2` makes a duplicate
fan-out visible, two slots let two finalizers meet. In a session three uploads are
one that opens it and two that conflict, or three that meet on a session of the
former format, where with two tries both a retry and the last conflict occur. In the graph
two calls of two operations are every pair of operations, from graphs where the
names, aliases and pairs they meet exist; a ring makes a merge meet a relationship
with a third entity, a superseded pair makes it meet the history. In the extraction two
chunks are a first and a last, on two workers in either order. In `services` the bounds of
an instance are chosen so that each limit is reached and passed by one (a rate of two and
three messages, a budget smaller than two queries, a row past the cut of its chunk, a history of one more message than
is kept), that two actors overlap and that one failure falls at each place; where a third
actor matters (two that poll while one computes, an edit that overlaps the second) there is
one. The startups have two names, so that an entity can be renamed to another's, and one label:
rows of different labels never meet. `CHECK_DEADLOCK` is FALSE everywhere because a finished system rightly stops: jobs
settle, requests and faults are bounded.

Every property of a passing run has a mutant in PROJECT.json: a plausible slip
in one mapped definition (a dropped status condition, an off-by-one, a missing
heartbeat, an unguarded fan-out) that the run must notice.

### Fairness

`FairSpec` of `JobQueue` assumes weak fairness of the poll, consume, PEL and
reclaim loops, which are `while True` loops that catch what they call, of each task's
next step, since `wait_for` bounds every handler, and of the clock for rows nobody
tends. `DispatcherCrash` models the one call without a handler (dequeue
raising), and the process is restarted by its supervisor. In `ValidationPipeline`
starting a handler and starting a reconcile task compete for slots and for
rows that may be reclaimed in between, hence strong fairness: both loops
retry for ever, and a slot becomes free infinitely often. Faults and users are
never forced. `EntityExtraction` assumes weak fairness of the publisher's calls and of each
worker's next step. In `Scheduler` a tick goes
on (weak), as does every task; starting a run is strong, because other
instances and full tasks disable it now and then and the loop comes back. The
other services, and `KnowledgeGraph`, are checked for safety only.

## 4. Proofs

`tlapm` proves these for all values of the constants (any number of jobs,
processes, faults, requests):

| Theorem | States | Assumes |
|---|---|---|
| `JobQueueProofs!TypeCorrect` | `Spec => []TypeOK` | |
| `JobQueueProofs!OneRunPerClaimCorrect` | `Spec => []OneRunPerClaim` | |
| `JobQueueProofs!AttemptsWereStartsCorrect` | `Spec => []AttemptsWereStarts` | |
| `JobQueueProofs!OwnershipCorrect` | `Spec => []Ownership` | `DefaultTiming` |
| `JobQueueProofs!NoDuplicatesCorrect` | `Spec => []NoDuplicates` | `DefaultTiming` |
| `JobQueueProofs!TerminalIsFinalCorrect` | `Spec => TerminalIsFinal` | `CleanCalls` |
| `JobQueueProofs!ImplementsLifecycleCorrect` | `Spec => ImplementsLifecycle` | `CleanCalls` |
| `ServiceProofs!NoPrematureReclaimCorrect` | `SafeTiming /\ Spec => []NoPrematureReclaim` | `SafeTiming` |
| `DocumentProofs!OverlapIsBoundedCorrect` | `Cache!Spec => [](Cache!TypeOK /\ Cache!OverlapIsBounded)` | bounds in `Nat` |
| `ServiceProofs!ChatLimitsCorrect` | `Chat!Spec => [](Chat!TypeOK /\ Chat!LimitsHold)` | `Requests` finite, limits positive |
| `ServiceProofs!EachReasonIsToldOnceCorrect` | `Collab!Spec => [](Collab!TypeOK /\ Collab!EachReasonIsToldOnce)` | `NoOne` no user and no comment, ids of sessions and comments differ, bounds in `Nat` |
| `DocumentProofs!QueryAnswersCorrect` | `Query!Spec => [](Query!TypeOK /\ Query!AnswersCoverTheChunks /\ Query!BudgetHolds)` | `Askers` finite, budget and `MaxDocs` positive, `DocumentRows` of `Nat` with a greatest |
| `ServiceProofs!LastStartHoldsCorrect` | `Startup!Spec => [](Startup!TypeOK /\ Startup!LastStartHolds)` | nobody holds the lock as `NoInstance`, the master team and no team are two and none of `Teams`, bounds in `Nat`, `MaxRows` positive |
| `ServiceProofs!NoPoolLeaksCorrect` | `Pool!Spec => [](Pool!TypeOK /\ Pool!NoPoolLeaks)` | nobody holds the lock as `NoCaller`, bounds in `Nat` |
| `ServiceProofs!ReusedIsKnownCorrect` | `Known!Spec => [](Known!TypeOK /\ Known!ReusedIsKnown)` | `TeamOfNone` no team, bounds in `Nat`, `MaxDay` positive |
| `ServiceProofs!QuestionsEndCorrect` | `Research!Spec => [](Research!TypeOK /\ Research!QuestionsEndWithTheirStream)` | `Streams` finite, bounds in `Nat` |
| `ServiceProofs!ParentsAreOlderCorrect` | `Sched!Spec => [](Sched!TypeOK /\ Sched!ParentsAreOlder /\ SelectorHoldsTheLock)` | `Tasks` a finite set of numbers, `Daily <= Weekly`, nobody holds the lock as `NoInstance`, bounds in `Nat` |
| `ServiceProofs!ClustersCoverCorrect` | `Clusters!Spec => [](Clusters!TypeOK /\ Clusters!CallCoversItsAttributes)` | `MaxSize` positive, bounds in `Nat` |
| `ServiceProofs!DeletesSucceedCorrect` | `Schema!Spec => [](Schema!TypeOK /\ Schema!DeletesSucceed /\ Schema!CellsKeepTheirHistory)` | `SchemaTables` holds the table of every key |
| `DocumentProofs!EveryNameIsAnsweredCorrect` | `Resolver!Spec => [](Resolver!TypeOK /\ Resolver!LookupsAreBounded /\ Resolver!EveryNameIsAnswered)` | bounds in `Nat` |
| `DocumentProofs!PagesAreReadCorrect` | `Batches!Spec => [](Batches!TypeOK /\ Batches!PagesAreRead /\ Batches!BatchesAreBounded)` | lengths and bounds in `Nat` |
| `DocumentProofs!CallsKeepTheirResultsCorrect` | `Talk!Spec => [](Talk!TypeOK /\ Talk!CallsKeepTheirResults /\ Talk!HistoryFits)` | sizes, budget and bounds in `Nat` |
| `DocumentSessionsProofs!SessionTypes` | `Spec => []TypeOK` | |
| `DocumentSessionsProofs!UploadsSurviveCorrect` | `Spec => UploadsSurvive` | |
| `DocumentSessionsProofs!StoredOnceCorrect` | `Spec => []StoredOnce` | |
| `DocumentSessionsProofs!AcceptedIsKeptCorrect` | `Spec => []AcceptedIsKept` | |
| `DocumentSessionsProofs!CleanAnswersCorrect` | `Spec => []CleanAnswersAreCurrent` | |
| `ValidationPipelineProofs!TypeCorrect` | `Spec => []TypeOK` | |
| `ValidationPipelineProofs!FinalizedOnce` | `Spec => []PublishedOnce` | |
| `ValidationPipelineProofs!UnitsQueuedOnce` | `Spec => []FanOutOnce` | no "late" fault |
| `ValidationPipelineProofs!OutcomeIsFinal` | `Spec => SettledIsFinal` | no "db" and no "late" fault |
| `ValidationPipelineProofs!DoneAnsweredForAll` | `Spec => DoneIsCovered` | |
| `EntityExtractionProofs!TypeCorrect` | `Spec => []TypeOK` | |
| `EntityExtractionProofs!ChunksMergedOnce` | `Spec => []MergedOnceAndWhole` | |
| `EntityExtractionProofs!AcknowledgedIsStored` | `Spec => []AcknowledgedIsKept` | |
| `KnowledgeGraphProofs!TypeCorrect` | `Spec => []TypeOK` | |
| `KnowledgeGraphProofs!NamesAndPairsAreOne` | `Spec => []OneOfEach` | |
| `KnowledgeGraphProofs!SupersededStaysOnRecord` | `Spec => []HistoryIsKept` | |
| `KnowledgeGraphProofs!MergesAreLossless` | `Spec => MergeLosesNothing` | |
| `CompositionProofs!ScoreTypesCorrect` | `Scoring!Spec => []Scoring!TypeOK` | bounds in `Nat` |
| `CompositionProofs!OwnEditsAreScoredCorrect` | `Scoring!Spec => []Scoring!OwnEditsAreScored` | bounds in `Nat` |
| `CompositionProofs!CatalogTypesCorrect` | `Catalog!Spec => []Catalog!TypeOK` | bound in `Nat` |
| `CompositionProofs!AuditIsAChainCorrect` | `Catalog!Spec => []Catalog!AuditIsAChain` | bound in `Nat` |
| `DocumentProofs!TraversalAnswersAreExact` | `Traversal!Spec => [](Traversal!TypeOK /\ Traversal!AnswersAreExact)` | `Nodes` finite, bounds in `Nat`, `MaxPaths` positive |
| `CompositionProofs!BehavesAsItsService` | `ServicesSpec` implies the clocks' `Spec`, and of the service whose turn it is its own | `ServicesAssumption` |
| `CompositionProofs!TypesCorrect` | `ServicesSpec => []TypesOK` | `ServicesAssumption` |
| `CompositionProofs!LimitsCorrect` | `ServicesSpec => []LimitsHold` | `ServicesAssumption` |
| `CompositionProofs!AnswersAreWholeCorrect` | `ServicesSpec => []AnswersAreWhole` | `ServicesAssumption` |
| `CompositionProofs!ReasonsAreToldOnce` | `ServicesSpec => []EachReasonIsToldOnce` | `ServicesAssumption` |
| `CompositionProofs!ScoresCountOwnEdits` | `ServicesSpec => []OwnEditsAreScored` | `ServicesAssumption` |
| `CompositionProofs!AuditsAreChains` | `ServicesSpec => []AuditIsAChain` | `ServicesAssumption` |
| `CompositionProofs!StartsHold` | `ServicesSpec => []LastStartHolds` | `ServicesAssumption` |
| `CompositionProofs!EveryDeleteSucceeds` | `ServicesSpec => []DeletesSucceed` | `ServicesAssumption` |
| `CompositionProofs!NothingIsReclaimedEarly` | `SafeTiming /\ ServicesSpec => []NoPrematureReclaim` | `SafeTiming` |

`DefaultTiming` is "no late fault and no cancellation"; `CleanCalls` adds "no
ambiguous PostgreSQL call". They are exactly what the violated runs and the
"late" fault show to be needed, as are the two of `ValidationPipelineProofs`: a
handler that outlives its timeout fans out beside its successor, and one that raises on a
database error runs the campaign's on_dead hook on a job that may have settled. Where no
assumption is named there is none but those of the module's own constants (`...Assumption`).

*One run per claim.* `OneRunPerClaim` alone is not inductive: mark_running must
know that a claimed row's current claim has not been executed. `RunsBelong`
says so (runs do not exceed the claims of a row, and stay below while the row
is claimed), `Dequeue` makes a new claim larger than all, `MarkRunning` consumes
it, and every other action neither claims nor starts (`Quiet`).

*Attempts were starts.* Each row keeps its account (`AttemptInv`): attempts and
engaged tasks together are no more than its starts. `MarkRunning` adds one on both
sides, `Fail` and its faulty variants move one from engaged to counted, every other step is
`Uncounted`: no new engaged task, no new attempt, no other start.

*Ownership.* With timely heartbeats an engaged task runs the latest claim of a
running, fresh row (`Owns`). `MarkRunning` establishes it only if the claimed row is
fresh, which is `Carried`: a claimed row for which a message exists anywhere
is fresh. Rows lapse only when untended; reclaim, rollback and other tasks'
statements do not touch a fresh running row, except fail and update_heartbeat,
which are by id: that nobody else calls them is the exclusion being
proved, so the parts are one induction.

*Refinement.* A row is queued, executing, done, dead. Each action on a row
owned by its caller is a step of `JobLifecycle`; everything on messages
stutters; a reclaim is one `Abandon` of all stale running rows.

*Timing.* `AgeInv` bounds the heartbeat age by the wait plus either the running
time or the time since the last beat.

*Uploads survive.* `WatchInv`: what an upload between WATCH and EXEC has read is
what Redis holds, as long as `version` has not moved, unless the keys expired
unnoticed. Every write moves `version` past all that was watched, so the
invariant is only at stake where a request reads. `OpenInv` says that nobody
knows a session while its first upload writes it.

*Stored once.* `OnceInv`: every list, the ones requests hold included, is free of
repetition and of uploads that are still `Before` their storing step. A step that
stores extends such a list by an upload that leaves `Before` for good; all others
copy lists or empty them.

*Accepted is kept.* The same holds before the upload writes its PostgreSQL copy
(`KeptInv`). Appending keeps what is there by `WatchInv`; the one step that overwrites
a list belongs to the upload that opens the session, when by `OpenInv` there is no other.

*Clean answers.* A clean query runs while no upload does (`Alone`), since the arrival of either
during the other counts as overlap; so what it stores is what Redis holds. Its answer
(`Fresh`) is registered before the next upload looks, is seen by it, and is gone before
that upload appends. `Unknown` excludes the first upload, which deletes nothing.

*Published once.* `OneFinalizer`: whoever holds the lock of the job row sees it running, and
one task at most is between settling the job and its report. All finalizers come
through the lock and its re-read of the status.

*Fan-out once.* While no handler is late and nobody disturbs the job, one task at most
runs the campaign handler, its row is running, and a count of zero that it took
is still true when it inserts (`OneCampaigner`). That the row is running while the handler
runs needs timely beats; that no second handler starts needs the claim.

*Settled is final.* The campaign handler of such a job raises nowhere (`CampaignSucceeds`), so its
on_dead hook never runs, and only handlers and hooks that check the status first are left.

*Done is covered.* `NothingForgotten`: each task's position says how many attributes
of its unit have results (`StoredBy`), a done child's unit has all, and while the job
runs each unit has all its results or a row in the queue. Finalization waits until no
row is pending or running, so that each is done or dead. The units the clustering left out are
excepted: they have neither results nor a row, and the job is done without them. Deletion ends it (`Live`), but then
the job is never called done.

*Extraction.* Four layers, each inductive given the ones before: `Types`; a message is in
one place at a time (`Places`); counter and chunks on their way to it make up the whole
(`Counting`, with cardinalities); what was found is in the graph, in the hash of a merge to come,
or its message is not yet acknowledged (`Keeping`).

*Knowledge graph.* The tables' own constraints (`Rows`, `Records`, `Joins`, `Links`,
`Promoted`, `OneOfEach`, `HistoryIsKept`) are kept by a step because of what the call knows
of the rows it has seen in earlier statements (`Known`), and that stays true because
rows keep their team (`TeamsStay`) and what a call locked nobody else changes
(`LocksRespected`, by `Exclusive`). Each action is one of four kinds: quiet, writing
entities, relating, removing; the invariants a kind can disturb are proved for it. That a
merge loses nothing then says what its last statement finds: everything re-pointed or
already there.

*Own edits are scored.* `OwnEditsAreScored` speaks of rest only. In between, a score that passes for
current and misses an edit, or will when a recalculation under way writes it, is served
(`Served`): some request has still to read the entity, or has read the last edit and holds the
row. Row locks make it so: a mark waits for the row, and who computes after it reads all
that was edited before; who wrote over a row it did not hold would spoil the argument, and
that is the excused first score. A score is taken to be current by what it read of its own entity
and of the weights; that the maximum over other entities has moved since is not claimed away.

*Audit is a chain.* Who is about to write a status holds the campaign's row, alone, and the status
is still the one that was read (`StatusLocks`): a second transition and a deletion wait. So the row
that is added starts at the status the campaign has, which no row has left, and ends at a
later one, which none has left either. Nothing of this depends on the times of the rows, which may be in
the opposite order. A campaign that is created, or copied, has an
empty trail because deletion took the old one along (`NothingOutlives`), and is a draft.

*Overlap of schema computations.* The computing callers number at most one more than the locks
that ran out, and no more than those while the lock is free (`CacheInv`): who takes the lock
finds it free, and who frees it, his own or another's, stops computing.

*Limits of a chat.* The messages stored and those still to come, two of each request that has
yet to store its question and one of each that has yet to store its answer, are within the bound
(`Room`). A request that is let in sees a session below its limit, and then the bound holds whatever the others
are about to store, as each of them has two messages to come at most.

*Each reason is told once.* A request that holds the id of a comment is the only one to insert it
(`Inserts`), and once it has, the notifications about that comment are those this request has sent so
far, each once (`TellsOf`): mentions, then the reply, then the subscribers, by where the request stands. What other
requests send is about their own comments, or about sessions, whose ids differ. The parent of a
reply that is still there is there too, as its foreign key refuses the deletion, and its
author never changes; so the author told is the one the answer names. He is told of the reply also when he
is mentioned or subscribed and told of that: the property counts these as two reasons.

*Answers cover the chunks.* What a query has found and the chunks it has yet to look at are all the rows
it was given but those past the cut of their chunk, unless a chunk failed; and what it was given is the session's documents, unless it is excused
(`CallOk`), since an upload excuses the queries under way when it begins and those that load during it.
A cached answer that is not excused is registered, or its query is about to register it
(`Certain`); so an upload that deletes what is registered leaves none behind, and the document is added when
there is none. The budget is a count of debts (`CostOk`): what is used, and for each
caller between the check and the charge the most calls one query makes, is within the budget and
as many queries as there are callers and failures; and what is counted lacks at most one query for each
failure, so that a query let in by the check sees what is used but for these. A query makes a call for
the plan and one for each chunk, and there are no more chunks than rows (`ChunksAreTheRows`).

*What a startup leaves.* The startup that holds the lock is at one place, and each place says which
indexes are in force (`Reached`); an index in force is met by the rows, the names and the renamed
names, as the serving instances' statements are checked against it (`RowsInv`, `GraphInv`). The index
over names alone is in force from the first statement until the step that replaces it, so that neither giving
the entities without a team to the master team nor the first index by team can meet a name twice. Then
both are dropped, names may be anything, and the startup goes on only if the new index can be made. When it
ends well, all are in force until the next takes the lock. Of a startup that fails nothing is claimed.

*No pool leaks.* Whoever makes a pool holds the lock, and there is none meanwhile, so the new
one is the only one open (`OnePool`). The pool somebody tears down is never the one new calls
get, as a reset forgets it in the same step; `close()` waits for the connections that are out,
and a pool that is not open gives none (`PoolCallOk`).

*What is reused.* `ReusedIsKnown` speaks of a row that was read; the invariant of every row of
the cache (`RowIsOf`) says that it is of the pair and of the team of its key, of an ended team
when the key is of none, or of a pair edited during its research. The research in hand is of
its campaign's pair unless an edit has marked it (`JobIsOf`), which the statement that writes
the row needs, as it reads the campaign anew. An ended team's rows move to the key of no team with
the pair they had.

*Questions end.* A stream's questions have its name and a completion it has had, and of the
completion being announced only calls already announced have one (`StreamIsWell`): so a question
is new when it is registered, and was never answered. A waiting call's question is its stream's
own (`CallIsWell`), so the `finally` of the stream that answers all of them answers that one; and a
tool left running by a failure finds its question gone and goes on.

*Parents are older.* A run remembers the number of its report from the INSERT on, and what it
found as the latest report of its monitor is below that number, since it listed before it
inserted and reports are only appended (`RunIsWell`). So the link, a statement of its own, points
back whatever other runs of the monitor inserted in between. That numbers suffice takes a count:
the reports there are and the runs that have yet to insert one (`Savers`) are within the bound.

*Clusters cover.* A cluster is cut by the rank of its members, so a part has as many members as
ranks of one block, at most `MaxSize` (`PartIsSmall`), and the parts make up the whole
(`SplitIsWhole`). Up to `Limit` attributes all are shown (`FirstIsAll`), what the model left out
is added, and the labels it made up are dropped (`AnswerIsWhole`). A job in the middle of its
INSERTs has each attribute in what it has saved, what it has yet to save, or a row it has read (`JobCovers`).

*Deletes succeed.* The rows that go with a row are the least set closed under the cascades
(`RemovedIsLeast`): the recursive function that collects them exists, and adds nothing once it stops
growing, which a set of rows bounds by its cardinality. So of a set of tables that no
cascade leads into, nothing goes but what is deleted itself (`GoesWithin`). With the foreign keys
enumerated (`KeysAreGood`), a key that refuses rather than cascades points out of
what goes except at the parent of a reply (`OnlyRepliesRefuse`), and a history's one way to go is
with what its cell refers to.

*Every name is answered.* `Distinct` folds the mentions; of the first n it keeps each
name once (`DistinctIsTheNames`). There is one call for each name, a name is given the result of the call
at its place (`Answered`), and the calls that run are counted (`FewerRun`): one starts while there is room,
and none starts otherwise.

*Pages are read.* The lengths of a batch add up in any order (`SumTakesAnyFirst`), so a page more adds
its own (`PageAdds`); a batch that would pass the target is closed before, so only a page
longer than the target stands alone above it (`FitsTarget`). The batches in a row, with the one being
filled, are the pages 1, 2, ... taken so far (`RowGrows`). A call is repeated only up to
its retries, and the results are merged when none is open (`Settled`).

*Calls keep their results.* An id is of one message that called, so no result is there twice
(`Paired`), and the results stand in a row after their call (`HaveResults`, `FollowTheirCalls`).
What trimming leaves are messages of what was there in their order (`OnlyInOrder`): a result is
dropped with its call, and a cut is before a message that is no result (`Thins`), which keeps both
(`ThinsKeeps`). The stream's cut keeps calls with their results but may leave results whose call
it cut off; these are the ones in `lost` (`LastOnes`). The tokens of what is left are those the code
reckons, or fewer, as a call that went is counted too (`ThinsTokens`, `TokensOfAPart`). Between the
rounds, new results have ids no earlier message has (`AnsweredKeeps`).

*Walks are exact.* The recursive functions exist and satisfy their equations (`StepsExist`, from
which `PathRowsAre`, `WalksAre`, `BallsAre`, `HoodsAre`), so that an induction over the hops
can speak of them. A row of `find_connections` after h steps is a path of h relationships from the source
(`RowsArePaths`), and whatever comes into the ball of radius h has such a row: the one
that arrives first leaves no entity twice, as each entity on it came in one step later than
the one before (`RowsReach`). So there is a path exactly when the target is in the ball, and as
LIMIT takes the shorter ones first, one of the paths kept is as short as any (`SearchFinds`); read
back whole (`PathIsReadBack`) when nothing was deleted meanwhile. `explore_neighborhood` has after each hop visited
the neighbourhood of that many steps, its frontier is what came in last, and what it has read is what
touches the neighbourhood before (`IsExplored`); when a frontier is empty nothing comes in any
more. In `db_get_neighbors`, a walk arrives by h relationships only within the neighbourhood of h
(`WalksComeFrom`); and a relationship at distance h is taken by a walk of h steps, since the one that led
there first is another one (`WalksReach`). So its fewest hops are its distance.

*All services together.* It is always the turn of the same service, a step in its turn is one of
its own or changes none of its variables (`Turns`), and it starts as that service does (`Starts`).
So a behaviour of `Services` is one of the service's module, and its theorem applies, under `ServicesAssumption`;
in another service's behaviour the implication holds because it is never the first one's turn. The scheduler's
invariant is used directly: of its `Spec`, the fairness is stated in `Services` for the
scheduler's turn, and invariants do not need it.

Every invariant and every action property of a passing run is now a theorem, some under the assumption
named. Only model-checked is liveness (`NoJobLost`, `StreamDrains`, `JobSettles`, `ComesToRest`,
`DocumentIsStored`, `DueMonitorIsRun`), which the provers cannot do
under fairness. The violated properties have no theorem, as they do not hold.

## 5. Where code and words differ

* `queue_cancel`: `fail()` has no condition on the status, so a job cancelled
  while it runs returns from dead to pending and runs again.
* `sessions_durable`: every append writes its own list to PostgreSQL after its Redis
  transaction, so that of two concurrent ones the older list may be written
  last; and an append after the Redis key has expired writes a list of one
  document over the row that was to outlive it.

* `extraction_redelivery`: the worker leaves a failed message unacknowledged for the group
  to deliver it again, and only ever reads new ones.
* `schema_restart`: once two teams have an entity of one name, as the last index allows, the
  first index, created and dropped at every start, cannot be created, and no
  instance starts.

Met while modelling; the models have these as outcomes, and the properties say
where they end:

* Jobs. A finalizing child counts its own running row, so "the last job can trigger
  finalization immediately" (`worker/workflows/validation.py:31`) never happens and the
  reconcile loop does it. The progress count may be written out of order. mark_running keeps
  the heartbeat of the claim, so with the repository's settings a message that waited almost
  the threshold is reclaimed while its handler runs. With database faults a campaign row
  can die without its hook and its job stays queued. A job counts the pairs of all attributes
  (`worker/workflows/validation.py:140`), and its first execution asks for those of the first hundred without a
  cluster (`attribute_clustering.py:37`): it is done without results for the others, which the
  next job of the campaign clusters.
* Scheduler. The lock is released before the runs start: runs of a monitor may overlap, and
  one whose stream fails is started again at every tick. Nothing sets `next_run_at` of a
  campaign (`app/db/campaigns.py:53`), so that scheduled campaigns never run.
* Extraction. A Redis error at the hash of one chunk leaves the others unmerged; a counter
  that was raised and reported as failed merges nothing; a failing merge is acknowledged.
  `publish_for_extraction_chunked` has no caller.
* Knowledge graph. Deleting what has conflicts or promotions fails, although the docstring
  says it cascades. A merge whose relationships would relate the winner to itself, or
  whose families clash, is refused; winner and loser may be one, which deletes it. Of two
  concurrent upserts one may be answered as duplicate and log no conflict. A
  promotion supersedes without a log. `find_connections` ("shortest paths") follows
  relationships forwards only and returns longer paths, through the target as well.
* Clusters. Above 100 attributes the rest is not shown to the model and in no
  cluster; two jobs may store two clusters for one attribute.
* Documents. "Only cache complete (non-partial) results" (`app/document_intelligence.py:871`), but
  the text of a chunk of a table is cut at 8000 characters (lines 1077 and 1280), so that of wide rows
  some are not looked at, and the answer is cached as complete. The budget is not enforced when Redis
  cannot be read, and a cost that cannot be written is lost; the count is for a session used at least weekly, as it then
  expires (line 637), which the model leaves out. The schema of a session is never invalidated. A query that overlaps an
  upload may leave its stale answer. A prose answer that lost a chunk is cached as whole.
  A prose text without page marks is one page, of which 20 000 characters are read.
* Chats. A counter whose EXPIRE failed refuses its user for ever. The history of a
  request drops the last message, which may be another request's. Two parallel questions
  share one pending id; a question in a background job is shown to nobody; jobs that
  ran when the process stopped stay "running". A history is cut between a call and its
  results (`app/agent/streaming.py:219`).
* Campaigns. Two programs may both get one campaign (`app/db/programs.py:135`). Importing
  cells and applying a template that is not empty always raise. Cells of a team's
  campaign cannot be written. A failed recalculation rolls its stale mark back, against
  `app/db/scores.py:4-5`. A first score has no row to mark or to lock: an edit and its recalculation may
  pass it by, without any failure, and it stays current in name. The edit of a number recalculates one
  entity, by that entity's own maximum, while the scores of the others, computed with the maximum of
  all, are neither recalculated nor marked. The audit is read "newest first" (`app/db/campaigns.py:506`)
  by `changed_at`, the time the transaction began (`app/db/_schema.py:827`): one that waited for the lock is
  listed before the one it follows.
* Collaboration. Who is mentioned is left out of the subscribers that are told
  (`app/routers/comments.py:182`), but not as the author of the parent: an author who is mentioned or
  subscribed is told twice. A second invitation demotes an owner. Making a session a team's can lock
  its author out. A comment with replies cannot be deleted, nor a session with replies from
  another.
* Lookup. A batch of blank names raises. Inside a batch the rule that follows an LLM timeout is
  never reached, as the call's own timeout is shorter. It takes one of equally good clients.
* Knowledge. A stale row of the team hides a fresh one of no team. What is edited during
  its research is cached under the new key. Deleting a team turns its rows into everybody's
  or fails on their key.
* Startup. Every start drops the index over names and teams before it makes it again
  (`app/db/_schema.py:1643-1655`), while other instances serve. An entity renamed meanwhile to a name its
  team has makes this start fail, and each one after it until a name is changed.
* Pool. A password published late locks the process out until the secret is evicted. A nested
  acquire may wait for its own outer one. A second failing coroutine closes the new pool.

## 6. Not modelled, and what could follow

* Ontology and predicate names: tables and string normalisation, model values here.
* Parsing of files, prompts and the wording of answers: conversions without state.
* Memory of an agent, the agent-to-agent card, export, comparison, search, preferences:
  reads and single statements.
* Authentication, metrics, health and process startup: no state that several steps share.
* The front end: it shares no state with the back end but through requests.
* Trimming of streams (maxlen): entries far behind the readers.

Next would be the steps between the modules: that the graph `KnowledgeGraph` writes is one that
`GraphTraversal` starts from, and that the jobs `ValidationPipeline` begins are those `JobQueue` hands
out, as compositions of their own rather than inputs.
