------------------------- MODULE ValidationPipeline -------------------------
(***************************************************************************)
(* One validation job of a campaign: the validation_jobs row, the queue row *)
(* that fans it out, a queue row per (entity, cluster), the results, and    *)
(* everybody who reads and writes them.                                     *)
(*                                                                         *)
(*   worker/workflows/validation.py   the campaign and cluster handlers     *)
(*   app/job_queue.py                 finalize_validation_job               *)
(*   app/db/validation.py             results, progress and scores          *)
(*   app/db/campaigns.py              db_cancel_job                         *)
(*   job_runner/dispatcher.py         the reconcile loop                    *)
(*                                                                         *)
(* Queue rows change by the statements of JobRow.  How a row gets from      *)
(* pending to a handler is the subject of JobQueue: here one step, Begin,   *)
(* and two handlers of one row only as a "late" fault or after a            *)
(* cancellation, as JobQueueProofs proves.                                  *)
(***************************************************************************)
EXTENDS JobRow, Integers, FiniteSets

CONSTANTS
  Root,        \* the queue row of the validation_campaign job
  Units,       \* pairs (entity, cluster): the units of research
  Width,       \* attributes per cluster
  Copies,      \* bound: rows that may be inserted for one unit
  Slots,       \* bound: handlers and reconcile tasks running at once
  NoJob,      \* the job of a task that serves no queue row
  FaultKinds,  \* which faults may happen, a subset of AllFaults
  MaxFaults, MaxCancels, MaxRetries, MaxEdits   \* bounds

AllFaults == {"crash",   \* a process stops
              "redis",   \* a Redis call raises
              "db",      \* a PostgreSQL call raises before it is applied
              "late"}    \* a handler outlives its timeout or its heartbeat

Children == Units \X (1..Copies)
Queue    == {Root} \cup Children
Pairs    == Units \X (1..Width)

ASSUME PipelineAssumption ==
  /\ IsFiniteSet(Units) /\ Units # {}
  /\ {Width, Copies} \subseteq Nat \ {0}
  /\ FaultKinds \subseteq AllFaults
  /\ {MaxFaults, MaxCancels, MaxRetries, MaxEdits} \subseteq Nat
  /\ Root \notin Children /\ NoJob \notin Queue

VARIABLES
  status,     \* validation_jobs.status
  total,      \* validation_jobs.total_pairs
  completed,  \* validation_jobs.completed_pairs
  row,        \* [Queue -> Row]: the job's rows of job_queue
  results,    \* [Pairs -> Result]: validation_results
  scores,     \* set of Pairs: the results entity_scores was computed from
  published,  \* how often the combined report was sent to KG extraction
  clustered,  \* the units whose attributes are in a saved cluster of the campaign
  unshown,    \* the units the first clustering leaves out, see Cluster
  gone,       \* the campaign's entities were deleted
  task,       \* [Slots -> Task]
  used        \* how much of each bound is spent

jobVars == <<status, total, completed>>
outVars == <<scores, published>>
envVars == <<clustered, unshown, gone>>
vars == <<jobVars, row, results, outVars, envVars, task, used>>

JobStatus == {"queued", "running", "done", "failed"}
Settled   == {"done", "failed"}
Result    == {"none", "cached", "researched"}

\* Where a handler, a hook or a reconcile task stands between two awaits.
Running == {"loading", "clustering", "classifying", "caching", "checking", "fanning",
            "researching", "storing", "counting", "writing", "settling",
            "finalizing", "locked", "scoring", "publishing"}
Task == [job : Queue \cup {NoJob},
         pc : Running \cup {"idle", "acking", "failing", "hook"},
         hook : BOOLEAN,        \* runs as the on_dead hook of its job
         plan : SUBSET Units,   \* the clusters, then the fan-out's cluster_jobs_to_enqueue
         hit : SUBSET Units,    \* units of the clusters that the knowledge cache answers
         next : 1..Width,       \* the attribute being stored
         seen : Nat]            \* what the last COUNT(*) returned
Idle == [job |-> NoJob, pc |-> "idle", hook |-> FALSE, plan |-> {}, hit |-> {}, next |-> 1,
         seen |-> 0]

JobOf(t) == task[t].job
Goto(t, l) == task' = [task EXCEPT ![t].pc = l]
SetRow(q, r) == row' = [row EXCEPT ![q] = r]

Stored   == {p \in Pairs : results[p] # "none"}
Existing == {c \in Children : row[c].status # "absent"}
Pending  == {c \in Existing : row[c].status \notin Terminal}

\* Where a task goes when the function it is in returns.
Return(t) == task' = [task EXCEPT ![t] =
  IF JobOf(t) = NoJob \/ task[t].hook THEN Idle ELSE [@ EXCEPT !.pc = "acking"]]

\* No finalizer holds the lock of the validation_jobs row: its writers wait for it.
Unlocked == \A t \in Slots : task[t].pc # "locked"

Fault(kind) ==
  /\ kind \in FaultKinds /\ used.faults < MaxFaults
  /\ used' = [used EXCEPT !.faults = @ + 1]

-----------------------------------------------------------------------------
(* The queue, seen from the pipeline *)

\* Dispatched, read and marked: a handler of the row starts.
Begin(t, q) ==
  /\ task[t] = Idle /\ row[q].status = "pending"
  /\ SetRow(q, Marked(Claimed(row[q])))
  /\ task' = [task EXCEPT ![t] = [Idle EXCEPT !.job = q, !.pc = "loading"]]
  /\ UNCHANGED <<jobVars, results, outVars, envVars, used>>

Handled(q) == \E t \in Slots : JobOf(t) = q /\ ~ task[t].hook /\ task[t].pc # "hook"

\* The stale threshold passes: for a row whose handler lives only if it is late.
Reclaim(q) ==
  /\ row[q].status = "running"
  /\ IF Handled(q) THEN Fault("late") ELSE UNCHANGED used
  /\ SetRow(q, Reclaimed([row[q] EXCEPT !.beat = "stale"]))
  /\ UNCHANGED <<jobVars, results, outVars, envVars, task>>

\* The worker or the dispatcher that runs the task dies.
Crash(t) ==
  /\ task[t].pc # "idle"
  /\ Fault("crash")
  /\ task' = [task EXCEPT ![t] = Idle]
  /\ UNCHANGED <<jobVars, row, results, outVars, envVars>>

\* The handler raises: research and verification do so in the ordinary course
\* of things, a statement as a fault, and wait_for's timeout anywhere.
Raise(t) ==
  /\ task[t].pc \in Running /\ JobOf(t) # NoJob /\ ~ task[t].hook
  /\ \/ task[t].pc = "researching" /\ UNCHANGED used
     \/ task[t].pc \notin {"scoring", "publishing"} /\ Fault("db")
     \/ Fault("late")
  /\ Goto(t, "failing")
  /\ UNCHANGED <<jobVars, row, results, outVars, envVars>>

\* A statement raises in a hook or in a reconcile task: logged, and that is all.
Swallow(t) ==
  /\ \/ task[t].pc = "hook"
     \/ task[t].pc \in Running /\ (task[t].hook \/ JobOf(t) = NoJob)
  /\ Fault("db")
  /\ task' = [task EXCEPT ![t] = Idle]
  /\ UNCHANGED <<jobVars, row, results, outVars, envVars>>

Ack(t) ==
  /\ task[t].pc = "acking"
  /\ SetRow(JobOf(t), Acked(row[JobOf(t)]))
  /\ task' = [task EXCEPT ![t] = Idle]
  /\ UNCHANGED <<jobVars, results, outVars, envVars, used>>

\* pg_ack raised, applied or not, inside the try block: the job fails after all.
AckFails(t) ==
  /\ task[t].pc = "acking" /\ Fault("db")
  /\ \/ SetRow(JobOf(t), Acked(row[JobOf(t)]))
     \/ UNCHANGED row
  /\ Goto(t, "failing")
  /\ UNCHANGED <<jobVars, results, outVars, envVars>>

Fail(t) ==
  LET r == Failed(row[JobOf(t)]) IN
  /\ task[t].pc = "failing"
  /\ SetRow(JobOf(t), r)
  /\ task' = [task EXCEPT ![t] = IF r.status = "dead"
                                 THEN [Idle EXCEPT !.job = JobOf(t), !.pc = "hook"] ELSE Idle]
  /\ UNCHANGED <<jobVars, results, outVars, envVars, used>>

FailFails(t) ==
  /\ task[t].pc = "failing" /\ Fault("db")
  /\ \/ SetRow(JobOf(t), Failed(row[JobOf(t)]))
     \/ UNCHANGED row
  /\ task' = [task EXCEPT ![t] = Idle]
  /\ UNCHANGED <<jobVars, results, outVars, envVars>>

-----------------------------------------------------------------------------
(* The campaign handler: ValidationCampaignWorkflow *)

RootAt(t, l) == JobOf(t) = Root /\ task[t].pc = l

\* The entities and attributes; without any, the job is done, whatever it was.
RootLoad(t) ==
  /\ RootAt(t, "loading") /\ (gone => Unlocked)
  /\ IF gone THEN status' = "done" /\ Return(t)
             ELSE UNCHANGED status /\ Goto(t, "clustering")
  /\ UNCHANGED <<total, completed, row, results, outVars, envVars, used>>

\* The clusters of the attributes: those that are saved, and new ones for the first
\* hundred attributes that are in none.  Of a campaign with more the rest, unshown, waits
\* for the next execution; none has more than two hundred here.
Cluster(t) ==
  LET clusters == IF clustered = {} THEN Units \ unshown ELSE Units IN
  /\ RootAt(t, "clustering")
  /\ clustered' = clusters
  /\ task' = [task EXCEPT ![t].pc = "classifying", ![t].plan = clusters]
  /\ UNCHANGED <<jobVars, row, results, outVars, unshown, gone, used>>

\* The model that clusters fails, or the database does: failed, and not retried.
ClusterFails(t) ==
  /\ RootAt(t, "clustering") /\ Unlocked
  /\ IF clustered = Units THEN Fault("db") ELSE UNCHANGED used
  /\ status' = "failed"
  /\ Return(t)
  /\ UNCHANGED <<total, completed, row, results, outVars, envVars>>

\* The knowledge cache answers for some units, and may not at the next run.
Classify(t, S) ==
  /\ RootAt(t, "classifying") /\ S \subseteq task[t].plan
  /\ task' = [task EXCEPT ![t].pc = "caching", ![t].plan = S, ![t].hit = task[t].plan \ S]
  /\ UNCHANGED <<jobVars, row, results, outVars, envVars, used>>

\* db_insert_results_batch; a cached result keeps the report a child stored.
\* With the entities gone the foreign key refuses the batch and the handler raises.
CachePairs(t) == task[t].hit \X (1..Width)
Cache(t) ==
  /\ RootAt(t, "caching") /\ (CachePairs(t) # {} => ~ gone /\ Unlocked)
  /\ results' = [p \in Pairs |-> IF p \in CachePairs(t) /\ results[p] = "none"
                                 THEN "cached" ELSE results[p]]
  /\ completed' = IF CachePairs(t) = {} THEN completed ELSE Cardinality(Stored')
  /\ Goto(t, "checking")
  /\ UNCHANGED <<status, total, row, outVars, envVars, used>>

CacheRefused(t) ==
  /\ RootAt(t, "caching") /\ gone /\ CachePairs(t) # {}
  /\ Goto(t, "failing")
  /\ UNCHANGED <<jobVars, row, results, outVars, envVars, used>>

\* The fan-out transaction: its first statement counts the rows of this root ...
Check(t) ==
  /\ RootAt(t, "checking")
  /\ task' = [task EXCEPT ![t].pc = "fanning", ![t].hit = {}, ![t].seen = Cardinality(Existing)]
  /\ UNCHANGED <<jobVars, row, results, outVars, envVars, used>>

\* ... and it commits the rows of the plan, unless that count was positive.
InsertMutant(t) == TRUE
MayInsert(t) == task[t].seen = 0
NewCopies(t) ==
  IF ~ MayInsert(t) THEN {}
  ELSE {c \in Children :
          /\ c[1] \in task[t].plan /\ c \notin Existing
          /\ \A k \in 1..(c[2] - 1) : <<c[1], k>> \in Existing}

StartMutant(s) == s # "failed"
MayStart(s) == s = "queued"
FanOut(t) ==
  /\ RootAt(t, "fanning") /\ (MayStart(status) => Unlocked)
  /\ row' = [q \in Queue |-> IF q \in NewCopies(t) THEN NewRow ELSE row[q]]
  /\ IF MayStart(status)
     THEN status' = "running" /\ total' = Cardinality(Pairs)
     ELSE UNCHANGED <<status, total>>
  /\ IF task[t].plan = {} THEN Goto(t, "finalizing") ELSE Return(t)
  /\ UNCHANGED <<completed, results, outVars, envVars, used>>

\* on_dead of the campaign: failed, whatever the job was.
RootOnDead(t) ==
  /\ RootAt(t, "hook") /\ Unlocked
  /\ status' = "failed"
  /\ task' = [task EXCEPT ![t] = Idle]
  /\ UNCHANGED <<total, completed, row, results, outVars, envVars, used>>

-----------------------------------------------------------------------------
(* The cluster handler: ValidationClusterWorkflow *)

ChildAt(t, l) == JobOf(t) \in Children /\ task[t].pc = l
MyPair(t) == <<JobOf(t)[1], task[t].next>>

\* A child with nothing to do still writes the progress, then settles.
SkipTo(t) == [task[t] EXCEPT !.pc = "counting", !.next = Width]

\* Before and after the research the handler looks whether the job was cancelled.
Skips == gone \/ status = "failed"

ChildLoad(t) ==
  /\ ChildAt(t, "loading")
  /\ task' = [task EXCEPT ![t] = IF Skips THEN SkipTo(t) ELSE [@ EXCEPT !.pc = "researching"]]
  /\ UNCHANGED <<jobVars, row, results, outVars, envVars, used>>

Research(t) ==
  /\ ChildAt(t, "researching")
  /\ task' = [task EXCEPT ![t] = IF status = "failed" THEN SkipTo(t)
                                 ELSE [@ EXCEPT !.pc = "storing"]]
  /\ UNCHANGED <<jobVars, row, results, outVars, envVars, used>>

Store(t) ==
  /\ ChildAt(t, "storing") /\ ~ gone
  /\ results' = [results EXCEPT ![MyPair(t)] = "researched"]
  /\ Goto(t, "counting")
  /\ UNCHANGED <<jobVars, row, outVars, envVars, used>>

StoreRefused(t) ==
  /\ ChildAt(t, "storing") /\ gone
  /\ Goto(t, "failing")
  /\ UNCHANGED <<jobVars, row, results, outVars, envVars, used>>

\* db_increment_job_progress is one UPDATE whose COUNT sees the snapshot the
\* statement started with, and which then waits for the lock of the row.
CountResults(t) ==
  /\ ChildAt(t, "counting")
  /\ task' = [task EXCEPT ![t].pc = "writing", ![t].seen = Cardinality(Stored)]
  /\ UNCHANGED <<jobVars, row, results, outVars, envVars, used>>

WriteProgress(t) ==
  /\ ChildAt(t, "writing") /\ Unlocked
  /\ completed' = task[t].seen
  /\ task' = [task EXCEPT ![t] =
       IF task[t].next = Width THEN [@ EXCEPT !.pc = "settling"]
       ELSE [@ EXCEPT !.pc = "storing", !.next = task[t].next + 1]]
  /\ UNCHANGED <<status, total, row, results, outVars, envVars, used>>

\* _maybe_finalize: are the siblings, this row excepted, all terminal?
MaybeFinalize(t) ==
  /\ ChildAt(t, "settling")
  /\ IF Pending \subseteq {JobOf(t)} THEN Goto(t, "finalizing") ELSE Return(t)
  /\ UNCHANGED <<jobVars, row, results, outVars, envVars, used>>

\* _on_dead_check_finalize: the same, with this row counted.
ChildOnDead(t) ==
  /\ ChildAt(t, "hook")
  /\ task' = [task EXCEPT ![t] = IF Pending = {}
                                 THEN [@ EXCEPT !.pc = "finalizing", !.hook = TRUE] ELSE Idle]
  /\ UNCHANGED <<jobVars, row, results, outVars, envVars, used>>

-----------------------------------------------------------------------------
(* Finalization *)

\* The dispatcher's reconcile loop looks for jobs that should be final.
StuckMutant == /\ status = "running" /\ row[Root].status \in Terminal
               /\ \A c \in Existing : row[c].status = "done"
Stuck == status = "running" /\ row[Root].status \in Terminal /\ Pending = {}

Reconcile(t) ==
  /\ task[t] = Idle
  /\ Stuck
  /\ task' = [task EXCEPT ![t].pc = "finalizing"]
  /\ UNCHANGED <<jobVars, row, results, outVars, envVars, used>>

\* finalize_validation_job is one transaction.  It locks the row of a running job ...
Lock(t) ==
  /\ task[t].pc = "finalizing"
  /\ status = "running" /\ Unlocked
  /\ Goto(t, "locked")
  /\ UNCHANGED <<jobVars, row, results, outVars, envVars, used>>

\* ... returns when there is none, or when somebody else writes the row just then
\* (FOR UPDATE SKIP LOCKED) ...
LockSkipped(t) ==
  /\ task[t].pc = "finalizing"
  /\ \/ status # "running"
     \/ \E u \in Slots \ {t} : task[u].pc \in {"locked", "writing", "fanning"}
  /\ Return(t)
  /\ UNCHANGED <<jobVars, row, results, outVars, envVars, used>>

\* ... and settles the job unless a child is left; a dead-only job has failed.
FinalMutant == TRUE
MayFinalize == Pending = {}
AllDead     == Existing # {} /\ \A c \in Existing : row[c].status = "dead"

Finalize(t) ==
  /\ task[t].pc = "locked"
  /\ IF MayFinalize /\ ~ AllDead
     THEN status' = "done" /\ Goto(t, "scoring")
     ELSE /\ status' = IF MayFinalize THEN "failed" ELSE status
          /\ Return(t)
  /\ UNCHANGED <<total, completed, row, results, outVars, envVars, used>>

\* After the commit: the scores, then the report; both swallow what they raise.
Score(t) ==
  /\ task[t].pc = "scoring"
  /\ \/ scores' = Stored /\ UNCHANGED used
     \/ UNCHANGED scores /\ Fault("db")
  /\ Goto(t, "publishing")
  /\ UNCHANGED <<jobVars, row, results, published, envVars>>

Publish(t) ==
  /\ task[t].pc = "publishing"
  /\ \/ /\ published' = IF \E p \in Pairs : results[p] = "researched"
                        THEN published + 1 ELSE published
        /\ UNCHANGED used
     \/ UNCHANGED published /\ (Fault("db") \/ Fault("redis"))
  /\ Return(t)
  /\ UNCHANGED <<jobVars, row, results, scores, envVars>>

-----------------------------------------------------------------------------
(* Users *)

\* db_cancel_job: one transaction over the job and every row it still has.
Cancel ==
  /\ used.cancels < MaxCancels
  /\ status \notin Settled /\ Unlocked
  /\ status' = "failed"
  /\ row' = [q \in Queue |-> Cancelled(row[q])]
  /\ used' = [used EXCEPT !.cancels = @ + 1]
  /\ UNCHANGED <<total, completed, results, outVars, envVars, task>>

\* The retry endpoint.
Retry(q) ==
  /\ used.retries < MaxRetries
  /\ row[q].status = "dead"
  /\ SetRow(q, Retried(row[q]))
  /\ used' = [used EXCEPT !.retries = @ + 1]
  /\ UNCHANGED <<jobVars, results, outVars, envVars, task>>

\* The campaign's entities are deleted, and what refers to them with them.
DeleteEntities ==
  /\ used.edits < MaxEdits /\ ~ gone
  /\ gone' = TRUE
  /\ results' = [p \in Pairs |-> "none"]
  /\ scores' = {}
  /\ used' = [used EXCEPT !.edits = @ + 1]
  /\ UNCHANGED <<jobVars, row, published, clustered, unshown, task>>

-----------------------------------------------------------------------------
\* db_create_and_enqueue_validation_job: the job and its root row, atomically.
Init ==
  /\ status = "queued" /\ total = 0 /\ completed = 0
  /\ row = [q \in Queue |-> IF q = Root THEN NewRow ELSE NoRow]
  /\ results = [p \in Pairs |-> "none"]
  /\ scores = {} /\ published = 0
  /\ clustered \in {{}, Units}
  /\ unshown \in (SUBSET (Units \ clustered)) \ {Units} /\ gone = FALSE
  /\ task = [t \in Slots |-> Idle]
  /\ used = [faults |-> 0, cancels |-> 0, retries |-> 0, edits |-> 0]

RootStep(t)  == \/ RootLoad(t) \/ Cluster(t) \/ ClusterFails(t)
                \/ \E S \in SUBSET Units : Classify(t, S)
                \/ Cache(t) \/ CacheRefused(t) \/ Check(t) \/ FanOut(t) \/ RootOnDead(t)
ChildStep(t) == \/ ChildLoad(t) \/ Research(t) \/ Store(t) \/ StoreRefused(t)
                \/ CountResults(t) \/ WriteProgress(t)
                \/ MaybeFinalize(t) \/ ChildOnDead(t)
FinalStep(t) == Lock(t) \/ LockSkipped(t) \/ Finalize(t) \/ Score(t) \/ Publish(t)
TaskStep(t)  == RootStep(t) \/ ChildStep(t) \/ FinalStep(t) \/ Ack(t) \/ Fail(t)
TaskFault(t) == Crash(t) \/ Raise(t) \/ Swallow(t) \/ AckFails(t) \/ FailFails(t)
UserStep     == Cancel \/ DeleteEntities \/ \E q \in Queue : Retry(q)

Next == \/ \E t \in Slots : TaskStep(t) \/ TaskFault(t) \/ Reconcile(t)
        \/ \E t \in Slots, q \in Queue : Begin(t, q)
        \/ \E q \in Queue : Reclaim(q)
        \/ UserStep

Spec == Init /\ [][Next]_vars

\* Fairness: handlers end (wait_for), the queue delivers every pending row and
\* reclaims every abandoned one (NoJobLost of JobQueue), the reconcile loop runs
\* for ever.  Faults and users owe nothing.
ReclaimAbandoned(q) == ~ Handled(q) /\ Reclaim(q)
Fairness ==
  /\ \A t \in Slots : WF_vars(TaskStep(t))
  /\ \A q \in Queue : SF_vars(\E t \in Slots : Begin(t, q)) /\ WF_vars(ReclaimAbandoned(q))
  /\ SF_vars(\E t \in Slots : Reconcile(t))

FairSpec == Spec /\ Fairness

-----------------------------------------------------------------------------
(* Properties *)

\* Types: every variable holds a value the code could hold.
TypeOK ==
  /\ status \in JobStatus /\ total \in Nat /\ completed \in Nat
  /\ row \in [Queue -> Row]
  /\ results \in [Pairs -> Result]
  /\ scores \subseteq Pairs /\ published \in Nat
  /\ unshown \subseteq Units /\ clustered \subseteq Units /\ gone \in BOOLEAN
  /\ task \in [Slots -> Task]
  /\ used \in [faults : Nat, cancels : Nat, retries : Nat, edits : Nat]

\* A job that finalization calls done answered for every pair of an entity and an attribute
\* that was clustered: it has a result, cached or researched, or the row that was to research
\* it is dead and counted in the error text, unless the campaign was emptied meanwhile.
\* Fan-out, cache, children, duplicates, retries and finalizers all bear on it.  It is not
\* said of the attributes past the first hundred: they count in total_pairs, and the job is
\* done without a result for them (README, section 5).
DoneIsCovered ==
  [][status = "running" /\ status' = "done" /\ ~ gone =>
       \A p \in Pairs : \/ p[1] \in unshown
                         \/ results[p] # "none"
                         \/ \E c \in Existing : c[1] = p[1] /\ row[c].status = "dead"]_vars

\* "prevent concurrent finalization" (app/job_queue.py:350): however many children,
\* hooks and reconcile tasks finalize the job, one of them does, and the combined
\* report goes to KG extraction at most once.
PublishedOnce == published <= 1

\* Nobody has cancelled the job or deleted its campaign.
Undisturbed == used.cancels = 0 /\ used.edits = 0

\* Without timeouts and database faults, and until somebody cancels or deletes, a unit is
\* researched by one row, however often the fan-out is repeated after a crash.
FanOutOnce == Undisturbed => \A c, e \in Existing : c[1] = e[1] => c = e

\* The outcome reported to the user stays: until somebody cancels or deletes, nothing moves
\* a job out of done or failed.  With attributes left to cluster it is not so: an execution
\* of the campaign handler after the fan-out asks for their clusters, and when the language
\* model fails the job, running or done, is failed.
SettledIsFinal ==
  [][Undisturbed /\ unshown = {} /\ status' # status => status \notin Settled]_vars

\* The safety net works: a job is done or failed in the end.
JobSettles == status \notin Settled ~> status \in Settled

\* Everything comes to rest: cancelled, retried or crashed, every row is in the
\* end done or dead for good, and no handler, hook or reconcile task is left.
ComesToRest == <>[](row[Root].status \in Terminal /\ Pending = {} /\ \A t \in Slots : task[t] = Idle)
=============================================================================
