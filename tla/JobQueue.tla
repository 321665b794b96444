------------------------------ MODULE JobQueue ------------------------------
(***************************************************************************)
(* The job pipeline of m-clone: rows in PostgreSQL, the dispatcher that     *)
(* copies claimed rows to a Redis Stream, the worker processes that consume *)
(* the stream, and the loops that repair what a fault leaves behind.        *)
(*                                                                         *)
(*   app/job_queue.py           the statements, as operators of JobRow      *)
(*   job_runner/dispatcher.py   Dequeue .. ReclaimStale                     *)
(*   app/streams.py             XADD, XREADGROUP, XACK                      *)
(*   worker/consumer.py         Read .. XackFails, one task per slot        *)
(*   worker/heartbeat.py        Heartbeat                                   *)
(*                                                                         *)
(* One stream is modelled, that of one job type; the types share no state   *)
(* but the semaphore.  A handler is a black box that returns or raises.     *)
(***************************************************************************)
EXTENDS JobRow, Integers, Sequences, FiniteSets

CONSTANTS
  Jobs,          \* job_queue ids
  Dispatchers,   \* dispatcher processes
  Workers,       \* worker processes, each a consumer of the group
  Slots,         \* slots of a worker's semaphore (worker_concurrency)
  BatchSize,     \* LIMIT of the dispatcher's dequeue
  NoMsg,         \* no message
  FaultKinds,    \* which faults may happen, a subset of AllFaults
  MaxFaults,     \* bound: faults in one behaviour
  MaxCancels,    \* bound: cancellations in one behaviour
  MaxRetries     \* bound: uses of the dead-letter retry endpoint

AllFaults == {"crash",   \* a dispatcher or a worker process stops
              "redis",   \* a Redis call raises, applied or not
              "db",      \* a PostgreSQL call raises, applied or not
              "late"}    \* something outlives the threshold that watches it

\* A message names its row and the claim that published it; the code's message
\* carries no claim, so no guard may read it.
Msg == [job : Jobs, claim : Nat]

ASSUME QueueAssumption ==
  /\ BatchSize \in Nat \ {0}
  /\ FaultKinds \subseteq AllFaults
  /\ {MaxFaults, MaxCancels, MaxRetries} \subseteq Nat
  /\ NoMsg \notin Msg

Tasks == Workers \X Slots

VARIABLES
  row,       \* [Jobs -> Row]: the table
  claims,    \* [Jobs -> Nat]: history, how often dequeue returned the row
  starts,    \* [Jobs -> Nat]: history, how often a handler was started on it
  stream,    \* Seq(Msg): entries not yet delivered to the group
  pel,       \* set of Msg: delivered, not acknowledged
  outbox,    \* [Dispatchers -> set of Msg]: the batch still to publish
  rolling,   \* [Dispatchers -> Msg or NoMsg]: publish raised, rollback next
  reading,   \* [Workers -> Msg or NoMsg]: read, waiting for the semaphore
  backlog,   \* [Workers -> set of Msg]: auto-claimed, waiting for it
  task,      \* [Tasks -> Task]: the _process_message coroutines
  used       \* how much of each bound is spent

vars == <<row, claims, starts, stream, pel, outbox, rolling, reading,
          backlog, task, used>>
dispatcherVars == <<outbox, rolling>>
redisVars      == <<stream, pel>>
loopVars       == <<reading, backlog>>
history        == <<claims, starts>>

Engaged == {"executing", "acking", "failing"}   \* still to settle its row
Task == [pc : Engaged \cup {"idle", "received", "hook", "xacking"},
         msg : Msg \cup {NoMsg},
         run : Nat]                  \* history: the claim it executes, or 0
Idle == [pc |-> "idle", msg |-> NoMsg, run |-> 0]

JobOf(t)   == task[t].msg.job
Goto(t, l) == task' = [task EXCEPT ![t].pc = l]
Finish(t)  == task' = [task EXCEPT ![t] = Idle]
SetRow(j, r) == row' = [row EXCEPT ![j] = r]

Spending == [faults : Nat, cancels : Nat, retries : Nat]

Fault(kind) ==
  /\ kind \in FaultKinds
  /\ used.faults < MaxFaults
  /\ used' = [used EXCEPT !.faults = @ + 1]

\* A fault of this kind, unless the condition says the step is an ordinary one.
FaultIf(cond, kind) == IF cond THEN Fault(kind) ELSE UNCHANGED used

\* Messages that still exist: in the stream, unacknowledged, or in some
\* process's hands.
InHand == (UNION {outbox[d] \cup {rolling[d]} : d \in Dispatchers})
            \cup (UNION {backlog[w] \cup {reading[w]} : w \in Workers})
            \cup {task[t].msg : t \in Tasks}
Existing == {stream[i] : i \in 1..Len(stream)} \cup pel \cup InHand

\* Work the default timing keeps fresh.  An engaged task beats every 30 s; the
\* message of a claimed row is read, or auto-claimed after 300 s, well inside
\* the 600 s stale threshold.
Tended(j) ==
  \/ \E t \in Tasks : task[t].pc \in Engaged /\ JobOf(t) = j
  \/ row[j].status = "claimed" /\ \E m \in Existing \ {NoMsg} : m.job = j

-----------------------------------------------------------------------------
(* Clients of the queue *)

\* enqueue, enqueue_many: one INSERT creates the rows.
Enqueue(S) ==
  /\ S # {} /\ \A j \in S : row[j] = NoRow
  /\ row' = [j \in Jobs |-> IF j \in S THEN NewRow ELSE row[j]]
  /\ UNCHANGED <<history, redisVars, dispatcherVars, loopVars, task, used>>

\* The owner cancels: db_cancel_job does not tell the worker.
Cancel(j) ==
  /\ used.cancels < MaxCancels
  /\ CancelMatches(row[j])
  /\ SetRow(j, Cancelled(row[j]))
  /\ used' = [used EXCEPT !.cancels = @ + 1]
  /\ UNCHANGED <<history, redisVars, dispatcherVars, loopVars, task>>

\* An administrator retries a dead letter: retry_dead.
Retry(j) ==
  /\ used.retries < MaxRetries
  /\ row[j].status = "dead"
  /\ SetRow(j, Retried(row[j]))
  /\ used' = [used EXCEPT !.retries = @ + 1]
  /\ UNCHANGED <<history, redisVars, dispatcherVars, loopVars, task>>

-----------------------------------------------------------------------------
(* The dispatcher *)

\* _poll_loop: claim a batch of the pending rows whose run_at has passed.  The
\* next batch is claimed only when this one is published.
Dequeue(d, S) ==
  /\ outbox[d] = {} /\ rolling[d] = NoMsg
  /\ S # {} /\ Cardinality(S) <= BatchSize
  /\ \A j \in S : row[j].status = "pending"
  /\ row'    = [j \in Jobs |-> IF j \in S THEN Claimed(row[j]) ELSE row[j]]
  /\ claims' = [j \in Jobs |-> IF j \in S THEN claims[j] + 1 ELSE claims[j]]
  /\ outbox' = [outbox EXCEPT ![d] = {[job |-> j, claim |-> claims'[j]] : j \in S}]
  /\ UNCHANGED <<starts, redisVars, rolling, loopVars, task, used>>

\* publish_job returned.
Publish(d, m) ==
  /\ rolling[d] = NoMsg /\ m \in outbox[d]
  /\ outbox' = [outbox EXCEPT ![d] = @ \ {m}]
  /\ stream' = Append(stream, m)
  /\ UNCHANGED <<row, history, pel, rolling, loopVars, task, used>>

\* publish_job raised: the XADD may have been applied all the same.
PublishFails(d, m) ==
  /\ rolling[d] = NoMsg /\ m \in outbox[d]
  /\ Fault("redis")
  /\ outbox'  = [outbox EXCEPT ![d] = @ \ {m}]
  /\ rolling' = [rolling EXCEPT ![d] = m]
  /\ stream' \in {stream, Append(stream, m)}
  /\ UNCHANGED <<row, history, pel, loopVars, task>>

\* The rollback is guarded by the status alone, not by the claim it undoes.
Rollback(d) ==
  /\ rolling[d] # NoMsg
  /\ SetRow(rolling[d].job, RolledBack(row[rolling[d].job]))
  /\ rolling' = [rolling EXCEPT ![d] = NoMsg]
  /\ UNCHANGED <<history, redisVars, outbox, loopVars, task, used>>

\* The rollback raised before it was applied: logged, and the loop goes on.
RollbackFails(d) ==
  /\ rolling[d] # NoMsg
  /\ Fault("db")
  /\ rolling' = [rolling EXCEPT ![d] = NoMsg]
  /\ UNCHANGED <<row, history, redisVars, outbox, loopVars, task>>

\* The process ends with a batch in hand.  An exception of dequeue itself does
\* this too: _poll_loop has no handler for it.
DispatcherCrash(d) ==
  /\ outbox[d] # {} \/ rolling[d] # NoMsg
  /\ Fault("crash")
  /\ outbox'  = [outbox EXCEPT ![d] = {}]
  /\ rolling' = [rolling EXCEPT ![d] = NoMsg]
  /\ UNCHANGED <<row, history, redisVars, loopVars, task>>

\* The startup sweep and _reclaim_loop: one statement over the whole table.
ReclaimStale ==
  /\ \E j \in Jobs : IsStale(row[j])
  /\ row' = [j \in Jobs |-> Reclaimed(row[j])]
  /\ UNCHANGED <<history, redisVars, dispatcherVars, loopVars, task, used>>

\* The stale threshold passes with no heartbeat.
Lapse(j) ==
  /\ row[j].status \in {"claimed", "running"} /\ row[j].beat = "fresh"
  /\ FaultIf(Tended(j), "late")
  /\ SetRow(j, [row[j] EXCEPT !.beat = "stale"])
  /\ UNCHANGED <<history, redisVars, dispatcherVars, loopVars, task>>

-----------------------------------------------------------------------------
(* The loops of a worker *)

\* _consume_loop: XREADGROUP ">" with COUNT 1, then wait for the semaphore.
Read(w) ==
  /\ reading[w] = NoMsg /\ stream # <<>>
  /\ stream'  = Tail(stream)
  /\ pel'     = pel \cup {Head(stream)}
  /\ reading' = [reading EXCEPT ![w] = Head(stream)]
  /\ UNCHANGED <<row, history, dispatcherVars, backlog, task, used>>

\* The reply of XREADGROUP is lost: delivered, and in nobody's hands.
ReadLost(w) ==
  /\ reading[w] = NoMsg /\ stream # <<>>
  /\ Fault("redis")
  /\ stream' = Tail(stream)
  /\ pel'    = pel \cup {Head(stream)}
  /\ UNCHANGED <<row, history, dispatcherVars, loopVars, task>>

\* _reclaim_pel_loop: XAUTOCLAIM takes entries that were idle for 5 minutes,
\* whoever holds them; an entry in use is idle that long only when it is late.
AutoClaim(w, S) ==
  /\ backlog[w] = {}
  /\ S # {} /\ S \subseteq pel
  /\ FaultIf(S \cap InHand # {}, "late")
  /\ backlog' = [backlog EXCEPT ![w] = S]
  /\ UNCHANGED <<row, history, redisVars, dispatcherVars, reading, task>>

\* The semaphore has a slot: create_task(_process_message).
StartRead(t) ==
  /\ task[t] = Idle /\ reading[t[1]] # NoMsg
  /\ task'    = [task EXCEPT ![t] = [Idle EXCEPT !.pc = "received", !.msg = reading[t[1]]]]
  /\ reading' = [reading EXCEPT ![t[1]] = NoMsg]
  /\ UNCHANGED <<row, history, redisVars, dispatcherVars, backlog, used>>

StartClaimed(t, m) ==
  /\ task[t] = Idle /\ m \in backlog[t[1]]
  /\ task'    = [task EXCEPT ![t] = [Idle EXCEPT !.pc = "received", !.msg = m]]
  /\ backlog' = [backlog EXCEPT ![t[1]] = @ \ {m}]
  /\ UNCHANGED <<row, history, redisVars, dispatcherVars, reading, used>>

\* The process is killed: its tasks and what its loops held are gone.
WorkerCrash(w) ==
  /\ Fault("crash")
  /\ task'    = [t \in Tasks |-> IF t[1] = w THEN Idle ELSE task[t]]
  /\ reading' = [reading EXCEPT ![w] = NoMsg]
  /\ backlog' = [backlog EXCEPT ![w] = {}]
  /\ UNCHANGED <<row, history, redisVars, dispatcherVars>>

\* SIGTERM, and the drain times out: the tasks are cancelled.  Inside the try
\* block the finally clause still acknowledges the message; before it, at
\* mark_running, nothing does.
WorkerStops(w) ==
  /\ Fault("crash")
  /\ task' = [t \in Tasks |->
       IF t[1] # w THEN task[t]
       ELSE IF task[t].pc \in {"idle", "received"} THEN Idle
       ELSE [task[t] EXCEPT !.pc = "xacking"]]
  /\ reading' = [reading EXCEPT ![w] = NoMsg]
  /\ backlog' = [backlog EXCEPT ![w] = {}]
  /\ UNCHANGED <<row, history, redisVars, dispatcherVars>>

-----------------------------------------------------------------------------
(* _process_message, one step per await *)

\* mark_running found the row claimed: the execution belongs to the row's
\* current claim, which need not be the one the message was published for.
MarkRunning(t) ==
  LET j == JobOf(t) IN
  /\ task[t].pc = "received"
  /\ MarkMatches(row[j])
  /\ SetRow(j, Marked(row[j]))
  /\ task'   = [task EXCEPT ![t].pc = "executing", ![t].run = claims[j]]
  /\ starts' = [starts EXCEPT ![j] = @ + 1]
  /\ UNCHANGED <<claims, redisVars, dispatcherVars, loopVars, used>>

\* mark_running returned False: acknowledge and return.
SkipMutant(t) ==
  /\ task[t].pc = "received"
  /\ ~ MarkMatches(row[JobOf(t)])
  /\ Finish(t)
  /\ UNCHANGED <<row, history, redisVars, dispatcherVars, loopVars, used>>

Skip(t) ==
  /\ task[t].pc = "received"
  /\ ~ MarkMatches(row[JobOf(t)])
  /\ Goto(t, "xacking")
  /\ UNCHANGED <<row, history, redisVars, dispatcherVars, loopVars, used>>

\* mark_running raised, outside the try block: the entry is not acknowledged.
MarkRunningFails(t) ==
  /\ task[t].pc = "received"
  /\ Fault("db")
  /\ \/ SetRow(JobOf(t), Marked(row[JobOf(t)]))
     \/ UNCHANGED row
  /\ Finish(t)
  /\ UNCHANGED <<history, redisVars, dispatcherVars, loopVars>>

\* registry.dispatch returned; or it raised, or wait_for timed it out.
HandlerReturns(t) ==
  /\ task[t].pc = "executing"
  /\ Goto(t, "acking")
  /\ UNCHANGED <<row, history, redisVars, dispatcherVars, loopVars, used>>

HandlerRaises(t) ==
  /\ task[t].pc = "executing"
  /\ Goto(t, "failing")
  /\ UNCHANGED <<row, history, redisVars, dispatcherVars, loopVars, used>>

\* pg_ack; its result, False when the row was no longer running, is ignored.
Ack(t) ==
  /\ task[t].pc = "acking"
  /\ SetRow(JobOf(t), Acked(row[JobOf(t)]))
  /\ Goto(t, "xacking")
  /\ UNCHANGED <<history, redisVars, dispatcherVars, loopVars, used>>

\* pg_ack raised: inside the try block, so the job is failed after all.
AckFails(t) ==
  /\ task[t].pc = "acking"
  /\ Fault("db")
  /\ \/ SetRow(JobOf(t), Acked(row[JobOf(t)]))
     \/ UNCHANGED row
  /\ Goto(t, "failing")
  /\ UNCHANGED <<history, redisVars, dispatcherVars, loopVars>>

\* pg_fail; the on_dead hook runs when this failure exhausted the attempts.
Fail(t) ==
  LET r == Failed(row[JobOf(t)]) IN
  /\ task[t].pc = "failing"
  /\ SetRow(JobOf(t), r)
  /\ Goto(t, IF r.status = "dead" THEN "hook" ELSE "xacking")
  /\ UNCHANGED <<history, redisVars, dispatcherVars, loopVars, used>>

\* pg_fail raised: the finally clause acknowledges, no hook runs.
FailFails(t) ==
  /\ task[t].pc = "failing"
  /\ Fault("db")
  /\ \/ SetRow(JobOf(t), Failed(row[JobOf(t)]))
     \/ UNCHANGED row
  /\ Goto(t, "xacking")
  /\ UNCHANGED <<history, redisVars, dispatcherVars, loopVars>>

\* dispatch_on_dead, which swallows what the hook raises.
OnDead(t) ==
  /\ task[t].pc = "hook"
  /\ Goto(t, "xacking")
  /\ UNCHANGED <<row, history, redisVars, dispatcherVars, loopVars, used>>

\* ack_job, which swallows a RedisError: the entry then stays in the PEL.
Xack(t) ==
  /\ task[t].pc = "xacking"
  /\ pel' = pel \ {task[t].msg}
  /\ Finish(t)
  /\ UNCHANGED <<row, history, stream, dispatcherVars, loopVars, used>>

XackFails(t) ==
  /\ task[t].pc = "xacking"
  /\ Fault("redis")
  /\ Finish(t)
  /\ UNCHANGED <<row, history, redisVars, dispatcherVars, loopVars>>

\* HeartbeatManager runs from hb.start() to the finally clause.
Heartbeat(t) ==
  /\ task[t].pc \in Engaged \cup {"hook"}
  /\ row[JobOf(t)].beat # "fresh"
  /\ SetRow(JobOf(t), Beaten(row[JobOf(t)]))
  /\ UNCHANGED <<history, redisVars, dispatcherVars, loopVars, task, used>>

-----------------------------------------------------------------------------
Init ==
  /\ row = [j \in Jobs |-> NoRow]
  /\ claims = [j \in Jobs |-> 0] /\ starts = [j \in Jobs |-> 0]
  /\ stream = <<>> /\ pel = {}
  /\ outbox = [d \in Dispatchers |-> {}]
  /\ rolling = [d \in Dispatchers |-> NoMsg]
  /\ reading = [w \in Workers |-> NoMsg]
  /\ backlog = [w \in Workers |-> {}]
  /\ task = [t \in Tasks |-> Idle]
  /\ used = [faults |-> 0, cancels |-> 0, retries |-> 0]

ClientStep == \/ \E S \in SUBSET Jobs : Enqueue(S)
              \/ \E j \in Jobs : Cancel(j) \/ Retry(j)

\* What a dispatcher's poll loop does by itself, and what can go wrong with it.
PollStep(d) == \/ \E S \in SUBSET Jobs : Dequeue(d, S)
               \/ \E m \in outbox[d] : Publish(d, m)
               \/ Rollback(d)
PollFault(d) == \/ \E m \in outbox[d] : PublishFails(d, m)
                \/ RollbackFails(d)
                \/ DispatcherCrash(d)

LoopStep(w) == Read(w) \/ \E S \in SUBSET pel : AutoClaim(w, S)
LoopFault(w) == ReadLost(w) \/ WorkerCrash(w) \/ WorkerStops(w)

StartStep(t) == StartRead(t) \/ \E m \in backlog[t[1]] : StartClaimed(t, m)
TaskStep(t)  == \/ MarkRunning(t) \/ Skip(t)
                \/ HandlerReturns(t) \/ HandlerRaises(t)
                \/ Ack(t) \/ Fail(t) \/ OnDead(t) \/ Xack(t)
TaskFault(t) == MarkRunningFails(t) \/ AckFails(t) \/ FailFails(t) \/ XackFails(t)

Next ==
  \/ ClientStep
  \/ \E d \in Dispatchers : PollStep(d) \/ PollFault(d)
  \/ ReclaimStale
  \/ \E j \in Jobs : Lapse(j)
  \/ \E w \in Workers : LoopStep(w) \/ LoopFault(w)
  \/ \E t \in Tasks : StartStep(t) \/ TaskStep(t) \/ TaskFault(t) \/ Heartbeat(t)

Spec == Init /\ [][Next]_vars

-----------------------------------------------------------------------------
(* Fairness: the poll, consume and reclaim loops run for ever, wait_for bounds *)
(* every handler, and time passes for a row nobody tends.  Nothing forces a    *)
(* client request or a fault.                                                  *)
LapseUntended(j) == ~ Tended(j) /\ Lapse(j)
ClaimIdle(w)     == \E S \in SUBSET pel : S \cap InHand = {} /\ AutoClaim(w, S)

Fairness ==
  /\ \A d \in Dispatchers : WF_vars(PollStep(d))
  /\ WF_vars(ReclaimStale)
  /\ \A j \in Jobs : WF_vars(LapseUntended(j))
  /\ \A w \in Workers : WF_vars(Read(w)) /\ WF_vars(ClaimIdle(w))
  /\ \A t \in Tasks : WF_vars(StartStep(t)) /\ WF_vars(TaskStep(t))

FairSpec == Spec /\ Fairness

-----------------------------------------------------------------------------
(* Properties *)

\* Types: every variable holds a value the code could hold.
TypeOK ==
  /\ row \in [Jobs -> Row]
  /\ claims \in [Jobs -> Nat] /\ starts \in [Jobs -> Nat]
  /\ stream \in Seq(Msg) /\ pel \in SUBSET Msg
  /\ outbox \in [Dispatchers -> SUBSET Msg]
  /\ rolling \in [Dispatchers -> Msg \cup {NoMsg}]
  /\ reading \in [Workers -> Msg \cup {NoMsg}]
  /\ backlog \in [Workers -> SUBSET Msg]
  /\ task \in [Tasks -> Task]
  /\ \A t \in Tasks : task[t].pc # "idle" => task[t].msg \in Msg
  /\ used \in Spending

\* mark_running is the lock of the pipeline.  However often a message is
\* published, redelivered or auto-claimed, one claim of a row starts at most one
\* handler: two handlers of the same job always belong to different claims.
OneRunPerClaim ==
  \A t, u \in Tasks :
    /\ task[t].pc \in Engaged /\ task[u].pc \in Engaged
    /\ t # u /\ JobOf(t) = JobOf(u)
    => task[t].run # task[u].run

\* The attempt counter is honest.  Each failed attempt counted in a row was a
\* handler started on it, and the handlers still running are not yet counted:
\* neither a reclaim nor a rollback nor a redelivery burns an attempt.
AttemptsWereStarts ==
  \A j \in Jobs :
    row[j].attempts
      + Cardinality({t \in Tasks : task[t].pc \in Engaged /\ JobOf(t) = j}) <= starts[j]

\* "multiple workers can process the same stream in parallel without duplicates"
\* (worker/consumer.py:4-5): no job has two handlers at the same time.
NoDuplicates ==
  \A t, u \in Tasks :
    /\ t # u /\ task[t].pc \in Engaged /\ task[u].pc \in Engaged
    => JobOf(t) # JobOf(u)

\* Why NoDuplicates holds while every heartbeat is in time.  An execution belongs
\* to a claim of its row, an unmarked claim belongs to no execution yet, ...
RunsBelong ==
  \A t \in Tasks : task[t].pc \in Engaged =>
    /\ task[t].run <= claims[JobOf(t)]
    /\ row[JobOf(t)].status = "claimed" => task[t].run < claims[JobOf(t)]

\* ... an engaged task runs the latest claim and owns a running, fresh row (or,
\* when pg_ack was applied and raised all the same, a row already done), ...
Owns(t) ==
  /\ task[t].run = claims[JobOf(t)]
  /\ \/ row[JobOf(t)].status = "running" /\ row[JobOf(t)].beat = "fresh"
     \/ row[JobOf(t)].status = "done" /\ task[t].pc = "failing" /\ "db" \in FaultKinds

\* ... and a claimed row is fresh as long as a message for it exists, so that
\* mark_running, which does not write a heartbeat, starts on a fresh row.
Carried(j) ==
  row[j].status = "claimed" /\ (\E m \in Existing \ {NoMsg} : m.job = j)
    => row[j].beat = "fresh"

Ownership ==
  /\ RunsBelong /\ OneRunPerClaim
  /\ \A t \in Tasks : task[t].pc \in Engaged => Owns(t)
  /\ \A j \in Jobs : Carried(j)

\* "a terminal state (done or dead)" (app/job_queue.py:337-338): a row leaves it
\* only from dead, through the retry endpoint.
TerminalIsFinal ==
  [][\A j \in Jobs :
       row[j].status \in Terminal =>
         \/ row'[j].status = row[j].status
         \/ row[j].status = "dead" /\ used'.retries > used.retries]_vars

\* "Reclaim and reconciliation loops ensure no jobs are lost"
\* (job_runner/dispatcher.py:5-6): a pending job reaches done or dead, whatever
\* finite number of faults hits the processes that carry it.
NoJobLost == \A j \in Jobs : row[j].status = "pending" ~> row[j].status \in Terminal

\* Every entry is in the end delivered and acknowledged: the stream empties, and
\* so does the pending-entries list, even of what a dead worker left there.
StreamDrains == <>[](stream = <<>> /\ pel = {})

\* The refinement: a client sees a row as queued until a handler runs on it.
PhaseOf(r) == CASE r.status \in {"pending", "claimed"} -> "queued"
                [] r.status = "running" -> "executing"
                [] OTHER -> r.status

Phase == [j \in Jobs |-> PhaseOf(row[j])]
Tries == [j \in Jobs |-> row[j].attempts]

Lifecycle == INSTANCE JobLifecycle WITH phase <- Phase, tries <- Tries

\* With default timing and no PostgreSQL fault the pipeline implements the
\* lifecycle it promises, through crashes, ambiguous publishes and redelivery.
ImplementsLifecycle == Lifecycle!Spec
=============================================================================
