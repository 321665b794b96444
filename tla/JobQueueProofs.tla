--------------------------- MODULE JobQueueProofs ---------------------------
(***************************************************************************)
(* Machine-checked safety of JobQueue for every number of jobs, processes,  *)
(* slots, attempts and faults.                                              *)
(***************************************************************************)
EXTENDS JobQueue, FiniteSetTheorems, TLAPS

-----------------------------------------------------------------------------
(* What the statements of JobRow return *)

\* Every statement of app/job_queue.py maps a row of the table to a row.
LEMMA RowOperators ==
  ASSUME NEW r \in Row
  PROVE  /\ NoRow \in Row /\ NewRow \in Row
         /\ Claimed(r) \in Row /\ Marked(r) \in Row /\ Acked(r) \in Row
         /\ Failed(r) \in Row /\ Beaten(r) \in Row /\ Reclaimed(r) \in Row
         /\ RolledBack(r) \in Row /\ Retried(r) \in Row /\ Cancelled(r) \in Row
         /\ [r EXCEPT !.beat = "stale"] \in Row
<1>. USE DEF Row, Status, Beat
<1>1. NoRow \in Row /\ NewRow \in Row
  BY DEF NoRow, NewRow
<1>2. Claimed(r) \in Row /\ Beaten(r) \in Row /\ [r EXCEPT !.beat = "stale"] \in Row
  BY DEF Claimed, Beaten
<1>3. Marked(r) \in Row
  BY DEF Marked
<1>4. Acked(r) \in Row
  BY DEF Acked
<1>5. Failed(r) \in Row
  <2>. DEFINE s == IF r.attempts + 1 >= MaxAttempts THEN "dead" ELSE "pending"
  <2>1. r.attempts + 1 \in Nat
    OBVIOUS
  <2>2. s \in Status
    OBVIOUS
  <2>3. Failed(r) = [r EXCEPT !.attempts = @ + 1, !.status = s]
    BY DEF Failed
  <2>. HIDE DEF s
  <2>. QED
    BY <2>1, <2>2, <2>3
<1>6. Reclaimed(r) \in Row
  BY DEF Reclaimed
<1>7. RolledBack(r) \in Row
  BY DEF RolledBack
<1>8. Retried(r) \in Row
  BY <1>1 DEF Retried
<1>9. Cancelled(r) \in Row
  BY DEF Cancelled
<1>. QED
  BY <1>1, <1>2, <1>3, <1>4, <1>5, <1>6, <1>7, <1>8, <1>9

-----------------------------------------------------------------------------
(* Type correctness *)

\* The initial state has the types.
LEMMA TypeInit == Init => TypeOK
<1>1. NoRow \in Row
  BY DEF Row, Status, Beat, NoRow
<1>. QED
  BY <1>1 DEF Init, TypeOK, Idle, Task, Engaged, Spending

\* Spending from a bound leaves a well-typed record.
LEMMA SpendingTypes ==
  ASSUME NEW u \in Spending
  PROVE  /\ [u EXCEPT !.faults = @ + 1] \in Spending
         /\ [u EXCEPT !.cancels = @ + 1] \in Spending
         /\ [u EXCEPT !.retries = @ + 1] \in Spending
<1>1. u.faults + 1 \in Nat /\ u.cancels + 1 \in Nat /\ u.retries + 1 \in Nat
  BY DEF Spending
<1>. QED
  BY <1>1 DEF Spending

\* The requests of clients keep the types.
LEMMA TypeClient == ASSUME TypeOK, ClientStep PROVE TypeOK'
<1>. USE DEF TypeOK, history, redisVars, dispatcherVars, loopVars
<1>1. ASSUME NEW S \in SUBSET Jobs, Enqueue(S) PROVE TypeOK'
  <2>1. \A j \in Jobs : row'[j] \in Row
    BY <1>1, RowOperators DEF Enqueue
  <2>. QED
    BY <1>1, <2>1 DEF Enqueue
<1>2. ASSUME NEW j \in Jobs, Cancel(j) PROVE TypeOK'
  <2>1. Cancelled(row[j]) \in Row
    BY RowOperators
  <2>. QED
    BY <1>2, <2>1, SpendingTypes DEF Cancel, SetRow
<1>3. ASSUME NEW j \in Jobs, Retry(j) PROVE TypeOK'
  <2>1. Retried(row[j]) \in Row
    BY RowOperators
  <2>. QED
    BY <1>3, <2>1, SpendingTypes DEF Retry, SetRow
<1>. QED
  BY <1>1, <1>2, <1>3 DEF ClientStep

\* A fault touches nothing but the budget.
LEMMA FaultType == ASSUME TypeOK, NEW k, Fault(k) PROVE used' \in Spending
BY SpendingTypes DEF Fault, TypeOK

\* A conditional fault keeps the type of the budgets.
LEMMA FaultIfType ==
  ASSUME TypeOK, NEW k, NEW c \in BOOLEAN, FaultIf(c, k) PROVE used' \in Spending
BY FaultType DEF FaultIf, TypeOK

\* A statement applied to one row keeps the table well typed.
LEMMA SetRowType ==
  ASSUME TypeOK, NEW j, NEW r \in Row, SetRow(j, r) PROVE row' \in [Jobs -> Row]
BY DEF SetRow, TypeOK

\* The dispatcher's poll loop keeps the types.
LEMMA TypePoll ==
  ASSUME TypeOK, NEW d \in Dispatchers, PollStep(d) \/ PollFault(d) PROVE TypeOK'
<1>. USE DEF TypeOK, history, redisVars, dispatcherVars, loopVars
<1>1. ASSUME NEW S \in SUBSET Jobs, Dequeue(d, S) PROVE TypeOK'
  <2>1. \A j \in Jobs : Claimed(row[j]) \in Row
    BY RowOperators
  <2>2. row' \in [Jobs -> Row]
    BY <1>1, <2>1 DEF Dequeue
  <2>3. claims' \in [Jobs -> Nat]
    BY <1>1 DEF Dequeue
  <2>4. {[job |-> j, claim |-> claims'[j]] : j \in S} \in SUBSET Msg
    BY <2>3 DEF Msg
  <2>. QED
    BY <1>1, <2>2, <2>3, <2>4 DEF Dequeue
<1>2. ASSUME NEW m \in outbox[d], Publish(d, m) PROVE TypeOK'
  <2>1. m \in Msg
    OBVIOUS
  <2>2. stream' \in Seq(Msg)
    BY <1>2, <2>1 DEF Publish
  <2>3. outbox' \in [Dispatchers -> SUBSET Msg]
    BY <1>2 DEF Publish
  <2>. QED
    BY <1>2, <2>2, <2>3 DEF Publish
<1>3. ASSUME NEW m \in outbox[d], PublishFails(d, m) PROVE TypeOK'
  <2>1. m \in Msg
    OBVIOUS
  <2>2. stream' \in Seq(Msg)
    <3>1. Append(stream, m) \in Seq(Msg)
      BY <2>1
    <3>. QED
      BY <1>3, <3>1 DEF PublishFails
  <2>3. outbox' \in [Dispatchers -> SUBSET Msg]
    BY <1>3 DEF PublishFails
  <2>4. used' \in Spending
    BY <1>3, FaultType DEF PublishFails
  <2>. QED
    BY <1>3, <2>1, <2>2, <2>3, <2>4 DEF PublishFails
<1>4. ASSUME Rollback(d) PROVE TypeOK'
  <2>1. rolling[d] \in Msg
    BY <1>4 DEF Rollback
  <2>2. RolledBack(row[rolling[d].job]) \in Row
    BY <2>1, RowOperators DEF Msg
  <2>3. row' \in [Jobs -> Row]
    BY <1>4, <2>2, SetRowType DEF Rollback
  <2>. QED
    BY <1>4, <2>3 DEF Rollback
<1>5. ASSUME RollbackFails(d) PROVE TypeOK'
  <2>1. used' \in Spending
    BY <1>5, FaultType DEF RollbackFails
  <2>. QED
    BY <1>5, <2>1 DEF RollbackFails
<1>6. ASSUME DispatcherCrash(d) PROVE TypeOK'
  <2>1. used' \in Spending
    BY <1>6, FaultType DEF DispatcherCrash
  <2>. QED
    BY <1>6, <2>1 DEF DispatcherCrash
<1>. QED
  BY <1>1, <1>2, <1>3, <1>4, <1>5, <1>6 DEF PollStep, PollFault

\* The reclaim loop keeps the types.
LEMMA TypeReclaim == ASSUME TypeOK, ReclaimStale PROVE TypeOK'
<1>1. \A j \in Jobs : Reclaimed(row[j]) \in Row
  BY RowOperators DEF TypeOK
<1>. QED
  BY <1>1 DEF TypeOK, ReclaimStale, history, redisVars, dispatcherVars, loopVars

\* A row that goes stale keeps its type.
LEMMA TypeLapse == ASSUME TypeOK, NEW j \in Jobs, Lapse(j) PROVE TypeOK'
<1>1. [row[j] EXCEPT !.beat = "stale"] \in Row
  BY RowOperators DEF TypeOK
<1>2. row' \in [Jobs -> Row]
  BY <1>1, SetRowType DEF Lapse
<1>3. Tended(j) \in BOOLEAN
  BY DEF Tended
<1>4. used' \in Spending
  BY <1>3, FaultIfType DEF Lapse
<1>. QED
  BY <1>2, <1>4 DEF TypeOK, Lapse, history, redisVars, dispatcherVars, loopVars

\* The worker's loops keep the types.
LEMMA TypeLoops ==
  ASSUME TypeOK, NEW w \in Workers, LoopStep(w) \/ LoopFault(w) PROVE TypeOK'
<1>. USE DEF TypeOK, history, redisVars, dispatcherVars, loopVars
<1>0. stream # <<>> => Head(stream) \in Msg /\ Tail(stream) \in Seq(Msg)
  OBVIOUS
<1>1. ASSUME Read(w) PROVE TypeOK'
  BY <1>0, <1>1 DEF Read
<1>2. ASSUME ReadLost(w) PROVE TypeOK'
  <2>1. used' \in Spending
    BY <1>2, FaultType DEF ReadLost
  <2>. QED
    BY <1>0, <1>2, <2>1 DEF ReadLost
<1>3. ASSUME NEW S \in SUBSET pel, AutoClaim(w, S) PROVE TypeOK'
  <2>1. used' \in Spending
    BY <1>3, FaultIfType DEF AutoClaim
  <2>2. backlog' \in [Workers -> SUBSET Msg]
    BY <1>3 DEF AutoClaim
  <2>. QED
    BY <1>3, <2>1, <2>2 DEF AutoClaim
<1>4. ASSUME WorkerCrash(w) PROVE TypeOK'
  <2>1. used' \in Spending
    BY <1>4, FaultType DEF WorkerCrash
  <2>2. Idle \in Task
    BY DEF Idle, Task
  <2>3. task' \in [Tasks -> Task]
    BY <1>4, <2>2 DEF WorkerCrash
  <2>4. \A t \in Tasks : task'[t].pc # "idle" => task'[t].msg \in Msg
    BY <1>4 DEF WorkerCrash, Idle
  <2>. QED
    BY <1>4, <2>1, <2>3, <2>4 DEF WorkerCrash
<1>5. ASSUME WorkerStops(w) PROVE TypeOK'
  <2>1. used' \in Spending
    BY <1>5, FaultType DEF WorkerStops
  <2>2. Idle \in Task /\ \A t \in Tasks : [task[t] EXCEPT !.pc = "xacking"] \in Task
    BY DEF Idle, Task
  <2>3. task' \in [Tasks -> Task]
    BY <1>5, <2>2 DEF WorkerStops
  <2>4. \A t \in Tasks : task'[t].pc # "idle" => task'[t].msg \in Msg
    BY <1>5 DEF WorkerStops, Idle, Task
  <2>. QED
    BY <1>5, <2>1, <2>3, <2>4 DEF WorkerStops
<1>. QED
  BY <1>1, <1>2, <1>3, <1>4, <1>5 DEF LoopStep, LoopFault

\* Moving a busy task to another busy step keeps its message.
LEMMA GotoType ==
  ASSUME TypeOK, NEW t \in Tasks, task[t].pc # "idle",
         NEW l \in Engaged \cup {"hook", "xacking"}, Goto(t, l)
  PROVE  /\ task' \in [Tasks -> Task]
         /\ \A u \in Tasks : task'[u].pc # "idle" => task'[u].msg \in Msg
<1>1. [task[t] EXCEPT !.pc = l] \in Task
  BY DEF TypeOK, Task
<1>. QED
  BY <1>1 DEF TypeOK, Goto, Task

\* A task that ends leaves a typed slot.
LEMMA FinishType ==
  ASSUME TypeOK, NEW t \in Tasks, Finish(t)
  PROVE  /\ task' \in [Tasks -> Task]
         /\ \A u \in Tasks : task'[u].pc # "idle" => task'[u].msg \in Msg
<1>1. Idle \in Task
  BY DEF Idle, Task
<1>. QED
  BY <1>1 DEF TypeOK, Finish, Idle

\* mark_running and the skip of a message keep the types.
LEMMA TypeStart == ASSUME TypeOK, NEW t \in Tasks, StartStep(t) PROVE TypeOK'
<1>. USE DEF TypeOK, history, redisVars, dispatcherVars, loopVars
<1>0. t[1] \in Workers
  BY DEF Tasks
<1>1. ASSUME StartRead(t) PROVE TypeOK'
  <2>1. reading[t[1]] \in Msg
    BY <1>0, <1>1 DEF StartRead
  <2>2. [Idle EXCEPT !.pc = "received", !.msg = reading[t[1]]] \in Task
    BY <2>1 DEF Idle, Task
  <2>3. task' \in [Tasks -> Task]
    BY <1>1, <2>2 DEF StartRead
  <2>4. \A u \in Tasks : task'[u].pc # "idle" => task'[u].msg \in Msg
    BY <1>1, <2>1 DEF StartRead, Idle
  <2>. QED
    BY <1>0, <1>1, <2>3, <2>4 DEF StartRead
<1>2. ASSUME NEW m \in backlog[t[1]], StartClaimed(t, m) PROVE TypeOK'
  <2>1. m \in Msg
    BY <1>0
  <2>2. [Idle EXCEPT !.pc = "received", !.msg = m] \in Task
    BY <2>1 DEF Idle, Task
  <2>3. task' \in [Tasks -> Task]
    BY <1>2, <2>2 DEF StartClaimed
  <2>4. \A u \in Tasks : task'[u].pc # "idle" => task'[u].msg \in Msg
    BY <1>2, <2>1 DEF StartClaimed, Idle
  <2>5. backlog' \in [Workers -> SUBSET Msg]
    BY <1>0, <1>2 DEF StartClaimed
  <2>. QED
    BY <1>2, <2>3, <2>4, <2>5 DEF StartClaimed
<1>. QED
  BY <1>1, <1>2 DEF StartStep

\* The steps of a handler to its XACK keep the types.
LEMMA TypeTask ==
  ASSUME TypeOK, NEW t \in Tasks, TaskStep(t) \/ TaskFault(t) \/ Heartbeat(t)
  PROVE  TypeOK'
<1>. USE DEF history, redisVars, dispatcherVars, loopVars
<1>. DEFINE j == JobOf(t)
<1>0. task[t].pc # "idle" => j \in Jobs
  BY DEF TypeOK, JobOf, Msg
<1>r. j \in Jobs => /\ Marked(row[j]) \in Row /\ Acked(row[j]) \in Row
                   /\ Failed(row[j]) \in Row /\ Beaten(row[j]) \in Row
  BY RowOperators DEF TypeOK
<1>. HIDE DEF j
<1>1. ASSUME MarkRunning(t) PROVE TypeOK'
  <2>1. row' \in [Jobs -> Row]
    BY <1>0, <1>1, <1>r, SetRowType DEF MarkRunning, j
  <2>2. j \in Jobs /\ claims[j] \in Nat
    BY <1>0, <1>1 DEF TypeOK, MarkRunning
  <2>3. [task[t] EXCEPT !.pc = "executing", !.run = claims[j]] \in Task
    BY <2>2 DEF TypeOK, Task, Engaged
  <2>4. task' = [task EXCEPT ![t] = [task[t] EXCEPT !.pc = "executing", !.run = claims[j]]]
    BY <1>1 DEF MarkRunning, j
  <2>5. task' \in [Tasks -> Task]
    BY <2>3, <2>4 DEF TypeOK
  <2>6. \A u \in Tasks : task'[u].pc # "idle" => task'[u].msg \in Msg
    BY <1>1, <2>4 DEF TypeOK, MarkRunning, Task
  <2>7. starts' \in [Jobs -> Nat]
    BY <1>1, <2>2 DEF TypeOK, MarkRunning, j
  <2>. QED
    BY <1>1, <2>1, <2>5, <2>6, <2>7 DEF TypeOK, MarkRunning
<1>2. ASSUME Skip(t) PROVE TypeOK'
  BY <1>2, GotoType DEF TypeOK, Skip
<1>3. ASSUME HandlerReturns(t) PROVE TypeOK'
  BY <1>3, GotoType DEF TypeOK, HandlerReturns, Engaged
<1>4. ASSUME HandlerRaises(t) PROVE TypeOK'
  BY <1>4, GotoType DEF TypeOK, HandlerRaises, Engaged
<1>5. ASSUME Ack(t) PROVE TypeOK'
  <2>1. row' \in [Jobs -> Row]
    BY <1>0, <1>5, <1>r, SetRowType DEF Ack, j
  <2>. QED
    BY <1>5, <2>1, GotoType DEF TypeOK, Ack
<1>6. ASSUME Fail(t) PROVE TypeOK'
  <2>1. row' \in [Jobs -> Row]
    BY <1>0, <1>6, <1>r, SetRowType DEF Fail, j
  <2>2. \E l \in {"hook", "xacking"} : Goto(t, l)
    BY <1>6 DEF Fail
  <2>3. task' \in [Tasks -> Task]
        /\ \A u \in Tasks : task'[u].pc # "idle" => task'[u].msg \in Msg
    BY <1>6, <2>2, GotoType DEF Fail
  <2>. QED
    BY <1>6, <2>1, <2>3 DEF TypeOK, Fail
<1>7. ASSUME OnDead(t) PROVE TypeOK'
  BY <1>7, GotoType DEF TypeOK, OnDead
<1>8. ASSUME Xack(t) PROVE TypeOK'
  BY <1>8, FinishType DEF TypeOK, Xack
<1>9. ASSUME MarkRunningFails(t) PROVE TypeOK'
  <2>1. row' \in [Jobs -> Row]
    BY <1>0, <1>9, <1>r, SetRowType DEF MarkRunningFails, TypeOK, j
  <2>2. used' \in Spending
    BY <1>9, FaultType DEF MarkRunningFails
  <2>. QED
    BY <1>9, <2>1, <2>2, FinishType DEF TypeOK, MarkRunningFails
<1>10. ASSUME AckFails(t) PROVE TypeOK'
  <2>1. row' \in [Jobs -> Row]
    BY <1>0, <1>10, <1>r, SetRowType DEF AckFails, TypeOK, j
  <2>2. used' \in Spending
    BY <1>10, FaultType DEF AckFails
  <2>. QED
    BY <1>10, <2>1, <2>2, GotoType DEF TypeOK, AckFails, Engaged
<1>11. ASSUME FailFails(t) PROVE TypeOK'
  <2>1. row' \in [Jobs -> Row]
    BY <1>0, <1>11, <1>r, SetRowType DEF FailFails, TypeOK, j
  <2>2. used' \in Spending
    BY <1>11, FaultType DEF FailFails
  <2>. QED
    BY <1>11, <2>1, <2>2, GotoType DEF TypeOK, FailFails
<1>12. ASSUME XackFails(t) PROVE TypeOK'
  <2>1. used' \in Spending
    BY <1>12, FaultType DEF XackFails
  <2>. QED
    BY <1>12, <2>1, FinishType DEF TypeOK, XackFails
<1>13. ASSUME Heartbeat(t) PROVE TypeOK'
  <2>1. row' \in [Jobs -> Row]
    BY <1>0, <1>13, <1>r, SetRowType DEF Heartbeat, Engaged, j
  <2>. QED
    BY <1>13, <2>1 DEF TypeOK, Heartbeat
<1>. QED
  BY <1>1, <1>2, <1>3, <1>4, <1>5, <1>6, <1>7, <1>8, <1>9, <1>10, <1>11, <1>12, <1>13
  DEF TaskStep, TaskFault

\* Every step keeps the types.
LEMMA TypeNext == ASSUME TypeOK, [Next]_vars PROVE TypeOK'
<1>1. CASE UNCHANGED vars
  BY <1>1 DEF TypeOK, vars
<1>2. CASE Next
  BY <1>2, TypeClient, TypePoll, TypeReclaim, TypeLapse, TypeLoops, TypeStart, TypeTask
  DEF Next
<1>. QED
  BY <1>1, <1>2

\* Every reachable state of the pipeline is well typed, whatever the processes,
\* jobs and faults: in particular a busy task always carries a message.
THEOREM TypeCorrect == Spec => []TypeOK
<1>1. Init => TypeOK
  BY TypeInit
<1>2. TypeOK /\ [Next]_vars => TypeOK'
  BY TypeNext
<1>. QED
  BY <1>1, <1>2, PTL DEF Spec

-----------------------------------------------------------------------------
(***************************************************************************)
(* Mutual exclusion of handlers.  For every value of the constants, one     *)
(* claim of a row starts one handler; and while every heartbeat is in time  *)
(* and nobody cancels, no job ever has two handlers.                        *)
(***************************************************************************)

ClaimInv == RunsBelong /\ OneRunPerClaim

\* The steps that neither claim a row nor start a handler.
Quiet ==
  /\ \A t \in Tasks : task'[t].pc \in Engaged =>
       /\ task[t].pc \in Engaged
       /\ task'[t].msg = task[t].msg /\ task'[t].run = task[t].run
  /\ claims' = claims
  /\ \A j \in Jobs : row'[j].status = "claimed" => row[j].status = "claimed"

\* Only dequeue claims.
LEMMA OnlyDequeueClaims ==
  ASSUME NEW r \in Row
  PROVE  /\ Marked(r).status # "claimed"
         /\ Failed(r).status # "claimed"
         /\ Acked(r).status = "claimed" => r.status = "claimed"
         /\ Beaten(r).status = r.status
         /\ Reclaimed(r).status = "claimed" => r.status = "claimed"
         /\ RolledBack(r).status # "claimed"
         /\ Retried(r).status = "claimed" => r.status = "claimed"
         /\ Cancelled(r).status # "claimed"
         /\ [r EXCEPT !.beat = "stale"].status = r.status
         /\ NewRow.status # "claimed"
<1>. USE DEF Row, Status, Beat
<1>1. Marked(r).status # "claimed" /\ Beaten(r).status = r.status
  BY DEF Marked, MarkMatches, Beaten
<1>2. Failed(r).status \in {"dead", "pending"}
  BY DEF Failed
<1>3. Acked(r).status = "claimed" => r.status = "claimed"
  BY DEF Acked
<1>4. Reclaimed(r).status = "claimed" => r.status = "claimed"
  BY DEF Reclaimed
<1>5. RolledBack(r).status # "claimed"
  BY DEF RolledBack
<1>6. NewRow.status # "claimed"
  BY DEF NewRow
<1>7. Retried(r).status = "claimed" => r.status = "claimed"
  BY <1>6 DEF Retried
<1>8. Cancelled(r).status # "claimed"
  BY DEF Cancelled, CancelMatches, Terminal
<1>9. [r EXCEPT !.beat = "stale"].status = r.status
  OBVIOUS
<1>. QED
  BY <1>1, <1>2, <1>3, <1>4, <1>5, <1>6, <1>7, <1>8, <1>9

\* A statement on one row that never claims leaves the claimed rows a subset.
LEMMA SetRowQuiet ==
  ASSUME TypeOK, NEW j \in Jobs, NEW r, SetRow(j, r),
         r.status = "claimed" => row[j].status = "claimed"
  PROVE  \A i \in Jobs : row'[i].status = "claimed" => row[i].status = "claimed"
BY DEF SetRow, TypeOK

\* Which steps are quiet: all but Dequeue and MarkRunning.
LEMMA QuietSteps ==
  ASSUME TypeOK, Next
  PROVE  \/ Quiet
         \/ \E d \in Dispatchers, S \in SUBSET Jobs : Dequeue(d, S)
         \/ \E t \in Tasks : MarkRunning(t)
<1>. USE DEF history, redisVars, dispatcherVars, loopVars
<1>0. \A j \in Jobs : row[j] \in Row
  BY DEF TypeOK
<1>1. ASSUME ClientStep PROVE Quiet
  <2>1. ASSUME NEW S \in SUBSET Jobs, Enqueue(S) PROVE Quiet
    BY <1>0, <2>1, OnlyDequeueClaims DEF Enqueue, Quiet
  <2>2. ASSUME NEW j \in Jobs, Cancel(j) PROVE Quiet
    BY <1>0, <2>2, OnlyDequeueClaims, SetRowQuiet DEF Cancel, Quiet
  <2>3. ASSUME NEW j \in Jobs, Retry(j) PROVE Quiet
    BY <1>0, <2>3, OnlyDequeueClaims, SetRowQuiet DEF Retry, Quiet
  <2>. QED
    BY <1>1, <2>1, <2>2, <2>3 DEF ClientStep
<1>2. ASSUME NEW d \in Dispatchers, PollStep(d) \/ PollFault(d),
             ~ \E S \in SUBSET Jobs : Dequeue(d, S)
      PROVE Quiet
  <2>1. ASSUME Rollback(d) PROVE Quiet
    <3>1. rolling[d].job \in Jobs
      BY <2>1 DEF Rollback, TypeOK, Msg
    <3>. QED
      BY <1>0, <2>1, <3>1, OnlyDequeueClaims, SetRowQuiet DEF Rollback, Quiet
  <2>2. ASSUME ~ Rollback(d) PROVE UNCHANGED <<row, claims, task>>
    BY <1>2, <2>2 DEF PollStep, PollFault, Publish, PublishFails, RollbackFails,
                      DispatcherCrash
  <2>. QED
    BY <2>1, <2>2 DEF Quiet
<1>3. ASSUME ReclaimStale PROVE Quiet
  BY <1>0, <1>3, OnlyDequeueClaims DEF ReclaimStale, Quiet
<1>4. ASSUME NEW j \in Jobs, Lapse(j) PROVE Quiet
  BY <1>0, <1>4, OnlyDequeueClaims, SetRowQuiet DEF Lapse, Quiet
<1>5. ASSUME NEW w \in Workers, LoopStep(w) \/ LoopFault(w) PROVE Quiet
  <2>1. ASSUME Read(w) \/ ReadLost(w) \/ \E S \in SUBSET pel : AutoClaim(w, S)
        PROVE Quiet
    BY <2>1 DEF Read, ReadLost, AutoClaim, Quiet
  <2>2. ASSUME WorkerCrash(w) PROVE Quiet
    BY <2>2 DEF WorkerCrash, Quiet, Idle, Engaged
  <2>3. ASSUME WorkerStops(w) PROVE Quiet
    <3>1. \A t \in Tasks : task'[t] # task[t] => task'[t].pc \in {"idle", "xacking"}
      BY <2>3 DEF WorkerStops, TypeOK, Task, Idle
    <3>. QED
      BY <2>3, <3>1 DEF WorkerStops, Quiet, Engaged
  <2>. QED
    BY <1>5, <2>1, <2>2, <2>3 DEF LoopStep, LoopFault
<1>6. ASSUME NEW t \in Tasks, StartStep(t) PROVE Quiet
  <2>1. \A u \in Tasks : task'[u] = task[u] \/ task'[u].pc = "received"
    <3>1. ASSUME StartRead(t) PROVE \A u \in Tasks : task'[u] = task[u] \/ task'[u].pc = "received"
      BY <3>1 DEF StartRead, TypeOK, Idle
    <3>2. ASSUME NEW m \in backlog[t[1]], StartClaimed(t, m)
          PROVE \A u \in Tasks : task'[u] = task[u] \/ task'[u].pc = "received"
      BY <3>2 DEF StartClaimed, TypeOK, Idle
    <3>. QED
      BY <1>6, <3>1, <3>2 DEF StartStep
  <2>2. UNCHANGED <<row, claims>>
    BY <1>6 DEF StartStep, StartRead, StartClaimed
  <2>. QED
    BY <2>1, <2>2 DEF Quiet, Engaged
<1>7. ASSUME NEW t \in Tasks, TaskStep(t) \/ TaskFault(t) \/ Heartbeat(t), ~ MarkRunning(t)
      PROVE Quiet
  <2>0. task[t].pc # "idle" => JobOf(t) \in Jobs
    BY DEF TypeOK, JobOf, Msg
  <2>1. ASSUME NEW l \in Engaged \cup {"hook", "xacking"}, Goto(t, l),
               l \in Engaged => task[t].pc \in Engaged
        PROVE \A u \in Tasks : task'[u].pc \in Engaged =>
                 /\ task[u].pc \in Engaged
                 /\ task'[u].msg = task[u].msg /\ task'[u].run = task[u].run
    BY <2>1 DEF Goto, TypeOK, Task
  <2>2. ASSUME Finish(t)
        PROVE \A u \in Tasks : task'[u].pc \in Engaged =>
                 /\ task[u].pc \in Engaged
                 /\ task'[u].msg = task[u].msg /\ task'[u].run = task[u].run
    BY <2>2 DEF Finish, TypeOK, Idle, Engaged
  <2>3. ASSUME Skip(t) \/ HandlerReturns(t) \/ HandlerRaises(t) \/ OnDead(t) PROVE Quiet
    BY <2>1, <2>3 DEF Skip, HandlerReturns, HandlerRaises, OnDead, Quiet, Engaged
  <2>4. ASSUME Xack(t) \/ XackFails(t) PROVE Quiet
    BY <2>2, <2>4 DEF Xack, XackFails, Quiet
  <2>5. ASSUME Ack(t) \/ AckFails(t) PROVE Quiet
    <3>1. \A i \in Jobs : row'[i].status = "claimed" => row[i].status = "claimed"
      BY <1>0, <2>0, <2>5, OnlyDequeueClaims, SetRowQuiet DEF Ack, AckFails
    <3>. QED
      BY <2>1, <2>5, <3>1 DEF Ack, AckFails, Quiet, Engaged
  <2>6. ASSUME Fail(t) \/ FailFails(t) PROVE Quiet
    <3>1. \A i \in Jobs : row'[i].status = "claimed" => row[i].status = "claimed"
      BY <1>0, <2>0, <2>6, OnlyDequeueClaims, SetRowQuiet DEF Fail, FailFails
    <3>2. \E l \in {"hook", "xacking"} : Goto(t, l)
      BY <2>6 DEF Fail, FailFails
    <3>. QED
      BY <2>1, <2>6, <3>1, <3>2 DEF Fail, FailFails, Quiet, Engaged
  <2>7. ASSUME MarkRunningFails(t) PROVE Quiet
    <3>1. \A i \in Jobs : row'[i].status = "claimed" => row[i].status = "claimed"
      BY <1>0, <2>0, <2>7, OnlyDequeueClaims, SetRowQuiet DEF MarkRunningFails
    <3>. QED
      BY <2>2, <2>7, <3>1 DEF MarkRunningFails, Quiet
  <2>8. ASSUME Heartbeat(t) PROVE Quiet
    <3>1. \A i \in Jobs : row'[i].status = "claimed" => row[i].status = "claimed"
      BY <1>0, <2>0, <2>8, OnlyDequeueClaims, SetRowQuiet DEF Heartbeat, Engaged
    <3>. QED
      BY <2>8, <3>1 DEF Heartbeat, Quiet
  <2>. QED
    BY <1>7, <2>3, <2>4, <2>5, <2>6, <2>7, <2>8 DEF TaskStep, TaskFault
<1>. QED
  BY <1>1, <1>2, <1>3, <1>4, <1>5, <1>6, <1>7 DEF Next, PollStep

\* Steps that neither claim nor start a handler keep the claim invariant.
LEMMA QuietKeepsClaims == ASSUME TypeOK, ClaimInv, Quiet PROVE ClaimInv'
<1>1. \A t \in Tasks : task[t].pc \in Engaged => JobOf(t) \in Jobs
  BY DEF TypeOK, JobOf, Msg, Engaged
<1>2. \A t \in Tasks : task'[t].pc \in Engaged => JobOf(t)' = JobOf(t)
  BY DEF Quiet, JobOf
<1>3. RunsBelong'
  BY <1>1, <1>2 DEF ClaimInv, RunsBelong, Quiet
<1>4. OneRunPerClaim'
  BY <1>1, <1>2 DEF ClaimInv, OneRunPerClaim, Quiet
<1>. QED
  BY <1>3, <1>4 DEF ClaimInv

\* dequeue makes a claim larger than every run of the row.
LEMMA DequeueKeepsClaims ==
  ASSUME TypeOK, ClaimInv, NEW d \in Dispatchers, NEW S \in SUBSET Jobs, Dequeue(d, S)
  PROVE  ClaimInv'
<1>1. \A t \in Tasks : task[t].pc \in Engaged => JobOf(t) \in Jobs /\ task[t].run \in Nat
  BY DEF TypeOK, JobOf, Msg, Engaged, Task
<1>2. \A j \in Jobs : IF j \in S THEN claims'[j] = claims[j] + 1
                      ELSE claims'[j] = claims[j] /\ row'[j] = row[j]
  BY DEF Dequeue
<1>3. UNCHANGED task
  BY DEF Dequeue
<1>4. \A t \in Tasks : JobOf(t)' = JobOf(t)
  BY <1>3 DEF JobOf
<1>5. \A j \in Jobs : claims[j] \in Nat
  BY DEF TypeOK
<1>6. RunsBelong'
  BY <1>1, <1>2, <1>3, <1>4, <1>5 DEF ClaimInv, RunsBelong
<1>7. OneRunPerClaim'
  BY <1>3, <1>4 DEF ClaimInv, OneRunPerClaim
<1>. QED
  BY <1>6, <1>7 DEF ClaimInv

\* The step the theorem is about: an engaged task of the same row runs an older
\* claim, because the row was claimed and not yet marked.
LEMMA MarkRunningKeepsClaims ==
  ASSUME TypeOK, ClaimInv, NEW t \in Tasks, MarkRunning(t) PROVE ClaimInv'
<1>. DEFINE j == JobOf(t)
<1>1. j \in Jobs /\ row[j].status = "claimed" /\ task[t].pc = "received"
  BY DEF TypeOK, JobOf, Msg, MarkRunning, MarkMatches
<1>2. \A u \in Tasks : task[u].pc \in Engaged => JobOf(u) \in Jobs /\ task[u].run \in Nat
  BY DEF TypeOK, JobOf, Msg, Engaged, Task
<1>3. task'[t].run = claims[j] /\ task'[t].msg = task[t].msg
  BY DEF MarkRunning, TypeOK, Task
<1>4. \A u \in Tasks \ {t} : task'[u] = task[u]
  BY DEF MarkRunning, TypeOK
<1>5. \A u \in Tasks : JobOf(u)' = JobOf(u)
  BY <1>3, <1>4 DEF JobOf
<1>6. claims' = claims /\ claims[j] \in Nat
  BY <1>1 DEF MarkRunning, TypeOK
<1>7. row'[j].status # "claimed" /\ \A i \in Jobs \ {j} : row'[i] = row[i]
  BY <1>1, OnlyDequeueClaims DEF MarkRunning, SetRow, TypeOK
<1>8. \A u \in Tasks \ {t} :
        task[u].pc \in Engaged /\ JobOf(u) = j => task[u].run < claims[j]
  BY <1>1 DEF ClaimInv, RunsBelong
<1>9. RunsBelong'
  <2>1. ASSUME NEW u \in Tasks, task'[u].pc \in Engaged
        PROVE  /\ task'[u].run <= claims'[JobOf(u)']
               /\ row'[JobOf(u)'].status = "claimed" => task'[u].run < claims'[JobOf(u)']
    <3>1. CASE u = t
      BY <1>3, <1>5, <1>6, <1>7, <3>1
    <3>2. CASE u # t
      BY <1>2, <1>4, <1>5, <1>6, <1>7, <2>1, <3>2 DEF ClaimInv, RunsBelong
    <3>. QED
      BY <3>1, <3>2
  <2>. QED
    BY <2>1 DEF RunsBelong
<1>10. OneRunPerClaim'
  <2>1. ASSUME NEW u \in Tasks, NEW v \in Tasks, u # v,
               task'[u].pc \in Engaged, task'[v].pc \in Engaged, JobOf(u)' = JobOf(v)'
        PROVE task'[u].run # task'[v].run
    <3>1. CASE u = t
      BY <1>2, <1>3, <1>4, <1>5, <1>6, <1>8, <2>1, <3>1
    <3>2. CASE v = t
      BY <1>2, <1>3, <1>4, <1>5, <1>6, <1>8, <2>1, <3>2
    <3>3. CASE u # t /\ v # t
      BY <1>4, <1>5, <2>1, <3>3 DEF ClaimInv, OneRunPerClaim
    <3>. QED
      BY <3>1, <3>2, <3>3
  <2>. QED
    BY <2>1 DEF OneRunPerClaim
<1>. QED
  BY <1>9, <1>10 DEF ClaimInv

\* No row is claimed and no handler has run at the beginning.
LEMMA ClaimInvInit == Init => ClaimInv
BY DEF Init, ClaimInv, RunsBelong, OneRunPerClaim, Idle, Engaged

\* Every step keeps the claim invariant: dequeue, mark_running, or a quiet one.
LEMMA ClaimInvNext == ASSUME TypeOK, ClaimInv, [Next]_vars PROVE ClaimInv'
<1>1. CASE UNCHANGED vars
  BY <1>1 DEF vars, ClaimInv, RunsBelong, OneRunPerClaim, JobOf
<1>2. CASE Next
  BY <1>2, QuietSteps, QuietKeepsClaims, DequeueKeepsClaims, MarkRunningKeepsClaims
<1>. QED
  BY <1>1, <1>2

\* mark_running is a lock: however a message is duplicated or redelivered, and
\* whatever crashes, one claim of a row starts at most one handler.
THEOREM OneRunPerClaimCorrect == Spec => []OneRunPerClaim
<1>1. Init => TypeOK /\ ClaimInv
  BY TypeInit, ClaimInvInit
<1>2. TypeOK /\ ClaimInv /\ [Next]_vars => TypeOK' /\ ClaimInv'
  BY TypeNext, ClaimInvNext
<1>3. ClaimInv => OneRunPerClaim
  BY DEF ClaimInv
<1>. QED
  BY <1>1, <1>2, <1>3, PTL DEF Spec
-----------------------------------------------------------------------------
(***************************************************************************)
(* The attempt counter.  For every value of the constants, what a row has   *)
(* counted and what is still to be counted were handlers started on it.     *)
(***************************************************************************)

\* The tasks whose handler is not settled yet.
EngagedOn(j) == {t \in Tasks : task[t].pc \in Engaged /\ JobOf(t) = j}

\* Each step engages one task at most, so they are finitely many.
AttemptInv ==
  \A j \in Jobs :
    /\ IsFiniteSet(EngagedOn(j))
    /\ row[j].attempts + Cardinality(EngagedOn(j)) <= starts[j]

\* The steps that start no handler and count no attempt.
Uncounted ==
  /\ starts' = starts
  /\ \A t \in Tasks : task'[t].pc \in Engaged =>
       task[t].pc \in Engaged /\ task'[t].msg = task[t].msg
  /\ \A j \in Jobs : row'[j].attempts <= row[j].attempts

\* Only fail counts an attempt, and a retry forgets them.
LEMMA OnlyFailCounts ==
  ASSUME NEW r \in Row
  PROVE  /\ r.attempts \in Nat
         /\ Claimed(r).attempts <= r.attempts
         /\ Marked(r).attempts <= r.attempts
         /\ Acked(r).attempts <= r.attempts
         /\ Beaten(r).attempts <= r.attempts
         /\ Reclaimed(r).attempts <= r.attempts
         /\ RolledBack(r).attempts <= r.attempts
         /\ Retried(r).attempts <= r.attempts
         /\ Cancelled(r).attempts <= r.attempts
         /\ [r EXCEPT !.beat = "stale"].attempts <= r.attempts
         /\ NewRow.attempts <= r.attempts
         /\ Failed(r).attempts = r.attempts + 1
<1>1. r.attempts \in Nat /\ NewRow.attempts = 0
  BY DEF Row, NewRow
<1>2. Claimed(r).attempts = r.attempts /\ Marked(r).attempts = r.attempts
  BY DEF Row, Claimed, Marked
<1>3. Acked(r).attempts = r.attempts /\ Beaten(r).attempts = r.attempts
  BY DEF Row, Acked, Beaten
<1>4. Reclaimed(r).attempts = r.attempts /\ RolledBack(r).attempts = r.attempts
  BY DEF Row, Reclaimed, RolledBack
<1>5. Cancelled(r).attempts = r.attempts /\ [r EXCEPT !.beat = "stale"].attempts = r.attempts
  BY DEF Row, Cancelled
<1>6. Retried(r).attempts <= r.attempts
  BY <1>1 DEF Retried
<1>7. Failed(r).attempts = r.attempts + 1
  BY DEF Row, Failed
<1>. QED
  BY <1>1, <1>2, <1>3, <1>4, <1>5, <1>6, <1>7

\* A statement on one row that counts nothing.
LEMMA SetRowUncounted ==
  ASSUME TypeOK, NEW j \in Jobs, NEW r, SetRow(j, r), r.attempts <= row[j].attempts
  PROVE  \A i \in Jobs : row'[i].attempts <= row[i].attempts
BY OnlyFailCounts DEF SetRow, TypeOK

\* Which steps count: mark_running, and pg_fail whether it returns or raises.
LEMMA UncountedSteps ==
  ASSUME TypeOK, Next
  PROVE  \/ Uncounted
         \/ \E t \in Tasks : MarkRunning(t) \/ Fail(t) \/ FailFails(t)
<1>. USE DEF history, redisVars, dispatcherVars, loopVars
<1>0. \A j \in Jobs : row[j] \in Row
  BY DEF TypeOK
<1>1. SUFFICES ASSUME \A t \in Tasks : ~ MarkRunning(t) /\ ~ Fail(t) /\ ~ FailFails(t)
               PROVE  Uncounted
  OBVIOUS
<1>2. \A t \in Tasks : task'[t].pc \in Engaged =>
        task[t].pc \in Engaged /\ task'[t].msg = task[t].msg
  BY <1>1, QuietSteps DEF Quiet, Dequeue
<1>3. starts' = starts
  <2>1. ClientStep => starts' = starts
    BY DEF ClientStep, Enqueue, Cancel, Retry
  <2>2. \A d \in Dispatchers : PollStep(d) \/ PollFault(d) => starts' = starts
    BY DEF PollStep, PollFault, Dequeue, Publish, PublishFails, Rollback, RollbackFails,
           DispatcherCrash
  <2>3. \A w \in Workers : LoopStep(w) \/ LoopFault(w) => starts' = starts
    BY DEF LoopStep, LoopFault, Read, ReadLost, AutoClaim, WorkerCrash, WorkerStops
  <2>4. \A t \in Tasks : StartStep(t) \/ TaskStep(t) \/ TaskFault(t) \/ Heartbeat(t) => starts' = starts
    BY <1>1 DEF StartStep, StartRead, StartClaimed, TaskStep, TaskFault, Heartbeat, Skip,
           HandlerReturns, HandlerRaises, Ack, OnDead, Xack, MarkRunningFails, AckFails, XackFails
  <2>. QED
    BY <2>1, <2>2, <2>3, <2>4 DEF Next, ReclaimStale, Lapse
<1>4. \A j \in Jobs : row'[j].attempts <= row[j].attempts
  <2>0. row' = row => \A j \in Jobs : row'[j].attempts <= row[j].attempts
    BY <1>0, OnlyFailCounts
  <2>1. ASSUME ClientStep PROVE \A j \in Jobs : row'[j].attempts <= row[j].attempts
    <3>1. ASSUME NEW S \in SUBSET Jobs, Enqueue(S) PROVE \A j \in Jobs : row'[j].attempts <= row[j].attempts
      BY <1>0, <3>1, OnlyFailCounts DEF Enqueue
    <3>2. ASSUME NEW j \in Jobs, Cancel(j) \/ Retry(j)
          PROVE \A i \in Jobs : row'[i].attempts <= row[i].attempts
      BY <1>0, <3>2, OnlyFailCounts, SetRowUncounted DEF Cancel, Retry
    <3>. QED
      BY <2>1, <3>1, <3>2 DEF ClientStep
  <2>2. ASSUME NEW d \in Dispatchers, PollStep(d) \/ PollFault(d)
        PROVE \A j \in Jobs : row'[j].attempts <= row[j].attempts
    <3>1. ASSUME NEW S \in SUBSET Jobs, Dequeue(d, S)
          PROVE \A j \in Jobs : row'[j].attempts <= row[j].attempts
      BY <1>0, <3>1, OnlyFailCounts DEF Dequeue
    <3>2. ASSUME Rollback(d) PROVE \A j \in Jobs : row'[j].attempts <= row[j].attempts
      <4>1. rolling[d].job \in Jobs
        BY <3>2 DEF Rollback, TypeOK, Msg
      <4>. QED
        BY <1>0, <3>2, <4>1, OnlyFailCounts, SetRowUncounted DEF Rollback
    <3>3. ASSUME ~ Rollback(d), ~ \E S \in SUBSET Jobs : Dequeue(d, S) PROVE row' = row
      BY <2>2, <3>3 DEF PollStep, PollFault, Publish, PublishFails, RollbackFails, DispatcherCrash
    <3>. QED
      BY <2>0, <3>1, <3>2, <3>3
  <2>3. ReclaimStale => \A j \in Jobs : row'[j].attempts <= row[j].attempts
    BY <1>0, OnlyFailCounts DEF ReclaimStale
  <2>4. ASSUME NEW i \in Jobs, Lapse(i) PROVE \A j \in Jobs : row'[j].attempts <= row[j].attempts
    BY <1>0, <2>4, OnlyFailCounts, SetRowUncounted DEF Lapse
  <2>5. \A w \in Workers : LoopStep(w) \/ LoopFault(w) => row' = row
    BY DEF LoopStep, LoopFault, Read, ReadLost, AutoClaim, WorkerCrash, WorkerStops
  <2>6. ASSUME NEW t \in Tasks, StartStep(t) \/ TaskStep(t) \/ TaskFault(t) \/ Heartbeat(t)
        PROVE \A j \in Jobs : row'[j].attempts <= row[j].attempts
    <3>0. task[t].pc # "idle" => JobOf(t) \in Jobs
      BY DEF TypeOK, JobOf, Msg
    <3>1. StartStep(t) => row' = row
      BY DEF StartStep, StartRead, StartClaimed
    <3>2. Skip(t) \/ HandlerReturns(t) \/ HandlerRaises(t) \/ OnDead(t) \/ Xack(t) \/ XackFails(t)
            => row' = row
      BY DEF Skip, HandlerReturns, HandlerRaises, OnDead, Xack, XackFails
    <3>3. ASSUME Ack(t) \/ AckFails(t) PROVE \A j \in Jobs : row'[j].attempts <= row[j].attempts
      <4>1. JobOf(t) \in Jobs
        BY <3>0, <3>3 DEF Ack, AckFails
      <4>2. row' = row \/ SetRow(JobOf(t), Acked(row[JobOf(t)]))
        BY <3>3 DEF Ack, AckFails
      <4>. QED
        BY <1>0, <2>0, <4>1, <4>2, OnlyFailCounts, SetRowUncounted
    <3>4. ASSUME MarkRunningFails(t) PROVE \A j \in Jobs : row'[j].attempts <= row[j].attempts
      <4>1. JobOf(t) \in Jobs
        BY <3>0, <3>4 DEF MarkRunningFails
      <4>2. row' = row \/ SetRow(JobOf(t), Marked(row[JobOf(t)]))
        BY <3>4 DEF MarkRunningFails
      <4>. QED
        BY <1>0, <2>0, <4>1, <4>2, OnlyFailCounts, SetRowUncounted
    <3>5. ASSUME Heartbeat(t) PROVE \A j \in Jobs : row'[j].attempts <= row[j].attempts
      <4>1. JobOf(t) \in Jobs
        BY <3>0, <3>5 DEF Heartbeat, Engaged
      <4>. QED
        BY <1>0, <3>5, <4>1, OnlyFailCounts, SetRowUncounted DEF Heartbeat
    <3>. QED
      BY <1>1, <2>0, <2>6, <3>1, <3>2, <3>3, <3>4, <3>5 DEF TaskStep, TaskFault
  <2>. QED
    BY <2>0, <2>1, <2>2, <2>3, <2>4, <2>5, <2>6 DEF Next
<1>. QED
  BY <1>2, <1>3, <1>4 DEF Uncounted

\* Fewer engaged tasks and no more attempts: nothing new to account for.
LEMMA UncountedKeeps == ASSUME TypeOK, TypeOK', AttemptInv, Uncounted PROVE AttemptInv'
<1> SUFFICES ASSUME NEW j \in Jobs
             PROVE  /\ IsFiniteSet(EngagedOn(j)')
                    /\ row'[j].attempts + Cardinality(EngagedOn(j)') <= starts'[j]
  BY DEF AttemptInv, EngagedOn
<1>1. EngagedOn(j)' \subseteq EngagedOn(j)
  BY DEF EngagedOn, Uncounted, JobOf
<1>2. IsFiniteSet(EngagedOn(j)) /\ row[j].attempts + Cardinality(EngagedOn(j)) <= starts[j]
  BY DEF AttemptInv
<1>3. /\ IsFiniteSet(EngagedOn(j)') /\ Cardinality(EngagedOn(j)') <= Cardinality(EngagedOn(j))
      /\ Cardinality(EngagedOn(j)') \in Nat /\ Cardinality(EngagedOn(j)) \in Nat
  BY <1>1, <1>2, FS_Subset, FS_CardinalityType
<1>4. row[j].attempts \in Nat /\ row'[j].attempts \in Nat /\ starts[j] \in Nat
  BY DEF TypeOK, Row
<1>. QED
  BY <1>2, <1>3, <1>4 DEF Uncounted

\* A handler that is started is counted as a start and as engaged.
LEMMA MarkRunningCounts ==
  ASSUME TypeOK, AttemptInv, NEW t \in Tasks, MarkRunning(t) PROVE AttemptInv'
<1>0. PICK i : i = JobOf(t)
  OBVIOUS
<1>1. i \in Jobs /\ task[t].pc = "received"
  BY <1>0 DEF TypeOK, JobOf, Msg, MarkRunning
<1>2. /\ task'[t].pc = "executing" /\ task'[t].msg = task[t].msg
      /\ \A u \in Tasks \ {t} : task'[u] = task[u]
  BY DEF MarkRunning, TypeOK, Task
<1>3. \A j \in Jobs : EngagedOn(j)' = IF j = i THEN EngagedOn(j) \cup {t} ELSE EngagedOn(j)
  BY <1>0, <1>1, <1>2 DEF EngagedOn, JobOf, Engaged
<1>4. /\ \A j \in Jobs : row[j].attempts \in Nat /\ row'[j].attempts <= row[j].attempts
      /\ \A j \in Jobs : row'[j].attempts \in Nat
  <2>1. \A j \in Jobs : row[j] \in Row
    BY DEF TypeOK
  <2>2. SetRow(i, Marked(row[i]))
    BY <1>0 DEF MarkRunning
  <2>3. \A j \in Jobs : row'[j] \in Row
    BY <1>1, <2>1, <2>2, RowOperators DEF SetRow, TypeOK
  <2>. QED
    BY <1>1, <2>1, <2>2, <2>3, OnlyFailCounts, SetRowUncounted
<1>5. \A j \in Jobs : starts[j] \in Nat /\ starts'[j] = IF j = i THEN starts[j] + 1 ELSE starts[j]
  BY <1>0, <1>1 DEF MarkRunning, TypeOK
<1> SUFFICES ASSUME NEW j \in Jobs
             PROVE  /\ IsFiniteSet(EngagedOn(j)')
                    /\ row'[j].attempts + Cardinality(EngagedOn(j)') <= starts'[j]
  BY DEF AttemptInv, EngagedOn
<1>6. /\ IsFiniteSet(EngagedOn(j)) /\ Cardinality(EngagedOn(j)) \in Nat
      /\ row[j].attempts + Cardinality(EngagedOn(j)) <= starts[j]
  BY FS_CardinalityType DEF AttemptInv
<1>7. CASE j = i
  <2>1. /\ IsFiniteSet(EngagedOn(j) \cup {t})
        /\ Cardinality(EngagedOn(j) \cup {t}) <= Cardinality(EngagedOn(j)) + 1
        /\ Cardinality(EngagedOn(j) \cup {t}) \in Nat
    BY <1>6, FS_AddElement
  <2>. QED
    BY <1>3, <1>4, <1>5, <1>6, <1>7, <2>1
<1>8. CASE j # i
  BY <1>3, <1>4, <1>5, <1>6, <1>8
<1>. QED
  BY <1>7, <1>8

\* A failure is counted for the task that it settles.
LEMMA FailCounts ==
  ASSUME TypeOK, AttemptInv, NEW t \in Tasks, Fail(t) \/ FailFails(t) PROVE AttemptInv'
<1>0. PICK i : i = JobOf(t)
  OBVIOUS
<1>1. i \in Jobs /\ task[t].pc = "failing" /\ starts' = starts
  BY <1>0 DEF TypeOK, JobOf, Msg, Fail, FailFails, history
<1>2. /\ task'[t].pc \in {"hook", "xacking"}
      /\ \A u \in Tasks \ {t} : task'[u] = task[u]
  <2>1. \E l \in {"hook", "xacking"} : Goto(t, l)
    BY DEF Fail, FailFails
  <2>. QED
    BY <2>1 DEF Goto, TypeOK, Task
<1>3. \A j \in Jobs : EngagedOn(j)' = EngagedOn(j) \ {t}
  BY <1>2 DEF EngagedOn, JobOf, Engaged
<1>4. t \in EngagedOn(i)
  BY <1>0, <1>1 DEF EngagedOn, Engaged
<1>5. row' = row \/ SetRow(i, Failed(row[i]))
  BY <1>0 DEF Fail, FailFails
<1>6. \A j \in Jobs :
        /\ row[j].attempts \in Nat /\ row'[j].attempts \in Nat /\ starts[j] \in Nat
        /\ row'[j].attempts <= IF j = i THEN row[j].attempts + 1 ELSE row[j].attempts
  BY <1>1, <1>5, OnlyFailCounts DEF SetRow, TypeOK
<1> SUFFICES ASSUME NEW j \in Jobs
             PROVE  /\ IsFiniteSet(EngagedOn(j)')
                    /\ row'[j].attempts + Cardinality(EngagedOn(j)') <= starts'[j]
  BY DEF AttemptInv, EngagedOn
<1>7. /\ IsFiniteSet(EngagedOn(j)) /\ Cardinality(EngagedOn(j)) \in Nat
      /\ row[j].attempts + Cardinality(EngagedOn(j)) <= starts[j]
  BY FS_CardinalityType DEF AttemptInv
<1>8. /\ IsFiniteSet(EngagedOn(j) \ {t}) /\ Cardinality(EngagedOn(j) \ {t}) \in Nat
      /\ Cardinality(EngagedOn(j) \ {t}) =
           IF t \in EngagedOn(j) THEN Cardinality(EngagedOn(j)) - 1 ELSE Cardinality(EngagedOn(j))
  BY <1>7, FS_RemoveElement, FS_CardinalityType
<1>9. starts'[j] = starts[j] /\ EngagedOn(j)' = EngagedOn(j) \ {t}
  BY <1>1, <1>3
<1>10. \E n \in Nat : n = Cardinality(EngagedOn(j) \ {t})
  BY <1>8
<1>11. \E m \in Nat : m = Cardinality(EngagedOn(j))
  BY <1>7
<1>12. PICK n \in Nat : n = Cardinality(EngagedOn(j) \ {t})
  BY <1>10
<1>13. PICK m \in Nat : m = Cardinality(EngagedOn(j))
  BY <1>11
<1>14. n <= m /\ (j = i => n = m - 1)
  BY <1>4, <1>8, <1>12, <1>13
<1>15. row[j].attempts + m <= starts[j]
  BY <1>7, <1>13
<1>16. row'[j].attempts + n <= starts[j]
  BY <1>6, <1>14, <1>15
<1>. QED
  BY <1>8, <1>9, <1>12, <1>16

\* Nothing is counted at first.
LEMMA AttemptInvInit == Init => AttemptInv
<1> SUFFICES ASSUME Init PROVE AttemptInv
  OBVIOUS
<1>1. \A j \in Jobs : EngagedOn(j) = {}
  BY DEF Init, EngagedOn, Idle, Engaged
<1>2. \A j \in Jobs : row[j].attempts = 0 /\ starts[j] = 0
  BY DEF Init, NoRow
<1>. QED
  BY <1>1, <1>2, FS_EmptySet DEF AttemptInv

\* Every step keeps the account.
LEMMA AttemptInvNext == ASSUME TypeOK, AttemptInv, [Next]_vars PROVE AttemptInv'
<1>1. CASE UNCHANGED vars
  BY <1>1 DEF vars, AttemptInv, EngagedOn, JobOf
<1>2. CASE Next
  BY <1>2, TypeNext, UncountedSteps, UncountedKeeps, MarkRunningCounts, FailCounts
<1>. QED
  BY <1>1, <1>2

\* No reclaim, rollback, redelivery or crash burns an attempt: what a row has
\* counted, with the handlers that are still running, were starts on it.
THEOREM AttemptsWereStartsCorrect == Spec => []AttemptsWereStarts
<1>1. Init => TypeOK /\ AttemptInv
  BY TypeInit, AttemptInvInit
<1>2. TypeOK /\ AttemptInv /\ [Next]_vars => TypeOK' /\ AttemptInv'
  BY TypeNext, AttemptInvNext
<1>3. AttemptInv => AttemptsWereStarts
  BY DEF AttemptInv, AttemptsWereStarts, EngagedOn
<1>. QED
  BY <1>1, <1>2, <1>3, PTL DEF Spec

-----------------------------------------------------------------------------
(* What holds while every heartbeat is in time: a task that has not settled  *)
(* its row owns it.  From it follow mutual exclusion of handlers, and, when  *)
(* no PostgreSQL call fails ambiguously, that a terminal row stays terminal  *)
(* and that the pipeline implements JobLifecycle.                            *)

\* The assumption of these theorems: nothing outlives the threshold that watches
\* it, and no owner cancels a job while it runs.
DefaultTiming == "late" \notin FaultKinds /\ MaxCancels = 0

-----------------------------------------------------------------------------
(* Where messages are *)

Somewhere(m) ==
  \/ \E i \in 1..Len(stream) : stream[i] = m
  \/ m \in pel
  \/ \E d \in Dispatchers : m \in outbox[d] \/ rolling[d] = m
  \/ \E w \in Workers : m \in backlog[w] \/ reading[w] = m
  \/ \E t \in Tasks : task[t].msg = m

\* A message exists where some variable holds it.
LEMMA ExistingMembers == \A m : m \in Existing <=> Somewhere(m)
<1>. SUFFICES ASSUME NEW m PROVE m \in Existing <=> Somewhere(m)
  OBVIOUS
<1>1. m \in {stream[i] : i \in 1..Len(stream)} <=> \E i \in 1..Len(stream) : stream[i] = m
  BY Zenon
<1>2. m \in UNION {outbox[d] \cup {rolling[d]} : d \in Dispatchers}
        <=> \E d \in Dispatchers : m \in outbox[d] \/ rolling[d] = m
  BY Zenon
<1>3. m \in UNION {backlog[w] \cup {reading[w]} : w \in Workers}
        <=> \E w \in Workers : m \in backlog[w] \/ reading[w] = m
  BY Zenon
<1>4. m \in {task[t].msg : t \in Tasks} <=> \E t \in Tasks : task[t].msg = m
  BY Zenon
<1>5. m \in Existing <=>
        \/ m \in {stream[i] : i \in 1..Len(stream)}
        \/ m \in pel
        \/ m \in UNION {outbox[d] \cup {rolling[d]} : d \in Dispatchers}
        \/ m \in UNION {backlog[w] \cup {reading[w]} : w \in Workers}
        \/ m \in {task[t].msg : t \in Tasks}
  <2>. DEFINE A == {stream[i] : i \in 1..Len(stream)}
             B == UNION {outbox[d] \cup {rolling[d]} : d \in Dispatchers}
             C == UNION {backlog[w] \cup {reading[w]} : w \in Workers}
             D == {task[t].msg : t \in Tasks}
  <2>1. Existing = A \cup pel \cup (B \cup C \cup D)
    BY DEF Existing, InHand
  <2>. HIDE DEF A, B, C, D
  <2>2. m \in Existing <=> m \in A \/ m \in pel \/ m \in B \/ m \in C \/ m \in D
    BY <2>1
  <2>. QED
    BY <2>2 DEF A, B, C, D
<1>6. Somewhere(m) <=>
        \/ \E i \in 1..Len(stream) : stream[i] = m
        \/ m \in pel
        \/ \E d \in Dispatchers : m \in outbox[d] \/ rolling[d] = m
        \/ \E w \in Workers : m \in backlog[w] \/ reading[w] = m
        \/ \E t \in Tasks : task[t].msg = m
  BY DEF Somewhere
<1>. QED
  BY <1>1, <1>2, <1>3, <1>4, <1>5, <1>6, Zenon

\* The same in the next state.
LEMMA ExistingMembersNext == \A m : m \in Existing' <=> Somewhere(m)'
<1>. SUFFICES ASSUME NEW m PROVE m \in Existing' <=> Somewhere(m)'
  OBVIOUS
<1>1. m \in {stream'[i] : i \in 1..Len(stream')} <=> \E i \in 1..Len(stream') : stream'[i] = m
  BY Zenon
<1>2. m \in UNION {outbox'[d] \cup {rolling'[d]} : d \in Dispatchers}
        <=> \E d \in Dispatchers : m \in outbox'[d] \/ rolling'[d] = m
  BY Zenon
<1>3. m \in UNION {backlog'[w] \cup {reading'[w]} : w \in Workers}
        <=> \E w \in Workers : m \in backlog'[w] \/ reading'[w] = m
  BY Zenon
<1>4. m \in {task'[t].msg : t \in Tasks} <=> \E t \in Tasks : task'[t].msg = m
  BY Zenon
<1>5. m \in Existing' <=>
        \/ m \in {stream'[i] : i \in 1..Len(stream')}
        \/ m \in pel'
        \/ m \in UNION {outbox'[d] \cup {rolling'[d]} : d \in Dispatchers}
        \/ m \in UNION {backlog'[w] \cup {reading'[w]} : w \in Workers}
        \/ m \in {task'[t].msg : t \in Tasks}
  <2>. DEFINE A == {stream'[i] : i \in 1..Len(stream')}
             B == UNION {outbox'[d] \cup {rolling'[d]} : d \in Dispatchers}
             C == UNION {backlog'[w] \cup {reading'[w]} : w \in Workers}
             D == {task'[t].msg : t \in Tasks}
  <2>1. Existing' = A \cup pel' \cup (B \cup C \cup D)
    BY DEF Existing, InHand
  <2>. HIDE DEF A, B, C, D
  <2>2. m \in Existing' <=> m \in A \/ m \in pel' \/ m \in B \/ m \in C \/ m \in D
    BY <2>1
  <2>. QED
    BY <2>2 DEF A, B, C, D
<1>6. Somewhere(m)' <=>
        \/ \E i \in 1..Len(stream') : stream'[i] = m
        \/ m \in pel'
        \/ \E d \in Dispatchers : m \in outbox'[d] \/ rolling'[d] = m
        \/ \E w \in Workers : m \in backlog'[w] \/ reading'[w] = m
        \/ \E t \in Tasks : task'[t].msg = m
  BY DEF Somewhere
<1>. QED
  BY <1>1, <1>2, <1>3, <1>4, <1>5, <1>6, Zenon

\* No step but dequeue brings a message into being.
LEMMA NoNewMessages ==
  ASSUME TypeOK, Next, ~ \E d \in Dispatchers, S \in SUBSET Jobs : Dequeue(d, S)
  PROVE  \A m : m # NoMsg /\ Somewhere(m)' => Somewhere(m)
<1>. USE DEF history, redisVars, dispatcherVars, loopVars
<1>. DEFINE Kept == \A m : m # NoMsg /\ Somewhere(m)' => Somewhere(m)
<1>1. ASSUME UNCHANGED <<stream, pel, outbox, rolling, reading, backlog>>,
             \A t \in Tasks : task'[t].msg = task[t].msg \/ task'[t].msg = NoMsg
      PROVE  Kept
  BY <1>1 DEF Somewhere
<1>2. ASSUME ClientStep \/ ReclaimStale \/ \E j \in Jobs : Lapse(j) PROVE Kept
  BY <1>1, <1>2 DEF ClientStep, Enqueue, Cancel, Retry, ReclaimStale, Lapse
<1>3. ASSUME NEW d \in Dispatchers, PollStep(d) \/ PollFault(d) PROVE Kept
  <2>1. ASSUME NEW m \in outbox[d], Publish(d, m) \/ PublishFails(d, m) PROVE Kept
    <3>1. m \in Msg
      BY DEF TypeOK
    <3>2. stream' = stream \/ stream' = Append(stream, m)
      BY <2>1 DEF Publish, PublishFails
    <3>3. \A i \in 1..Len(stream') : stream'[i] = m \/ \E k \in 1..Len(stream) : stream[k] = stream'[i]
      BY <3>1, <3>2 DEF TypeOK
    <3>4. \A e \in Dispatchers : outbox'[e] \subseteq outbox[e]
      BY <2>1 DEF Publish, PublishFails, TypeOK
    <3>5. \A e \in Dispatchers : rolling'[e] = m \/ rolling'[e] = rolling[e]
      BY <2>1 DEF Publish, PublishFails, TypeOK
    <3>6. UNCHANGED <<pel, reading, backlog, task>>
      BY <2>1 DEF Publish, PublishFails
    <3>. QED
      BY <3>3, <3>4, <3>5, <3>6 DEF Somewhere
  <2>2. ASSUME Rollback(d) \/ RollbackFails(d) \/ DispatcherCrash(d) PROVE Kept
    <3>1. \A e \in Dispatchers : outbox'[e] \subseteq outbox[e]
      BY <2>2 DEF Rollback, RollbackFails, DispatcherCrash, TypeOK
    <3>2. \A e \in Dispatchers : rolling'[e] = NoMsg \/ rolling'[e] = rolling[e]
      BY <2>2 DEF Rollback, RollbackFails, DispatcherCrash, TypeOK
    <3>3. UNCHANGED <<stream, pel, reading, backlog, task>>
      BY <2>2 DEF Rollback, RollbackFails, DispatcherCrash
    <3>. QED
      BY <3>1, <3>2, <3>3 DEF Somewhere
  <2>. QED
    BY <1>3, <2>1, <2>2 DEF PollStep, PollFault
<1>4. ASSUME NEW w \in Workers, LoopStep(w) \/ LoopFault(w) PROVE Kept
  <2>1. ASSUME Read(w) \/ ReadLost(w) PROVE Kept
    <3>1. stream # <<>> /\ stream' = Tail(stream) /\ pel' = pel \cup {Head(stream)}
      BY <2>1 DEF Read, ReadLost
    <3>2. Head(stream) = stream[1] /\ 1 \in 1..Len(stream)
      BY <3>1 DEF TypeOK
    <3>3. \A i \in 1..Len(stream') : \E k \in 1..Len(stream) : stream[k] = stream'[i]
      <4>1. ASSUME NEW i \in 1..Len(stream') PROVE stream'[i] = stream[i + 1] /\ i + 1 \in 1..Len(stream)
        BY <3>1 DEF TypeOK
      <4>. QED
        BY <4>1
    <3>4. \A v \in Workers : reading'[v] = Head(stream) \/ reading'[v] = reading[v]
      BY <2>1 DEF Read, ReadLost, TypeOK, loopVars
    <3>5. UNCHANGED <<outbox, rolling, backlog, task>>
      BY <2>1 DEF Read, ReadLost
    <3>. QED
      BY <3>1, <3>2, <3>3, <3>4, <3>5 DEF Somewhere
  <2>2. ASSUME NEW S \in SUBSET pel, AutoClaim(w, S) PROVE Kept
    <3>1. \A v \in Workers : backlog'[v] \subseteq backlog[v] \cup pel
      BY <2>2 DEF AutoClaim, TypeOK
    <3>2. UNCHANGED <<stream, pel, outbox, rolling, reading, task>>
      BY <2>2 DEF AutoClaim
    <3>. QED
      BY <3>1, <3>2 DEF Somewhere
  <2>3. ASSUME WorkerCrash(w) \/ WorkerStops(w) PROVE Kept
    <3>1. \A t \in Tasks : task'[t].msg = task[t].msg \/ task'[t].msg = NoMsg
      BY <2>3 DEF WorkerCrash, WorkerStops, Idle, TypeOK, Task
    <3>2. \A v \in Workers : /\ backlog'[v] \subseteq backlog[v]
                             /\ reading'[v] = NoMsg \/ reading'[v] = reading[v]
      BY <2>3 DEF WorkerCrash, WorkerStops, TypeOK
    <3>3. UNCHANGED <<stream, pel, outbox, rolling>>
      BY <2>3 DEF WorkerCrash, WorkerStops
    <3>. QED
      BY <3>1, <3>2, <3>3 DEF Somewhere
  <2>. QED
    BY <1>4, <2>1, <2>2, <2>3 DEF LoopStep, LoopFault
<1>5. ASSUME NEW t \in Tasks, StartStep(t) PROVE Kept
  <2>0. t[1] \in Workers
    BY DEF Tasks
  <2>1. ASSUME StartRead(t) PROVE Kept
    <3>1. \A u \in Tasks : task'[u].msg = task[u].msg \/ task'[u].msg = reading[t[1]]
      BY <2>1 DEF StartRead, TypeOK, Idle
    <3>2. \A v \in Workers : reading'[v] = NoMsg \/ reading'[v] = reading[v]
      BY <2>1 DEF StartRead, TypeOK
    <3>3. UNCHANGED <<stream, pel, outbox, rolling, backlog>>
      BY <2>1 DEF StartRead
    <3>. QED
      BY <2>0, <3>1, <3>2, <3>3 DEF Somewhere
  <2>2. ASSUME NEW m \in backlog[t[1]], StartClaimed(t, m) PROVE Kept
    <3>1. \A u \in Tasks : task'[u].msg = task[u].msg \/ task'[u].msg = m
      BY <2>2 DEF StartClaimed, TypeOK, Idle
    <3>2. \A v \in Workers : backlog'[v] \subseteq backlog[v]
      BY <2>2 DEF StartClaimed, TypeOK
    <3>3. UNCHANGED <<stream, pel, outbox, rolling, reading>>
      BY <2>2 DEF StartClaimed
    <3>. QED
      BY <2>0, <3>1, <3>2, <3>3 DEF Somewhere
  <2>. QED
    BY <1>5, <2>1, <2>2 DEF StartStep
<1>6. ASSUME NEW t \in Tasks, TaskStep(t) \/ TaskFault(t) \/ Heartbeat(t) PROVE Kept
  <2>1. \A u \in Tasks : task'[u].msg = task[u].msg \/ task'[u].msg = NoMsg
    BY <1>6 DEF TaskStep, TaskFault, Heartbeat, MarkRunning, Skip, HandlerReturns,
       HandlerRaises, Ack, Fail, OnDead, Xack, MarkRunningFails, AckFails, FailFails,
       XackFails, Goto, Finish, Idle, TypeOK, Task
  <2>2. UNCHANGED <<stream, outbox, rolling, reading, backlog>> /\ pel' \subseteq pel
    BY <1>6 DEF TaskStep, TaskFault, Heartbeat, MarkRunning, Skip, HandlerReturns,
       HandlerRaises, Ack, Fail, OnDead, Xack, MarkRunningFails, AckFails, FailFails,
       XackFails
  <2>. QED
    BY <2>1, <2>2 DEF Somewhere
<1>. QED
  BY <1>2, <1>3, <1>4, <1>5, <1>6 DEF Next

-----------------------------------------------------------------------------
(* Ownership is inductive *)

\* What a statement makes of a row a task owns.
LEMMA StatementsOnOwned ==
  ASSUME NEW r \in Row, r.status \in {"running", "done"}, r.status = "running" => r.beat = "fresh"
  PROVE  /\ Marked(r) = r /\ Reclaimed(r) = r /\ RolledBack(r) = r /\ Retried(r) = r
         /\ Beaten(r).status = r.status /\ Beaten(r).beat = "fresh"
         /\ r.status = "running" => Acked(r).status = "done"
         /\ r # NoRow
BY DEF Marked, MarkMatches, Reclaimed, IsStale, RolledBack, Retried, Beaten, Acked, NoRow, Row

\* What a statement makes of a fresh claimed row that stays claimed.
LEMMA StatementsOnClaimed ==
  ASSUME NEW r \in Row, r.beat = "fresh"
  PROVE  /\ Marked(r).beat = "fresh" /\ Acked(r).beat = "fresh"
         /\ Failed(r).beat = "fresh" /\ Beaten(r).beat = "fresh"
         /\ Reclaimed(r) = r /\ Claimed(r).beat = "fresh"
         /\ RolledBack(r).status # "claimed"
         /\ Retried(r).status # "claimed" \/ Retried(r) = r
<1>. USE DEF Row
<1>1. Marked(r).beat = "fresh" /\ Acked(r).beat = "fresh" /\ Beaten(r).beat = "fresh"
  BY DEF Marked, Acked, Beaten
<1>2. Failed(r).beat = "fresh"
  BY DEF Failed
<1>3. Reclaimed(r) = r /\ Claimed(r).beat = "fresh"
  BY DEF Reclaimed, IsStale, Claimed
<1>4. RolledBack(r).status # "claimed"
  BY OnlyDequeueClaims
<1>5. Retried(r).status # "claimed" \/ Retried(r) = r
  BY OnlyDequeueClaims DEF Retried
<1>. QED
  BY <1>1, <1>2, <1>3, <1>4, <1>5

\* Two engaged tasks cannot both run the latest claim of one row.
LEMMA OwnershipExcludes == ASSUME TypeOK, Ownership PROVE NoDuplicates
BY DEF Ownership, Owns, OneRunPerClaim, NoDuplicates

\* What ownership says of the row of one engaged task.
LEMMA OwnedRow ==
  ASSUME TypeOK, Ownership, NEW t \in Tasks, task[t].pc \in Engaged
  PROVE  /\ JobOf(t) \in Jobs /\ row[JobOf(t)] \in Row
         /\ row[JobOf(t)].status \in {"running", "done"}
         /\ row[JobOf(t)].status = "running" => row[JobOf(t)].beat = "fresh"
         /\ task[t].pc # "failing" => row[JobOf(t)].status = "running"
         /\ Tended(JobOf(t))
<1>1. JobOf(t) \in Jobs
  BY DEF TypeOK, JobOf, Msg, Engaged
<1>2. Owns(t)
  BY DEF Ownership
<1>3. Tended(JobOf(t))
  BY DEF Tended
<1>. QED
  BY <1>1, <1>2, <1>3 DEF Owns, TypeOK

\* Under default timing the threshold never passes for a tended row.
LEMMA NoLateLapse ==
  ASSUME DefaultTiming, NEW j \in Jobs, Lapse(j) PROVE ~ Tended(j)
BY DEF DefaultTiming, Lapse, FaultIf, Fault

\* Under DefaultTiming nobody cancels.
LEMMA NoCancel == ASSUME DefaultTiming, TypeOK, NEW j \in Jobs PROVE ~ Cancel(j)
BY DEF DefaultTiming, TypeOK, Spending, Cancel

\* No other actor touches the row an engaged task owns.
LEMMA OwnedRowKept ==
  ASSUME DefaultTiming, TypeOK, Ownership, Next, NEW t \in Tasks, task[t].pc \in Engaged,
         ~ (TaskStep(t) \/ TaskFault(t))
  PROVE  /\ claims'[JobOf(t)] = claims[JobOf(t)]
         /\ row'[JobOf(t)].status = row[JobOf(t)].status
         /\ row[JobOf(t)].status = "running" => row'[JobOf(t)].beat = "fresh"
<1>. USE DEF history, redisVars, dispatcherVars, loopVars
<1>. DEFINE j == JobOf(t)
            Kept == /\ claims'[j] = claims[j] /\ row'[j].status = row[j].status
                    /\ row[j].status = "running" => row'[j].beat = "fresh"
<1>0. /\ j \in Jobs /\ row[j] \in Row /\ row[j].status \in {"running", "done"}
      /\ row[j].status = "running" => row[j].beat = "fresh"
      /\ Tended(j)
  BY OwnedRow
<1>1. /\ Marked(row[j]) = row[j] /\ Reclaimed(row[j]) = row[j]
      /\ RolledBack(row[j]) = row[j] /\ Retried(row[j]) = row[j]
      /\ Beaten(row[j]).status = row[j].status /\ Beaten(row[j]).beat = "fresh"
      /\ row[j] # NoRow
  BY <1>0, StatementsOnOwned
<1>. HIDE DEF j
<1>2. ASSUME ClientStep PROVE Kept
  BY <1>0, <1>1, <1>2, NoCancel DEF ClientStep, Enqueue, Retry, SetRow, TypeOK
<1>3. ASSUME NEW d \in Dispatchers, PollStep(d) \/ PollFault(d) PROVE Kept
  <2>1. ASSUME NEW S \in SUBSET Jobs, Dequeue(d, S) PROVE Kept
    BY <1>0, <2>1 DEF Dequeue
  <2>2. ASSUME Rollback(d) PROVE Kept
    BY <1>0, <1>1, <2>2 DEF Rollback, SetRow, TypeOK
  <2>3. ASSUME UNCHANGED <<row, claims>> PROVE Kept
    BY <1>0, <2>3
  <2>. QED
    BY <1>3, <2>1, <2>2, <2>3 DEF PollStep, PollFault, Publish, PublishFails,
       RollbackFails, DispatcherCrash
<1>4. ASSUME ReclaimStale PROVE Kept
  BY <1>0, <1>1, <1>4 DEF ReclaimStale
<1>5. ASSUME NEW i \in Jobs, Lapse(i) PROVE Kept
  <2>1. i # j
    BY <1>0, <1>5, NoLateLapse
  <2>. QED
    BY <1>0, <1>5, <2>1 DEF Lapse, SetRow, TypeOK
<1>6. ASSUME NEW w \in Workers, LoopStep(w) \/ LoopFault(w) PROVE Kept
  BY <1>0, <1>6 DEF LoopStep, LoopFault, Read, ReadLost, AutoClaim, WorkerCrash, WorkerStops
<1>7. ASSUME NEW u \in Tasks, StartStep(u) PROVE Kept
  BY <1>0, <1>7 DEF StartStep, StartRead, StartClaimed
<1>8. ASSUME NEW u \in Tasks, Heartbeat(u) PROVE Kept
  BY <1>0, <1>1, <1>8 DEF Heartbeat, SetRow, TypeOK
<1>9. ASSUME NEW u \in Tasks \ {t}, TaskStep(u) \/ TaskFault(u) PROVE Kept
  <2>1. task[u].pc \in Engaged => JobOf(u) # j
    BY OwnershipExcludes DEF NoDuplicates, j
  <2>2. ASSUME Ack(u) \/ AckFails(u) \/ Fail(u) \/ FailFails(u) PROVE Kept
    BY <1>0, <2>1, <2>2 DEF Ack, AckFails, Fail, FailFails, SetRow, TypeOK, Engaged
  <2>3. ASSUME MarkRunning(u) \/ MarkRunningFails(u) PROVE Kept
    BY <1>0, <1>1, <2>3 DEF MarkRunning, MarkRunningFails, SetRow, TypeOK
  <2>4. ASSUME UNCHANGED <<row, claims>> PROVE Kept
    BY <1>0, <2>4
  <2>. QED
    BY <1>9, <2>2, <2>3, <2>4 DEF TaskStep, TaskFault, Skip, HandlerReturns,
       HandlerRaises, OnDead, Xack, XackFails
<1>. QED
  BY <1>2, <1>3, <1>4, <1>5, <1>6, <1>7, <1>8, <1>9 DEF Next, j

\* A task that stays engaged still owns its row.
LEMMA OwnerKept ==
  ASSUME DefaultTiming, TypeOK, Ownership, Next, NEW t \in Tasks,
         task[t].pc \in Engaged, task'[t].pc \in Engaged
  PROVE  Owns(t)'
<1>. DEFINE j == JobOf(t)
<1>0. /\ j \in Jobs /\ row[j] \in Row /\ row[j].status \in {"running", "done"}
      /\ row[j].status = "running" => row[j].beat = "fresh"
      /\ task[t].pc # "failing" => row[j].status = "running"
  BY OwnedRow
<1>1. Owns(t)
  BY DEF Ownership
<1>2. CASE TaskStep(t) \/ TaskFault(t)
  <2>1. CASE HandlerReturns(t) \/ HandlerRaises(t)
    <3>1. UNCHANGED <<row, claims>> /\ task'[t].msg = task[t].msg /\ task'[t].run = task[t].run
      BY <2>1 DEF HandlerReturns, HandlerRaises, history, Goto, TypeOK, Task
    <3>2. task[t].pc = "executing"
      BY <2>1 DEF HandlerReturns, HandlerRaises
    <3>. QED
      BY <1>0, <1>1, <3>1, <3>2 DEF Owns, JobOf
  <2>2. CASE AckFails(t)
    <3>1. /\ UNCHANGED claims /\ task'[t].msg = task[t].msg /\ task'[t].run = task[t].run
          /\ task'[t].pc = "failing" /\ task[t].pc = "acking"
      BY <2>2 DEF AckFails, history, Goto, TypeOK, Task
    <3>2. "db" \in FaultKinds
      BY <2>2 DEF AckFails, Fault
    <3>3. Acked(row[j]).status = "done"
      BY <1>0, <3>1, StatementsOnOwned
    <3>4. row' = row \/ row'[j] = Acked(row[j])
      BY <1>0, <2>2 DEF AckFails, SetRow, TypeOK
    <3>5. JobOf(t)' = j
      BY <3>1 DEF JobOf
    <3>. QED
      BY <1>0, <1>1, <3>1, <3>2, <3>3, <3>4, <3>5 DEF Owns
  <2>. QED
    <3>1. task'[t].pc \notin Engaged \/ HandlerReturns(t) \/ HandlerRaises(t) \/ AckFails(t)
      BY <1>2 DEF TaskStep, TaskFault, MarkRunning, Skip, Ack, Fail, OnDead, Xack,
         MarkRunningFails, FailFails, XackFails, Goto, Finish, Idle, TypeOK, Engaged, Task
    <3>. QED
      BY <2>1, <2>2, <3>1
<1>3. CASE ~ (TaskStep(t) \/ TaskFault(t))
  <2>1. /\ claims'[j] = claims[j] /\ row'[j].status = row[j].status
        /\ row[j].status = "running" => row'[j].beat = "fresh"
    BY <1>3, OwnedRowKept
  <2>2. task'[t].msg = task[t].msg /\ task'[t].run = task[t].run /\ task'[t].pc = task[t].pc
    <3>1. ASSUME NEW w \in Workers, WorkerCrash(w) \/ WorkerStops(w) PROVE task'[t] = task[t]
      <4>1. CASE t[1] # w
        BY <3>1, <4>1 DEF WorkerCrash, WorkerStops
      <4>2. CASE t[1] = w
        <5>1. task'[t].pc \in {"idle", "xacking"}
          BY <3>1, <4>2 DEF WorkerCrash, WorkerStops, Idle, TypeOK, Task
        <5>. QED
          BY <5>1 DEF Engaged
      <4>. QED
        BY <4>1, <4>2
    <3>2. ASSUME NEW u \in Tasks, StartStep(u) PROVE task'[t] = task[t]
      <4>1. u # t
        <5>1. task[u] = Idle
          BY <3>2 DEF StartStep, StartRead, StartClaimed
        <5>. QED
          BY <5>1 DEF Idle, Engaged
      <4>2. \E x : task' = [task EXCEPT ![u] = x]
        BY <3>2 DEF StartStep, StartRead, StartClaimed
      <4>. QED
        BY <4>1, <4>2 DEF TypeOK
    <3>3. ASSUME NEW u \in Tasks \ {t}, TaskStep(u) \/ TaskFault(u) PROVE task'[t] = task[t]
      BY <3>3 DEF TaskStep, TaskFault, MarkRunning, Skip, HandlerReturns,
       HandlerRaises, Ack, Fail, OnDead, Xack, MarkRunningFails, AckFails, FailFails,
       XackFails, Goto, Finish, TypeOK
    <3>4. ASSUME UNCHANGED task PROVE task'[t] = task[t]
      BY <3>4
    <3>. QED
      BY <1>3, <3>1, <3>2, <3>3, <3>4 DEF Next, ClientStep, Enqueue, Cancel, Retry,
         PollStep, PollFault, Dequeue, Publish, PublishFails, Rollback, RollbackFails,
         DispatcherCrash, ReclaimStale, Lapse, LoopStep, LoopFault, Read, ReadLost,
         AutoClaim, Heartbeat
  <2>3. JobOf(t)' = j
    BY <2>2 DEF JobOf
  <2>. QED
    BY <1>0, <1>1, <2>1, <2>2, <2>3 DEF Owns
<1>. QED
  BY <1>2, <1>3

\* A task that becomes engaged does so through mark_running, on a fresh row.
LEMMA OwnerMade ==
  ASSUME TypeOK, Ownership, NEW t \in Tasks, MarkRunning(t) PROVE Owns(t)'
<1>. DEFINE j == JobOf(t)
<1>1. j \in Jobs /\ task[t].msg \in Msg /\ row[j].status = "claimed" /\ task[t].pc = "received"
  BY DEF TypeOK, JobOf, Msg, MarkRunning, MarkMatches
<1>2. task[t].msg # NoMsg
  BY <1>1, QueueAssumption
<1>3. task[t].msg \in Existing
  BY ExistingMembers DEF Somewhere
<1>4. row[j].beat = "fresh"
  BY <1>1, <1>2, <1>3 DEF Ownership, Carried, JobOf
<1>5. row[j] \in Row
  BY <1>1 DEF TypeOK
<1>6. Marked(row[j]).status = "running" /\ Marked(row[j]).beat = "fresh"
  BY <1>1, <1>4, <1>5 DEF Marked, MarkMatches, Row
<1>7. row'[j] = Marked(row[j]) /\ claims' = claims
  BY <1>1 DEF MarkRunning, SetRow, TypeOK
<1>8. task'[t].msg = task[t].msg /\ task'[t].run = claims[j]
  BY DEF MarkRunning, TypeOK, Task
<1>9. JobOf(t)' = j
  BY <1>8 DEF JobOf
<1>. QED
  BY <1>6, <1>7, <1>8, <1>9 DEF Owns

\* Every step keeps engaged tasks the owners of their rows.
LEMMA OwnersNext ==
  ASSUME DefaultTiming, TypeOK, Ownership, Next
  PROVE  \A t \in Tasks : task'[t].pc \in Engaged => Owns(t)'
<1>. SUFFICES ASSUME NEW t \in Tasks, task'[t].pc \in Engaged PROVE Owns(t)'
  OBVIOUS
<1>1. CASE task[t].pc \in Engaged
  BY <1>1, OwnerKept
<1>2. CASE MarkRunning(t)
  BY <1>2, OwnerMade
<1>3. CASE task[t].pc \notin Engaged /\ ~ MarkRunning(t)
  <2>1. ~ Quiet
    BY <1>3 DEF Quiet
  <2>2. \A d \in Dispatchers, S \in SUBSET Jobs : Dequeue(d, S) => UNCHANGED task
    BY DEF Dequeue
  <2>3. \A u \in Tasks \ {t} : MarkRunning(u) => task'[t] = task[t]
    BY DEF MarkRunning, TypeOK
  <2>. QED
    BY <1>3, <2>1, <2>2, <2>3, QuietSteps
<1>. QED
  BY <1>1, <1>2, <1>3

\* No step but a lapse takes the freshness of a row that stays claimed.
LEMMA FreshClaimKept ==
  ASSUME DefaultTiming, TypeOK, Next, NEW j \in Jobs, Tended(j),
         row[j].status = "claimed", row[j].beat = "fresh", row'[j].status = "claimed"
  PROVE  row'[j].beat = "fresh"
<1>. USE DEF history, redisVars, dispatcherVars, loopVars
<1>0. row[j] \in Row
  BY DEF TypeOK
<1>1. /\ Marked(row[j]).beat = "fresh" /\ Acked(row[j]).beat = "fresh"
      /\ Failed(row[j]).beat = "fresh" /\ Beaten(row[j]).beat = "fresh"
      /\ Reclaimed(row[j]) = row[j]
      /\ RolledBack(row[j]).status # "claimed"
      /\ Retried(row[j]).status # "claimed" \/ Retried(row[j]) = row[j]
  BY <1>0, StatementsOnClaimed
<1>. DEFINE Fresh == row'[j].beat = "fresh"
<1>2. ASSUME ClientStep PROVE Fresh
  <2>1. ASSUME NEW S \in SUBSET Jobs, Enqueue(S) PROVE Fresh
    BY <2>1 DEF Enqueue, NoRow
  <2>2. ASSUME NEW i \in Jobs, Retry(i) PROVE Fresh
    BY <1>1, <2>2 DEF Retry, SetRow, TypeOK
  <2>. QED
    BY <1>2, <2>1, <2>2, NoCancel DEF ClientStep
<1>3. ASSUME NEW d \in Dispatchers, PollStep(d) \/ PollFault(d) PROVE Fresh
  <2>1. ASSUME NEW S \in SUBSET Jobs, Dequeue(d, S) PROVE Fresh
    BY <1>0, <2>1 DEF Dequeue
  <2>2. ASSUME Rollback(d) PROVE Fresh
    BY <1>0, <1>1, <2>2 DEF Rollback, SetRow, TypeOK
  <2>3. ASSUME UNCHANGED row PROVE Fresh
    BY <2>3
  <2>. QED
    BY <1>3, <2>1, <2>2, <2>3 DEF PollStep, PollFault, Publish, PublishFails,
       RollbackFails, DispatcherCrash
<1>4. ASSUME ReclaimStale PROVE Fresh
  BY <1>1, <1>4 DEF ReclaimStale
<1>5. ASSUME NEW i \in Jobs, Lapse(i) PROVE Fresh
  <2>1. i # j
    BY <1>5, NoLateLapse
  <2>. QED
    BY <1>5, <2>1 DEF Lapse, SetRow, TypeOK
<1>6. ASSUME NEW w \in Workers, LoopStep(w) \/ LoopFault(w) PROVE Fresh
  BY <1>6 DEF LoopStep, LoopFault, Read, ReadLost, AutoClaim, WorkerCrash, WorkerStops
<1>7. ASSUME NEW u \in Tasks, StartStep(u) PROVE Fresh
  BY <1>7 DEF StartStep, StartRead, StartClaimed
<1>8. ASSUME NEW u \in Tasks, TaskStep(u) \/ TaskFault(u) \/ Heartbeat(u) PROVE Fresh
  <2>1. ASSUME MarkRunning(u) \/ MarkRunningFails(u) \/ Ack(u) \/ AckFails(u) PROVE Fresh
    BY <1>1, <2>1 DEF MarkRunning, MarkRunningFails, Ack, AckFails, SetRow, TypeOK
  <2>2. ASSUME Fail(u) \/ FailFails(u) \/ Heartbeat(u) PROVE Fresh
    BY <1>1, <2>2 DEF Fail, FailFails, Heartbeat, SetRow, TypeOK
  <2>3. ASSUME UNCHANGED row PROVE Fresh
    BY <2>3
  <2>. QED
    BY <1>8, <2>1, <2>2, <2>3 DEF TaskStep, TaskFault, Skip, HandlerReturns,
       HandlerRaises, OnDead, Xack, XackFails
<1>. QED
  BY <1>2, <1>3, <1>4, <1>5, <1>6, <1>7, <1>8 DEF Next

\* Every step keeps a claimed row with a message fresh.
LEMMA CarriedNext ==
  ASSUME DefaultTiming, TypeOK, Ownership, Next, NEW j \in Jobs PROVE Carried(j)'
<1>. SUFFICES ASSUME row'[j].status = "claimed", NEW m \in Existing', m # NoMsg, m.job = j
              PROVE row'[j].beat = "fresh"
  BY DEF Carried
<1>1. CASE \E d \in Dispatchers, S \in SUBSET Jobs : Dequeue(d, S)
  <2>. PICK d \in Dispatchers, S \in SUBSET Jobs : Dequeue(d, S)
    BY <1>1
  <2>1. CASE j \in S
    <3>1. row'[j] = Claimed(row[j]) /\ row[j] \in Row
      BY <2>1 DEF Dequeue, TypeOK
    <3>. QED
      BY <3>1 DEF Claimed, Row
  <2>2. CASE j \notin S
    <3>1. row'[j] = row[j]
      BY <2>2 DEF Dequeue
    <3>2. m \notin {[job |-> i, claim |-> claims'[i]] : i \in S}
      BY <2>2
    <3>3. \A e \in Dispatchers :
            m \in outbox'[e] => m \in outbox[e] \/ m \in {[job |-> i, claim |-> claims'[i]] : i \in S}
      BY DEF Dequeue, TypeOK
    <3>4. UNCHANGED <<stream, pel, rolling, reading, backlog, task>>
      BY DEF Dequeue, redisVars, loopVars
    <3>5. Somewhere(m)
      BY <3>2, <3>3, <3>4, ExistingMembersNext DEF Somewhere
    <3>6. m \in Existing
      BY <3>5, ExistingMembers
    <3>. QED
      BY <3>1, <3>6 DEF Ownership, Carried
  <2>. QED
    BY <2>1, <2>2
<1>2. CASE ~ \E d \in Dispatchers, S \in SUBSET Jobs : Dequeue(d, S)
  <2>1. m \in Existing
    BY <1>2, NoNewMessages, ExistingMembers, ExistingMembersNext
  <2>2. row[j].status = "claimed"
    <3>1. CASE Quiet
      BY <3>1 DEF Quiet
    <3>2. CASE \E t \in Tasks : MarkRunning(t)
      <4>. PICK t \in Tasks : MarkRunning(t)
        BY <3>2
      <4>1. JobOf(t) \in Jobs
        BY DEF TypeOK, JobOf, Msg, MarkRunning
      <4>2. row[JobOf(t)] \in Row
        BY <4>1 DEF TypeOK
      <4>3. Marked(row[JobOf(t)]).status # "claimed"
        BY <4>2, OnlyDequeueClaims
      <4>. QED
        BY <4>1, <4>3 DEF MarkRunning, SetRow, TypeOK
    <3>. QED
      BY <1>2, <3>1, <3>2, QuietSteps
  <2>3. row[j].beat = "fresh" /\ Tended(j)
    BY <2>1, <2>2 DEF Ownership, Carried, Tended
  <2>. QED
    BY <2>2, <2>3, FreshClaimKept
<1>. QED
  BY <1>1, <1>2

\* No task is engaged and no message exists at the beginning.
LEMMA OwnershipInit == Init => Ownership
<1>. SUFFICES ASSUME Init PROVE Ownership
  OBVIOUS
<1>1. \A j \in Jobs : row[j].status # "claimed"
  BY DEF Init, NoRow
<1>2. \A t \in Tasks : task[t].pc \notin Engaged
  BY DEF Init, Idle, Engaged
<1>. QED
  BY <1>1, <1>2, ClaimInvInit DEF Ownership, ClaimInv, Carried

\* Every step keeps the two parts of the invariant.
LEMMA OwnershipNext == ASSUME DefaultTiming, TypeOK, Ownership, [Next]_vars PROVE Ownership'
<1>1. CASE UNCHANGED vars
  <2>1. Existing' = Existing
    BY <1>1 DEF vars, Existing, InHand
  <2>. QED
    BY <1>1, <2>1 DEF vars, Ownership, RunsBelong, OneRunPerClaim, Owns, Carried, JobOf
<1>2. CASE Next
  <2>1. ClaimInv'
    BY <1>2, ClaimInvNext DEF Ownership, ClaimInv
  <2>. QED
    BY <1>2, <2>1, OwnersNext, CarriedNext DEF Ownership, ClaimInv
<1>. QED
  BY <1>1, <1>2

\* While heartbeats are in time an unsettled task owns its row: it runs the
\* latest claim of a row that is running and fresh.
THEOREM OwnershipCorrect == ASSUME DefaultTiming PROVE Spec => []Ownership
<1>1. Init => TypeOK /\ Ownership
  BY TypeInit, OwnershipInit
<1>2. TypeOK /\ Ownership /\ [Next]_vars => TypeOK' /\ Ownership'
  BY TypeNext, OwnershipNext
<1>. QED
  BY <1>1, <1>2, PTL DEF Spec

\* "without duplicates": two handlers of one job never run together.
THEOREM NoDuplicatesCorrect == ASSUME DefaultTiming PROVE Spec => []NoDuplicates
<1>1. TypeOK /\ Ownership => NoDuplicates
  BY OwnershipExcludes
<1>. QED
  BY <1>1, TypeCorrect, OwnershipCorrect, PTL

-----------------------------------------------------------------------------
(***************************************************************************)
(* With default timing and PostgreSQL calls that either succeed or are not  *)
(* applied, the pipeline is a JobLifecycle: every step of a dispatcher, a   *)
(* worker or the stream is a step of the lifecycle or invisible to it.      *)
(***************************************************************************)

CleanCalls == DefaultTiming /\ "db" \notin FaultKinds

\* Without an ambiguous ack, an engaged task's row is running.
LEMMA EngagedRowRuns ==
  ASSUME CleanCalls, TypeOK, Ownership, NEW t \in Tasks, task[t].pc \in Engaged
  PROVE  JobOf(t) \in Jobs /\ row[JobOf(t)] \in Row /\ row[JobOf(t)].status = "running"
BY OwnedRow DEF CleanCalls, Ownership, Owns

\* Under CleanCalls no PostgreSQL call raises.
LEMMA NoDbFault == ASSUME CleanCalls PROVE ~ Fault("db")
BY DEF CleanCalls, Fault

-----------------------------------------------------------------------------
(* Terminal rows *)

\* A statement applied to one row leaves the status of every other row.
LEMMA TerminalByOne ==
  ASSUME TypeOK, NEW j \in Jobs, NEW r, SetRow(j, r),
         row[j].status \in Terminal => r.status = row[j].status
  PROVE  \A i \in Jobs : row[i].status \in Terminal => row'[i].status = row[i].status
BY DEF SetRow, TypeOK

\* The guarded statements leave a done or dead row alone.
LEMMA StatementsOnTerminal ==
  ASSUME NEW r \in Row, r.status \in Terminal
  PROVE  /\ Marked(r) = r /\ RolledBack(r) = r /\ Reclaimed(r) = r /\ r # NoRow
         /\ Beaten(r).status = r.status /\ [r EXCEPT !.beat = "stale"].status = r.status
BY DEF Terminal, Marked, MarkMatches, RolledBack, Reclaimed, IsStale, NoRow, Beaten, Row

\* A step changes a dead row only by a retry, and a done row never.
LEMMA TerminalStep ==
  ASSUME CleanCalls, TypeOK, Ownership, Next, NEW j \in Jobs, row[j].status \in Terminal
  PROVE  \/ row'[j].status = row[j].status
         \/ row[j].status = "dead" /\ used'.retries > used.retries
<1>. USE DEF history, redisVars, dispatcherVars, loopVars
<1>. DEFINE Final == row'[j].status = row[j].status
<1>0. row[j] \in Row
  BY DEF TypeOK
<1>1. /\ Marked(row[j]) = row[j] /\ RolledBack(row[j]) = row[j] /\ Reclaimed(row[j]) = row[j]
      /\ row[j] # NoRow /\ Beaten(row[j]).status = row[j].status
      /\ [row[j] EXCEPT !.beat = "stale"].status = row[j].status
  BY <1>0, StatementsOnTerminal
<1>2. ASSUME NEW S \in SUBSET Jobs, Enqueue(S) PROVE Final
  BY <1>1, <1>2 DEF Enqueue
<1>3. ASSUME NEW i \in Jobs, Retry(i)
      PROVE Final \/ (row[j].status = "dead" /\ used'.retries > used.retries)
  <2>1. CASE i = j
    <3>1. used'.retries = used.retries + 1 /\ used.retries \in Nat
      BY <1>3 DEF Retry, TypeOK, Spending
    <3>. QED
      BY <1>3, <2>1, <3>1 DEF Retry
  <2>2. CASE i # j
    BY <1>3, <2>2 DEF Retry, SetRow, TypeOK
  <2>. QED
    BY <2>1, <2>2
<1>4. ASSUME NEW d \in Dispatchers, PollStep(d) \/ PollFault(d) PROVE Final
  <2>1. ASSUME NEW S \in SUBSET Jobs, Dequeue(d, S) PROVE Final
    BY <2>1 DEF Dequeue, Terminal
  <2>2. ASSUME Rollback(d) PROVE Final
    BY <1>1, <2>2 DEF Rollback, SetRow, TypeOK
  <2>3. ASSUME UNCHANGED row PROVE Final
    BY <2>3
  <2>. QED
    BY <1>4, <2>1, <2>2, <2>3 DEF PollStep, PollFault, Publish, PublishFails,
       RollbackFails, DispatcherCrash
<1>5. ASSUME ReclaimStale PROVE Final
  BY <1>1, <1>5 DEF ReclaimStale
<1>6. ASSUME NEW i \in Jobs, Lapse(i) PROVE Final
  BY <1>1, <1>6 DEF Lapse, SetRow, TypeOK
<1>7. ASSUME NEW w \in Workers, LoopStep(w) \/ LoopFault(w) PROVE Final
  BY <1>7 DEF LoopStep, LoopFault, Read, ReadLost, AutoClaim, WorkerCrash, WorkerStops
<1>8. ASSUME NEW u \in Tasks, StartStep(u) PROVE Final
  BY <1>8 DEF StartStep, StartRead, StartClaimed
<1>9. ASSUME NEW u \in Tasks, TaskStep(u) \/ TaskFault(u) \/ Heartbeat(u) PROVE Final
  <2>1. ASSUME MarkRunning(u) \/ Heartbeat(u) PROVE Final
    BY <1>1, <2>1 DEF MarkRunning, Heartbeat, SetRow, TypeOK
  <2>2. ASSUME Ack(u) \/ Fail(u) PROVE Final
    <3>1. JobOf(u) # j
      BY <2>2, EngagedRowRuns DEF Ack, Fail, Engaged, Terminal
    <3>. QED
      BY <2>2, <3>1 DEF Ack, Fail, SetRow, TypeOK
  <2>3. ASSUME UNCHANGED row PROVE Final
    BY <2>3
  <2>. QED
    BY <1>9, <2>1, <2>2, <2>3, NoDbFault DEF TaskStep, TaskFault, Skip, HandlerReturns,
       HandlerRaises, OnDead, Xack, XackFails, MarkRunningFails, AckFails, FailFails
<1>. QED
  BY <1>2, <1>3, <1>4, <1>5, <1>6, <1>7, <1>8, <1>9, NoCancel
  DEF Next, ClientStep, CleanCalls

\* done and dead are terminal: with clean calls no redelivery, reclaim, rollback
\* or late ack moves a row out of them; only the retry endpoint does.
THEOREM TerminalIsFinalCorrect == ASSUME CleanCalls PROVE Spec => TerminalIsFinal
<1>1. TypeOK /\ Ownership /\ [Next]_vars =>
        [\A j \in Jobs : row[j].status \in Terminal =>
           \/ row'[j].status = row[j].status
           \/ row[j].status = "dead" /\ used'.retries > used.retries]_vars
  BY TerminalStep
<1>2. Spec => []TypeOK /\ []Ownership
  BY TypeCorrect, OwnershipCorrect DEF CleanCalls
<1>. QED
  BY <1>1, <1>2, PTL DEF Spec, TerminalIsFinal

-----------------------------------------------------------------------------
(* The refinement *)

\* The phase of JobLifecycle a row is in is decided by its status.
LEMMA PhaseOfRow ==
  ASSUME NEW r \in Row
  PROVE  /\ r.status \in {"pending", "claimed"} => PhaseOf(r) = "queued"
         /\ r.status = "running" => PhaseOf(r) = "executing"
         /\ r.status \in {"absent", "done", "dead"} => PhaseOf(r) = r.status
BY DEF PhaseOf, Row, Status

\* Steps that change no phase and no attempt count are invisible.
LEMMA Invisible ==
  ASSUME TypeOK,
         \A j \in Jobs : /\ PhaseOf(row'[j]) = PhaseOf(row[j])
                         /\ row'[j].attempts = row[j].attempts
  PROVE  UNCHANGED Lifecycle!jobVars
<1>1. \A j \in Jobs : Phase'[j] = Phase[j] /\ Tries'[j] = Tries[j]
  BY DEF Phase, Tries, PhaseOf
<1>2. Phase' = Phase /\ Tries' = Tries
  BY <1>1 DEF Phase, Tries
<1>. QED
  BY <1>2 DEF Lifecycle!jobVars

\* A statement on one row moves that row's phase and no other.
LEMMA OneRowMoves ==
  ASSUME TypeOK, NEW j \in Jobs, NEW r \in Row, SetRow(j, r)
  PROVE  /\ Lifecycle!Move({j}, PhaseOf(row[j]), PhaseOf(r))
         /\ Tries' = [Tries EXCEPT ![j] = r.attempts]
<1>1. row'[j] = r /\ \A i \in Jobs \ {j} : row'[i] = row[i]
  BY DEF SetRow, TypeOK
<1>2. \A i \in Jobs : Phase'[i] = IF i \in {j} THEN PhaseOf(r) ELSE Phase[i]
  BY <1>1 DEF Phase, PhaseOf
<1>3. Phase' = [i \in Jobs |-> IF i \in {j} THEN PhaseOf(r) ELSE Phase[i]]
  BY <1>2 DEF Phase
<1>4. Phase[j] = PhaseOf(row[j])
  BY DEF Phase
<1>5. Tries' = [Tries EXCEPT ![j] = r.attempts]
  BY <1>1 DEF Tries
<1>. QED
  BY <1>3, <1>4, <1>5 DEF Lifecycle!Move

\* A statement that changes neither the phase nor the attempts of its row stutters.
LEMMA SameRow ==
  ASSUME TypeOK, NEW j \in Jobs, NEW r \in Row, SetRow(j, r),
         PhaseOf(r) = PhaseOf(row[j]), r.attempts = row[j].attempts
  PROVE  UNCHANGED Lifecycle!jobVars
<1>1. row'[j] = r /\ \A i \in Jobs \ {j} : row'[i] = row[i]
  BY DEF SetRow, TypeOK
<1>. QED
  BY <1>1, Invisible

\* Requests of clients are Submit or Retry, or stutter.
LEMMA ClientStepRefines ==
  ASSUME CleanCalls, TypeOK, ClientStep PROVE Lifecycle!Next
<1>1. ASSUME NEW S \in SUBSET Jobs, Enqueue(S) PROVE Lifecycle!Submit(S)
  <2>1. \A j \in S : Phase[j] = "absent" /\ row[j].attempts = 0
    BY <1>1 DEF Enqueue, Phase, PhaseOf, NoRow
  <2>2. \A j \in Jobs : Phase'[j] = IF j \in S THEN "queued" ELSE Phase[j]
    BY <1>1 DEF Enqueue, Phase, PhaseOf, NewRow
  <2>3. Phase' = [j \in Jobs |-> IF j \in S THEN "queued" ELSE Phase[j]]
    BY <2>2 DEF Phase
  <2>4. \A j \in Jobs : Tries'[j] = Tries[j]
    BY <1>1, <2>1 DEF Enqueue, Tries, NewRow
  <2>5. Tries' = Tries
    BY <2>4 DEF Tries
  <2>. QED
    BY <1>1, <2>1, <2>3, <2>5 DEF Enqueue, Lifecycle!Submit, Lifecycle!Move
<1>2. ASSUME NEW j \in Jobs, Retry(j) PROVE Lifecycle!Retry(j)
  <2>1. row[j] \in Row /\ Retried(row[j]) = NewRow
    BY <1>2 DEF TypeOK, Retry, Retried
  <2>2. NewRow \in Row /\ PhaseOf(NewRow) = "queued" /\ NewRow.attempts = 0
    BY <2>1, RowOperators DEF NewRow, PhaseOf
  <2>3. PhaseOf(row[j]) = "dead"
    BY <1>2, <2>1, PhaseOfRow DEF Retry
  <2>4. SetRow(j, NewRow)
    BY <1>2, <2>1 DEF Retry
  <2>. QED
    BY <2>2, <2>3, <2>4, OneRowMoves DEF Lifecycle!Retry
<1>. QED
  BY <1>1, <1>2, NoCancel DEF ClientStep, CleanCalls, Lifecycle!Next

\* Claim, publish and rollback, and their faults, stutter in JobLifecycle.
LEMMA DispatcherRefines ==
  ASSUME TypeOK, NEW d \in Dispatchers, PollStep(d) \/ PollFault(d)
  PROVE  UNCHANGED Lifecycle!jobVars
<1>1. ASSUME NEW S \in SUBSET Jobs, Dequeue(d, S) PROVE UNCHANGED Lifecycle!jobVars
  <2>1. ASSUME NEW j \in Jobs
        PROVE PhaseOf(row'[j]) = PhaseOf(row[j]) /\ row'[j].attempts = row[j].attempts
    <3>1. row[j] \in Row
      BY DEF TypeOK
    <3>2. CASE j \in S
      BY <1>1, <3>1, <3>2 DEF Dequeue, Claimed, PhaseOf, Row
    <3>3. CASE j \notin S
      BY <1>1, <3>3 DEF Dequeue
    <3>. QED
      BY <3>2, <3>3
  <2>. QED
    BY <2>1, Invisible
<1>2. ASSUME Rollback(d) PROVE UNCHANGED Lifecycle!jobVars
  <2>. DEFINE j == rolling[d].job
  <2>1. j \in Jobs /\ row[j] \in Row
    BY <1>2 DEF Rollback, TypeOK, Msg
  <2>2. /\ RolledBack(row[j]) \in Row /\ PhaseOf(RolledBack(row[j])) = PhaseOf(row[j])
        /\ RolledBack(row[j]).attempts = row[j].attempts
    BY <2>1, RowOperators DEF RolledBack, PhaseOf, Row
  <2>. QED
    BY <1>2, <2>1, <2>2, SameRow DEF Rollback
<1>3. ASSUME UNCHANGED row PROVE UNCHANGED Lifecycle!jobVars
  BY <1>3, Invisible
<1>. QED
  BY <1>1, <1>2, <1>3 DEF PollStep, PollFault, Publish, PublishFails, RollbackFails,
     DispatcherCrash

\* One sweep abandons all stale executions at once; stale claims stay queued.
LEMMA ReclaimRefines ==
  ASSUME TypeOK, ReclaimStale PROVE Lifecycle!Next \/ UNCHANGED Lifecycle!jobVars
<1>. DEFINE S == {j \in Jobs : row[j].status = "running" /\ IsStale(row[j])}
<1>0. \A j \in Jobs : row[j] \in Row
  BY DEF TypeOK
<1>1. \A j \in Jobs : row'[j].attempts = row[j].attempts
  BY <1>0 DEF ReclaimStale, Reclaimed, Row
<1>2. \A j \in S : PhaseOf(row[j]) = "executing" /\ PhaseOf(row'[j]) = "queued"
  BY <1>0 DEF ReclaimStale, Reclaimed, PhaseOf, Row
<1>3. \A j \in Jobs \ S : PhaseOf(row'[j]) = PhaseOf(row[j])
  BY <1>0 DEF ReclaimStale, Reclaimed, IsStale, PhaseOf, Row
<1>. HIDE DEF S
<1>4. CASE S = {}
  BY <1>1, <1>3, <1>4, Invisible
<1>5. CASE S # {}
  <2>0. S \in SUBSET Jobs
    BY DEF S
  <2>1. \A j \in Jobs : Phase'[j] = IF j \in S THEN "queued" ELSE Phase[j]
    BY <1>2, <1>3 DEF Phase, PhaseOf
  <2>2. Phase' = [j \in Jobs |-> IF j \in S THEN "queued" ELSE Phase[j]]
    BY <2>1 DEF Phase
  <2>3. \A j \in S : Phase[j] = "executing"
    BY <1>2, <2>0 DEF Phase
  <2>4. \A j \in Jobs : Tries'[j] = Tries[j]
    BY <1>1 DEF Tries
  <2>5. Tries' = Tries
    BY <2>4 DEF Tries
  <2>6. Lifecycle!Abandon(S)
    BY <1>5, <2>2, <2>3, <2>5 DEF Lifecycle!Abandon, Lifecycle!Move
  <2>. QED
    BY <2>0, <2>6 DEF Lifecycle!Next
<1>. QED
  BY <1>4, <1>5

\* A handler's steps are Begin, Complete or FailTry, or stutter.
LEMMA TaskRefines ==
  ASSUME CleanCalls, TypeOK, Ownership, NEW t \in Tasks,
         TaskStep(t) \/ TaskFault(t) \/ Heartbeat(t)
  PROVE  Lifecycle!Next \/ UNCHANGED Lifecycle!jobVars
<1>. DEFINE j == JobOf(t)
<1>0. task[t].pc # "idle" => j \in Jobs /\ row[j] \in Row
  BY DEF TypeOK, JobOf, Msg
<1>1. ASSUME MarkRunning(t) PROVE Lifecycle!Begin(j) /\ j \in Jobs
  <2>1. j \in Jobs /\ row[j] \in Row /\ row[j].status = "claimed"
    BY <1>0, <1>1 DEF MarkRunning, MarkMatches
  <2>2. /\ Marked(row[j]) \in Row /\ PhaseOf(row[j]) = "queued"
        /\ PhaseOf(Marked(row[j])) = "executing" /\ Marked(row[j]).attempts = row[j].attempts
    BY <2>1, RowOperators DEF Marked, MarkMatches, PhaseOf, Row
  <2>3. Lifecycle!Move({j}, "queued", "executing") /\ Tries' = [Tries EXCEPT ![j] = row[j].attempts]
    BY <1>1, <2>1, <2>2, OneRowMoves DEF MarkRunning
  <2>. QED
    BY <2>1, <2>3 DEF Lifecycle!Begin, Tries
<1>2. ASSUME Ack(t) PROVE Lifecycle!Complete(j) /\ j \in Jobs
  <2>1. j \in Jobs /\ row[j] \in Row /\ row[j].status = "running"
    BY <1>2, EngagedRowRuns DEF Ack, Engaged
  <2>2. /\ Acked(row[j]) \in Row /\ PhaseOf(row[j]) = "executing"
        /\ PhaseOf(Acked(row[j])) = "done" /\ Acked(row[j]).attempts = row[j].attempts
    BY <2>1, RowOperators DEF Acked, PhaseOf, Row
  <2>3. Lifecycle!Move({j}, "executing", "done") /\ Tries' = [Tries EXCEPT ![j] = row[j].attempts]
    BY <1>2, <2>1, <2>2, OneRowMoves DEF Ack
  <2>. QED
    BY <2>1, <2>3 DEF Lifecycle!Complete, Tries
<1>3. ASSUME Fail(t) PROVE Lifecycle!FailTry(j) /\ j \in Jobs
  <2>. DEFINE s == IF row[j].attempts + 1 >= MaxAttempts THEN "dead" ELSE "pending"
              p == IF row[j].attempts + 1 >= MaxAttempts THEN "dead" ELSE "queued"
  <2>1. j \in Jobs /\ row[j] \in Row /\ row[j].status = "running"
    BY <1>3, EngagedRowRuns DEF Fail, Engaged
  <2>2. Failed(row[j]) \in Row /\ PhaseOf(row[j]) = "executing"
    BY <2>1, RowOperators, PhaseOfRow
  <2>3. Failed(row[j]) = [row[j] EXCEPT !.attempts = @ + 1, !.status = s]
    BY DEF Failed
  <2>4. Failed(row[j]).status = s /\ Failed(row[j]).attempts = row[j].attempts + 1
    BY <2>1, <2>3 DEF Row
  <2>5. PhaseOf(Failed(row[j])) = p
    <3>1. CASE row[j].attempts + 1 >= MaxAttempts
      BY <2>2, <2>4, <3>1, PhaseOfRow
    <3>2. CASE ~ (row[j].attempts + 1 >= MaxAttempts)
      BY <2>2, <2>4, <3>2, PhaseOfRow
    <3>. QED
      BY <3>1, <3>2
  <2>6. /\ Lifecycle!Move({j}, "executing", p)
        /\ Tries' = [Tries EXCEPT ![j] = row[j].attempts + 1]
    BY <1>3, <2>1, <2>2, <2>4, <2>5, OneRowMoves DEF Fail
  <2>7. Tries[j] = row[j].attempts
    BY <2>1 DEF Tries
  <2>. QED
    BY <2>1, <2>6, <2>7 DEF Lifecycle!FailTry
<1>4. ASSUME Heartbeat(t) PROVE UNCHANGED Lifecycle!jobVars
  <2>1. j \in Jobs /\ row[j] \in Row
    BY <1>0, <1>4 DEF Heartbeat, Engaged
  <2>2. /\ Beaten(row[j]) \in Row /\ PhaseOf(Beaten(row[j])) = PhaseOf(row[j])
        /\ Beaten(row[j]).attempts = row[j].attempts
    BY <2>1, RowOperators DEF Beaten, PhaseOf, Row
  <2>. QED
    BY <1>4, <2>1, <2>2, SameRow DEF Heartbeat
<1>5. ASSUME UNCHANGED row PROVE UNCHANGED Lifecycle!jobVars
  BY <1>5, Invisible
<1>6. ASSUME ~ (MarkRunning(t) \/ Ack(t) \/ Fail(t) \/ Heartbeat(t)) PROVE UNCHANGED row
  BY <1>6, NoDbFault DEF TaskStep, TaskFault, Skip, HandlerReturns, HandlerRaises,
     OnDead, Xack, XackFails, MarkRunningFails, AckFails, FailFails
<1>. QED
  BY <1>1, <1>2, <1>3, <1>4, <1>5, <1>6 DEF Lifecycle!Next

\* The initial states map to the initial state of JobLifecycle.
LEMMA InitRefines == Init => Lifecycle!Init
<1>. SUFFICES ASSUME Init PROVE Lifecycle!Init
  OBVIOUS
<1>1. Phase = [j \in Jobs |-> "absent"]
  BY DEF Init, Phase, PhaseOf, NoRow
<1>2. Tries = [j \in Jobs |-> 0]
  BY DEF Init, Tries, NoRow
<1>. QED
  BY <1>1, <1>2 DEF Lifecycle!Init

\* Every step maps to a step of JobLifecycle or to a stutter.
LEMMA NextRefines ==
  ASSUME CleanCalls, TypeOK, Ownership, [Next]_vars PROVE [Lifecycle!Next]_(Lifecycle!jobVars)
<1>. USE DEF history, redisVars, dispatcherVars, loopVars
<1>1. CASE UNCHANGED vars
  BY <1>1, Invisible DEF vars
<1>2. ASSUME NEW j \in Jobs, Lapse(j) PROVE UNCHANGED Lifecycle!jobVars
  <2>1. row[j] \in Row
    BY DEF TypeOK
  <2>2. /\ [row[j] EXCEPT !.beat = "stale"] \in Row
        /\ PhaseOf([row[j] EXCEPT !.beat = "stale"]) = PhaseOf(row[j])
        /\ [row[j] EXCEPT !.beat = "stale"].attempts = row[j].attempts
    BY <2>1, RowOperators DEF PhaseOf, Row
  <2>. QED
    BY <1>2, <2>2, SameRow DEF Lapse
<1>3. ASSUME NEW w \in Workers, LoopStep(w) \/ LoopFault(w) PROVE UNCHANGED Lifecycle!jobVars
  <2>1. UNCHANGED row
    BY <1>3 DEF LoopStep, LoopFault, Read, ReadLost, AutoClaim, WorkerCrash, WorkerStops
  <2>. QED
    BY <2>1, Invisible
<1>4. ASSUME NEW t \in Tasks, StartStep(t) PROVE UNCHANGED Lifecycle!jobVars
  <2>1. UNCHANGED row
    BY <1>4 DEF StartStep, StartRead, StartClaimed
  <2>. QED
    BY <2>1, Invisible
<1>5. CASE Next
  BY <1>2, <1>3, <1>4, <1>5, ClientStepRefines, DispatcherRefines, ReclaimRefines, TaskRefines
  DEF Next
<1>. QED
  BY <1>1, <1>5

\* The pipeline implements the lifecycle it promises its clients, for any number
\* of processes, through crashes, ambiguous publishes and redelivered messages.
THEOREM ImplementsLifecycleCorrect == ASSUME CleanCalls PROVE Spec => ImplementsLifecycle
<1>1. Init => Lifecycle!Init
  BY InitRefines
<1>2. TypeOK /\ Ownership /\ [Next]_vars => [Lifecycle!Next]_(Lifecycle!jobVars)
  BY NextRefines
<1>3. Spec => []TypeOK /\ []Ownership
  BY TypeCorrect, OwnershipCorrect DEF CleanCalls
<1>. QED
  BY <1>1, <1>2, <1>3, PTL DEF Spec, ImplementsLifecycle, Lifecycle!Spec
=============================================================================
