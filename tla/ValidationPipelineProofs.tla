---------------------- MODULE ValidationPipelineProofs ----------------------
(***************************************************************************)
(* Machine-checked safety of ValidationPipeline for every number of units,  *)
(* attributes, copies, slots, attempts, faults and user requests.           *)
(***************************************************************************)
EXTENDS ValidationPipeline, FiniteSetTheorems, TLAPS

-----------------------------------------------------------------------------
(* The inductive invariants *)

\* Which program points a task can be at, by whom it serves.
Finalizing    == {"finalizing", "locked", "scoring", "publishing"}
CampaignOnly  == {"clustering", "classifying", "caching", "checking", "fanning"}
ClusterOnly   == {"researching", "storing", "counting", "writing", "settling"}

WellPlaced(k) ==
  /\ k \in Task
  /\ k.hook => k.job \in Children /\ k.pc \in Finalizing
  /\ k.job = NoJob => k.pc \in Finalizing \cup {"idle"}
  /\ k.job = Root => k.pc \notin ClusterOnly \cup {"idle"}
  /\ k.job \in Children => k.pc \notin CampaignOnly \cup {"idle"}
  /\ k.pc \in {"loading", "researching"} => k.next = 1

TaskShape ==
  \A t \in Slots : /\ WellPlaced(task[t])
                   /\ JobOf(t) # NoJob => row[JobOf(t)].status # "absent"

Shape == TypeOK /\ TaskShape

\* The lock of the validation_jobs row, and the one finalizer that settled the job.
Locked(t)     == task[t].pc = "locked"
Publishing(t) == task[t].pc \in {"scoring", "publishing"}

OneFinalizer ==
  /\ \A t \in Slots : Locked(t) => status = "running"
  /\ \A t, u \in Slots : Locked(t) /\ Locked(u) => t = u
  /\ \A t \in Slots : Publishing(t) => status \in Settled /\ published = 0
  /\ \A t, u \in Slots : Publishing(t) /\ Publishing(u) => t = u
  /\ published <= 1
  /\ published = 1 => status \in Settled

\* The campaign handlers of a job nobody disturbed: one at a time, and never again
\* at the insertion with a count that is out of date.
Campaigner(t) == JobOf(t) = Root /\ task[t].pc # "hook"

OneCampaigner ==
  /\ \A t, u \in Slots : Campaigner(t) /\ Campaigner(u) => t = u
  /\ \A t \in Slots : Campaigner(t) =>
       \/ row[Root].status = "running"
       \/ row[Root].status = "done" /\ task[t].pc = "failing"
  /\ \A t \in Slots : task[t].pc = "fanning" /\ task[t].seen = 0 => Existing = {}
  /\ \A c \in Existing : c[2] = 1

\* Without database faults and timeouts the campaign handler of an undisturbed job
\* raises nowhere, and gets past clustering only when every cluster is saved, if the
\* first clustering leaves no attribute out.
CampaignSucceeds ==
  /\ ~ gone
  /\ \A t \in Slots : JobOf(t) = Root => task[t].pc \notin {"failing", "hook"}
  /\ \A t \in Slots : task[t].pc \in CampaignOnly \ {"clustering"} => clustered = Units
  /\ status \in {"running", "done"} => clustered = Units
  /\ unshown = {}

\* What has a result, as long as the job can still be called done by finalization.
Live == status \in {"queued", "running"} /\ ~ gone
Covered(u, n, res) == \A i \in 1..n : res[<<u, i>>] # "none"

\* How many attributes of its unit a child's task has stored, at least.
StoredBy(k) ==
  IF k.pc = "storing" THEN k.next - 1
  ELSE IF k.pc \in {"counting", "writing"} THEN k.next
  ELSE IF k.pc \in Finalizing \cup {"settling", "acking"} THEN Width ELSE 0

\* The units that every execution of the campaign handler clusters.
Shown == Units \ unshown

Planning == {"classifying", "caching", "checking", "fanning"}

TaskCovered(k, res, S) ==
  /\ k.pc = "classifying" => S \subseteq k.plan
  /\ k.pc = "caching" => S \subseteq k.plan \cup k.hit
  /\ k.pc \in {"checking", "fanning"} => \A u \in S \ k.plan : Covered(u, Width, res)
  /\ k.job \in Children /\ ~ k.hook => Covered(k.job[1], StoredBy(k), res)

NothingForgotten ==
  /\ status = "queued" => Existing = {}
  /\ \A t \in Slots : task[t].pc = "fanning" /\ task[t].seen # 0 => Existing # {}
  /\ Live =>
     /\ \A t \in Slots : TaskCovered(task[t], results, Shown)
     /\ \A c \in Children : row[c].status = "done" => Covered(c[1], Width, results)
     /\ status = "running" =>
          \A u \in Shown : Covered(u, Width, results) \/ \E c \in Existing : c[1] = u

FanOutInv  == "late" \notin FaultKinds /\ Undisturbed => OneCampaigner
SettledInv ==
  FaultKinds \cap {"db", "late"} = {} /\ Undisturbed /\ unshown = {} => CampaignSucceeds

-----------------------------------------------------------------------------
(* The model's operators *)

\* The queue rows are the root row and the children, and NoJob is none of them.
LEMMA QueueRows ==
  /\ Root \in Queue /\ Children \subseteq Queue /\ Root \notin Children
  /\ NoJob \notin Queue /\ NoJob # Root /\ NoJob \notin Children
  /\ \A q \in Queue : q = Root \/ q \in Children
  /\ 1 \in 1..Width /\ Width \in 1..Width /\ Width \in Nat /\ Copies \in Nat
  /\ \A u \in Units : <<u, 1>> \in Children
BY PipelineAssumption DEF Queue, Children

\* What a statement of app/job_queue.py makes of an existing row is an existing row,
\* and only the statements that say so make it pending, done or dead.
LEMMA RowOperators ==
  ASSUME NEW r \in Row
  PROVE  /\ NoRow \in Row /\ NewRow \in Row
         /\ Marked(Claimed(r)) \in Row /\ Acked(r) \in Row /\ Failed(r) \in Row
         /\ Retried(r) \in Row /\ Cancelled(r) \in Row
         /\ Reclaimed([r EXCEPT !.beat = "stale"]) \in Row
         /\ Marked(Claimed(r)).status = "running"
         /\ Acked(r).status = IF r.status = "running" THEN "done" ELSE r.status
         /\ Failed(r).status \in {"pending", "dead"}
         /\ Retried(r).status = IF r.status = "dead" THEN "pending" ELSE r.status
         /\ Cancelled(r).status = IF r.status \in {"absent", "done", "dead"}
                                  THEN r.status ELSE "dead"
         /\ r.status = "running" => Reclaimed([r EXCEPT !.beat = "stale"]).status = "pending"
<1>. USE DEF Row, Status, Beat
<1>1. NoRow \in Row /\ NewRow \in Row
  BY DEF NoRow, NewRow
<1>2. Marked(Claimed(r)) \in Row /\ Marked(Claimed(r)).status = "running"
  BY DEF Claimed, Marked, MarkMatches
<1>3. Acked(r) \in Row /\ Acked(r).status = IF r.status = "running" THEN "done" ELSE r.status
  BY DEF Acked
<1>4. Failed(r) \in Row /\ Failed(r).status \in {"pending", "dead"}
  <2>. DEFINE s == IF r.attempts + 1 >= MaxAttempts THEN "dead" ELSE "pending"
  <2>1. r.attempts + 1 \in Nat
    OBVIOUS
  <2>2. s \in {"pending", "dead"} /\ s \in Status
    OBVIOUS
  <2>3. Failed(r) = [r EXCEPT !.attempts = @ + 1, !.status = s]
    BY DEF Failed
  <2>. HIDE DEF s
  <2>. QED
    BY <2>1, <2>2, <2>3
<1>5. /\ Retried(r) \in Row
      /\ Retried(r).status = IF r.status = "dead" THEN "pending" ELSE r.status
  BY <1>1 DEF Retried, NewRow
<1>6. /\ Cancelled(r) \in Row
      /\ Cancelled(r).status = IF r.status \in {"absent", "done", "dead"}
                               THEN r.status ELSE "dead"
  BY DEF Cancelled, CancelMatches, Terminal
<1>7. /\ Reclaimed([r EXCEPT !.beat = "stale"]) \in Row
      /\ r.status = "running" => Reclaimed([r EXCEPT !.beat = "stale"]).status = "pending"
  BY DEF Reclaimed, IsStale
<1>. QED
  BY <1>1, <1>2, <1>3, <1>4, <1>5, <1>6, <1>7

\* The database counts: every count the code reads is a number, and zero means none.
LEMMA Counts ==
  /\ Cardinality(Stored) \in Nat /\ Cardinality(Pairs) \in Nat
  /\ Cardinality(Existing) \in Nat
  /\ Cardinality(Existing) = 0 => Existing = {}
  /\ \A S \in SUBSET Pairs : Cardinality(S) \in Nat
<1>1. IsFiniteSet(Pairs) /\ IsFiniteSet(Children)
  <2>1. IsFiniteSet(1..Width) /\ IsFiniteSet(1..Copies) /\ IsFiniteSet(Units)
    BY PipelineAssumption, FS_Interval
  <2>. QED
    BY <2>1, FS_Product DEF Pairs, Children
<1>2. IsFiniteSet(Stored) /\ IsFiniteSet(Existing)
  BY <1>1, FS_Subset DEF Stored, Existing
<1>3. \A S \in SUBSET Pairs : IsFiniteSet(S)
  BY <1>1, FS_Subset
<1>. QED
  BY <1>1, <1>2, <1>3, FS_CardinalityType, FS_EmptySet

-----------------------------------------------------------------------------
(* Type correctness *)

\* The initial state has the types.
LEMMA ShapeInit == Init => Shape
<1>1. NoRow \in Row /\ NewRow \in Row
  BY DEF Row, Status, Beat, NoRow, NewRow
<1>2. WellPlaced(Idle) /\ Idle.job = NoJob /\ Idle \in Task
  BY QueueRows DEF WellPlaced, Idle, Task, Finalizing, CampaignOnly, ClusterOnly, Running
<1>. SUFFICES ASSUME Init PROVE Shape
  OBVIOUS
<1>3. TaskShape
  BY <1>2 DEF Init, TaskShape, JobOf
<1>4. TypeOK
  BY <1>1, <1>2 DEF Init, TypeOK, JobStatus, Result
<1>. QED
  BY <1>3, <1>4 DEF Shape

\* A fault and a request of a user spend from a bound, and leave a record of numbers.
LEMMA SpendingType ==
  ASSUME Shape
  PROVE  /\ \A k : Fault(k) => used' \in [faults : Nat, cancels : Nat, retries : Nat, edits : Nat]
         /\ [used EXCEPT !.cancels = @ + 1]
              \in [faults : Nat, cancels : Nat, retries : Nat, edits : Nat]
         /\ [used EXCEPT !.retries = @ + 1]
              \in [faults : Nat, cancels : Nat, retries : Nat, edits : Nat]
         /\ [used EXCEPT !.edits = @ + 1]
              \in [faults : Nat, cancels : Nat, retries : Nat, edits : Nat]
<1>1. /\ used.faults + 1 \in Nat /\ used.cancels + 1 \in Nat
      /\ used.retries + 1 \in Nat /\ used.edits + 1 \in Nat
  BY DEF Shape, TypeOK
<1>. QED
  BY <1>1 DEF Shape, TypeOK, Fault

\* One task moves to a place that suits it, and at most its row changes, to a row.
LEMMA ShapeOfMove ==
  ASSUME Shape, NEW t \in Slots, NEW k, WellPlaced(k),
         task' = [task EXCEPT ![t] = k],
         k.job # NoJob => row[k.job].status # "absent",
         row' \in [Queue -> Row],
         \A q \in Queue : row[q].status # "absent" => row'[q].status # "absent"
  PROVE  task' \in [Slots -> Task] /\ TaskShape'
BY QueueRows DEF Shape, TypeOK, TaskShape, WellPlaced, JobOf, Task

\* A task that only goes on keeps everything but its program point.
LEMMA GoesOn ==
  ASSUME NEW k, WellPlaced(k), NEW l \in Running \cup {"acking", "failing"},
         k.job = NoJob \/ k.hook => l \in Finalizing,
         k.job = Root => l \notin ClusterOnly,
         k.job \in Children => l \notin CampaignOnly,
         l \in {"loading", "researching"} => k.next = 1
  PROVE  /\ WellPlaced([k EXCEPT !.pc = l])
         /\ [k EXCEPT !.pc = l].job = k.job /\ [k EXCEPT !.pc = l].hook = k.hook
BY DEF WellPlaced, Task, Finalizing, Running

\* What a running function leaves behind when it returns.
LEMMA Returns ==
  ASSUME Shape, NEW t \in Slots, task[t].pc \notin {"idle", "hook"}, Return(t)
  PROVE  \E k : /\ WellPlaced(k) /\ task' = [task EXCEPT ![t] = k]
                /\ k.job # NoJob => row[k.job].status # "absent"
<1>1. CASE JobOf(t) = NoJob \/ task[t].hook
  <2>1. WellPlaced(Idle) /\ Idle.job = NoJob
    BY QueueRows DEF WellPlaced, Idle, Task, Finalizing, CampaignOnly, ClusterOnly, Running
  <2>. QED
    BY <1>1, <2>1 DEF Return
<1>2. CASE ~ (JobOf(t) = NoJob \/ task[t].hook)
  <2>1. /\ WellPlaced(task[t]) /\ task[t].job # NoJob /\ ~ task[t].hook
        /\ row[task[t].job].status # "absent"
    BY <1>2 DEF Shape, TaskShape, JobOf
  <2>2. "acking" \notin ClusterOnly \cup CampaignOnly \cup {"loading", "researching"}
    BY DEF ClusterOnly, CampaignOnly
  <2>3. PICK k : k = [task[t] EXCEPT !.pc = "acking"]
    OBVIOUS
  <2>4. WellPlaced(k) /\ k.job = task[t].job
    BY <2>1, <2>2, <2>3, GoesOn
  <2>5. task' = [task EXCEPT ![t] = k]
    BY <1>2, <2>3 DEF Return
  <2>. QED
    BY <2>1, <2>4, <2>5
<1>. QED
  BY <1>1, <1>2

\* A task that goes to another program point keeps the types.
LEMMA ShapeOfGoto ==
  ASSUME Shape, NEW t \in Slots, NEW l \in Running \cup {"acking", "failing"},
         Goto(t, l), row' = row,
         JobOf(t) = NoJob \/ task[t].hook => l \in Finalizing,
         JobOf(t) = Root => l \notin ClusterOnly,
         JobOf(t) \in Children => l \notin CampaignOnly,
         l \notin {"loading", "researching"}
  PROVE  task' \in [Slots -> Task] /\ TaskShape'
<1>1. PICK k : k = [task[t] EXCEPT !.pc = l]
  OBVIOUS
<1>2. WellPlaced(k) /\ k.job = task[t].job
  BY <1>1, GoesOn DEF Shape, TaskShape, JobOf
<1>3. k.job # NoJob => row[k.job].status # "absent"
  BY <1>2 DEF Shape, TaskShape, JobOf
<1>4. task' = [task EXCEPT ![t] = k] /\ row' \in [Queue -> Row]
  BY <1>1 DEF Goto, Shape, TypeOK
<1>. QED
  BY <1>2, <1>3, <1>4, ShapeOfMove

\* The same for a task that returns.
LEMMA ShapeOfReturn ==
  ASSUME Shape, NEW t \in Slots, task[t].pc \notin {"idle", "hook"}, Return(t), row' = row
  PROVE  task' \in [Slots -> Task] /\ TaskShape'
<1>1. row' \in [Queue -> Row]
  BY DEF Shape, TypeOK
<1>. QED
  BY <1>1, Returns, ShapeOfMove

\* The same for a task that ends.
LEMMA ShapeOfEnd ==
  ASSUME Shape, NEW t \in Slots, task' = [task EXCEPT ![t] = Idle],
         row' \in [Queue -> Row],
         \A q \in Queue : row[q].status # "absent" => row'[q].status # "absent"
  PROVE  task' \in [Slots -> Task] /\ TaskShape'
<1>1. WellPlaced(Idle) /\ Idle.job = NoJob
  BY QueueRows DEF WellPlaced, Idle, Task, Finalizing, CampaignOnly, ClusterOnly, Running
<1>. QED
  BY <1>1, ShapeOfMove

\* Replacing one row by a row that exists.
LEMMA ShapeOfRow ==
  ASSUME Shape, NEW q \in Queue, NEW r \in Row, SetRow(q, r),
         row[q].status # "absent" => r.status # "absent"
  PROVE  /\ row' \in [Queue -> Row]
         /\ \A e \in Queue : row[e].status # "absent" => row'[e].status # "absent"
BY DEF SetRow, Shape, TypeOK

\* The tasks keep their places when only rows change.
LEMMA ShapeOfRows ==
  ASSUME Shape, task' = task, row' \in [Queue -> Row],
         \A q \in Queue : row[q].status # "absent" => row'[q].status # "absent"
  PROVE  TaskShape'
BY QueueRows DEF Shape, TypeOK, TaskShape, WellPlaced, JobOf, Task

\* The rows, the tasks and the budgets are where the care is: the rest of TypeOK.
LEMMA ShapeRest ==
  ASSUME Shape, row' \in [Queue -> Row], task' \in [Slots -> Task], TaskShape',
         used' \in [faults : Nat, cancels : Nat, retries : Nat, edits : Nat],
         status' \in JobStatus, total' \in Nat, completed' \in Nat,
         results' \in [Pairs -> Result], scores' \subseteq Pairs, published' \in Nat,
         unshown' \subseteq Units, clustered' \subseteq Units, gone' \in BOOLEAN
  PROVE  Shape'
BY DEF Shape, TypeOK

-----------------------------------------------------------------------------

\* Beginning, reclaiming, losing and ending a handler keep the types.
LEMMA ShapeBegin == ASSUME Shape, NEW t \in Slots, NEW q \in Queue, Begin(t, q) PROVE Shape'
<1>1. row[q] \in Row /\ row[q].status = "pending"
  BY DEF Begin, Shape, TypeOK
<1>2. /\ row' \in [Queue -> Row]
      /\ \A e \in Queue : row[e].status # "absent" => row'[e].status # "absent"
  BY <1>1, RowOperators, ShapeOfRow DEF Begin
<1>3. PICK k : k = [Idle EXCEPT !.job = q, !.pc = "loading"]
  OBVIOUS
<1>4. WellPlaced(k) /\ k.job = q
  BY <1>3, QueueRows DEF WellPlaced, Idle, Task, Finalizing, CampaignOnly, ClusterOnly, Running
<1>5. task' \in [Slots -> Task] /\ TaskShape'
  BY <1>1, <1>2, <1>3, <1>4, ShapeOfMove DEF Begin
<1>. QED
  BY <1>2, <1>5 DEF Shape, TypeOK, Begin, jobVars, outVars, envVars

\* Reclaiming a row keeps the types.
LEMMA ShapeReclaim == ASSUME Shape, NEW q \in Queue, Reclaim(q) PROVE Shape'
<1>1. row[q] \in Row
  BY DEF Shape, TypeOK
<1>2. /\ row' \in [Queue -> Row]
      /\ \A e \in Queue : row[e].status # "absent" => row'[e].status # "absent"
  BY <1>1, RowOperators, ShapeOfRow DEF Reclaim
<1>3. TaskShape'
  BY <1>2, ShapeOfRows DEF Reclaim
<1>4. used' \in [faults : Nat, cancels : Nat, retries : Nat, edits : Nat]
  BY SpendingType DEF Reclaim, Shape, TypeOK
<1>. QED
  BY <1>2, <1>3, <1>4 DEF Shape, TypeOK, Reclaim, jobVars, outVars, envVars

\* Acknowledging, failing and every fault of a task keep the types.
LEMMA ShapeQueue ==
  ASSUME Shape, NEW t \in Slots, Ack(t) \/ Fail(t) \/ TaskFault(t)
  PROVE  Shape'
<1>. USE DEF jobVars, outVars, envVars
<1>1. JobOf(t) # NoJob => JobOf(t) \in Queue /\ row[JobOf(t)] \in Row
                           /\ row[JobOf(t)].status # "absent" /\ task[t].pc # "idle"
  BY QueueRows DEF Shape, TypeOK, TaskShape, WellPlaced, JobOf, Task
<1>2. task[t].pc \in {"acking", "failing", "hook"} => JobOf(t) # NoJob
  BY DEF Shape, TaskShape, WellPlaced, JobOf, Finalizing
<1>3. row \in [Queue -> Row]
  BY DEF Shape, TypeOK
<1>4. ASSUME JobOf(t) # NoJob, NEW r, r \in {Acked(row[JobOf(t)]), Failed(row[JobOf(t)])},
             SetRow(JobOf(t), r)
      PROVE  /\ row' \in [Queue -> Row]
             /\ \A e \in Queue : row[e].status # "absent" => row'[e].status # "absent"
  BY <1>1, <1>4, RowOperators, ShapeOfRow
<1>5. CASE Ack(t)
  <2>1. task' \in [Slots -> Task] /\ TaskShape' /\ row' \in [Queue -> Row]
    BY <1>2, <1>4, <1>5, ShapeOfEnd DEF Ack
  <2>. QED
    BY <1>5, <2>1, ShapeRest DEF Ack, Shape, TypeOK
<1>6. CASE Fail(t)
  <2>1. /\ row' \in [Queue -> Row]
        /\ \A e \in Queue : row[e].status # "absent" => row'[e].status # "absent"
    BY <1>2, <1>4, <1>6 DEF Fail
  <2>2. PICK k : k = [Idle EXCEPT !.job = JobOf(t), !.pc = "hook"]
    OBVIOUS
  <2>3. WellPlaced(k) /\ k.job = JobOf(t)
    BY <1>1, <1>2, <1>6, <2>2, QueueRows
       DEF Fail, WellPlaced, Idle, Task, Finalizing, CampaignOnly, ClusterOnly, Running
  <2>4. task' = [task EXCEPT ![t] = k] \/ task' = [task EXCEPT ![t] = Idle]
    BY <1>6, <2>2 DEF Fail
  <2>5. task' \in [Slots -> Task] /\ TaskShape'
    BY <1>1, <2>1, <2>3, <2>4, ShapeOfMove, ShapeOfEnd
  <2>. QED
    BY <1>6, <2>1, <2>5, ShapeRest DEF Fail, Shape, TypeOK
<1>7. CASE Crash(t)
  <2>1. task' \in [Slots -> Task] /\ TaskShape'
    BY <1>3, <1>7, ShapeOfEnd DEF Crash
  <2>. QED
    BY <1>7, <2>1, SpendingType, ShapeRest DEF Crash, Shape, TypeOK
<1>8. CASE Raise(t)
  <2>1. task' \in [Slots -> Task] /\ TaskShape'
    BY <1>8, ShapeOfGoto DEF Raise, CampaignOnly, ClusterOnly
  <2>2. used' \in [faults : Nat, cancels : Nat, retries : Nat, edits : Nat]
    BY <1>8, SpendingType DEF Raise, Shape, TypeOK
  <2>. QED
    BY <1>8, <2>1, <2>2, ShapeRest DEF Raise, Shape, TypeOK
<1>9. CASE Swallow(t)
  <2>1. task' \in [Slots -> Task] /\ TaskShape'
    BY <1>3, <1>9, ShapeOfEnd DEF Swallow
  <2>. QED
    BY <1>9, <2>1, SpendingType, ShapeRest DEF Swallow, Shape, TypeOK
<1>10. CASE AckFails(t)
  <2>1. /\ row' \in [Queue -> Row]
        /\ \A e \in Queue : row[e].status # "absent" => row'[e].status # "absent"
    BY <1>2, <1>3, <1>4, <1>10 DEF AckFails
  <2>2. PICK k : k = [task[t] EXCEPT !.pc = "failing"]
    OBVIOUS
  <2>3. WellPlaced(k) /\ k.job = JobOf(t)
    BY <1>2, <1>10, <2>2, GoesOn
       DEF AckFails, Shape, TaskShape, WellPlaced, JobOf, Finalizing, CampaignOnly, ClusterOnly
  <2>4. task' \in [Slots -> Task] /\ TaskShape'
    BY <1>1, <1>10, <2>1, <2>2, <2>3, ShapeOfMove DEF AckFails, Goto
  <2>. QED
    BY <1>10, <2>1, <2>4, SpendingType, ShapeRest DEF AckFails, Shape, TypeOK
<1>11. CASE FailFails(t)
  <2>1. /\ row' \in [Queue -> Row]
        /\ \A e \in Queue : row[e].status # "absent" => row'[e].status # "absent"
    BY <1>2, <1>3, <1>4, <1>11 DEF FailFails
  <2>2. task' \in [Slots -> Task] /\ TaskShape'
    BY <1>11, <2>1, ShapeOfEnd DEF FailFails
  <2>. QED
    BY <1>11, <2>1, <2>2, SpendingType, ShapeRest DEF FailFails, Shape, TypeOK
<1>. QED
  BY <1>5, <1>6, <1>7, <1>8, <1>9, <1>10, <1>11 DEF TaskFault

\* The campaign handler keeps the types.
LEMMA ShapeRoot == ASSUME Shape, NEW t \in Slots, RootStep(t) PROVE Shape'
<1>. USE DEF jobVars, outVars, envVars
<1>1. /\ row \in [Queue -> Row] /\ WellPlaced(task[t])
      /\ JobOf(t) # NoJob => row[JobOf(t)].status # "absent"
  BY DEF Shape, TypeOK, TaskShape
<1>2. ASSUME JobOf(t) = Root PROVE ~ task[t].hook
  BY <1>1, <1>2, QueueRows DEF WellPlaced, JobOf
<1>3. CASE RootLoad(t)
  <2>1. task' \in [Slots -> Task] /\ TaskShape'
    <3>1. CASE gone
      BY <1>3, <3>1, ShapeOfReturn DEF RootLoad, RootAt
    <3>2. CASE ~ gone
      BY <1>2, <1>3, <3>2, QueueRows, ShapeOfGoto DEF RootLoad, RootAt, Running, ClusterOnly
    <3>. QED
      BY <3>1, <3>2
  <2>. QED
    BY <1>1, <1>3, <2>1, ShapeRest DEF RootLoad, Shape, TypeOK, JobStatus
<1>4. CASE Cluster(t)
  <2>1. PICK C : C = IF clustered = {} THEN Units \ unshown ELSE Units
    OBVIOUS
  <2>2. PICK k : k = [task[t] EXCEPT !.pc = "classifying", !.plan = C]
    OBVIOUS
  <2>3. WellPlaced(k) /\ k.job = JobOf(t)
    BY <1>1, <1>2, <1>4, <2>1, <2>2, QueueRows
       DEF Cluster, RootAt, WellPlaced, JobOf, Task, Running, ClusterOnly, CampaignOnly
  <2>4. task' = [task EXCEPT ![t] = k]
    BY <1>4, <2>1, <2>2 DEF Cluster
  <2>5. task' \in [Slots -> Task] /\ TaskShape'
    BY <1>1, <1>4, <2>3, <2>4, ShapeOfMove DEF Cluster
  <2>. QED
    BY <1>1, <1>4, <2>1, <2>5, ShapeRest DEF Cluster, Shape, TypeOK
<1>5. CASE ClusterFails(t)
  <2>1. task' \in [Slots -> Task] /\ TaskShape'
    BY <1>5, ShapeOfReturn DEF ClusterFails, RootAt
  <2>2. used' \in [faults : Nat, cancels : Nat, retries : Nat, edits : Nat]
    BY <1>5, SpendingType DEF ClusterFails, Shape, TypeOK
  <2>. QED
    BY <1>1, <1>5, <2>1, <2>2, ShapeRest DEF ClusterFails, Shape, TypeOK, JobStatus
<1>6. ASSUME NEW S \in SUBSET Units, Classify(t, S) PROVE Shape'
  <2>1. PICK k : k = [task[t] EXCEPT !.pc = "caching", !.plan = S, !.hit = task[t].plan \ S]
    OBVIOUS
  <2>2. WellPlaced(k) /\ k.job = JobOf(t)
    BY <1>1, <1>2, <1>6, <2>1, QueueRows
       DEF Classify, RootAt, WellPlaced, JobOf, Task, Running, ClusterOnly, CampaignOnly
  <2>3. task' = [task EXCEPT ![t] = k]
    BY <1>6, <2>1 DEF Classify
  <2>4. task' \in [Slots -> Task] /\ TaskShape'
    BY <1>1, <1>6, <2>2, <2>3, ShapeOfMove DEF Classify
  <2>. QED
    BY <1>1, <1>6, <2>4, ShapeRest DEF Classify, Shape, TypeOK
<1>7. CASE Cache(t)
  <2>1. task' \in [Slots -> Task] /\ TaskShape'
    BY <1>2, <1>7, QueueRows, ShapeOfGoto DEF Cache, RootAt, Running, ClusterOnly
  <2>2. results' \in [Pairs -> Result]
    BY <1>7 DEF Cache, Shape, TypeOK, Result
  <2>3. Cardinality(Stored') \in Nat
    BY Counts DEF Stored
  <2>4. completed' \in Nat
    BY <1>7, <2>3 DEF Cache, Shape, TypeOK
  <2>. QED
    BY <1>1, <1>7, <2>1, <2>2, <2>4, ShapeRest DEF Cache, Shape, TypeOK
<1>8. CASE CacheRefused(t)
  <2>1. task' \in [Slots -> Task] /\ TaskShape'
    BY <1>2, <1>8, QueueRows, ShapeOfGoto DEF CacheRefused, RootAt, ClusterOnly
  <2>. QED
    BY <1>1, <1>8, <2>1, ShapeRest DEF CacheRefused, Shape, TypeOK
<1>9. CASE Check(t)
  <2>1. PICK k : k = [task[t] EXCEPT !.pc = "fanning", !.hit = {}, !.seen = Cardinality(Existing)]
    OBVIOUS
  <2>2. WellPlaced(k) /\ k.job = JobOf(t)
    <3>1. PICK n \in Nat : n = Cardinality(Existing)
      BY Counts
    <3>2. task[t] \in Task /\ ~ task[t].hook /\ task[t].job = Root
      BY <1>1, <1>2, <1>9 DEF Check, RootAt, WellPlaced, JobOf
    <3>3. k = [task[t] EXCEPT !.pc = "fanning", !.hit = {}, !.seen = n]
      BY <2>1, <3>1
    <3>. QED
      BY <3>2, <3>3, QueueRows DEF WellPlaced, JobOf, Task, Running, ClusterOnly, CampaignOnly
  <2>3. task' = [task EXCEPT ![t] = k]
    BY <1>9, <2>1 DEF Check
  <2>4. task' \in [Slots -> Task] /\ TaskShape'
    BY <1>1, <1>9, <2>2, <2>3, ShapeOfMove DEF Check
  <2>. QED
    BY <1>1, <1>9, <2>4, ShapeRest DEF Check, Shape, TypeOK
<1>10. CASE FanOut(t)
  <2>1. NewRow \in Row /\ NewRow.status = "pending"
    BY DEF NewRow, Row, Status, Beat
  <2>2. /\ row' \in [Queue -> Row]
        /\ \A e \in Queue : row[e].status # "absent" => row'[e].status # "absent"
    BY <1>1, <1>10, <2>1 DEF FanOut
  <2>3. PICK l : /\ l \in {"finalizing", "acking"} /\ Goto(t, l)
    BY <1>1, <1>2, <1>10, QueueRows DEF FanOut, RootAt, Return, Goto
  <2>4. PICK k : k = [task[t] EXCEPT !.pc = l]
    OBVIOUS
  <2>5. WellPlaced(k) /\ k.job = JobOf(t)
    BY <1>1, <1>2, <1>10, <2>3, <2>4, QueueRows, GoesOn
       DEF FanOut, RootAt, JobOf, Running, ClusterOnly, CampaignOnly
  <2>6. task' \in [Slots -> Task] /\ TaskShape'
    BY <1>1, <2>2, <2>3, <2>4, <2>5, ShapeOfMove DEF Goto
  <2>. QED
    BY <1>10, <2>2, <2>6, Counts, ShapeRest DEF FanOut, Shape, TypeOK, JobStatus
<1>11. CASE RootOnDead(t)
  <2>1. task' \in [Slots -> Task] /\ TaskShape'
    BY <1>1, <1>11, ShapeOfEnd DEF RootOnDead
  <2>. QED
    BY <1>1, <1>11, <2>1, ShapeRest DEF RootOnDead, Shape, TypeOK, JobStatus
<1>. QED
  BY <1>3, <1>4, <1>5, <1>6, <1>7, <1>8, <1>9, <1>10, <1>11 DEF RootStep

\* A child skips to its last count.
LEMMA Skipping ==
  ASSUME NEW k, WellPlaced(k), k.job \in Children, ~ k.hook
  PROVE  /\ WellPlaced([k EXCEPT !.pc = "counting", !.next = Width])
         /\ [k EXCEPT !.pc = "counting", !.next = Width].job = k.job
BY QueueRows DEF WellPlaced, Task, Running, CampaignOnly

\* The cluster handler keeps the types.
LEMMA ShapeChild == ASSUME Shape, NEW t \in Slots, ChildStep(t) PROVE Shape'
<1>. USE DEF jobVars, outVars, envVars
<1>1. /\ row \in [Queue -> Row] /\ WellPlaced(task[t]) /\ task[t] \in Task
      /\ JobOf(t) # NoJob => row[JobOf(t)].status # "absent"
  BY DEF Shape, TypeOK, TaskShape, WellPlaced
<1>2. ASSUME JobOf(t) \in Children, task[t].pc \notin Finalizing PROVE ~ task[t].hook
  BY <1>1, <1>2 DEF WellPlaced
<1>3. ASSUME NEW k, WellPlaced(k), k.job = JobOf(t), task' = [task EXCEPT ![t] = k], row' = row
      PROVE  task' \in [Slots -> Task] /\ TaskShape'
  BY <1>1, <1>3, ShapeOfMove
<1>4. CASE ChildLoad(t)
  <2>1. PICK k : k = IF Skips THEN SkipTo(t) ELSE [task[t] EXCEPT !.pc = "researching"]
    OBVIOUS
  <2>2. WellPlaced(k) /\ k.job = JobOf(t)
    BY <1>1, <1>2, <1>4, <2>1, QueueRows, Skipping DEF ChildLoad, ChildAt, SkipTo,
       WellPlaced, JobOf, Task, Running, CampaignOnly, Finalizing
  <2>3. task' \in [Slots -> Task] /\ TaskShape'
    BY <1>3, <1>4, <2>1, <2>2 DEF ChildLoad
  <2>. QED
    BY <1>1, <1>4, <2>3, ShapeRest DEF ChildLoad, Shape, TypeOK
<1>5. CASE Research(t)
  <2>1. PICK k : k = IF status = "failed" THEN SkipTo(t) ELSE [task[t] EXCEPT !.pc = "storing"]
    OBVIOUS
  <2>2. WellPlaced(k) /\ k.job = JobOf(t)
    BY <1>1, <1>2, <1>5, <2>1, QueueRows, Skipping DEF Research, ChildAt, SkipTo,
       WellPlaced, JobOf, Task, Running, CampaignOnly, Finalizing
  <2>3. task' \in [Slots -> Task] /\ TaskShape'
    BY <1>3, <1>5, <2>1, <2>2 DEF Research
  <2>. QED
    BY <1>1, <1>5, <2>3, ShapeRest DEF Research, Shape, TypeOK
<1>6. CASE Store(t)
  <2>1. task' \in [Slots -> Task] /\ TaskShape'
    BY <1>2, <1>6, QueueRows, ShapeOfGoto
       DEF Store, ChildAt, Running, CampaignOnly, ClusterOnly, Finalizing
  <2>2. results' \in [Pairs -> Result]
    BY <1>6 DEF Store, Shape, TypeOK, Result
  <2>. QED
    BY <1>1, <1>6, <2>1, <2>2, ShapeRest DEF Store, Shape, TypeOK
<1>7. CASE StoreRefused(t)
  <2>1. task' \in [Slots -> Task] /\ TaskShape'
    BY <1>2, <1>7, QueueRows, ShapeOfGoto
       DEF StoreRefused, ChildAt, CampaignOnly, ClusterOnly, Finalizing
  <2>. QED
    BY <1>1, <1>7, <2>1, ShapeRest DEF StoreRefused, Shape, TypeOK
<1>8. CASE CountResults(t)
  <2>1. PICK k : k = [task[t] EXCEPT !.pc = "writing", !.seen = Cardinality(Stored)]
    OBVIOUS
  <2>2. WellPlaced(k) /\ k.job = JobOf(t)
    BY <1>1, <1>2, <1>8, <2>1, QueueRows, Counts DEF CountResults, ChildAt,
       WellPlaced, JobOf, Task, Running, CampaignOnly, Finalizing
  <2>3. task' \in [Slots -> Task] /\ TaskShape'
    BY <1>3, <1>8, <2>1, <2>2 DEF CountResults
  <2>. QED
    BY <1>1, <1>8, <2>3, ShapeRest DEF CountResults, Shape, TypeOK
<1>9. CASE WriteProgress(t)
  <2>1. /\ task[t] \in Task /\ task[t].job \in Children /\ ~ task[t].hook
        /\ task[t].job # NoJob /\ task[t].job # Root
    BY <1>1, <1>2, <1>9, QueueRows DEF WriteProgress, ChildAt, JobOf, Finalizing
  <2>4. task[t].seen \in Nat
    BY <1>1 DEF Task
  <2>2. CASE task[t].next = Width
    <3>1. PICK k : k = [task[t] EXCEPT !.pc = "settling"]
      OBVIOUS
    <3>2. WellPlaced(k) /\ k.job = JobOf(t)
      BY <2>1, <3>1 DEF WellPlaced, JobOf, Task, Running, CampaignOnly
    <3>3. task' = [task EXCEPT ![t] = k]
      BY <1>9, <2>2, <3>1 DEF WriteProgress
    <3>. QED
      BY <1>3, <1>9, <3>2, <3>3, <2>4, ShapeRest, <1>1 DEF WriteProgress, Shape, TypeOK
  <2>3. CASE task[t].next # Width
    <3>1. PICK n : n = task[t].next + 1
      OBVIOUS
    <3>2. n \in 1..Width
      BY <2>1, <2>3, <3>1, QueueRows DEF Task
    <3>3. PICK k : k = [task[t] EXCEPT !.pc = "storing", !.next = n]
      OBVIOUS
    <3>4. WellPlaced(k) /\ k.job = JobOf(t)
      BY <2>1, <3>2, <3>3 DEF WellPlaced, JobOf, Task, Running, CampaignOnly
    <3>5. task' = [task EXCEPT ![t] = k]
      BY <1>9, <2>3, <3>1, <3>3 DEF WriteProgress
    <3>. QED
      BY <1>3, <1>9, <3>4, <3>5, <2>4, ShapeRest, <1>1 DEF WriteProgress, Shape, TypeOK
  <2>. QED
    BY <2>2, <2>3
<1>10. CASE MaybeFinalize(t)
  <2>1. task' \in [Slots -> Task] /\ TaskShape'
    <3>1. CASE Pending \subseteq {JobOf(t)}
      BY <1>2, <1>10, <3>1, QueueRows, ShapeOfGoto
         DEF MaybeFinalize, ChildAt, Running, CampaignOnly, ClusterOnly, Finalizing
    <3>2. CASE ~ (Pending \subseteq {JobOf(t)})
      BY <1>10, <3>2, ShapeOfReturn DEF MaybeFinalize, ChildAt
    <3>. QED
      BY <3>1, <3>2
  <2>. QED
    BY <1>1, <1>10, <2>1, ShapeRest DEF MaybeFinalize, Shape, TypeOK
<1>11. CASE ChildOnDead(t)
  <2>1. PICK k : k = [task[t] EXCEPT !.pc = "finalizing", !.hook = TRUE]
    OBVIOUS
  <2>2. WellPlaced(k) /\ k.job = JobOf(t)
    <3>1. task[t] \in Task /\ task[t].job \in Children
      BY <1>1, <1>11 DEF ChildOnDead, ChildAt, JobOf
    <3>2. k \in Task /\ k.job = task[t].job /\ k.pc = "finalizing" /\ k.next = task[t].next
      BY <2>1, <3>1 DEF Task, Running
    <3>3. k.job # NoJob /\ k.job # Root
      BY <3>1, <3>2, QueueRows
    <3>. QED
      BY <3>1, <3>2, <3>3 DEF WellPlaced, JobOf, CampaignOnly, Finalizing
  <2>3. task' = [task EXCEPT ![t] = k] \/ task' = [task EXCEPT ![t] = Idle]
    BY <1>11, <2>1 DEF ChildOnDead
  <2>4. task' \in [Slots -> Task] /\ TaskShape'
    BY <1>1, <1>3, <1>11, <2>2, <2>3, ShapeOfEnd DEF ChildOnDead
  <2>. QED
    BY <1>1, <1>11, <2>4, ShapeRest DEF ChildOnDead, Shape, TypeOK
<1>. QED
  BY <1>4, <1>5, <1>6, <1>7, <1>8, <1>9, <1>10, <1>11 DEF ChildStep

\* Finalization keeps the types.
LEMMA ShapeFinal == ASSUME Shape, NEW t \in Slots, FinalStep(t) PROVE Shape'
<1>. USE DEF jobVars, outVars, envVars
<1>1. row \in [Queue -> Row]
  BY DEF Shape, TypeOK
<1>2. ASSUME NEW l \in {"locked", "scoring", "publishing"}, Goto(t, l), row' = row
      PROVE  task' \in [Slots -> Task] /\ TaskShape'
  BY <1>2, ShapeOfGoto DEF Finalizing, Running, CampaignOnly, ClusterOnly
<1>3. CASE Lock(t)
  <2>1. task' \in [Slots -> Task] /\ TaskShape'
    BY <1>2, <1>3 DEF Lock
  <2>. QED
    BY <1>1, <1>3, <2>1, ShapeRest DEF Lock, Shape, TypeOK
<1>4. CASE LockSkipped(t)
  <2>1. task' \in [Slots -> Task] /\ TaskShape'
    BY <1>4, ShapeOfReturn DEF LockSkipped
  <2>. QED
    BY <1>1, <1>4, <2>1, ShapeRest DEF LockSkipped, Shape, TypeOK
<1>5. CASE Finalize(t)
  <2>1. task' \in [Slots -> Task] /\ TaskShape'
    BY <1>2, <1>5, ShapeOfReturn DEF Finalize
  <2>2. status' \in JobStatus
    BY <1>5 DEF Finalize, Shape, TypeOK, JobStatus
  <2>. QED
    BY <1>1, <1>5, <2>1, <2>2, ShapeRest DEF Finalize, Shape, TypeOK
<1>6. CASE Score(t)
  <2>1. task' \in [Slots -> Task] /\ TaskShape'
    BY <1>2, <1>6 DEF Score
  <2>2. scores' \subseteq Pairs
    BY <1>6 DEF Score, Shape, TypeOK, Stored
  <2>3. used' \in [faults : Nat, cancels : Nat, retries : Nat, edits : Nat]
    BY <1>6, SpendingType DEF Score, Shape, TypeOK
  <2>. QED
    BY <1>1, <1>6, <2>1, <2>2, <2>3, ShapeRest DEF Score, Shape, TypeOK
<1>7. CASE Publish(t)
  <2>1. task' \in [Slots -> Task] /\ TaskShape'
    BY <1>7, ShapeOfReturn DEF Publish
  <2>2. published' \in Nat
    BY <1>7 DEF Publish, Shape, TypeOK
  <2>3. used' \in [faults : Nat, cancels : Nat, retries : Nat, edits : Nat]
    BY <1>7, SpendingType DEF Publish, Shape, TypeOK
  <2>. QED
    BY <1>1, <1>7, <2>1, <2>2, <2>3, ShapeRest DEF Publish, Shape, TypeOK
<1>. QED
  BY <1>3, <1>4, <1>5, <1>6, <1>7 DEF FinalStep

\* The reconcile loop keeps the types.
LEMMA ShapeReconcile == ASSUME Shape, NEW t \in Slots, Reconcile(t) PROVE Shape'
<1>1. row \in [Queue -> Row] /\ task[t] = Idle
  BY DEF Shape, TypeOK, Reconcile
<1>2. PICK k : k = [Idle EXCEPT !.pc = "finalizing"]
  OBVIOUS
<1>3. WellPlaced(k) /\ k.job = NoJob
  BY <1>2, QueueRows DEF WellPlaced, Idle, Task, Finalizing, CampaignOnly, ClusterOnly, Running
<1>4. task' = [task EXCEPT ![t] = k]
  BY <1>1, <1>2 DEF Reconcile
<1>5. task' \in [Slots -> Task] /\ TaskShape'
  BY <1>1, <1>3, <1>4, ShapeOfMove DEF Reconcile
<1>. QED
  BY <1>1, <1>5, ShapeRest DEF Reconcile, Shape, TypeOK, jobVars, outVars, envVars

\* The users keep the types.
LEMMA ShapeUser == ASSUME Shape, UserStep PROVE Shape'
<1>. USE DEF jobVars, outVars, envVars
<1>1. row \in [Queue -> Row] /\ task \in [Slots -> Task]
  BY DEF Shape, TypeOK
<1>2. CASE Cancel
  <2>1. /\ row' \in [Queue -> Row]
        /\ \A e \in Queue : row[e].status # "absent" => row'[e].status # "absent"
    BY <1>1, <1>2, RowOperators DEF Cancel
  <2>2. TaskShape' /\ task' \in [Slots -> Task]
    BY <1>1, <1>2, <2>1, ShapeOfRows DEF Cancel
  <2>. QED
    BY <1>2, <2>1, <2>2, SpendingType, ShapeRest DEF Cancel, Shape, TypeOK, JobStatus
<1>3. CASE DeleteEntities
  <2>1. TaskShape' /\ task' \in [Slots -> Task] /\ row' \in [Queue -> Row]
    BY <1>1, <1>3, ShapeOfRows DEF DeleteEntities
  <2>2. results' \in [Pairs -> Result] /\ scores' \subseteq Pairs
    BY <1>3 DEF DeleteEntities, Result
  <2>. QED
    BY <1>3, <2>1, <2>2, SpendingType, ShapeRest DEF DeleteEntities, Shape, TypeOK
<1>4. ASSUME NEW q \in Queue, Retry(q) PROVE Shape'
  <2>1. row[q] \in Row
    BY <1>1
  <2>2. /\ row' \in [Queue -> Row]
        /\ \A e \in Queue : row[e].status # "absent" => row'[e].status # "absent"
    BY <1>4, <2>1, RowOperators, ShapeOfRow DEF Retry
  <2>3. TaskShape' /\ task' \in [Slots -> Task]
    BY <1>1, <1>4, <2>2, ShapeOfRows DEF Retry
  <2>. QED
    BY <1>4, <2>2, <2>3, SpendingType, ShapeRest DEF Retry, Shape, TypeOK
<1>. QED
  BY <1>2, <1>3, <1>4 DEF UserStep

\* Every step keeps the types.
LEMMA ShapeStep == Shape /\ [Next]_vars => Shape'
<1>1. ASSUME Shape, Next PROVE Shape'
  BY <1>1, ShapeBegin, ShapeReclaim, ShapeQueue, ShapeRoot, ShapeChild, ShapeFinal,
     ShapeReconcile, ShapeUser DEF Next, TaskStep
<1>2. ASSUME Shape, UNCHANGED vars PROVE Shape'
  BY <1>2 DEF Shape, TypeOK, TaskShape, JobOf, vars, jobVars, outVars, envVars
<1>. QED
  BY <1>1, <1>2

\* Every variable of the pipeline holds a value the code could hold, in every
\* reachable state: no statement writes an unknown status or a count that is none.
THEOREM TypeCorrect == Spec => []TypeOK
<1>1. Shape => TypeOK
  BY DEF Shape
<1>. QED
  BY <1>1, ShapeInit, ShapeStep, PTL DEF Spec

-----------------------------------------------------------------------------
(* Finalization happens once *)

\* A step in which no task enters finalization's critical part: the job settles only
\* when its row is unlocked, and runs only when it was queued.
Quiet ==
  /\ published' = published
  /\ \A u \in Slots : \/ task'[u] = task[u]
                      \/ task'[u].pc \notin {"locked", "scoring", "publishing"}
  /\ \/ status' = status
     \/ status' \in Settled /\ Unlocked
     \/ status = "queued" /\ status' = "running"

\* Where a task is after its step.
LEMMA Moved ==
  ASSUME Shape, NEW t \in Slots
  PROVE  /\ \A k : task' = [task EXCEPT ![t] = k] =>
              task'[t] = k /\ \A u \in Slots \ {t} : task'[u] = task[u]
         /\ \A l : Goto(t, l) =>
              /\ task'[t] = [task[t] EXCEPT !.pc = l] /\ task'[t].pc = l
              /\ \A u \in Slots \ {t} : task'[u] = task[u]
         /\ Return(t) =>
              /\ task'[t] = IF JobOf(t) = NoJob \/ task[t].hook THEN Idle
                            ELSE [task[t] EXCEPT !.pc = "acking"]
              /\ task'[t].pc \in {"idle", "acking"}
              /\ \A u \in Slots \ {t} : task'[u] = task[u]
<1>1. task \in [Slots -> Task]
  BY DEF Shape, TypeOK
<1>2. ASSUME NEW k, task' = [task EXCEPT ![t] = k]
      PROVE  task'[t] = k /\ \A u \in Slots \ {t} : task'[u] = task[u]
  BY <1>1, <1>2
<1>3. ASSUME NEW l, Goto(t, l)
      PROVE  /\ task'[t] = [task[t] EXCEPT !.pc = l] /\ task'[t].pc = l
             /\ \A u \in Slots \ {t} : task'[u] = task[u]
  BY <1>1, <1>3 DEF Goto, Task
<1>4. ASSUME Return(t)
      PROVE  /\ task'[t] = IF JobOf(t) = NoJob \/ task[t].hook THEN Idle
                           ELSE [task[t] EXCEPT !.pc = "acking"]
             /\ task'[t].pc \in {"idle", "acking"}
             /\ \A u \in Slots \ {t} : task'[u] = task[u]
  BY <1>1, <1>4 DEF Return, Task, Idle, JobOf
<1>. QED
  BY <1>2, <1>3, <1>4

\* What a task keeps in its step.
LEMMA MovedFields ==
  ASSUME Shape, NEW t \in Slots
  PROVE  /\ \A l : Goto(t, l) =>
              /\ task'[t].job = JobOf(t) /\ task'[t].hook = task[t].hook
              /\ task'[t].plan = task[t].plan /\ task'[t].next = task[t].next
         /\ Return(t) =>
              \/ task'[t].job = NoJob
              \/ /\ task'[t].job = JobOf(t) /\ task'[t].hook = task[t].hook
                 /\ ~ task[t].hook /\ task'[t].pc = "acking"
<1>1. task \in [Slots -> Task]
  BY DEF Shape, TypeOK
<1>2. ASSUME NEW l, Goto(t, l)
      PROVE  /\ task'[t].job = JobOf(t) /\ task'[t].hook = task[t].hook
             /\ task'[t].plan = task[t].plan /\ task'[t].next = task[t].next
  BY <1>1, <1>2 DEF Goto, Task, JobOf
<1>3. ASSUME Return(t)
      PROVE  \/ task'[t].job = NoJob
             \/ /\ task'[t].job = JobOf(t) /\ task'[t].hook = task[t].hook
                /\ ~ task[t].hook /\ task'[t].pc = "acking"
  BY <1>1, <1>3 DEF Return, Task, Idle, JobOf
<1>. QED
  BY <1>2, <1>3

\* The task that clusters goes on to the staleness check.
LEMMA Clustering ==
  ASSUME Shape, NEW t \in Slots, Cluster(t)
  PROVE  /\ task'[t].pc = "classifying" /\ task'[t].job = JobOf(t)
         /\ \A u \in Slots \ {t} : task'[u] = task[u]
         /\ clustered' = IF clustered = {} THEN Units \ unshown ELSE Units
         /\ status' = status /\ gone' = gone /\ row' = row /\ unshown' = unshown
<1>1. PICK C : C = IF clustered = {} THEN Units \ unshown ELSE Units
  OBVIOUS
<1>2. task' = [task EXCEPT ![t].pc = "classifying", ![t].plan = C]
  BY <1>1 DEF Cluster
<1>. QED
  BY <1>1, <1>2 DEF Cluster, Shape, TypeOK, Task, JobOf, jobVars

\* The campaign handler does not finalize, and neither do the queue and the users.
LEMMA QuietRoot == ASSUME Shape, NEW t \in Slots, RootStep(t) PROVE Quiet
<1>. USE DEF Quiet, jobVars, outVars, envVars
<1>1. CASE RootLoad(t)
  BY <1>1, Moved DEF RootLoad, Settled
<1>2. CASE Cluster(t)
  <2>1. task'[t].pc = "classifying" /\ \A u \in Slots \ {t} : task'[u] = task[u]
    BY <1>2, Clustering
  <2>. QED
    BY <1>2, <2>1 DEF Cluster
<1>3. CASE ClusterFails(t)
  BY <1>3, Moved DEF ClusterFails, Settled
<1>4. ASSUME NEW S \in SUBSET Units, Classify(t, S) PROVE Quiet
  <2>1. task'[t].pc = "caching" /\ \A u \in Slots \ {t} : task'[u] = task[u]
    BY <1>4 DEF Classify, Shape, TypeOK, Task
  <2>. QED
    BY <1>4, <2>1 DEF Classify
<1>5. CASE Cache(t)
  BY <1>5, Moved DEF Cache
<1>6. CASE CacheRefused(t)
  BY <1>6, Moved DEF CacheRefused
<1>7. CASE Check(t)
  <2>1. task'[t].pc = "fanning" /\ \A u \in Slots \ {t} : task'[u] = task[u]
    BY <1>7 DEF Check, Shape, TypeOK, Task
  <2>. QED
    BY <1>7, <2>1 DEF Check
<1>8. CASE FanOut(t)
  BY <1>8, Moved DEF FanOut, MayStart
<1>9. CASE RootOnDead(t)
  BY <1>9, Moved DEF RootOnDead, Settled, Idle
<1>. QED
  BY <1>1, <1>2, <1>3, <1>4, <1>5, <1>6, <1>7, <1>8, <1>9 DEF RootStep

\* A child's step before finalization is quiet.
LEMMA QuietChild == ASSUME Shape, NEW t \in Slots, ChildStep(t) PROVE Quiet
<1>. USE DEF Quiet, jobVars, outVars, envVars
<1>0. task[t] \in Task
  BY DEF Shape, TypeOK
<1>1. CASE ChildLoad(t)
  <2>1. PICK k : k = IF Skips THEN SkipTo(t) ELSE [task[t] EXCEPT !.pc = "researching"]
    OBVIOUS
  <2>2. k.pc \in {"counting", "researching"}
    BY <1>0, <2>1 DEF SkipTo, Task
  <2>. QED
    BY <1>1, <2>1, <2>2, Moved DEF ChildLoad
<1>2. CASE Research(t)
  <2>1. PICK k : k = IF status = "failed" THEN SkipTo(t) ELSE [task[t] EXCEPT !.pc = "storing"]
    OBVIOUS
  <2>2. k.pc \in {"counting", "storing"}
    BY <1>0, <2>1 DEF SkipTo, Task
  <2>. QED
    BY <1>2, <2>1, <2>2, Moved DEF Research
<1>3. CASE Store(t) \/ StoreRefused(t)
  BY <1>3, Moved DEF Store, StoreRefused
<1>4. CASE CountResults(t)
  <2>1. PICK k : k = [task[t] EXCEPT !.pc = "writing", !.seen = Cardinality(Stored)]
    OBVIOUS
  <2>2. k.pc = "writing"
    BY <1>0, <2>1 DEF Task
  <2>3. task' = [task EXCEPT ![t] = k]
    BY <1>4, <2>1 DEF CountResults
  <2>4. task'[t] = k /\ \A u \in Slots \ {t} : task'[u] = task[u]
    BY <2>3, Moved
  <2>. QED
    BY <1>4, <2>2, <2>4 DEF CountResults
<1>5. CASE WriteProgress(t)
  <2>1. PICK k : k = IF task[t].next = Width THEN [task[t] EXCEPT !.pc = "settling"]
                     ELSE [task[t] EXCEPT !.pc = "storing", !.next = task[t].next + 1]
    OBVIOUS
  <2>2. k.pc \in {"settling", "storing"}
    BY <1>0, <2>1 DEF Task
  <2>. QED
    BY <1>5, <2>1, <2>2, Moved DEF WriteProgress
<1>6. CASE MaybeFinalize(t)
  BY <1>6, Moved DEF MaybeFinalize
<1>7. CASE ChildOnDead(t)
  <2>1. PICK k : k = IF Pending = {} THEN [task[t] EXCEPT !.pc = "finalizing", !.hook = TRUE]
                                     ELSE Idle
    OBVIOUS
  <2>2. k.pc \in {"finalizing", "idle"}
    BY <1>0, <2>1 DEF Task, Idle
  <2>3. task' = [task EXCEPT ![t] = k]
    BY <1>7, <2>1 DEF ChildOnDead
  <2>4. task'[t] = k /\ \A u \in Slots \ {t} : task'[u] = task[u]
    BY <2>3, Moved
  <2>. QED
    BY <1>7, <2>2, <2>4 DEF ChildOnDead
<1>. QED
  BY <1>1, <1>2, <1>3, <1>4, <1>5, <1>6, <1>7 DEF ChildStep

\* The queue's steps on a task, and the reconcile loop's, are quiet.
LEMMA QuietQueue ==
  ASSUME Shape, NEW t \in Slots, Ack(t) \/ Fail(t) \/ TaskFault(t) \/ Reconcile(t)
  PROVE  Quiet
<1>. USE DEF Quiet, jobVars, outVars, envVars
<1>0. Idle.pc = "idle"
  BY DEF Idle
<1>1. CASE Ack(t)
  BY <1>0, <1>1, Moved DEF Ack
<1>2. CASE Fail(t)
  <2>1. PICK k : k = [Idle EXCEPT !.job = JobOf(t), !.pc = "hook"]
    OBVIOUS
  <2>2. k.pc = "hook"
    BY <2>1 DEF Idle
  <2>3. task' = [task EXCEPT ![t] = k] \/ task' = [task EXCEPT ![t] = Idle]
    BY <1>2, <2>1 DEF Fail
  <2>. QED
    BY <1>0, <1>2, <2>2, <2>3, Moved DEF Fail
<1>3. CASE Crash(t) \/ Swallow(t) \/ FailFails(t)
  BY <1>0, <1>3, Moved DEF Crash, Swallow, FailFails
<1>4. CASE Raise(t) \/ AckFails(t)
  BY <1>4, Moved DEF Raise, AckFails
<1>5. CASE Reconcile(t)
  <2>1. task'[t].pc = "finalizing" /\ \A u \in Slots \ {t} : task'[u] = task[u]
    BY <1>5 DEF Reconcile, Shape, TypeOK, Task
  <2>. QED
    BY <1>5, <2>1 DEF Reconcile
<1>. QED
  BY <1>1, <1>2, <1>3, <1>4, <1>5 DEF TaskFault

\* Beginning, reclaiming and the users are quiet.
LEMMA QuietOthers ==
  ASSUME Shape,
         \/ \E t \in Slots, q \in Queue : Begin(t, q)
         \/ \E q \in Queue : Reclaim(q)
         \/ UserStep
  PROVE  Quiet
<1>. USE DEF Quiet, jobVars, outVars, envVars
<1>1. ASSUME NEW t \in Slots, NEW q \in Queue, Begin(t, q) PROVE Quiet
  <2>1. PICK k : k = [Idle EXCEPT !.job = q, !.pc = "loading"]
    OBVIOUS
  <2>2. k.pc = "loading"
    BY <2>1 DEF Idle
  <2>. QED
    BY <1>1, <2>1, <2>2, Moved DEF Begin
<1>2. ASSUME NEW q \in Queue, Reclaim(q) PROVE Quiet
  BY <1>2 DEF Reclaim
<1>3. CASE UserStep
  BY <1>3 DEF UserStep, Cancel, DeleteEntities, Retry, Settled
<1>. QED
  BY <1>1, <1>2, <1>3

\* In a quiet step nobody is added to the finalizers, and nobody's ground is taken away.
LEMMA QuietKeeps == ASSUME Shape, OneFinalizer, Quiet PROVE OneFinalizer'
BY DEF Shape, TypeOK, OneFinalizer, Quiet, Locked, Publishing, Settled, Unlocked

\* Finalization: the lock is taken when it is free, and the one who settles the job
\* finds no publisher, because there is one only when the job is settled.
LEMMA FinalizerSteps ==
  ASSUME Shape, OneFinalizer, NEW t \in Slots, FinalStep(t)
  PROVE  OneFinalizer'
<1>. USE DEF jobVars, outVars, envVars
<1>1. CASE Lock(t)
  <2>1. task'[t].pc = "locked" /\ \A u \in Slots \ {t} : task'[u] = task[u]
    BY <1>1, Moved DEF Lock
  <2>2. \A u \in Slots : ~ Locked(u)
    BY <1>1 DEF Lock, Unlocked, Locked
  <2>3. status = "running" /\ status' = status /\ published' = published
    BY <1>1 DEF Lock
  <2>. QED
    BY <2>1, <2>2, <2>3 DEF OneFinalizer, Locked, Publishing, Settled
<1>2. CASE LockSkipped(t)
  BY <1>2, Moved, QuietKeeps DEF LockSkipped, Quiet
<1>3. CASE Finalize(t)
  <2>1. /\ \A u \in Slots : ~ Publishing(u)
        /\ \A u \in Slots \ {t} : ~ Locked(u)
        /\ status = "running" /\ published = 0
    BY <1>3 DEF Finalize, OneFinalizer, Locked, Publishing, Settled, Shape, TypeOK
  <2>2. CASE MayFinalize /\ ~ AllDead
    <3>1. task'[t].pc = "scoring" /\ \A u \in Slots \ {t} : task'[u] = task[u]
      BY <1>3, <2>2, Moved DEF Finalize
    <3>2. status' = "done" /\ published' = published
      BY <1>3, <2>2 DEF Finalize
    <3>. QED
      BY <2>1, <3>1, <3>2 DEF OneFinalizer, Locked, Publishing, Settled
  <2>3. CASE ~ (MayFinalize /\ ~ AllDead)
    <3>1. task'[t].pc \in {"idle", "acking"} /\ \A u \in Slots \ {t} : task'[u] = task[u]
      BY <1>3, <2>3, Moved DEF Finalize
    <3>2. published' = published
      BY <1>3 DEF Finalize
    <3>. QED
      BY <2>1, <3>1, <3>2 DEF OneFinalizer, Locked, Publishing, Settled
  <2>. QED
    BY <2>2, <2>3
<1>4. CASE Score(t)
  <2>1. task'[t].pc = "publishing" /\ \A u \in Slots \ {t} : task'[u] = task[u]
    BY <1>4, Moved DEF Score
  <2>2. task[t].pc = "scoring" /\ status' = status /\ published' = published
    BY <1>4 DEF Score
  <2>. QED
    BY <2>1, <2>2 DEF OneFinalizer, Locked, Publishing
<1>5. CASE Publish(t)
  <2>1. task'[t].pc \in {"idle", "acking"} /\ \A u \in Slots \ {t} : task'[u] = task[u]
    BY <1>5, Moved DEF Publish
  <2>2. task[t].pc = "publishing" /\ status' = status /\ published' \in {published, published + 1}
    BY <1>5 DEF Publish
  <2>. QED
    BY <2>1, <2>2 DEF OneFinalizer, Locked, Publishing
<1>. QED
  BY <1>1, <1>2, <1>3, <1>4, <1>5 DEF FinalStep

\* At the start there is no finalizer.
LEMMA OneFinalizerInit == Init => OneFinalizer
BY DEF Init, OneFinalizer, Locked, Publishing, Idle

\* The invariant of finalization.
LEMMA OneFinalizerStep == ASSUME Shape, OneFinalizer, [Next]_vars PROVE OneFinalizer'
<1>1. CASE Next
  BY <1>1, QuietRoot, QuietChild, QuietQueue, QuietOthers, QuietKeeps, FinalizerSteps
     DEF Next, TaskStep
<1>2. CASE UNCHANGED vars
  BY <1>2 DEF vars, jobVars, outVars, OneFinalizer, Locked, Publishing
<1>. QED
  BY <1>1, <1>2

\* finalize_validation_job settles a job once and its report is published at most once,
\* however many children, hooks, late handlers and reconcile tasks run it.
THEOREM FinalizedOnce == Spec => []PublishedOnce
<1>1. OneFinalizer => PublishedOnce
  BY DEF OneFinalizer, PublishedOnce
<1>. QED
  BY <1>1, OneFinalizerInit, ShapeInit, ShapeStep, OneFinalizerStep, PTL DEF Spec

-----------------------------------------------------------------------------
(* Steps of children and finalizers, seen from the campaign *)

\* A child's step touches neither rows, status, clusters nor budgets, and leaves the
\* child's task a child's, or idle.
LEMMA ChildMoves ==
  ASSUME Shape, NEW t \in Slots, ChildStep(t)
  PROVE  /\ row' = row /\ used' = used /\ clustered' = clustered /\ gone' = gone /\ unshown' = unshown
         /\ status' = status /\ JobOf(t) \in Children
         /\ task'[t].job \in {JobOf(t), NoJob}
         /\ task'[t].pc # "failing" \/ gone
         /\ task'[t].pc \notin CampaignOnly \cup {"hook"}
         /\ \A u \in Slots \ {t} : task'[u] = task[u]
<1>. USE DEF jobVars, outVars, envVars
<1>0. task[t] \in Task /\ task \in [Slots -> Task]
  BY DEF Shape, TypeOK
<1>. DEFINE kept(k) == k.job = JobOf(t) /\ k.pc \notin CampaignOnly \cup {"hook", "failing"}
<1>1. ASSUME NEW k, kept(k) \/ k = Idle, task' = [task EXCEPT ![t] = k]
      PROVE  /\ task'[t].job \in {JobOf(t), NoJob}
             /\ task'[t].pc \notin CampaignOnly \cup {"hook", "failing"}
             /\ \A u \in Slots \ {t} : task'[u] = task[u]
  BY <1>0, <1>1 DEF Idle, CampaignOnly
<1>2. ASSUME NEW l \in {"storing", "counting", "settling", "finalizing", "acking"},
             task' = [task EXCEPT ![t].pc = l]
      PROVE  /\ task'[t].job \in {JobOf(t), NoJob}
             /\ task'[t].pc \notin CampaignOnly \cup {"hook", "failing"}
             /\ \A u \in Slots \ {t} : task'[u] = task[u]
  BY <1>0, <1>2 DEF Task, CampaignOnly, JobOf
<1>3. CASE ChildLoad(t)
  <2>1. PICK k : k = IF Skips THEN SkipTo(t) ELSE [task[t] EXCEPT !.pc = "researching"]
    OBVIOUS
  <2>2. kept(k)
    BY <1>0, <2>1 DEF SkipTo, Task, JobOf, CampaignOnly
  <2>. QED
    BY <1>1, <1>3, <2>1, <2>2 DEF ChildLoad, ChildAt
<1>4. CASE Research(t)
  <2>1. PICK k : k = IF status = "failed" THEN SkipTo(t) ELSE [task[t] EXCEPT !.pc = "storing"]
    OBVIOUS
  <2>2. kept(k)
    BY <1>0, <2>1 DEF SkipTo, Task, JobOf, CampaignOnly
  <2>. QED
    BY <1>1, <1>4, <2>1, <2>2 DEF Research, ChildAt
<1>5. CASE Store(t)
  BY <1>2, <1>5 DEF Store, ChildAt, Goto
<1>6. CASE StoreRefused(t)
  <2>1. /\ task'[t].job = JobOf(t) /\ task'[t].pc = "failing"
        /\ \A u \in Slots \ {t} : task'[u] = task[u]
    BY <1>6, Moved, MovedFields DEF StoreRefused
  <2>. QED
    BY <1>6, <2>1 DEF StoreRefused, ChildAt, CampaignOnly
<1>7. CASE CountResults(t)
  <2>1. PICK k : k = [task[t] EXCEPT !.pc = "writing", !.seen = Cardinality(Stored)]
    OBVIOUS
  <2>2. kept(k)
    BY <1>0, <2>1 DEF Task, JobOf, CampaignOnly
  <2>3. task' = [task EXCEPT ![t] = k]
    BY <1>7, <2>1 DEF CountResults
  <2>. QED
    BY <1>1, <1>7, <2>2, <2>3 DEF CountResults, ChildAt
<1>8. CASE WriteProgress(t)
  <2>1. PICK k : k = IF task[t].next = Width THEN [task[t] EXCEPT !.pc = "settling"]
                     ELSE [task[t] EXCEPT !.pc = "storing", !.next = task[t].next + 1]
    OBVIOUS
  <2>2. kept(k)
    BY <1>0, <2>1 DEF Task, JobOf, CampaignOnly
  <2>. QED
    BY <1>1, <1>8, <2>1, <2>2 DEF WriteProgress, ChildAt
<1>9. CASE MaybeFinalize(t)
  <2>1. Goto(t, "finalizing") \/ Return(t)
    BY <1>9 DEF MaybeFinalize
  <2>2. /\ task'[t].job \in {JobOf(t), NoJob} /\ task'[t].pc \in {"finalizing", "idle", "acking"}
        /\ \A u \in Slots \ {t} : task'[u] = task[u]
    BY <2>1, Moved, MovedFields
  <2>. QED
    BY <1>9, <2>2 DEF MaybeFinalize, ChildAt, CampaignOnly
<1>10. CASE ChildOnDead(t)
  <2>1. PICK k : k = IF Pending = {} THEN [task[t] EXCEPT !.pc = "finalizing", !.hook = TRUE]
                                     ELSE Idle
    OBVIOUS
  <2>2. kept(k) \/ k = Idle
    BY <1>0, <2>1 DEF Task, JobOf, CampaignOnly
  <2>3. task' = [task EXCEPT ![t] = k]
    BY <1>10, <2>1 DEF ChildOnDead
  <2>. QED
    BY <1>1, <1>10, <2>2, <2>3 DEF ChildOnDead, ChildAt
<1>. QED
  BY <1>3, <1>4, <1>5, <1>6, <1>7, <1>8, <1>9, <1>10 DEF ChildStep

\* A finalizer's step changes no row and no cluster, and settles only a running job.
LEMMA FinalMoves ==
  ASSUME Shape, OneFinalizer, NEW t \in Slots, FinalStep(t)
  PROVE  /\ row' = row /\ clustered' = clustered /\ gone' = gone /\ unshown' = unshown
         /\ used'.edits = used.edits /\ used'.cancels = used.cancels
         /\ status' = status \/ (status = "running" /\ status' \in Settled)
         /\ task[t].pc \in Finalizing
         /\ task'[t].pc \in Finalizing \cup {"acking", "idle"}
         /\ task'[t].job \in {JobOf(t), NoJob}
         /\ \A u \in Slots \ {t} : task'[u] = task[u]
<1>. USE DEF jobVars, outVars, envVars
<1>0. task[t] \in Task /\ used \in [faults : Nat, cancels : Nat, retries : Nat, edits : Nat]
  BY DEF Shape, TypeOK
<1>1. ASSUME NEW l \in Finalizing, Goto(t, l)
      PROVE  /\ task'[t].pc \in Finalizing /\ task'[t].job = JobOf(t)
             /\ \A u \in Slots \ {t} : task'[u] = task[u]
  BY <1>1, Moved, MovedFields
<1>2. ASSUME Return(t)
      PROVE  /\ task'[t].pc \in {"acking", "idle"} /\ task'[t].job \in {JobOf(t), NoJob}
             /\ \A u \in Slots \ {t} : task'[u] = task[u]
  BY <1>2, Moved, MovedFields
<1>3. CASE Lock(t)
  BY <1>1, <1>3 DEF Lock, Finalizing
<1>4. CASE LockSkipped(t)
  BY <1>2, <1>4 DEF LockSkipped, Finalizing
<1>5. CASE Finalize(t)
  <2>1. task[t].pc \in Finalizing
    BY <1>5 DEF Finalize, Finalizing
  <2>2. status' = status \/ (status = "running" /\ status' \in Settled)
    BY <1>5 DEF Finalize, OneFinalizer, Locked, Settled
  <2>. QED
    BY <1>1, <1>2, <1>5, <2>1, <2>2 DEF Finalize, Finalizing
<1>6. ASSUME NEW k, Fault(k) PROVE used'.edits = used.edits /\ used'.cancels = used.cancels
  BY <1>0, <1>6 DEF Fault
<1>7. CASE Score(t)
  BY <1>1, <1>6, <1>7 DEF Score, Finalizing
<1>8. CASE Publish(t)
  BY <1>2, <1>6, <1>8 DEF Publish, Finalizing
<1>. QED
  BY <1>3, <1>4, <1>5, <1>7, <1>8 DEF FinalStep

\* Cancellations and deletions are counted and never uncounted.
LEMMA UndisturbedBefore == ASSUME Shape, OneFinalizer, Next, Undisturbed' PROVE Undisturbed
<1>0. used \in [faults : Nat, cancels : Nat, retries : Nat, edits : Nat]
  BY DEF Shape, TypeOK
<1>1. SUFFICES \/ used' = used
               \/ \E k : Fault(k)
               \/ used' = [used EXCEPT !.cancels = @ + 1]
               \/ used' = [used EXCEPT !.edits = @ + 1]
               \/ used' = [used EXCEPT !.retries = @ + 1]
               \/ used'.edits = used.edits /\ used'.cancels = used.cancels
  BY <1>0 DEF Undisturbed, Fault
<1>2. ASSUME NEW t \in Slots, RootStep(t) PROVE used' = used \/ Fault("db")
  BY <1>2 DEF RootStep, RootLoad, Cluster, ClusterFails, Classify, Cache, CacheRefused, Check,
     FanOut, RootOnDead
<1>3. ASSUME NEW t \in Slots, Ack(t) \/ Fail(t) \/ TaskFault(t) \/ Reconcile(t)
      PROVE  used' = used \/ \E k : Fault(k)
  BY <1>3 DEF TaskFault, Ack, Fail, Crash, Raise, Swallow, AckFails, FailFails, Reconcile
<1>4. ASSUME NEW q \in Queue, Reclaim(q) \/ \E t \in Slots : Begin(t, q)
      PROVE  used' = used \/ \E k : Fault(k)
  BY <1>4 DEF Reclaim, Begin
<1>5. ASSUME UserStep PROVE \/ used' = [used EXCEPT !.cancels = @ + 1]
                            \/ used' = [used EXCEPT !.edits = @ + 1]
                            \/ used' = [used EXCEPT !.retries = @ + 1]
  BY <1>5 DEF UserStep, Cancel, DeleteEntities, Retry
<1>. QED
  BY <1>2, <1>3, <1>4, <1>5, ChildMoves, FinalMoves DEF Next, TaskStep

-----------------------------------------------------------------------------
(* The fan-out inserts one row per unit *)

\* A step that starts no campaign handler, moves none to or past the insertion, and
\* leaves the root row alone while there is one.
CampaignQuiet ==
  /\ Existing' = Existing
  /\ \A u \in Slots : Campaigner(u)' =>
       /\ Campaigner(u)
       /\ row'[Root] = row[Root]
       /\ task'[u].pc = task[u].pc \/ task[u].pc # "failing"
  /\ \A u \in Slots : task'[u].pc = "fanning" =>
       task[u].pc = "fanning" /\ task'[u].seen = task[u].seen

\* Such a step keeps the invariant of the fan-out.
LEMMA CampaignQuietKeeps == ASSUME OneCampaigner, CampaignQuiet PROVE OneCampaigner'
BY DEF OneCampaigner, CampaignQuiet, Campaigner

\* Replacing an existing row by an existing row.
LEMMA SameRows ==
  ASSUME Shape, NEW q \in Queue, NEW r, SetRow(q, r),
         row[q].status # "absent", r.status # "absent"
  PROVE  Existing' = Existing /\ (q # Root => row'[Root] = row[Root])
BY QueueRows DEF Shape, TypeOK, SetRow, Existing

\* The queue's own steps start, move and end campaign handlers one at a time.
LEMMA CampaignQueue ==
  ASSUME Shape, OneCampaigner, NEW t \in Slots,
         Ack(t) \/ Fail(t) \/ TaskFault(t) \/ Reconcile(t)
  PROVE  OneCampaigner'
<1>. USE DEF jobVars, outVars, envVars
<1>0. Idle.job = NoJob /\ Idle.pc = "idle" /\ NoJob # Root
  BY QueueRows DEF Idle
<1>1. JobOf(t) # NoJob => /\ JobOf(t) \in Queue /\ row[JobOf(t)] \in Row
                          /\ row[JobOf(t)].status # "absent"
  BY QueueRows DEF Shape, TypeOK, TaskShape, WellPlaced, JobOf, Task
<1>2. task[t].pc \in {"acking", "failing", "hook"} => JobOf(t) # NoJob
  BY DEF Shape, TaskShape, WellPlaced, JobOf, Finalizing
<1>3. ASSUME JobOf(t) # NoJob, NEW r, r \in {Acked(row[JobOf(t)]), Failed(row[JobOf(t)])},
             SetRow(JobOf(t), r)
      PROVE  Existing' = Existing /\ (JobOf(t) # Root => row'[Root] = row[Root])
  <2>1. r.status # "absent"
    BY <1>1, <1>3, RowOperators
  <2>. QED
    BY <1>1, <1>3, <2>1, SameRows
<1>4. ASSUME task[t].pc \in {"acking", "failing"},
             \A u \in Slots \ {t} : task'[u] = task[u],
             task'[t].job = NoJob \/ task'[t].pc = "hook", task'[t].pc # "fanning",
             Existing' = Existing, JobOf(t) # Root => row'[Root] = row[Root]
      PROVE  CampaignQuiet
  BY <1>0, <1>4 DEF CampaignQuiet, Campaigner, OneCampaigner, JobOf
<1>5. CASE Ack(t)
  <2>1. Existing' = Existing /\ (JobOf(t) # Root => row'[Root] = row[Root])
    BY <1>2, <1>3, <1>5 DEF Ack
  <2>2. task'[t] = Idle /\ \A u \in Slots \ {t} : task'[u] = task[u]
    BY <1>5, Moved DEF Ack
  <2>. QED
    BY <1>0, <1>4, <1>5, <2>1, <2>2, CampaignQuietKeeps DEF Ack
<1>6. CASE Fail(t)
  <2>1. Existing' = Existing /\ (JobOf(t) # Root => row'[Root] = row[Root])
    BY <1>2, <1>3, <1>6 DEF Fail
  <2>2. PICK k : k = [Idle EXCEPT !.job = JobOf(t), !.pc = "hook"]
    OBVIOUS
  <2>3. k.pc = "hook"
    BY <2>2 DEF Idle
  <2>4. task' = [task EXCEPT ![t] = k] \/ task' = [task EXCEPT ![t] = Idle]
    BY <1>6, <2>2 DEF Fail
  <2>5. task'[t] \in {k, Idle} /\ \A u \in Slots \ {t} : task'[u] = task[u]
    BY <2>4, Moved
  <2>. QED
    BY <1>0, <1>4, <1>6, <2>1, <2>3, <2>5, CampaignQuietKeeps DEF Fail
<1>7. CASE FailFails(t)
  <2>1. Existing' = Existing /\ (JobOf(t) # Root => row'[Root] = row[Root])
    BY <1>2, <1>3, <1>7 DEF FailFails, Existing
  <2>2. task'[t] = Idle /\ \A u \in Slots \ {t} : task'[u] = task[u]
    BY <1>7, Moved DEF FailFails
  <2>. QED
    BY <1>0, <1>4, <1>7, <2>1, <2>2, CampaignQuietKeeps DEF FailFails
<1>8. CASE Crash(t) \/ Swallow(t)
  <2>1. task'[t] = Idle /\ \A u \in Slots \ {t} : task'[u] = task[u]
    BY <1>8, Moved DEF Crash, Swallow
  <2>2. row' = row
    BY <1>8 DEF Crash, Swallow
  <2>3. CampaignQuiet
    BY <1>0, <2>1, <2>2 DEF CampaignQuiet, Campaigner, Existing, JobOf
  <2>. QED
    BY <2>3, CampaignQuietKeeps
<1>9. CASE Raise(t)
  <2>1. /\ task'[t].pc = "failing" /\ task'[t].job = JobOf(t)
        /\ \A u \in Slots \ {t} : task'[u] = task[u]
    BY <1>9, Moved, MovedFields DEF Raise
  <2>2. row' = row /\ task[t].pc \in Running
    BY <1>9 DEF Raise
  <2>3. CampaignQuiet
    BY <2>1, <2>2 DEF CampaignQuiet, Campaigner, Existing, JobOf, Running
  <2>. QED
    BY <2>3, CampaignQuietKeeps
<1>10. CASE AckFails(t)
  <2>1. Existing' = Existing /\ (JobOf(t) # Root => row'[Root] = row[Root])
    BY <1>2, <1>3, <1>10 DEF AckFails, Existing
  <2>2. /\ task'[t].pc = "failing" /\ task'[t].job = JobOf(t)
        /\ \A u \in Slots \ {t} : task'[u] = task[u]
    BY <1>10, Moved, MovedFields DEF AckFails
  <2>3. CASE JobOf(t) # Root
    <3>1. CampaignQuiet
      BY <1>10, <2>1, <2>2, <2>3 DEF CampaignQuiet, Campaigner, JobOf, AckFails
    <3>. QED
      BY <3>1, CampaignQuietKeeps
  <2>4. CASE JobOf(t) = Root
    <3>1. Campaigner(t) /\ row[Root].status = "running"
      BY <1>10, <2>4 DEF Campaigner, OneCampaigner, AckFails
    <3>2. row'[Root].status \in {"running", "done"}
      <4>1. row[Root] \in Row /\ Root \in Queue /\ row \in [Queue -> Row]
        BY QueueRows DEF Shape, TypeOK
      <4>2. Acked(row[Root]).status = "done"
        BY <3>1, <4>1, RowOperators
      <4>. QED
        BY <1>10, <2>4, <3>1, <4>1, <4>2 DEF AckFails, SetRow
    <3>. QED
      BY <2>1, <2>2, <2>4, <3>1, <3>2 DEF OneCampaigner, Campaigner, JobOf
  <2>. QED
    BY <2>3, <2>4
<1>11. CASE Reconcile(t)
  <2>1. PICK k : k = [task[t] EXCEPT !.pc = "finalizing"]
    OBVIOUS
  <2>2. k.job = NoJob /\ k.pc = "finalizing"
    BY <1>11, <2>1 DEF Reconcile, Idle
  <2>3. task'[t] = k /\ \A u \in Slots \ {t} : task'[u] = task[u]
    BY <1>11, <2>1, Moved DEF Reconcile
  <2>4. CampaignQuiet
    BY <1>0, <1>11, <2>2, <2>3 DEF CampaignQuiet, Campaigner, Existing, JobOf, Reconcile
  <2>. QED
    BY <2>4, CampaignQuietKeeps
<1>. QED
  BY <1>5, <1>6, <1>7, <1>8, <1>9, <1>10, <1>11 DEF TaskFault

\* The campaign handler: counted, then inserted, and nobody else inserts in between.
LEMMA CampaignRoot ==
  ASSUME Shape, OneCampaigner, NEW t \in Slots, RootStep(t)
  PROVE  OneCampaigner'
<1>. USE DEF jobVars, outVars, envVars
<1>1. ASSUME row' = row, \A u \in Slots \ {t} : task'[u] = task[u],
             JobOf(t) = Root, task[t].pc \notin {"failing", "hook"}, task'[t].pc # "fanning"
      PROVE  OneCampaigner'
  <2>1. CampaignQuiet
    BY <1>1 DEF CampaignQuiet, Campaigner, Existing, JobOf
  <2>. QED
    BY <2>1, CampaignQuietKeeps
<1>0. ASSUME NEW l, l # "fanning", Goto(t, l), row' = row,
             JobOf(t) = Root, task[t].pc \notin {"failing", "hook"}
      PROVE  OneCampaigner'
  <2>1. task'[t].pc = l /\ \A u \in Slots \ {t} : task'[u] = task[u]
    BY <1>0, Moved
  <2>. QED
    BY <1>0, <1>1, <2>1
<1>2. CASE RootLoad(t)
  <2>1. ASSUME Goto(t, "clustering") PROVE OneCampaigner'
    BY <1>0, <1>2, <2>1 DEF RootLoad, RootAt
  <2>2. ASSUME Return(t) PROVE OneCampaigner'
    <3>1. task'[t].pc # "fanning" /\ \A u \in Slots \ {t} : task'[u] = task[u]
      BY <2>2, Moved
    <3>. QED
      BY <1>1, <1>2, <3>1 DEF RootLoad, RootAt
  <2>. QED
    BY <1>2, <2>1, <2>2 DEF RootLoad
<1>3. CASE CacheRefused(t)
  BY <1>0, <1>3 DEF CacheRefused, RootAt
<1>10. CASE Cluster(t)
  BY <1>1, <1>10, Clustering DEF Cluster, RootAt
<1>4. CASE ClusterFails(t)
  <2>1. task'[t].pc # "fanning" /\ \A u \in Slots \ {t} : task'[u] = task[u]
    BY <1>4, Moved DEF ClusterFails
  <2>. QED
    BY <1>1, <1>4, <2>1 DEF ClusterFails, RootAt
<1>5. ASSUME NEW S \in SUBSET Units, Classify(t, S) PROVE OneCampaigner'
  <2>1. task'[t].pc = "caching" /\ \A u \in Slots \ {t} : task'[u] = task[u]
    BY <1>5 DEF Classify, Shape, TypeOK, Task
  <2>. QED
    BY <1>1, <1>5, <2>1 DEF Classify, RootAt
<1>6. CASE Cache(t)
  BY <1>0, <1>6 DEF Cache, RootAt
<1>7. CASE Check(t)
  <2>1. PICK k : k = [task[t] EXCEPT !.pc = "fanning", !.hit = {}, !.seen = Cardinality(Existing)]
    OBVIOUS
  <2>2. k.job = JobOf(t) /\ k.pc = "fanning" /\ k.seen = Cardinality(Existing)
    BY <2>1 DEF JobOf, Shape, TypeOK, Task
  <2>3. task' = [task EXCEPT ![t] = k]
    BY <1>7, <2>1 DEF Check
  <2>4. task'[t] = k /\ \A u \in Slots \ {t} : task'[u] = task[u]
    BY <2>3, Moved
  <2>5. k.seen = 0 => Existing = {}
    BY <2>2, Counts
  <2>6. row' = row /\ Existing' = Existing /\ JobOf(t) = Root /\ task[t].pc = "checking"
    BY <1>7 DEF Check, RootAt, Existing
  <2>. QED
    BY <2>2, <2>4, <2>5, <2>6 DEF OneCampaigner, Campaigner, JobOf
<1>8. CASE FanOut(t)
  <2>1. JobOf(t) = Root /\ task[t].pc = "fanning" /\ Campaigner(t)
    BY <1>8 DEF FanOut, RootAt, Campaigner
  <2>2. /\ task'[t].pc \in {"finalizing", "acking", "idle"}
        /\ \A u \in Slots \ {t} : task'[u] = task[u]
    BY <1>8, Moved DEF FanOut
  <2>3. \A u \in Slots \ {t} : task[u].pc # "fanning"
    <3>1. ASSUME NEW u \in Slots, task[u].pc = "fanning" PROVE JobOf(u) = Root
      BY <3>1, QueueRows DEF Shape, TaskShape, WellPlaced, JobOf, Task, Finalizing, CampaignOnly,
         TypeOK
    <3>. QED
      BY <2>1, <3>1 DEF OneCampaigner, Campaigner
  <2>4. row'[Root] = row[Root]
    BY <1>8, QueueRows DEF FanOut, NewCopies
  <2>5. \A c \in Children : c \in Existing' => c \in Existing \/ c \in NewCopies(t)
    BY <1>8, QueueRows DEF FanOut, Existing
  <2>6. ASSUME NEW c \in NewCopies(t) PROVE c[2] = 1
    <3>1. Existing = {}
      BY <2>1, <2>6 DEF NewCopies, MayInsert, OneCampaigner
    <3>2. c \in Children /\ \A k \in 1..(c[2] - 1) : <<c[1], k>> \in Existing
      BY <2>6 DEF NewCopies
    <3>3. c[2] \in Nat /\ c[2] >= 1
      BY <3>2 DEF Children
    <3>4. c[2] > 1 => 1 \in 1..(c[2] - 1)
      BY <3>3
    <3>. QED
      BY <3>1, <3>2, <3>3, <3>4
  <2>7. \A c \in Existing' : c[2] = 1
    BY <2>5, <2>6 DEF OneCampaigner, Existing
  <2>. QED
    BY <2>1, <2>2, <2>3, <2>4, <2>7 DEF OneCampaigner, Campaigner, JobOf
<1>9. CASE RootOnDead(t)
  <2>1. task'[t] = Idle /\ \A u \in Slots \ {t} : task'[u] = task[u]
    BY <1>9, Moved DEF RootOnDead
  <2>2. row' = row /\ Idle.job # Root /\ Idle.pc = "idle"
    BY <1>9, QueueRows DEF RootOnDead, Idle
  <2>3. CampaignQuiet
    BY <2>1, <2>2 DEF CampaignQuiet, Campaigner, Existing, JobOf
  <2>. QED
    BY <2>3, CampaignQuietKeeps
<1>. QED
  BY <1>2, <1>3, <1>4, <1>5, <1>6, <1>7, <1>8, <1>9, <1>10 DEF RootStep

\* Children and finalizers are no campaign handlers that start or insert.
LEMMA CampaignOthers ==
  ASSUME Shape, OneFinalizer, OneCampaigner, NEW t \in Slots, ChildStep(t) \/ FinalStep(t)
  PROVE  OneCampaigner'
<1>1. /\ row' = row /\ task'[t].job \in {JobOf(t), NoJob} /\ task'[t].pc # "fanning"
      /\ \A u \in Slots \ {t} : task'[u] = task[u]
      /\ JobOf(t) = Root => task[t].pc \notin {"failing", "hook"}
  BY ChildMoves, FinalMoves, QueueRows DEF CampaignOnly, Finalizing
<1>2. CampaignQuiet
  BY <1>1, QueueRows DEF CampaignQuiet, Campaigner, Existing, JobOf
<1>. QED
  BY <1>2, CampaignQuietKeeps

\* A row is handed to a new handler only when it is pending, and without timeouts that
\* means that no handler is left.
LEMMA CampaignBegin ==
  ASSUME Shape, OneCampaigner, NEW t \in Slots, NEW q \in Queue, Begin(t, q)
  PROVE  OneCampaigner'
<1>. USE DEF jobVars, outVars, envVars
<1>1. row[q] \in Row /\ row[q].status = "pending" /\ row \in [Queue -> Row]
  BY DEF Begin, Shape, TypeOK
<1>2. PICK r : r = Marked(Claimed(row[q]))
  OBVIOUS
<1>3. r.status = "running" /\ SetRow(q, r)
  BY <1>1, <1>2, RowOperators DEF Begin
<1>4. Existing' = Existing /\ (q # Root => row'[Root] = row[Root])
  BY <1>1, <1>3, SameRows
<1>5. row'[q].status = "running"
  BY <1>1, <1>3 DEF SetRow
<1>6. PICK k : k = [Idle EXCEPT !.job = q, !.pc = "loading"]
  OBVIOUS
<1>7. k.job = q /\ k.pc = "loading"
  BY <1>6 DEF Idle
<1>8. task'[t] = k /\ \A u \in Slots \ {t} : task'[u] = task[u]
  BY <1>6, Moved DEF Begin
<1>9. CASE q # Root
  <2>1. CampaignQuiet
    BY <1>4, <1>7, <1>8, <1>9 DEF CampaignQuiet, Campaigner, JobOf
  <2>. QED
    BY <2>1, CampaignQuietKeeps
<1>10. CASE q = Root
  <2>1. \A u \in Slots : ~ Campaigner(u)
    BY <1>1, <1>10 DEF OneCampaigner
  <2>. QED
    BY <1>4, <1>5, <1>7, <1>8, <1>10, <2>1 DEF OneCampaigner, Campaigner, JobOf
<1>. QED
  BY <1>9, <1>10

\* Without timeouts a row is taken back only when its handler is gone.
LEMMA CampaignReclaim ==
  ASSUME Shape, OneCampaigner, "late" \notin FaultKinds, NEW q \in Queue, Reclaim(q)
  PROVE  OneCampaigner'
<1>. USE DEF jobVars, outVars, envVars
<1>1. row[q] \in Row /\ row[q].status = "running"
  BY DEF Reclaim, Shape, TypeOK
<1>2. PICK r : r = Reclaimed([row[q] EXCEPT !.beat = "stale"])
  OBVIOUS
<1>3. r.status = "pending" /\ SetRow(q, r)
  BY <1>1, <1>2, RowOperators DEF Reclaim
<1>4. Existing' = Existing /\ (q # Root => row'[Root] = row[Root])
  BY <1>1, <1>3, SameRows
<1>5. ~ Handled(q) /\ task' = task
  BY DEF Reclaim, Fault
<1>6. q = Root => \A u \in Slots : ~ Campaigner(u)
  BY <1>5, QueueRows DEF Handled, Campaigner, Shape, TaskShape, WellPlaced, JobOf
<1>7. CampaignQuiet
  BY <1>4, <1>5, <1>6 DEF CampaignQuiet, Campaigner, JobOf
<1>. QED
  BY <1>7, CampaignQuietKeeps

\* The one request that disturbs nobody is the retry of a dead row, which has no handler.
LEMMA CampaignUser ==
  ASSUME Shape, OneCampaigner, UserStep, Undisturbed'
  PROVE  OneCampaigner'
<1>. USE DEF jobVars, outVars, envVars
<1>0. used \in [faults : Nat, cancels : Nat, retries : Nat, edits : Nat]
  BY DEF Shape, TypeOK
<1>1. ~ Cancel /\ ~ DeleteEntities
  BY <1>0 DEF Cancel, DeleteEntities, Undisturbed
<1>2. PICK q \in Queue : Retry(q)
  BY <1>1 DEF UserStep
<1>3. row[q] \in Row /\ row[q].status = "dead" /\ task' = task
  BY <1>2 DEF Retry, Shape, TypeOK
<1>4. PICK r : r = Retried(row[q])
  OBVIOUS
<1>5. r.status = "pending" /\ SetRow(q, r)
  BY <1>2, <1>3, <1>4, RowOperators DEF Retry
<1>6. Existing' = Existing /\ (q # Root => row'[Root] = row[Root])
  BY <1>3, <1>5, SameRows
<1>7. q = Root => \A u \in Slots : ~ Campaigner(u)
  BY <1>3 DEF OneCampaigner
<1>8. CampaignQuiet
  BY <1>3, <1>6, <1>7 DEF CampaignQuiet, Campaigner, JobOf
<1>. QED
  BY <1>8, CampaignQuietKeeps

\* The invariant of the fan-out.
LEMMA FanOutStep == ASSUME Shape, OneFinalizer, FanOutInv, [Next]_vars PROVE FanOutInv'
<1>1. CASE Next
  <2>1. SUFFICES ASSUME "late" \notin FaultKinds, Undisturbed' PROVE OneCampaigner'
    BY DEF FanOutInv
  <2>2. OneCampaigner
    BY <1>1, <2>1, UndisturbedBefore DEF FanOutInv
  <2>. QED
    BY <1>1, <2>1, <2>2, CampaignQueue, CampaignRoot, CampaignOthers, CampaignBegin,
       CampaignReclaim, CampaignUser DEF Next, TaskStep
<1>2. CASE UNCHANGED vars
  BY <1>2 DEF vars, FanOutInv, Undisturbed, OneCampaigner, Campaigner, Existing, JobOf
<1>. QED
  BY <1>1, <1>2

\* When no handler outlives its timeout, and until somebody cancels or deletes, the fan-out
\* of the campaign workflow inserts one queue row per unit, however often it is repeated
\* after crashes, database faults and retries.
THEOREM UnitsQueuedOnce ==
  ASSUME "late" \notin FaultKinds
  PROVE  Spec => []FanOutOnce
<1>1. Init => FanOutInv
  <2>1. ASSUME Init PROVE OneCampaigner
    <3>1. Existing = {}
      BY <2>1, QueueRows DEF Init, Existing, NoRow
    <3>. QED
      BY <2>1, <3>1, QueueRows DEF Init, OneCampaigner, Campaigner, JobOf, Idle
  <2>. QED
    BY <2>1 DEF FanOutInv
<1>2. FanOutInv => FanOutOnce
  <2>1. ASSUME OneCampaigner PROVE \A c, e \in Existing : c[1] = e[1] => c = e
    BY <2>1 DEF OneCampaigner, Existing, Children
  <2>. QED
    BY <2>1 DEF FanOutInv, FanOutOnce
<1>. QED
  BY <1>1, <1>2, OneFinalizerInit, ShapeInit, ShapeStep, OneFinalizerStep, FanOutStep, PTL DEF Spec

-----------------------------------------------------------------------------
(* The outcome is final *)

\* A step that does not move the campaign handler forward, delete, or start the job.
OutcomeQuiet ==
  /\ gone' = gone /\ clustered' = clustered /\ unshown' = unshown
  /\ status' \in {"running", "done"} => status \in {"running", "done"}
  /\ \A u \in Slots : \/ task'[u] = task[u]
                      \/ /\ JobOf(u)' = Root => task'[u].pc \notin {"failing", "hook"}
                         /\ task'[u].pc \notin CampaignOnly \ {"clustering"}

\* Such a step keeps the invariant of the outcome.
LEMMA OutcomeQuietKeeps == ASSUME CampaignSucceeds, OutcomeQuiet PROVE CampaignSucceeds'
BY DEF CampaignSucceeds, OutcomeQuiet, JobOf

\* A task at the campaign's program points is the campaign's.
LEMMA AtCampaign ==
  ASSUME Shape, NEW t \in Slots, task[t].pc \in CampaignOnly PROVE JobOf(t) = Root
BY QueueRows DEF Shape, TypeOK, TaskShape, WellPlaced, JobOf, Task, Finalizing, CampaignOnly

\* What the campaign handler does to a job that nobody disturbs.
LEMMA OutcomeRoot ==
  ASSUME Shape, OneFinalizer, CampaignSucceeds, "db" \notin FaultKinds,
         NEW t \in Slots, RootStep(t)
  PROVE  CampaignSucceeds' /\ (status' # status => status \notin Settled)
<1>. USE DEF jobVars, outVars, envVars
<1>0. ~ gone /\ unshown = {} /\ unshown' = unshown
  BY DEF CampaignSucceeds, RootStep, RootLoad, Cluster, ClusterFails, Classify, Cache,
     CacheRefused, Check, FanOut, RootOnDead
<1>1. ASSUME NEW l, Goto(t, l), l \notin {"failing", "hook"}, gone' = gone,
             clustered = Units => clustered' = Units,
             status' \in {"running", "done"} => clustered' = Units,
             l \in CampaignOnly \ {"clustering"} => clustered' = Units
      PROVE  CampaignSucceeds'
  BY <1>0, <1>1, Moved DEF CampaignSucceeds, JobOf
<1>2. ASSUME Return(t), gone' = gone, clustered' = clustered,
             status' \in {"running", "done"} => clustered' = Units
      PROVE  CampaignSucceeds'
  BY <1>0, <1>2, Moved DEF CampaignSucceeds, JobOf, CampaignOnly
<1>3. status \in {"running", "done"} => clustered = Units
  BY DEF CampaignSucceeds
<1>4. CASE RootLoad(t)
  BY <1>0, <1>1, <1>3, <1>4 DEF RootLoad, CampaignOnly
<1>5. CASE Cluster(t)
  <2>1. clustered' = Units
    BY <1>0, <1>5, Clustering
  <2>2. task'[t].pc = "classifying" /\ \A u \in Slots \ {t} : task'[u] = task[u]
    BY <1>5, Clustering
  <2>. QED
    BY <1>0, <1>5, <2>1, <2>2 DEF Cluster, CampaignSucceeds, JobOf
<1>6. CASE ClusterFails(t)
  <2>1. clustered # Units
    BY <1>6 DEF ClusterFails, Fault
  <2>. QED
    BY <1>2, <1>3, <1>6, <2>1 DEF ClusterFails, Settled
<1>7. ASSUME NEW S \in SUBSET Units, Classify(t, S)
      PROVE  CampaignSucceeds' /\ status' = status
  <2>1. task'[t].pc = "caching" /\ \A u \in Slots \ {t} : task'[u] = task[u]
    BY <1>7 DEF Classify, Shape, TypeOK, Task
  <2>2. clustered = Units
    BY <1>7 DEF Classify, RootAt, CampaignSucceeds, CampaignOnly
  <2>. QED
    BY <1>0, <1>7, <2>1, <2>2 DEF Classify, CampaignSucceeds, JobOf
<1>8. CASE Cache(t)
  <2>1. clustered = Units
    BY <1>8 DEF Cache, RootAt, CampaignSucceeds, CampaignOnly
  <2>. QED
    BY <1>1, <1>8, <2>1 DEF Cache
<1>9. CASE CacheRefused(t)
  BY <1>0, <1>9 DEF CacheRefused
<1>10. CASE Check(t)
  <2>1. task'[t].pc = "fanning" /\ \A u \in Slots \ {t} : task'[u] = task[u]
    BY <1>10 DEF Check, Shape, TypeOK, Task
  <2>2. clustered = Units
    BY <1>10 DEF Check, RootAt, CampaignSucceeds, CampaignOnly
  <2>. QED
    BY <1>0, <1>10, <2>1, <2>2 DEF Check, CampaignSucceeds, JobOf
<1>11. CASE FanOut(t)
  <2>1. clustered = Units
    BY <1>11 DEF FanOut, RootAt, CampaignSucceeds, CampaignOnly
  <2>2. gone' = gone /\ clustered' = clustered /\ (Goto(t, "finalizing") \/ Return(t))
    BY <1>11 DEF FanOut
  <2>3. status' # status => status \notin Settled
    BY <1>11 DEF FanOut, MayStart, Settled
  <2>. QED
    BY <1>1, <1>2, <2>1, <2>2, <2>3
<1>12. CASE RootOnDead(t)
  BY <1>12 DEF RootOnDead, RootAt, CampaignSucceeds
<1>. QED
  BY <1>4, <1>5, <1>6, <1>7, <1>8, <1>9, <1>10, <1>11, <1>12 DEF RootStep

\* Without database faults and timeouts a campaign handler ends by its acknowledgement.
LEMMA OutcomeQueue ==
  ASSUME Shape, CampaignSucceeds, FaultKinds \cap {"db", "late"} = {}, NEW t \in Slots,
         Ack(t) \/ Fail(t) \/ TaskFault(t) \/ Reconcile(t)
  PROVE  CampaignSucceeds' /\ status' = status
<1>. USE DEF jobVars, outVars, envVars
<1>0. Idle.job = NoJob /\ Idle.pc = "idle" /\ NoJob # Root
  BY QueueRows DEF Idle
<1>1. /\ status' = status /\ clustered' = clustered /\ unshown' = unshown /\ gone' = gone
  BY DEF Ack, Fail, TaskFault, Crash, Raise, Swallow, AckFails, FailFails, Reconcile
<1>2. ~ Fault("db") /\ ~ Fault("late")
  BY DEF Fault
<1>3. ASSUME task'[t].job # Root \/ task'[t].pc \notin {"failing", "hook"},
             task'[t].pc \notin CampaignOnly, \A u \in Slots \ {t} : task'[u] = task[u]
      PROVE  CampaignSucceeds'
  <2>1. OutcomeQuiet
    BY <1>1, <1>3 DEF OutcomeQuiet, JobOf
  <2>. QED
    BY <2>1, OutcomeQuietKeeps
<1>4. CASE Ack(t) \/ Crash(t)
  <2>1. task'[t] = Idle /\ \A u \in Slots \ {t} : task'[u] = task[u]
    BY <1>4, Moved DEF Ack, Crash
  <2>. QED
    BY <1>0, <1>1, <1>3, <2>1 DEF CampaignOnly
<1>5. CASE Fail(t)
  <2>1. PICK k : k = [Idle EXCEPT !.job = JobOf(t), !.pc = "hook"]
    OBVIOUS
  <2>2. k.pc = "hook" /\ k.job = JobOf(t)
    BY <2>1 DEF Idle
  <2>3. task' = [task EXCEPT ![t] = k] \/ task' = [task EXCEPT ![t] = Idle]
    BY <1>5, <2>1 DEF Fail
  <2>4. task'[t] \in {k, Idle} /\ \A u \in Slots \ {t} : task'[u] = task[u]
    BY <2>3, Moved
  <2>5. JobOf(t) # Root
    BY <1>5 DEF Fail, CampaignSucceeds
  <2>. QED
    BY <1>0, <1>1, <1>3, <2>2, <2>4, <2>5 DEF CampaignOnly
<1>6. CASE Raise(t)
  <2>1. task[t].pc = "researching" /\ Goto(t, "failing")
    BY <1>2, <1>6 DEF Raise
  <2>2. JobOf(t) # Root
    BY <2>1 DEF Shape, TaskShape, WellPlaced, JobOf, ClusterOnly
  <2>3. /\ task'[t].pc = "failing" /\ task'[t].job = JobOf(t)
        /\ \A u \in Slots \ {t} : task'[u] = task[u]
    BY <2>1, Moved, MovedFields
  <2>. QED
    BY <1>1, <1>3, <2>2, <2>3 DEF CampaignOnly
<1>7. CASE Reconcile(t)
  <2>1. task'[t].pc = "finalizing" /\ \A u \in Slots \ {t} : task'[u] = task[u]
    BY <1>7 DEF Reconcile, Shape, TypeOK, Task
  <2>. QED
    BY <1>1, <1>3, <2>1 DEF CampaignOnly
<1>8. ~ Swallow(t) /\ ~ AckFails(t) /\ ~ FailFails(t)
  BY <1>2 DEF Swallow, AckFails, FailFails
<1>. QED
  BY <1>1, <1>4, <1>5, <1>6, <1>7, <1>8 DEF TaskFault

\* Everything else.
LEMMA OutcomeOthers ==
  ASSUME Shape, OneFinalizer, CampaignSucceeds,
         \/ \E t \in Slots : ChildStep(t) \/ FinalStep(t)
         \/ \E t \in Slots, q \in Queue : Begin(t, q)
         \/ \E q \in Queue : Reclaim(q)
         \/ Undisturbed' /\ UserStep
  PROVE  CampaignSucceeds' /\ (status' # status => status \notin Settled)
<1>. USE DEF jobVars, outVars, envVars
<1>0. ~ gone /\ used \in [faults : Nat, cancels : Nat, retries : Nat, edits : Nat]
  BY DEF CampaignSucceeds, Shape, TypeOK
<1>1. ASSUME NEW t \in Slots, ChildStep(t) PROVE OutcomeQuiet /\ status' = status
  BY <1>0, <1>1, ChildMoves DEF OutcomeQuiet, JobOf
<1>2. ASSUME NEW t \in Slots, FinalStep(t)
      PROVE  OutcomeQuiet /\ (status' # status => status \notin Settled)
  BY <1>2, FinalMoves DEF OutcomeQuiet, JobOf, Settled, Finalizing, CampaignOnly
<1>3. ASSUME NEW t \in Slots, NEW q \in Queue, Begin(t, q) PROVE OutcomeQuiet /\ status' = status
  <2>1. PICK k : k = [Idle EXCEPT !.job = q, !.pc = "loading"]
    OBVIOUS
  <2>2. k.pc = "loading"
    BY <2>1 DEF Idle
  <2>3. task'[t] = k /\ \A u \in Slots \ {t} : task'[u] = task[u]
    BY <1>3, <2>1, Moved DEF Begin
  <2>. QED
    BY <1>3, <2>2, <2>3 DEF Begin, OutcomeQuiet, CampaignOnly
<1>4. ASSUME NEW q \in Queue, Reclaim(q) PROVE OutcomeQuiet /\ status' = status
  BY <1>4 DEF Reclaim, OutcomeQuiet
<1>5. ASSUME Undisturbed', UserStep PROVE OutcomeQuiet /\ status' = status
  BY <1>0, <1>5 DEF UserStep, Cancel, DeleteEntities, Retry, Undisturbed, OutcomeQuiet
<1>. QED
  BY <1>1, <1>2, <1>3, <1>4, <1>5, OutcomeQuietKeeps

\* Which attributes the first clustering leaves out is settled from the start.
LEMMA UnshownKept == ASSUME [Next]_vars PROVE unshown' = unshown /\ Shown' = Shown
<1>. USE DEF jobVars, outVars, envVars
<1>1. ASSUME NEW t \in Slots, RootStep(t) PROVE unshown' = unshown
  BY <1>1 DEF RootStep, RootLoad, Cluster, ClusterFails, Classify, Cache, CacheRefused,
     Check, FanOut, RootOnDead
<1>2. ASSUME NEW t \in Slots, ChildStep(t) PROVE unshown' = unshown
  BY <1>2 DEF ChildStep, ChildLoad, Research, Store, StoreRefused, CountResults,
     WriteProgress, MaybeFinalize, ChildOnDead
<1>3. ASSUME NEW t \in Slots, FinalStep(t) PROVE unshown' = unshown
  BY <1>3 DEF FinalStep, Lock, LockSkipped, Finalize, Score, Publish
<1>4. ASSUME NEW t \in Slots, Ack(t) \/ Fail(t) \/ TaskFault(t) \/ Reconcile(t)
      PROVE  unshown' = unshown
  BY <1>4 DEF Ack, Fail, TaskFault, Crash, Raise, Swallow, AckFails, FailFails, Reconcile
<1>5. ASSUME \/ \E t \in Slots, q \in Queue : Begin(t, q)
             \/ \E q \in Queue : Reclaim(q)
             \/ UserStep
      PROVE  unshown' = unshown
  BY <1>5 DEF UserStep, Cancel, DeleteEntities, Retry, Reclaim, Begin
<1>. QED
  BY <1>1, <1>2, <1>3, <1>4, <1>5 DEF Next, TaskStep, vars, Shown

\* The invariant of the outcome, and what it says of a step.
LEMMA SettledStep ==
  ASSUME Shape, OneFinalizer, SettledInv, [Next]_vars
  PROVE  /\ SettledInv'
         /\ FaultKinds \cap {"db", "late"} = {} /\ Undisturbed /\ unshown = {}
            /\ status' # status => status \notin Settled
<1>. USE DEF jobVars, outVars, envVars
<1>0. unshown' = unshown
  BY UnshownKept
<1>1. CASE Next
  <2>1. CASE FaultKinds \cap {"db", "late"} # {} \/ unshown # {}
    BY <1>0, <2>1 DEF SettledInv
  <2>2. CASE FaultKinds \cap {"db", "late"} = {} /\ unshown = {} /\ Undisturbed'
    <3>1. CampaignSucceeds
      BY <1>1, <2>2, UndisturbedBefore DEF SettledInv
    <3>2. "db" \notin FaultKinds
      BY <2>2
    <3>. QED
      BY <1>1, <2>2, <3>1, <3>2, OutcomeRoot, OutcomeQueue, OutcomeOthers
         DEF SettledInv, Next, TaskStep
  <2>3. CASE /\ FaultKinds \cap {"db", "late"} = {} /\ unshown = {}
             /\ ~ Undisturbed' /\ Undisturbed
    <3>1. used \in [faults : Nat, cancels : Nat, retries : Nat, edits : Nat]
      BY DEF Shape, TypeOK
    <3>2. CASE UserStep
      BY <2>3, <3>1, <3>2 DEF UserStep, Cancel, DeleteEntities, Retry, SettledInv
    <3>3. CASE ~ UserStep
      <4>1. CampaignSucceeds /\ "db" \notin FaultKinds
        BY <2>3 DEF SettledInv
      <4>2. status' # status => status \notin Settled
        BY <1>1, <2>3, <3>3, <4>1, OutcomeRoot, OutcomeQueue, OutcomeOthers DEF Next, TaskStep
      <4>. QED
        BY <2>3, <4>2 DEF SettledInv
    <3>. QED
      BY <3>2, <3>3
  <2>4. CASE ~ Undisturbed /\ ~ Undisturbed'
    BY <2>4 DEF SettledInv
  <2>. QED
    BY <2>1, <2>2, <2>3, <2>4
<1>2. CASE UNCHANGED vars
  BY <1>2 DEF vars, SettledInv, Undisturbed, CampaignSucceeds, JobOf
<1>. QED
  BY <1>1, <1>2

\* Without database faults and timeouts, when no attribute is left to cluster later, and until
\* somebody cancels the job or deletes the campaign's entities, no step moves a job out of
\* done or failed.
THEOREM OutcomeIsFinal ==
  ASSUME FaultKinds \cap {"db", "late"} = {}
  PROVE  Spec => SettledIsFinal
<1>1. Init => SettledInv
  BY QueueRows DEF Init, SettledInv, CampaignSucceeds, JobOf, Idle, CampaignOnly
<1>2. Shape /\ OneFinalizer /\ SettledInv /\ [Next]_vars
        => [Undisturbed /\ unshown = {} /\ status' # status => status \notin Settled]_vars
  BY SettledStep
<1>. QED
  BY <1>1, <1>2, OneFinalizerInit, ShapeInit, ShapeStep, OneFinalizerStep, SettledStep, PTL
     DEF Spec, SettledIsFinal

-----------------------------------------------------------------------------
(* A job that is done answered for every pair *)

\* A step that inserts no row, starts no job, loses no result, lets a row be done only
\* when its unit has all its results, and leaves every task with the results it counts on.
CoverQuiet ==
  /\ Existing' = Existing
  /\ status' = status \/ status' \in Settled
  /\ gone => gone'
  /\ Live' => \A p \in Pairs : results[p] # "none" => results'[p] # "none"
  /\ Live' => \A c \in Children : row'[c].status = "done" =>
                row[c].status = "done" \/ Covered(c[1], Width, results)
  /\ \A u \in Slots : \/ task'[u] = task[u]
                      \/ task'[u].pc # "fanning" /\ (Live' => TaskCovered(task'[u], results', Shown))

\* The pairs of a unit, and results that only grow.
LEMMA CoverGrows ==
  ASSUME NEW u \in Units, NEW n \in 0..Width, NEW r1, NEW r2, Covered(u, n, r1),
         \A p \in Pairs : r1[p] # "none" => r2[p] # "none"
  PROVE  Covered(u, n, r2)
BY QueueRows DEF Covered, Pairs

\* The attributes a task has stored are attributes of its unit.
LEMMA CountedIsStored ==
  ASSUME NEW k \in Task
  PROVE  StoredBy(k) \in 0..Width /\ k.next \in 1..Width
BY QueueRows DEF StoredBy, Task

\* What a task counts on stays when results only grow.
LEMMA TaskGrows ==
  ASSUME NEW k \in Task, NEW r1, NEW r2, NEW S \in SUBSET Units, TaskCovered(k, r1, S),
         \A p \in Pairs : r1[p] # "none" => r2[p] # "none"
  PROVE  TaskCovered(k, r2, S)
<1>1. ASSUME NEW u \in Units, Covered(u, Width, r1) PROVE Covered(u, Width, r2)
  <2>1. Width \in 0..Width
    BY QueueRows
  <2>. QED
    BY <1>1, <2>1, CoverGrows
<1>2. ASSUME k.job \in Children, Covered(k.job[1], StoredBy(k), r1)
      PROVE  Covered(k.job[1], StoredBy(k), r2)
  <2>1. k.job[1] \in Units
    BY <1>2 DEF Children
  <2>. QED
    BY <1>2, <2>1, CountedIsStored, CoverGrows
<1>. QED
  BY <1>1, <1>2 DEF TaskCovered

\* Tasks that count on no result.
LEMMA FreeTask ==
  ASSUME NEW k, NEW res, NEW S, k.pc \notin Planning,
         \/ k.job \notin Children
         \/ k.hook
         \/ k.pc \in {"idle", "loading", "researching", "failing", "hook"}
  PROVE  TaskCovered(k, res, S)
<1>1. k.pc \in {"idle", "loading", "researching", "failing", "hook"} => StoredBy(k) = 0
  BY DEF StoredBy, Finalizing
<1>2. \A u : Covered(u, 0, res)
  BY DEF Covered
<1>. QED
  BY <1>1, <1>2 DEF TaskCovered, Planning

\* Such a step keeps the invariant of the coverage.
LEMMA CoverQuietKeeps ==
  ASSUME Shape, Shape', NothingForgotten, CoverQuiet, Shown' = Shown
  PROVE  NothingForgotten'
<1>0. Shown \subseteq Units
  BY DEF Shown
<1>1. Live' => Live /\ status' = status
  BY DEF CoverQuiet, Live, Settled, Shape, TypeOK
<1>2. status' = "queued" => Existing' = {}
  BY DEF CoverQuiet, NothingForgotten, Settled
<1>3. \A t \in Slots : task'[t].pc = "fanning" /\ task'[t].seen # 0 => Existing' # {}
  BY DEF CoverQuiet, NothingForgotten
<1>4. ASSUME Live', NEW t \in Slots PROVE TaskCovered(task'[t], results', Shown)
  <2>1. task[t] \in Task /\ TaskCovered(task[t], results, Shown)
    BY <1>1, <1>4 DEF NothingForgotten, Shape, TypeOK
  <2>2. \A p \in Pairs : results[p] # "none" => results'[p] # "none"
    BY <1>4 DEF CoverQuiet
  <2>3. TaskCovered(task[t], results', Shown)
    BY <1>0, <2>1, <2>2, TaskGrows
  <2>. QED
    BY <1>4, <2>3 DEF CoverQuiet
<1>5. ASSUME Live', NEW u \in Units, Covered(u, Width, results) PROVE Covered(u, Width, results')
  <2>1. Width \in 0..Width
    BY QueueRows
  <2>. QED
    BY <1>5, <2>1, CoverGrows DEF CoverQuiet
<1>6. ASSUME Live', NEW c \in Children, row'[c].status = "done"
      PROVE  Covered(c[1], Width, results')
  <2>1. c[1] \in Units
    BY DEF Children
  <2>2. Covered(c[1], Width, results)
    BY <1>1, <1>6 DEF CoverQuiet, NothingForgotten
  <2>. QED
    BY <1>5, <1>6, <2>1, <2>2
<1>7. ASSUME Live', status' = "running", NEW u \in Shown
      PROVE  Covered(u, Width, results') \/ \E c \in Existing' : c[1] = u
  <2>1. Covered(u, Width, results) \/ \E c \in Existing : c[1] = u
    BY <1>1, <1>7 DEF NothingForgotten
  <2>. QED
    BY <1>0, <1>5, <1>7, <2>1 DEF CoverQuiet
<1>. QED
  BY <1>2, <1>3, <1>4, <1>6, <1>7 DEF NothingForgotten

\* The queue: a row is done when its handler has acknowledged it, and a child's handler
\* acknowledges when it has stored every attribute.
LEMMA CoverQueue ==
  ASSUME Shape, NothingForgotten, NEW t \in Slots,
         Ack(t) \/ Fail(t) \/ TaskFault(t) \/ Reconcile(t)
  PROVE  CoverQuiet
<1>. USE DEF jobVars, outVars, envVars, Planning
<1>0. Idle.job = NoJob /\ Idle.pc = "idle" /\ NoJob \notin Children
  BY QueueRows DEF Idle
<1>1. JobOf(t) # NoJob => /\ JobOf(t) \in Queue /\ row[JobOf(t)] \in Row
                          /\ row[JobOf(t)].status # "absent"
  BY QueueRows DEF Shape, TypeOK, TaskShape, WellPlaced, JobOf, Task
<1>2. task[t].pc \in {"acking", "failing", "hook"} => JobOf(t) # NoJob /\ ~ task[t].hook
  BY DEF Shape, TaskShape, WellPlaced, JobOf, Finalizing
<1>3. /\ status' = status /\ gone' = gone /\ results' = results
  BY DEF Ack, Fail, TaskFault, Crash, Raise, Swallow, AckFails, FailFails, Reconcile
<1>4. ASSUME row' = row \/ /\ task[t].pc \in {"acking", "failing"}
                           /\ \/ SetRow(JobOf(t), Failed(row[JobOf(t)]))
                              \/ /\ task[t].pc = "acking"
                                 /\ SetRow(JobOf(t), Acked(row[JobOf(t)]))
      PROVE  /\ Existing' = Existing
             /\ Live => \A c \in Children : row'[c].status = "done" =>
                          row[c].status = "done" \/ Covered(c[1], Width, results)
  <2>1. CASE row' = row
    BY <2>1 DEF Existing
  <2>2. CASE task[t].pc \in {"acking", "failing"} /\ SetRow(JobOf(t), Failed(row[JobOf(t)]))
    <3>1. PICK r : r = Failed(row[JobOf(t)])
      OBVIOUS
    <3>2. r.status \in {"pending", "dead"} /\ SetRow(JobOf(t), r)
      BY <1>1, <1>2, <2>2, <3>1, RowOperators
    <3>3. Existing' = Existing
      BY <1>1, <1>2, <2>2, <3>2, SameRows
    <3>. QED
      BY <3>2, <3>3 DEF SetRow, Shape, TypeOK, Children, Queue
  <2>3. CASE task[t].pc = "acking" /\ SetRow(JobOf(t), Acked(row[JobOf(t)]))
    <3>1. PICK r : r = Acked(row[JobOf(t)])
      OBVIOUS
    <3>2. r.status # "absent" /\ SetRow(JobOf(t), r)
      BY <1>1, <1>2, <2>3, <3>1, RowOperators
    <3>3. Existing' = Existing
      BY <1>1, <1>2, <2>3, <3>2, SameRows
    <3>4. Live /\ JobOf(t) \in Children => Covered(JobOf(t)[1], Width, results)
      BY <1>2, <2>3 DEF NothingForgotten, TaskCovered, StoredBy, JobOf, Finalizing
    <3>. QED
      BY <3>2, <3>3, <3>4 DEF SetRow, Shape, TypeOK, Children, Queue
  <2>. QED
    BY <1>4, <2>1, <2>2, <2>3
<1>5. row' = row \/ /\ task[t].pc \in {"acking", "failing"}
                    /\ \/ SetRow(JobOf(t), Failed(row[JobOf(t)]))
                       \/ task[t].pc = "acking" /\ SetRow(JobOf(t), Acked(row[JobOf(t)]))
  BY DEF Ack, Fail, TaskFault, Crash, Raise, Swallow, AckFails, FailFails, Reconcile
<1>6. ASSUME NEW k, k.pc \in {"idle", "failing", "hook", "finalizing"},
             k.pc = "finalizing" => k.job = NoJob, task'[t] = k,
             \A u \in Slots \ {t} : task'[u] = task[u]
      PROVE  CoverQuiet
  <2>1. TaskCovered(k, results', Shown)
    BY <1>0, <1>6, FreeTask
  <2>. QED
    BY <1>3, <1>4, <1>5, <1>6, <2>1 DEF CoverQuiet, Live
<1>7. CASE Ack(t) \/ Crash(t) \/ Swallow(t) \/ FailFails(t)
  <2>1. task'[t] = Idle /\ \A u \in Slots \ {t} : task'[u] = task[u]
    BY <1>7, Moved DEF Ack, Crash, Swallow, FailFails
  <2>. QED
    BY <1>0, <1>6, <2>1
<1>8. CASE Fail(t)
  <2>1. PICK k : k = [Idle EXCEPT !.job = JobOf(t), !.pc = "hook"]
    OBVIOUS
  <2>2. k.pc = "hook"
    BY <2>1 DEF Idle
  <2>3. task' = [task EXCEPT ![t] = k] \/ task' = [task EXCEPT ![t] = Idle]
    BY <1>8, <2>1 DEF Fail
  <2>4. task'[t] \in {k, Idle} /\ \A u \in Slots \ {t} : task'[u] = task[u]
    BY <2>3, Moved
  <2>. QED
    BY <1>0, <1>6, <2>2, <2>4
<1>9. CASE Raise(t) \/ AckFails(t)
  <2>1. task'[t].pc = "failing" /\ \A u \in Slots \ {t} : task'[u] = task[u]
    BY <1>9, Moved DEF Raise, AckFails
  <2>. QED
    BY <1>6, <2>1
<1>10. CASE Reconcile(t)
  <2>1. PICK k : k = [task[t] EXCEPT !.pc = "finalizing"]
    OBVIOUS
  <2>2. k.job = NoJob /\ k.pc = "finalizing"
    BY <1>10, <2>1 DEF Reconcile, Idle
  <2>3. task'[t] = k /\ \A u \in Slots \ {t} : task'[u] = task[u]
    BY <1>10, <2>1, Moved DEF Reconcile
  <2>. QED
    BY <1>6, <2>2, <2>3
<1>. QED
  BY <1>7, <1>8, <1>9, <1>10 DEF TaskFault

\* Beginning, reclaiming and the users.
LEMMA CoverOthers ==
  ASSUME Shape, NothingForgotten,
         \/ \E t \in Slots, q \in Queue : Begin(t, q)
         \/ \E q \in Queue : Reclaim(q)
         \/ UserStep
  PROVE  CoverQuiet
<1>. USE DEF jobVars, outVars, envVars, Planning
<1>1. ASSUME NEW q \in Queue, NEW r, SetRow(q, r), row[q].status # "absent",
             r.status \notin {"absent", "done"}
      PROVE  /\ Existing' = Existing
             /\ \A c \in Children : row'[c].status = "done" => row[c].status = "done"
  BY <1>1, SameRows DEF SetRow, Shape, TypeOK, Children, Queue
<1>2. ASSUME NEW t \in Slots, NEW q \in Queue, Begin(t, q) PROVE CoverQuiet
  <2>1. row[q] \in Row /\ row[q].status = "pending"
    BY <1>2 DEF Begin, Shape, TypeOK
  <2>2. PICK r : r = Marked(Claimed(row[q]))
    OBVIOUS
  <2>3. r.status = "running" /\ SetRow(q, r)
    BY <1>2, <2>1, <2>2, RowOperators DEF Begin
  <2>4. PICK k : k = [Idle EXCEPT !.job = q, !.pc = "loading"]
    OBVIOUS
  <2>5. k.pc = "loading"
    BY <2>4 DEF Idle
  <2>6. task'[t] = k /\ \A u \in Slots \ {t} : task'[u] = task[u]
    BY <1>2, <2>4, Moved DEF Begin
  <2>7. TaskCovered(k, results', Shown)
    BY <2>5, FreeTask
  <2>. QED
    BY <1>1, <1>2, <2>1, <2>3, <2>5, <2>6, <2>7 DEF Begin, CoverQuiet
<1>3. ASSUME NEW q \in Queue, Reclaim(q) PROVE CoverQuiet
  <2>1. row[q] \in Row /\ row[q].status = "running"
    BY <1>3 DEF Reclaim, Shape, TypeOK
  <2>2. PICK r : r = Reclaimed([row[q] EXCEPT !.beat = "stale"])
    OBVIOUS
  <2>3. r.status = "pending" /\ SetRow(q, r)
    BY <1>3, <2>1, <2>2, RowOperators DEF Reclaim
  <2>. QED
    BY <1>1, <1>3, <2>1, <2>3 DEF Reclaim, CoverQuiet
<1>4. CASE Cancel
  <2>1. \A q \in Queue : row'[q].status = "absent" <=> row[q].status = "absent"
    BY <1>4, RowOperators DEF Cancel, Shape, TypeOK
  <2>2. Existing' = Existing
    BY <2>1, QueueRows DEF Existing
  <2>. QED
    BY <1>4, <2>2 DEF Cancel, CoverQuiet, Live, Settled
<1>5. CASE DeleteEntities
  BY <1>5 DEF DeleteEntities, CoverQuiet, Live, Existing
<1>6. ASSUME NEW q \in Queue, Retry(q) PROVE CoverQuiet
  <2>1. row[q] \in Row /\ row[q].status = "dead"
    BY <1>6 DEF Retry, Shape, TypeOK
  <2>2. PICK r : r = Retried(row[q])
    OBVIOUS
  <2>3. r.status = "pending" /\ SetRow(q, r)
    BY <1>6, <2>1, <2>2, RowOperators DEF Retry
  <2>. QED
    BY <1>1, <1>6, <2>1, <2>3 DEF Retry, CoverQuiet
<1>. QED
  BY <1>2, <1>3, <1>4, <1>5, <1>6 DEF UserStep

\* Finalization: a child's handler that finalizes has stored everything.
LEMMA CoverFinal ==
  ASSUME Shape, OneFinalizer, NothingForgotten, NEW t \in Slots, FinalStep(t)
  PROVE  CoverQuiet
<1>. USE DEF jobVars, outVars, envVars, Planning
<1>1. /\ row' = row /\ gone' = gone /\ (status' = status \/ status' \in Settled)
      /\ task[t].pc \in Finalizing /\ task'[t].pc \in Finalizing \cup {"acking", "idle"}
      /\ \A u \in Slots \ {t} : task'[u] = task[u]
  BY FinalMoves
<1>2. results' = results
  BY DEF FinalStep, Lock, LockSkipped, Finalize, Score, Publish
<1>3. Return(t) \/ \E l : Goto(t, l)
  BY DEF FinalStep, Lock, LockSkipped, Finalize, Score, Publish
<1>4. \/ task'[t].job = NoJob
      \/ task'[t].job = JobOf(t) /\ task'[t].hook = task[t].hook
  BY <1>3, MovedFields
<1>5. Live' => Live
  BY <1>1 DEF Live, Settled
<1>6. task[t].pc \notin Planning /\ task'[t].pc \notin Planning
  BY <1>1 DEF Finalizing
<1>7. ASSUME Live PROVE TaskCovered(task'[t], results, Shown)
  <2>1. CASE task'[t].job \notin Children \/ task'[t].hook
    BY <1>6, <2>1, FreeTask
  <2>2. CASE ~ (task'[t].job \notin Children \/ task'[t].hook)
    <3>1. task'[t].job = JobOf(t) /\ ~ task[t].hook
      BY <1>4, <2>2, QueueRows
    <3>2. task'[t].pc # "idle"
      BY <2>2, QueueRows, ShapeFinal DEF Shape, TaskShape, WellPlaced, JobOf
    <3>3. StoredBy(task[t]) = Width /\ StoredBy(task'[t]) = Width
      BY <1>1, <3>2 DEF StoredBy, Finalizing
    <3>4. TaskCovered(task[t], results, Shown)
      BY <1>7 DEF NothingForgotten
    <3>. QED
      BY <1>6, <2>2, <3>1, <3>3, <3>4 DEF TaskCovered, JobOf
  <2>. QED
    BY <2>1, <2>2
<1>. QED
  BY <1>1, <1>2, <1>5, <1>6, <1>7 DEF CoverQuiet, Existing

\* The child's handler: each attribute is stored before the next one is begun.
LEMMA CoverChild ==
  ASSUME Shape, NothingForgotten, NEW t \in Slots, ChildStep(t)
  PROVE  CoverQuiet
<1>. USE DEF jobVars, outVars, envVars, Planning
<1>1. /\ row' = row /\ gone' = gone /\ status' = status /\ JobOf(t) \in Children
      /\ task'[t].pc \notin Planning
      /\ \A u \in Slots \ {t} : task'[u] = task[u]
  BY ChildMoves DEF CampaignOnly
<1>2. task[t] \in Task /\ (Live => TaskCovered(task[t], results, Shown))
  BY DEF Shape, TypeOK, NothingForgotten
<1>3. task[t].pc \notin Finalizing => ~ task[t].hook
  BY DEF Shape, TaskShape, WellPlaced
<1>4. ASSUME results' = results, NEW k, task'[t] = k, Live => TaskCovered(k, results, Shown)
      PROVE  CoverQuiet
  BY <1>1, <1>4 DEF CoverQuiet, Existing, Live
<1>5. ASSUME NEW k, k.pc \notin Planning, ~ task[t].hook,
             k.job = JobOf(t), StoredBy(k) = StoredBy(task[t]), Live
      PROVE  TaskCovered(k, results, Shown)
  BY <1>1, <1>2, <1>5 DEF TaskCovered, JobOf
<1>6. CASE ChildLoad(t)
  <2>1. PICK k : k = IF Skips THEN SkipTo(t) ELSE [task[t] EXCEPT !.pc = "researching"]
    OBVIOUS
  <2>2. task'[t] = k
    BY <1>6, <2>1, Moved DEF ChildLoad
  <2>3. ASSUME Live PROVE TaskCovered(k, results, Shown)
    <3>1. k.pc = "researching"
      BY <1>2, <2>1, <2>3 DEF Live, Skips, Task
    <3>. QED
      BY <3>1, FreeTask
  <2>. QED
    BY <1>4, <1>6, <2>2, <2>3 DEF ChildLoad
<1>7. CASE Research(t)
  <2>1. PICK k : k = IF status = "failed" THEN SkipTo(t) ELSE [task[t] EXCEPT !.pc = "storing"]
    OBVIOUS
  <2>2. task'[t] = k
    BY <1>7, <2>1, Moved DEF Research
  <2>3. ASSUME Live PROVE TaskCovered(k, results, Shown)
    <3>1. k.pc = "storing" /\ k.next = 1
      BY <1>2, <1>7, <2>1, <2>3 DEF Live, Task, Research, ChildAt, Shape, TaskShape, WellPlaced
    <3>2. StoredBy(k) = 0
      BY <3>1 DEF StoredBy
    <3>. QED
      BY <3>1, <3>2 DEF TaskCovered, Covered
  <2>. QED
    BY <1>4, <1>7, <2>2, <2>3 DEF Research
<1>8. CASE Store(t)
  <2>1. task'[t].pc = "counting" /\ task'[t].job = JobOf(t) /\ task'[t].next = task[t].next
    BY <1>8, Moved, MovedFields DEF Store
  <2>2. task[t].pc = "storing" /\ ~ task[t].hook
    BY <1>3, <1>8 DEF Store, ChildAt, Finalizing
  <2>3. MyPair(t) \in Pairs /\ MyPair(t) = <<JobOf(t)[1], task[t].next>>
    BY <1>1, <1>2, CountedIsStored DEF MyPair, Pairs, Children
  <2>4. /\ results'[MyPair(t)] = "researched"
        /\ \A p \in Pairs : p # MyPair(t) => results'[p] = results[p]
    BY <1>8, <2>3 DEF Store, Shape, TypeOK
  <2>5. \A p \in Pairs : results[p] # "none" => results'[p] # "none"
    BY <2>4
  <2>6. ASSUME Live PROVE TaskCovered(task'[t], results', Shown)
    <3>1. Covered(JobOf(t)[1], task[t].next - 1, results)
      BY <1>1, <1>2, <2>2, <2>6 DEF TaskCovered, StoredBy, JobOf
    <3>2. Covered(JobOf(t)[1], task[t].next, results')
      <4>1. SUFFICES ASSUME NEW i \in 1..task[t].next
                     PROVE  results'[<<JobOf(t)[1], i>>] # "none"
        BY DEF Covered
      <4>2. CASE i = task[t].next
        BY <2>3, <2>4, <4>2
      <4>3. CASE i # task[t].next
        <5>1. task[t].next \in 1..Width /\ JobOf(t)[1] \in Units
          BY <1>1, <1>2, CountedIsStored DEF Children
        <5>2. i \in 1..(task[t].next - 1) /\ <<JobOf(t)[1], i>> \in Pairs
          BY <4>3, <5>1, QueueRows DEF Pairs
        <5>. QED
          BY <2>5, <3>1, <5>2 DEF Covered
      <4>. QED
        BY <4>2, <4>3
    <3>3. StoredBy(task'[t]) = task[t].next
      BY <2>1 DEF StoredBy
    <3>. QED
      BY <2>1, <3>2, <3>3 DEF TaskCovered
  <2>. QED
    BY <1>1, <2>1, <2>5, <2>6 DEF CoverQuiet, Existing, Live
<1>9. CASE StoreRefused(t)
  <2>1. task'[t].pc = "failing" /\ results' = results
    BY <1>9, Moved DEF StoreRefused
  <2>. QED
    BY <1>4, <2>1, FreeTask
<1>10. CASE CountResults(t)
  <2>1. PICK k : k = [task[t] EXCEPT !.pc = "writing", !.seen = Cardinality(Stored)]
    OBVIOUS
  <2>2. task' = [task EXCEPT ![t] = k]
    BY <1>10, <2>1 DEF CountResults
  <2>3. task'[t] = k
    BY <2>2, Moved
  <2>4. k.pc = "writing" /\ k.job = JobOf(t) /\ k.next = task[t].next
    BY <1>2, <2>1 DEF Task, JobOf
  <2>5. task[t].pc = "counting" /\ ~ task[t].hook /\ results' = results
    BY <1>3, <1>10 DEF CountResults, ChildAt, Finalizing
  <2>6. StoredBy(k) = StoredBy(task[t])
    BY <2>4, <2>5 DEF StoredBy
  <2>. QED
    BY <1>4, <1>5, <2>3, <2>4, <2>5, <2>6
<1>11. CASE WriteProgress(t)
  <2>1. PICK k : k = IF task[t].next = Width THEN [task[t] EXCEPT !.pc = "settling"]
                     ELSE [task[t] EXCEPT !.pc = "storing", !.next = task[t].next + 1]
    OBVIOUS
  <2>2. task'[t] = k
    BY <1>11, <2>1, Moved DEF WriteProgress
  <2>3. task[t].pc = "writing" /\ ~ task[t].hook /\ results' = results
    BY <1>3, <1>11 DEF WriteProgress, ChildAt, Finalizing
  <2>4. StoredBy(task[t]) = task[t].next /\ task[t].next \in 1..Width
    BY <1>2, <2>3, CountedIsStored DEF StoredBy
  <2>5. CASE task[t].next = Width
    <3>1. k.pc = "settling" /\ k.job = JobOf(t)
      BY <1>2, <2>1, <2>5 DEF Task, JobOf
    <3>2. StoredBy(k) = StoredBy(task[t])
      BY <2>4, <2>5, <3>1 DEF StoredBy, Finalizing
    <3>. QED
      BY <1>4, <1>5, <2>2, <2>3, <3>1, <3>2
  <2>6. CASE task[t].next # Width
    <3>1. k.pc = "storing" /\ k.job = JobOf(t) /\ k.next = task[t].next + 1
      BY <1>2, <2>1, <2>6 DEF Task, JobOf
    <3>2. StoredBy(k) = StoredBy(task[t])
      BY <2>4, <3>1, QueueRows DEF StoredBy
    <3>. QED
      BY <1>4, <1>5, <2>2, <2>3, <3>1, <3>2
  <2>. QED
    BY <2>5, <2>6
<1>12. CASE MaybeFinalize(t)
  <2>1. task[t].pc = "settling" /\ ~ task[t].hook /\ results' = results
    BY <1>3, <1>12 DEF MaybeFinalize, ChildAt, Finalizing
  <2>2. \/ task'[t].pc \in {"finalizing", "acking"} /\ task'[t].job = JobOf(t)
        \/ task'[t].job = NoJob
    <3>1. CASE Goto(t, "finalizing")
      BY <3>1, Moved, MovedFields
    <3>2. CASE Return(t)
      BY <3>2, Moved, MovedFields
    <3>. QED
      BY <1>12, <3>1, <3>2 DEF MaybeFinalize
  <2>3. CASE task'[t].job = NoJob
    BY <1>1, <1>4, <2>1, <2>3, FreeTask, QueueRows
  <2>4. CASE task'[t].pc \in {"finalizing", "acking"} /\ task'[t].job = JobOf(t)
    <3>1. StoredBy(task'[t]) = StoredBy(task[t])
      BY <2>1, <2>4 DEF StoredBy, Finalizing
    <3>. QED
      BY <1>1, <1>4, <1>5, <2>1, <2>4, <3>1
  <2>. QED
    BY <2>2, <2>3, <2>4
<1>13. CASE ChildOnDead(t)
  <2>1. PICK k : k = IF Pending = {} THEN [task[t] EXCEPT !.pc = "finalizing", !.hook = TRUE]
                                     ELSE Idle
    OBVIOUS
  <2>2. task' = [task EXCEPT ![t] = k]
    BY <1>13, <2>1 DEF ChildOnDead
  <2>3. task'[t] = k
    BY <2>2, Moved
  <2>4. k.hook \/ k.pc = "idle"
    BY <1>2, <2>1 DEF Task, Idle
  <2>5. TaskCovered(k, results, Shown)
    BY <1>1, <2>3, <2>4, FreeTask
  <2>. QED
    BY <1>4, <1>13, <2>3, <2>5 DEF ChildOnDead
<1>. QED
  BY <1>6, <1>7, <1>8, <1>9, <1>10, <1>11, <1>12, <1>13 DEF ChildStep

\* The campaign handler: before it counts the rows, the cache answered for every unit
\* that it will not insert; and the rows it inserts stand for all the others.
LEMMA CoverRoot ==
  ASSUME Shape, Shape', NothingForgotten, Shown' = Shown, NEW t \in Slots, RootStep(t)
  PROVE  NothingForgotten'
<1>. USE DEF jobVars, outVars, envVars, Planning
<1>0. JobOf(t) = Root /\ Root \notin Children /\ NoJob \notin Children /\ Idle.job = NoJob
  BY QueueRows DEF RootStep, RootLoad, Cluster, ClusterFails, Classify, Cache, CacheRefused,
     Check, FanOut, RootOnDead, RootAt, Idle
<1>1. ASSUME row' = row, status' = status \/ status' \in Settled, gone' = gone,
             results' = results, task'[t].pc \notin Planning,
             task'[t].job \in {Root, NoJob}, \A u \in Slots \ {t} : task'[u] = task[u]
      PROVE  NothingForgotten'
  <2>1. TaskCovered(task'[t], results', Shown)
    BY <1>0, <1>1, FreeTask
  <2>2. CoverQuiet
    BY <1>1, <2>1 DEF CoverQuiet, Existing
  <2>. QED
    BY <2>2, CoverQuietKeeps
<1>2. ASSUME NEW l, Goto(t, l), l \notin Planning, row' = row,
             status' = status \/ status' \in Settled, gone' = gone, results' = results
      PROVE  NothingForgotten'
  <2>1. /\ task'[t].pc = l /\ task'[t].job = Root
        /\ \A u \in Slots \ {t} : task'[u] = task[u]
    BY <1>0, <1>2, Moved, MovedFields
  <2>. QED
    BY <1>1, <1>2, <2>1
<1>3. ASSUME Return(t), row' = row,
             status' = status \/ status' \in Settled, gone' = gone, results' = results
      PROVE  NothingForgotten'
  <2>1. /\ task'[t].pc \notin Planning /\ task'[t].job \in {Root, NoJob}
        /\ \A u \in Slots \ {t} : task'[u] = task[u]
    BY <1>0, <1>3, Moved, MovedFields
  <2>. QED
    BY <1>1, <1>3, <2>1
<1>4. CASE RootLoad(t)
  BY <1>2, <1>3, <1>4 DEF RootLoad, Settled
<1>5. CASE Cluster(t)
  <2>1. PICK C : C = IF clustered = {} THEN Units \ unshown ELSE Units
    OBVIOUS
  <2>2. Shown \subseteq C
    BY <2>1 DEF Shown
  <2>3. PICK k : k = [task[t] EXCEPT !.pc = "classifying", !.plan = C]
    OBVIOUS
  <2>4. k.pc = "classifying" /\ k.job = Root /\ k.plan = C
    BY <1>0, <2>3 DEF Shape, TypeOK, Task, JobOf
  <2>5. task' = [task EXCEPT ![t] = k]
    BY <1>5, <2>1, <2>3 DEF Cluster
  <2>6. task'[t] = k /\ \A u \in Slots \ {t} : task'[u] = task[u]
    BY <2>5, Moved
  <2>7. TaskCovered(k, results', Shown)
    BY <1>0, <2>2, <2>4 DEF TaskCovered
  <2>8. CoverQuiet
    BY <1>5, <2>4, <2>6, <2>7 DEF CoverQuiet, Cluster, Existing
  <2>. QED
    BY <2>8, CoverQuietKeeps
<1>6. CASE ClusterFails(t)
  BY <1>3, <1>6 DEF ClusterFails, Settled
<1>7. ASSUME NEW S \in SUBSET Units, Classify(t, S) PROVE NothingForgotten'
  <2>1. PICK k : k = [task[t] EXCEPT !.pc = "caching", !.plan = S, !.hit = task[t].plan \ S]
    OBVIOUS
  <2>2. k.pc = "caching" /\ k.job = JobOf(t) /\ k.plan = S /\ k.hit = task[t].plan \ S
    BY <2>1 DEF Shape, TypeOK, Task, JobOf
  <2>3. task'[t] = k /\ \A u \in Slots \ {t} : task'[u] = task[u]
    <3>1. task' = [task EXCEPT ![t] = k]
      BY <1>7, <2>1 DEF Classify
    <3>. QED
      BY <3>1, Moved
  <2>4. Live => Shown \subseteq task[t].plan
    BY <1>7 DEF Classify, RootAt, NothingForgotten, TaskCovered
  <2>5. Live => TaskCovered(k, results', Shown)
    BY <1>0, <2>2, <2>4 DEF TaskCovered
  <2>6. Live' => Live
    BY <1>7 DEF Classify, Live
  <2>7. CoverQuiet
    BY <1>7, <2>2, <2>3, <2>5, <2>6 DEF CoverQuiet, Classify, Existing
  <2>. QED
    BY <2>7, CoverQuietKeeps
<1>8. CASE Cache(t)
  <2>1. /\ task'[t].pc = "checking" /\ task'[t].job = Root /\ task'[t].plan = task[t].plan
        /\ \A u \in Slots \ {t} : task'[u] = task[u]
    BY <1>0, <1>8, Moved, MovedFields DEF Cache
  <2>2. \A p \in Pairs : results[p] # "none" => results'[p] # "none"
    BY <1>8 DEF Cache
  <2>3. \A p \in CachePairs(t) : results'[p] # "none"
    <3>1. CachePairs(t) \subseteq Pairs
      BY DEF CachePairs, Pairs, Shape, TypeOK, Task
    <3>. QED
      BY <1>8, <3>1 DEF Cache
  <2>4. Live => Shown \subseteq task[t].plan \cup task[t].hit
    BY <1>8 DEF Cache, RootAt, NothingForgotten, TaskCovered
  <2>5. Live => \A u \in Shown \ task'[t].plan : Covered(u, Width, results')
    BY <2>1, <2>3, <2>4 DEF Covered, CachePairs
  <2>6. Live => TaskCovered(task'[t], results', Shown)
    BY <1>0, <2>1, <2>5 DEF TaskCovered
  <2>7. Live' => Live
    BY <1>8 DEF Cache, Live
  <2>8. CoverQuiet
    BY <1>8, <2>1, <2>2, <2>6, <2>7 DEF CoverQuiet, Cache, Existing
  <2>. QED
    BY <2>8, CoverQuietKeeps
<1>9. CASE CacheRefused(t)
  BY <1>2, <1>9 DEF CacheRefused
<1>10. CASE Check(t)
  <2>1. PICK k : k = [task[t] EXCEPT !.pc = "fanning", !.hit = {}, !.seen = Cardinality(Existing)]
    OBVIOUS
  <2>2. k.pc = "fanning" /\ k.job = Root /\ k.plan = task[t].plan /\ k.seen = Cardinality(Existing)
    BY <1>0, <2>1 DEF Shape, TypeOK, Task, JobOf
  <2>3. task' = [task EXCEPT ![t] = k]
    BY <1>10, <2>1 DEF Check
  <2>4. task'[t] = k /\ \A u \in Slots \ {t} : task'[u] = task[u]
    BY <2>3, Moved
  <2>5. /\ row' = row /\ Existing' = Existing /\ status' = status /\ gone' = gone
        /\ results' = results /\ (Live' <=> Live) /\ task[t].pc = "checking"
    BY <1>10 DEF Check, RootAt, Existing, Live
  <2>6. Live => TaskCovered(k, results, Shown)
    BY <1>0, <2>2, <2>5 DEF NothingForgotten, TaskCovered, JobOf
  <2>7. k.seen # 0 => Existing # {}
    BY <2>2, FS_EmptySet
  <2>. QED
    BY <2>2, <2>4, <2>5, <2>6, <2>7 DEF NothingForgotten
<1>11. CASE FanOut(t)
  <2>1. task[t].pc = "fanning" /\ gone' = gone /\ results' = results
    BY <1>11 DEF FanOut, RootAt
  <2>2. /\ task'[t].pc \notin Planning /\ task'[t].job \in {Root, NoJob}
        /\ \A u \in Slots \ {t} : task'[u] = task[u]
    <3>1. Goto(t, "finalizing") \/ Return(t)
      BY <1>11 DEF FanOut
    <3>2. CASE Goto(t, "finalizing")
      <4>1. task'[t].pc = "finalizing" /\ \A u \in Slots \ {t} : task'[u] = task[u]
        BY <3>2, Moved
      <4>2. task'[t].job = Root
        BY <1>0, <3>2, MovedFields
      <4>. QED
        BY <4>1, <4>2
    <3>3. CASE Return(t)
      BY <1>0, <3>3, Moved, MovedFields
    <3>. QED
      BY <3>1, <3>2, <3>3
  <2>3. NewRow.status = "pending" /\ \A q \in Queue : row'[q] = IF q \in NewCopies(t) THEN NewRow
                                                               ELSE row[q]
    BY <1>11 DEF FanOut, NewRow
  <2>4. Existing \subseteq Existing' /\ NewCopies(t) \subseteq Existing'
    BY <2>3, QueueRows DEF Existing, NewCopies
  <2>5. \A c \in Children : row'[c].status = "done" => row[c].status = "done"
    BY <2>3, QueueRows
  <2>6. TaskCovered(task'[t], results, Shown)
    BY <1>0, <2>2, FreeTask
  <2>7. Live' => Live
    BY <1>11 DEF FanOut, Live, MayStart
  <2>8. status' # "queued"
    BY <1>11 DEF FanOut, MayStart
  <2>9. ASSUME Live', NEW u \in Shown
        PROVE  Covered(u, Width, results) \/ \E c \in Existing' : c[1] = u
    <3>1. CASE status = "running"
      BY <2>4, <2>7, <2>9, <3>1 DEF NothingForgotten
    <3>2. CASE status = "queued"
      <4>1. Existing = {} /\ task[t].seen = 0
        BY <2>1, <3>2 DEF NothingForgotten
      <4>2. CASE u \in task[t].plan
        <5>1. <<u, 1>> \in Children /\ <<u, 1>>[1] = u /\ <<u, 1>>[2] = 1
          BY QueueRows DEF Shown
        <5>2. <<u, 1>> \in NewCopies(t)
          BY <4>1, <4>2, <5>1 DEF NewCopies, MayInsert
        <5>. QED
          BY <2>4, <5>1, <5>2
      <4>3. CASE u \notin task[t].plan
        BY <2>1, <2>7, <2>9, <4>3 DEF NothingForgotten, TaskCovered
      <4>. QED
        BY <4>2, <4>3
    <3>. QED
      BY <2>7, <2>9, <3>1, <3>2 DEF Live
  <2>10. \A u \in Slots : task'[u].pc = "fanning" /\ task'[u].seen # 0 => Existing' # {}
    BY <2>2, <2>4 DEF NothingForgotten
  <2>. QED
    BY <2>1, <2>2, <2>5, <2>6, <2>7, <2>8, <2>9, <2>10 DEF NothingForgotten
<1>12. CASE RootOnDead(t)
  <2>1. task'[t] = Idle /\ Idle.pc = "idle" /\ \A u \in Slots \ {t} : task'[u] = task[u]
    BY <1>12, Moved DEF RootOnDead, Idle
  <2>. QED
    BY <1>0, <1>1, <1>12, <2>1 DEF RootOnDead, Settled
<1>. QED
  BY <1>4, <1>5, <1>6, <1>7, <1>8, <1>9, <1>10, <1>11, <1>12 DEF RootStep

\* The invariant of the coverage.
LEMMA CoverStep ==
  ASSUME Shape, OneFinalizer, NothingForgotten, [Next]_vars
  PROVE  NothingForgotten'
<1>1. Shape'
  BY ShapeStep
<1>2. CASE Next
  BY <1>1, <1>2, UnshownKept, CoverQueue, CoverOthers, CoverFinal, CoverChild, CoverRoot, CoverQuietKeeps
     DEF Next, TaskStep
<1>3. CASE UNCHANGED vars
  BY <1>3, UnshownKept DEF vars, jobVars, outVars, envVars, NothingForgotten, Live, Existing
<1>. QED
  BY <1>2, <1>3

\* Finalization takes a job from running to done when every child is terminal: a child
\* that is done has stored its unit, and a unit without a child was answered by the cache.
LEMMA DoneCovers ==
  ASSUME Shape, OneFinalizer, NothingForgotten, [Next]_vars,
         status = "running", status' = "done", ~ gone, NEW p \in Pairs
  PROVE  \/ p[1] \in unshown
         \/ results[p] # "none"
         \/ \E c \in Existing : c[1] = p[1] /\ row[c].status = "dead"
<1>. USE DEF jobVars, outVars, envVars, Planning
<1>1. p[1] \in Units /\ p[2] \in 1..Width /\ p = <<p[1], p[2]>>
  BY DEF Pairs
<1>2. Live
  BY DEF Live
<1>3. MayFinalize
  <2>1. PICK t \in Slots : Finalize(t)
    <3>1. Next
      BY DEF vars
    <3>2. ASSUME NEW t \in Slots, RootStep(t) PROVE FALSE
      BY <3>2 DEF RootStep, RootLoad, Cluster, ClusterFails, Classify, Cache, CacheRefused,
         Check, FanOut, RootOnDead, MayStart
    <3>3. ASSUME NEW t \in Slots, ChildStep(t) PROVE FALSE
      BY <3>3, ChildMoves
    <3>4. ASSUME NEW t \in Slots, Ack(t) \/ Fail(t) \/ TaskFault(t) \/ Reconcile(t) PROVE FALSE
      BY <3>4 DEF Ack, Fail, TaskFault, Crash, Raise, Swallow, AckFails, FailFails, Reconcile
    <3>5. ASSUME NEW t \in Slots, FinalStep(t) PROVE Finalize(t)
      BY <3>5 DEF FinalStep, Lock, LockSkipped, Score, Publish
    <3>6. /\ ~ UserStep /\ \A q \in Queue : ~ Reclaim(q)
          /\ \A t \in Slots, q \in Queue : ~ Begin(t, q)
      BY DEF UserStep, Cancel, DeleteEntities, Retry, Reclaim, Begin
    <3>. QED
      BY <3>1, <3>2, <3>3, <3>4, <3>5, <3>6 DEF Next, TaskStep
  <2>. QED
    BY <2>1 DEF Finalize
<1>4. CASE Covered(p[1], Width, results)
  BY <1>1, <1>4 DEF Covered
<1>5. ASSUME NEW c \in Existing, c[1] = p[1] PROVE Covered(p[1], Width, results)
                                                   \/ row[c].status = "dead"
  BY <1>2, <1>3, <1>5 DEF MayFinalize, Pending, Terminal, NothingForgotten, Existing
<1>. QED
  BY <1>1, <1>2, <1>4, <1>5 DEF NothingForgotten, Shown

\* A job that finalization calls done answered for every pair of an entity and an attribute
\* that its first clustering was shown: it has a result, or the row that was to research it
\* is dead, in every interleaving of fan-outs, children, late duplicates, retries and
\* finalizers, with any faults.
THEOREM DoneAnsweredForAll == Spec => DoneIsCovered
<1>1. Init => NothingForgotten
  <2>. SUFFICES ASSUME Init PROVE NothingForgotten
    OBVIOUS
  <2>1. Existing = {} /\ \A c \in Children : row[c].status = "absent"
    BY QueueRows DEF Init, Existing, NoRow
  <2>2. Idle.pc = "idle" /\ \A t \in Slots : task[t] = Idle
    BY DEF Init, Idle
  <2>3. TaskCovered(Idle, results, Shown)
    BY <2>2, FreeTask DEF Planning
  <2>. QED
    BY <2>1, <2>2, <2>3 DEF Init, NothingForgotten
<1>2. Shape /\ OneFinalizer /\ NothingForgotten /\ [Next]_vars
        => [status = "running" /\ status' = "done" /\ ~ gone =>
              \A p \in Pairs : \/ p[1] \in unshown
                                \/ results[p] # "none"
                                \/ \E c \in Existing : c[1] = p[1] /\ row[c].status = "dead"]_vars
  BY DoneCovers
<1>. QED
  BY <1>1, <1>2, OneFinalizerInit, ShapeInit, ShapeStep, OneFinalizerStep, CoverStep, PTL
     DEF Spec, DoneIsCovered

=============================================================================
