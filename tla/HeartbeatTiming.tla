-------------------------- MODULE HeartbeatTiming ---------------------------
(***************************************************************************)
(* The clocks behind the "late" faults of JobQueue: one queue row, the      *)
(* heartbeat_at column the dispatcher compares with its stale threshold,    *)
(* and the handler whose HeartbeatManager is to keep it fresh.              *)
(*                                                                         *)
(*   job_runner/config.py    stale_threshold, validate_thresholds           *)
(*   worker/heartbeat.py     a beat each interval, given up after failures  *)
(*   worker/consumer.py      mark_running, hb.start, wait_for               *)
(*                                                                         *)
(* Time is discrete.  dequeue writes heartbeat_at; mark_running does not;   *)
(* the first beat comes one interval after the handler started.  The row's  *)
(* first handler is followed: a second one on a reclaimed row is JobQueue's *)
(* subject.                                                                *)
(***************************************************************************)
EXTENDS Integers

CONSTANTS
  Stale,       \* stale_threshold
  Timeout,     \* the timeout of the job's type
  Interval,    \* heartbeat_interval
  MaxFailures, \* _MAX_CONSECUTIVE_FAILURES
  MaxWait,     \* how long a claimed row's message waits for a slot, at most
  MayFail,     \* update_heartbeat may raise
  MaxRuns      \* bound: claims in one behaviour

ASSUME TimingAssumption ==
  /\ {Stale, Timeout, Interval, MaxFailures, MaxRuns} \subseteq Nat \ {0}
  /\ MaxWait \in Nat /\ MayFail \in BOOLEAN
  /\ Stale > Timeout          \* what validate_thresholds asserts at startup

VARIABLES
  status,    \* the row's status
  age,       \* NOW() - heartbeat_at, while the row is claimed or running
  alive,     \* a handler of the row runs
  ran,       \* for how long it has
  tick,      \* since its last beat, tried or done
  failures,  \* consecutive failed beats
  runs       \* claims so far

vars == <<status, age, alive, ran, tick, failures, runs>>
handler == <<alive, ran, tick, failures>>

Init == /\ status = "pending" /\ age = 0 /\ runs = 0
        /\ alive = FALSE /\ ran = 0 /\ tick = 0 /\ failures = 0

\* dequeue: claimed_at and heartbeat_at are NOW().
Claim ==
  /\ status = "pending" /\ runs < MaxRuns
  /\ status' = "claimed" /\ age' = 0 /\ runs' = runs + 1
  /\ UNCHANGED handler

\* mark_running, then hb.start(): the row keeps the heartbeat of its claim.
Start ==
  /\ status = "claimed" /\ ~ alive
  /\ status' = "running"
  /\ alive' = TRUE /\ ran' = 0 /\ tick' = 0 /\ failures' = 0
  /\ UNCHANGED <<age, runs>>

Beating == alive /\ failures < MaxFailures

\* update_heartbeat, which is by id alone: it refreshes whatever row is there.
Refreshed == 0
Beat ==
  /\ Beating /\ tick = Interval
  /\ age' = Refreshed /\ tick' = 0 /\ failures' = 0
  /\ UNCHANGED <<status, alive, ran, runs>>

BeatFails ==
  /\ MayFail
  /\ Beating /\ tick = Interval
  /\ tick' = 0 /\ failures' = failures + 1
  /\ UNCHANGED <<status, age, alive, ran, runs>>

\* The handler returns, raises or is timed out: acknowledged, or pending again.
Finish ==
  /\ alive
  /\ status' \in {IF status = "running" THEN "done" ELSE status, "pending"}
  /\ alive' = FALSE
  /\ UNCHANGED <<age, ran, tick, failures, runs>>

\* The worker dies: nobody beats any more.
Die ==
  /\ alive
  /\ alive' = FALSE
  /\ UNCHANGED <<status, age, ran, tick, failures, runs>>

Expired == status \in {"claimed", "running"} /\ age > Stale

\* reclaim_stale, at the latest reclaim_interval after the row expired.
Reclaim ==
  /\ Expired
  /\ status' = "pending"
  /\ UNCHANGED <<age, handler, runs>>

\* Time passes, but not past the wait_for of the handler, the next beat, or the
\* longest wait for a slot.  Ages beyond the threshold are all alike.
TimeoutMutant == ran < 2 * Timeout
InTime == ran < Timeout
Pass ==
  /\ status \in {"claimed", "running"} \/ alive
  /\ status = "claimed" => age < MaxWait \/ alive
  /\ alive => InTime
  /\ Beating => tick < Interval
  /\ age' = IF age > Stale THEN age ELSE age + 1
  /\ IF alive THEN ran' = ran + 1 /\ tick' = tick + 1 ELSE UNCHANGED <<ran, tick>>
  /\ UNCHANGED <<status, alive, failures, runs>>

Next == Claim \/ Start \/ Beat \/ BeatFails \/ Finish \/ Die \/ Reclaim \/ Pass

Spec == Init /\ [][Next]_vars

-----------------------------------------------------------------------------
(* Properties *)

\* Types: every variable holds a value the code could hold.
TypeOK ==
  /\ status \in {"pending", "claimed", "running", "done"}
  /\ age \in Nat /\ ran \in Nat /\ tick \in Nat
  /\ failures \in Nat /\ runs \in Nat
  /\ alive \in BOOLEAN

\* "prevent premature reclaim of running jobs" (job_runner/config.py:32): a row is
\* never up for reclaim while the handler that runs it is alive and in time.
NoPrematureReclaim == ~ (alive /\ status = "running" /\ age > Stale)

\* What it takes: the wait for a slot and the timeout together fit the threshold,
\* or heartbeats never fail and the wait and one interval do.
SafeTiming == \/ MaxWait + Timeout <= Stale
              \/ ~ MayFail /\ MaxWait + Interval <= Stale
=============================================================================
