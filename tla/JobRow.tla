------------------------------- MODULE JobRow -------------------------------
(***************************************************************************)
(* One row of playbook.job_queue, and what each SQL statement of           *)
(* app/job_queue.py makes of it.  A statement whose WHERE clause does not   *)
(* match leaves the row alone, exactly as the UPDATE does.                  *)
(*                                                                         *)
(* Kept: status, attempts and heartbeat_at (only whether it is NULL, within *)
(* the stale threshold, or older).  worker_id and claimed_at are written by *)
(* the code and read by no statement, so they are left out; run_at delays a *)
(* pending row for a finite time, which an untimed Dequeue already covers.  *)
(***************************************************************************)
EXTENDS Naturals

CONSTANT MaxAttempts    \* job_queue.max_attempts, 3 unless a caller says otherwise

ASSUME MaxAttemptsAssumption == MaxAttempts \in Nat \ {0}

Status   == {"absent", "pending", "claimed", "running", "done", "dead"}
Terminal == {"done", "dead"}
Beat     == {"null", "fresh", "stale"}
Row      == [status : Status, attempts : Nat, beat : Beat]

\* No row yet, and the row an INSERT creates from the column defaults.
NoRow  == [status |-> "absent",  attempts |-> 0, beat |-> "null"]
NewRow == [status |-> "pending", attempts |-> 0, beat |-> "null"]

\* dequeue(): the claim also writes the row's first heartbeat.
ClaimMutant(r) == [r EXCEPT !.status = "claimed"]
Claimed(r) == [r EXCEPT !.status = "claimed", !.beat = "fresh"]

\* mark_running(): claimed -> running.  The heartbeat is NOT refreshed.
MarkMutant(r)  == r.status \in {"claimed", "running"}
MarkMatches(r) == r.status = "claimed"
Marked(r)      == IF MarkMatches(r) THEN [r EXCEPT !.status = "running"] ELSE r

\* ack(): running -> done, whoever calls it.
Acked(r)     == IF r.status = "running" THEN [r EXCEPT !.status = "done"] ELSE r

\* fail(): selected by id alone, so it applies in every status.
FailTypo(r)   == [r EXCEPT !.attempts = @ + 1,
                           !.status = IF r.attempts + 1 >= MaxAttempts
                                      THEN "failed" ELSE "pending"]
Failed(r) == [r EXCEPT !.attempts = @ + 1,
                       !.status = IF r.attempts + 1 >= MaxAttempts
                                  THEN "dead" ELSE "pending"]

\* update_heartbeat(): by id alone, in every status.
Beaten(r) == [r EXCEPT !.beat = "fresh"]

\* reclaim_stale(): no attempt is counted for a reclaimed row.
StaleMutant(r) == r.status = "claimed" /\ r.beat # "fresh"
IsStale(r)   == r.status \in {"claimed", "running"} /\ r.beat # "fresh"
ReclaimMutant(r) == IF IsStale(r)
                    THEN [r EXCEPT !.status = "pending", !.beat = "null", !.attempts = @ + 1]
                    ELSE r
Reclaimed(r) == IF IsStale(r)
                THEN [r EXCEPT !.status = "pending", !.beat = "null"] ELSE r

\* The dispatcher's rollback after a failed publish.
RollbackTypo(r)   == IF r.status = "claimed"
                     THEN [r EXCEPT !.status = "queued", !.beat = "null"] ELSE r
RollbackMutant(r) == [r EXCEPT !.status = "pending", !.beat = "null"]
RolledBack(r) == IF r.status = "claimed"
                 THEN [r EXCEPT !.status = "pending", !.beat = "null"] ELSE r

\* retry_dead() and db_retry: dead -> pending with a fresh attempt budget.
Retried(r) == IF r.status = "dead" THEN NewRow ELSE r

\* db_cancel_job(): every row that is not terminal goes to dead.
CancelMatches(r) == r.status \notin Terminal \cup {"absent"}
Cancelled(r)     == IF CancelMatches(r) THEN [r EXCEPT !.status = "dead"] ELSE r
=============================================================================
