---------------------------- MODULE JobLifecycle ----------------------------
(***************************************************************************)
(* What the job queue promises its clients, with no processes, messages or  *)
(* heartbeats: a job is tried until a try succeeds or MaxAttempts tries     *)
(* have failed; a try may be abandoned without being counted; done and dead *)
(* are final, but for the administrator's retry of a dead job.              *)
(***************************************************************************)
EXTENDS Naturals

CONSTANTS Jobs, MaxAttempts

VARIABLES phase,   \* [Jobs -> {"absent", "queued", "executing", "done", "dead"}]
          tries    \* [Jobs -> Nat]: failed tries since the job was last queued anew

jobVars == <<phase, tries>>

Init == /\ phase = [j \in Jobs |-> "absent"]
        /\ tries = [j \in Jobs |-> 0]

Move(S, from, to) ==
  /\ S # {} /\ \A j \in S : phase[j] = from
  /\ phase' = [j \in Jobs |-> IF j \in S THEN to ELSE phase[j]]

Submit(S)   == Move(S, "absent", "queued") /\ UNCHANGED tries
Begin(j)    == Move({j}, "queued", "executing") /\ UNCHANGED tries
Complete(j) == Move({j}, "executing", "done") /\ UNCHANGED tries
Abandon(S)  == Move(S, "executing", "queued") /\ UNCHANGED tries

FailTry(j) ==
  /\ tries' = [tries EXCEPT ![j] = @ + 1]
  /\ Move({j}, "executing", IF tries[j] + 1 >= MaxAttempts THEN "dead" ELSE "queued")

Retry(j) ==
  /\ Move({j}, "dead", "queued")
  /\ tries' = [tries EXCEPT ![j] = 0]

Next == \/ \E S \in SUBSET Jobs : Submit(S) \/ Abandon(S)
        \/ \E j \in Jobs : Begin(j) \/ Complete(j) \/ FailTry(j) \/ Retry(j)

Spec == Init /\ [][Next]_jobVars
=============================================================================
