------------------------------- MODULE Scheduler -------------------------------
(***************************************************************************)
(* The monitors and the loop that runs the due ones (app/scheduler.py,     *)
(* app/db/monitors.py).  Every instance of the API ticks on its own; a     *)
(* tick selects under an advisory lock and starts its runs after the lock  *)
(* is released, as tasks of that process.  A run researches the monitor's  *)
(* query, stores the report as a session linked to the one before, and     *)
(* moves the monitor's due time.                                           *)
(*                                                                         *)
(* Time is counted in days.  Monitors have different queries.              *)
(***************************************************************************)
EXTENDS Naturals, Sequences, FiniteSets

CONSTANTS
    Instances,     \* API processes
    Monitors,      \* identities of monitors
    Tasks,         \* a bound: 1 .. the runs that are in progress at once
    NoInstance,    \* nobody
    Daily, Weekly, \* the two intervals
    MaxDay,        \* a bound: the last day of a behaviour
    MaxSessions,   \* a bound: how many reports are stored
    MaxEdits,      \* a bound: how often the owner changes or triggers a monitor
    MaxFaults      \* a bound: how many failures a behaviour may have

VARIABLES
    day,       \* NOW()
    monitor,   \* the rows of playbook.monitors
    lock,      \* who holds the advisory lock
    loop,      \* where each instance's tick is, and the rows it selected
    task,      \* the runs in progress
    sessions,  \* the stored sessions, in the order of their creation
    edits,     \* how often the owner did something
    faults     \* how many failures there were

schedVars == <<day, monitor, lock, loop, task, sessions, edits, faults>>

FrequencyDelta(freq) == IF freq = "daily" THEN Daily ELSE Weekly
NoRow == [exists |-> FALSE, active |-> FALSE, freq |-> "daily", next |-> 0]
Asleep == [pc |-> "sleep", due |-> {}]
NoTask == [pc |-> "free"]

Fault == faults < MaxFaults /\ faults' = faults + 1
Edit == edits < MaxEdits /\ edits' = edits + 1

Due(m) == monitor[m].exists /\ monitor[m].active /\ monitor[m].next <= day

Init ==
    /\ day = 0
    /\ monitor = [m \in Monitors |-> NoRow]
    /\ lock = NoInstance
    /\ loop = [i \in Instances |-> Asleep]
    /\ task = [t \in Tasks |-> NoTask]
    /\ sessions = <<>>
    /\ edits = 0
    /\ faults = 0

-----------------------------------------------------------------------------
(* The owner, and time. *)

NextDay ==
    /\ day < MaxDay /\ day' = day + 1
    /\ UNCHANGED <<monitor, lock, loop, task, sessions, edits, faults>>

\* A new monitor is active and due at once (the defaults of the table).
CreateMonitor(m, freq) ==
    /\ ~monitor[m].exists /\ Edit
    /\ monitor' = [monitor EXCEPT ![m] =
         [exists |-> TRUE, active |-> TRUE, freq |-> freq, next |-> day]]
    /\ UNCHANGED <<day, lock, loop, task, sessions, faults>>

\* A patch of the frequency or of is_active leaves the due time alone.
UpdateMonitor(m) ==
    /\ monitor[m].exists /\ Edit
    /\ \E freq \in {"daily", "weekly"}, active \in BOOLEAN :
         monitor' = [monitor EXCEPT ![m].freq = freq, ![m].active = active]
    /\ UNCHANGED <<day, lock, loop, task, sessions, faults>>

DeleteMonitor(m) ==
    /\ monitor[m].exists /\ Edit
    /\ monitor' = [monitor EXCEPT ![m] = NoRow]
    /\ UNCHANGED <<day, lock, loop, task, sessions, faults>>

\* The next run to begin is t: which number a run has does not matter.
Free(t) == task[t] = NoTask /\ \A u \in Tasks : u < t => task[u] # NoTask

\* Run now: the row as it is read, due or not, active or not.
Started(m, freq) == [pc |-> "stream", m |-> m, freq |-> freq, parent |-> 0, id |-> 0]
TriggerMonitor(m, t) ==
    /\ monitor[m].exists /\ Free(t) /\ Edit
    /\ task' = [task EXCEPT ![t] = Started(m, monitor[m].freq)]
    /\ UNCHANGED <<day, monitor, lock, loop, sessions, faults>>

-----------------------------------------------------------------------------
(* One tick of an instance. *)

\* The lock is tried and not waited for.
TryLock(i) ==
    /\ loop[i].pc = "sleep"
    /\ IF lock = NoInstance
       THEN lock' = i /\ loop' = [loop EXCEPT ![i].pc = "select"]
       ELSE UNCHANGED <<lock, loop>>
    /\ UNCHANGED <<day, monitor, task, sessions, edits, faults>>

\* The due rows are read over another connection.
Select(i) ==
    /\ loop[i].pc = "select"
    /\ loop' = [loop EXCEPT ![i] = [pc |-> "unlock",
         due |-> {[m |-> m, freq |-> monitor[m].freq] : m \in {n \in Monitors : Due(n)}}]]
    /\ UNCHANGED <<day, monitor, lock, task, sessions, edits, faults>>

\* MUTANT: a tick that could not select returns without the unlock.
GoesToSleep(i) == loop' = [loop EXCEPT ![i] = Asleep]
\* The unlock is in a finally: a tick that could not select has nothing due.
GoesToUnlock(i) == loop' = [loop EXCEPT ![i].pc = "unlock"]
SelectFails(i) ==
    /\ loop[i].pc = "select" /\ Fault /\ GoesToUnlock(i)
    /\ UNCHANGED <<day, monitor, lock, task, sessions, edits>>

StartsOrSleeps(i, due) ==
    loop' = [loop EXCEPT ![i] = IF due = {} THEN Asleep ELSE [pc |-> "start", due |-> due]]

Unlock(i) ==
    /\ loop[i].pc = "unlock"
    /\ lock' = NoInstance
    /\ StartsOrSleeps(i, loop[i].due)
    /\ UNCHANGED <<day, monitor, task, sessions, edits, faults>>

\* A task for every selected row, each with the row as it was selected.
StartOne(i) ==
    /\ loop[i].pc = "start"
    /\ \E d \in loop[i].due, t \in Tasks :
         /\ Free(t)
         /\ task' = [task EXCEPT ![t] = Started(d.m, d.freq)]
         /\ StartsOrSleeps(i, loop[i].due \ {d})
    /\ UNCHANGED <<day, monitor, lock, sessions, edits, faults>>

\* The process dies and is started again.  Its connection closes, which frees
\* the lock; what it had selected is forgotten.  (The tasks it ran die with it:
\* see Dies.)
CrashInstance(i) ==
    /\ loop[i] # Asleep /\ Fault
    /\ lock' = IF lock = i THEN NoInstance ELSE lock
    /\ loop' = [loop EXCEPT ![i] = Asleep]
    /\ UNCHANGED <<day, monitor, task, sessions, edits>>

-----------------------------------------------------------------------------
(* One run: _run_monitor. *)

Goes(t, pc) == task' = [task EXCEPT ![t].pc = pc]
\* What is left is the update of the due time.
GoesOn(t) == task' = [task EXCEPT ![t] = [@ EXCEPT !.pc = "reschedule", !.parent = 0, !.id = 0]]

\* The stream raises, or the process dies: nothing is stored and the due time
\* stays, so the next tick selects the monitor again.
Dies(t) ==
    /\ task[t] # NoTask /\ Fault
    /\ task' = [task EXCEPT ![t] = NoTask]
    /\ UNCHANGED <<day, monitor, lock, loop, sessions, edits>>

\* The research ends, with a report or without one.
StreamEnds(t) ==
    /\ task[t].pc = "stream"
    /\ \/ /\ Len(sessions) + Cardinality({u \in Tasks : task[u].pc \in {"list", "create"}})
               < MaxSessions
          /\ Goes(t, "list")
       \/ GoesOn(t)
    /\ UNCHANGED <<day, monitor, lock, loop, sessions, edits, faults>>

\* MUTANT: the sessions are listed after the new one was stored.
ParentAtLink(t) == IF task[t].pc = "link" THEN task[t].id ELSE 0
\* The session to link to: the first with this query in a list ordered by the
\* last update, which is any of them.
ParentToLink(t) == task[t].parent

ListSessions(t) ==
    /\ task[t].pc = "list"
    /\ LET earlier == {k \in DOMAIN sessions : sessions[k].m = task[t].m}
       IN \E p \in IF earlier = {} THEN {0} ELSE earlier :
            task' = [task EXCEPT ![t].pc = "create", ![t].parent = p]
    /\ UNCHANGED <<day, monitor, lock, loop, sessions, edits, faults>>

CreateSession(t) ==
    /\ task[t].pc = "create"
    /\ sessions' = Append(sessions, [m |-> task[t].m, parent |-> 0])
    /\ IF task[t].parent = 0 THEN GoesOn(t)
       ELSE task' = [task EXCEPT ![t].pc = "link", ![t].id = Len(sessions) + 1]
    /\ UNCHANGED <<day, monitor, lock, loop, edits, faults>>

LinkParent(t) ==
    /\ task[t].pc = "link"
    /\ sessions' = [sessions EXCEPT ![task[t].id].parent = ParentToLink(t)]
    /\ GoesOn(t)
    /\ UNCHANGED <<day, monitor, lock, loop, edits, faults>>

\* A failure of any of the three is logged, and the run counts as done.
SaveFails(t) ==
    /\ task[t].pc \in {"list", "create", "link"} /\ Fault
    /\ GoesOn(t)
    /\ UNCHANGED <<day, monitor, lock, loop, sessions, edits>>

\* db_update_monitor_run, with the frequency selected at the start of the run; a
\* row that is gone is not updated.
Reschedule(t) ==
    /\ task[t].pc = "reschedule"
    /\ LET m == task[t].m
       IN monitor' = IF monitor[m].exists
                     THEN [monitor EXCEPT ![m].next = day + FrequencyDelta(task[t].freq)]
                     ELSE monitor
    /\ task' = [task EXCEPT ![t] = NoTask]
    /\ UNCHANGED <<day, lock, loop, sessions, edits, faults>>

TickStep(i) == TryLock(i) \/ Select(i) \/ Unlock(i) \/ StartOne(i)
RunStep(t) ==
    StreamEnds(t) \/ ListSessions(t) \/ CreateSession(t) \/ LinkParent(t) \/ Reschedule(t)

Next ==
    \/ NextDay
    \/ \E m \in Monitors :
         \/ \E freq \in {"daily", "weekly"} : CreateMonitor(m, freq)
         \/ UpdateMonitor(m) \/ DeleteMonitor(m)
         \/ \E t \in Tasks : TriggerMonitor(m, t)
    \/ \E i \in Instances : TickStep(i) \/ SelectFails(i) \/ CrashInstance(i)
    \/ \E t \in Tasks : RunStep(t) \/ SaveFails(t) \/ Dies(t)

\* Every instance keeps ticking and every run goes on.  A run that wants a free
\* task slot gets one again and again, hence the strong fairness of StartOne.
Spec ==
    /\ Init /\ [][Next]_schedVars
    /\ \A i \in Instances : WF_schedVars(TickStep(i)) /\ SF_schedVars(StartOne(i))
    /\ \A t \in Tasks : WF_schedVars(RunStep(t))

-----------------------------------------------------------------------------
(* What must hold. *)

TypeOK ==
    /\ day \in 0..MaxDay
    /\ monitor \in [Monitors -> [exists : BOOLEAN, active : BOOLEAN,
                                 freq : {"daily", "weekly"}, next : 0..MaxDay + Weekly]]
    /\ lock \in Instances \cup {NoInstance}
    /\ \A i \in Instances :
         /\ loop[i].pc \in {"sleep", "select", "unlock", "start"}
         /\ loop[i].due \subseteq [m : Monitors, freq : {"daily", "weekly"}]
    /\ \A t \in Tasks : task[t] = NoTask \/ task[t] \in
         [pc : {"stream", "list", "create", "link", "reschedule"}, m : Monitors,
          freq : {"daily", "weekly"}, parent : 0..MaxSessions, id : 0..MaxSessions]
    /\ sessions \in Seq([m : Monitors, parent : 0..MaxSessions])
    /\ Len(sessions) <= MaxSessions
    /\ edits \in 0..MaxEdits
    /\ faults \in 0..MaxFaults

\* The history of a monitor's reports is a chain into the past: a report is
\* linked to one of the same query that was stored before it, whatever runs of
\* the monitor overlap.
ParentsAreOlder ==
    \A k \in DOMAIN sessions : sessions[k].parent # 0 =>
        /\ sessions[k].parent < k
        /\ sessions[sessions[k].parent].m = sessions[k].m

\* No longer due, or being run.
Attended(m) == ~Due(m) \/ \E t \in Tasks : task[t] # NoTask /\ task[t].m = m

\* An active monitor that is due is run, whatever failures the ticks have.
DueMonitorIsRun == \A m \in Monitors : Due(m) ~> Attended(m)
=============================================================================
