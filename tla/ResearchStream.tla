---------------------------- MODULE ResearchStream ----------------------------
(***************************************************************************)
(* Research streams of one process: the loop of completions and parallel   *)
(* tool calls (app/agent/agent.py, tools.py), the generator that turns its *)
(* events into messages for the browser (streaming.py), the questions a    *)
(* stream asks its user (clarification.py), and the jobs that run a stream *)
(* in the background and post its report (app/routers/research.py).        *)
(* A question is <<stream, completion, call>>.                             *)
(***************************************************************************)
EXTENDS Naturals, Sequences, FiniteSets

CONSTANTS
    Streams,     \* research streams
    Jobs,        \* those that run in the background
    MaxTurns,    \* a bound: completions that ask for tools
    Parallel,    \* a bound: tool calls in one completion
    MaxTalkers,  \* talktome_max_concurrency
    MaxFaults    \* a bound: failures, restarts and closed browsers

VARIABLES
    st,        \* each stream: its place, its tool calls and what its deps hold
    store,     \* the clarification store: questions that may be answered
    resolved,  \* questions whose future has a result
    job,       \* the row of each job
    faults

researchVars == <<st, store, resolved, job, faults>>

NoQuestion == <<>>
Idle == [pc |-> "idle", turn |-> 0, calls |-> <<>>, pending |-> NoQuestion,
         active |-> {}, evaluations |-> 0, cached |-> {}]
Kinds == {"ask", "evaluate", "search", "talk"}
At(s, pc) == st[s].pc = pc
Go(s, pc) == st' = [st EXCEPT ![s].pc = pc]
Fault == faults < MaxFaults /\ faults' = faults + 1
Live == {"model", "announce", "run", "final"}

Init ==
    /\ st = [s \in Streams |-> Idle]
    /\ store = {} /\ resolved = {}
    /\ job = [s \in Streams |-> "none"]
    /\ faults = 0

-----------------------------------------------------------------------------
(* The completions. *)

\* The browser opens a stream; a job is stored first.
StartStream(s) ==
    /\ At(s, "idle")
    /\ s \in Jobs => job[s] = "queued"
    /\ Go(s, "model")
    /\ job' \in IF s \in Jobs THEN {job, [job EXCEPT ![s] = "running"]} ELSE {job}
    /\ IF s \in Jobs /\ job' = job THEN Fault ELSE faults' = faults
    /\ UNCHANGED <<store, resolved>>

SubmitJob(s) ==
    /\ s \in Jobs /\ job[s] = "none"
    /\ job' = [job EXCEPT ![s] = "queued"]
    /\ UNCHANGED <<st, store, resolved, faults>>

\* A completion asks for these tools, or for none and the report is done.
Complete(s, kinds) ==
    /\ At(s, "model") /\ (kinds # <<>> => st[s].turn < MaxTurns)
    /\ IF kinds = <<>> THEN Go(s, "final")
       ELSE st' = [st EXCEPT ![s].pc = "announce", ![s].turn = @ + 1,
              ![s].calls = [i \in 1..Len(kinds) |->
                 [kind |-> kinds[i], pc |-> "new", tries |-> 0, on |-> NoQuestion]]]
    /\ UNCHANGED <<store, resolved, job, faults>>

Register(question) == store' = store \cup {question}

\* The start of each call is announced before any of them runs; the announcement
\* of a question registers it.
Announce(s, i) ==
    /\ At(s, "announce") /\ i \in 1..Len(st[s].calls)
    /\ st[s].calls[i].pc = "new" /\ \A j \in 1..(i - 1) : st[s].calls[j].pc = "ready"
    /\ LET asks == st[s].calls[i].kind = "ask"
           question == <<s, st[s].turn, i>>
       IN /\ IF asks THEN Register(question) ELSE UNCHANGED store
          /\ st' = [st EXCEPT ![s].calls[i].pc = "ready",
                     ![s].pending = IF asks THEN question ELSE @,
                     ![s].active = IF asks THEN @ \cup {question} ELSE @,
                     ![s].pc = IF i = Len(st[s].calls) THEN "run" ELSE @]
    /\ UNCHANGED <<resolved, job, faults>>

\* The model fails: the stream ends with an error.
ModelFails(s) ==
    /\ At(s, "model") /\ Fault /\ Go(s, "closing")
    /\ UNCHANGED <<store, resolved, job>>

-----------------------------------------------------------------------------
(* The tool calls of a completion run at the same time.  Looking up the web and
   talking to the client's records stand for the tools that call a service. *)

IsCall(s, i, kind, pc) ==
    i \in 1..Len(st[s].calls) /\ st[s].calls[i].kind = kind /\ st[s].calls[i].pc = pc
CallGoes(s, i, pc) == st' = [st EXCEPT ![s].calls[i].pc = pc]

\* The tool takes the stream's pending question, which with two questions is the
\* last one announced, and waits for its answer; without one it goes on.
AskClarification(s, i) ==
    /\ ~At(s, "announce") /\ IsCall(s, i, "ask", "ready")
    /\ LET question == st[s].pending IN
       st' = [st EXCEPT ![s].pending = NoQuestion,
               ![s].calls[i] = [@ EXCEPT !.on = question,
                  !.pc = IF question \in store THEN "waiting" ELSE "returned"]]
    /\ UNCHANGED <<store, resolved, job, faults>>

AnswerComes(s, i) ==
    /\ IsCall(s, i, "ask", "waiting") /\ st[s].calls[i].on \in resolved
    /\ CallGoes(s, i, "returned")
    /\ UNCHANGED <<store, resolved, job, faults>>

SetAnswer(questions) == store' = store \ questions /\ resolved' = resolved \cup questions

\* The user answers a question, in time or not.
Clarify(question) ==
    /\ question \in store /\ SetAnswer({question})
    /\ UNCHANGED <<st, job, faults>>

\* A plan or an evaluation; the third evaluation always suffices, and the stream
\* may go on all the same.
Evaluate(s, i) ==
    /\ ~At(s, "announce") /\ IsCall(s, i, "evaluate", "ready")
    /\ st' = [st EXCEPT ![s].evaluations = @ + 1, ![s].calls[i].pc = "returned"]
    /\ UNCHANGED <<store, resolved, job, faults>>

\* The semaphore and the requests are entered after a look at the cache.
StartCall(s, i) ==
    /\ ~At(s, "announce")
    /\ \E kind \in {"search", "talk"} :
         /\ IsCall(s, i, kind, "ready")
         /\ CallGoes(s, i, IF kind \in st[s].cached THEN "returned"
                           ELSE IF kind = "talk" THEN "queue" ELSE "calling")
    /\ UNCHANGED <<store, resolved, job, faults>>

Talking == {q \in Streams \X (1..Parallel) : IsCall(q[1], q[2], "talk", "calling")}

EnterSemaphore(s, i) ==
    /\ IsCall(s, i, "talk", "queue") /\ Cardinality(Talking) < MaxTalkers
    /\ CallGoes(s, i, "calling")
    /\ UNCHANGED <<store, resolved, job, faults>>

\* An answer is cached for the rest of the stream.
Answers(s, i, kind) ==
    /\ IsCall(s, i, kind, "calling")
    /\ st' = [st EXCEPT ![s].calls[i].pc = "returned", ![s].cached = @ \cup {kind}]
    /\ UNCHANGED <<store, resolved, job, faults>>
SearchAnswers(s, i) == Answers(s, i, "search")
TalkAnswers(s, i) == Answers(s, i, "talk")

\* A failure is tried again, up to so many attempts, and then returned as text.
FailsAfter(s, i, attempts) ==
    /\ IF st[s].calls[i].tries + 1 < attempts
       THEN st' = [st EXCEPT ![s].calls[i].tries = @ + 1]
       ELSE CallGoes(s, i, "returned")
    /\ Fault
    /\ UNCHANGED <<store, resolved, job>>
SearchFails(s, i) == IsCall(s, i, "search", "calling") /\ FailsAfter(s, i, 3)
TalkFails(s, i) == IsCall(s, i, "talk", "calling") /\ FailsAfter(s, i, 2)
\* Of the errors only 502 and 503 are tried again.
TalkRefused(s, i) == IsCall(s, i, "talk", "calling") /\ FailsAfter(s, i, 1)

\* A tool raises: the stream fails, and the calls beside it are left running.
ToolRaises(s, i) ==
    /\ At(s, "run") /\ i \in 1..Len(st[s].calls)
    /\ st[s].calls[i].pc \in {"ready", "calling"} /\ Fault
    /\ st' = [st EXCEPT ![s].pc = "closing", ![s].calls[i].pc = "returned"]
    /\ UNCHANGED <<store, resolved, job>>

Results(s) ==
    /\ At(s, "run") /\ \A i \in 1..Len(st[s].calls) : st[s].calls[i].pc = "returned"
    /\ st' = [st EXCEPT ![s].pc = "model", ![s].calls = <<>>]
    /\ UNCHANGED <<store, resolved, job, faults>>

-----------------------------------------------------------------------------
(* The end of a stream. *)

\* The report, its sources and the suggestions are sent.
Report(s) ==
    /\ At(s, "final") /\ Go(s, "closing")
    /\ UNCHANGED <<store, resolved, job, faults>>

\* The browser goes away: what the stream awaits is cancelled with it.
Disconnect(s) ==
    /\ s \notin Jobs /\ st[s].pc \in Live /\ Fault
    /\ st' = [st EXCEPT ![s].pc = "closing",
                        ![s].calls = [i \in 1..Len(st[s].calls) |->
                                        [st[s].calls[i] EXCEPT !.pc = "returned"]]]
    /\ UNCHANGED <<store, resolved, job>>

\* The questions of the stream that are still in the store.
OpenQuestions(s) == st[s].active \cap store

\* The finally of the generator cancels them all.
CancelSession(s) ==
    /\ At(s, "closing")
    /\ SetAnswer(OpenQuestions(s))
    /\ Go(s, IF s \in Jobs THEN "post" ELSE "ended")
    /\ UNCHANGED <<job, faults>>

\* The report is posted, an empty one when the stream failed, and the row says
\* done; a webhook that fails makes it failed.  The update may be lost.
PostToWebhook(s) ==
    /\ At(s, "post") /\ Go(s, "ended")
    /\ \/ job' = [job EXCEPT ![s] = "done"] /\ faults' = faults
       \/ job' \in {[job EXCEPT ![s] = "failed"], job} /\ Fault
    /\ UNCHANGED <<store, resolved>>

\* The process restarts: streams and questions are gone, rows stay as they are.
Restart ==
    /\ Fault
    /\ st' = [s \in Streams |-> IF At(s, "idle") /\ job[s] = "none" THEN Idle
                                ELSE [Idle EXCEPT !.pc = "ended"]]
    /\ store' = {} /\ resolved' = {}
    /\ UNCHANGED job

KindLists == UNION {[1..n -> Kinds] : n \in 0..Parallel}

Next ==
    \/ Restart
    \/ \E question \in store : Clarify(question)
    \/ \E s \in Streams :
         \/ SubmitJob(s) \/ StartStream(s) \/ ModelFails(s)
         \/ \E kinds \in KindLists : Complete(s, kinds)
         \/ Results(s) \/ Report(s) \/ Disconnect(s)
         \/ CancelSession(s) \/ PostToWebhook(s)
         \/ \E i \in 1..Parallel :
              \/ Announce(s, i) \/ AskClarification(s, i) \/ AnswerComes(s, i)
              \/ Evaluate(s, i) \/ StartCall(s, i) \/ EnterSemaphore(s, i)
              \/ SearchAnswers(s, i) \/ SearchFails(s, i) \/ TalkAnswers(s, i)
              \/ TalkFails(s, i) \/ TalkRefused(s, i) \/ ToolRaises(s, i)

Spec == Init /\ [][Next]_researchVars

-----------------------------------------------------------------------------
(* What must hold. *)

TypeOK ==
    /\ \A s \in Streams :
         /\ st[s].pc \in Live \cup {"idle", "closing", "post", "ended"}
         /\ st[s].turn \in 0..MaxTurns /\ Len(st[s].calls) <= Parallel
         /\ st[s].pending # NoQuestion => st[s].pending \in st[s].active
    /\ store \cap resolved = {} /\ store \subseteq UNION {st[s].active : s \in Streams}
    /\ job \in [Streams -> {"none", "queued", "running", "done", "failed"}]
    /\ Cardinality(Talking) <= MaxTalkers
    /\ faults \in 0..MaxFaults

\* A question lives with its stream: a tool that waits can be answered or has been,
\* also one left running by a failure beside it, and a stream that has ended, in
\* whatever way, leaves no question in the store and no tool waiting for one.
QuestionsEndWithTheirStream ==
    \A s \in Streams :
        /\ \A i \in 1..Len(st[s].calls) :
             st[s].calls[i].pc = "waiting" => st[s].calls[i].on \in store \cup resolved
        /\ st[s].pc \in {"post", "ended"} =>
             /\ st[s].active \cap store = {}
             /\ \A i \in 1..Len(st[s].calls) :
                  st[s].calls[i].pc = "waiting" => st[s].calls[i].on \in resolved
=============================================================================
