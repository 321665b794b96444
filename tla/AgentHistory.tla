---------------------------- MODULE AgentHistory ----------------------------
(***************************************************************************)
(* The conversation with the research agent (app/agent/agent.py run and    *)
(* _trim_history, app/agent/streaming.py).  With a question comes the      *)
(* history of the earlier ones, as the client was given it; the stream     *)
(* keeps its last messages, the agent trims it to a budget of tokens and   *)
(* puts it between the system message and the question.  The model answers *)
(* or calls tools in parallel, whose results follow the message that       *)
(* called them.  A message is its role, its estimated tokens and the ids   *)
(* that relate a result to a call.  The history of a session saved in the  *)
(* format of the agent before this one is not looked at.                   *)
(***************************************************************************)
EXTENDS Naturals, Sequences, FiniteSets, SequencesExt, FiniteSetsExt

CONSTANTS
    Sizes,        \* estimated tokens of a text
    Budget,       \* _MAX_HISTORY_TOKENS
    Keep,         \* _MAX_HISTORY_MESSAGES
    MaxParallel,  \* bound: calls in one message
    MaxRounds,    \* bound: messages that call tools
    MaxQuestions  \* bound: questions of the conversation

VARIABLES
    history,   \* the messages the client sends with its next question
    messages,  \* the messages the model is given
    past,      \* those of them that were the history
    pc,        \* "idle", "model" or "tools"
    rounds,    \* how many messages called tools; the ids are made of it
    questions, \* how many questions were asked
    lost       \* ids of results whose call the stream left out

historyVars == <<history, messages, past, pc, rounds, questions, lost>>

Text(role, size) == [role |-> role, size |-> size, calls |-> {}, id |-> <<>>]
Calling(ids, size) == [Text("assistant", size) EXCEPT !.calls = ids]
Result(id, size) == [Text("tool", size) EXCEPT !.id = id]
EstimateTokens(m) == m.size + Cardinality(m.calls)

Init ==
    /\ history = <<>> /\ messages = <<>> /\ past = <<>> /\ pc = "idle"
    /\ rounds = 0 /\ questions = 0 /\ lost = {}

-----------------------------------------------------------------------------
(* Trimming. *)

TokensOf(ms, is) == MapThenSumSet(LAMBDA i : EstimateTokens(ms[i]), is)
Tokens(ms) == TokensOf(ms, DOMAIN ms)
\* The messages at the places in is, in their order.
Place(k, is) == CHOOSE i \in is : Cardinality({j \in is : j < i}) = k - 1
Only(ms, is) == [k \in 1..Cardinality(is) |-> ms[Place(k, is)]]
Results(ms) == {i \in DOMAIN ms : ms[i].role = "tool"}

\* The oldest results go first, until the rest fits.
ResultsToDrop(ms) ==
    {i \in Results(ms) : Tokens(ms) - TokensOf(ms, {j \in Results(ms) : j < i}) > Budget}

\* The calls of the dropped results go with them.
DropsTheCall(ms, i) == [ms[i] EXCEPT !.calls = @ \ {ms[j].id : j \in ResultsToDrop(ms)}]
WithoutResults(ms) ==
    Only([i \in DOMAIN ms |-> DropsTheCall(ms, i)], DOMAIN ms \ ResultsToDrop(ms))

\* Then the oldest messages of any role, but the last, up to the next that a
\* conversation can start with.  What fits is reckoned with the calls that went.
TrimHistory(ms) ==
    LET total == TokensOf(ms, DOMAIN ms \ ResultsToDrop(ms))
        rest  == WithoutResults(ms)
        kept  == {i \in DOMAIN rest : \/ i = Len(rest)
                                      \/ total <= Budget + TokensOf(rest, 1..(i - 1))}
        firsts == {i \in kept : rest[i].role \in {"user", "system"}}
    IN  IF Tokens(ms) <= Budget THEN ms
        ELSE IF total <= Budget THEN rest
        ELSE IF firsts = {} THEN <<>> ELSE SubSeq(rest, Min(firsts), Len(rest))

-----------------------------------------------------------------------------
(* A question, and the loop that answers it. *)

LastMessages == SubSeq(history, IF Len(history) > Keep THEN Len(history) - Keep + 1 ELSE 1,
                       Len(history))
CallsIn(ms) == UNION {ms[i].calls : i \in DOMAIN ms}

Ask(size) ==
    /\ pc = "idle" /\ questions < MaxQuestions
    /\ past' = TrimHistory(LastMessages)
    /\ messages' = <<Text("system", 1)>> \o past' \o <<Text("user", size)>>
    /\ lost' = {LastMessages[i].id : i \in Results(LastMessages)} \ CallsIn(LastMessages)
    /\ pc' = "model" /\ questions' = questions + 1
    /\ UNCHANGED <<history, rounds>>

CallTools(n, size) ==
    /\ pc = "model" /\ rounds < MaxRounds
    /\ rounds' = rounds + 1
    /\ messages' = Append(messages, Calling({<<rounds', k>> : k \in 1..n}, size))
    /\ pc' = "tools"
    /\ UNCHANGED <<history, past, questions, lost>>

\* The results are appended together, in the order of the calls.
AppendResults(sizes) ==
    /\ pc = "tools" /\ Len(sizes) = Cardinality(Last(messages).calls)
    /\ messages' = messages \o [k \in DOMAIN sizes |-> Result(<<rounds, k>>, sizes[k])]
    /\ pc' = "model"
    /\ UNCHANGED <<history, past, rounds, questions, lost>>

\* The answer itself is not among the messages the client is given.
AnswerQuestion ==
    /\ pc = "model"
    /\ history' = messages /\ pc' = "idle"
    /\ UNCHANGED <<messages, past, rounds, questions, lost>>

\* A tool or the model raises: the client keeps the history it had.
RunFails ==
    /\ pc \in {"model", "tools"} /\ pc' = "idle"
    /\ UNCHANGED <<history, messages, past, rounds, questions, lost>>

Next ==
    \/ \E size \in Sizes : Ask(size)
    \/ \E n \in 1..MaxParallel : CallTools(n, 1)
    \/ \E n \in 1..MaxParallel : \E sizes \in [1..n -> Sizes] : AppendResults(sizes)
    \/ AnswerQuestion \/ RunFails

Spec == Init /\ [][Next]_historyVars

-----------------------------------------------------------------------------
TypeOK ==
    /\ \A ms \in {history, messages, past} : \A i \in DOMAIN ms :
          /\ ms[i].role \in {"system", "user", "assistant", "tool"}
          /\ ms[i].calls # {} => ms[i].role = "assistant"
          /\ (ms[i].role = "tool") = (ms[i].id # <<>>)
    /\ pc \in {"idle", "model", "tools"}
    /\ rounds \in 0..MaxRounds /\ questions \in 0..MaxQuestions

\* Whatever was trimmed, the model is given every result right after its call
\* and every call with its result, but for the results whose call was left out
\* with the messages before the last ones.
CallsKeepTheirResults ==
    pc = "model" =>
      \A i \in DOMAIN messages :
        /\ (messages[i].role = "tool" /\ messages[i].id \notin lost) =>
             LET before == Max({j \in 1..(i - 1) : messages[j].role # "tool"})
             IN  messages[i].id \in messages[before].calls
        /\ \A c \in messages[i].calls : \E j \in (i + 1)..Len(messages) :
             messages[j].id = c /\ \A k \in (i + 1)..j : messages[k].role = "tool"

\* The history given to the model is within the budget, or is one message.
HistoryFits == Tokens(past) <= Budget \/ Len(past) <= 1
=============================================================================
