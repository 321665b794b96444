-------------------------------- MODULE KgChat --------------------------------
(***************************************************************************)
(* Chats about the knowledge graph of one user in one team                 *)
(* (app/routers/kg_chat.py, app/agent/kg_chat.py,                          *)
(* app/db/kg_chat_sessions.py): the rate limit in Redis, the limit of a    *)
(* session, the stored messages, and the loop of completions and tool      *)
(* calls that answers one.  A message is its role and the request it       *)
(* belongs to.                                                             *)
(***************************************************************************)
EXTENDS Naturals, Sequences, FiniteSets

CONSTANTS
    Requests,      \* messages the user sends, from as many tabs as there are
    Chats,         \* the chat sessions
    RateLimit,     \* messages in a window, 30 in the code
    SessionLimit,  \* messages in a session, 50 in the code
    CallLimit,     \* tool calls in a turn, 6 in the code
    Parallel,      \* a bound: tool calls in one completion
    MaxFaults      \* a bound: failures of Redis and of the model

VARIABLES
    window,    \* kg_chat_rate:{user}: its count, and whether it will expire
    exists,    \* kg_chat_sessions
    deleted,   \* sessions there have been
    messages,  \* kg_chat_messages of each session, oldest first
    req,       \* what each request is doing
    faults

chatVars == <<window, exists, deleted, messages, req, faults>>
chats == <<exists, deleted>>

NoChat == 0
Idle == [pc |-> "idle", chat |-> NoChat, count |-> 0, calls |-> 0, history |-> <<>>]
At(r, pc) == req[r].pc = pc
Go(r, pc) == req' = [req EXCEPT ![r].pc = pc]
Fault == faults < MaxFaults /\ faults' = faults + 1
Streaming == {"persist", "load", "model", "tools", "answer"}

Init ==
    /\ window = [count |-> 0, expires |-> FALSE]
    /\ exists = {} /\ deleted = {} /\ messages = [s \in Chats |-> <<>>]
    /\ req = [r \in Requests |-> Idle]
    /\ faults = 0

-----------------------------------------------------------------------------
(* Before the stream. *)

\* INCR; the first message of a window sets its end.  (The count is not taken
\* further than one past the limit.)
Count(r) ==
    /\ At(r, "idle") /\ window.count <= RateLimit
    /\ window' = [window EXCEPT !.count = @ + 1]
    /\ req' = [req EXCEPT ![r].pc = IF window.count = 0 THEN "expire" ELSE "limit",
                          ![r].count = window.count + 1]
    /\ UNCHANGED <<chats, messages, faults>>

SetExpiry(r) ==
    /\ At(r, "expire")
    /\ window' = [window EXCEPT !.expires = window.count > 0]
    /\ Go(r, "limit")
    /\ UNCHANGED <<chats, messages, faults>>

\* Redis fails at the INCR or at the EXPIRE: the limit is skipped, and in the
\* second case the counter has no end.
RedisFails(r) ==
    /\ At(r, "idle") \/ At(r, "expire")
    /\ Fault /\ Go(r, "open")
    /\ UNCHANGED <<window, chats, messages>>

WindowEnds ==
    /\ window.expires
    /\ window' = [count |-> 0, expires |-> FALSE]
    /\ UNCHANGED <<chats, messages, req, faults>>

CheckRate(r) ==
    /\ At(r, "limit")
    /\ Go(r, IF req[r].count > RateLimit THEN "refused" ELSE "open")
    /\ UNCHANGED <<window, chats, messages, faults>>

\* A new session, one that is found and then counted, or one that is gone.
OpenChat(r) ==
    /\ At(r, "open")
    /\ \E s \in Chats :
         /\ req' = [req EXCEPT ![r].chat = s,
                               ![r].pc = IF s \in exists THEN "length"
                                         ELSE IF s \in deleted THEN "refused" ELSE "persist"]
         /\ exists' = exists \cup ({s} \ deleted)
    /\ UNCHANGED <<window, deleted, messages, faults>>

\* MUTANT: one more.
FullAbove(n) == n > SessionLimit
Full(n) == n >= SessionLimit

CheckLength(r) ==
    /\ At(r, "length")
    /\ Go(r, IF Full(Len(messages[req[r].chat])) THEN "refused" ELSE "persist")
    /\ UNCHANGED <<window, chats, messages, faults>>

-----------------------------------------------------------------------------
(* The stream. *)

Stored(r, role) ==
    messages' = [messages EXCEPT ![req[r].chat] = Append(@, [role |-> role, of |-> r])]

\* The user's message.  A session that was deleted since ends the stream with an
\* exception nobody catches.
PersistQuestion(r) ==
    /\ At(r, "persist")
    /\ IF req[r].chat \in exists
       THEN Stored(r, "user") /\ Go(r, "load")
       ELSE Go(r, "broken") /\ UNCHANGED messages
    /\ UNCHANGED <<window, chats, faults>>

\* db_get_chat_messages.
ChatMessages(s) == messages[s]

\* All messages but the last, which another request may have stored.
LoadHistory(r) ==
    /\ At(r, "load")
    /\ LET all == ChatMessages(req[r].chat) IN
       req' = [req EXCEPT ![r].pc = "model",
                          ![r].history = SubSeq(all, 1, Len(all) - 1)]
    /\ UNCHANGED <<window, chats, messages, faults>>

\* One completion: it asks for n tools, or is the end of the turn.
Complete(r, n) ==
    /\ At(r, "model")
    /\ IF n = 0 THEN Go(r, "answer")
       ELSE req' = [req EXCEPT ![r].pc = "tools", ![r].calls = @ + n]
    /\ UNCHANGED <<window, chats, messages, faults>>

\* The turn has had its tool calls.
EnoughCalls(n) == n >= CallLimit

\* The tools of a completion run together; a failing one answers with an error.
\* Past the limit the turn ends with a notice.
RunTools(r) ==
    /\ At(r, "tools")
    /\ Go(r, IF EnoughCalls(req[r].calls) THEN "answer" ELSE "model")
    /\ UNCHANGED <<window, chats, messages, faults>>

\* The model fails: a keyword search is the answer.
ModelFails(r) ==
    /\ At(r, "model") /\ Fault /\ Go(r, "answer")
    /\ UNCHANGED <<window, chats, messages>>

\* The assistant's message, then "done"; without the session an error and "done".
PersistAnswer(r) ==
    /\ At(r, "answer")
    /\ IF req[r].chat \in exists THEN Stored(r, "assistant") ELSE UNCHANGED messages
    /\ Go(r, "done")
    /\ UNCHANGED <<window, chats, faults>>

\* The browser leaves: what was not stored is lost.
Disconnect(r) ==
    /\ req[r].pc \in Streaming /\ Fault /\ Go(r, "broken")
    /\ UNCHANGED <<window, chats, messages>>

DeleteChat(s) ==
    /\ s \in exists
    /\ exists' = exists \ {s} /\ deleted' = deleted \cup {s}
    /\ messages' = [messages EXCEPT ![s] = <<>>]
    /\ UNCHANGED <<window, req, faults>>

\* A request that has ended makes room for the next message.
Again(r) ==
    /\ req[r].pc \in {"done", "broken", "refused"}
    /\ req' = [req EXCEPT ![r] = Idle]
    /\ UNCHANGED <<window, chats, messages, faults>>

Next ==
    \/ WindowEnds
    \/ \E s \in Chats : DeleteChat(s)
    \/ \E r \in Requests :
         \/ Count(r) \/ SetExpiry(r) \/ RedisFails(r) \/ CheckRate(r)
         \/ OpenChat(r) \/ CheckLength(r)
         \/ PersistQuestion(r) \/ LoadHistory(r)
         \/ \E n \in 0..Parallel : Complete(r, n)
         \/ RunTools(r) \/ ModelFails(r) \/ PersistAnswer(r)
         \/ Disconnect(r) \/ Again(r)

Spec == Init /\ [][Next]_chatVars

-----------------------------------------------------------------------------
(* What must hold. *)

TypeOK ==
    /\ window.count \in 0..(RateLimit + 1) /\ window.expires \in BOOLEAN
    /\ exists \cup deleted \subseteq Chats /\ exists \cap deleted = {}
    /\ \A s \in Chats : (\A i \in 1..Len(messages[s]) : messages[s][i].of \in Requests)
    /\ \A r \in Requests : req[r].chat \in Chats \cup {NoChat}
    /\ faults \in 0..MaxFaults

\* The limits of a session and of a turn are looked at before messages and calls
\* are added, by requests that overlap: a session passes its limit by the two
\* messages of each request that saw room, at most, and a turn its own by the
\* calls of one completion.  A deleted session keeps no message.
LimitsHold ==
    /\ \A s \in Chats : Len(messages[s]) <= SessionLimit - 1 + 2 * Cardinality(Requests)
    /\ \A r \in Requests : req[r].calls <= CallLimit - 1 + Parallel
    /\ \A s \in deleted : messages[s] = <<>>
=============================================================================
