---------------------------- MODULE ServiceProofs ----------------------------
(***************************************************************************)
(* The small services, for every value of their constants: the settings    *)
(* under which no running job is reclaimed prematurely, how long a chat    *)
(* and a turn of it grow, who is told of a comment, what a startup leaves  *)
(* in force, which pools of connections are open, what is reused as known  *)
(* of a client, how the questions of a stream end, who runs a monitor and  *)
(* what its reports hang on, which attributes the clusters of a job name,  *)
(* and what goes with a deleted row.                                       *)
(* The services share no state and a slot of ServiceState holds variables  *)
(* of several of them, so each theorem is about one service.               *)
(***************************************************************************)
EXTENDS TeamServices, FiniteSetTheorems, WellFoundedInduction, TLAPS

-----------------------------------------------------------------------------
(* Premature reclaims *)

\* The age of a claim is bounded by the wait; a running handler adds its running
\* time to it, or, when no beat fails, the time since its last beat.
AgeInv ==
  /\ TypeOK
  /\ status = "claimed" => age <= MaxWait
  /\ alive => /\ status = "running"
              /\ ran <= Timeout
              /\ age <= MaxWait + ran
  /\ Beating => tick <= Interval
  /\ alive /\ ~ MayFail => failures = 0 /\ age <= MaxWait + tick

\* Under safe settings the age never reaches the threshold of a live handler.
LEMMA AgeInvSuffices == SafeTiming /\ AgeInv => NoPrematureReclaim
<1> SUFFICES ASSUME SafeTiming, AgeInv, alive PROVE ~ (age > Stale)
  BY DEF NoPrematureReclaim
<1>1. CASE MaxWait + Timeout <= Stale
  BY <1>1, TimingAssumption DEF AgeInv, TypeOK
<1>2. CASE ~ MayFail /\ MaxWait + Interval <= Stale
  <2>1. Beating
    BY <1>2, TimingAssumption DEF AgeInv, TypeOK, Beating
  <2>2. tick <= Interval /\ age <= MaxWait + tick
    BY <1>2, <2>1 DEF AgeInv
  <2> QED BY <1>2, <2>2, TimingAssumption DEF AgeInv, TypeOK
<1> QED BY <1>1, <1>2 DEF SafeTiming

\* The invariant is inductive, one step per action.
LEMMA AgeInvStep == SafeTiming /\ AgeInv /\ [Next]_vars => AgeInv'
<1> SUFFICES ASSUME SafeTiming, AgeInv, [Next]_vars PROVE AgeInv'
  OBVIOUS
<1> USE TimingAssumption DEF AgeInv, TypeOK, Beating, handler
<1>1. CASE Claim   BY <1>1 DEF Claim
<1>2. CASE Start   BY <1>2 DEF Start
<1>3. CASE Beat    BY <1>3 DEF Beat, Refreshed
<1>4. CASE BeatFails  BY <1>4 DEF BeatFails
<1>5. CASE Finish  BY <1>5 DEF Finish
<1>6. CASE Die     BY <1>6 DEF Die
<1>7. CASE Reclaim
  <2>1. ~ alive
    BY <1>7, AgeInvSuffices DEF Reclaim, Expired, NoPrematureReclaim
  <2> QED BY <1>7, <2>1 DEF Reclaim
<1>8. CASE Pass
  <2>1. CASE alive
    BY <1>8, <2>1 DEF Pass, InTime
  <2>2. CASE ~ alive
    BY <1>8, <2>2 DEF Pass
  <2> QED BY <2>1, <2>2
<1>9. CASE UNCHANGED vars  BY <1>9 DEF vars
<1> QED BY <1>1, <1>2, <1>3, <1>4, <1>5, <1>6, <1>7, <1>8, <1>9 DEF Next

\* With settings that satisfy SafeTiming no running job is reclaimed prematurely,
\* whatever the heartbeats do; the startup assertion, Stale > Timeout, is weaker.
THEOREM NoPrematureReclaimCorrect == SafeTiming /\ Spec => []NoPrematureReclaim
<1>1. Init => AgeInv
  <2> SUFFICES ASSUME Init PROVE AgeInv
    OBVIOUS
  <2>1. TypeOK  BY DEF Init, TypeOK
  <2>2. 0 <= Interval  BY TimingAssumption
  <2> QED BY <2>1, <2>2 DEF Init, AgeInv, Beating
<1>2. ASSUME SafeTiming PROVE AgeInv /\ [Next]_vars => AgeInv'
  BY <1>2, AgeInvStep
<1>3. ASSUME SafeTiming PROVE AgeInv => NoPrematureReclaim
  BY <1>3, AgeInvSuffices
<1>4. CASE SafeTiming
  <2>1. AgeInv /\ [Next]_vars => AgeInv'  BY <1>2, <1>4
  <2>2. AgeInv => NoPrematureReclaim      BY <1>3, <1>4
  <2> QED BY <1>1, <2>1, <2>2, PTL DEF Spec
<1>5. CASE ~ SafeTiming
  BY <1>5
<1> QED BY <1>4, <1>5

-----------------------------------------------------------------------------
(* How long a chat and a turn grow *)

Answering == {"load", "model", "tools", "answer"}
Early == {"idle", "expire", "limit", "open", "length", "persist", "load"}
Message == [role : {"user", "assistant"}, of : Requests]
ChatRequest == [pc : Early \cup Answering \cup {"done", "broken", "refused"},
                chat : Chats \cup {0}, count : Nat, calls : Nat, history : Seq(Message)]

ChatTypes ==
    /\ window \in [count : 0..(RateLimit + 1), expires : BOOLEAN]
    /\ exists \subseteq Chats /\ deleted \subseteq Chats /\ exists \cap deleted = {}
    /\ messages \in [Chats -> Seq(Message)]
    /\ req \in [Requests -> ChatRequest]
    /\ faults \in 0..MaxFaults

\* A chat that is not there has no messages.
Empty == \A s \in Chats \ exists : messages[s] = <<>>

\* A request that counts or stores knows its chat; it completes with calls to spare.
Fine(k) ==
    /\ k.pc \in {"length", "persist"} \cup Answering => k.chat \in Chats
    /\ k.calls <= CallLimit - 1 + Parallel
    /\ k.pc = "model" => k.calls <= CallLimit - 1
    /\ k.pc \in Early => k.calls = 0

\* Those who have still to store two messages, and one.
Asks(s) == {r \in Requests : req[r].chat = s /\ req[r].pc = "persist"}
Answers(s) == {r \in Requests : req[r].chat = s /\ req[r].pc \in Answering}
ToCome(s) == 2 * Cardinality(Asks(s)) + Cardinality(Answers(s))

\* The messages there are and those to come.
Room == \A s \in Chats :
          Len(messages[s]) + ToCome(s) <= SessionLimit - 1 + 2 * Cardinality(Requests)

ChatInv == ChatTypes /\ Empty /\ (\A r \in Requests : Fine(req[r])) /\ Room

Becomes(r, k) == req' = [req EXCEPT ![r] = k]

\* How many there are with one more and with one less.
LEMMA OneMore ==
    ASSUME NEW A, IsFiniteSet(A), NEW r
    PROVE  /\ Cardinality(A) \in Nat /\ Cardinality(A \cup {r}) \in Nat /\ Cardinality(A \ {r}) \in Nat
           /\ Cardinality(A \cup {r}) = IF r \in A THEN Cardinality(A) ELSE Cardinality(A) + 1
           /\ Cardinality(A \ {r}) = IF r \in A THEN Cardinality(A) - 1 ELSE Cardinality(A)
<1>1. IsFiniteSet(A \cup {r}) /\ IsFiniteSet(A \ {r})
  BY FS_AddElement, FS_RemoveElement
<1>. QED
  BY <1>1, FS_CardinalityType, FS_AddElement, FS_RemoveElement

\* All requests together have at most two messages each to come.
LEMMA ToComeBound ==
    ASSUME IsFiniteSet(Requests), NEW A \in SUBSET Requests, NEW B \in SUBSET Requests, A \cap B = {}
    PROVE  2 * Cardinality(A) + Cardinality(B) <= 2 * Cardinality(Requests)
<1>1. IsFiniteSet(A) /\ IsFiniteSet(B)
  BY FS_Subset
<1>2. PICK U : U = A \cup B
  OBVIOUS
<1>3. Cardinality(U) = Cardinality(A) + Cardinality(B) - Cardinality(A \cap B)
  BY <1>1, <1>2, FS_Union
<1>4. Cardinality(A \cap B) = 0
  BY FS_EmptySet
<1>5. Cardinality(U) <= Cardinality(Requests)
  BY <1>2, FS_Subset
<1>. QED
  BY <1>1, <1>3, <1>4, <1>5, FS_CardinalityType

\* What may happen to a chat when r becomes k: nobody asks for more; or r has seen room;
\* or r goes on; or it stores its question, or its answer.
RoomStep(r, k, s) ==
    \/ /\ Len(messages'[s]) <= Len(messages[s])
       /\ ~ (k.chat = s /\ k.pc \in {"persist"} \cup Answering)
    \/ Len(messages'[s]) <= SessionLimit - 1
    \/ /\ Len(messages'[s]) <= Len(messages[s]) /\ req[r].chat = s
       /\ req[r].pc \in Answering /\ k.pc \in Answering
    \/ /\ Len(messages'[s]) <= Len(messages[s]) + 1 /\ req[r].chat = s
       /\ req[r].pc = "persist" /\ k.pc \in Answering
    \/ /\ Len(messages'[s]) <= Len(messages[s]) + 1 /\ req[r].chat = s
       /\ req[r].pc \in Answering /\ k.pc \notin {"persist"} \cup Answering

\* Each of them keeps the bound.
LEMMA RoomKept ==
    ASSUME ChatConstants, ChatTypes, Room, NEW r \in Requests, NEW k \in ChatRequest, Becomes(r, k),
           messages' \in [Chats -> Seq(Message)], NEW s \in Chats, RoomStep(r, k, s)
    PROVE  Len(messages'[s]) + ToCome(s)' <= SessionLimit - 1 + 2 * Cardinality(Requests)
<1>0. /\ req \in [Requests -> ChatRequest] /\ Len(messages[s]) \in Nat /\ Len(messages'[s]) \in Nat
      /\ IsFiniteSet(Requests) /\ SessionLimit \in Nat
  BY DEF ChatTypes, ChatConstants
<1>1. req'[r] = k /\ \A q \in Requests \ {r} : req'[q] = req[q]
  BY <1>0 DEF Becomes
<1>2. PICK A : A = Asks(s)
  OBVIOUS
<1>3. PICK B : B = Answers(s)
  OBVIOUS
<1>4. /\ A \in SUBSET Requests /\ B \in SUBSET Requests /\ A \cap B = {}
      /\ r \in A <=> req[r].chat = s /\ req[r].pc = "persist"
      /\ r \in B <=> req[r].chat = s /\ req[r].pc \in Answering
  BY <1>2, <1>3 DEF Asks, Answers, Answering
<1>5. Asks(s)' = IF k.chat = s /\ k.pc = "persist" THEN A \cup {r} ELSE A \ {r}
  BY <1>1, <1>2 DEF Asks
<1>6. Answers(s)' = IF k.chat = s /\ k.pc \in Answering THEN B \cup {r} ELSE B \ {r}
  BY <1>1, <1>3 DEF Answers
<1>7. IsFiniteSet(A) /\ IsFiniteSet(B)
  BY <1>0, <1>4, FS_Subset
<1>8. /\ Cardinality(A) \in Nat /\ Cardinality(B) \in Nat /\ Cardinality(Requests) \in Nat
      /\ Cardinality(A \ {r}) \in Nat /\ Cardinality(B \ {r}) \in Nat
      /\ Cardinality(A \cup {r}) = IF r \in A THEN Cardinality(A) ELSE Cardinality(A) + 1
      /\ Cardinality(A \ {r}) = IF r \in A THEN Cardinality(A) - 1 ELSE Cardinality(A)
      /\ Cardinality(B \cup {r}) = IF r \in B THEN Cardinality(B) ELSE Cardinality(B) + 1
      /\ Cardinality(B \ {r}) = IF r \in B THEN Cardinality(B) - 1 ELSE Cardinality(B)
  BY <1>0, <1>7, OneMore
<1>9. Len(messages[s]) + (2 * Cardinality(A) + Cardinality(B)) <= SessionLimit - 1 + 2 * Cardinality(Requests)
  BY <1>2, <1>3 DEF Room, ToCome
<1>10. PICK A1 : A1 = Asks(s)'
  OBVIOUS
<1>11. PICK B1 : B1 = Answers(s)'
  OBVIOUS
<1>12. SUFFICES Len(messages'[s]) + (2 * Cardinality(A1) + Cardinality(B1))
                  <= SessionLimit - 1 + 2 * Cardinality(Requests)
  BY <1>10, <1>11 DEF ToCome
<1>13. CASE Len(messages'[s]) <= SessionLimit - 1
  <2>1. A1 \in SUBSET Requests /\ B1 \in SUBSET Requests /\ A1 \cap B1 = {}
    BY <1>10, <1>11 DEF Asks, Answers, Answering
  <2>2. 2 * Cardinality(A1) + Cardinality(B1) <= 2 * Cardinality(Requests)
    BY <1>0, <2>1, ToComeBound
  <2>3. Cardinality(A1) \in Nat /\ Cardinality(B1) \in Nat
    BY <1>0, <2>1, FS_Subset, FS_CardinalityType
  <2>4. Len(messages'[s]) \in Nat /\ SessionLimit \in Nat /\ Cardinality(Requests) \in Nat
    BY <1>0, <1>8
  <2>. QED
    BY <1>13, <2>2, <2>3, <2>4
<1>14. CASE /\ Len(messages'[s]) <= Len(messages[s])
            /\ ~ (k.chat = s /\ k.pc \in {"persist"} \cup Answering)
  <2>1. A1 = A \ {r} /\ B1 = B \ {r}
    BY <1>5, <1>6, <1>10, <1>11, <1>14
  <2>2. Cardinality(A1) <= Cardinality(A) /\ Cardinality(A1) \in Nat
    BY <1>8, <2>1
  <2>3. Cardinality(B1) <= Cardinality(B) /\ Cardinality(B1) \in Nat
    BY <1>8, <2>1
  <2>. QED
    BY <1>0, <1>8, <1>9, <1>14, <2>2, <2>3
<1>15. CASE req[r].chat = s /\ req[r].pc \in Answering /\ Len(messages'[s]) <= Len(messages[s])
            /\ k.pc \in Answering
  <2>1. r \in B /\ r \notin A
    BY <1>4, <1>15
  <2>2. A1 = A \ {r} /\ (B1 = B \cup {r} \/ B1 = B \ {r})
    BY <1>5, <1>6, <1>10, <1>11, <1>15 DEF Answering
  <2>3. Cardinality(A1) = Cardinality(A)
    BY <1>8, <2>1, <2>2
  <2>4. Cardinality(B1) = Cardinality(B) \/ Cardinality(B1) = Cardinality(B) - 1
    BY <1>8, <2>1, <2>2
  <2>. QED
    BY <1>0, <1>8, <1>9, <1>15, <2>3, <2>4
<1>16. CASE /\ Len(messages'[s]) <= Len(messages[s]) + 1 /\ req[r].chat = s
            /\ req[r].pc = "persist" /\ k.pc \in Answering
  <2>1. r \in A /\ r \notin B
    BY <1>4, <1>16
  <2>2. A1 = A \ {r} /\ (B1 = B \cup {r} \/ B1 = B \ {r})
    BY <1>5, <1>6, <1>10, <1>11, <1>16 DEF Answering
  <2>3. Cardinality(A1) = Cardinality(A) - 1
    BY <1>8, <2>1, <2>2
  <2>4. Cardinality(B1) = Cardinality(B) + 1 \/ Cardinality(B1) = Cardinality(B)
    BY <1>8, <2>1, <2>2
  <2>5. PICK a \in Nat, b \in Nat :
          /\ a = 2 * Cardinality(A) + Cardinality(B) /\ b = 2 * Cardinality(A1) + Cardinality(B1)
          /\ b + 1 <= a
    <3>1. Cardinality(A) \in Nat /\ Cardinality(B) \in Nat /\ Cardinality(A) - 1 \in Nat
      BY <1>8, <2>1
    <3>. QED
      BY <2>3, <2>4, <3>1
  <2>. QED
    <3>1. Len(messages'[s]) <= Len(messages[s]) + 1 /\ Len(messages[s]) \in Nat /\ Len(messages'[s]) \in Nat
      BY <1>0, <1>16
    <3>2. PICK m \in Int : m = SessionLimit - 1 + 2 * Cardinality(Requests)
      BY <1>0, <1>8
    <3>3. \A x, y, v, w \in Nat : y <= x + 1 /\ w + 1 <= v /\ x + v <= m => y + w <= m
      BY <3>2
    <3>. QED
      BY <1>9, <2>5, <3>1, <3>2, <3>3
<1>17. CASE /\ Len(messages'[s]) <= Len(messages[s]) + 1 /\ req[r].chat = s
            /\ req[r].pc \in Answering /\ k.pc \notin {"persist"} \cup Answering
  <2>1. r \in B /\ r \notin A
    BY <1>4, <1>17
  <2>2. A1 = A \ {r} /\ B1 = B \ {r}
    BY <1>5, <1>6, <1>10, <1>11, <1>17
  <2>3. Cardinality(A1) = Cardinality(A) /\ Cardinality(B1) = Cardinality(B) - 1
    BY <1>8, <2>1, <2>2
  <2>. QED
    BY <1>0, <1>8, <1>9, <1>17, <2>3
<1>. QED
  BY <1>13, <1>14, <1>15, <1>16, <1>17 DEF RoomStep

\* What an action of a request has to show: the request stays fine, its chat has room.
LEMMA ChatStep ==
    ASSUME ChatConstants, ChatInv, NEW r \in Requests, NEW k \in ChatRequest, Becomes(r, k), Fine(k),
           (ChatTypes /\ Empty)', \A s \in Chats : RoomStep(r, k, s)
    PROVE  ChatInv'
<1>1. \A q \in Requests : Fine(req'[q])
  BY DEF ChatInv, ChatTypes, Becomes
<1>2. Room'
  <2>. SUFFICES ASSUME NEW s \in Chats
                PROVE  Len(messages'[s]) + ToCome(s)' <= SessionLimit - 1 + 2 * Cardinality(Requests)
    BY DEF Room
  <2>. QED
    BY RoomKept DEF ChatInv, ChatTypes
<1>. QED
  BY <1>1, <1>2 DEF ChatInv, Fine

\* The same for an action that stores no message and goes on within, or leaves, its part.
LEMMA QuietStep ==
    ASSUME ChatConstants, ChatInv, NEW r \in Requests, NEW k \in ChatRequest, Becomes(r, k), Fine(k),
           window' \in [count : 0..(RateLimit + 1), expires : BOOLEAN], faults' \in 0..MaxFaults,
           UNCHANGED <<exists, deleted, messages>>,
           \/ k.pc \notin {"persist"} \cup Answering
           \/ req[r].chat = k.chat /\ req[r].pc \in Answering /\ k.pc \in Answering
    PROVE  ChatInv'
<1>1. (ChatTypes /\ Empty)'
  BY DEF ChatInv, ChatTypes, Empty, Becomes
<1>2. \A s \in Chats : Len(messages'[s]) \in Nat /\ Len(messages'[s]) <= Len(messages[s])
  BY DEF ChatInv, ChatTypes
<1>3. \A s \in Chats : RoomStep(r, k, s)
  BY <1>2 DEF RoomStep
<1>. QED
  BY <1>1, <1>3, ChatStep

\* The operators of the chats are those of FiniteSets.
LEMMA ChatCardinality == \A S : Chat!Cardinality(S) = Cardinality(S)
BY Zenon DEF Chat!Cardinality, Cardinality

\* Nothing is there at first.
LEMMA ChatInit == ASSUME ChatConstants, Chat!Init PROVE ChatInv
<1>1. req \in [Requests -> ChatRequest] /\ \A r \in Requests : req[r].pc = "idle" /\ req[r].calls = 0
  BY DEF Chat!Init, Chat!Idle, Chat!NoChat, ChatRequest, Early, ChatConstants
<1>2. ChatTypes /\ Empty
  BY <1>1 DEF Chat!Init, ChatTypes, Empty, ChatConstants
<1>3. \A r \in Requests : Fine(req[r])
  BY <1>1 DEF Fine, Answering, Early, ChatConstants
<1>4. Room
  <2>. SUFFICES ASSUME NEW s \in Chats
                PROVE  Len(messages[s]) + ToCome(s) <= SessionLimit - 1 + 2 * Cardinality(Requests)
    BY DEF Room
  <2>1. Asks(s) = {} /\ Answers(s) = {}
    BY <1>1 DEF Asks, Answers, Answering
  <2>2. ToCome(s) = 0
    BY <2>1, FS_EmptySet DEF ToCome
  <2>3. Len(messages[s]) = 0
    BY DEF Chat!Init
  <2>. QED
    BY <2>2, <2>3, FS_CardinalityType DEF ChatConstants
<1>. QED
  BY <1>2, <1>3, <1>4 DEF ChatInv

\* A request stores one message in its chat, which is there.
StoresOne(r) ==
    /\ messages' \in [Chats -> Seq(Message)]
    /\ \A s \in Chats : Len(messages[s]) \in Nat
    /\ Len(messages'[req[r].chat]) = Len(messages[req[r].chat]) + 1
    /\ \A s \in Chats : s # req[r].chat => messages'[s] = messages[s]

\* What Stored does.
LEMMA StoredMessage ==
    ASSUME ChatTypes, NEW r \in Requests, req[r].chat \in Chats,
           NEW by \in {"user", "assistant"}, Chat!Stored(r, by)
    PROVE  StoresOne(r)
<1>1. PICK m : m = [role |-> by, of |-> r]
  OBVIOUS
<1>2. m \in Message
  BY <1>1 DEF Message
<1>3. messages \in [Chats -> Seq(Message)]
  BY DEF ChatTypes
<1>4. messages' = [messages EXCEPT ![req[r].chat] = Append(messages[req[r].chat], m)]
  BY <1>1, <1>3 DEF Chat!Stored
<1>5. PICK c \in Chats : c = req[r].chat
  OBVIOUS
<1>6. messages[c] \in Seq(Message)
  BY <1>3
<1>7. PICK q : q = Append(messages[c], m)
  OBVIOUS
<1>8. q \in Seq(Message) /\ Len(q) = Len(messages[c]) + 1
  BY <1>2, <1>6, <1>7
<1>9. messages' = [messages EXCEPT ![c] = q]
  BY <1>4, <1>5, <1>7
<1>. QED
  BY <1>3, <1>5, <1>8, <1>9 DEF StoresOne

\* Each action of a request.
LEMMA ChatRequests ==
    ASSUME ChatConstants, ChatInv, NEW r \in Requests,
           \/ Chat!Count(r) \/ Chat!SetExpiry(r) \/ Chat!RedisFails(r) \/ Chat!CheckRate(r)
           \/ Chat!OpenChat(r) \/ Chat!CheckLength(r)
           \/ Chat!PersistQuestion(r) \/ Chat!LoadHistory(r)
           \/ \E n \in 0..Parallel : Chat!Complete(r, n)
           \/ Chat!RunTools(r) \/ Chat!ModelFails(r) \/ Chat!PersistAnswer(r)
           \/ Chat!Disconnect(r) \/ Chat!Again(r)
    PROVE  ChatInv'
<1>. USE DEF Chat!At, Chat!Fault, Chat!chats
<1>0. /\ req \in [Requests -> ChatRequest] /\ req[r] \in ChatRequest /\ Fine(req[r])
      /\ window \in [count : 0..(RateLimit + 1), expires : BOOLEAN]
      /\ faults \in 0..MaxFaults /\ RateLimit \in Nat
      /\ CallLimit \in Nat \ {0} /\ Parallel \in Nat
  BY DEF ChatInv, ChatTypes, ChatConstants
<1>a. /\ req[r].pc \in Early \cup Answering \cup {"done", "broken", "refused"}
      /\ req[r].chat \in Chats \cup {0} /\ req[r].count \in Nat /\ req[r].calls \in Nat
      /\ req[r].history \in Seq(Message)
  BY <1>0 DEF ChatRequest
<1>b. ASSUME NEW at \in Early \cup Answering \cup {"done", "broken", "refused"}, Chat!Go(r, at),
             UNCHANGED <<exists, deleted, messages>>, faults' \in 0..MaxFaults,
             window' \in [count : 0..(RateLimit + 1), expires : BOOLEAN],
             at = "length" => req[r].chat \in Chats,
             at = "model" => req[r].calls <= CallLimit - 1,
             at \in Early => req[r].calls = 0,
             \/ at \notin {"persist"} \cup Answering
             \/ req[r].pc \in Answering /\ at \in Answering
      PROVE  ChatInv'
  <2>1. PICK k : k = [req[r] EXCEPT !.pc = at]
    OBVIOUS
  <2>2. Becomes(r, k)
    BY <1>0, <1>b, <2>1 DEF Becomes, Chat!Go
  <2>3. /\ k \in ChatRequest /\ k.pc = at /\ k.chat = req[r].chat /\ k.calls = req[r].calls
    BY <1>0, <1>a, <2>1 DEF ChatRequest
  <2>4. Fine(k)
    BY <1>0, <1>b, <2>3 DEF Fine, Answering
  <2>. QED
    BY <1>b, <2>2, <2>3, <2>4, QuietStep
<1>1. CASE Chat!Count(r)
  <2>1. PICK k : k = [req[r] EXCEPT !.pc = IF window.count = 0 THEN "expire" ELSE "limit",
                                    !.count = window.count + 1]
    OBVIOUS
  <2>2. Becomes(r, k)
    BY <1>0, <1>1, <2>1 DEF Becomes, Chat!Count
  <2>3. window.count \in 0..RateLimit /\ window.expires \in BOOLEAN
    BY <1>0, <1>1 DEF Chat!Count
  <2>4. /\ k.pc \in {"expire", "limit"} /\ k.chat = req[r].chat /\ k.calls = req[r].calls
        /\ k \in ChatRequest
    <3>1. window.count + 1 \in Nat
      BY <1>0, <2>3
    <3>2. PICK n : n = window.count + 1
      OBVIOUS
    <3>3. PICK p \in {"expire", "limit"} : p = IF window.count = 0 THEN "expire" ELSE "limit"
      OBVIOUS
    <3>4. k = [req[r] EXCEPT !.pc = p, !.count = n]
      BY <2>1, <3>2, <3>3
    <3>. QED
      BY <1>0, <1>a, <3>1, <3>2, <3>4 DEF ChatRequest, Early
  <2>5. req[r].calls = 0
    BY <1>0, <1>1 DEF Fine, Chat!Count, Early
  <2>6. Fine(k)
    BY <1>0, <2>4, <2>5 DEF Fine, Answering
  <2>7. window' \in [count : 0..(RateLimit + 1), expires : BOOLEAN]
    BY <1>0, <1>1, <2>3 DEF Chat!Count
  <2>8. k.pc \notin {"persist"} \cup Answering
    BY <2>4 DEF Answering
  <2>. QED
    BY <1>0, <1>1, <2>2, <2>4, <2>6, <2>7, <2>8, QuietStep DEF Chat!Count
<1>2. CASE Chat!SetExpiry(r)
  <2>1. window' \in [count : 0..(RateLimit + 1), expires : BOOLEAN]
    <3>1. PICK w : w = [window EXCEPT !.expires = window.count > 0]
      OBVIOUS
    <3>2. CASE window.count > 0
      <4>1. w = [window EXCEPT !.expires = TRUE]
        BY <3>1, <3>2, Zenon
      <4>. QED
        BY <1>0, <1>2, <3>1, <4>1 DEF Chat!SetExpiry
    <3>3. CASE ~ (window.count > 0)
      <4>1. w = [window EXCEPT !.expires = FALSE]
        <5>1. (window.count > 0) = FALSE
          BY <3>3
        <5>. QED
          BY <3>1, <5>1, Zenon
      <4>. QED
        BY <1>0, <1>2, <3>1, <4>1 DEF Chat!SetExpiry
    <3>. QED
      BY <3>2, <3>3
  <2>2. req[r].calls = 0
    BY <1>0, <1>2 DEF Fine, Chat!SetExpiry, Early
  <2>. QED
    BY <1>0, <1>2, <1>b, <2>1, <2>2 DEF Chat!SetExpiry, Early, Answering
<1>3. CASE Chat!RedisFails(r)
  <2>1. req[r].calls = 0
    BY <1>0, <1>3 DEF Fine, Chat!RedisFails, Early
  <2>2. faults' \in 0..MaxFaults
    BY <1>0, <1>3 DEF Chat!RedisFails, ChatConstants
  <2>. QED
    BY <1>0, <1>3, <1>b, <2>1, <2>2 DEF Chat!RedisFails, Early, Answering
<1>4. CASE Chat!CheckRate(r)
  <2>1. req[r].calls = 0
    BY <1>0, <1>4 DEF Fine, Chat!CheckRate, Early
  <2>. QED
    BY <1>0, <1>4, <1>b, <2>1 DEF Chat!CheckRate, Early, Answering
<1>5. CASE Chat!OpenChat(r)
  <2>1. PICK s \in Chats :
          /\ req' = [req EXCEPT ![r].chat = s,
                                ![r].pc = IF s \in exists THEN "length"
                                          ELSE IF s \in deleted THEN "refused" ELSE "persist"]
          /\ exists' = exists \cup ({s} \ deleted)
    BY <1>5 DEF Chat!OpenChat
  <2>2. PICK k : k = [req[r] EXCEPT !.chat = s,
                                    !.pc = IF s \in exists THEN "length"
                                           ELSE IF s \in deleted THEN "refused" ELSE "persist"]
    OBVIOUS
  <2>3. Becomes(r, k)
    BY <1>0, <2>1, <2>2 DEF Becomes
  <2>4. /\ k.chat = s /\ k.calls = req[r].calls /\ k \in ChatRequest
        /\ k.pc = IF s \in exists THEN "length" ELSE IF s \in deleted THEN "refused" ELSE "persist"
    BY <1>0, <1>a, <2>2 DEF ChatRequest, Early
  <2>5. req[r].pc = "open" /\ req[r].calls = 0
    BY <1>0, <1>5 DEF Fine, Chat!OpenChat, Early
  <2>6. Fine(k)
    BY <1>0, <2>4, <2>5 DEF Fine, Answering
  <2>7. (ChatTypes /\ Empty)'
    <3>1. UNCHANGED <<window, deleted, messages, faults>> /\ req' \in [Requests -> ChatRequest]
      BY <1>0, <1>5, <2>3, <2>4 DEF Becomes, Chat!OpenChat
    <3>. QED
      BY <2>1, <3>1 DEF ChatInv, ChatTypes, Empty
  <2>8. messages' = messages /\ \A t \in Chats : Len(messages[t]) \in Nat
    <3>1. messages' = messages
      BY <1>5 DEF Chat!OpenChat
    <3>. QED
      BY <3>1 DEF ChatInv, ChatTypes
  <2>9. \A t \in Chats : RoomStep(r, k, t)
    <3>. TAKE t \in Chats
    <3>1. CASE t = s /\ k.pc = "persist"
      <4>1. messages[s] = <<>>
        BY <2>4, <3>1 DEF ChatInv, Empty
      <4>. QED
        BY <2>8, <3>1, <4>1 DEF RoomStep, ChatConstants
    <3>2. CASE ~ (t = s /\ k.pc = "persist")
      BY <2>4, <2>8, <3>2 DEF RoomStep, Answering
    <3>. QED
      BY <3>1, <3>2
  <2>. QED
    BY <2>3, <2>4, <2>6, <2>7, <2>9, ChatStep
<1>6. CASE Chat!CheckLength(r)
  <2>1. req[r].pc = "length" /\ req[r].chat \in Chats /\ req[r].calls = 0
    BY <1>0, <1>6 DEF Fine, Chat!CheckLength, Early
  <2>2. CASE Len(messages[req[r].chat]) >= SessionLimit
    BY <1>0, <1>6, <1>b, <2>1, <2>2 DEF Chat!CheckLength, Chat!Full, Early, Answering
  <2>3. CASE ~ (Len(messages[req[r].chat]) >= SessionLimit)
    <3>1. PICK k : k = [req[r] EXCEPT !.pc = "persist"]
      OBVIOUS
    <3>2. Becomes(r, k)
      BY <1>0, <1>6, <2>3, <3>1 DEF Becomes, Chat!CheckLength, Chat!Full, Chat!Go
    <3>3. /\ k \in ChatRequest /\ k.pc = "persist" /\ k.chat = req[r].chat /\ k.calls = req[r].calls
      BY <1>0, <1>a, <3>1 DEF ChatRequest, Early
    <3>4. Fine(k)
      BY <1>0, <2>1, <3>3 DEF Fine, Answering
    <3>5. (ChatTypes /\ Empty)'
      BY <1>6, <3>2, <3>3 DEF ChatInv, ChatTypes, Empty, Becomes, Chat!CheckLength
    <3>6. messages' = messages /\ \A t \in Chats : Len(messages[t]) \in Nat
      BY <1>6 DEF ChatInv, ChatTypes, Chat!CheckLength
    <3>7. Len(messages[req[r].chat]) <= SessionLimit - 1
      BY <2>1, <2>3, <3>6 DEF ChatConstants
    <3>8. \A t \in Chats : RoomStep(r, k, t)
      BY <3>3, <3>6, <3>7 DEF RoomStep
    <3>. QED
      BY <3>2, <3>3, <3>4, <3>5, <3>8, ChatStep
  <2>. QED
    BY <2>2, <2>3
<1>7. CASE Chat!PersistQuestion(r)
  <2>1. req[r].pc = "persist" /\ req[r].chat \in Chats /\ req[r].calls = 0
    BY <1>0, <1>7 DEF Fine, Chat!PersistQuestion, Early
  <2>2. CASE req[r].chat \notin exists
    BY <1>0, <1>7, <1>b, <2>1, <2>2 DEF Chat!PersistQuestion, Early, Answering
  <2>3. CASE req[r].chat \in exists
    <3>1. PICK k : k = [req[r] EXCEPT !.pc = "load"]
      OBVIOUS
    <3>2. Becomes(r, k)
      BY <1>0, <1>7, <2>3, <3>1 DEF Becomes, Chat!PersistQuestion, Chat!Go
    <3>3. /\ k \in ChatRequest /\ k.pc = "load" /\ k.chat = req[r].chat /\ k.calls = req[r].calls
      BY <1>0, <1>a, <3>1 DEF ChatRequest, Early
    <3>4. Fine(k)
      BY <1>0, <2>1, <3>3 DEF Fine, Answering
    <3>5. Chat!Stored(r, "user") /\ UNCHANGED <<window, exists, deleted, faults>>
      BY <1>7, <2>3 DEF Chat!PersistQuestion
    <3>6. StoresOne(r)
      BY <2>1, <2>3, <3>5, StoredMessage DEF ChatInv
    <3>7. (ChatTypes /\ Empty)'
      BY <1>0, <2>3, <3>2, <3>3, <3>5, <3>6 DEF ChatInv, ChatTypes, Empty, Becomes, StoresOne
    <3>8. \A t \in Chats : RoomStep(r, k, t)
      <4>. TAKE t \in Chats
      <4>1. CASE t = req[r].chat
        <5>1. Len(messages'[t]) <= Len(messages[t]) + 1
          BY <3>6, <4>1 DEF StoresOne
        <5>. QED
          BY <2>1, <3>3, <4>1, <5>1 DEF RoomStep, Answering
      <4>2. CASE t # req[r].chat
        <5>1. Len(messages'[t]) <= Len(messages[t])
          BY <3>6, <4>2 DEF StoresOne
        <5>. QED
          BY <3>3, <4>2, <5>1 DEF RoomStep
      <4>. QED
        BY <4>1, <4>2
    <3>. QED
      BY <3>2, <3>3, <3>4, <3>7, <3>8, ChatStep
  <2>. QED
    BY <2>2, <2>3
<1>8. CASE Chat!LoadHistory(r)
  <2>1. req[r].pc = "load" /\ req[r].chat \in Chats /\ req[r].calls = 0
    BY <1>0, <1>8 DEF Fine, Chat!LoadHistory, Early, Answering
  <2>2. PICK h : h = SubSeq(messages[req[r].chat], 1, Len(messages[req[r].chat]) - 1)
    OBVIOUS
  <2>3. h \in Seq(Message)
    <3>1. messages[req[r].chat] \in Seq(Message)
      BY <2>1 DEF ChatInv, ChatTypes
    <3>2. \A m \in Seq(Message) : SubSeq(m, 1, Len(m) - 1) \in Seq(Message)
      <4>. TAKE m \in Seq(Message)
      <4>1. \A i \in 1..(Len(m) - 1) : m[i] \in Message
        OBVIOUS
      <4>. QED
        BY <4>1
    <3>. QED
      BY <2>2, <3>1, <3>2
  <2>4. PICK k : k = [req[r] EXCEPT !.pc = "model", !.history = h]
    OBVIOUS
  <2>5. Becomes(r, k)
    BY <1>0, <1>8, <2>2, <2>4 DEF Becomes, Chat!LoadHistory, Chat!ChatMessages
  <2>6. k \in ChatRequest /\ k.pc = "model" /\ k.chat = req[r].chat /\ k.calls = req[r].calls
    BY <1>0, <1>a, <2>3, <2>4 DEF ChatRequest, Answering
  <2>7. Fine(k)
    BY <1>0, <2>1, <2>6 DEF Fine, Answering, Early
  <2>. QED
    BY <1>0, <1>8, <2>1, <2>5, <2>6, <2>7, QuietStep DEF Chat!LoadHistory, Answering
<1>9. CASE \E n \in 0..Parallel : Chat!Complete(r, n)
  <2>1. PICK n \in 0..Parallel : Chat!Complete(r, n)
    BY <1>9
  <2>2. req[r].pc = "model" /\ req[r].chat \in Chats /\ req[r].calls <= CallLimit - 1
    BY <1>0, <2>1 DEF Fine, Chat!Complete, Answering
  <2>3. CASE n = 0
    BY <1>0, <1>b, <2>1, <2>2, <2>3 DEF Chat!Complete, Early, Answering
  <2>4. CASE n # 0
    <3>1. PICK c : c = req[r].calls + n
      OBVIOUS
    <3>2. c \in Nat /\ c <= CallLimit - 1 + Parallel
      BY <1>0, <1>a, <2>2, <3>1
    <3>3. PICK k : k = [req[r] EXCEPT !.pc = "tools", !.calls = c]
      OBVIOUS
    <3>4. Becomes(r, k)
      BY <1>0, <2>1, <2>4, <3>1, <3>3 DEF Becomes, Chat!Complete
    <3>5. k \in ChatRequest /\ k.pc = "tools" /\ k.chat = req[r].chat /\ k.calls = c
      BY <1>0, <1>a, <3>2, <3>3 DEF ChatRequest, Answering
    <3>6. Fine(k)
      BY <2>2, <3>2, <3>5 DEF Fine, Answering, Early
    <3>. QED
      BY <1>0, <2>1, <2>2, <3>4, <3>5, <3>6, QuietStep DEF Chat!Complete, Answering
  <2>. QED
    BY <2>3, <2>4
<1>10. CASE Chat!RunTools(r)
  <2>1. req[r].pc = "tools" /\ req[r].chat \in Chats
    BY <1>0, <1>10 DEF Fine, Chat!RunTools, Answering
  <2>2. CASE req[r].calls >= CallLimit
    BY <1>0, <1>10, <1>b, <2>1, <2>2 DEF Chat!RunTools, Chat!EnoughCalls, Early, Answering
  <2>3. CASE ~ (req[r].calls >= CallLimit)
    <3>1. req[r].calls <= CallLimit - 1
      BY <1>0, <1>a, <2>3
    <3>. QED
      BY <1>0, <1>10, <1>b, <2>1, <2>3, <3>1 DEF Chat!RunTools, Chat!EnoughCalls, Early, Answering
  <2>. QED
    BY <2>2, <2>3
<1>11. CASE Chat!ModelFails(r)
  <2>1. faults' \in 0..MaxFaults
    BY <1>0, <1>11 DEF Chat!ModelFails, ChatConstants
  <2>. QED
    BY <1>0, <1>11, <1>b, <2>1 DEF Chat!ModelFails, Early, Answering
<1>12. CASE Chat!PersistAnswer(r)
  <2>1. req[r].pc = "answer" /\ req[r].chat \in Chats
    BY <1>0, <1>12 DEF Fine, Chat!PersistAnswer, Answering
  <2>2. CASE req[r].chat \notin exists
    BY <1>0, <1>12, <1>b, <2>1, <2>2 DEF Chat!PersistAnswer, Early, Answering
  <2>3. CASE req[r].chat \in exists
    <3>1. PICK k : k = [req[r] EXCEPT !.pc = "done"]
      OBVIOUS
    <3>2. Becomes(r, k)
      BY <1>0, <1>12, <2>3, <3>1 DEF Becomes, Chat!PersistAnswer, Chat!Go
    <3>3. /\ k \in ChatRequest /\ k.pc = "done" /\ k.chat = req[r].chat /\ k.calls = req[r].calls
      BY <1>0, <1>a, <3>1 DEF ChatRequest, Early
    <3>4. Fine(k)
      BY <1>0, <2>1, <3>3 DEF Fine, Answering, Early
    <3>5. Chat!Stored(r, "assistant") /\ UNCHANGED <<window, exists, deleted, faults>>
      BY <1>12, <2>3 DEF Chat!PersistAnswer
    <3>6. StoresOne(r)
      BY <2>1, <2>3, <3>5, StoredMessage DEF ChatInv
    <3>7. (ChatTypes /\ Empty)'
      BY <1>0, <2>3, <3>2, <3>3, <3>5, <3>6 DEF ChatInv, ChatTypes, Empty, Becomes, StoresOne
    <3>8. \A t \in Chats : RoomStep(r, k, t)
      <4>. TAKE t \in Chats
      <4>1. CASE t = req[r].chat
        <5>1. Len(messages'[t]) <= Len(messages[t]) + 1
          BY <3>6, <4>1 DEF StoresOne
        <5>. QED
          BY <2>1, <3>3, <4>1, <5>1 DEF RoomStep, Answering
      <4>2. CASE t # req[r].chat
        <5>1. Len(messages'[t]) <= Len(messages[t])
          BY <3>6, <4>2 DEF StoresOne
        <5>. QED
          BY <3>3, <4>2, <5>1 DEF RoomStep
      <4>. QED
        BY <4>1, <4>2
    <3>. QED
      BY <3>2, <3>3, <3>4, <3>7, <3>8, ChatStep
  <2>. QED
    BY <2>2, <2>3
<1>13. CASE Chat!Disconnect(r)
  <2>1. faults' \in 0..MaxFaults
    BY <1>0, <1>13 DEF Chat!Disconnect, ChatConstants
  <2>. QED
    BY <1>0, <1>13, <1>b, <2>1 DEF Chat!Disconnect, Early, Answering
<1>14. CASE Chat!Again(r)
  <2>1. PICK k : k = Chat!Idle
    OBVIOUS
  <2>2. /\ k \in ChatRequest /\ k.pc = "idle" /\ k.calls = 0
    BY <2>1 DEF Chat!Idle, Chat!NoChat, ChatRequest, Early
  <2>3. Becomes(r, k)
    BY <1>14, <2>1 DEF Chat!Again, Becomes
  <2>4. Fine(k)
    BY <1>0, <2>2 DEF Fine, Answering, Early
  <2>. QED
    BY <1>0, <1>14, <2>2, <2>3, <2>4, QuietStep DEF Chat!Again, Answering
<1>. QED
  BY <1>1, <1>2, <1>3, <1>4, <1>5, <1>6, <1>7, <1>8, <1>9, <1>10, <1>11, <1>12, <1>13, <1>14

\* The window that ends, and a chat that is deleted.
LEMMA ChatOthers ==
    ASSUME ChatConstants, ChatInv, Chat!WindowEnds \/ \E s \in Chats : Chat!DeleteChat(s)
    PROVE  ChatInv'
<1>0. RateLimit \in Nat /\ SessionLimit \in Nat /\ Cardinality(Requests) \in Nat
  BY FS_CardinalityType DEF ChatConstants
<1>1. CASE Chat!WindowEnds
  <2>1. UNCHANGED <<exists, deleted, messages, req, faults>>
    BY <1>1 DEF Chat!WindowEnds, Chat!chats
  <2>2. window' \in [count : 0..(RateLimit + 1), expires : BOOLEAN]
    BY <1>0, <1>1 DEF Chat!WindowEnds
  <2>. QED
    BY <2>1, <2>2 DEF ChatInv, ChatTypes, Empty, Fine, Room, ToCome, Asks, Answers
<1>2. CASE \E s \in Chats : Chat!DeleteChat(s)
  <2>1. PICK s \in Chats : Chat!DeleteChat(s)
    BY <1>2
  <2>2. /\ UNCHANGED <<window, req, faults>> /\ s \in exists
        /\ exists' = exists \ {s} /\ deleted' = deleted \cup {s}
        /\ messages' = [messages EXCEPT ![s] = <<>>]
    BY <2>1 DEF Chat!DeleteChat
  <2>3. messages' \in [Chats -> Seq(Message)] /\ messages'[s] = <<>>
    BY <2>2 DEF ChatInv, ChatTypes
  <2>4. ChatTypes'
    BY <2>2, <2>3 DEF ChatInv, ChatTypes
  <2>5. Empty'
    BY <2>2, <2>3 DEF ChatInv, ChatTypes, Empty
  <2>6. \A r \in Requests : Fine(req'[r])
    BY <2>2 DEF ChatInv
  <2>7. \A t \in Chats : ToCome(t)' = ToCome(t) /\ ToCome(t) \in Nat
    <3>. TAKE t \in Chats
    <3>1. Asks(t)' = Asks(t) /\ Answers(t)' = Answers(t)
      BY <2>2 DEF Asks, Answers
    <3>2. IsFiniteSet(Asks(t)) /\ IsFiniteSet(Answers(t))
      BY FS_Subset DEF Asks, Answers, ChatConstants
    <3>3. Cardinality(Asks(t)) \in Nat /\ Cardinality(Answers(t)) \in Nat
      BY <3>2, FS_CardinalityType
    <3>4. ToCome(t)' = ToCome(t)
      BY <3>1, Zenon DEF ToCome
    <3>. QED
      BY <3>3, <3>4 DEF ToCome
  <2>8. \A t \in Chats : Len(messages'[t]) \in Nat /\ Len(messages'[t]) <= Len(messages[t])
    <3>. TAKE t \in Chats
    <3>1. Len(messages[t]) \in Nat /\ Len(messages'[t]) \in Nat
      BY <2>3 DEF ChatInv, ChatTypes
    <3>2. t # s => messages'[t] = messages[t]
      BY <2>2 DEF ChatInv, ChatTypes
    <3>3. Len(<<>>) = 0
      OBVIOUS
    <3>. QED
      BY <2>3, <3>1, <3>2, <3>3
  <2>9. Room'
    <3>. SUFFICES ASSUME NEW t \in Chats
                  PROVE  Len(messages'[t]) + ToCome(t)' <= SessionLimit - 1 + 2 * Cardinality(Requests)
      BY DEF Room
    <3>1. Len(messages[t]) + ToCome(t) <= SessionLimit - 1 + 2 * Cardinality(Requests)
      BY DEF ChatInv, Room
    <3>2. Len(messages[t]) \in Nat
      BY DEF ChatInv, ChatTypes
    <3>. QED
      BY <1>0, <2>7, <2>8, <3>1, <3>2
  <2>. QED
    BY <2>4, <2>5, <2>6, <2>9 DEF ChatInv, Fine
<1>. QED
  BY <1>1, <1>2

\* The invariant is what the services promise.
LEMMA ChatInvSuffices == ASSUME ChatConstants, ChatInv PROVE Chat!TypeOK /\ Chat!LimitsHold
<1>1. Chat!TypeOK
  <2>1. window.count \in 0..(RateLimit + 1) /\ window.expires \in BOOLEAN
    BY DEF ChatInv, ChatTypes
  <2>2. \A s \in Chats : \A i \in 1..Len(messages[s]) : messages[s][i].of \in Requests
    <3>. TAKE s \in Chats
    <3>. TAKE i \in 1..Len(messages[s])
    <3>1. messages[s] \in Seq(Message)
      BY DEF ChatInv, ChatTypes
    <3>2. messages[s][i] \in Message
      BY <3>1
    <3>. QED
      BY <3>2 DEF Message
  <2>3. \A r \in Requests : req[r].chat \in Chats \cup {0}
    BY DEF ChatInv, ChatTypes, ChatRequest
  <2>. QED
    BY <2>1, <2>2, <2>3 DEF ChatInv, ChatTypes, Chat!TypeOK, Chat!NoChat
<1>2. \A s \in Chats : Len(messages[s]) <= SessionLimit - 1 + 2 * Cardinality(Requests)
  <2>. TAKE s \in Chats
  <2>1. Len(messages[s]) + ToCome(s) <= SessionLimit - 1 + 2 * Cardinality(Requests)
    BY DEF ChatInv, Room
  <2>2. IsFiniteSet(Asks(s)) /\ IsFiniteSet(Answers(s))
    BY FS_Subset DEF Asks, Answers, ChatConstants
  <2>3. Cardinality(Asks(s)) \in Nat /\ Cardinality(Answers(s)) \in Nat /\ Cardinality(Requests) \in Nat
    BY <2>2, FS_CardinalityType DEF ChatConstants
  <2>4. ToCome(s) \in Nat
    BY <2>3 DEF ToCome
  <2>5. Len(messages[s]) \in Nat /\ SessionLimit \in Nat
    BY DEF ChatInv, ChatTypes, ChatConstants
  <2>. QED
    BY <2>1, <2>3, <2>4, <2>5
<1>3. \A r \in Requests : req[r].calls <= CallLimit - 1 + Parallel
  BY DEF ChatInv, Fine
<1>4. \A s \in deleted : messages[s] = <<>>
  BY DEF ChatInv, ChatTypes, Empty
<1>. QED
  BY <1>1, <1>2, <1>3, <1>4, ChatCardinality DEF Chat!LimitsHold

\* A session passes its limit by the two messages of each request at most, a turn its
\* own by the calls of one completion, and a deleted session keeps no message: the
\* checks before the stream of app/routers/kg_chat.py, and the count of tool calls in
\* app/agent/kg_chat.py.
THEOREM ChatLimitsCorrect ==
    ASSUME ChatConstants PROVE Chat!Spec => [](Chat!TypeOK /\ Chat!LimitsHold)
<1>1. Chat!Init => ChatInv
  BY ChatInit
<1>2. ChatInv /\ [Chat!Next]_(Chat!chatVars) => ChatInv'
  <2>. SUFFICES ASSUME ChatInv, [Chat!Next]_(Chat!chatVars) PROVE ChatInv'
    OBVIOUS
  <2>1. CASE UNCHANGED Chat!chatVars
    BY <2>1 DEF Chat!chatVars, ChatInv, ChatTypes, Empty, Fine, Room, ToCome, Asks, Answers
  <2>2. CASE Chat!WindowEnds \/ \E s \in Chats : Chat!DeleteChat(s)
    BY <2>2, ChatOthers
  <2>3. CASE Chat!Next /\ ~ (Chat!WindowEnds \/ \E s \in Chats : Chat!DeleteChat(s))
    <3>1. PICK r \in Requests :
            \/ Chat!Count(r) \/ Chat!SetExpiry(r) \/ Chat!RedisFails(r) \/ Chat!CheckRate(r)
            \/ Chat!OpenChat(r) \/ Chat!CheckLength(r)
            \/ Chat!PersistQuestion(r) \/ Chat!LoadHistory(r)
            \/ \E n \in 0..Parallel : Chat!Complete(r, n)
            \/ Chat!RunTools(r) \/ Chat!ModelFails(r) \/ Chat!PersistAnswer(r)
            \/ Chat!Disconnect(r) \/ Chat!Again(r)
      BY <2>3 DEF Chat!Next
    <3>. QED
      BY <3>1, ChatRequests
  <2>. QED
    BY <2>1, <2>2, <2>3
<1>3. ChatInv => Chat!TypeOK /\ Chat!LimitsHold
  BY ChatInvSuffices
<1>. QED
  BY <1>1, <1>2, <1>3, PTL DEF Chat!Spec

-----------------------------------------------------------------------------
(* Everybody a comment concerns is told of it once *)

\* Nobody is no user and no comment; the rows of two tables have different ids.
\* What a request holds, by where it is.
Tells == {"mentions", "reply", "list", "subscribers", "told"}
OwnReq == [pc : {"own"}, t : SharedWith]
MemberReq == [pc : {"invite", "target", "change", "remove"}, t : SharedWith, v : Users,
                  act : {"invite", "change", "remove"}, r : {"none", "member", "admin"}]
ShareReq == [pc : {"share", "visible", "members"}, s : Sessions, t : SharedWith]
SharedReq == [pc : {"shared"}, s : Sessions, left : SUBSET Users]
CommentReq == [pc : {"insert"} \cup Tells, s : Sessions, c : Comments,
                   mentions : SUBSET Users, parent : {NoOne} \cup Comments,
                   left : SUBSET Users, whole : BOOLEAN, subscribers : SUBSET Users]
AnyReq == [pc : {"idle"}] \cup OwnReq \cup MemberReq \cup ShareReq
              \cup SharedReq \cup CommentReq

TeamRow == [exists : BOOLEAN, creator : Users \cup {NoOne}]
SessionRow == [exists : BOOLEAN, owner : Users \cup {NoOne},
               visibility : {"private", "team", "public"}, public : BOOLEAN,
               teams : SUBSET SharedWith, subscribers : SUBSET Users, pins : SUBSET (Users \X SharedWith)]
CommentRow == [exists : BOOLEAN, session : Sessions \cup {NoOne}, author : Users \cup {NoOne},
               parent : Comments \cup {NoOne},
               suggestion : {"no", "pending", "accepted", "rejected"}, reactions : SUBSET Users]

\* SharedWith, members and sessions; a session is shared with teams that exist.
Tables ==
    /\ team \in [SharedWith -> TeamRow]
    /\ role \in [SharedWith -> [Users -> Collab!Roles]]
    /\ session \in [Sessions -> SessionRow]
    /\ \A s \in Sessions : \A t \in session[s].teams : session[s].exists /\ team[t].exists
    /\ requests \in 0..MaxRequests /\ faults \in 0..MaxFaults

\* A comment that exists has its session, and what it replies to; one that has no
\* author was never written.
CommentRows ==
    /\ comment \in [Comments -> CommentRow]
    /\ \A c \in Comments :
         /\ comment[c].author = NoOne => comment[c] = Collab!NoComment
         /\ comment[c].exists =>
              /\ comment[c].session \in Sessions /\ session[comment[c].session].exists
              /\ comment[c].parent # NoOne => comment[comment[c].parent].exists

\* The notes there should be of the comment of u so far.
Note(v, kind, c) == [to |-> v, kind |-> kind, about |-> c]
NotesTo(S, kind, c) == {Note(v, kind, c) : v \in S}
Mentions(u) ==
    NotesTo((req[u].mentions \ {u}) \ (IF req[u].pc = "mentions" THEN req[u].left ELSE {}),
            "mention", req[u].c)
Reply(u) ==
    IF /\ req[u].pc \in {"list", "subscribers", "told"}
       /\ req[u].parent # NoOne /\ comment[req[u].parent].author # u
    THEN {Note(comment[req[u].parent].author, "reply", req[u].c)} ELSE {}
News(u) ==
    NotesTo((req[u].subscribers \ (req[u].mentions \cup {u}))
                \ (IF req[u].pc = "subscribers" THEN req[u].left ELSE {}),
            "new_comment", req[u].c)
Sent(u) == Mentions(u) \cup Reply(u) \cup News(u)
About(c) == {n \in DOMAIN notes : n.about = c}

\* Who tells of a comment has written it, and has told so far what he should.
TellsOf(u) ==
    /\ comment[req[u].c].author = u
    /\ comment[req[u].c].exists => comment[req[u].c].parent = req[u].parent
    /\ req[u].pc = "mentions" => req[u].left \subseteq req[u].mentions \ {u}
    /\ req[u].pc \in {"mentions", "reply", "list"} => req[u].subscribers = {}
    /\ req[u].pc = "subscribers" =>
         req[u].left \subseteq req[u].subscribers \ (req[u].mentions \cup {u})
    /\ req[u].whole /\ comment[req[u].c].exists =>
         About(req[u].c) = Sent(u) /\ \A n \in Sent(u) : notes[n] = 1

\* Nobody else inserts the comment that u is about to insert.
Inserts(u) ==
    /\ comment[req[u].c].author = NoOne /\ req[u].subscribers = {}
    /\ \A v \in Users : req[v].pc = "insert" /\ req[v].c = req[u].c => v = u

\* The notes are of sessions and of comments that were written.
NotesOk ==
    /\ Collab!IsABag(notes)
    /\ \A n \in DOMAIN notes :
         n.about \in Sessions \cup {c \in Comments : comment[c].author # NoOne}

CollabInv ==
    /\ Tables /\ CommentRows /\ NotesOk
    /\ req \in [Users -> AnyReq]
    /\ \A u \in Users : /\ req[u].pc = "insert" => Inserts(u)
                        /\ req[u].pc \in Tells => TellsOf(u)

\* A request is what its place says.
LEMMA ByPlace ==
    ASSUME NEW k \in AnyReq
    PROVE  /\ k.pc = "own" => k \in OwnReq
           /\ k.pc \in {"invite", "target", "change", "remove"} => k \in MemberReq
           /\ k.pc \in {"share", "visible", "members"} => k \in ShareReq
           /\ k.pc = "shared" => k \in SharedReq
           /\ k.pc \in {"insert"} \cup Tells => k \in CommentReq
BY DEF AnyReq, OwnReq, MemberReq, ShareReq, SharedReq, CommentReq, Tells

\* What a step that is not about a comment does with the request.
Quiet(u) ==
    /\ UNCHANGED <<comment, notes>>
    /\ \E k \in AnyReq : Becomes(u, k) /\ k.pc \notin {"insert"} \cup Tells

\* To begin a request, to end one, and to go on.
LEMMA Begins ==
    ASSUME CollabConstants, Tables, NEW u \in Users, NEW k, Collab!Begin(u, k)
    PROVE  Becomes(u, k) /\ requests' \in 0..MaxRequests
BY DEF Collab!Begin, Becomes, Tables, CollabConstants

LEMMA Ends ==
    ASSUME NEW u \in Users, Collab!Done(u)
    PROVE  \E k \in AnyReq : Becomes(u, k) /\ k.pc = "idle"
<1>1. PICK k : k = Collab!Idle
  OBVIOUS
<1>2. k \in AnyReq /\ k.pc = "idle"
  BY <1>1 DEF Collab!Idle, AnyReq
<1>3. Becomes(u, k)
  BY <1>1 DEF Collab!Done, Becomes
<1>. QED
  BY <1>2, <1>3

LEMMA GoesOn ==
    ASSUME req \in [Users -> AnyReq], NEW u \in Users, NEW at, Collab!Then(u, at),
           \/ req[u].pc = "target" /\ at \in {"invite", "change", "remove"}
           \/ req[u].pc \in {"share", "visible"} /\ at \in {"visible", "members"}
    PROVE  \E k \in AnyReq : Becomes(u, k) /\ k.pc = at /\ at \notin {"insert"} \cup Tells
<1>1. PICK k : k = [req[u] EXCEPT !.pc = at]
  OBVIOUS
<1>2. Becomes(u, k)
  BY <1>1 DEF Collab!Then, Becomes
<1>3. req[u] \in AnyReq
  OBVIOUS
<1>4. CASE req[u].pc = "target" /\ at \in {"invite", "change", "remove"}
  <2>1. req[u] \in MemberReq
    BY <1>3, <1>4, ByPlace
  <2>2. k \in MemberReq /\ k.pc = at
    BY <1>1, <1>4, <2>1 DEF MemberReq
  <2>. QED
    BY <1>2, <1>4, <2>2 DEF AnyReq, Tells
<1>5. CASE req[u].pc \in {"share", "visible"} /\ at \in {"visible", "members"}
  <2>1. req[u] \in ShareReq
    BY <1>3, <1>5, ByPlace
  <2>2. k \in ShareReq /\ k.pc = at
    BY <1>1, <1>5, <2>1 DEF ShareReq
  <2>. QED
    BY <1>2, <1>5, <2>2 DEF AnyReq, Tells
<1>. QED
  BY <1>4, <1>5

\* Requests about teams.
LEMMA TeamSteps ==
    ASSUME CollabConstants, CollabInv, NEW u \in Users, Collab!TeamRequest(u)
    PROVE  Tables' /\ Quiet(u) /\ \A s \in Sessions : session'[s].exists = session[s].exists
<1>0. Tables /\ req \in [Users -> AnyReq] /\ req[u] \in AnyReq
  BY DEF CollabInv
<1>. USE DEF Collab!At
<1>1. ASSUME NEW t \in SharedWith, Collab!CreateTeam(u, t)
      PROVE  Tables' /\ Quiet(u) /\ session' = session
  <2>1. PICK k : k = [pc |-> "own", t |-> t]
    OBVIOUS
  <2>2. k \in AnyReq /\ k.pc = "own"
    BY <2>1 DEF AnyReq, OwnReq
  <2>3. Becomes(u, k) /\ requests' \in 0..MaxRequests
    BY <1>0, <1>1, <2>1, Begins DEF Collab!CreateTeam
  <2>4. UNCHANGED <<role, session, comment, notes, faults>>
    BY <1>1 DEF Collab!CreateTeam
  <2>5. PICK row : row = [exists |-> TRUE, creator |-> u]
    OBVIOUS
  <2>6. row \in TeamRow /\ row.exists
    BY <2>5 DEF TeamRow
  <2>7. team' = [team EXCEPT ![t] = row]
    BY <1>1, <2>5 DEF Collab!CreateTeam
  <2>8. Tables'
    BY <1>0, <2>3, <2>4, <2>6, <2>7 DEF Tables
  <2>. QED
    BY <2>2, <2>3, <2>4, <2>8 DEF Quiet, Tells
<1>2. ASSUME NEW t \in SharedWith, Collab!DeleteTeam(u, t)
      PROVE  Tables' /\ Quiet(u) /\ \A s \in Sessions : session'[s].exists = session[s].exists
  <2>1. PICK k : k = Collab!Idle
    OBVIOUS
  <2>2. k \in AnyReq /\ k.pc = "idle"
    BY <2>1 DEF AnyReq, Collab!Idle
  <2>3. Becomes(u, k) /\ requests' \in 0..MaxRequests
    BY <1>0, <1>2, <2>1, Begins DEF Collab!DeleteTeam
  <2>4. UNCHANGED <<comment, notes, faults>>
    BY <1>2 DEF Collab!DeleteTeam
  <2>5. team' = [team EXCEPT ![t].exists = FALSE] /\ role' = [role EXCEPT ![t] = [v \in Users |-> "none"]]
    BY <1>2 DEF Collab!DeleteTeam
  <2>6. team' \in [SharedWith -> TeamRow] /\ \A w \in SharedWith \ {t} : team'[w] = team[w]
    <3>1. PICK row : row = [team[t] EXCEPT !.exists = FALSE]
      OBVIOUS
    <3>2. row \in TeamRow
      <4>1. team[t] \in TeamRow
        BY <1>0 DEF Tables
      <4>. QED
        BY <3>1, <4>1 DEF TeamRow
    <3>3. team' = [team EXCEPT ![t] = row]
      BY <1>0, <2>5, <3>1 DEF Tables
    <3>. QED
      BY <1>0, <3>2, <3>3 DEF Tables
  <2>7. role' \in [SharedWith -> [Users -> Collab!Roles]]
    BY <1>0, <2>5 DEF Tables, Collab!Roles
  <2>8. session' = [s \in Sessions |-> [session[s] EXCEPT
          !.teams = session[s].teams \ {t}, !.pins = {p \in session[s].pins : p[2] # t}]]
    BY <1>2 DEF Collab!DeleteTeam
  <2>9. \A s \in Sessions : /\ session'[s] \in SessionRow /\ session'[s].teams = session[s].teams \ {t}
                            /\ session'[s].exists = session[s].exists
    <3>. TAKE s \in Sessions
    <3>1. session[s] \in SessionRow
      BY <1>0 DEF Tables
    <3>2. session'[s] = [session[s] EXCEPT
          !.teams = session[s].teams \ {t}, !.pins = {p \in session[s].pins : p[2] # t}]
      BY <2>8
    <3>. QED
      BY <3>1, <3>2 DEF SessionRow
  <2>10. session' \in [Sessions -> SessionRow]
    BY <2>8, <2>9
  <2>11. \A s \in Sessions : \A w \in session'[s].teams : session'[s].exists /\ team'[w].exists
    BY <1>0, <2>6, <2>9 DEF Tables, SessionRow
  <2>12. Tables'
    BY <1>0, <2>3, <2>4, <2>6, <2>7, <2>10, <2>11 DEF Tables
  <2>. QED
    BY <2>2, <2>3, <2>4, <2>9, <2>12 DEF Quiet, Tells
<1>3. ASSUME NEW t \in SharedWith, NEW v \in Users, NEW act \in {"remove", "invite", "change"},
             NEW r \in {"none", "member", "admin"}, Collab!AskMember(u, t, v, act, r)
      PROVE  Tables' /\ Quiet(u) /\ session' = session
  <2>1. PICK k : k = [pc |-> IF act = "invite" THEN "invite" ELSE "target",
                      t |-> t, v |-> v, act |-> act, r |-> r]
    OBVIOUS
  <2>2. k \in MemberReq
    BY <2>1 DEF MemberReq
  <2>3. Becomes(u, k) /\ requests' \in 0..MaxRequests
    BY <1>0, <1>3, <2>1, Begins DEF Collab!AskMember
  <2>4. UNCHANGED <<team, role, session, comment, notes, faults>>
    BY <1>3 DEF Collab!AskMember
  <2>5. Tables'
    BY <1>0, <2>3, <2>4 DEF Tables
  <2>. QED
    BY <2>2, <2>3, <2>4, <2>5 DEF Quiet, Tells, AnyReq, MemberReq
<1>4. CASE Collab!BecomeOwner(u)
  <2>1. req[u] \in OwnReq
    BY <1>0, <1>4, ByPlace DEF Collab!BecomeOwner
  <2>2. req[u].t \in SharedWith
    BY <2>1 DEF OwnReq
  <2>3. UNCHANGED <<team, session, comment, notes, faults, requests>>
    BY <1>4 DEF Collab!BecomeOwner
  <2>4. role' \in [SharedWith -> [Users -> Collab!Roles]]
    BY <1>0, <1>4, <2>2 DEF Collab!BecomeOwner, Tables, Collab!Roles
  <2>5. \E k \in AnyReq : Becomes(u, k) /\ k.pc = "idle"
    BY <1>4, Ends DEF Collab!BecomeOwner
  <2>. QED
    BY <1>0, <2>3, <2>4, <2>5 DEF Quiet, Tables, Tells
<1>5. CASE Collab!CheckTarget(u)
  <2>1. req[u] \in MemberReq /\ req[u].pc = "target"
    BY <1>0, <1>5, ByPlace DEF Collab!CheckTarget
  <2>2. UNCHANGED <<team, role, session, comment, notes, faults, requests>>
    BY <1>5 DEF Collab!CheckTarget
  <2>3. \E k \in AnyReq : Becomes(u, k) /\ k.pc \notin {"insert"} \cup Tells
    <3>1. CASE Collab!Done(u)
      BY <3>1, Ends DEF Tells
    <3>2. CASE Collab!Then(u, req[u].act)
      BY <1>0, <2>1, <3>2, GoesOn DEF MemberReq
    <3>. QED
      BY <1>5, <3>1, <3>2 DEF Collab!CheckTarget
  <2>. QED
    BY <1>0, <2>2, <2>3 DEF Quiet, Tables
<1>6. CASE Collab!InviteMember(u) \/ Collab!ChangeRole(u) \/ Collab!RemoveMember(u)
  <2>1. req[u] \in MemberReq
    BY <1>0, <1>6, ByPlace DEF Collab!InviteMember, Collab!ChangeRole, Collab!RemoveMember
  <2>2. req[u].t \in SharedWith /\ req[u].v \in Users /\ req[u].r \in Collab!Roles /\ "none" \in Collab!Roles
    BY <2>1 DEF MemberReq, Collab!Roles
  <2>3. UNCHANGED <<team, session, comment, notes, faults, requests>>
    BY <1>6 DEF Collab!InviteMember, Collab!ChangeRole, Collab!RemoveMember
  <2>4. \E r \in Collab!Roles : role' = [role EXCEPT ![req[u].t][req[u].v] = r] \/ role' = role
    BY <1>6, <2>2 DEF Collab!InviteMember, Collab!ChangeRole, Collab!RemoveMember
  <2>5. role' \in [SharedWith -> [Users -> Collab!Roles]]
    <3>1. CASE role' = role
      BY <1>0, <3>1 DEF Tables
    <3>2. ASSUME NEW r \in Collab!Roles, role' = [role EXCEPT ![req[u].t][req[u].v] = r]
          PROVE  role' \in [SharedWith -> [Users -> Collab!Roles]]
      <4>1. PICK t \in SharedWith, v \in Users : t = req[u].t /\ v = req[u].v
        BY <2>2
      <4>2. role' = [role EXCEPT ![t] = [role[t] EXCEPT ![v] = r]]
        BY <1>0, <3>2, <4>1 DEF Tables
      <4>3. [role[t] EXCEPT ![v] = r] \in [Users -> Collab!Roles]
        BY <1>0 DEF Tables
      <4>. QED
        BY <1>0, <4>2, <4>3 DEF Tables
    <3>. QED
      BY <2>4, <3>1, <3>2
  <2>6. \E k \in AnyReq : Becomes(u, k) /\ k.pc = "idle"
    BY <1>6, Ends DEF Collab!InviteMember, Collab!ChangeRole, Collab!RemoveMember
  <2>. QED
    BY <1>0, <2>3, <2>5, <2>6 DEF Quiet, Tables, Tells
<1>. QED
  BY <1>1, <1>2, <1>3, <1>4, <1>5, <1>6 DEF Collab!TeamRequest

\* One session is written.
LEMMA SessionWritten ==
    ASSUME Tables, NEW s \in Sessions, NEW row \in SessionRow, session' = [session EXCEPT ![s] = row],
           \A t \in row.teams : row.exists /\ team[t].exists,
           UNCHANGED <<team, role, faults>>, requests' \in 0..MaxRequests
    PROVE  Tables'
<1>1. session' \in [Sessions -> SessionRow] /\ session'[s] = row
      /\ \A w \in Sessions \ {s} : session'[w] = session[w]
  BY DEF Tables
<1>2. \A w \in Sessions : \A t \in session'[w].teams : session'[w].exists /\ team'[t].exists
  BY <1>1 DEF Tables
<1>. QED
  BY <1>1, <1>2 DEF Tables

\* What a request about sessions comes to, but for the deletion and the notes.
SessionStep(u) ==
    /\ Tables' /\ Quiet(u)
    /\ \A s \in Sessions : session[s].exists => session'[s].exists

LEMMA SessionSteps ==
    ASSUME CollabConstants, CollabInv, NEW u \in Users, Collab!SessionRequest(u),
           ~ Collab!TellMember(u), \A s \in Sessions : ~ Collab!DeleteSession(u, s)
    PROVE  SessionStep(u)
<1>0. Tables /\ req \in [Users -> AnyReq] /\ req[u] \in AnyReq /\ session \in [Sessions -> SessionRow]
  BY DEF CollabInv, Tables
<1>. USE DEF Collab!At
<1>a. ASSUME NEW s \in Sessions, NEW row \in SessionRow, Collab!Begin(u, Collab!Idle),
             session' = [session EXCEPT ![s] = row], UNCHANGED <<team, role, comment, notes, faults>>,
             \A t \in row.teams : row.exists /\ team[t].exists,
             session[s].exists => row.exists
      PROVE  SessionStep(u)
  <2>1. Tables'
    BY <1>0, <1>a, SessionWritten, Begins
  <2>2. Becomes(u, Collab!Idle) /\ Collab!Idle \in AnyReq /\ Collab!Idle.pc = "idle"
    BY <1>0, <1>a, Begins DEF Collab!Idle, AnyReq
  <2>3. \A w \in Sessions : session[w].exists => session'[w].exists
    BY <1>0, <1>a
  <2>. QED
    BY <1>a, <2>1, <2>2, <2>3 DEF SessionStep, Quiet, Tells
<1>b. ASSUME NEW s \in Sessions, NEW row \in SessionRow, Collab!Begin(u, Collab!Idle),
             session' = [session EXCEPT ![s] = row], UNCHANGED <<team, role, comment, notes, faults>>,
             row.exists = session[s].exists, row.teams \subseteq session[s].teams
      PROVE  SessionStep(u)
  <2>1. \A t \in row.teams : row.exists /\ team[t].exists
    BY <1>0, <1>b DEF Tables
  <2>. QED
    BY <1>a, <1>b, <2>1
<1>1. ASSUME NEW s \in Sessions, Collab!CreateSession(u, s)
      PROVE  SessionStep(u)
  <2>1. PICK row : row = [Collab!NoSession EXCEPT !.exists = TRUE, !.owner = u]
    OBVIOUS
  <2>2. row \in SessionRow /\ row.exists /\ row.teams = {}
    BY <2>1 DEF Collab!NoSession, SessionRow
  <2>3. session' = [session EXCEPT ![s] = row]
    BY <1>1, <2>1 DEF Collab!CreateSession
  <2>4. Collab!Begin(u, Collab!Idle) /\ UNCHANGED <<team, role, comment, notes, faults>>
    BY <1>1 DEF Collab!CreateSession
  <2>. QED
    BY <1>a, <2>2, <2>3, <2>4
<1>2. ASSUME NEW s \in Sessions, NEW copy \in Sessions, Collab!ForkSession(u, s, copy)
      PROVE  SessionStep(u)
  BY <1>1, <1>2 DEF Collab!ForkSession
<1>3. ASSUME NEW s \in Sessions, Collab!UpdateSession(u, s)
      PROVE  SessionStep(u)
  <2>1. PICK v \in {"private", "team", "public"}, p \in BOOLEAN :
          session' = [session EXCEPT ![s].visibility = v, ![s].public = p]
    BY <1>3 DEF Collab!UpdateSession
  <2>2. PICK row : row = [session[s] EXCEPT !.visibility = v, !.public = p]
    OBVIOUS
  <2>3. row \in SessionRow /\ row.exists = session[s].exists /\ row.teams = session[s].teams
    <3>1. session[s] \in SessionRow
      BY <1>0
    <3>. QED
      BY <2>2, <3>1 DEF SessionRow
  <2>4. session' = [session EXCEPT ![s] = row]
    BY <1>0, <2>1, <2>2
  <2>5. Collab!Begin(u, Collab!Idle) /\ UNCHANGED <<team, role, comment, notes, faults>>
    BY <1>3 DEF Collab!UpdateSession
  <2>. QED
    BY <1>b, <2>3, <2>4, <2>5
<1>4. ASSUME NEW s \in Sessions, Collab!Subscribe(u, s)
      PROVE  SessionStep(u)
  <2>1. PICK q \in SUBSET Users : session' = [session EXCEPT ![s].subscribers = q]
    <3>1. session[s].subscribers \subseteq Users
      BY <1>0 DEF SessionRow
    <3>. QED
      BY <1>0, <1>4, <3>1 DEF Collab!Subscribe
  <2>2. PICK row : row = [session[s] EXCEPT !.subscribers = q]
    OBVIOUS
  <2>3. row \in SessionRow /\ row.exists = session[s].exists /\ row.teams = session[s].teams
    <3>1. session[s] \in SessionRow
      BY <1>0
    <3>. QED
      BY <2>2, <3>1 DEF SessionRow
  <2>4. session' = [session EXCEPT ![s] = row]
    BY <1>0, <2>1, <2>2
  <2>5. Collab!Begin(u, Collab!Idle) /\ UNCHANGED <<team, role, comment, notes, faults>>
    BY <1>4 DEF Collab!Subscribe
  <2>. QED
    BY <1>b, <2>3, <2>4, <2>5
<1>5. ASSUME NEW s \in Sessions, NEW t \in SharedWith, Collab!Pin(u, s, t)
      PROVE  SessionStep(u)
  <2>1. PICK q \in SUBSET (Users \X SharedWith) : session' = [session EXCEPT ![s].pins = q]
    <3>1. session[s].pins \subseteq Users \X SharedWith
      BY <1>0 DEF SessionRow
    <3>. QED
      BY <1>0, <1>5, <3>1 DEF Collab!Pin
  <2>2. PICK row : row = [session[s] EXCEPT !.pins = q]
    OBVIOUS
  <2>3. row \in SessionRow /\ row.exists = session[s].exists /\ row.teams = session[s].teams
    <3>1. session[s] \in SessionRow
      BY <1>0
    <3>. QED
      BY <2>2, <3>1 DEF SessionRow
  <2>4. session' = [session EXCEPT ![s] = row]
    BY <1>0, <2>1, <2>2
  <2>5. Collab!Begin(u, Collab!Idle) /\ UNCHANGED <<team, role, comment, notes, faults>>
    BY <1>5 DEF Collab!Pin
  <2>. QED
    BY <1>b, <2>3, <2>4, <2>5
<1>6. ASSUME NEW s \in Sessions, NEW t \in SharedWith, Collab!UnshareFromTeam(u, s, t)
      PROVE  SessionStep(u)
  <2>1. PICK row : row = [session[s] EXCEPT !.teams = session[s].teams \ {t}]
    OBVIOUS
  <2>2. row \in SessionRow /\ row.exists = session[s].exists /\ row.teams \subseteq session[s].teams
    <3>1. session[s] \in SessionRow
      BY <1>0
    <3>. QED
      BY <2>1, <3>1 DEF SessionRow
  <2>3. session' = [session EXCEPT ![s] = row]
    BY <1>0, <1>6, <2>1 DEF Collab!UnshareFromTeam
  <2>4. Collab!Begin(u, Collab!Idle) /\ UNCHANGED <<team, role, comment, notes, faults>>
    BY <1>6 DEF Collab!UnshareFromTeam
  <2>. QED
    BY <1>b, <2>2, <2>3, <2>4
<1>7. ASSUME NEW s \in Sessions, NEW t \in SharedWith, Collab!ShareToTeam(u, s, t)
      PROVE  SessionStep(u)
  <2>1. PICK k : k = [pc |-> "share", s |-> s, t |-> t]
    OBVIOUS
  <2>2. k \in AnyReq /\ k.pc = "share"
    BY <2>1 DEF AnyReq, ShareReq
  <2>3. Becomes(u, k) /\ requests' \in 0..MaxRequests
    BY <1>0, <1>7, <2>1, Begins DEF Collab!ShareToTeam
  <2>4. UNCHANGED <<team, role, session, comment, notes, faults>>
    BY <1>7 DEF Collab!ShareToTeam
  <2>. QED
    BY <1>0, <2>2, <2>3, <2>4 DEF SessionStep, Quiet, Tells, Tables
<1>8. CASE Collab!LinkToTeam(u)
  <2>1. req[u].pc = "share" /\ req[u] \in ShareReq /\ UNCHANGED <<team, role, comment, notes, faults, requests>>
    BY <1>0, <1>8, ByPlace DEF Collab!LinkToTeam
  <2>2. CASE session[req[u].s].exists /\ team[req[u].t].exists
    <3>1. PICK s \in Sessions, t \in SharedWith : s = req[u].s /\ t = req[u].t
      BY <2>1 DEF ShareReq
    <3>2. PICK row : row = [session[s] EXCEPT !.teams = session[s].teams \cup {t}]
      OBVIOUS
    <3>3. row \in SessionRow /\ row.exists = session[s].exists /\ row.teams = session[s].teams \cup {t}
      <4>1. session[s] \in SessionRow
        BY <1>0
      <4>. QED
        BY <3>2, <4>1 DEF SessionRow
    <3>4. session' = [session EXCEPT ![s] = row] /\ Collab!Then(u, "visible")
      BY <1>0, <1>8, <2>2, <3>1, <3>2 DEF Collab!LinkToTeam
    <3>5. \A w \in row.teams : row.exists /\ team[w].exists
      BY <1>0, <2>2, <3>1, <3>3 DEF Tables
    <3>6. Tables'
      BY <1>0, <2>1, <3>3, <3>4, <3>5, SessionWritten DEF Tables
    <3>7. \A w \in Sessions : session[w].exists => session'[w].exists
      BY <1>0, <3>3, <3>4
    <3>8. Quiet(u)
      BY <1>0, <2>1, <3>4, GoesOn DEF Quiet
    <3>. QED
      BY <3>6, <3>7, <3>8 DEF SessionStep
  <2>3. CASE ~ (session[req[u].s].exists /\ team[req[u].t].exists)
    <3>1. Collab!Done(u) /\ UNCHANGED session
      BY <1>8, <2>3 DEF Collab!LinkToTeam
    <3>. QED
      BY <1>0, <2>1, <3>1, Ends DEF SessionStep, Quiet, Tells, Tables
  <2>. QED
    BY <2>2, <2>3
<1>9. CASE Collab!MakeVisible(u)
  <2>1. req[u].pc = "visible" /\ req[u] \in ShareReq /\ UNCHANGED <<team, role, comment, notes, faults, requests>>
        /\ Collab!Then(u, "members")
    BY <1>0, <1>9, ByPlace DEF Collab!MakeVisible
  <2>2. Quiet(u)
    BY <1>0, <2>1, GoesOn DEF Quiet
  <2>3. PICK s \in Sessions : s = req[u].s
    BY <2>1 DEF ShareReq
  <2>4. CASE session[s].exists
    <3>1. PICK row : row = [session[s] EXCEPT !.visibility = "team"]
      OBVIOUS
    <3>2. row \in SessionRow /\ row.exists = session[s].exists /\ row.teams = session[s].teams
      <4>1. session[s] \in SessionRow
        BY <1>0
      <4>. QED
        BY <3>1, <4>1 DEF SessionRow
    <3>3. session' = [session EXCEPT ![s] = row]
      BY <1>0, <1>9, <2>3, <2>4, <3>1 DEF Collab!MakeVisible
    <3>4. \A w \in row.teams : row.exists /\ team[w].exists
      BY <1>0, <3>2 DEF Tables
    <3>5. Tables'
      BY <1>0, <2>1, <3>2, <3>3, <3>4, SessionWritten DEF Tables
    <3>6. \A w \in Sessions : session[w].exists => session'[w].exists
      BY <1>0, <3>2, <3>3
    <3>. QED
      BY <2>2, <3>5, <3>6 DEF SessionStep
  <2>5. CASE ~ session[s].exists
    <3>1. UNCHANGED session
      BY <1>9, <2>3, <2>5 DEF Collab!MakeVisible
    <3>. QED
      BY <1>0, <2>1, <2>2, <3>1 DEF SessionStep, Tables
  <2>. QED
    BY <2>4, <2>5
<1>10. CASE Collab!ListMembers(u)
  <2>1. req[u].pc = "members" /\ req[u] \in ShareReq
        /\ UNCHANGED <<team, role, session, comment, notes, faults, requests>>
    BY <1>0, <1>10, ByPlace DEF Collab!ListMembers
  <2>2. PICK k : k = [pc |-> "shared", s |-> req[u].s,
                      left |-> {v \in Users : role[req[u].t][v] # "none"} \ {u}]
    OBVIOUS
  <2>3. Becomes(u, k)
    BY <1>10, <2>2 DEF Collab!ListMembers, Becomes
  <2>4. req[u].s \in Sessions
    BY <2>1 DEF ShareReq
  <2>5. k \in SharedReq /\ k.pc = "shared"
    BY <2>2, <2>4 DEF SharedReq
  <2>. QED
    BY <1>0, <2>1, <2>3, <2>5 DEF SessionStep, Quiet, Tells, Tables, AnyReq
<1>. QED
  BY <1>1, <1>2, <1>3, <1>4, <1>5, <1>6, <1>7, <1>8, <1>9, <1>10 DEF Collab!SessionRequest

\* What a note says, and what is added to those to some people by one more.
LEMMA NoteFields ==
    ASSUME NEW v, NEW kind, NEW c
    PROVE  Note(v, kind, c).to = v /\ Note(v, kind, c).kind = kind /\ Note(v, kind, c).about = c
BY DEF Note

LEMMA NotesToFields ==
    ASSUME NEW S, NEW kind, NEW c, NEW n \in NotesTo(S, kind, c)
    PROVE  n.to \in S /\ n.kind = kind /\ n.about = c
BY NoteFields DEF NotesTo

LEMMA NotesToOneMore ==
    ASSUME NEW S, NEW v, NEW kind, NEW c
    PROVE  NotesTo(S \cup {v}, kind, c) = NotesTo(S, kind, c) \cup {Note(v, kind, c)}
BY DEF NotesTo

\* One note more.
LEMMA NoteAdded ==
    ASSUME Collab!IsABag(notes), NEW v, NEW kind, NEW c, Collab!Told(v, kind, c),
           NEW n, n = Note(v, kind, c)
    PROVE  /\ Collab!IsABag(notes)' /\ DOMAIN notes' = DOMAIN notes \cup {n}
           /\ n \notin DOMAIN notes => notes'[n] = 1
           /\ \A m \in DOMAIN notes \ {n} : notes'[m] = notes[m]
<1>1. PICK one : one = Collab!SetToBag({n})
  OBVIOUS
<1>2. one = [e \in {n} |-> 1]
  BY <1>1 DEF Collab!SetToBag
<1>3. DOMAIN one = {n} /\ one[n] = 1
  BY <1>2
<1>4. notes' = [e \in DOMAIN notes \cup DOMAIN one |->
                  (IF e \in DOMAIN notes THEN notes[e] ELSE 0) + (IF e \in DOMAIN one THEN one[e] ELSE 0)]
  BY <1>1 DEF Collab!Told, Collab!(+), Note
<1>5. notes \in [DOMAIN notes -> {i \in Nat : i > 0}]
  BY DEF Collab!IsABag
<1>6. \A e \in DOMAIN notes : notes[e] \in Nat /\ notes[e] > 0
  BY <1>5
<1>7. DOMAIN notes' = DOMAIN notes \cup {n}
  BY <1>3, <1>4
<1>8. \A m \in DOMAIN notes \ {n} : notes'[m] = notes[m]
  BY <1>3, <1>4, <1>6
<1>9. notes'[n] = (IF n \in DOMAIN notes THEN notes[n] ELSE 0) + 1
  BY <1>3, <1>4
<1>10. notes' \in [DOMAIN notes' -> {i \in Nat : i > 0}]
  <2>1. \A e \in DOMAIN notes' : notes'[e] \in Nat /\ notes'[e] > 0
    BY <1>6, <1>7, <1>8, <1>9
  <2>2. notes' = [e \in DOMAIN notes' |-> notes'[e]]
    BY <1>4
  <2>. QED
    BY <2>1, <2>2
<1>. QED
  BY <1>7, <1>8, <1>9, <1>10 DEF Collab!IsABag

\* A comment keeps its author and its parent, as long as it exists.
Evolves ==
    \A c \in Comments :
        comment[c].author # NoOne =>
            /\ comment'[c].author = comment[c].author
            /\ comment'[c].exists => comment[c].exists /\ comment'[c].parent = comment[c].parent

\* What exists has an author.
LEMMA Authored ==
    ASSUME CommentRows
    PROVE  \A c \in Comments : comment[c].exists => comment[c].author # NoOne
<1>1. Collab!NoComment.exists = FALSE
  BY DEF Collab!NoComment
<1>. QED
  BY <1>1 DEF CommentRows

\* Who tells of another comment is not concerned.
LEMMA OthersTell ==
    ASSUME CollabConstants, CollabInv, NEW u \in Users, NEW k, Becomes(u, k), NEW v \in Users \ {u},
           req[v].pc \in Tells, Evolves, NEW c \in Comments, c = req[v].c,
           About(c)' = About(c), \A n \in About(c) : notes'[n] = notes[n]
    PROVE  TellsOf(v)'
<1>1. req'[v] = req[v] /\ req[v] \in CommentReq /\ TellsOf(v) /\ CommentRows
  BY ByPlace DEF CollabInv, Becomes
<1>2. req[v].parent \in {NoOne} \cup Comments /\ comment[c].author = v /\ v # NoOne
  BY <1>1 DEF CommentReq, TellsOf, CollabConstants
<1>3. comment'[c].author = v
  BY <1>2 DEF Evolves
<1>4. comment'[c].exists => comment[c].exists /\ comment'[c].parent = comment[c].parent
  BY <1>2 DEF Evolves
<1>5. ASSUME comment'[c].exists, req[v].whole
      PROVE  About(c)' = Sent(v)' /\ \A n \in Sent(v)' : notes'[n] = 1
  <2>1. comment[c].exists /\ comment[c].parent = req[v].parent
    BY <1>1, <1>4, <1>5 DEF TellsOf
  <2>2. req[v].parent # NoOne => comment'[req[v].parent].author = comment[req[v].parent].author
    <3>1. SUFFICES ASSUME req[v].parent # NoOne
                   PROVE  comment'[req[v].parent].author = comment[req[v].parent].author
      OBVIOUS
    <3>2. comment[req[v].parent].exists
      BY <1>1, <1>2, <2>1, <3>1 DEF CommentRows
    <3>. QED
      BY <1>1, <1>2, <3>1, <3>2, Authored DEF Evolves
  <2>3. Mentions(v)' = Mentions(v) /\ News(v)' = News(v)
    BY <1>1 DEF Mentions, News, NotesTo, Note
  <2>4. Reply(v)' = Reply(v)
    BY <1>1, <2>2 DEF Reply, Note
  <2>5. Sent(v)' = Sent(v)
    BY <2>3, <2>4 DEF Sent
  <2>6. About(c) = Sent(v) /\ \A n \in Sent(v) : notes[n] = 1
    BY <1>1, <1>5, <2>1 DEF TellsOf
  <2>. QED
    BY <2>5, <2>6
<1>6. About(c)' = About(req[v].c)'
  BY <1>1 DEF About
<1>. QED
  BY <1>1, <1>3, <1>4, <1>5, <1>6 DEF TellsOf

\* What a step of u has to show.
LEMMA StepKeeps ==
    ASSUME CollabConstants, CollabInv, NEW u \in Users, NEW k \in AnyReq, Becomes(u, k),
           Tables', CommentRows', NotesOk', Evolves,
           \A c \in Comments : comment[c].author = NoOne =>
               comment'[c].author = NoOne \/ (req[u].pc = "insert" /\ req[u].c = c),
           \A c \in Comments : comment[c].author \notin {NoOne, u} =>
               About(c)' = About(c) /\ \A n \in About(c) : notes'[n] = notes[n],
           k.pc = "insert" =>
               /\ comment'[k.c].author = NoOne /\ k.subscribers = {}
               /\ \A v \in Users : req[v].pc = "insert" => req[v].c # k.c,
           k.pc \in Tells => TellsOf(u)'
    PROVE  CollabInv'
<1>1. req \in [Users -> AnyReq] /\ req' \in [Users -> AnyReq] /\ req'[u] = k
      /\ \A v \in Users \ {u} : req'[v] = req[v]
  BY DEF CollabInv, Becomes
<1>2. ASSUME NEW v \in Users, req'[v].pc = "insert"
      PROVE  Inserts(v)'
  <2>1. CASE v = u
    BY <1>1, <1>2, <2>1 DEF Inserts
  <2>2. CASE v # u
    <3>1. req[v].pc = "insert" /\ Inserts(v) /\ req[v] \in CommentReq /\ req'[v] = req[v]
      BY <1>1, <1>2, <2>2, ByPlace DEF CollabInv
    <3>2. req[v].c \in Comments
      BY <3>1 DEF CommentReq
    <3>3. comment'[req[v].c].author = NoOne
      BY <2>2, <3>1, <3>2 DEF Inserts
    <3>4. \A w \in Users : req'[w].pc = "insert" /\ req'[w].c = req'[v].c => w = v
      BY <1>1, <2>2, <3>1 DEF Inserts
    <3>. QED
      BY <3>1, <3>3, <3>4 DEF Inserts
  <2>. QED
    BY <2>1, <2>2
<1>3. ASSUME NEW v \in Users, req'[v].pc \in Tells
      PROVE  TellsOf(v)'
  <2>1. CASE v = u
    BY <1>1, <1>3, <2>1
  <2>2. CASE v # u
    <3>1. req[v].pc \in Tells /\ TellsOf(v) /\ req[v] \in CommentReq
      BY <1>1, <1>3, <2>2, ByPlace DEF CollabInv
    <3>2. req[v].c \in Comments /\ comment[req[v].c].author \notin {NoOne, u}
      BY <2>2, <3>1 DEF CommentReq, TellsOf, CollabConstants
    <3>3. PICK c \in Comments : c = req[v].c
      BY <3>2
    <3>4. About(c)' = About(c) /\ \A n \in About(c) : notes'[n] = notes[n]
      BY <3>2, <3>3
    <3>. QED
      BY <2>2, <3>1, <3>3, <3>4, OthersTell
  <2>. QED
    BY <2>1, <2>2
<1>. QED
  BY <1>1, <1>2, <1>3 DEF CollabInv

\* A step that is not about a comment, and one that begins one.
LEMMA QuietKeeps ==
    ASSUME CollabConstants, CollabInv, NEW u \in Users, NEW k \in AnyReq, Becomes(u, k), k.pc \notin Tells,
           Tables', \A s \in Sessions : session[s].exists => session'[s].exists,
           UNCHANGED <<comment, notes>>,
           k.pc = "insert" =>
               /\ comment[k.c].author = NoOne /\ k.subscribers = {}
               /\ \A v \in Users : req[v].pc = "insert" => req[v].c # k.c
    PROVE  CollabInv'
<1>1. CommentRows'
  BY DEF CollabInv, CommentRows
<1>2. NotesOk'
  BY DEF CollabInv, NotesOk, Collab!IsABag
<1>3. Evolves
  BY DEF Evolves
<1>4. \A c \in Comments : comment[c].author \notin {NoOne, u} =>
        About(c)' = About(c) /\ \A n \in About(c) : notes'[n] = notes[n]
  BY DEF About
<1>5. \A c \in Comments : comment[c].author = NoOne =>
        comment'[c].author = NoOne \/ (req[u].pc = "insert" /\ req[u].c = c)
  OBVIOUS
<1>6. k.pc = "insert" =>
        /\ comment'[k.c].author = NoOne /\ k.subscribers = {}
        /\ \A v \in Users : req[v].pc = "insert" => req[v].c # k.c
  OBVIOUS
<1>7. k.pc \in Tells => TellsOf(u)'
  OBVIOUS
<1>. QED
  BY <1>1, <1>2, <1>3, <1>4, <1>5, <1>6, <1>7, StepKeeps, Zenon

\* What is left of a deleted comment.
LEMMA GoneRow ==
    ASSUME comment \in [Comments -> CommentRow], NEW c \in Comments
    PROVE  /\ Collab!Gone(c) \in CommentRow /\ Collab!Gone(c).author = comment[c].author
           /\ ~ Collab!Gone(c).exists
<1>1. comment[c].author \in Users \cup {NoOne}
  BY DEF CommentRow
<1>2. PICK a \in Users \cup {NoOne} : a = comment[c].author
  BY <1>1
<1>3. PICK e : e = Collab!NoComment
  OBVIOUS
<1>4. e \in CommentRow /\ ~ e.exists
  BY <1>3 DEF Collab!NoComment, CommentRow
<1>5. Collab!Gone(c) = [e EXCEPT !.author = a]
  BY <1>2, <1>3, Zenon DEF Collab!Gone
<1>. QED
  BY <1>2, <1>4, <1>5 DEF CommentRow

\* Comments are rewritten or deleted.
LEMMA RewriteKeeps ==
    ASSUME CollabConstants, CollabInv, NEW u \in Users, NEW k \in AnyReq, Becomes(u, k),
           k.pc \notin {"insert"} \cup Tells, Tables', CommentRows', UNCHANGED notes,
           \A c \in Comments :
               /\ comment'[c].author = comment[c].author
               /\ comment'[c].exists => comment[c].exists /\ comment'[c].parent = comment[c].parent
    PROVE  CollabInv'
<1>1. \A c \in Comments : About(c)' = About(c) /\ \A n \in About(c) : notes'[n] = notes[n]
  BY DEF About
<1>2. NotesOk'
  BY DEF CollabInv, NotesOk, Collab!IsABag
<1>3. Evolves
  BY DEF Evolves
<1>4. \A c \in Comments : comment[c].author = NoOne =>
        comment'[c].author = NoOne \/ (req[u].pc = "insert" /\ req[u].c = c)
  OBVIOUS
<1>5. \A c \in Comments : comment[c].author \notin {NoOne, u} =>
        About(c)' = About(c) /\ \A n \in About(c) : notes'[n] = notes[n]
  BY <1>1
<1>6. k.pc # "insert" /\ k.pc \notin Tells
  OBVIOUS
<1>. QED
  BY <1>2, <1>3, <1>4, <1>5, <1>6, StepKeeps, Zenon

\* The session goes with its comments.
LEMMA DeleteSessionKeeps ==
    ASSUME CollabConstants, CollabInv, NEW u \in Users, NEW s \in Sessions, Collab!DeleteSession(u, s)
    PROVE  CollabInv'
<1>0. Tables /\ CommentRows /\ session \in [Sessions -> SessionRow] /\ comment \in [Comments -> CommentRow]
  BY DEF CollabInv, Tables, CommentRows
<1>1. Collab!Begin(u, Collab!Idle) /\ UNCHANGED <<team, role, notes, faults>>
  BY DEF Collab!DeleteSession
<1>2. Becomes(u, Collab!Idle) /\ Collab!Idle \in AnyReq /\ Collab!Idle.pc = "idle" /\ requests' \in 0..MaxRequests
  BY <1>0, <1>1, Begins DEF Collab!Idle, AnyReq
<1>3. CASE UNCHANGED <<session, comment>>
  <2>1. Tables' /\ \A w \in Sessions : session[w].exists => session'[w].exists
    BY <1>0, <1>1, <1>2, <1>3 DEF Tables
  <2>2. Collab!Idle.pc \notin Tells /\ Collab!Idle.pc # "insert"
    BY <1>2 DEF Tells
  <2>. QED
    BY <1>1, <1>2, <1>3, <2>1, <2>2, QuietKeeps
<1>4. CASE /\ \A c \in Collab!Of(s) : Collab!Replies(c) \subseteq Collab!Of(s)
           /\ session' = [session EXCEPT ![s] = [Collab!NoSession EXCEPT !.owner = u]]
           /\ comment' = [c \in Comments |-> IF c \in Collab!Of(s) THEN Collab!Gone(c) ELSE comment[c]]
  <2>1. PICK row : row = [Collab!NoSession EXCEPT !.owner = u]
    OBVIOUS
  <2>2. row \in SessionRow /\ row.teams = {}
    BY <2>1 DEF Collab!NoSession, SessionRow
  <2>3. session' = [session EXCEPT ![s] = row]
    BY <1>4, <2>1
  <2>4. Tables'
    BY <1>0, <1>1, <1>2, <2>2, <2>3, SessionWritten
  <2>5. PICK D \in SUBSET Comments : D = Collab!Of(s)
    BY DEF Collab!Of
  <2>6. \A c \in Comments : c \in D <=> comment[c].exists /\ comment[c].session = s
    BY <2>5 DEF Collab!Of
  <2>7. \A c \in Comments : c \in D => comment'[c] = Collab!Gone(c)
    BY <1>4, <2>5
  <2>8. \A c \in Comments : c \notin D => comment'[c] = comment[c]
    BY <1>4, <2>5
  <2>9. \A c \in Comments : /\ Collab!Gone(c) \in CommentRow /\ Collab!Gone(c).author = comment[c].author
                            /\ ~ Collab!Gone(c).exists
    BY <1>0, GoneRow
  <2>10. comment' \in [Comments -> CommentRow]
    <3>1. \A c \in Comments : comment'[c] \in CommentRow
      BY <1>0, <2>7, <2>8, <2>9
    <3>2. comment' = [c \in Comments |-> comment'[c]]
      BY <1>4
    <3>. QED
      BY <3>1, <3>2
  <2>11. \A c \in Comments : comment'[c].author = NoOne => comment'[c] = Collab!NoComment
    <3>. TAKE c \in Comments
    <3>1. c \in D => comment[c].author # NoOne
      BY <1>0, <2>6, Authored
    <3>. QED
      BY <1>0, <2>7, <2>8, <2>9, <3>1 DEF CommentRows
  <2>12. ASSUME NEW c \in Comments, comment'[c].exists
         PROVE  /\ comment'[c].session \in Sessions /\ session'[comment'[c].session].exists
                /\ comment'[c].parent # NoOne => comment'[comment'[c].parent].exists
    <3>1. c \notin D /\ comment'[c] = comment[c] /\ comment[c].exists
      BY <2>7, <2>8, <2>9, <2>12
    <3>2. comment[c].session \in Sessions \ {s} /\ session[comment[c].session].exists
      BY <1>0, <2>6, <3>1 DEF CommentRows
    <3>3. session'[comment[c].session].exists
      BY <1>0, <2>3, <3>2
    <3>4. ASSUME comment[c].parent # NoOne
          PROVE  comment'[comment[c].parent].exists
      <4>1. comment[c].parent \in Comments /\ comment[comment[c].parent].exists
        <5>1. comment[c] \in CommentRow
          BY <1>0
        <5>. QED
          BY <1>0, <3>1, <3>4, <5>1 DEF CommentRows, CommentRow
      <4>2. comment[c].parent \notin D
        BY <1>4, <2>5, <3>1 DEF Collab!Replies
      <4>. QED
        BY <2>8, <4>1, <4>2
    <3>. QED
      BY <3>1, <3>2, <3>3, <3>4
  <2>13. CommentRows'
    BY <2>10, <2>11, <2>12 DEF CommentRows
  <2>14. \A c \in Comments :
           /\ comment'[c].author = comment[c].author
           /\ comment'[c].exists => comment[c].exists /\ comment'[c].parent = comment[c].parent
    BY <2>7, <2>8, <2>9
  <2>15. Collab!Idle.pc \notin {"insert"} \cup Tells
    BY <1>2 DEF Tells
  <2>. QED
    BY <1>1, <1>2, <2>4, <2>13, <2>14, <2>15, RewriteKeeps
<1>. QED
  BY <1>3, <1>4 DEF Collab!DeleteSession

\* Requests that delete, like or settle a comment.
LEMMA RowStepsKeep ==
    ASSUME CollabConstants, CollabInv, NEW u \in Users, NEW c \in Comments,
           \/ Collab!DeleteComment(u, c) \/ Collab!ToggleReaction(u, c) \/ Collab!ResolveSuggestion(u, c)
    PROVE  CollabInv'
<1>0. Tables /\ CommentRows /\ comment \in [Comments -> CommentRow] /\ comment[c] \in CommentRow
  BY DEF CollabInv, Tables, CommentRows
<1>1. /\ Collab!Begin(u, Collab!Idle) /\ UNCHANGED <<team, role, session, notes, faults>>
      /\ comment[c].exists
  BY DEF Collab!DeleteComment, Collab!ToggleReaction, Collab!ResolveSuggestion
<1>2. Becomes(u, Collab!Idle) /\ Collab!Idle \in AnyReq /\ Collab!Idle.pc = "idle" /\ requests' \in 0..MaxRequests
  BY <1>0, <1>1, Begins DEF Collab!Idle, AnyReq
<1>3. Tables' /\ \A w \in Sessions : session[w].exists => session'[w].exists
  BY <1>0, <1>1, <1>2 DEF Tables
<1>4. Collab!Idle.pc \notin {"insert"} \cup Tells
  BY <1>2 DEF Tells
<1>5. ASSUME NEW row \in CommentRow, comment' = [comment EXCEPT ![c] = row],
             row.author = comment[c].author,
             \/ ~ row.exists /\ Collab!Replies(c) = {}
             \/ row.exists /\ row.parent = comment[c].parent /\ row.session = comment[c].session
      PROVE  CollabInv'
  <2>1. comment' \in [Comments -> CommentRow] /\ comment'[c] = row
        /\ \A d \in Comments \ {c} : comment'[d] = comment[d]
    BY <1>0, <1>5
  <2>2. comment[c].author # NoOne
    BY <1>0, <1>1, Authored
  <2>3. \A d \in Comments : comment'[d].author = NoOne => comment'[d] = Collab!NoComment
    BY <1>0, <1>5, <2>1, <2>2 DEF CommentRows
  <2>4. \A d \in Comments :
          /\ comment'[d].author = comment[d].author
          /\ comment'[d].exists => /\ comment[d].exists /\ comment'[d].parent = comment[d].parent
                                   /\ comment'[d].session = comment[d].session
    BY <1>1, <1>5, <2>1
  <2>5. ASSUME NEW d \in Comments, comment'[d].exists
        PROVE  /\ comment'[d].session \in Sessions /\ session'[comment'[d].session].exists
               /\ comment'[d].parent # NoOne => comment'[comment'[d].parent].exists
    <3>1. comment[d].session \in Sessions /\ session'[comment[d].session].exists
      BY <1>0, <1>1, <2>4, <2>5 DEF CommentRows
    <3>2. ASSUME comment[d].parent # NoOne
          PROVE  comment'[comment[d].parent].exists
      <4>1. comment[d].parent \in Comments /\ comment[comment[d].parent].exists
        <5>1. comment[d] \in CommentRow
          BY <1>0
        <5>. QED
          BY <1>0, <2>4, <2>5, <3>2, <5>1 DEF CommentRows, CommentRow
      <4>2. comment[d].parent = c => row.exists
        BY <1>5, <2>4, <2>5 DEF Collab!Replies
      <4>. QED
        BY <2>1, <4>1, <4>2
    <3>. QED
      BY <2>4, <2>5, <3>1, <3>2
  <2>6. CommentRows'
    BY <2>1, <2>3, <2>5 DEF CommentRows
  <2>. QED
    BY <1>1, <1>2, <1>3, <1>4, <2>4, <2>6, RewriteKeeps
<1>6. CASE Collab!DeleteComment(u, c)
  <2>1. CASE Collab!Replies(c) = {}
    <3>1. PICK row : row = Collab!Gone(c)
      OBVIOUS
    <3>2. row \in CommentRow /\ row.author = comment[c].author /\ ~ row.exists
      BY <1>0, <3>1, GoneRow
    <3>3. comment' = [comment EXCEPT ![c] = row]
      BY <1>6, <2>1, <3>1 DEF Collab!DeleteComment
    <3>. QED
      BY <1>5, <2>1, <3>2, <3>3
  <2>2. CASE Collab!Replies(c) # {}
    <3>1. UNCHANGED comment
      BY <1>6, <2>2 DEF Collab!DeleteComment
    <3>2. Collab!Idle.pc # "insert" /\ Collab!Idle.pc \notin Tells
      BY <1>4
    <3>. QED
      BY <1>1, <1>2, <1>3, <3>1, <3>2, QuietKeeps
  <2>. QED
    BY <2>1, <2>2
<1>7. CASE Collab!ToggleReaction(u, c)
  <2>1. PICK q \in SUBSET Users : comment' = [comment EXCEPT ![c].reactions = q]
    <3>1. comment[c].reactions \subseteq Users
      BY <1>0 DEF CommentRow
    <3>. QED
      BY <1>0, <1>7, <3>1 DEF Collab!ToggleReaction
  <2>2. PICK row : row = [comment[c] EXCEPT !.reactions = q]
    OBVIOUS
  <2>3. /\ row \in CommentRow /\ row.author = comment[c].author /\ row.exists = comment[c].exists
        /\ row.parent = comment[c].parent /\ row.session = comment[c].session
    BY <1>0, <2>2 DEF CommentRow
  <2>4. comment' = [comment EXCEPT ![c] = row]
    BY <1>0, <2>1, <2>2
  <2>. QED
    BY <1>1, <1>5, <2>3, <2>4
<1>8. CASE Collab!ResolveSuggestion(u, c)
  <2>1. PICK q \in {"accepted", "rejected"} : comment' = [comment EXCEPT ![c].suggestion = q]
    BY <1>8 DEF Collab!ResolveSuggestion
  <2>2. PICK row : row = [comment[c] EXCEPT !.suggestion = q]
    OBVIOUS
  <2>3. /\ row \in CommentRow /\ row.author = comment[c].author /\ row.exists = comment[c].exists
        /\ row.parent = comment[c].parent /\ row.session = comment[c].session
    BY <1>0, <2>2 DEF CommentRow
  <2>4. comment' = [comment EXCEPT ![c] = row]
    BY <1>0, <2>1, <2>2
  <2>. QED
    BY <1>1, <1>5, <2>3, <2>4
<1>. QED
  BY <1>6, <1>7, <1>8

\* A word to a member about a session that is shared.
LEMMA TellMemberKeeps ==
    ASSUME CollabConstants, CollabInv, NEW u \in Users, Collab!TellMember(u)
    PROVE  CollabInv'
<1>0. Tables /\ CommentRows /\ NotesOk /\ req \in [Users -> AnyReq]
  BY DEF CollabInv
<1>1. req[u].pc = "shared" /\ req[u] \in SharedReq /\ req[u].s \in Sessions
      /\ UNCHANGED <<team, role, session, comment, faults, requests>>
  BY <1>0, ByPlace DEF Collab!TellMember, Collab!At, SharedReq
<1>2. Tables' /\ \A w \in Sessions : session[w].exists => session'[w].exists
  BY <1>0, <1>1 DEF Tables
<1>3. CASE Collab!Done(u) /\ UNCHANGED notes
  <2>1. PICK k \in AnyReq : Becomes(u, k) /\ k.pc = "idle"
    BY <1>3, Ends
  <2>2. k.pc # "insert" /\ k.pc \notin Tells
    BY <2>1 DEF Tells
  <2>. QED
    BY <1>1, <1>2, <1>3, <2>1, <2>2, QuietKeeps
<1>4. ASSUME NEW v \in req[u].left, Collab!Told(v, "shared_session", req[u].s),
             req' = [req EXCEPT ![u].left = req[u].left \ {v}]
      PROVE  CollabInv'
  <2>1. PICK k : k = [req[u] EXCEPT !.left = req[u].left \ {v}]
    OBVIOUS
  <2>2. k \in SharedReq /\ k.pc = "shared"
    BY <1>1, <2>1 DEF SharedReq
  <2>3. Becomes(u, k) /\ k \in AnyReq
    BY <1>0, <1>4, <2>1, <2>2 DEF Becomes, AnyReq
  <2>4. PICK n : n = Note(v, "shared_session", req[u].s)
    OBVIOUS
  <2>5. /\ Collab!IsABag(notes)' /\ DOMAIN notes' = DOMAIN notes \cup {n}
        /\ \A m \in DOMAIN notes \ {n} : notes'[m] = notes[m]
    BY <1>0, <1>4, <2>4, NoteAdded DEF NotesOk
  <2>6. n.about \in Sessions
    BY <1>1, <2>4, NoteFields
  <2>7. NotesOk'
    BY <1>0, <1>1, <2>5, <2>6 DEF NotesOk
  <2>8. \A c \in Comments : About(c)' = About(c) /\ \A m \in About(c) : notes'[m] = notes[m]
    BY <2>5, <2>6 DEF About, CollabConstants
  <2>9. Evolves /\ CommentRows'
    BY <1>0, <1>1 DEF Evolves, CommentRows
  <2>10. \A c \in Comments : comment[c].author = NoOne =>
           comment'[c].author = NoOne \/ (req[u].pc = "insert" /\ req[u].c = c)
    BY <1>1
  <2>11. \A c \in Comments : comment[c].author \notin {NoOne, u} =>
           About(c)' = About(c) /\ \A m \in About(c) : notes'[m] = notes[m]
    BY <2>8
  <2>12. k.pc # "insert" /\ k.pc \notin Tells
    BY <2>2 DEF Tells
  <2>. QED
    BY <1>2, <2>3, <2>7, <2>9, <2>10, <2>11, <2>12, StepKeeps, Zenon
<1>. QED
  BY <1>3, <1>4 DEF Collab!TellMember

\* A request to comment.
LEMMA CommentOnKeeps ==
    ASSUME CollabConstants, CollabInv, NEW u \in Users, NEW s \in Sessions, NEW c \in Comments,
           NEW mentions \in SUBSET Users, NEW parent \in {NoOne} \cup Comments,
           Collab!CommentOn(u, s, c, mentions, parent)
    PROVE  CollabInv'
<1>0. Tables
  BY DEF CollabInv
<1>1. PICK k : k = [pc |-> "insert", s |-> s, c |-> c, mentions |-> mentions, parent |-> parent,
                    left |-> {}, whole |-> TRUE, subscribers |-> {}]
  OBVIOUS
<1>2. k \in CommentReq /\ k.pc = "insert" /\ k.c = c /\ k.subscribers = {}
  BY <1>1 DEF CommentReq
<1>3. Becomes(u, k) /\ requests' \in 0..MaxRequests
  BY <1>0, <1>1, Begins DEF Collab!CommentOn
<1>4. UNCHANGED <<team, role, session, comment, notes, faults>>
  BY DEF Collab!CommentOn
<1>5. Tables' /\ \A w \in Sessions : session[w].exists => session'[w].exists
  BY <1>0, <1>3, <1>4 DEF Tables
<1>6. comment[c].author = NoOne
  BY DEF Collab!CommentOn, Collab!NoComment
<1>7. \A v \in Users : req[v].pc = "insert" => req[v].c # c
  BY DEF Collab!CommentOn
<1>8. k \in AnyReq /\ k.pc \notin Tells
  BY <1>2 DEF AnyReq, Tells
<1>. QED
  BY <1>2, <1>3, <1>4, <1>5, <1>6, <1>7, <1>8, QuietKeeps

\* The comment is written; nobody knows of it yet.
LEMMA InsertKeeps ==
    ASSUME CollabConstants, CollabInv, NEW u \in Users, Collab!InsertComment(u)
    PROVE  CollabInv'
<1>0. Tables /\ CommentRows /\ NotesOk /\ req \in [Users -> AnyReq] /\ comment \in [Comments -> CommentRow]
  BY DEF CollabInv, CommentRows
<1>1. req[u].pc = "insert" /\ req[u] \in CommentReq /\ Inserts(u)
      /\ UNCHANGED <<team, role, session, notes, faults, requests>>
  BY <1>0, ByPlace DEF Collab!InsertComment, Collab!At, CollabInv
<1>2. Tables' /\ \A w \in Sessions : session[w].exists => session'[w].exists
  BY <1>0, <1>1 DEF Tables
<1>3. PICK c \in Comments, s \in Sessions, p \in {NoOne} \cup Comments :
        c = req[u].c /\ s = req[u].s /\ p = req[u].parent
  BY <1>1 DEF CommentReq
<1>4. CASE Collab!Done(u) /\ UNCHANGED comment
  <2>1. PICK k \in AnyReq : Becomes(u, k) /\ k.pc = "idle"
    BY <1>4, Ends
  <2>2. k.pc # "insert" /\ k.pc \notin Tells
    BY <2>1 DEF Tells
  <2>. QED
    BY <1>1, <1>2, <1>4, <2>1, <2>2, QuietKeeps
<1>5. CASE ~ (Collab!Done(u) /\ UNCHANGED comment)
  <2>1. /\ session[s].exists /\ (p = NoOne \/ comment[p].exists)
        /\ req' = [req EXCEPT ![u].pc = "mentions", ![u].left = req[u].mentions \ {u}]
    BY <1>0, <1>3, <1>5 DEF Collab!InsertComment
  <2>2. PICK kind \in {"no", "pending"} : comment' = [comment EXCEPT ![c] =
          [exists |-> TRUE, session |-> s, author |-> u, parent |-> p,
           suggestion |-> kind, reactions |-> {}]]
    BY <1>3, <1>5 DEF Collab!InsertComment
  <2>3. PICK row : row = [exists |-> TRUE, session |-> s, author |-> u, parent |-> p,
                          suggestion |-> kind, reactions |-> {}]
    OBVIOUS
  <2>4. row \in CommentRow /\ row.exists /\ row.author = u /\ row.parent = p /\ row.session = s
    BY <2>3 DEF CommentRow
  <2>5. comment' \in [Comments -> CommentRow] /\ comment'[c] = row
        /\ \A d \in Comments \ {c} : comment'[d] = comment[d]
    BY <1>0, <2>2, <2>3, <2>4
  <2>6. PICK k : k = [req[u] EXCEPT !.pc = "mentions", !.left = req[u].mentions \ {u}]
    OBVIOUS
  <2>7. /\ k \in CommentReq /\ k.pc = "mentions" /\ k.left = k.mentions \ {u} /\ k.c = c
        /\ k.parent = p /\ k.subscribers = {}
    BY <1>1, <1>3, <2>6 DEF CommentReq, Tells, Inserts
  <2>8. Becomes(u, k) /\ k \in AnyReq
    BY <1>0, <2>1, <2>6, <2>7 DEF Becomes, AnyReq
  <2>9. comment[c].author = NoOne /\ ~ comment[c].exists /\ u # NoOne
    BY <1>0, <1>1, <1>3, Authored DEF Inserts, CollabConstants
  <2>10. p # NoOne => p # c /\ comment'[p].exists
    BY <2>1, <2>5, <2>9
  <2>11. CommentRows'
    <3>1. \A d \in Comments : comment'[d].author = NoOne => comment'[d] = Collab!NoComment
      BY <1>0, <2>4, <2>5, <2>9 DEF CommentRows
    <3>2. ASSUME NEW d \in Comments, comment'[d].exists
          PROVE  /\ comment'[d].session \in Sessions /\ session'[comment'[d].session].exists
                 /\ comment'[d].parent # NoOne => comment'[comment'[d].parent].exists
      <4>1. CASE d = c
        BY <1>1, <2>1, <2>4, <2>5, <2>10, <4>1
      <4>2. CASE d # c
        <5>1. comment'[d] = comment[d] /\ comment[d].exists /\ comment[d] \in CommentRow
          BY <1>0, <2>5, <3>2, <4>2
        <5>2. comment[d].session \in Sessions /\ session'[comment[d].session].exists
          BY <1>0, <1>1, <5>1 DEF CommentRows
        <5>3. comment[d].parent # NoOne =>
                comment[d].parent \in Comments /\ comment[comment[d].parent].exists
          BY <1>0, <5>1 DEF CommentRows, CommentRow
        <5>4. comment[d].parent # NoOne => comment'[comment[d].parent].exists
          BY <2>5, <2>9, <5>3
        <5>. QED
          BY <5>1, <5>2, <5>4
      <4>. QED
        BY <4>1, <4>2
    <3>. QED
      BY <2>5, <3>1, <3>2 DEF CommentRows
  <2>12. About(c) = {}
    BY <1>0, <2>9 DEF About, NotesOk, CollabConstants
  <2>13. \A d \in Comments : About(d)' = About(d) /\ \A n \in About(d) : notes'[n] = notes[n]
    BY <1>1 DEF About
  <2>14. NotesOk'
    BY <1>0, <1>1, <2>5, <2>9 DEF NotesOk, Collab!IsABag
  <2>15. Evolves
    BY <2>5, <2>9 DEF Evolves
  <2>16. req'[u] = k
    BY <1>0, <2>8 DEF Becomes
  <2>17. TellsOf(u)'
    <3>1. Sent(u)' = {}
      <4>1. NotesTo({}, "mention", c) = {} /\ NotesTo({}, "new_comment", c) = {}
        BY DEF NotesTo
      <4>2. Mentions(u)' = {}
        BY <2>7, <2>16, <4>1 DEF Mentions, NotesTo
      <4>3. Reply(u)' = {}
        BY <2>7, <2>16 DEF Reply
      <4>4. News(u)' = {}
        BY <2>7, <2>16, <4>1 DEF News, NotesTo
      <4>. QED
        BY <4>2, <4>3, <4>4 DEF Sent
    <3>2. About(c)' = {}
      BY <2>12, <2>13
    <3>. QED
      BY <2>4, <2>5, <2>7, <2>16, <3>1, <3>2 DEF TellsOf, About
  <2>18. \A d \in Comments : comment[d].author = NoOne =>
           comment'[d].author = NoOne \/ (req[u].pc = "insert" /\ req[u].c = d)
    BY <1>1, <1>3, <2>5
  <2>19. \A d \in Comments : comment[d].author \notin {NoOne, u} =>
           About(d)' = About(d) /\ \A n \in About(d) : notes'[n] = notes[n]
    BY <2>13
  <2>20. k.pc # "insert"
    BY <2>7
  <2>. QED
    BY <1>2, <2>8, <2>11, <2>14, <2>15, <2>17, <2>18, <2>19, <2>20, StepKeeps, Zenon
<1>. QED
  BY <1>4, <1>5

\* A step of a request that tells of its comment: k goes on telling of the same.
GoesOnTelling(u, k) ==
    /\ req[u].pc \in Tells /\ k \in CommentReq /\ k.pc \in Tells /\ Becomes(u, k)
    /\ UNCHANGED <<team, role, session, comment, requests>> /\ faults' \in 0..MaxFaults
    /\ k.c = req[u].c /\ k.parent = req[u].parent /\ k.mentions = req[u].mentions
    /\ k.whole => req[u].whole
    /\ k.pc = "mentions" => k.left \subseteq k.mentions \ {u}
    /\ k.pc \in {"mentions", "reply", "list"} => k.subscribers = {}
    /\ k.pc = "subscribers" => k.left \subseteq k.subscribers \ (k.mentions \cup {u})

\* It tells nobody, and should not have; or it tells one whom it had not told.
LEMMA TellingKeeps ==
    ASSUME CollabConstants, CollabInv, NEW u \in Users, NEW k, GoesOnTelling(u, k), NEW c, c = req[u].c,
           \/ /\ UNCHANGED notes
              /\ k.whole /\ comment[c].exists => Sent(u)' = Sent(u)
           \/ \E n : /\ n.about = c /\ Collab!IsABag(notes)' /\ DOMAIN notes' = DOMAIN notes \cup {n}
                     /\ n \notin DOMAIN notes => notes'[n] = 1
                     /\ \A m \in DOMAIN notes \ {n} : notes'[m] = notes[m]
                     /\ k.whole /\ comment[c].exists => n \notin Sent(u) /\ Sent(u)' = Sent(u) \cup {n}
    PROVE  CollabInv'
<1>0. /\ Tables /\ CommentRows /\ NotesOk /\ req \in [Users -> AnyReq] /\ TellsOf(u)
      /\ req[u] \in CommentReq /\ k \in CommentReq /\ Becomes(u, k) /\ UNCHANGED comment
  BY ByPlace DEF CollabInv, GoesOnTelling
<1>1. Tables' /\ CommentRows' /\ Evolves
  BY <1>0 DEF GoesOnTelling, Tables, CommentRows, Evolves
<1>2. c \in Comments /\ comment[c].author = u /\ u # NoOne /\ req'[u] = k /\ k.c = c
  BY <1>0 DEF CommentReq, TellsOf, CollabConstants, Becomes, GoesOnTelling
<1>3. req[u].whole /\ comment[c].exists => About(c) = Sent(u) /\ \A n \in Sent(u) : notes[n] = 1
  BY <1>0 DEF TellsOf
<1>4. /\ NotesOk'
      /\ \A d \in Comments \ {c} : About(d)' = About(d) /\ \A n \in About(d) : notes'[n] = notes[n]
      /\ k.whole /\ comment[c].exists => About(c)' = Sent(u)' /\ \A n \in Sent(u)' : notes'[n] = 1
  <2>1. CASE /\ UNCHANGED notes
             /\ k.whole /\ comment[c].exists => Sent(u)' = Sent(u)
    <3>1. NotesOk'
      BY <1>0, <2>1 DEF NotesOk, Collab!IsABag
    <3>2. \A d \in Comments : About(d)' = About(d)
      BY <2>1 DEF About
    <3>3. k.whole => req[u].whole
      BY DEF GoesOnTelling
    <3>. QED
      BY <1>2, <1>3, <2>1, <3>1, <3>2, <3>3
  <2>2. ASSUME NEW n, n.about = c, Collab!IsABag(notes)', DOMAIN notes' = DOMAIN notes \cup {n},
               n \notin DOMAIN notes => notes'[n] = 1,
               \A m \in DOMAIN notes \ {n} : notes'[m] = notes[m],
               k.whole /\ comment[c].exists => n \notin Sent(u) /\ Sent(u)' = Sent(u) \cup {n}
        PROVE  /\ NotesOk'
               /\ \A d \in Comments \ {c} : About(d)' = About(d) /\ \A m \in About(d) : notes'[m] = notes[m]
               /\ k.whole /\ comment[c].exists => About(c)' = Sent(u)' /\ \A m \in Sent(u)' : notes'[m] = 1
    <3>1. NotesOk'
      BY <1>0, <1>2, <2>2 DEF NotesOk
    <3>2. \A d \in Comments \ {c} : About(d)' = About(d) /\ \A m \in About(d) : notes'[m] = notes[m]
      BY <2>2 DEF About
    <3>3. About(c)' = About(c) \cup {n}
      BY <2>2 DEF About
    <3>4. ASSUME k.whole, comment[c].exists
          PROVE  About(c)' = Sent(u)' /\ \A m \in Sent(u)' : notes'[m] = 1
      <4>1. About(c) = Sent(u) /\ \A m \in Sent(u) : notes[m] = 1
        BY <1>3, <3>4 DEF GoesOnTelling
      <4>2. n \notin DOMAIN notes
        BY <2>2, <3>4, <4>1 DEF About
      <4>3. \A m \in Sent(u) : m \in DOMAIN notes
        BY <4>1 DEF About
      <4>. QED
        BY <2>2, <3>3, <3>4, <4>1, <4>2, <4>3
    <3>. QED
      BY <3>1, <3>2, <3>4
  <2>. QED
    BY <2>1, <2>2
<1>5. TellsOf(u)'
  <2>1. About(c)' = About(req[u].c)'
    BY <1>2 DEF About
  <2>. QED
    BY <1>0, <1>2, <1>4, <2>1 DEF TellsOf, GoesOnTelling
<1>6. \A d \in Comments : comment[d].author = NoOne =>
        comment'[d].author = NoOne \/ (req[u].pc = "insert" /\ req[u].c = d)
  BY <1>0
<1>7. \A d \in Comments : comment[d].author \notin {NoOne, u} =>
        About(d)' = About(d) /\ \A n \in About(d) : notes'[n] = notes[n]
  BY <1>2, <1>4
<1>8. k \in AnyReq /\ k.pc # "insert"
  BY <1>0 DEF AnyReq, GoesOnTelling, Tells
<1>. QED
  BY <1>0, <1>1, <1>4, <1>5, <1>6, <1>7, <1>8, StepKeeps, Zenon

\* Each of the four steps.
LEMMA TellingSteps ==
    ASSUME CollabConstants, CollabInv, NEW u \in Users,
           \/ Collab!TellMentioned(u) \/ Collab!TellParent(u)
           \/ Collab!ListSubscribers(u) \/ Collab!TellSubscriber(u)
    PROVE  CollabInv'
<1>. USE DEF Collab!At
<1>0. /\ Tables /\ CommentRows /\ NotesOk /\ req \in [Users -> AnyReq] /\ req[u] \in CommentReq
      /\ TellsOf(u) /\ UNCHANGED <<team, role, session, comment, requests>>
  BY ByPlace DEF CollabInv, Collab!TellMentioned, Collab!TellParent, Collab!ListSubscribers,
                 Collab!TellSubscriber, Tells
<1>a. PICK c : c = req[u].c
  OBVIOUS
<1>b. Collab!Fault => faults' \in 0..MaxFaults
  BY <1>0 DEF Collab!Fault, Tables, CollabConstants
<1>c. faults \in 0..MaxFaults
  BY <1>0 DEF Tables
<1>1. CASE Collab!TellMentioned(u)
  <2>0. req[u].pc = "mentions" /\ req[u].left \subseteq req[u].mentions \ {u} /\ req[u].subscribers = {}
    BY <1>0, <1>1 DEF Collab!TellMentioned, TellsOf
  <2>1. CASE req[u].left = {} /\ Collab!Then(u, "reply") /\ UNCHANGED <<notes, faults>>
    <3>1. PICK k : k = [req[u] EXCEPT !.pc = "reply"]
      OBVIOUS
    <3>2. Becomes(u, k) /\ req'[u] = k
      BY <1>0, <2>1, <3>1 DEF Becomes, Collab!Then
    <3>3. /\ k \in CommentReq /\ k.pc = "reply" /\ k.left = req[u].left /\ k.c = c
          /\ k.mentions = req[u].mentions /\ k.parent = req[u].parent
          /\ k.subscribers = req[u].subscribers /\ k.whole = req[u].whole
      BY <1>0, <1>a, <3>1 DEF CommentReq, Tells
    <3>4. GoesOnTelling(u, k)
      BY <1>0, <1>a, <1>c, <2>0, <2>1, <3>2, <3>3 DEF GoesOnTelling, Tells
    <3>5. Mentions(u)' = Mentions(u) /\ Reply(u)' = Reply(u) /\ News(u)' = News(u)
      BY <1>a, <2>0, <2>1, <3>2, <3>3 DEF Mentions, Reply, News, NotesTo, Note
    <3>. QED
      BY <1>a, <2>1, <3>4, <3>5, TellingKeeps DEF Sent
  <2>2. ASSUME NEW v \in req[u].left, Collab!Told(v, "mention", req[u].c), UNCHANGED faults,
               req' = [req EXCEPT ![u].left = req[u].left \ {v}]
        PROVE  CollabInv'
    <3>1. PICK k : k = [req[u] EXCEPT !.left = req[u].left \ {v}]
      OBVIOUS
    <3>2. Becomes(u, k) /\ req'[u] = k
      BY <1>0, <2>2, <3>1 DEF Becomes
    <3>3. /\ k \in CommentReq /\ k.pc = "mentions" /\ k.left = req[u].left \ {v} /\ k.c = c
          /\ k.mentions = req[u].mentions /\ k.parent = req[u].parent
          /\ k.subscribers = req[u].subscribers /\ k.whole = req[u].whole
      BY <1>0, <1>a, <2>0, <3>1 DEF CommentReq
    <3>4. GoesOnTelling(u, k)
      BY <1>0, <1>a, <1>c, <2>0, <2>2, <3>2, <3>3 DEF GoesOnTelling, Tells
    <3>5. PICK n : n = Note(v, "mention", c)
      OBVIOUS
    <3>6. Mentions(u)' = Mentions(u) \cup {n}
      <4>1. PICK S : S = (req[u].mentions \ {u}) \ req[u].left
        OBVIOUS
      <4>2. (k.mentions \ {u}) \ k.left = S \cup {v}
        BY <2>0, <2>2, <3>3, <4>1
      <4>3. Mentions(u) = NotesTo(S, "mention", c)
        BY <1>a, <2>0, <4>1 DEF Mentions
      <4>4. Mentions(u)' = NotesTo(S \cup {v}, "mention", c)
        BY <3>2, <3>3, <4>2 DEF Mentions, NotesTo, Note
      <4>. QED
        BY <3>5, <4>3, <4>4, NotesToOneMore
    <3>7. Reply(u)' = Reply(u) /\ News(u)' = News(u)
      BY <1>a, <2>0, <3>2, <3>3 DEF Reply, News, NotesTo, Note
    <3>8. n \notin Sent(u)
      <4>1. n.to = v /\ n.kind = "mention"
        BY <3>5, NoteFields
      <4>2. n \notin Mentions(u)
        BY <2>0, <4>1, NotesToFields DEF Mentions
      <4>3. n \notin News(u)
        BY <4>1, NotesToFields DEF News
      <4>. QED
        BY <2>0, <4>2, <4>3 DEF Sent, Reply
    <3>9. /\ Collab!IsABag(notes)' /\ DOMAIN notes' = DOMAIN notes \cup {n}
          /\ n \notin DOMAIN notes => notes'[n] = 1
          /\ \A m \in DOMAIN notes \ {n} : notes'[m] = notes[m]
      BY <1>0, <1>a, <2>2, <3>5, NoteAdded DEF NotesOk
    <3>10. n.about = c
      BY <3>5, NoteFields
    <3>11. Sent(u)' = Sent(u) \cup {n}
      BY <3>6, <3>7 DEF Sent
    <3>. QED
      BY <1>a, <3>4, <3>8, <3>9, <3>10, <3>11, TellingKeeps
  <2>3. ASSUME NEW v \in req[u].left, Collab!Fault, UNCHANGED notes,
               req' = [req EXCEPT ![u].left = req[u].left \ {v}, ![u].whole = FALSE]
        PROVE  CollabInv'
    <3>1. PICK k : k = [req[u] EXCEPT !.left = req[u].left \ {v}, !.whole = FALSE]
      OBVIOUS
    <3>2. Becomes(u, k) /\ req'[u] = k
      BY <1>0, <2>3, <3>1 DEF Becomes
    <3>3. /\ k \in CommentReq /\ k.pc = "mentions" /\ k.left = req[u].left \ {v} /\ k.c = c
          /\ k.mentions = req[u].mentions /\ k.parent = req[u].parent
          /\ k.subscribers = req[u].subscribers /\ ~ k.whole
      BY <1>0, <1>a, <2>0, <3>1 DEF CommentReq
    <3>4. GoesOnTelling(u, k)
      BY <1>0, <1>a, <1>b, <2>0, <2>3, <3>2, <3>3 DEF GoesOnTelling, Tells
    <3>. QED
      BY <1>a, <2>3, <3>3, <3>4, TellingKeeps
  <2>. QED
    BY <1>1, <2>1, <2>2, <2>3 DEF Collab!TellMentioned
<1>2. CASE Collab!TellParent(u)
  <2>0. req[u].pc = "reply" /\ req[u].subscribers = {} /\ req[u].parent \in {NoOne} \cup Comments
    BY <1>0, <1>2 DEF Collab!TellParent, TellsOf, CommentReq
  <2>1. PICK p \in {NoOne} \cup Comments : p = req[u].parent
    BY <2>0
  <2>2. comment[c].exists /\ p # NoOne => comment[p].exists
    <3>1. c \in Comments
      BY <1>0, <1>a DEF CommentReq
    <3>2. comment[c].exists => comment[c].parent = p
      BY <1>0, <1>a, <2>1 DEF TellsOf
    <3>. QED
      BY <1>0, <3>1, <3>2 DEF CommentRows
  <2>3. CASE /\ Collab!Then(u, "list") /\ UNCHANGED faults
             /\ IF p # NoOne /\ comment[p].exists /\ comment[p].author # u
                THEN Collab!Told(comment[p].author, "reply", c) ELSE UNCHANGED notes
    <3>1. PICK k : k = [req[u] EXCEPT !.pc = "list"]
      OBVIOUS
    <3>2. Becomes(u, k) /\ req'[u] = k
      BY <1>0, <2>3, <3>1 DEF Becomes, Collab!Then
    <3>3. /\ k \in CommentReq /\ k.pc = "list" /\ k.left = req[u].left /\ k.c = c
          /\ k.mentions = req[u].mentions /\ k.parent = p
          /\ k.subscribers = req[u].subscribers /\ k.whole = req[u].whole
      BY <1>0, <1>a, <2>1, <3>1 DEF CommentReq, Tells
    <3>4. GoesOnTelling(u, k)
      BY <1>0, <1>a, <1>c, <2>0, <2>1, <2>3, <3>2, <3>3 DEF GoesOnTelling, Tells
    <3>5. Mentions(u)' = Mentions(u) /\ News(u)' = News(u) /\ Reply(u) = {}
      BY <1>a, <2>0, <3>2, <3>3 DEF Mentions, News, Reply, NotesTo, Note
    <3>6. CASE p # NoOne /\ comment[p].exists /\ comment[p].author # u
      <4>1. PICK n : n = Note(comment[p].author, "reply", c)
        OBVIOUS
      <4>2. Collab!Told(comment[p].author, "reply", c)
        BY <2>3, <3>6
      <4>3. /\ Collab!IsABag(notes)' /\ DOMAIN notes' = DOMAIN notes \cup {n}
            /\ n \notin DOMAIN notes => notes'[n] = 1
            /\ \A m \in DOMAIN notes \ {n} : notes'[m] = notes[m]
        BY <1>0, <4>1, <4>2, NoteAdded DEF NotesOk
      <4>4. n.about = c /\ n.kind = "reply"
        BY <4>1, NoteFields
      <4>5. Reply(u)' = {n}
        BY <1>0, <3>2, <3>3, <3>6, <4>1 DEF Reply, Note
      <4>6. n \notin Sent(u)
        <5>1. n \notin Mentions(u)
          BY <4>4, NotesToFields DEF Mentions
        <5>2. n \notin News(u)
          BY <4>4, NotesToFields DEF News
        <5>. QED
          BY <3>5, <5>1, <5>2 DEF Sent
      <4>7. Sent(u)' = Sent(u) \cup {n}
        BY <3>5, <4>5 DEF Sent
      <4>. QED
        BY <1>a, <3>4, <4>3, <4>4, <4>6, <4>7, TellingKeeps
    <3>7. CASE ~ (p # NoOne /\ comment[p].exists /\ comment[p].author # u)
      <4>1. UNCHANGED notes
        BY <2>3, <3>7
      <4>2. comment[c].exists => Reply(u)' = {}
        BY <1>0, <2>2, <3>2, <3>3, <3>7 DEF Reply
      <4>3. comment[c].exists => Sent(u)' = Sent(u)
        BY <3>5, <4>2 DEF Sent
      <4>. QED
        BY <1>a, <3>4, <4>1, <4>3, TellingKeeps
    <3>. QED
      BY <3>6, <3>7
  <2>4. CASE /\ Collab!Fault /\ UNCHANGED notes
             /\ req' = [req EXCEPT ![u].pc = "list", ![u].whole = FALSE]
    <3>1. PICK k : k = [req[u] EXCEPT !.pc = "list", !.whole = FALSE]
      OBVIOUS
    <3>2. Becomes(u, k)
      BY <1>0, <2>4, <3>1 DEF Becomes
    <3>3. /\ k \in CommentReq /\ k.pc = "list" /\ k.left = req[u].left /\ k.c = c
          /\ k.mentions = req[u].mentions /\ k.parent = p
          /\ k.subscribers = req[u].subscribers /\ ~ k.whole
      BY <1>0, <1>a, <2>1, <3>1 DEF CommentReq, Tells
    <3>4. GoesOnTelling(u, k)
      BY <1>0, <1>a, <1>b, <2>0, <2>1, <2>4, <3>2, <3>3 DEF GoesOnTelling, Tells
    <3>. QED
      BY <1>a, <2>4, <3>3, <3>4, TellingKeeps
  <2>. QED
    BY <1>2, <1>a, <2>1, <2>3, <2>4 DEF Collab!TellParent
<1>3. CASE Collab!ListSubscribers(u)
  <2>0. req[u].pc = "list" /\ req[u].subscribers = {} /\ UNCHANGED <<notes, faults>>
    BY <1>0, <1>3 DEF Collab!ListSubscribers, TellsOf
  <2>1. PICK S \in SUBSET Users : S = session[req[u].s].subscribers
    <3>1. req[u].s \in Sessions
      BY <1>0 DEF CommentReq
    <3>2. session[req[u].s] \in SessionRow
      BY <1>0, <3>1 DEF Tables
    <3>. QED
      BY <3>2 DEF SessionRow
  <2>2. PICK L \in SUBSET Users : L = (S \ {u}) \ req[u].mentions
    OBVIOUS
  <2>3. PICK k : k = [req[u] EXCEPT !.pc = "subscribers", !.subscribers = S, !.left = L]
    OBVIOUS
  <2>4. Becomes(u, k) /\ req'[u] = k
    BY <1>0, <1>3, <2>1, <2>2, <2>3 DEF Becomes, Collab!ListSubscribers, Collab!SubscribersToTell
  <2>5. /\ k \in CommentReq /\ k.pc = "subscribers" /\ k.left = L /\ k.c = c
        /\ k.mentions = req[u].mentions /\ k.parent = req[u].parent
        /\ k.subscribers = S /\ k.whole = req[u].whole
    BY <1>0, <1>a, <2>3 DEF CommentReq, Tells
  <2>6. GoesOnTelling(u, k)
    BY <1>0, <1>a, <1>c, <2>0, <2>2, <2>4, <2>5 DEF GoesOnTelling, Tells
  <2>7. Mentions(u)' = Mentions(u) /\ Reply(u)' = Reply(u)
    BY <1>0, <1>a, <2>0, <2>4, <2>5 DEF Mentions, Reply, NotesTo, Note
  <2>8. News(u)' = News(u)
    <3>1. (S \ (req[u].mentions \cup {u})) \ L = {}
      BY <2>2
    <3>2. News(u)' = NotesTo({}, "new_comment", c)
      BY <2>4, <2>5, <3>1 DEF News, NotesTo, Note
    <3>3. News(u) = NotesTo({}, "new_comment", c)
      BY <1>a, <2>0 DEF News, NotesTo, Note
    <3>. QED
      BY <3>2, <3>3
  <2>. QED
    BY <1>a, <2>0, <2>6, <2>7, <2>8, TellingKeeps DEF Sent
<1>4. CASE Collab!TellSubscriber(u)
  <2>0. /\ req[u].pc = "subscribers"
        /\ req[u].left \subseteq req[u].subscribers \ (req[u].mentions \cup {u})
    BY <1>0, <1>4 DEF Collab!TellSubscriber, TellsOf
  <2>1. CASE req[u].left = {} /\ Collab!Then(u, "told") /\ UNCHANGED <<notes, faults>>
    <3>1. PICK k : k = [req[u] EXCEPT !.pc = "told"]
      OBVIOUS
    <3>2. Becomes(u, k) /\ req'[u] = k
      BY <1>0, <2>1, <3>1 DEF Becomes, Collab!Then
    <3>3. /\ k \in CommentReq /\ k.pc = "told" /\ k.left = req[u].left /\ k.c = c
          /\ k.mentions = req[u].mentions /\ k.parent = req[u].parent
          /\ k.subscribers = req[u].subscribers /\ k.whole = req[u].whole
      BY <1>0, <1>a, <3>1 DEF CommentReq, Tells
    <3>4. GoesOnTelling(u, k)
      BY <1>0, <1>a, <1>c, <2>0, <2>1, <3>2, <3>3 DEF GoesOnTelling, Tells
    <3>5. Mentions(u)' = Mentions(u) /\ Reply(u)' = Reply(u) /\ News(u)' = News(u)
      BY <1>0, <1>a, <2>0, <2>1, <3>2, <3>3 DEF Mentions, Reply, News, NotesTo, Note
    <3>. QED
      BY <1>a, <2>1, <3>4, <3>5, TellingKeeps DEF Sent
  <2>2. ASSUME NEW v \in req[u].left, Collab!Told(v, "new_comment", req[u].c), UNCHANGED faults,
               req' = [req EXCEPT ![u].left = req[u].left \ {v}]
        PROVE  CollabInv'
    <3>1. PICK k : k = [req[u] EXCEPT !.left = req[u].left \ {v}]
      OBVIOUS
    <3>2. Becomes(u, k) /\ req'[u] = k
      BY <1>0, <2>2, <3>1 DEF Becomes
    <3>3. /\ k \in CommentReq /\ k.pc = "subscribers" /\ k.left = req[u].left \ {v} /\ k.c = c
          /\ k.mentions = req[u].mentions /\ k.parent = req[u].parent
          /\ k.subscribers = req[u].subscribers /\ k.whole = req[u].whole
      BY <1>0, <1>a, <2>0, <3>1 DEF CommentReq
    <3>4. GoesOnTelling(u, k)
      BY <1>0, <1>a, <1>c, <2>0, <2>2, <3>2, <3>3 DEF GoesOnTelling, Tells
    <3>5. PICK n : n = Note(v, "new_comment", c)
      OBVIOUS
    <3>6. News(u)' = News(u) \cup {n}
      <4>1. PICK S : S = (req[u].subscribers \ (req[u].mentions \cup {u})) \ req[u].left
        OBVIOUS
      <4>2. (k.subscribers \ (k.mentions \cup {u})) \ k.left = S \cup {v}
        BY <2>0, <2>2, <3>3, <4>1
      <4>3. News(u) = NotesTo(S, "new_comment", c)
        BY <1>a, <2>0, <4>1 DEF News
      <4>4. News(u)' = NotesTo(S \cup {v}, "new_comment", c)
        BY <3>2, <3>3, <4>2 DEF News, NotesTo, Note
      <4>. QED
        BY <3>5, <4>3, <4>4, NotesToOneMore
    <3>7. Reply(u)' = Reply(u) /\ Mentions(u)' = Mentions(u)
      BY <1>0, <1>a, <2>0, <3>2, <3>3 DEF Reply, Mentions, NotesTo, Note
    <3>8. n \notin Sent(u)
      <4>1. n.to = v /\ n.kind = "new_comment"
        BY <3>5, NoteFields
      <4>2. n \notin News(u)
        BY <2>0, <4>1, NotesToFields DEF News
      <4>3. n \notin Mentions(u)
        BY <4>1, NotesToFields DEF Mentions
      <4>4. n \notin Reply(u)
        BY <4>1, NoteFields DEF Reply
      <4>. QED
        BY <4>2, <4>3, <4>4 DEF Sent
    <3>9. /\ Collab!IsABag(notes)' /\ DOMAIN notes' = DOMAIN notes \cup {n}
          /\ n \notin DOMAIN notes => notes'[n] = 1
          /\ \A m \in DOMAIN notes \ {n} : notes'[m] = notes[m]
      <4>1. Collab!IsABag(notes) /\ Collab!Told(v, "new_comment", c)
        BY <1>0, <1>a, <2>2 DEF NotesOk
      <4>. QED
        BY <3>5, <4>1, NoteAdded
    <3>10. n.about = c
      BY <3>5, NoteFields
    <3>11. Sent(u)' = Sent(u) \cup {n}
      BY <3>6, <3>7 DEF Sent
    <3>. QED
      BY <1>a, <3>4, <3>8, <3>9, <3>10, <3>11, TellingKeeps
  <2>3. CASE /\ Collab!Fault /\ UNCHANGED notes
             /\ req' = [req EXCEPT ![u].pc = "told", ![u].left = {}, ![u].whole = FALSE]
    <3>1. PICK k : k = [req[u] EXCEPT !.pc = "told", !.left = {}, !.whole = FALSE]
      OBVIOUS
    <3>2. Becomes(u, k) /\ req'[u] = k
      BY <1>0, <2>3, <3>1 DEF Becomes
    <3>3. /\ k \in CommentReq /\ k.pc = "told" /\ k.c = c
          /\ k.mentions = req[u].mentions /\ k.parent = req[u].parent /\ ~ k.whole
      BY <1>0, <1>a, <3>1 DEF CommentReq, Tells
    <3>4. GoesOnTelling(u, k)
      BY <1>0, <1>a, <1>b, <2>0, <2>3, <3>2, <3>3 DEF GoesOnTelling, Tells
    <3>. QED
      BY <1>a, <2>3, <3>3, <3>4, TellingKeeps
  <2>. QED
    BY <1>4, <2>1, <2>2, <2>3 DEF Collab!TellSubscriber
<1>. QED
  BY <1>1, <1>2, <1>3, <1>4

\* A request that fails, or whose process dies, ends where it is.
LEMMA FailureKeeps ==
    ASSUME CollabConstants, CollabInv, NEW u \in Users, Collab!RequestFails(u)
    PROVE  CollabInv'
<1>1. UNCHANGED <<team, role, session, comment, notes, requests>> /\ Collab!Done(u)
      /\ faults' \in 0..MaxFaults
  BY DEF Collab!RequestFails, Collab!Fault, CollabInv, Tables, CollabConstants
<1>2. PICK k \in AnyReq : Becomes(u, k) /\ k.pc = "idle"
  BY <1>1, Ends
<1>3. k.pc # "insert" /\ k.pc \notin Tells
  BY <1>2 DEF Tells
<1>4. Tables' /\ \A s \in Sessions : session[s].exists => session'[s].exists
  BY <1>1 DEF CollabInv, Tables
<1>. QED
  BY <1>1, <1>2, <1>3, <1>4, QuietKeeps

\* Nothing is there at first.
LEMMA CollabInit == ASSUME CollabConstants, Collab!Init PROVE CollabInv
<1>1. Collab!NoTeam \in TeamRow /\ "none" \in Collab!Roles
  BY DEF Collab!NoTeam, TeamRow, Collab!Roles
<1>2. Collab!NoSession \in SessionRow /\ Collab!NoSession.teams = {}
  BY DEF Collab!NoSession, SessionRow
<1>3. Collab!NoComment \in CommentRow /\ ~ Collab!NoComment.exists
  BY DEF Collab!NoComment, CommentRow
<1>4. Collab!Idle \in AnyReq /\ Collab!Idle.pc \notin {"insert"} \cup Tells
  BY DEF Collab!Idle, AnyReq, Tells
<1>5. Tables
  BY <1>1, <1>2 DEF Collab!Init, Tables, CollabConstants
<1>6. CommentRows
  BY <1>3 DEF Collab!Init, CommentRows
<1>7. NotesOk
  <2>1. notes = [e \in {} |-> 1]
    BY DEF Collab!Init, Collab!EmptyBag, Collab!SetToBag
  <2>. QED
    BY <2>1 DEF NotesOk, Collab!IsABag
<1>8. req \in [Users -> AnyReq] /\ \A u \in Users : req[u].pc \notin {"insert"} \cup Tells
  BY <1>4 DEF Collab!Init
<1>. QED
  BY <1>5, <1>6, <1>7, <1>8 DEF CollabInv

\* Who has told of everything has told everybody, once.
LEMMA CollabInvSuffices ==
    ASSUME CollabConstants, CollabInv
    PROVE  Collab!TypeOK /\ Collab!EachReasonIsToldOnce
<1>1. Collab!TypeOK
  <2>1. \A s \in Sessions : session[s] \in SessionRow
    BY DEF CollabInv, Tables
  <2>2. \A s \in Sessions :
          /\ session[s].visibility \in {"private", "team", "public"}
          /\ session[s].subscribers \subseteq Users /\ session[s].pins \subseteq Users \X SharedWith
    BY <2>1 DEF SessionRow
  <2>3. \A c \in Comments : comment[c].exists =>
          session[comment[c].session].exists /\ comment[c].author \in Users
    <3>. TAKE c \in Comments
    <3>1. comment[c] \in CommentRow
      BY DEF CollabInv, CommentRows
    <3>2. comment[c].exists => comment[c].author # NoOne
      BY Authored DEF CollabInv
    <3>. QED
      BY <3>1, <3>2 DEF CollabInv, CommentRows, CommentRow
  <2>. QED
    BY <2>2, <2>3 DEF CollabInv, Tables, NotesOk, TeamRow, Collab!TypeOK
<1>2. ASSUME NEW u \in Users, req[u].pc = "told", req[u].whole, comment[req[u].c].exists
      PROVE  /\ {n \in Collab!BagToSet(notes) : n.about = req[u].c} = Collab!Audience(u)
             /\ \A n \in Collab!Audience(u) : notes[n] = 1
             /\ \A m, n \in Collab!Audience(u) :
                  m.to = n.to /\ m # n => "reply" \in {m.kind, n.kind}
  <2>1. About(req[u].c) = Sent(u) /\ \A n \in Sent(u) : notes[n] = 1
    BY <1>2 DEF CollabInv, TellsOf, Tells
  <2>2. Collab!Audience(u) = Sent(u)
    <3>1. Mentions(u) = {[to |-> v, kind |-> "mention", about |-> req[u].c] : v \in req[u].mentions \ {u}}
      BY <1>2 DEF Mentions, NotesTo, Note
    <3>2. News(u) = {[to |-> v, kind |-> "new_comment", about |-> req[u].c] :
                       v \in req[u].subscribers \ (req[u].mentions \cup {u})}
      BY <1>2 DEF News, NotesTo, Note
    <3>3. Reply(u) = IF req[u].parent # NoOne /\ comment[req[u].parent].author # u
                     THEN {[to |-> comment[req[u].parent].author, kind |-> "reply", about |-> req[u].c]}
                     ELSE {}
      BY <1>2 DEF Reply, Note
    <3>. QED
      BY <3>1, <3>2, <3>3, Zenon DEF Sent, Collab!Audience
  <2>3. ASSUME NEW m \in Sent(u), NEW n \in Sent(u), m.to = n.to, m # n, m.kind # "reply"
        PROVE  n.kind = "reply"
    <3>1. \/ m.kind = "mention" /\ m.to \in req[u].mentions /\ m = Note(m.to, "mention", req[u].c)
          \/ /\ m.kind = "new_comment" /\ m.to \notin req[u].mentions
             /\ m = Note(m.to, "new_comment", req[u].c)
      BY <1>2, <2>3 DEF Sent, Mentions, News, Reply, NotesTo, Note
    <3>2. \/ n.kind = "reply"
          \/ n.to \in req[u].mentions /\ n = Note(n.to, "mention", req[u].c)
          \/ n.to \notin req[u].mentions /\ n = Note(n.to, "new_comment", req[u].c)
      BY <1>2, <2>3 DEF Sent, Mentions, News, Reply, NotesTo, Note
    <3>. QED
      BY <2>3, <3>1, <3>2
  <2>. QED
    BY <2>1, <2>2, <2>3 DEF About, Collab!BagToSet
<1>. QED
  BY <1>1, <1>2 DEF Collab!EachReasonIsToldOnce

\* When a comment was stored and nothing failed, everybody it mentions and the subscribers
\* who were not mentioned were told of it once, the author of the comment it replies to was
\* told of the reply once, and nobody else: add_comment in app/routers/comments.py, with other requests in between.
THEOREM EachReasonIsToldOnceCorrect ==
    ASSUME CollabConstants PROVE Collab!Spec => [](Collab!TypeOK /\ Collab!EachReasonIsToldOnce)
<1>1. Collab!Init => CollabInv
  BY CollabInit
<1>2. CollabInv /\ [Collab!Next]_(Collab!collabVars) => CollabInv'
  <2>. SUFFICES ASSUME CollabInv, [Collab!Next]_(Collab!collabVars) PROVE CollabInv'
    OBVIOUS
  <2>1. CASE UNCHANGED Collab!collabVars
    BY <2>1 DEF Collab!collabVars, CollabInv, Tables, CommentRows, NotesOk, Collab!IsABag, Inserts,
                TellsOf, Sent, Mentions, Reply, News, NotesTo, Note, About
  <2>2. ASSUME NEW u \in Users, Collab!TeamRequest(u)
        PROVE  CollabInv'
    <3>1. Tables' /\ Quiet(u) /\ \A s \in Sessions : session[s].exists => session'[s].exists
      BY <2>2, TeamSteps
    <3>2. PICK k \in AnyReq : Becomes(u, k) /\ k.pc \notin {"insert"} \cup Tells
      BY <3>1 DEF Quiet
    <3>. QED
      BY <3>1, <3>2, QuietKeeps DEF Quiet
  <2>3. ASSUME NEW u \in Users, Collab!SessionRequest(u)
        PROVE  CollabInv'
    <3>1. CASE \E s \in Sessions : Collab!DeleteSession(u, s)
      BY <3>1, DeleteSessionKeeps
    <3>2. CASE Collab!TellMember(u)
      BY <3>2, TellMemberKeeps
    <3>3. CASE ~ Collab!TellMember(u) /\ \A s \in Sessions : ~ Collab!DeleteSession(u, s)
      <4>1. Tables' /\ Quiet(u) /\ \A s \in Sessions : session[s].exists => session'[s].exists
        BY <2>3, <3>3, SessionSteps DEF SessionStep
      <4>2. PICK k \in AnyReq : Becomes(u, k) /\ k.pc \notin {"insert"} \cup Tells
        BY <4>1 DEF Quiet
      <4>. QED
        BY <4>1, <4>2, QuietKeeps DEF Quiet
    <3>. QED
      BY <3>1, <3>2, <3>3
  <2>4. ASSUME NEW u \in Users, Collab!CommentRequest(u)
        PROVE  CollabInv'
    <3>1. CASE \E c \in Comments : \/ Collab!DeleteComment(u, c) \/ Collab!ToggleReaction(u, c)
                                   \/ Collab!ResolveSuggestion(u, c)
      BY <3>1, RowStepsKeep
    <3>2. CASE \E c \in Comments, s \in Sessions, mentions \in SUBSET Users,
                  parent \in {NoOne} \cup {d \in Comments : comment[d].exists} :
                    Collab!CommentOn(u, s, c, mentions, parent)
      BY <3>2, CommentOnKeeps
    <3>3. CASE Collab!InsertComment(u)
      BY <3>3, InsertKeeps
    <3>4. CASE \/ Collab!TellMentioned(u) \/ Collab!TellParent(u)
               \/ Collab!ListSubscribers(u) \/ Collab!TellSubscriber(u)
      BY <3>4, TellingSteps
    <3>. QED
      BY <2>4, <3>1, <3>2, <3>3, <3>4 DEF Collab!CommentRequest
  <2>. QED
    BY <2>1, <2>2, <2>3, <2>4, FailureKeeps DEF Collab!Next
<1>3. CollabInv => Collab!TypeOK /\ Collab!EachReasonIsToldOnce
  BY CollabInvSuffices
<1>. QED
  BY <1>1, <1>2, <1>3, PTL DEF Collab!Spec

-----------------------------------------------------------------------------
(* What the last completed startup put in force is in force *)

\* Rows with their labels; the ids of finitely many rows have a bound.
Labelled == UNION {[D -> RowLabels] : D \in SUBSET (Nat \ {0})}
Bounded(r) == \E k \in Nat : \A j \in DOMAIN r : j <= k
AllIndexes == Startup!Tables \cup {"names", "coalesced", "scoped", "family", "teamFamily",
                                   "intraTeam", "restrict", "teamRequired"}
LastIndexes ==
    Startup!Tables \cup {"scoped", "teamFamily", "intraTeam", "restrict", "teamRequired"}

\* A unique index in force is met by its rows.
RowsInv ==
    /\ rows \in [Startup!Tables -> Labelled]
    /\ \A t \in Startup!Tables : /\ Bounded(rows[t])
                                 /\ t \in indexes => Startup!LabelsDiffer(rows[t])

\* The advisory lock is held by the instance that runs the startup.
PlacesInv ==
    /\ lock \in Instances \cup {NoInstance}
    /\ pc \in [Instances -> Startup!Steps \cup {"down", "waiting", "serving"}]
    /\ \A i \in Instances : pc[i] \in Startup!Steps <=> lock = i
    /\ last \in {"none", "started", "failed", "done"}
    /\ lock # NoInstance => last = "started"
    /\ starts \in 0..MaxStarts /\ faults \in 0..MaxFaults

\* The graph meets the unique indexes over its names that are in force.
Unowned == {p \in graph : p.team = TeamOfNone}
Apart(g) == \A p, q \in g : p.id = q.id => p = q
GraphInv ==
    /\ graph \subseteq Startup!Stored /\ Apart(graph)
    /\ "names" \in indexes => Startup!NamesDiffer(graph)
    /\ indexes \cap {"scoped", "coalesced"} # {} => Startup!NamesDifferByTeam(graph)

\* What the startup that has come to a place has done, as long as it holds the lock.
Reached(place) ==
    /\ place \in {"dedup library", "drop library", "create library"} => "campaign" \in indexes
    /\ place \in {"dedup campaign", "drop campaign", "create campaign", "dedup library",
                  "drop library", "create library", "merge", "own", "scope"} =>
         "names" \in indexes
    /\ place \in {"merge", "own", "scope", "dropScoped", "dropNames", "scopeNames",
                  "dropFamily", "constrain", "require"} => Startup!Tables \subseteq indexes
    /\ place \in {"dropFamily", "constrain", "require"} => "scoped" \in indexes
    /\ place \in {"constrain", "require"} => "teamFamily" \in indexes
    /\ place = "require" => {"intraTeam", "restrict"} \subseteq indexes
    /\ place \in {"scope", "dropScoped", "dropNames", "scopeNames", "dropFamily", "constrain",
                  "require"} => Unowned = {}

StartupInv ==
    /\ RowsInv /\ PlacesInv /\ GraphInv /\ indexes \subseteq AllIndexes
    /\ \A i \in Instances : Reached(pc[i])
    /\ last = "done" => LastIndexes \subseteq indexes /\ Unowned = {}

\* A bounded set of ids has a greatest one.
LEMMA NewestIsNat ==
    ASSUME NEW r \in Labelled, Bounded(r) PROVE Startup!Newest(r) \in Nat
<1>. DEFINE D == {0} \cup DOMAIN r
            U == {k \in Nat : \A m \in D : m <= k}
<1>1. D \subseteq Nat
  <2>1. PICK S \in SUBSET (Nat \ {0}) : r \in [S -> RowLabels]
    BY DEF Labelled
  <2>2. DOMAIN r = S
    BY <2>1
  <2>. QED
    BY <2>2
<1>2. U # {}
  BY <1>1 DEF Bounded
<1>3. PICK k \in U : \A n \in U : ~ (<<n, k>> \in OpToRel(<, Nat))
  <2>1. IsWellFoundedOn(OpToRel(<, Nat), Nat) /\ U \subseteq Nat
    BY NatLessThanWellFounded
  <2>. QED
    BY <2>1, <1>2, WFMin
<1>4. \A n \in U : ~ (n < k)
  BY <1>3 DEF OpToRel
<1>5. k \in D
  <2>1. CASE k \notin D
    <3>1. k # 0 /\ k \in Nat /\ \A m \in D : m <= k - 1
      BY <1>1, <2>1
    <3>2. k - 1 \in U
      BY <3>1
    <3>. QED
      BY <3>1, <3>2, <1>4
  <2>. QED
    BY <2>1
<1>6. \E n \in D : \A m \in DOMAIN r : m <= n
  BY <1>5
<1>. QED
  BY <1>1, <1>6 DEF Startup!Newest

\* A step of the instance that holds the lock: it goes on, and no other instance is in
\* its startup.
LEMMA RunsKeeps ==
    ASSUME StartupConstants, PlacesInv, NEW i \in Instances, NEW from \in Startup!Steps,
           NEW to \in Startup!Steps, Startup!Runs(i, from, to)
    PROVE  /\ PlacesInv' /\ last' # "done" /\ pc[i] = from /\ pc'[i] = to
           /\ \A j \in Instances \ {i} : pc'[j] \notin Startup!Steps
BY DEF PlacesInv, Startup!Runs, StartupConstants

\* It fails, and the lock is free.
LEMMA FailsKeeps ==
    ASSUME StartupConstants, PlacesInv, NEW i \in Instances, NEW from \in Startup!Steps,
           Startup!Fails(i, from)
    PROVE  /\ PlacesInv' /\ last' = "failed" /\ UNCHANGED <<rows, graph, indexes>>
           /\ \A j \in Instances : pc'[j] \notin Startup!Steps
BY DEF PlacesInv, Startup!Fails, StartupConstants, Startup!Steps

\* Outside of a startup nothing has been reached.
LEMMA NothingReached ==
    ASSUME NEW place, place \notin Startup!Steps PROVE Reached(place)
BY DEF Reached, Startup!Steps
LEMMA NothingReachedNext ==
    ASSUME NEW place, place \notin Startup!Steps PROVE Reached(place)'
BY DEF Reached, Startup!Steps

\* The startup goes on where it has reached what the next place asks for.
LEMMA GoesOnWell ==
    ASSUME StartupConstants, StartupInv, NEW i \in Instances, NEW from \in Startup!Steps,
           NEW to \in Startup!Steps, Startup!Runs(i, from, to),
           RowsInv', GraphInv', indexes' \subseteq AllIndexes, Reached(to)'
    PROVE  StartupInv'
<1>1. /\ PlacesInv' /\ last' # "done" /\ pc'[i] = to
      /\ \A j \in Instances \ {i} : pc'[j] \notin Startup!Steps
  BY RunsKeeps DEF StartupInv
<1>2. ASSUME NEW j \in Instances PROVE Reached(pc[j])'
  <2>1. CASE j = i
    BY <2>1, <1>1 DEF Reached
  <2>2. CASE j # i
    <3>1. pc'[j] \notin Startup!Steps
      BY <2>2, <1>1
    <3>. QED
      BY <3>1 DEF Reached, Startup!Steps
  <2>. QED
    BY <2>1, <2>2
<1>. QED
  BY <1>1, <1>2 DEF StartupInv

\* What a startup that failed leaves behind is no less than before.
LEMMA FailsWell ==
    ASSUME StartupConstants, StartupInv, NEW i \in Instances, NEW from \in Startup!Steps,
           Startup!Fails(i, from)
    PROVE  StartupInv'
<1>1. /\ PlacesInv' /\ last' = "failed" /\ UNCHANGED <<rows, graph, indexes>>
      /\ \A j \in Instances : pc'[j] \notin Startup!Steps
  BY FailsKeeps DEF StartupInv
<1>2. ASSUME NEW j \in Instances PROVE Reached(pc[j])'
  BY <1>1 DEF Reached, Startup!Steps
<1>. QED
  BY <1>1, <1>2 DEF StartupInv, RowsInv, GraphInv, Unowned

\* Of each label the oldest row stays.
LEMMA KeptRows ==
    ASSUME NEW r \in Labelled, Bounded(r)
    PROVE  LET q == [j \in Startup!Kept(r) |-> r[j]]
           IN  q \in Labelled /\ Bounded(q) /\ Startup!LabelsDiffer(q)
<1>. DEFINE q == [j \in Startup!Kept(r) |-> r[j]]
<1>1. PICK S \in SUBSET (Nat \ {0}) : r \in [S -> RowLabels]
  BY DEF Labelled
<1>2. Startup!Kept(r) \subseteq S
  BY <1>1 DEF Startup!Kept
<1>3. q \in [Startup!Kept(r) -> RowLabels]
  BY <1>1, <1>2
<1>4. q \in Labelled
  BY <1>1, <1>2, <1>3 DEF Labelled
<1>5. Bounded(q)
  BY <1>1, <1>2 DEF Bounded
<1>6. Startup!LabelsDiffer(q)
  BY <1>1, <1>2 DEF Startup!LabelsDiffer, Startup!Kept
<1>. QED
  BY <1>4, <1>5, <1>6

\* A row is added, with a label that no other has where the index asks for it.
LEMMA OneMoreRow ==
    ASSUME NEW r \in Labelled, Bounded(r), NEW l \in RowLabels
    PROVE  LET q == [j \in DOMAIN r \cup {Startup!Newest(r) + 1} |->
                        IF j \in DOMAIN r THEN r[j] ELSE l]
           IN  /\ q \in Labelled /\ Bounded(q)
               /\ Startup!LabelsDiffer(r) /\ (\A j \in DOMAIN r : r[j] # l) =>
                    Startup!LabelsDiffer(q)
<1>. DEFINE n == Startup!Newest(r) + 1
            T == DOMAIN r \cup {n}
            q == [j \in T |-> IF j \in DOMAIN r THEN r[j] ELSE l]
<1>1. PICK S \in SUBSET (Nat \ {0}) : r \in [S -> RowLabels]
  BY DEF Labelled
<1>2. n \in Nat \ {0}
  BY NewestIsNat
<1>. HIDE DEF n
<1>3. T \in SUBSET (Nat \ {0}) /\ q \in [T -> RowLabels]
  BY <1>1, <1>2
<1>4. q \in Labelled
  BY <1>3 DEF Labelled
<1>5. Bounded(q)
  <2>1. PICK k \in Nat : \A j \in DOMAIN r : j <= k
    BY DEF Bounded
  <2>2. \A j \in DOMAIN q : j <= k + n
    BY <2>1, <1>1, <1>2
  <2>. QED
    BY <2>2, <1>2 DEF Bounded
<1>6. ASSUME Startup!LabelsDiffer(r), \A j \in DOMAIN r : r[j] # l
      PROVE  Startup!LabelsDiffer(q)
  BY <1>6 DEF Startup!LabelsDiffer
<1>. QED
  BY <1>4, <1>5, <1>6 DEF n

\* The steps that drop, build and check the labels of a table.
LEMMA LabelSteps ==
    ASSUME StartupConstants, StartupInv, NEW i \in Instances, NEW t \in Startup!Tables,
           \/ Startup!DeleteDuplicates(i, t) \/ Startup!DropLabels(i, t)
           \/ Startup!CreateLabels(i, t) \/ Startup!CreateLabelsFails(i, t)
    PROVE  StartupInv'
<1>. t = "campaign" \/ t = "library"
  BY DEF Startup!Tables
<1>0. /\ Startup!Dedup[t] \in Startup!Steps /\ Startup!Drop[t] \in Startup!Steps
      /\ Startup!Create[t] \in Startup!Steps
  BY DEF Startup!Dedup, Startup!Drop, Startup!Create, Startup!Steps
<1>. DEFINE next == IF t = "campaign" THEN "dedup library" ELSE "merge"
<1>1. CASE Startup!DeleteDuplicates(i, t)
  <2>1. /\ Startup!Runs(i, Startup!Dedup[t], Startup!Drop[t]) /\ UNCHANGED <<graph, indexes>>
        /\ rows' = [rows EXCEPT ![t] = [j \in Startup!Kept(rows[t]) |-> rows[t][j]]]
    BY <1>1 DEF Startup!DeleteDuplicates
  <2>2. RowsInv'
    BY <2>1, KeptRows DEF StartupInv, RowsInv
  <2>3. Reached(Startup!Drop[t])'
    BY <2>1 DEF StartupInv, Reached, Startup!Runs, Startup!Dedup, Startup!Drop, Startup!Tables
  <2>4. GraphInv' /\ indexes' \subseteq AllIndexes
    BY <2>1 DEF StartupInv, GraphInv, Unowned
  <2>. QED
    BY <1>0, <2>1, <2>2, <2>3, <2>4, GoesOnWell
<1>2. CASE Startup!DropLabels(i, t)
  <2>1. /\ Startup!Runs(i, Startup!Drop[t], Startup!Create[t]) /\ UNCHANGED <<rows, graph>>
        /\ indexes' = indexes \ {t}
    BY <1>2 DEF Startup!DropLabels
  <2>2. RowsInv'
    BY <2>1 DEF StartupInv, RowsInv
  <2>3. Reached(Startup!Create[t])'
    BY <2>1 DEF StartupInv, Reached, Startup!Runs, Startup!Create, Startup!Drop, Startup!Tables
  <2>4. GraphInv' /\ indexes' \subseteq AllIndexes
    BY <2>1 DEF StartupInv, GraphInv, Unowned
  <2>. QED
    BY <1>0, <2>1, <2>2, <2>3, <2>4, GoesOnWell
<1>3. CASE Startup!CreateLabels(i, t)
  <2>1. /\ Startup!Runs(i, Startup!Create[t], next) /\ UNCHANGED <<rows, graph>>
        /\ Startup!LabelsDiffer(rows[t]) /\ indexes' = indexes \cup {t}
    BY <1>3 DEF Startup!CreateLabels
  <2>2. RowsInv'
    BY <2>1 DEF StartupInv, RowsInv
  <2>3. Reached(next)'
    BY <2>1 DEF StartupInv, Reached, Startup!Runs, Startup!Create, Startup!Tables
  <2>4. GraphInv' /\ indexes' \subseteq AllIndexes
    BY <2>1 DEF StartupInv, GraphInv, Unowned, AllIndexes
  <2>5. next \in Startup!Steps
    BY DEF Startup!Steps
  <2>. QED
    BY <1>0, <2>1, <2>2, <2>3, <2>4, <2>5, GoesOnWell
<1>4. CASE Startup!CreateLabelsFails(i, t)
  BY <1>0, <1>4, FailsWell DEF Startup!CreateLabelsFails
<1>. QED
  BY <1>1, <1>2, <1>3, <1>4

\* Entities that go to the master team keep their ids and names.
LEMMA OwnedKeepNames ==
    ASSUME StartupConstants, GraphInv
    PROVE  LET own == Startup!Owned(graph)
           IN  /\ own \subseteq Startup!Stored /\ Apart(own)
               /\ \A p \in own : p.team # TeamOfNone
               /\ Startup!NamesDiffer(graph) => Startup!NamesDiffer(own)
<1>. DEFINE of(p) == [p EXCEPT !.team = IF @ = TeamOfNone THEN Master ELSE @]
            own == {of(p) : p \in graph}
<1>1. \A p \in graph : /\ of(p) \in Startup!Stored /\ of(p).team # TeamOfNone
                       /\ of(p).id = p.id /\ of(p).name = p.name
  BY DEF GraphInv, Startup!Stored, StartupConstants
<1>2. Startup!Owned(graph) = own
  BY Zenon DEF Startup!Owned
<1>. HIDE DEF of
<1>3. own \subseteq Startup!Stored /\ \A p \in own : p.team # TeamOfNone
  BY <1>1
<1>4. Apart(own)
  BY <1>1 DEF GraphInv, Apart
<1>5. Startup!NamesDiffer(graph) => Startup!NamesDiffer(own)
  BY <1>1 DEF Startup!NamesDiffer
<1>. QED
  BY <1>2, <1>3, <1>4, <1>5

\* Names that differ differ in each team, and fewer entities differ as well.
LEMMA NamesDifferWithin ==
    ASSUME NEW g, Startup!NamesDiffer(g)
    PROVE  Startup!NamesDifferByTeam(g)
BY DEF Startup!NamesDiffer, Startup!NamesDifferByTeam

\* The steps that merge the entities without a team and give them to the master team.
LEMMA GraphSteps ==
    ASSUME StartupConstants, StartupInv, NEW i \in Instances,
           Startup!MergeUnowned(i) \/ Startup!OwnUnowned(i)
    PROVE  StartupInv'
<1>0. {"merge", "own", "scope"} \subseteq Startup!Steps
  BY DEF Startup!Steps
<1>1. CASE Startup!MergeUnowned(i)
  <2>1. Startup!Runs(i, "merge", "own") /\ UNCHANGED <<rows, indexes>>
    BY <1>1 DEF Startup!MergeUnowned
  <2>2. graph' \subseteq graph
    BY <1>1 DEF Startup!MergeUnowned
  <2>3. GraphInv'
    BY <2>1, <2>2 DEF StartupInv, GraphInv, Apart, Startup!NamesDiffer, Startup!NamesDifferByTeam
  <2>4. Reached("own")'
    BY <2>1 DEF StartupInv, Reached, Startup!Runs
  <2>5. RowsInv' /\ indexes' \subseteq AllIndexes
    BY <2>1 DEF StartupInv, RowsInv
  <2>. QED
    BY <1>0, <2>1, <2>3, <2>4, <2>5, GoesOnWell
<1>2. CASE Startup!OwnUnowned(i)
  <2>1. /\ Startup!Runs(i, "own", "scope") /\ UNCHANGED <<rows, indexes>>
        /\ graph' = Startup!Owned(graph)
    BY <1>2 DEF Startup!OwnUnowned
  <2>2. "names" \in indexes /\ GraphInv
    BY <2>1 DEF StartupInv, Reached, Startup!Runs
  <2>3. Startup!NamesDiffer(graph) /\ Startup!NamesDiffer(graph')
    BY <2>1, <2>2, OwnedKeepNames DEF GraphInv
  <2>4. Startup!NamesDifferByTeam(graph')
    BY <2>3, NamesDifferWithin
  <2>5. GraphInv'
    <3>1. graph' \subseteq Startup!Stored /\ Apart(graph')
      BY <2>1, <2>2, OwnedKeepNames
    <3>. QED
      BY <3>1, <2>3, <2>4 DEF GraphInv, Apart, Startup!NamesDiffer, Startup!NamesDifferByTeam
  <2>6. Unowned' = {}
    BY <2>1, <2>2, OwnedKeepNames DEF Unowned
  <2>7. Reached("scope")'
    BY <2>1, <2>6 DEF StartupInv, Reached, Startup!Runs
  <2>8. RowsInv' /\ indexes' \subseteq AllIndexes
    BY <2>1 DEF StartupInv, RowsInv
  <2>. QED
    BY <1>0, <2>1, <2>5, <2>7, <2>8, GoesOnWell
<1>. QED
  BY <1>1, <1>2

\* The steps that only make and drop indexes, and those that fail for what the data are.
LEMMA IndexSteps ==
    ASSUME StartupConstants, StartupInv, NEW i \in Instances,
           \/ Startup!CreateTables(i) \/ Startup!CreateTablesFails(i)
           \/ Startup!ScopeNames(i) \/ Startup!DropScoped(i) \/ Startup!DropNames(i)
           \/ Startup!ScopeByTeam(i) \/ Startup!ScopeByTeamFails(i)
           \/ Startup!SwapFamily(i) \/ Startup!Constrain(i)
    PROVE  StartupInv'
<1>. USE DEF Startup!Steps
<1>1. ASSUME NEW from \in Startup!Steps, NEW to \in Startup!Steps, Startup!Runs(i, from, to),
             UNCHANGED <<rows, graph>>, indexes' \subseteq AllIndexes,
             indexes' \cap Startup!Tables = indexes \cap Startup!Tables,
             "names" \in indexes' => "names" \in indexes \/ Startup!NamesDiffer(graph),
             indexes' \cap {"scoped", "coalesced"} # {} =>
                indexes \cap {"scoped", "coalesced"} # {} \/ Startup!NamesDifferByTeam(graph),
             Reached(from) => Reached(to)'
      PROVE  StartupInv'
  <2>1. RowsInv'
    BY <1>1 DEF StartupInv, RowsInv
  <2>2. GraphInv'
    BY <1>1 DEF StartupInv, GraphInv, Apart, Startup!NamesDiffer, Startup!NamesDifferByTeam
  <2>3. Reached(from)
    BY <1>1 DEF StartupInv, Startup!Runs
  <2>4. Reached(to)' /\ indexes' \subseteq AllIndexes
    BY <1>1, <2>3
  <2>. HIDE DEF Startup!Steps
  <2>. QED
    BY <1>1, <2>1, <2>2, <2>4, GoesOnWell
<1>2. indexes \subseteq AllIndexes
  BY DEF StartupInv
<1>3. CASE Startup!CreateTables(i)
  BY <1>1, <1>2, <1>3 DEF Startup!CreateTables, Reached, AllIndexes, Startup!Tables
<1>4. CASE Startup!CreateTablesFails(i)
  BY <1>4, FailsWell DEF Startup!CreateTablesFails
<1>5. CASE Startup!ScopeNames(i)
  <2>1. Startup!NamesDifferByTeam(graph)
    <3>1. "names" \in indexes
      BY <1>5 DEF StartupInv, Reached, Startup!ScopeNames, Startup!Runs
    <3>. QED
      BY <3>1, NamesDifferWithin DEF StartupInv, GraphInv
  <2>. QED
    BY <1>1, <1>2, <1>5, <2>1
       DEF Startup!ScopeNames, Reached, AllIndexes, Startup!Tables, Unowned
<1>6. CASE Startup!DropScoped(i)
  BY <1>1, <1>2, <1>6 DEF Startup!DropScoped, Reached, AllIndexes, Startup!Tables, Unowned
<1>7. CASE Startup!DropNames(i)
  BY <1>1, <1>2, <1>7 DEF Startup!DropNames, Reached, AllIndexes, Startup!Tables, Unowned
<1>8. CASE Startup!ScopeByTeam(i)
  BY <1>1, <1>2, <1>8 DEF Startup!ScopeByTeam, Reached, AllIndexes, Startup!Tables, Unowned
<1>9. CASE Startup!ScopeByTeamFails(i)
  BY <1>9, FailsWell DEF Startup!ScopeByTeamFails
<1>10. CASE Startup!SwapFamily(i)
  BY <1>1, <1>2, <1>10 DEF Startup!SwapFamily, Reached, AllIndexes, Startup!Tables, Unowned
<1>11. CASE Startup!Constrain(i)
  BY <1>1, <1>2, <1>11 DEF Startup!Constrain, Reached, AllIndexes, Startup!Tables, Unowned
<1>. QED
  BY <1>3, <1>4, <1>5, <1>6, <1>7, <1>8, <1>9, <1>10, <1>11

\* An instance is started, takes the lock, gives it back having done everything, or dies.
LEMMA InstanceSteps ==
    ASSUME StartupConstants, StartupInv, NEW i \in Instances,
           Startup!Start(i) \/ Startup!Lock(i) \/ Startup!Require(i) \/ Startup!Crash(i)
    PROVE  StartupInv'
<1>0. UNCHANGED <<rows, graph>>
  BY DEF Startup!Start, Startup!Lock, Startup!Require, Startup!Crash
<1>1. CASE Startup!Start(i)
  <2>1. starts' \in 0..MaxStarts /\ faults' \in 0..MaxFaults
    BY <1>1 DEF StartupInv, PlacesInv, Startup!Start, StartupConstants
  <2>. DEFINE startup == Startup!Steps
  <2>2. "down" \notin startup /\ "waiting" \notin startup
    BY DEF Startup!Steps
  <2>. HIDE DEF startup
  <2>3. \A j \in Instances : pc'[j] \in startup <=> pc[j] \in startup
    BY <1>1, <2>2 DEF StartupInv, PlacesInv, Startup!Start
  <2>4. pc' \in [Instances -> startup \cup {"down", "waiting", "serving"}]
    BY <1>1 DEF StartupInv, PlacesInv, Startup!Start, startup
  <2>5. UNCHANGED <<lock, indexes, last>>
    BY <1>1 DEF Startup!Start
  <2>6. PlacesInv' /\ UNCHANGED <<indexes, last>>
    BY <2>1, <2>3, <2>4, <2>5 DEF StartupInv, PlacesInv, startup
  <2>7. ASSUME NEW j \in Instances PROVE Reached(pc[j])'
    BY <1>0, <1>1 DEF StartupInv, PlacesInv, Startup!Start, Reached, Unowned
  <2>. QED
    BY <1>0, <2>6, <2>7 DEF StartupInv, RowsInv, GraphInv, Unowned
<1>2. CASE Startup!Lock(i)
  <2>1. PlacesInv' /\ UNCHANGED indexes /\ last' = "started"
    BY <1>2 DEF StartupInv, PlacesInv, Startup!Lock, StartupConstants, Startup!Steps
  <2>2. ASSUME NEW j \in Instances PROVE Reached(pc[j])'
    BY <1>0, <1>2 DEF StartupInv, PlacesInv, Startup!Lock, Reached, Unowned
  <2>. QED
    BY <1>0, <2>1, <2>2 DEF StartupInv, RowsInv, GraphInv, Unowned
<1>3. CASE Startup!Require(i)
  <2>1. PlacesInv'
    BY <1>3 DEF StartupInv, PlacesInv, Startup!Require, StartupConstants, Startup!Steps
  <2>2. pc[i] = "require" /\ indexes' = indexes \cup {"teamRequired"}
    BY <1>3 DEF Startup!Require
  <2>3. Startup!Tables \cup {"scoped", "teamFamily", "intraTeam", "restrict"} \subseteq indexes
        /\ Unowned = {}
    BY <2>2 DEF StartupInv, Reached
  <2>4. ASSUME NEW j \in Instances PROVE Reached(pc[j])'
    <3>1. pc'[j] \notin Startup!Steps
      BY <1>3, <2>2 DEF StartupInv, PlacesInv, Startup!Require, Startup!Steps
    <3>. QED
      BY <3>1 DEF Reached, Startup!Steps
  <2>5. RowsInv' /\ indexes' \subseteq AllIndexes
    BY <1>0, <2>2 DEF StartupInv, RowsInv, AllIndexes, Startup!Tables
  <2>6. GraphInv' /\ Unowned' = {} /\ LastIndexes \subseteq indexes'
    BY <1>0, <2>2, <2>3 DEF StartupInv, GraphInv, Unowned, LastIndexes
  <2>. QED
    BY <2>1, <2>4, <2>5, <2>6 DEF StartupInv
<1>4. CASE Startup!Crash(i)
  <2>1. starts' \in 0..MaxStarts /\ faults' \in 0..MaxFaults
    BY <1>4 DEF StartupInv, PlacesInv, Startup!Crash, StartupConstants
  <2>. DEFINE startup == Startup!Steps
  <2>2. "down" \notin startup
    BY DEF Startup!Steps
  <2>. HIDE DEF startup
  <2>3. /\ \A j \in Instances : pc'[j] \in startup <=> lock' = j
        /\ lock' \in Instances \cup {NoInstance}
        /\ lock' # NoInstance => last' = "started"
    BY <1>4, <2>2 DEF StartupInv, PlacesInv, Startup!Crash, StartupConstants, startup
  <2>4. pc' \in [Instances -> startup \cup {"down", "waiting", "serving"}]
    BY <1>4 DEF StartupInv, PlacesInv, Startup!Crash, startup
  <2>5. last' \in {"none", "started", "failed", "done"} /\ (last' = "done" => last = "done")
    BY <1>4 DEF StartupInv, PlacesInv, Startup!Crash
  <2>6. UNCHANGED indexes
    BY <1>4 DEF Startup!Crash
  <2>7. PlacesInv' /\ UNCHANGED indexes /\ (last' = "done" => last = "done")
    BY <2>1, <2>3, <2>4, <2>5, <2>6 DEF PlacesInv, startup
  <2>8. ASSUME NEW j \in Instances PROVE Reached(pc[j])'
    BY <1>0, <1>4 DEF StartupInv, PlacesInv, Startup!Crash, Reached, Unowned
  <2>. QED
    BY <1>0, <2>7, <2>8 DEF StartupInv, RowsInv, GraphInv, Unowned
<1>. QED
  BY <1>1, <1>2, <1>3, <1>4

\* What fits beside entities meets the indexes they meet.
LEMMA FitsWell ==
    ASSUME StartupConstants, NEW g, NEW p, Startup!Fits(p, g), p \in Startup!Stored,
           g \subseteq Startup!Stored, Apart(g), \A q \in g : q.id # p.id,
           "names" \in indexes => Startup!NamesDiffer(g),
           indexes \cap {"scoped", "coalesced"} # {} => Startup!NamesDifferByTeam(g)
    PROVE  /\ g \cup {p} \subseteq Startup!Stored /\ Apart(g \cup {p})
           /\ "names" \in indexes => Startup!NamesDiffer(g \cup {p})
           /\ indexes \cap {"scoped", "coalesced"} # {} => Startup!NamesDifferByTeam(g \cup {p})
<1>1. Apart(g \cup {p})
  BY DEF Apart
<1>2. "names" \in indexes => Startup!NamesDiffer(g \cup {p})
  BY DEF Startup!NamesDiffer, Startup!Fits
<1>3. indexes \cap {"scoped", "coalesced"} # {} => Startup!NamesDifferByTeam(g \cup {p})
  BY DEF Startup!NamesDifferByTeam, Startup!Fits
<1>. QED
  BY <1>1, <1>2, <1>3

\* What an instance that serves adds and renames meets the indexes, and has a team.
LEMMA ServingSteps ==
    ASSUME StartupConstants, StartupInv, NEW i \in Instances,
           \/ \E t \in Startup!Tables, l \in RowLabels : Startup!AddRow(i, t, l)
           \/ \E n \in Names, t \in Teams : Startup!AddEntity(i, n, t)
           \/ \E n \in Names, p \in graph : Startup!RenameEntity(i, p, n)
    PROVE  StartupInv'
<1>1. ASSUME NEW t \in Startup!Tables, NEW l \in RowLabels, Startup!AddRow(i, t, l)
      PROVE  StartupInv'
  <2>. DEFINE q == [j \in DOMAIN rows[t] \cup {Startup!Newest(rows[t]) + 1} |->
                       IF j \in DOMAIN rows[t] THEN rows[t][j] ELSE l]
  <2>1. /\ UNCHANGED <<graph, indexes, lock, pc, last, starts, faults>>
        /\ rows' = [rows EXCEPT ![t] = q]
        /\ t \in indexes => \A j \in DOMAIN rows[t] : rows[t][j] # l
    BY <1>1 DEF Startup!AddRow
  <2>2. /\ q \in Labelled /\ Bounded(q)
        /\ t \in indexes => Startup!LabelsDiffer(q)
    BY <2>1, OneMoreRow DEF StartupInv, RowsInv
  <2>. HIDE DEF q
  <2>3. RowsInv'
    BY <2>1, <2>2 DEF StartupInv, RowsInv
  <2>. QED
    BY <2>1, <2>3 DEF StartupInv, PlacesInv, GraphInv, Unowned, Reached
<1>2. ASSUME UNCHANGED <<rows, indexes, lock, pc, last, starts, faults>>, GraphInv',
             Unowned' = Unowned
      PROVE  StartupInv'
  BY <1>2 DEF StartupInv, PlacesInv, RowsInv, Reached
<1>3. ASSUME NEW n \in Names, NEW t \in Teams, Startup!AddEntity(i, n, t)
      PROVE  StartupInv'
  <2>1. PICK k \in 1..MaxRows :
          LET new == [id |-> k, name |-> n, team |-> t]
          IN  /\ \A q \in graph : q.id # k
              /\ Startup!Fits(new, graph)
              /\ graph' = graph \cup {new}
    BY <1>3 DEF Startup!AddEntity
  <2>. DEFINE new == [id |-> k, name |-> n, team |-> t]
  <2>2. UNCHANGED <<rows, indexes, lock, pc, last, starts, faults>>
    BY <1>3 DEF Startup!AddEntity
  <2>3. new \in Startup!Stored /\ new.id = k /\ new.team # TeamOfNone
    BY DEF Startup!Stored, StartupConstants
  <2>. HIDE DEF new
  <2>4. graph' = graph \cup {new} /\ Startup!Fits(new, graph) /\ \A q \in graph : q.id # new.id
    BY <2>1, <2>3 DEF new
  <2>5. GraphInv'
    <3>1. /\ graph' \subseteq Startup!Stored /\ Apart(graph')
          /\ "names" \in indexes => Startup!NamesDiffer(graph')
          /\ indexes \cap {"scoped", "coalesced"} # {} => Startup!NamesDifferByTeam(graph')
      BY <2>3, <2>4, FitsWell DEF StartupInv, GraphInv
    <3>. QED
      BY <3>1, <2>2 DEF GraphInv, Apart, Startup!NamesDiffer, Startup!NamesDifferByTeam
  <2>6. Unowned' = Unowned
    BY <2>3, <2>4 DEF Unowned
  <2>. QED
    BY <2>2, <2>5, <2>6, <1>2
<1>4. ASSUME NEW n \in Names, NEW p \in graph, Startup!RenameEntity(i, p, n)
      PROVE  StartupInv'
  <2>. DEFINE new == [p EXCEPT !.name = n]
              g == graph \ {p}
  <2>1. /\ UNCHANGED <<rows, indexes, lock, pc, last, starts, faults>>
        /\ p.team # TeamOfNone /\ Startup!Fits(new, g) /\ graph' = g \cup {new}
    BY <1>4 DEF Startup!RenameEntity
  <2>2. new \in Startup!Stored /\ new.id = p.id /\ new.team = p.team
    BY DEF StartupInv, GraphInv, Startup!Stored
  <2>. HIDE DEF new
  <2>3. \A q \in g : q.id # new.id
    BY <2>2 DEF StartupInv, GraphInv, Apart
  <2>4. /\ g \subseteq Startup!Stored /\ Apart(g)
        /\ "names" \in indexes => Startup!NamesDiffer(g)
        /\ indexes \cap {"scoped", "coalesced"} # {} => Startup!NamesDifferByTeam(g)
    BY DEF StartupInv, GraphInv, Apart, Startup!NamesDiffer, Startup!NamesDifferByTeam
  <2>5. Unowned' = Unowned
    BY <2>1, <2>2 DEF Unowned
  <2>. HIDE DEF g
  <2>6. GraphInv'
    <3>1. /\ graph' \subseteq Startup!Stored /\ Apart(graph')
          /\ "names" \in indexes => Startup!NamesDiffer(graph')
          /\ indexes \cap {"scoped", "coalesced"} # {} => Startup!NamesDifferByTeam(graph')
      BY <2>1, <2>2, <2>3, <2>4, FitsWell
    <3>. QED
      BY <3>1, <2>1 DEF GraphInv, Apart, Startup!NamesDiffer, Startup!NamesDifferByTeam
  <2>. QED
    BY <2>1, <2>5, <2>6, <1>2
<1>. QED
  BY <1>1, <1>3, <1>4

LEMMA StartupInit == ASSUME StartupConstants, Startup!Init PROVE StartupInv
<1>1. RowsInv
  <2>1. ASSUME NEW old \in {Startup!NoRows} \cup {<<l, l>> : l \in RowLabels}
        PROVE  old \in Labelled /\ Bounded(old)
    <3>1. CASE old = Startup!NoRows
      <4>1. old \in [{} -> RowLabels]
        BY <3>1 DEF Startup!NoRows
      <4>2. {} \in SUBSET (Nat \ {0})
        OBVIOUS
      <4>. QED
        BY <4>1, <4>2 DEF Labelled, Bounded
    <3>2. CASE \E l \in RowLabels : old = <<l, l>>
      <4>1. old \in [1..2 -> RowLabels]
        BY <3>2
      <4>2. 1..2 \in SUBSET (Nat \ {0}) /\ \A j \in 1..2 : j <= 2
        OBVIOUS
      <4>. QED
        BY <4>1, <4>2 DEF Labelled, Bounded
    <3>. QED
      BY <3>1, <3>2
  <2>. QED
    BY <2>1 DEF RowsInv, Startup!Init
<1>2. PlacesInv
  BY DEF Startup!Init, PlacesInv, StartupConstants, Startup!Steps
<1>3. GraphInv
  BY DEF Startup!Init, GraphInv, StartupConstants, Apart, Startup!Stored
<1>4. \A i \in Instances : Reached(pc[i])
  BY DEF Startup!Init, Reached
<1>. QED
  BY <1>1, <1>2, <1>3, <1>4 DEF StartupInv, Startup!Init

LEMMA StartupInvSuffices ==
    ASSUME StartupConstants, StartupInv PROVE Startup!TypeOK /\ Startup!LastStartHolds
<1>1. Startup!TypeOK
  <2>1. ASSUME NEW t \in Startup!Tables
        PROVE  /\ DOMAIN rows[t] \subseteq Nat \ {0}
               /\ \A j \in DOMAIN rows[t] : rows[t][j] \in RowLabels
    <3>1. PICK S \in SUBSET (Nat \ {0}) : rows[t] \in [S -> RowLabels]
      BY DEF StartupInv, RowsInv, Labelled
    <3>. QED
      BY <3>1
  <2>. QED
    BY <2>1 DEF StartupInv, PlacesInv, GraphInv, Apart, Startup!TypeOK, AllIndexes
<1>2. ASSUME last = "done"
      PROVE  /\ LastIndexes \subseteq indexes
             /\ \A t \in Startup!Tables : Startup!LabelsDiffer(rows[t])
             /\ Startup!NamesDifferByTeam(graph) /\ \A p \in graph : p.team # TeamOfNone
  BY <1>2 DEF StartupInv, RowsInv, GraphInv, LastIndexes, Unowned
<1>3. ASSUME NEW i \in Instances, pc[i] \in {"own", "scope"}
      PROVE  Startup!NamesDiffer(Startup!Owned(graph))
  BY <1>3, OwnedKeepNames DEF StartupInv, GraphInv, Reached
<1>. QED
  BY <1>1, <1>2, <1>3 DEF Startup!LastStartHolds, LastIndexes

\* While nobody is in a startup and the last one succeeded, every unique index and
\* constraint is in force and the rows and the names meet them, though instances serve,
\* rename, fail and die in between; and the entities that go to the master team, and the
\* first scoped index, meet no name twice: init_schema in app/db/_schema.py, under its
\* advisory lock.  A startup that cannot make an index ends as failed; of what holds then
\* nothing is said.
THEOREM LastStartHoldsCorrect ==
    ASSUME StartupConstants PROVE Startup!Spec => [](Startup!TypeOK /\ Startup!LastStartHolds)
<1>1. Startup!Init => StartupInv
  BY StartupInit
<1>2. StartupInv /\ [Startup!Next]_(Startup!startupVars) => StartupInv'
  <2>. SUFFICES ASSUME StartupInv, [Startup!Next]_(Startup!startupVars) PROVE StartupInv'
    OBVIOUS
  <2>1. CASE UNCHANGED Startup!startupVars
    BY <2>1 DEF Startup!startupVars, StartupInv, RowsInv, PlacesInv, GraphInv, Reached, Unowned
  <2>2. ASSUME NEW i \in Instances, Startup!StartupStep(i) PROVE StartupInv'
    BY <2>2, LabelSteps, GraphSteps, IndexSteps, InstanceSteps, ServingSteps
       DEF Startup!StartupStep
  <2>. QED
    BY <2>1, <2>2 DEF Startup!Next
<1>3. StartupInv => Startup!TypeOK /\ Startup!LastStartHolds
  BY StartupInvSuffices
<1>. QED
  BY <1>1, <1>2, <1>3, PTL DEF Startup!Spec
-----------------------------------------------------------------------------
(* One open pool, and none closed that has a connection out *)

PoolRow == [secret : Nat, state : {"open", "closing", "closed"}]
PoolCall == [pc : {"idle", "wait", "create", "acquire", "use", "reset", "closing", "again"},
             mine : Nat, old : Nat, tried : BOOLEAN, held : Seq(Nat)]

PoolTypes ==
    /\ password \in 1..(1 + MaxRotations) /\ published \in 1..password
    /\ secret \in 0..published
    /\ pools \in Seq(PoolRow) /\ Len(pools) <= MaxPools
    /\ pool \in 0..Len(pools)
    /\ lock \in Callers \cup {NoCaller}
    /\ call \in [Callers -> PoolCall]
    /\ faults \in 0..MaxFaults

\* Who makes a pool holds the lock, and there is none meanwhile; who acquires, does so from
\* a pool there has been; the pool somebody tears down is not the one new calls get; a
\* connection that is out is of a pool that is not closed.
PoolCallOk(c, k) ==
    /\ k.pc = "create" => lock = c /\ pool = 0
    /\ k.mine \in 0..Len(pools) /\ k.old \in 0..Len(pools)
    /\ k.pc = "acquire" => k.mine # 0
    /\ k.old # 0 => k.old # pool
    /\ k.pc = "use" => Len(k.held) # 0
    /\ \A n \in 1..Len(k.held) : k.held[n] \in 1..Len(pools) /\ pools[k.held[n]].state # "closed"

\* The open pool is the one new calls get.
OnePool == \A i \in 1..Len(pools) : pools[i].state = "open" <=> i = pool

PoolInv ==
    /\ PoolTypes /\ OnePool
    /\ \A c \in Callers : PoolCallOk(c, call[c])

\* A step of one coroutine after which the pools that are there are closed no more
\* than before, and the others hold the lock as they did.
LEMMA PoolCallMoves ==
    ASSUME PoolConstants, PoolInv, NEW c \in Callers, NEW k \in PoolCall,
           call' = [call EXCEPT ![c] = k], PoolCallOk(c, k)',
           UNCHANGED <<password, published>>, secret' \in 0..published,
           pools' \in Seq(PoolRow), Len(pools) <= Len(pools'), Len(pools') <= MaxPools,
           pool' \in 0..Len(pools'), lock' \in Callers \cup {NoCaller}, faults' \in 0..MaxFaults,
           OnePool', pool' \in {0, pool} \/ pool' > Len(pools),
           \A d \in Callers \ {c} : lock = d => lock' = d /\ pool' = pool,
           \A d \in Callers \ {c} : \A n \in 1..Len(call[d].held) :
               pools'[call[d].held[n]].state # "closed"
    PROVE  PoolInv'
<1>1. PoolTypes'
  BY DEF PoolInv, PoolTypes
<1>2. ASSUME NEW d \in Callers PROVE PoolCallOk(d, call[d])'
  <2>1. CASE d = c
    <3>1. call'[d] = k
      BY <2>1 DEF PoolInv, PoolTypes
    <3>. QED
      BY <2>1, <3>1 DEF PoolCallOk
  <2>2. CASE d # c
    <3>1. call'[d] = call[d] /\ call[d] \in PoolCall
      BY <2>2 DEF PoolInv, PoolTypes
    <3>2. PoolCallOk(d, call[d])
      BY DEF PoolInv
    <3>3. Len(pools) \in Nat /\ Len(pools') \in Nat
      BY DEF PoolInv, PoolTypes
    <3>4. \A i : i \in 0..Len(pools) => i \in 0..Len(pools')
      BY <3>3
    <3>5. \A i : i \in 1..Len(pools) => i \in 1..Len(pools')
      BY <3>3
    <3>6. call[d].old # 0 => call[d].old # pool'
      BY <3>2, <3>3 DEF PoolCallOk
    <3>7. call[d].pc = "create" => lock' = d /\ pool' = 0
      BY <3>2, <2>2 DEF PoolCallOk
    <3>8. /\ call[d].mine \in 0..Len(pools') /\ call[d].old \in 0..Len(pools')
          /\ call[d].pc = "acquire" => call[d].mine # 0
          /\ call[d].pc = "use" => Len(call[d].held) # 0
      BY <3>2, <3>4 DEF PoolCallOk
    <3>9. \A n \in 1..Len(call[d].held) :
             call[d].held[n] \in 1..Len(pools') /\ pools'[call[d].held[n]].state # "closed"
      BY <3>2, <3>5, <2>2 DEF PoolCallOk
    <3>. QED
      BY <3>1, <3>6, <3>7, <3>8, <3>9 DEF PoolCallOk
  <2>. QED
    BY <2>1, <2>2
<1>. QED
  BY <1>1, <1>2 DEF PoolInv

\* A step that leaves the pools and the lock alone.
LEMMA PoolCallGoesOn ==
    ASSUME PoolConstants, PoolInv, NEW c \in Callers, NEW k \in PoolCall,
           call' = [call EXCEPT ![c] = k], PoolCallOk(c, k),
           UNCHANGED <<password, published, secret, pool, pools, lock>>, faults' \in 0..MaxFaults
    PROVE  PoolInv'
<1>1. PoolCallOk(c, k)' /\ OnePool'
  BY DEF PoolCallOk, PoolInv, OnePool
<1>2. \A d \in Callers : \A n \in 1..Len(call[d].held) : pools[call[d].held[n]].state # "closed"
  BY DEF PoolInv, PoolCallOk
<1>3. /\ secret' \in 0..published /\ pools' \in Seq(PoolRow) /\ Len(pools) \in Nat
      /\ Len(pools') <= MaxPools /\ pool' \in 0..Len(pools') /\ lock' \in Callers \cup {NoCaller}
  BY DEF PoolInv, PoolTypes
<1>4. Len(pools) <= Len(pools') /\ pool' \in {0, pool}
  BY <1>3
<1>5. /\ \A d \in Callers \ {c} : lock = d => lock' = d /\ pool' = pool
      /\ \A d \in Callers \ {c} : \A n \in 1..Len(call[d].held) :
            pools'[call[d].held[n]].state # "closed"
  BY <1>2
<1>. QED
  BY <1>1, <1>3, <1>4, <1>5, PoolCallMoves

\* What the invariant says of one coroutine.
LEMMA ThePoolCall ==
    ASSUME PoolInv, NEW c \in Callers
    PROVE  /\ call[c] \in PoolCall /\ PoolCallOk(c, call[c])
           /\ call[c].held \in Seq(Nat) /\ call[c].mine \in Nat /\ call[c].old \in Nat
<1>1. call[c] \in PoolCall /\ PoolCallOk(c, call[c])
  BY DEF PoolInv, PoolTypes
<1>. QED
  BY <1>1 DEF PoolCall

\* Whoever gives up lets its connections go.
LEMMA IdleIsWell ==
    ASSUME NEW c \in Callers, PoolInv
    PROVE  Pool!Idle \in PoolCall /\ PoolCallOk(c, Pool!Idle)
<1>1. <<>> \in Seq(Nat) /\ Len(<<>>) = 0
  OBVIOUS
<1>2. Len(pools) \in Nat
  BY DEF PoolInv, PoolTypes
<1>. QED
  BY <1>1, <1>2 DEF Pool!Idle, Pool!None, PoolCall, PoolCallOk

\* A coroutine that gets a pool, or waits for the lock.
LEMMA PlaceAndPool ==
    ASSUME PoolInv, NEW c \in Callers, NEW place \in {"acquire", "wait", "reset"},
           NEW i \in 0..Len(pools), place = "acquire" => i # 0,
           NEW k, k = [call[c] EXCEPT !.pc = place, !.mine = i]
    PROVE  k \in PoolCall /\ PoolCallOk(c, k)
<1>1. call[c] \in PoolCall /\ PoolCallOk(c, call[c]) /\ i \in Nat
  BY ThePoolCall DEF PoolInv, PoolTypes
<1>2. /\ k \in PoolCall /\ k.pc = place /\ k.mine = i /\ k.old = call[c].old
      /\ k.held = call[c].held
  BY <1>1 DEF PoolCall
<1>. QED
  BY <1>1, <1>2 DEF PoolCallOk

\* Go and Uses replace the record of one coroutine.
LEMMA TheCallMoves ==
    ASSUME PoolInv, NEW c \in Callers, NEW place
    PROVE  [call EXCEPT ![c].pc = place] = [call EXCEPT ![c] = [call[c] EXCEPT !.pc = place]]
BY DEF PoolInv, PoolTypes

\* The same, for Uses.
LEMMA TheCallUses ==
    ASSUME PoolInv, NEW c \in Callers, NEW place, NEW i
    PROVE  [call EXCEPT ![c].pc = place, ![c].mine = i]
             = [call EXCEPT ![c] = [call[c] EXCEPT !.pc = place, !.mine = i]]
BY DEF PoolInv, PoolTypes

\* A coroutine that only moves on, and stays well.
LEMMA OnlyMoves ==
    ASSUME PoolInv, NEW c \in Callers, NEW place \in {"wait", "create", "reset"},
           place = "create" => lock = c /\ pool = 0
    PROVE  /\ [call[c] EXCEPT !.pc = place] \in PoolCall
           /\ PoolCallOk(c, [call[c] EXCEPT !.pc = place])
<1>. DEFINE k == [call[c] EXCEPT !.pc = place]
<1>1. call[c] \in PoolCall /\ PoolCallOk(c, call[c])
  BY ThePoolCall
<1>2. /\ k \in PoolCall /\ k.pc = place /\ k.mine = call[c].mine /\ k.old = call[c].old
      /\ k.held = call[c].held
  BY <1>1 DEF PoolCall
<1>. QED
  BY <1>1, <1>2 DEF PoolCallOk

\* A rotation and its publication leave the pools alone.
LEMMA DatabaseMoves ==
    ASSUME PoolConstants, PoolInv, Pool!Rotate \/ Pool!Publish
    PROVE  PoolInv'
<1>1. UNCHANGED <<secret, pool, pools, lock, call, faults>>
  BY DEF Pool!Rotate, Pool!Publish
<1>2. password' \in 1..(1 + MaxRotations) /\ published' \in 1..password' /\ secret \in 0..published'
  BY DEF PoolConstants, PoolInv, PoolTypes, Pool!Rotate, Pool!Publish
<1>3. PoolTypes'
  BY <1>1, <1>2 DEF PoolInv, PoolTypes
<1>4. OnePool' /\ \A c \in Callers : PoolCallOk(c, call[c])'
  BY <1>1 DEF PoolInv, OnePool, PoolCallOk
<1>. QED
  BY <1>3, <1>4 DEF PoolInv

\* Whoever gives up a pool that is there.
LEMMA GivesUp ==
    ASSUME PoolConstants, PoolInv, NEW c \in Callers, Pool!Fails(c),
           UNCHANGED <<password, published, secret, pool, pools, lock>>, faults' \in 0..MaxFaults
    PROVE  PoolInv'
<1>1. call' = [call EXCEPT ![c] = Pool!Idle]
  BY DEF Pool!Fails
<1>. QED
  BY <1>1, IdleIsWell, PoolCallGoesOn

\* get_pool.
LEMMA PoolGetPool ==
    ASSUME PoolConstants, PoolInv, NEW c \in Callers, Pool!GetPool(c)
    PROVE  PoolInv'
<1>1. UNCHANGED <<password, published, secret, pool, pools, lock>> /\ faults' \in 0..MaxFaults
  BY DEF Pool!GetPool, Pool!database, PoolInv, PoolTypes
<1>2. CASE pool # 0
  <2>. DEFINE k == [call[c] EXCEPT !.pc = "acquire", !.mine = pool]
  <2>1. call' = [call EXCEPT ![c] = k]
    BY <1>2, TheCallUses DEF Pool!GetPool, Pool!Uses, Pool!None
  <2>2. k \in PoolCall /\ PoolCallOk(c, k)
    BY <1>2, PlaceAndPool DEF PoolInv, PoolTypes
  <2>. QED
    BY <1>1, <2>1, <2>2, PoolCallGoesOn
<1>3. CASE pool = 0
  <2>1. call' = [call EXCEPT ![c] = [call[c] EXCEPT !.pc = "wait"]]
    BY <1>3, TheCallMoves DEF Pool!GetPool, Pool!Go, Pool!None
  <2>. QED
    BY <1>1, <2>1, OnlyMoves, PoolCallGoesOn
<1>. QED
  BY <1>2, <1>3

\* The lock is entered by one at a time.
LEMMA PoolEnterLock ==
    ASSUME PoolConstants, PoolInv, NEW c \in Callers, Pool!EnterLock(c)
    PROVE  PoolInv'
<1>1. UNCHANGED <<password, published, pool, pools, faults>> /\ lock = NoCaller
  BY DEF Pool!EnterLock, Pool!database
<1>2. faults' \in 0..MaxFaults
  BY <1>1 DEF PoolInv, PoolTypes
<1>3. CASE pool # 0
  <2>. DEFINE k == [call[c] EXCEPT !.pc = "acquire", !.mine = pool]
  <2>1. call' = [call EXCEPT ![c] = k] /\ UNCHANGED <<lock, secret>>
    BY <1>3, TheCallUses DEF Pool!EnterLock, Pool!SomebodyElseDid, Pool!Uses, Pool!None
  <2>2. k \in PoolCall /\ PoolCallOk(c, k)
    BY <1>3, PlaceAndPool DEF PoolInv, PoolTypes
  <2>. QED
    BY <1>1, <1>2, <2>1, <2>2, PoolCallGoesOn
<1>4. CASE pool = 0
  <2>. PICK k : k = [call[c] EXCEPT !.pc = "create"]
    OBVIOUS
  <2>1. /\ call' = [call EXCEPT ![c] = k] /\ lock' = c
        /\ secret' = IF secret = 0 THEN published ELSE secret
    BY <1>4, TheCallMoves DEF Pool!EnterLock, Pool!SomebodyElseDid, Pool!Go, Pool!None, Pool!DbSecret
  <2>2. /\ secret' \in 0..published /\ pools' \in Seq(PoolRow) /\ Len(pools) \in Nat
        /\ Len(pools') <= MaxPools /\ pool' \in 0..Len(pools') /\ lock' \in Callers \cup {NoCaller}
    BY <1>1, <2>1 DEF PoolInv, PoolTypes, PoolConstants
  <2>3. Len(pools) <= Len(pools') /\ pool' \in {0, pool}
    BY <1>1, <2>2
  <2>4. call[c] \in PoolCall /\ PoolCallOk(c, call[c])
    BY ThePoolCall
  <2>5. /\ k \in PoolCall /\ k.pc = "create" /\ k.mine = call[c].mine /\ k.old = call[c].old
        /\ k.held = call[c].held
    BY <2>4 DEF PoolCall
  <2>6. PoolCallOk(c, k)'
    <3>1. k' = k
      BY <2>1, <2>5 DEF PoolInv, PoolTypes
    <3>. QED
    BY <1>1, <1>4, <2>1, <2>4, <2>5 DEF PoolCallOk
  <2>7. OnePool' /\ \A d \in Callers : \A n \in 1..Len(call[d].held) :
                       pools'[call[d].held[n]].state # "closed"
    BY <1>1 DEF PoolInv, PoolCallOk, OnePool
  <2>8. \A d \in Callers \ {c} : lock = d => lock' = d /\ pool' = pool
    BY <1>1 DEF PoolConstants
  <2>. QED
    BY <1>1, <1>2, <2>1, <2>2, <2>3, <2>5, <2>6, <2>7, <2>8, PoolCallMoves
<1>. QED
  BY <1>3, <1>4

\* The new pool is the open one: there was none, as whoever makes one holds the lock.
LEMMA PoolCreatePool ==
    ASSUME PoolConstants, PoolInv, NEW c \in Callers, Pool!CreatePool(c)
    PROVE  PoolInv'
<1>. DEFINE n == Len(pools) + 1
<1>. PICK k : k = [call[c] EXCEPT !.pc = "acquire", !.mine = n]
  OBVIOUS
<1>1. /\ UNCHANGED <<password, published, secret, faults>> /\ lock' = NoCaller /\ pool' = n
      /\ pools' = Append(pools, [secret |-> secret, state |-> "open"]) /\ Len(pools) < MaxPools
      /\ call[c].pc = "create"
  BY DEF Pool!CreatePool, Pool!database
<1>2. call' = [call EXCEPT ![c] = k]
  BY TheCallUses DEF Pool!CreatePool, Pool!Uses
<1>3. call[c] \in PoolCall /\ PoolCallOk(c, call[c])
  BY ThePoolCall
<1>4. lock = c /\ pool = 0
  BY <1>1, <1>3 DEF PoolCallOk
<1>5. /\ pools \in Seq(PoolRow) /\ Len(pools) \in Nat /\ n \in Nat /\ secret \in Nat
      /\ faults' \in 0..MaxFaults /\ secret' \in 0..published
  BY <1>1 DEF PoolInv, PoolTypes
<1>6. /\ pools' \in Seq(PoolRow) /\ Len(pools') = n
      /\ \A i \in 1..Len(pools) : pools'[i] = pools[i]
      /\ pools'[n].state = "open"
  BY <1>1, <1>5 DEF PoolRow
<1>7. /\ k \in PoolCall /\ k.pc = "acquire" /\ k.mine = n /\ k.old = call[c].old
      /\ k.held = call[c].held
  BY <1>3, <1>5 DEF PoolCall
<1>8. OnePool'
  <2>1. ASSUME NEW i \in 1..n PROVE pools'[i].state = "open" <=> i = n
    <3>1. i = n \/ i \in 1..Len(pools)
      BY <1>5
    <3>2. i \in 1..Len(pools) => pools'[i].state # "open" /\ i # n
      BY <1>4, <1>5, <1>6 DEF PoolInv, OnePool
    <3>. QED
      BY <3>1, <3>2, <1>6
  <2>. QED
    BY <2>1, <1>1, <1>6 DEF OnePool
<1>9. PoolCallOk(c, k)'
  <2>1. k.mine \in 0..Len(pools') /\ k.old \in 0..Len(pools') /\ k.mine # 0 /\ k.old # pool'
    BY <1>1, <1>3, <1>5, <1>6, <1>7 DEF PoolCallOk
  <2>2. \A m \in 1..Len(k.held) : k.held[m] \in 1..Len(pools') /\ pools'[k.held[m]].state # "closed"
    BY <1>3, <1>5, <1>6, <1>7 DEF PoolCallOk
  <2>. QED
    BY <2>1, <2>2, <1>7 DEF PoolCallOk
<1>10. \A d \in Callers \ {c} : \A m \in 1..Len(call[d].held) :
          pools'[call[d].held[m]].state # "closed"
  BY <1>6 DEF PoolInv, PoolCallOk
<1>11. \A d \in Callers \ {c} : lock = d => lock' = d /\ pool' = pool
  BY <1>4
<1>12. /\ Len(pools) <= Len(pools') /\ Len(pools') <= MaxPools /\ pool' \in 0..Len(pools')
       /\ pool' > Len(pools) /\ lock' \in Callers \cup {NoCaller}
  BY <1>1, <1>5, <1>6 DEF PoolConstants
<1>. QED
  BY <1>1, <1>2, <1>5, <1>6, <1>7, <1>8, <1>9, <1>10, <1>11, <1>12, PoolCallMoves

\* create_pool is refused: the lock is free again.
LEMMA PoolCreateFails ==
    ASSUME PoolConstants, PoolInv, NEW c \in Callers, Pool!CreateFails(c)
    PROVE  PoolInv'
<1>. PICK k : k = Pool!Idle
  OBVIOUS
<1>1. /\ UNCHANGED <<password, published, secret, pool, pools>> /\ lock' = NoCaller
      /\ call' = [call EXCEPT ![c] = k] /\ call[c].pc = "create"
  BY DEF Pool!CreateFails, Pool!database, Pool!Fails
<1>2. faults' \in 0..MaxFaults
  BY DEF Pool!CreateFails, PoolInv, PoolTypes, PoolConstants
<1>3. lock = c
  BY <1>1, ThePoolCall DEF PoolCallOk
<1>4. k \in PoolCall /\ PoolCallOk(c, k) /\ k.pc = "idle"
  BY IdleIsWell DEF Pool!Idle
<1>5. PoolCallOk(c, k)' /\ OnePool'
  BY <1>1, <1>4 DEF PoolCallOk, PoolInv, OnePool
<1>6. /\ secret' \in 0..published /\ pools' \in Seq(PoolRow) /\ Len(pools) \in Nat
      /\ Len(pools') <= MaxPools /\ pool' \in 0..Len(pools') /\ lock' \in Callers \cup {NoCaller}
  BY <1>1 DEF PoolInv, PoolTypes
<1>7. Len(pools) <= Len(pools') /\ pool' \in {0, pool}
  BY <1>1, <1>6
<1>8. /\ \A d \in Callers \ {c} : lock = d => lock' = d /\ pool' = pool
      /\ \A d \in Callers \ {c} : \A n \in 1..Len(call[d].held) :
            pools'[call[d].held[n]].state # "closed"
  BY <1>1, <1>3 DEF PoolInv, PoolCallOk
<1>. QED
  BY <1>1, <1>2, <1>4, <1>5, <1>6, <1>7, <1>8, PoolCallMoves

\* acquire, and the two ways in which it is refused.
LEMMA PoolAcquire ==
    ASSUME PoolConstants, PoolInv, NEW c \in Callers, Pool!Acquire(c)
    PROVE  PoolInv'
<1>. DEFINE h == Append(call[c].held, call[c].mine)
<1>. PICK k : k = [call[c] EXCEPT !.pc = "use", !.tried = FALSE, !.held = h]
  OBVIOUS
<1>1. /\ UNCHANGED <<password, published, secret, pool, pools, lock>> /\ faults' \in 0..MaxFaults
      /\ call[c].pc = "acquire" /\ pools[call[c].mine].state = "open"
  BY DEF Pool!Acquire, Pool!database, PoolInv, PoolTypes
<1>2. call' = [call EXCEPT ![c] = k]
  BY DEF Pool!Acquire, PoolInv, PoolTypes
<1>3. /\ call[c] \in PoolCall /\ PoolCallOk(c, call[c])
      /\ call[c].held \in Seq(Nat) /\ call[c].mine \in Nat
  BY ThePoolCall
<1>4. /\ h \in Seq(Nat) /\ Len(call[c].held) \in Nat /\ Len(h) = Len(call[c].held) + 1
      /\ h[Len(call[c].held) + 1] = call[c].mine
      /\ \A n \in 1..Len(call[c].held) : h[n] = call[c].held[n]
  BY <1>3
<1>5. /\ k \in PoolCall /\ k.pc = "use" /\ k.mine = call[c].mine /\ k.old = call[c].old
      /\ k.held = h
  BY <1>3, <1>4 DEF PoolCall
<1>6. Len(pools) \in Nat /\ call[c].mine \in 1..Len(pools)
  BY <1>1, <1>3 DEF PoolCallOk, PoolInv, PoolTypes
<1>7. ASSUME NEW n \in 1..Len(h)
      PROVE  h[n] \in 1..Len(pools) /\ pools[h[n]].state # "closed"
  <2>1. n = Len(call[c].held) + 1 \/ n \in 1..Len(call[c].held)
    BY <1>4
  <2>2. CASE n = Len(call[c].held) + 1
    BY <2>2, <1>1, <1>4, <1>6
  <2>3. CASE n \in 1..Len(call[c].held)
    BY <2>3, <1>3, <1>4 DEF PoolCallOk
  <2>. QED
    BY <2>1, <2>2, <2>3
<1>8. PoolCallOk(c, k)
  <2>1. k.old # 0 => k.old # pool
    BY <1>3, <1>5 DEF PoolCallOk
  <2>2. k.mine \in 0..Len(pools) /\ k.old \in 0..Len(pools) /\ Len(k.held) # 0
    BY <1>3, <1>4, <1>5 DEF PoolCallOk
  <2>. QED
    BY <2>1, <2>2, <1>5, <1>7 DEF PoolCallOk
<1>. QED
  BY <1>1, <1>2, <1>5, <1>8, PoolCallGoesOn

\* A refusal: the first resets the pool, the second gives up.
LEMMA PoolRefused ==
    ASSUME PoolConstants, PoolInv, NEW c \in Callers, Pool!Refused(c)
    PROVE  PoolInv'
<1>1. /\ UNCHANGED <<password, published, secret, pool, pools, lock>> /\ faults' \in 0..MaxFaults
  BY DEF Pool!Refused, Pool!database, PoolInv, PoolTypes, PoolConstants
<1>2. CASE call[c].tried
  BY <1>1, <1>2, GivesUp DEF Pool!Refused
<1>3. CASE ~call[c].tried
  <2>1. call' = [call EXCEPT ![c] = [call[c] EXCEPT !.pc = "reset"]]
    BY <1>3, TheCallMoves DEF Pool!Refused, Pool!Go
  <2>. QED
    BY <1>1, <2>1, OnlyMoves, PoolCallGoesOn
<1>. QED
  BY <1>2, <1>3

\* An InterfaceError gives up.
LEMMA PoolIsClosedHolds ==
    ASSUME PoolConstants, PoolInv, NEW c \in Callers, Pool!PoolIsClosed(c)
    PROVE  PoolInv'
<1>1. /\ UNCHANGED <<password, published, secret, pool, pools, lock>> /\ faults' \in 0..MaxFaults
  BY DEF Pool!PoolIsClosed, Pool!database, PoolInv, PoolTypes
<1>. QED
  BY <1>1, GivesUp DEF Pool!PoolIsClosed

\* Pools change their state, and only their state.
LEMMA StatesChange ==
    ASSUME PoolInv, NEW x \in Nat, NEW to \in {"closing", "closed"}
    PROVE  LET q == [i \in 1..Len(pools) |->
                        IF i = x THEN [pools[i] EXCEPT !.state = to] ELSE pools[i]]
           IN  /\ q \in Seq(PoolRow) /\ Len(q) = Len(pools)
               /\ \A i \in 1..Len(pools) : q[i].state = IF i = x THEN to ELSE pools[i].state
<1>. DEFINE q == [i \in 1..Len(pools) |->
                    IF i = x THEN [pools[i] EXCEPT !.state = to] ELSE pools[i]]
<1>1. pools \in Seq(PoolRow) /\ Len(pools) \in Nat
  BY DEF PoolInv, PoolTypes
<1>2. \A i \in 1..Len(pools) : pools[i] \in PoolRow
  BY <1>1
<1>3. \A i \in 1..Len(pools) : q[i] \in PoolRow
                               /\ q[i].state = IF i = x THEN to ELSE pools[i].state
  BY <1>2 DEF PoolRow
<1>4. q \in Seq(PoolRow) /\ Len(q) = Len(pools)
  BY <1>1, <1>3
<1>. QED
  BY <1>3, <1>4

\* _reset_pool.
LEMMA PoolResetPool ==
    ASSUME PoolConstants, PoolInv, NEW c \in Callers, Pool!ResetPool(c)
    PROVE  PoolInv'
<1>. PICK k : k = [call[c] EXCEPT !.pc = "closing", !.old = pool]
  OBVIOUS
<1>1. /\ UNCHANGED <<password, published, faults>> /\ lock' = lock /\ lock = NoCaller
      /\ pool' = 0 /\ secret' = 0
      /\ pools' = [i \in 1..Len(pools) |->
                     IF i = pool THEN [pools[i] EXCEPT !.state = "closing"] ELSE pools[i]]
  BY DEF Pool!ResetPool, Pool!database, Pool!None
<1>2. call' = [call EXCEPT ![c] = k]
  BY DEF Pool!ResetPool, PoolInv, PoolTypes
<1>3. call[c] \in PoolCall /\ PoolCallOk(c, call[c])
  BY ThePoolCall
<1>4. /\ Len(pools) \in Nat /\ pool \in Nat /\ pool \in 0..Len(pools) /\ faults' \in 0..MaxFaults
      /\ published \in Nat /\ secret' \in 0..published /\ Len(pools) <= MaxPools
      /\ lock' \in Callers \cup {NoCaller}
  BY <1>1 DEF PoolInv, PoolTypes
<1>5. /\ pools' \in Seq(PoolRow) /\ Len(pools') = Len(pools)
      /\ \A i \in 1..Len(pools) :
            pools'[i].state = IF i = pool THEN "closing" ELSE pools[i].state
  BY <1>1, <1>4, StatesChange
<1>6. /\ k \in PoolCall /\ k.pc = "closing" /\ k.mine = call[c].mine /\ k.old = pool
      /\ k.held = call[c].held
  BY <1>3, <1>4 DEF PoolCall
<1>7. OnePool'
  BY <1>1, <1>4, <1>5 DEF PoolInv, OnePool
<1>8. \A d \in Callers : \A n \in 1..Len(call[d].held) :
         call[d].held[n] \in 1..Len(pools) /\ pools'[call[d].held[n]].state # "closed"
  BY <1>5 DEF PoolInv, PoolCallOk
<1>9. PoolCallOk(c, k)'
  BY <1>1, <1>3, <1>4, <1>5, <1>6, <1>8 DEF PoolCallOk
<1>10. \A d \in Callers \ {c} : lock = d => lock' = d /\ pool' = pool
  BY <1>1 DEF PoolConstants
<1>11. /\ Len(pools) <= Len(pools') /\ Len(pools') <= MaxPools /\ pool' \in 0..Len(pools')
       /\ pool' \in {0, pool}
  BY <1>1, <1>4, <1>5
<1>. QED
  BY <1>1, <1>2, <1>4, <1>5, <1>6, <1>7, <1>8, <1>9, <1>10, <1>11, PoolCallMoves

\* close() returns: no connection of the pool is out.
LEMMA PoolClosed ==
    ASSUME PoolConstants, PoolInv, NEW c \in Callers, Pool!Closed(c)
    PROVE  PoolInv'
<1>. PICK k : k = [call[c] EXCEPT !.pc = "again", !.old = 0, !.tried = TRUE]
  OBVIOUS
<1>. PICK x : x = call[c].old
  OBVIOUS
<1>1. /\ UNCHANGED <<password, published, secret, pool, lock, faults>>
      /\ \A d \in Callers : ~Pool!Holds(d, x)
      /\ pools' = [i \in 1..Len(pools) |->
                     IF i = x THEN [pools[i] EXCEPT !.state = "closed"] ELSE pools[i]]
  BY DEF Pool!Closed, Pool!database
<1>2. call' = [call EXCEPT ![c] = k]
  BY DEF Pool!Closed, Pool!None, PoolInv, PoolTypes
<1>3. call[c] \in PoolCall /\ PoolCallOk(c, call[c]) /\ x \in Nat
  BY ThePoolCall
<1>4. /\ Len(pools) \in Nat /\ pool \in 0..Len(pools) /\ faults' \in 0..MaxFaults
      /\ secret' \in 0..published /\ Len(pools) <= MaxPools
      /\ lock' \in Callers \cup {NoCaller}
  BY <1>1 DEF PoolInv, PoolTypes
<1>5. /\ pools' \in Seq(PoolRow) /\ Len(pools') = Len(pools)
      /\ \A i \in 1..Len(pools) :
            pools'[i].state = IF i = x THEN "closed" ELSE pools[i].state
  BY <1>1, <1>3, StatesChange
<1>6. /\ k \in PoolCall /\ k.pc = "again" /\ k.mine = call[c].mine /\ k.old = 0
      /\ k.held = call[c].held
  BY <1>3 DEF PoolCall
<1>7. OnePool'
  <2>1. \A i \in 1..Len(pools) : i = x => i # pool
    BY <1>3 DEF PoolCallOk
  <2>. QED
    BY <2>1, <1>1, <1>5 DEF PoolInv, OnePool
<1>8. \A d \in Callers : \A n \in 1..Len(call[d].held) :
         call[d].held[n] \in 1..Len(pools) /\ pools'[call[d].held[n]].state # "closed"
  <2>1. \A d \in Callers : \A n \in 1..Len(call[d].held) : call[d].held[n] # x
    BY <1>1 DEF Pool!Holds
  <2>. QED
    BY <2>1, <1>5 DEF PoolInv, PoolCallOk
<1>9. PoolCallOk(c, k)'
  <2>1. k.mine \in 0..Len(pools') /\ k.old \in 0..Len(pools')
    BY <1>3, <1>4, <1>5, <1>6 DEF PoolCallOk
  <2>2. \A n \in 1..Len(k.held) : k.held[n] \in 1..Len(pools') /\ pools'[k.held[n]].state # "closed"
    BY <1>5, <1>6, <1>8
  <2>. QED
    BY <2>1, <2>2, <1>6 DEF PoolCallOk
<1>10. /\ Len(pools) <= Len(pools') /\ Len(pools') <= MaxPools /\ pool' \in 0..Len(pools')
       /\ pool' \in {0, pool} /\ \A d \in Callers \ {c} : lock = d => lock' = d /\ pool' = pool
  BY <1>1, <1>4, <1>5
<1>. QED
  BY <1>1, <1>2, <1>4, <1>5, <1>6, <1>7, <1>8, <1>9, <1>10, PoolCallMoves

\* A list of numbers without its last.
LEMMA FirstOnes ==
    ASSUME NEW s \in Seq(Nat), Len(s) # 0, Len(s) # 1
    PROVE  LET h == SubSeq(s, 1, Len(s) - 1)
           IN  /\ h \in Seq(Nat) /\ Len(h) = Len(s) - 1 /\ Len(s) - 1 \in Nat /\ Len(h) # 0
               /\ \A i \in 1..Len(h) : i \in 1..Len(s) /\ h[i] = s[i]
<1>. PICK m \in Nat : m = Len(s) - 1
  OBVIOUS
<1>1. 1 <= m /\ m <= Len(s) /\ Len(s) \in Nat /\ m # 0
  OBVIOUS
<1>2. SubSeq(s, 1, m) \in Seq(Nat) /\ Len(SubSeq(s, 1, m)) = m
  BY <1>1
<1>3. \A i \in 1..m : i \in 1..Len(s) /\ SubSeq(s, 1, m)[i] = s[i]
  BY <1>1
<1>. QED
  BY <1>1, <1>2, <1>3

\* A connection goes back; a nested one leaves the outer one out.
LEMMA PoolRelease ==
    ASSUME PoolConstants, PoolInv, NEW c \in Callers, Pool!Release(c)
    PROVE  PoolInv'
<1>. DEFINE n == Len(call[c].held)
<1>1. /\ UNCHANGED <<password, published, secret, pool, pools, lock>> /\ faults' \in 0..MaxFaults
      /\ call[c].pc = "use"
  BY DEF Pool!Release, Pool!database, PoolInv, PoolTypes
<1>2. /\ call[c] \in PoolCall /\ PoolCallOk(c, call[c]) /\ call[c].held \in Seq(Nat)
      /\ n \in Nat /\ n # 0
  BY <1>1, ThePoolCall DEF PoolCallOk
<1>3. CASE n = 1
  <2>1. call' = [call EXCEPT ![c] = Pool!Idle]
    BY <1>3 DEF Pool!Release
  <2>. QED
    BY <1>1, <2>1, IdleIsWell, PoolCallGoesOn
<1>4. CASE n # 1
  <2>. DEFINE h == SubSeq(call[c].held, 1, n - 1)
              k == [Pool!Idle EXCEPT !.pc = "use", !.held = h]
  <2>1. call' = [call EXCEPT ![c] = k]
    BY <1>4 DEF Pool!Release
  <2>2. /\ h \in Seq(Nat) /\ Len(h) = n - 1 /\ n - 1 \in Nat /\ Len(h) # 0
        /\ \A i \in 1..Len(h) : i \in 1..n /\ h[i] = call[c].held[i]
    BY <1>2, <1>4, FirstOnes
  <2>3. k \in PoolCall /\ k.pc = "use" /\ k.mine = 0 /\ k.old = 0 /\ k.held = h
    BY <2>2 DEF PoolCall, Pool!Idle, Pool!None
  <2>4. PoolCallOk(c, k)
    <3>1. 0 \in 0..Len(pools)
      BY DEF PoolInv, PoolTypes
    <3>2. \A i \in 1..Len(h) : h[i] \in 1..Len(pools) /\ pools[h[i]].state # "closed"
      BY <1>2, <2>2 DEF PoolCallOk
    <3>. QED
      BY <2>2, <2>3, <3>1, <3>2 DEF PoolCallOk
  <2>. QED
    BY <1>1, <2>1, <2>3, <2>4, PoolCallGoesOn
<1>. QED
  BY <1>3, <1>4

\* A process starts without a pool.
LEMMA PoolInit ==
    ASSUME PoolConstants, Pool!Init
    PROVE  PoolInv
<1>1. <<>> \in Seq(PoolRow) /\ <<>> \in Seq(Nat) /\ Len(<<>>) = 0
  OBVIOUS
<1>2. PoolTypes /\ OnePool
  BY <1>1 DEF Pool!Init, Pool!None, Pool!Idle, PoolTypes, OnePool, PoolCall, PoolConstants
<1>3. ASSUME NEW c \in Callers PROVE PoolCallOk(c, call[c])
  BY <1>1 DEF Pool!Init, Pool!None, Pool!Idle, PoolCallOk
<1>. QED
  BY <1>2, <1>3 DEF PoolInv

\* Every step of the process, the database and the secrets manager.
LEMMA PoolStep ==
    ASSUME PoolConstants, PoolInv, [Pool!Next]_Pool!poolVars
    PROVE  PoolInv'
<1>1. CASE Pool!Next
  <2>1. CASE Pool!Rotate \/ Pool!Publish
    BY <2>1, DatabaseMoves
  <2>2. ASSUME NEW c \in Callers,
               \/ Pool!GetPool(c) \/ Pool!EnterLock(c) \/ Pool!CreatePool(c) \/ Pool!CreateFails(c)
               \/ Pool!Acquire(c) \/ Pool!Refused(c) \/ Pool!PoolIsClosed(c)
               \/ Pool!ResetPool(c) \/ Pool!Closed(c) \/ Pool!Release(c)
        PROVE  PoolInv'
    BY <2>2, PoolGetPool, PoolEnterLock, PoolCreatePool, PoolCreateFails, PoolAcquire,
       PoolRefused, PoolIsClosedHolds, PoolResetPool, PoolClosed, PoolRelease
  <2>. QED
    BY <1>1, <2>1, <2>2 DEF Pool!Next
<1>2. CASE UNCHANGED Pool!poolVars
  BY <1>2 DEF Pool!poolVars, PoolInv, PoolTypes, OnePool, PoolCallOk
<1>. QED
  BY <1>1, <1>2

\* However rotations, resets and calls overlap, there is at most one open pool and it is the
\* one get_pool returns; no pool is closed while a connection of it is out; and no caller
\* waits for, or works with, a pool that never was (_reset_pool and acquire of _pool.py).
THEOREM NoPoolLeaksCorrect ==
    ASSUME PoolConstants
    PROVE  Pool!Spec => [](Pool!TypeOK /\ Pool!NoPoolLeaks)
<1>1. Pool!Init => PoolInv
  BY PoolInit
<1>2. PoolInv /\ [Pool!Next]_Pool!poolVars => PoolInv'
  BY PoolStep
<1>3. PoolInv => Pool!TypeOK /\ Pool!NoPoolLeaks
  <2>. SUFFICES ASSUME PoolInv PROVE Pool!TypeOK /\ Pool!NoPoolLeaks
    OBVIOUS
  <2>1. Pool!TypeOK
    <3>1. \A i \in 1..Len(pools) : pools[i].state \in {"open", "closing", "closed"}
      <4>1. \A i \in 1..Len(pools) : pools[i] \in PoolRow
        BY DEF PoolInv, PoolTypes
      <4>. QED
        BY <4>1 DEF PoolRow
    <3>2. \A c \in Callers : call[c].mine \in 0..Len(pools) /\ call[c].old \in 0..Len(pools)
      BY DEF PoolInv, PoolCallOk
    <3>. QED
      BY <3>1, <3>2 DEF PoolInv, PoolTypes, Pool!TypeOK
  <2>2. Pool!NoPoolLeaks
    BY DEF Pool!NoPoolLeaks, Pool!Holds, PoolInv, OnePool, PoolCallOk
  <2>. QED
    BY <2>1, <2>2
<1>. QED
  BY <1>1, <1>2, <1>3, PTL DEF Pool!Spec

-----------------------------------------------------------------------------
(* What is reused is known of that client *)

AnyTeam == Teams \cup {TeamOfNone}
AnyPair == (Clients \cup {NoClient}) \X AttributeLabels
Owned == [client : Clients \cup {NoClient}, label : AttributeLabels, team : AnyTeam]
KnownRow == [day : Nat, by : {"research"}, about : AnyPair, team : AnyTeam, edited : BOOLEAN]
UnderWay == {"researched", "stored", "caching"}
KnownJob == [at : {"none", "enqueued"}]
            \cup [at : {"reused"}, pair : AnyPair, team : AnyTeam, row : KnownRow]
            \cup [at : UnderWay, about : AnyPair, edited : BOOLEAN]

KnownTypes ==
    /\ day \in 1..MaxDay /\ teams \subseteq Teams
    /\ campaign \in [Campaigns -> Owned]
    /\ known \in [Known!Keys -> KnownRow \cup {Known!NoRow}]
    /\ job \in [Campaigns -> KnownJob]
    /\ edits \in 0..MaxEdits /\ faults \in 0..MaxFaults

\* A row is of the pair that is its key, unless the pair was edited during the research;
\* it is of the team that is its key, or of one that is gone when that is no team.
RowIsOf(k, row) ==
    /\ k[3] \in teams \cup {TeamOfNone} /\ row.day \in 1..day
    /\ row.about = <<k[1], k[2]>> \/ row.edited
    /\ row.team = k[3] \/ (k[3] = TeamOfNone /\ row.team \notin teams)

\* The pair that is researched is the campaign's, unless that was edited since.
JobIsOf(c, j) ==
    /\ j.at = "reused" => /\ j.row.about = j.pair \/ j.row.edited
                          /\ j.row.team \in {j.team, TeamOfNone} \/ j.row.team \notin teams
                          /\ day - j.row.day < Warm
    /\ j.at \in UnderWay => j.about = Known!Pair(c) \/ j.edited

KnownInv ==
    /\ KnownTypes
    /\ \A c \in Campaigns : campaign[c].team \in teams \cup {TeamOfNone}
    /\ \A k \in Known!Keys : known[k].by = "research" => RowIsOf(k, known[k])
    /\ \A c \in Campaigns : JobIsOf(c, job[c])
\* A step of one job that leaves everything else alone.
LEMMA KnownJobMoves ==
    ASSUME KnownInv, NEW c \in Campaigns, NEW j \in KnownJob, JobIsOf(c, j),
           job' = [job EXCEPT ![c] = j],
           UNCHANGED <<day, campaign, teams, known, edits>>, faults' \in 0..MaxFaults
    PROVE  KnownInv'
<1>1. KnownTypes'
  BY DEF KnownInv, KnownTypes
<1>2. ASSUME NEW d \in Campaigns PROVE JobIsOf(d, job[d])'
  <2>1. job'[d] = IF d = c THEN j ELSE job[d]
    BY DEF KnownInv, KnownTypes
  <2>2. JobIsOf(d, job[d])
    BY DEF KnownInv
  <2>. QED
    BY <2>1, <2>2 DEF JobIsOf, Known!Pair
<1>. QED
  BY <1>1, <1>2 DEF KnownInv, RowIsOf

\* What the invariant says of one job.
LEMMA TheKnownJob ==
    ASSUME KnownInv, NEW c \in Campaigns
    PROVE  /\ job[c] \in KnownJob /\ JobIsOf(c, job[c])
           /\ campaign[c] \in Owned /\ campaign[c].team \in teams \cup {TeamOfNone}
           /\ Known!Pair(c) \in AnyPair
BY DEF KnownInv, KnownTypes, Known!Pair, Owned, AnyPair

\* A job that has nothing in hand.
LEMMA NothingInHand ==
    ASSUME NEW c \in Campaigns, NEW at \in {"none", "enqueued"}
    PROVE  [at |-> at] \in KnownJob /\ JobIsOf(c, [at |-> at])
BY DEF KnownJob, JobIsOf, UnderWay

\* The lookup for the whole job.
LEMMA CheckIsWell ==
    ASSUME KnownConstants, KnownInv, NEW c \in Campaigns, Known!CheckStaleness(c)
    PROVE  KnownInv'
<1>. DEFINE pair == Known!Pair(c)
            key == <<pair[1], pair[2], Known!Scope(pair, campaign[c].team)>>
            row == known[key]
            j == [at |-> "reused", pair |-> pair, team |-> campaign[c].team, row |-> row]
<1>1. UNCHANGED <<day, campaign, teams, known, edits>> /\ faults' \in 0..MaxFaults
  BY DEF Known!CheckStaleness, KnownInv, KnownTypes
<1>2. CASE pair[1] # NoClient /\ Known!IsFresh(row)
  <2>1. job' = [job EXCEPT ![c] = j]
    BY <1>2 DEF Known!CheckStaleness
  <2>2. pair = <<campaign[c].client, campaign[c].label>> /\ campaign[c] \in Owned
    BY TheKnownJob DEF Known!Pair
  <2>3. pair[1] \in Clients /\ pair[2] \in AttributeLabels /\ campaign[c].team \in AnyTeam
    BY <1>2, <2>2 DEF Owned
  <2>4. Known!Scope(pair, campaign[c].team) \in {campaign[c].team, TeamOfNone}
    BY DEF Known!Scope
  <2>5. key \in Known!Keys
    BY <2>3, <2>4 DEF Known!Keys, AnyTeam
  <2>6. /\ row \in KnownRow \cup {Known!NoRow} /\ row.by = "research" /\ day - row.day < Warm
    BY <1>2, <2>5 DEF KnownInv, KnownTypes, Known!IsFresh, Known!IsRow
  <2>7. row \in KnownRow
    BY <2>6 DEF Known!NoRow
  <2>8. RowIsOf(key, row)
    BY <2>5, <2>6 DEF KnownInv
  <2>9. j \in KnownJob
    BY <2>3, <2>7, TheKnownJob DEF KnownJob
  <2>10. key[1] = pair[1] /\ key[2] = pair[2] /\ key[3] = Known!Scope(pair, campaign[c].team)
    OBVIOUS
  <2>11. pair = <<pair[1], pair[2]>>
    BY <2>2
  <2>12. row.about = pair \/ row.edited
    BY <2>8, <2>10, <2>11 DEF RowIsOf
  <2>13. row.team \in {campaign[c].team, TeamOfNone} \/ row.team \notin teams
    BY <2>4, <2>8, <2>10 DEF RowIsOf
  <2>14. JobIsOf(c, j)
    BY <2>6, <2>12, <2>13 DEF JobIsOf, UnderWay
  <2>. QED
    BY <1>1, <2>1, <2>9, <2>14, KnownJobMoves
<1>3. CASE ~ (pair[1] # NoClient /\ Known!IsFresh(row))
  <2>1. job' = [job EXCEPT ![c] = [at |-> "enqueued"]]
    BY <1>3 DEF Known!CheckStaleness
  <2>. QED
    BY <1>1, <2>1, NothingInHand, KnownJobMoves
<1>. QED
  BY <1>2, <1>3

\* A job that is done, or that is to be tried again.
LEMMA LetsGo ==
    ASSUME KnownConstants, KnownInv, NEW c \in Campaigns,
           \/ Known!Reused(c) \/ Known!CheckFails(c) \/ Known!StatementFails(c)
    PROVE  KnownInv'
<1>1. UNCHANGED <<day, campaign, teams, known, edits>> /\ faults' \in 0..MaxFaults
  BY DEF Known!Reused, Known!CheckFails, Known!StatementFails, KnownInv, KnownTypes, KnownConstants
<1>2. \E at \in {"none", "enqueued"} : job' = [job EXCEPT ![c] = [at |-> at]]
  BY DEF Known!Reused, Known!CheckFails, Known!StatementFails, Known!NoJob
<1>. QED
  BY <1>1, <1>2, NothingInHand, KnownJobMoves

\* The research, and the two statements before the one that writes the cache.
LEMMA ResearchIsWell ==
    ASSUME KnownConstants, KnownInv, NEW c \in Campaigns,
           Known!Research(c) \/ Known!StoreResult(c) \/ Known!AskForClient(c)
    PROVE  KnownInv'
<1>1. UNCHANGED <<day, campaign, teams, known, edits>> /\ faults' \in 0..MaxFaults
  BY DEF Known!Research, Known!StoreResult, Known!AskForClient, KnownInv, KnownTypes
<1>2. CASE Known!Research(c)
  <2>. DEFINE j == [at |-> "researched", about |-> Known!Pair(c), edited |-> FALSE]
  <2>1. job' = [job EXCEPT ![c] = j]
    BY <1>2 DEF Known!Research
  <2>2. j \in KnownJob /\ JobIsOf(c, j)
    BY TheKnownJob DEF KnownJob, JobIsOf, UnderWay
  <2>. QED
    BY <1>1, <2>1, <2>2, KnownJobMoves
<1>3. ASSUME NEW at \in UnderWay, job[c].at \in UnderWay,
             job' = [job EXCEPT ![c] = [job[c] EXCEPT !.at = at]]
      PROVE  KnownInv'
  <2>. DEFINE j == [job[c] EXCEPT !.at = at]
  <2>1. job[c] \in [at : UnderWay, about : AnyPair, edited : BOOLEAN]
    BY <1>3, TheKnownJob DEF KnownJob, UnderWay
  <2>2. /\ j \in [at : UnderWay, about : AnyPair, edited : BOOLEAN]
        /\ j.at = at /\ j.about = job[c].about /\ j.edited = job[c].edited
    BY <2>1
  <2>3. j \in KnownJob
    BY <2>2 DEF KnownJob
  <2>4. JobIsOf(c, j)
    BY <1>3, <2>2, TheKnownJob DEF JobIsOf, UnderWay
  <2>. QED
    BY <1>1, <1>3, <2>3, <2>4, KnownJobMoves
<1>4. CASE Known!StoreResult(c)
  <2>1. job' = [job EXCEPT ![c] = [job[c] EXCEPT !.at = "stored"]] /\ job[c].at \in UnderWay
    BY <1>4 DEF Known!StoreResult, Known!Goes, Known!At, UnderWay, KnownInv, KnownTypes
  <2>. QED
    BY <2>1, <1>3 DEF UnderWay
<1>5. CASE Known!AskForClient(c)
  <2>1. CASE campaign[c].client = NoClient
    <3>1. job' = [job EXCEPT ![c] = [at |-> "none"]]
      BY <1>5, <2>1 DEF Known!AskForClient, Known!NoJob
    <3>. QED
      BY <1>1, <3>1, NothingInHand, KnownJobMoves
  <2>2. CASE campaign[c].client # NoClient
    <3>1. job' = [job EXCEPT ![c] = [job[c] EXCEPT !.at = "caching"]] /\ job[c].at \in UnderWay
      BY <1>5, <2>2 DEF Known!AskForClient, Known!At, UnderWay, KnownInv, KnownTypes
    <3>. QED
      BY <3>1, <1>3 DEF UnderWay
  <2>. QED
    BY <2>1, <2>2
<1>. QED
  BY <1>2, <1>4, <1>5
\* The statement that writes the cache reads the campaign anew, and the row's key with it.
LEMMA UpsertIsWell ==
    ASSUME KnownConstants, KnownInv, NEW c \in Campaigns, Known!UpsertKnowledge(c)
    PROVE  KnownInv'
<1>. DEFINE tm == campaign[c].team
            key == <<campaign[c].client, campaign[c].label, tm>>
            row == Known!Row(job[c].about, tm, job[c].edited)
<1>1. /\ UNCHANGED <<day, campaign, teams, edits, faults>> /\ job[c].at = "caching"
      /\ job' = [job EXCEPT ![c] = [at |-> "none"]]
      /\ known' = IF campaign[c].client = NoClient THEN known ELSE [known EXCEPT ![key] = row]
  BY DEF Known!UpsertKnowledge, Known!At, Known!NoJob
<1>2. /\ job[c] \in [at : UnderWay, about : AnyPair, edited : BOOLEAN] /\ JobIsOf(c, job[c])
      /\ campaign[c] \in Owned /\ tm \in teams \cup {TeamOfNone}
  BY <1>1, TheKnownJob DEF KnownJob, UnderWay
<1>3. day \in Nat /\ day \in 1..day /\ teams \subseteq Teams
  BY DEF KnownInv, KnownTypes
<1>4. row \in KnownRow /\ row.by = "research" /\ row.team = tm /\ row.day = day
      /\ row.about = job[c].about /\ row.edited = job[c].edited
  BY <1>2, <1>3 DEF Known!Row, KnownRow, AnyTeam
<1>5. RowIsOf(key, row)
  <2>1. key[1] = campaign[c].client /\ key[2] = campaign[c].label /\ key[3] = tm
    OBVIOUS
  <2>2. row.about = <<campaign[c].client, campaign[c].label>> \/ row.edited
    BY <1>1, <1>2, <1>4 DEF JobIsOf, UnderWay, Known!Pair
  <2>. QED
    BY <1>2, <1>3, <1>4, <2>1, <2>2 DEF RowIsOf
<1>6. ASSUME NEW k \in Known!Keys
      PROVE  /\ known'[k] \in KnownRow \cup {Known!NoRow}
             /\ known'[k].by = "research" => RowIsOf(k, known'[k])
  <2>1. known'[k] = known[k] \/ (k = key /\ known'[k] = row)
    BY <1>1 DEF KnownInv, KnownTypes
  <2>. QED
    BY <2>1, <1>4, <1>5 DEF KnownInv, KnownTypes
<1>7. known' \in [Known!Keys -> KnownRow \cup {Known!NoRow}]
  BY <1>1, <1>6 DEF KnownInv, KnownTypes
<1>8. \A k \in Known!Keys : (known[k].by = "research")' => RowIsOf(k, known[k])'
  BY <1>1, <1>6 DEF RowIsOf
<1>9. [at |-> "none"] \in KnownJob /\ JobIsOf(c, [at |-> "none"])
  BY NothingInHand
<1>10. KnownTypes'
  BY <1>1, <1>7, <1>9 DEF KnownInv, KnownTypes
<1>11. ASSUME NEW d \in Campaigns PROVE JobIsOf(d, job[d])'
  <2>1. job'[d] = IF d = c THEN [at |-> "none"] ELSE job[d]
    BY <1>1 DEF KnownInv, KnownTypes
  <2>2. JobIsOf(d, job[d])
    BY DEF KnownInv
  <2>3. CASE d = c
    BY <2>1, <2>3 DEF JobIsOf, UnderWay
  <2>4. CASE d # c
    BY <1>1, <2>1, <2>2, <2>4 DEF JobIsOf, Known!Pair
  <2>. QED
    BY <2>3, <2>4
<1>12. \A d \in Campaigns : campaign'[d].team \in teams' \cup {TeamOfNone}
  BY <1>1 DEF KnownInv
<1>. QED
  BY <1>8, <1>10, <1>11, <1>12 DEF KnownInv

\* A day passes when nothing is in hand.
LEMMA NextDayIsWell ==
    ASSUME KnownConstants, KnownInv, Known!NextDay
    PROVE  KnownInv'
<1>1. /\ UNCHANGED <<campaign, teams, known, job, edits, faults>> /\ day' = day + 1
      /\ day' \in 1..MaxDay /\ day \in Nat
      /\ \A c \in Campaigns : job[c].at \in {"none", "enqueued"}
  BY DEF Known!NextDay, KnownInv, KnownTypes, KnownConstants
<1>2. KnownTypes'
  BY <1>1 DEF KnownInv, KnownTypes
<1>3. \A c \in Campaigns : JobIsOf(c, job[c])'
  BY <1>1 DEF JobIsOf, UnderWay
<1>4. \A k \in Known!Keys : (known[k].by = "research")' => RowIsOf(k, known[k])'
  BY <1>1 DEF KnownInv, RowIsOf
<1>. QED
  BY <1>1, <1>2, <1>3, <1>4 DEF KnownInv

\* An edit of a pair whose research is under way is remembered.
LEMMA EditIsWell ==
    ASSUME KnownConstants, KnownInv, NEW c \in Campaigns,
           NEW client \in Clients \cup {NoClient}, NEW label \in AttributeLabels,
           Known!Edit(c, client, label)
    PROVE  KnownInv'
<1>1. /\ UNCHANGED <<day, teams, known, faults>> /\ edits' \in 0..MaxEdits
      /\ campaign' = [campaign EXCEPT ![c] = [campaign[c] EXCEPT !.client = client, !.label = label]]
      /\ job' = [job EXCEPT ![c] = IF job[c].at \in UnderWay THEN [job[c] EXCEPT !.edited = TRUE]
                                   ELSE job[c]]
  <2>1. UNCHANGED <<day, teams, known, faults>> /\ edits' \in 0..MaxEdits
    BY DEF Known!Edit, KnownInv, KnownTypes, KnownConstants
  <2>2. campaign' = [campaign EXCEPT ![c] = [campaign[c] EXCEPT !.client = client, !.label = label]]
    BY DEF Known!Edit, KnownInv, KnownTypes
  <2>3. job' = [job EXCEPT ![c] = IF job[c].at \in UnderWay THEN [job[c] EXCEPT !.edited = TRUE]
                                  ELSE job[c]]
    BY DEF Known!Edit, UnderWay
  <2>. QED
    BY <2>1, <2>2, <2>3
<1>2. job[c] \in KnownJob /\ campaign[c] \in Owned /\ JobIsOf(c, job[c])
  BY TheKnownJob
<1>3. /\ [campaign[c] EXCEPT !.client = client, !.label = label] \in Owned
      /\ [campaign[c] EXCEPT !.client = client, !.label = label].team = campaign[c].team
  BY <1>2 DEF Owned
<1>4. campaign' \in [Campaigns -> Owned]
      /\ \A d \in Campaigns : /\ campaign'[d].team = campaign[d].team
                              /\ d # c => campaign'[d] = campaign[d]
  BY <1>1, <1>3 DEF KnownInv, KnownTypes
<1>5. /\ job'[c] \in KnownJob
      /\ \/ job[c].at \in UnderWay /\ job'[c].at = job[c].at /\ job'[c].edited
         \/ job[c].at \notin UnderWay /\ job'[c] = job[c]
  <2>0. job'[c] = IF job[c].at \in UnderWay THEN [job[c] EXCEPT !.edited = TRUE] ELSE job[c]
    BY <1>1 DEF KnownInv, KnownTypes
  <2>1. CASE job[c].at \in UnderWay
    <3>1. job[c] \in [at : UnderWay, about : AnyPair, edited : BOOLEAN]
      BY <1>2, <2>1 DEF KnownJob, UnderWay
    <3>2. /\ [job[c] EXCEPT !.edited = TRUE] \in [at : UnderWay, about : AnyPair, edited : BOOLEAN]
          /\ [job[c] EXCEPT !.edited = TRUE].at = job[c].at /\ [job[c] EXCEPT !.edited = TRUE].edited
      BY <3>1
    <3>. QED
      BY <2>0, <2>1, <3>2 DEF KnownJob
  <2>2. CASE job[c].at \notin UnderWay
    BY <2>0, <2>2, <1>2
  <2>. QED
    BY <2>1, <2>2
<1>6. \A d \in Campaigns \ {c} : job'[d] = job[d]
  BY <1>1 DEF KnownInv, KnownTypes
<1>7. job' \in [Campaigns -> KnownJob]
  BY <1>1, <1>5 DEF KnownInv, KnownTypes
<1>8. KnownTypes'
  BY <1>1, <1>4, <1>7 DEF KnownInv, KnownTypes
<1>9. ASSUME NEW d \in Campaigns PROVE JobIsOf(d, job[d])'
  <2>1. CASE d = c
    <3>1. job'[c].at \in UnderWay => job'[c].edited
      BY <1>5
    <3>2. job'[c].at = "reused" => job'[c] = job[c]
      BY <1>5 DEF UnderWay
    <3>. QED
      BY <1>1, <1>2, <2>1, <3>1, <3>2 DEF JobIsOf
  <2>2. CASE d # c
    BY <1>1, <1>4, <1>6, <2>2 DEF KnownInv, JobIsOf, Known!Pair
  <2>. QED
    BY <2>1, <2>2
<1>10. \A k \in Known!Keys : (known[k].by = "research")' => RowIsOf(k, known[k])'
  BY <1>1 DEF KnownInv, RowIsOf
<1>. QED
  BY <1>1, <1>4, <1>8, <1>9, <1>10 DEF KnownInv

\* The rows of a team that ends become those of no team, under the same pair.
LEMMA DeleteTeamIsWell ==
    ASSUME KnownConstants, KnownInv, NEW t \in Teams, Known!DeleteTeam(t)
    PROVE  KnownInv'
<1>1. /\ UNCHANGED <<day, job, faults>> /\ edits' \in 0..MaxEdits /\ teams' = teams \ {t}
      /\ campaign' = [c \in Campaigns |-> IF campaign[c].team = t
                                          THEN [campaign[c] EXCEPT !.team = TeamOfNone] ELSE campaign[c]]
      /\ known' = [k \in Known!Keys |->
           IF k[3] = t THEN Known!NoRow
           ELSE IF k[3] = TeamOfNone /\ <<k[1], k[2], t>> \in Known!TeamRows(t) THEN known[<<k[1], k[2], t>>]
           ELSE known[k]]
  BY DEF Known!DeleteTeam, KnownInv, KnownTypes, KnownConstants
<1>2. TeamOfNone # t /\ Known!NoRow.by # "research" /\ teams \subseteq Teams
  BY DEF KnownConstants, Known!NoRow, KnownInv, KnownTypes
<1>3. ASSUME NEW k \in Known!Keys
      PROVE  /\ known'[k] \in KnownRow \cup {Known!NoRow}
             /\ known'[k].by = "research" => RowIsOf(k, known[k])'
  <2>. DEFINE k2 == <<k[1], k[2], t>>
  <2>1. CASE k[3] = t
    BY <1>1, <1>2, <2>1
  <2>2. CASE k[3] = TeamOfNone /\ k2 \in Known!TeamRows(t)
    <3>1. known'[k] = known[k2] /\ k2 \in Known!Keys
      BY <1>1, <1>2, <2>2 DEF Known!TeamRows
    <3>2. k2[1] = k[1] /\ k2[2] = k[2] /\ k2[3] = t
      OBVIOUS
    <3>3. known[k2].by = "research"
      BY <2>2 DEF Known!TeamRows, Known!IsRow
    <3>4. RowIsOf(k2, known[k2])
      BY <3>1, <3>3 DEF KnownInv
    <3>5. known[k2].team = t
      BY <1>2, <3>2, <3>4 DEF RowIsOf
    <3>6. RowIsOf(k, known[k])'
      BY <1>1, <2>2, <3>1, <3>2, <3>4, <3>5 DEF RowIsOf
    <3>. QED
      BY <3>1, <3>6 DEF KnownInv, KnownTypes
  <2>3. CASE k[3] # t /\ ~ (k[3] = TeamOfNone /\ k2 \in Known!TeamRows(t))
    <3>1. known'[k] = known[k]
      BY <1>1, <2>3
    <3>2. known[k].by = "research" => RowIsOf(k, known[k])
      BY DEF KnownInv
    <3>. QED
      BY <1>1, <2>3, <3>1, <3>2 DEF KnownInv, KnownTypes, RowIsOf
  <2>. QED
    BY <2>1, <2>2, <2>3
<1>4. known' \in [Known!Keys -> KnownRow \cup {Known!NoRow}]
  BY <1>1, <1>3
<1>5. ASSUME NEW c \in Campaigns
      PROVE  /\ campaign'[c] \in Owned /\ campaign'[c].team \in teams' \cup {TeamOfNone}
             /\ campaign'[c].client = campaign[c].client /\ campaign'[c].label = campaign[c].label
  <2>1. campaign[c] \in Owned /\ campaign[c].team \in teams \cup {TeamOfNone}
    BY TheKnownJob
  <2>2. CASE campaign[c].team = t
    BY <1>1, <2>1, <2>2 DEF Owned, AnyTeam
  <2>3. CASE campaign[c].team # t
    BY <1>1, <2>1, <2>3
  <2>. QED
    BY <2>2, <2>3
<1>6. campaign' \in [Campaigns -> Owned]
  BY <1>1, <1>5
<1>7. KnownTypes'
  BY <1>1, <1>4, <1>6 DEF KnownInv, KnownTypes
<1>8. ASSUME NEW c \in Campaigns PROVE JobIsOf(c, job[c])'
  <2>1. Known!Pair(c)' = Known!Pair(c)
    BY <1>5 DEF Known!Pair
  <2>. QED
    BY <1>1, <2>1, TheKnownJob DEF JobIsOf
<1>. QED
  BY <1>3, <1>5, <1>7, <1>8 DEF KnownInv

\* Nothing is known at first.
LEMMA KnownInit ==
    ASSUME KnownConstants, Known!Init
    PROVE  KnownInv
<1>1. Known!NoRow.by # "research" /\ [at |-> "none"] \in KnownJob
  BY DEF Known!NoRow, KnownJob
<1>2. KnownTypes
  BY <1>1 DEF Known!Init, Known!NoJob, KnownTypes, Owned, AnyTeam, KnownConstants
<1>3. \A c \in Campaigns : JobIsOf(c, job[c])
  BY DEF Known!Init, Known!NoJob, JobIsOf, UnderWay
<1>4. \A c \in Campaigns : campaign[c].team \in teams \cup {TeamOfNone}
  BY DEF Known!Init
<1>5. \A k \in Known!Keys : known[k].by # "research"
  BY <1>1 DEF Known!Init
<1>. QED
  BY <1>2, <1>3, <1>4, <1>5 DEF KnownInv

\* Every step, of a job or of what happens meanwhile.
LEMMA KnownStep ==
    ASSUME KnownConstants, KnownInv, [Known!Next]_Known!cacheVars
    PROVE  KnownInv'
<1>1. CASE Known!Next
  <2>1. ASSUME NEW c \in Campaigns,
               \/ Known!CheckStaleness(c) \/ Known!Reused(c) \/ Known!CheckFails(c)
               \/ Known!Research(c) \/ Known!StoreResult(c) \/ Known!AskForClient(c)
               \/ Known!UpsertKnowledge(c) \/ Known!StatementFails(c)
        PROVE  KnownInv'
    BY <2>1, CheckIsWell, LetsGo, ResearchIsWell, UpsertIsWell
  <2>2. ASSUME NEW c \in Campaigns, NEW client \in Clients \cup {NoClient}, NEW label \in AttributeLabels,
               Known!Edit(c, client, label)
        PROVE  KnownInv'
    BY <2>2, EditIsWell
  <2>3. ASSUME Known!NextDay \/ \E t \in Teams : Known!DeleteTeam(t) PROVE KnownInv'
    BY <2>3, NextDayIsWell, DeleteTeamIsWell
  <2>. QED
    BY <1>1, <2>1, <2>2, <2>3 DEF Known!Next
<1>2. CASE UNCHANGED Known!cacheVars
  BY <1>2 DEF Known!cacheVars, KnownInv, KnownTypes, RowIsOf, JobIsOf, Known!Pair
<1>. QED
  BY <1>1, <1>2

\* However validations, edits, the ends of teams and failures overlap, a result that is
\* reused is of the client and the label it is reused for unless the campaign was edited
\* while it was researched, is of no other team that still exists, and is younger than a
\* warm one (db_lookup_knowledge and db_insert_result).
THEOREM ReusedIsKnownCorrect ==
    ASSUME KnownConstants
    PROVE  Known!Spec => [](Known!TypeOK /\ Known!ReusedIsKnown)
<1>1. Known!Init => KnownInv
  BY KnownInit
<1>2. KnownInv /\ [Known!Next]_Known!cacheVars => KnownInv'
  BY KnownStep
<1>3. KnownInv => Known!TypeOK /\ Known!ReusedIsKnown
  <2>. SUFFICES ASSUME KnownInv PROVE Known!TypeOK /\ Known!ReusedIsKnown
    OBVIOUS
  <2>1. Known!TypeOK
    <3>1. \A c \in Campaigns : job[c].at \in {"none", "enqueued", "reused", "researched", "stored", "caching"}
      <4>1. \A c \in Campaigns : job[c] \in KnownJob
        BY DEF KnownInv, KnownTypes
      <4>. QED
        BY <4>1 DEF KnownJob, UnderWay
    <3>2. \A k \in Known!Keys : Known!IsRow(known[k]) => k[3] \in teams \cup {TeamOfNone} /\ known[k].day \in 1..day
      BY DEF KnownInv, RowIsOf, Known!IsRow
    <3>. QED
      BY <3>1, <3>2 DEF KnownInv, KnownTypes, Known!TypeOK
  <2>2. Known!ReusedIsKnown
    BY DEF Known!ReusedIsKnown, Known!At, KnownInv, JobIsOf
  <2>. QED
    BY <2>1, <2>2
<1>. QED
  BY <1>1, <1>2, <1>3, PTL DEF Known!Spec

-----------------------------------------------------------------------------
(* Questions end with their stream *)

Question == Streams \X Nat \X Nat
ToolCall == [kind : Research!Kinds,
             pc : {"new", "ready", "waiting", "queue", "calling", "returned"},
             tries : Nat, on : Question \cup {<<>>}]
Stream == [pc : Research!Live \cup {"idle", "closing", "post", "ended"}, turn : 0..MaxTurns,
           calls : Seq(ToolCall), pending : Question \cup {<<>>}, active : SUBSET Question,
           evaluations : Nat, cached : SUBSET Research!Kinds]
JobStates == {"none", "queued", "running", "done", "failed"}

\* A question is of its stream and of a completion it has had; one of the completion that
\* is announced is of a call that has been.  A call that waits has a question of its
\* stream, and when that is over an answered one.
CallIsWell(r, k) ==
    k.pc = "waiting" => /\ k.on \in r.active /\ k.on \in store \cup resolved
                        /\ r.pc \in {"post", "ended"} => k.on \in resolved
StreamIsWell(s, r) ==
    /\ r \in Stream /\ Len(r.calls) <= Abreast
    /\ r.pending # <<>> => r.pending \in r.active
    /\ \A q \in r.active :
          /\ q[1] = s /\ q[2] <= r.turn
          /\ r.pc = "announce" /\ q[2] = r.turn =>
                q[3] \in 1..Len(r.calls) /\ r.calls[q[3]].pc # "new"
    /\ \A i \in 1..Len(r.calls) : CallIsWell(r, r.calls[i])
    /\ r.pc \in {"post", "ended"} => r.active \cap store = {}

ResearchWell ==
    /\ st \in [Streams -> Stream] /\ \A s \in Streams : StreamIsWell(s, st[s])
    /\ store \cap resolved = {}
    /\ \A q \in store \cup resolved : \E s \in Streams : q \in st[s].active
    /\ job \in [Streams -> JobStates] /\ faults \in 0..MaxFaults

ResearchInv == ResearchWell /\ Research!Cardinality(Research!Talking) <= MaxTalkers

\* The instance counts as this module does.
LEMMA ResearchCardinality == \A S : Research!Cardinality(S) = Cardinality(S)
BY DEF Research!Cardinality, Cardinality

Talks(r, i) == i \in 1..Len(r.calls) /\ r.calls[i].kind = "talk" /\ r.calls[i].pc = "calling"

\* Those who talk are some of the calls there can be.
LEMMA TalkersAreFew ==
    ASSUME ResearchConstants
    PROVE  /\ IsFiniteSet(Research!Talking)
           /\ \A q : q \in Research!Talking <=>
                        q \in Streams \X (1..Abreast) /\ Talks(st[q[1]], q[2])
<1>0. IsFiniteSet(1..Abreast)
  BY FS_Interval DEF ResearchConstants
<1>1. IsFiniteSet(Streams \X (1..Abreast))
  BY <1>0, FS_Product DEF ResearchConstants
<1>2. \A q : q \in Research!Talking <=>
                        q \in Streams \X (1..Abreast) /\ Talks(st[q[1]], q[2])
  BY DEF Research!Talking, Research!IsCall, Talks
<1>. QED
  BY <1>1, <1>2, FS_Subset
\* A step after which nobody talks who did not.
LEMMA NobodyJoins ==
    ASSUME ResearchConstants, ResearchInv, ResearchWell',
           \A s \in Streams : \A i : Talks(st'[s], i) => Talks(st[s], i)
    PROVE  ResearchInv'
<1>1. Research!Talking' \subseteq Research!Talking
  <2>1. \A q : q \in Research!Talking' <=>
                        q \in Streams \X (1..Abreast) /\ Talks(st'[q[1]], q[2])
    BY DEF Research!Talking, Research!IsCall, Talks
  <2>2. \A q \in Streams \X (1..Abreast) : q[1] \in Streams
    OBVIOUS
  <2>. QED
    BY <2>1, <2>2, TalkersAreFew
<1>2. Cardinality(Research!Talking') <= Cardinality(Research!Talking)
  BY <1>1, TalkersAreFew, FS_Subset
<1>3. /\ Cardinality(Research!Talking) \in Nat /\ Cardinality(Research!Talking') \in Nat
  BY <1>1, TalkersAreFew, FS_Subset, FS_CardinalityType
<1>4. Cardinality(Research!Talking') <= MaxTalkers
  BY <1>2, <1>3, ResearchCardinality DEF ResearchInv, ResearchConstants
<1>. QED
  BY <1>4, ResearchCardinality DEF ResearchInv

\* A step of one stream: what may be answered or has been stays so, what is answered
\* stays answered, and only this stream's questions are new.
LEMMA StreamMoves ==
    ASSUME ResearchInv, NEW s \in Streams, NEW r, st' = [st EXCEPT ![s] = r],
           StreamIsWell(s, r)', st[s].active \subseteq r.active,
           resolved \subseteq resolved', store \subseteq store' \cup resolved',
           store' \cap resolved' = {}, store' \subseteq store \cup r.active,
           resolved' \subseteq store \cup resolved,
           job' \in [Streams -> JobStates], faults' \in 0..MaxFaults
    PROVE  ResearchWell'
<1>1. st \in [Streams -> Stream] /\ \A t \in Streams : StreamIsWell(t, st[t])
  BY DEF ResearchInv, ResearchWell
<1>2. st'[s] = r /\ \A t \in Streams \ {s} : st'[t] = st[t]
  BY <1>1
<1>3. ASSUME NEW t \in Streams PROVE StreamIsWell(t, st[t])'
  <2>1. CASE t = s
    BY <1>2, <2>1 DEF StreamIsWell, CallIsWell
  <2>2. CASE t # s
    <3>1. st'[t] = st[t] /\ StreamIsWell(t, st[t])
      BY <1>1, <1>2, <2>2
    <3>2. \A q \in st[t].active : q \notin r.active
      BY <2>2, <3>1 DEF StreamIsWell
    <3>3. st[t].pc \in {"post", "ended"} => st[t].active \cap store' = {}
      BY <3>1, <3>2 DEF StreamIsWell
    <3>4. \A i \in 1..Len(st[t].calls) : CallIsWell(st[t], st[t].calls[i])'
      BY <3>1 DEF StreamIsWell, CallIsWell
    <3>. QED
      BY <3>1, <3>3, <3>4 DEF StreamIsWell
  <2>. QED
    BY <2>1, <2>2
<1>4. st' \in [Streams -> Stream]
  BY <1>1, <1>2 DEF StreamIsWell
<1>5. ASSUME NEW q \in store' \cup resolved' PROVE \E t \in Streams : q \in st'[t].active
  <2>1. CASE q \in r.active
    BY <2>1, <1>2
  <2>2. CASE q \notin r.active
    <3>1. PICK t \in Streams : q \in st[t].active
      BY <2>2, <1>5 DEF ResearchInv, ResearchWell
    <3>. QED
      BY <3>1, <2>2, <1>2
  <2>. QED
    BY <2>1, <2>2
<1>. QED
  BY <1>3, <1>4, <1>5 DEF ResearchWell

\* What the invariant says of one stream.
LEMMA TheStream ==
    ASSUME ResearchInv, NEW s \in Streams
    PROVE  /\ st[s] \in Stream /\ StreamIsWell(s, st[s])
           /\ st[s].calls \in Seq(ToolCall) /\ Len(st[s].calls) \in Nat
           /\ \A i \in 1..Len(st[s].calls) : st[s].calls[i] \in ToolCall
<1>1. st[s] \in Stream /\ StreamIsWell(s, st[s])
  BY DEF ResearchInv, ResearchWell
<1>. QED
  BY <1>1 DEF Stream

\* A stream that goes on to another place with the calls it has.
LEMMA StreamGoesTo ==
    ASSUME ResearchConstants, ResearchInv, NEW s \in Streams,
           NEW to \in {"model", "final", "closing", "ended"}, to = "ended" => st[s].pc = "post",
           st' = [st EXCEPT ![s].pc = to], UNCHANGED <<store, resolved>>,
           job' \in [Streams -> JobStates], faults' \in 0..MaxFaults
    PROVE  ResearchInv'
<1>. PICK r : r = [st[s] EXCEPT !.pc = to]
  OBVIOUS
<1>1. st' = [st EXCEPT ![s] = r]
  BY DEF ResearchInv, ResearchWell
<1>2. st[s] \in Stream /\ StreamIsWell(s, st[s])
  BY TheStream
<1>3. /\ r \in Stream /\ r.pc = to /\ r.turn = st[s].turn /\ r.calls = st[s].calls
      /\ r.pending = st[s].pending /\ r.active = st[s].active
  BY <1>2 DEF Stream, Research!Live
<1>4. \A i \in 1..Len(r.calls) : CallIsWell(r, r.calls[i])
  BY <1>2, <1>3 DEF StreamIsWell, CallIsWell
<1>5. StreamIsWell(s, r)
  BY <1>2, <1>3, <1>4 DEF StreamIsWell
<1>6. StreamIsWell(s, r)'
  BY <1>5 DEF StreamIsWell, CallIsWell
<1>7. store' \cap resolved' = {} /\ store' \subseteq store \cup r.active
  BY DEF ResearchInv, ResearchWell
<1>8. ResearchWell'
  BY <1>1, <1>3, <1>6, <1>7, StreamMoves
<1>9. \A t \in Streams : \A i : Talks(st'[t], i) => Talks(st[t], i)
  BY <1>1, <1>3 DEF Talks, ResearchInv, ResearchWell
<1>. QED
  BY <1>8, <1>9, NobodyJoins
\* A job is stored, a stream starts, fails, reports and has its report posted.
LEMMA ResearchPlaces ==
    ASSUME ResearchConstants, ResearchInv, NEW s \in Streams,
           \/ Research!SubmitJob(s) \/ Research!StartStream(s) \/ Research!ModelFails(s)
           \/ Research!Report(s) \/ Research!PostToWebhook(s)
    PROVE  ResearchInv'
<1>1. job \in [Streams -> JobStates] /\ faults \in 0..MaxFaults
  BY DEF ResearchInv, ResearchWell
<1>2. Research!Fault => faults' \in 0..MaxFaults
  BY <1>1 DEF Research!Fault, ResearchConstants
<1>3. \A state \in JobStates : [job EXCEPT ![s] = state] \in [Streams -> JobStates]
  BY <1>1
<1>4. CASE Research!SubmitJob(s)
  <2>1. UNCHANGED <<st, store, resolved, faults>> /\ job' \in [Streams -> JobStates]
    BY <1>3, <1>4 DEF Research!SubmitJob, JobStates
  <2>2. ResearchWell'
    BY <2>1 DEF ResearchInv, ResearchWell, StreamIsWell, CallIsWell
  <2>. QED
    BY <2>1, <2>2, NobodyJoins
<1>5. CASE Research!StartStream(s)
  <2>1. job' \in [Streams -> JobStates]
    BY <1>1, <1>3, <1>5 DEF Research!StartStream, JobStates
  <2>2. faults' \in 0..MaxFaults /\ UNCHANGED <<store, resolved>> /\ st' = [st EXCEPT ![s].pc = "model"]
    BY <1>1, <1>2, <1>5 DEF Research!StartStream, Research!Go
  <2>. QED
    BY <2>1, <2>2, StreamGoesTo
<1>6. CASE Research!ModelFails(s)
  BY <1>1, <1>2, <1>6, StreamGoesTo DEF Research!ModelFails, Research!Go
<1>7. CASE Research!Report(s)
  BY <1>1, <1>7, StreamGoesTo DEF Research!Report, Research!Go
<1>8. CASE Research!PostToWebhook(s)
  <2>1. job' \in [Streams -> JobStates] /\ faults' \in 0..MaxFaults
    BY <1>1, <1>2, <1>3, <1>8 DEF Research!PostToWebhook, JobStates
  <2>. QED
    BY <1>8, <2>1, StreamGoesTo DEF Research!PostToWebhook, Research!Go, Research!At
<1>. QED
  BY <1>4, <1>5, <1>6, <1>7, <1>8

\* A stream whose calls are other ones, of which none waits and none talks.
LEMMA CallsReplaced ==
    ASSUME ResearchConstants, ResearchInv, NEW s \in Streams, NEW r \in Stream,
           st' = [st EXCEPT ![s] = r], UNCHANGED <<store, resolved, job>>, faults' \in 0..MaxFaults,
           Len(r.calls) <= Abreast, r.pc \in {"announce", "model", "closing"},
           \A i \in 1..Len(r.calls) : r.calls[i].pc \in {"new", "returned"},
           r.pending = st[s].pending, r.active = st[s].active, st[s].turn <= r.turn,
           r.pc = "announce" => r.turn = st[s].turn + 1
    PROVE  ResearchInv'
<1>1. StreamIsWell(s, st[s]) /\ st[s].turn \in Nat
  BY TheStream DEF Stream
<1>2. /\ \A i \in 1..Len(r.calls) : CallIsWell(r, r.calls[i])
      /\ \A i : ~ Talks(r, i)
  BY DEF CallIsWell, Talks
<1>3. r.turn \in Nat
  BY DEF Stream
<1>4. ASSUME NEW q \in r.active
      PROVE  /\ q[1] = s /\ q[2] <= r.turn
             /\ ~ (r.pc = "announce" /\ q[2] = r.turn)
  <2>1. q[1] = s /\ q[2] <= st[s].turn /\ q[2] \in Nat
    <3>1. q \in Question
      BY <1>1 DEF StreamIsWell, Stream
    <3>. QED
      BY <1>1, <3>1 DEF StreamIsWell, Question
  <2>. QED
    BY <1>1, <1>3, <2>1
<1>5. StreamIsWell(s, r)
  BY <1>1, <1>2, <1>4 DEF StreamIsWell
<1>6. StreamIsWell(s, r)'
  BY <1>5 DEF StreamIsWell, CallIsWell
<1>7. /\ store' \cap resolved' = {} /\ store' \subseteq store \cup r.active
      /\ job' \in [Streams -> JobStates]
  BY DEF ResearchInv, ResearchWell
<1>8. ResearchWell'
  BY <1>6, <1>7, StreamMoves
<1>9. \A t \in Streams : \A i : Talks(st'[t], i) => Talks(st[t], i)
  <2>1. \A t \in Streams : st'[t] = IF t = s THEN r ELSE st[t]
    BY DEF ResearchInv, ResearchWell
  <2>. QED
    BY <1>2, <2>1 DEF Talks
<1>. QED
  BY <1>8, <1>9, NobodyJoins

\* A completion asks for tools, or the report is done.
LEMMA ResearchCompletes ==
    ASSUME ResearchConstants, ResearchInv, NEW s \in Streams, NEW kinds \in Research!KindLists,
           Research!Complete(s, kinds)
    PROVE  ResearchInv'
<1>1. /\ UNCHANGED <<store, resolved, job, faults>> /\ faults' \in 0..MaxFaults
      /\ job' \in [Streams -> JobStates]
  BY DEF Research!Complete, ResearchInv, ResearchWell
<1>2. CASE kinds = <<>>
  BY <1>1, <1>2, StreamGoesTo DEF Research!Complete, Research!Go
<1>3. CASE kinds # <<>>
  <2>. PICK calls : calls = [i \in 1..Len(kinds) |->
                               [kind |-> kinds[i], pc |-> "new", tries |-> 0, on |-> <<>>]]
    OBVIOUS
  <2>. PICK r : r = [st[s] EXCEPT !.pc = "announce", !.turn = @ + 1, !.calls = calls]
    OBVIOUS
  <2>1. st' = [st EXCEPT ![s] = r] /\ st[s].turn < MaxTurns
    BY <1>3 DEF Research!Complete, Research!NoQuestion, ResearchInv, ResearchWell
  <2>2. PICK n \in 0..Abreast : kinds \in [1..n -> Research!Kinds]
    BY DEF Research!KindLists
  <2>3. Len(kinds) = n /\ n \in Nat /\ n <= Abreast
    BY <2>2 DEF ResearchConstants
  <2>4. /\ calls \in Seq(ToolCall) /\ Len(calls) = n
        /\ \A i \in 1..n : calls[i].pc = "new"
    <3>1. \A i \in 1..n : calls[i] \in ToolCall /\ calls[i].pc = "new"
      BY <2>2, <2>3 DEF ToolCall
    <3>. QED
      BY <2>3, <3>1
  <2>5. st[s] \in Stream /\ st[s].turn + 1 \in 0..MaxTurns /\ st[s].turn <= st[s].turn + 1
    BY <2>1, TheStream DEF Stream, ResearchConstants
  <2>6. /\ r \in Stream /\ r.pc = "announce" /\ r.turn = st[s].turn + 1 /\ r.calls = calls
        /\ r.pending = st[s].pending /\ r.active = st[s].active
    BY <2>4, <2>5 DEF Stream, Research!Live
  <2>7. /\ Len(r.calls) <= Abreast /\ st[s].turn <= r.turn
        /\ \A i \in 1..Len(r.calls) : r.calls[i].pc \in {"new", "returned"}
    BY <2>3, <2>4, <2>5, <2>6
  <2>. QED
    BY <1>1, <2>1, <2>6, <2>7, CallsReplaced
<1>. QED
  BY <1>2, <1>3

\* The results go to the model, or the browser is gone.
LEMMA ResearchCallsEnd ==
    ASSUME ResearchConstants, ResearchInv, NEW s \in Streams,
           Research!Results(s) \/ Research!Disconnect(s)
    PROVE  ResearchInv'
<1>1. /\ st[s] \in Stream /\ StreamIsWell(s, st[s]) /\ Len(st[s].calls) \in Nat
      /\ st[s].calls \in Seq(ToolCall) /\ st[s].turn <= st[s].turn
      /\ \A i \in 1..Len(st[s].calls) : st[s].calls[i] \in ToolCall
  BY TheStream DEF Stream
<1>2. CASE Research!Results(s)
  <2>. PICK r : r = [st[s] EXCEPT !.pc = "model", !.calls = <<>>]
    OBVIOUS
  <2>1. /\ UNCHANGED <<store, resolved, job>> /\ faults' \in 0..MaxFaults
        /\ st' = [st EXCEPT ![s] = r]
    BY <1>2 DEF Research!Results, ResearchInv, ResearchWell
  <2>2. <<>> \in Seq(ToolCall) /\ Len(<<>>) = 0 /\ 0 <= Abreast
    BY DEF ResearchConstants
  <2>3. /\ r \in Stream /\ r.pc = "model" /\ r.turn = st[s].turn /\ r.calls = <<>>
        /\ r.pending = st[s].pending /\ r.active = st[s].active
    BY <1>1, <2>2 DEF Stream, Research!Live
  <2>4. /\ Len(r.calls) <= Abreast /\ st[s].turn <= r.turn
        /\ \A i \in 1..Len(r.calls) : r.calls[i].pc \in {"new", "returned"}
    BY <1>1, <2>2, <2>3
  <2>. QED
    BY <2>1, <2>3, <2>4, CallsReplaced
<1>3. CASE Research!Disconnect(s)
  <2>. PICK calls : calls = [i \in 1..Len(st[s].calls) |->
                               [st[s].calls[i] EXCEPT !.pc = "returned"]]
    OBVIOUS
  <2>. PICK r : r = [st[s] EXCEPT !.pc = "closing", !.calls = calls]
    OBVIOUS
  <2>0. UNCHANGED <<store, resolved, job>> /\ faults' \in 0..MaxFaults
    BY <1>3 DEF Research!Disconnect, Research!Fault, ResearchInv, ResearchWell, ResearchConstants
  <2>1. st' = [st EXCEPT ![s] = r]
    BY <1>3 DEF Research!Disconnect, ResearchInv, ResearchWell
  <2>2. \A i \in 1..Len(st[s].calls) : calls[i] \in ToolCall /\ calls[i].pc = "returned"
    BY <1>1 DEF ToolCall
  <2>3. calls \in Seq(ToolCall) /\ Len(calls) = Len(st[s].calls)
    <3>1. PICK n \in Nat : n = Len(st[s].calls)
      BY <1>1
    <3>2. calls \in [1..n -> ToolCall]
      BY <2>2, <3>1
    <3>3. calls \in Seq(ToolCall) /\ Len(calls) = n
      BY <3>2
    <3>. QED
      BY <3>1, <3>3
  <2>4. /\ r \in Stream /\ r.pc = "closing" /\ r.turn = st[s].turn /\ r.calls = calls
        /\ r.pending = st[s].pending /\ r.active = st[s].active
    BY <1>1, <2>3 DEF Stream, Research!Live
  <2>5. Len(r.calls) <= Abreast
    BY <1>1, <2>3, <2>4 DEF StreamIsWell
  <2>6. \A i \in 1..Len(r.calls) : r.calls[i].pc \in {"new", "returned"}
    BY <2>2, <2>3, <2>4
  <2>. QED
    BY <1>1, <2>0, <2>1, <2>4, <2>5, <2>6, CallsReplaced
<1>. QED
  BY <1>2, <1>3
\* A step of one call: it begins to wait only for a question of its stream, and to talk
\* only by the semaphore; the stream may be closing after it.
LEMMA CallChanges ==
    ASSUME ResearchInv, NEW s \in Streams, NEW i \in 1..Len(st[s].calls),
           NEW k \in ToolCall, k.pc # "new", NEW r \in Stream,
           r.calls = [st[s].calls EXCEPT ![i] = k], r.turn = st[s].turn, r.active = st[s].active,
           r.pc = st[s].pc \/ r.pc = "closing", r.pending \in {st[s].pending, <<>>},
           CallIsWell(st[s], k),
           st' = [st EXCEPT ![s] = r], UNCHANGED <<store, resolved, job>>, faults' \in 0..MaxFaults
    PROVE  /\ ResearchWell'
           /\ \A t \in Streams : \A j : t # s \/ j # i => (Talks(st'[t], j) <=> Talks(st[t], j))
           /\ Talks(st'[s], i) <=> k.kind = "talk" /\ k.pc = "calling"
<1>1. StreamIsWell(s, st[s]) /\ st[s].calls \in Seq(ToolCall) /\ Len(st[s].calls) \in Nat
  BY TheStream
<1>2. /\ Len(r.calls) = Len(st[s].calls) /\ r.calls[i] = k
      /\ \A j \in 1..Len(st[s].calls) : j # i => r.calls[j] = st[s].calls[j]
  BY <1>1
<1>3. ASSUME NEW j \in 1..Len(r.calls) PROVE CallIsWell(r, r.calls[j])
  <2>1. CallIsWell(st[s], r.calls[j])
    BY <1>1, <1>2 DEF StreamIsWell
  <2>. QED
    BY <2>1 DEF CallIsWell
<1>4. ASSUME NEW q \in r.active
      PROVE  /\ q[1] = s /\ q[2] <= r.turn
             /\ r.pc = "announce" /\ q[2] = r.turn =>
                   q[3] \in 1..Len(r.calls) /\ r.calls[q[3]].pc # "new"
  <2>1. /\ q[1] = s /\ q[2] <= r.turn
        /\ r.pc = "announce" /\ q[2] = r.turn =>
              q[3] \in 1..Len(st[s].calls) /\ st[s].calls[q[3]].pc # "new"
    BY <1>1 DEF StreamIsWell
  <2>. QED
    BY <1>2, <2>1
<1>5. r.pending # <<>> => r.pending \in r.active
  BY <1>1 DEF StreamIsWell
<1>6. r.pc \in {"post", "ended"} => r.active \cap store = {}
  BY <1>1 DEF StreamIsWell
<1>7. StreamIsWell(s, r)
  BY <1>1, <1>2, <1>3, <1>4, <1>5, <1>6 DEF StreamIsWell
<1>8. StreamIsWell(s, r)'
  BY <1>7 DEF StreamIsWell, CallIsWell
<1>9. /\ store' \cap resolved' = {} /\ store' \subseteq store \cup r.active
      /\ job' \in [Streams -> JobStates]
  BY DEF ResearchInv, ResearchWell
<1>10. ResearchWell'
  BY <1>8, <1>9, StreamMoves
<1>11. \A t \in Streams : st'[t] = IF t = s THEN r ELSE st[t]
  BY DEF ResearchInv, ResearchWell
<1>12. \A t \in Streams : \A j : t # s \/ j # i => (Talks(st'[t], j) <=> Talks(st[t], j))
  BY <1>2, <1>11 DEF Talks
<1>13. Talks(st'[s], i) <=> k.kind = "talk" /\ k.pc = "calling"
  BY <1>2, <1>11 DEF Talks
<1>. QED
  BY <1>10, <1>12, <1>13

\* The same, when the call does not begin to talk.
LEMMA CallStays ==
    ASSUME ResearchConstants, ResearchInv, NEW s \in Streams, NEW i \in 1..Len(st[s].calls),
           NEW k \in ToolCall, k.pc # "new", NEW r \in Stream,
           r.calls = [st[s].calls EXCEPT ![i] = k], r.turn = st[s].turn, r.active = st[s].active,
           r.pc = st[s].pc \/ r.pc = "closing", r.pending \in {st[s].pending, <<>>},
           CallIsWell(st[s], k), k.kind = "talk" /\ k.pc = "calling" => Talks(st[s], i),
           st' = [st EXCEPT ![s] = r], UNCHANGED <<store, resolved, job>>, faults' \in 0..MaxFaults
    PROVE  ResearchInv'
<1>1. /\ ResearchWell'
      /\ \A t \in Streams : \A j : t # s \/ j # i => (Talks(st'[t], j) <=> Talks(st[t], j))
      /\ Talks(st'[s], i) <=> k.kind = "talk" /\ k.pc = "calling"
  BY CallChanges
<1>2. \A t \in Streams : \A j : Talks(st'[t], j) => Talks(st[t], j)
  BY <1>1
<1>. QED
  BY <1>1, <1>2, NobodyJoins

\* A call that only goes on to another place.
LEMMA CallGoesOn ==
    ASSUME ResearchConstants, ResearchInv, NEW s \in Streams, NEW i \in 1..Len(st[s].calls),
           NEW to \in {"queue", "calling", "returned"},
           to = "calling" => st[s].calls[i].kind # "talk" \/ st[s].calls[i].pc = "calling",
           st' = [st EXCEPT ![s].calls[i].pc = to],
           UNCHANGED <<store, resolved, job>>, faults' \in 0..MaxFaults
    PROVE  ResearchInv'
<1>1. /\ st[s] \in Stream /\ st[s].calls[i] \in ToolCall /\ st[s].calls \in Seq(ToolCall)
  BY TheStream
<1>2. PICK k : k = [st[s].calls[i] EXCEPT !.pc = to]
  OBVIOUS
<1>3. PICK r : r = [st[s] EXCEPT !.calls = [st[s].calls EXCEPT ![i] = k]]
  OBVIOUS
<1>4. st' = [st EXCEPT ![s] = r]
  BY <1>1, <1>2, <1>3 DEF ResearchInv, ResearchWell, Stream
<1>5. k \in ToolCall /\ k.pc = to /\ k.kind = st[s].calls[i].kind
  BY <1>1, <1>2 DEF ToolCall
<1>6. [st[s].calls EXCEPT ![i] = k] \in Seq(ToolCall)
  BY <1>1, <1>5
<1>7. /\ r \in Stream /\ r.calls = [st[s].calls EXCEPT ![i] = k] /\ r.turn = st[s].turn
      /\ r.active = st[s].active /\ r.pc = st[s].pc /\ r.pending = st[s].pending
  BY <1>1, <1>3, <1>6 DEF Stream
<1>8. CallIsWell(st[s], k) /\ k.pc # "new"
  BY <1>5 DEF CallIsWell
<1>9. k.kind = "talk" /\ k.pc = "calling" => Talks(st[s], i)
  BY <1>5 DEF Talks
<1>. QED
  BY <1>4, <1>5, <1>7, <1>8, <1>9, CallStays
\* An answer comes, a call starts or is given up.
LEMMA ResearchCallsMove ==
    ASSUME ResearchConstants, ResearchInv, NEW s \in Streams, NEW i \in 1..Abreast,
           Research!AnswerComes(s, i) \/ Research!StartCall(s, i)
    PROVE  ResearchInv'
<1>1. UNCHANGED <<store, resolved, job>> /\ faults' \in 0..MaxFaults /\ i \in 1..Len(st[s].calls)
  BY DEF Research!AnswerComes, Research!StartCall, Research!IsCall, ResearchInv, ResearchWell
<1>2. CASE Research!AnswerComes(s, i)
  <2>1. st' = [st EXCEPT ![s].calls[i].pc = "returned"]
    BY <1>2 DEF Research!AnswerComes, Research!CallGoes
  <2>. QED
    BY <1>1, <2>1, CallGoesOn
<1>3. CASE Research!StartCall(s, i)
  <2>1. PICK kind \in {"search", "talk"} :
           /\ st[s].calls[i].kind = kind
           /\ Research!CallGoes(s, i, IF kind \in st[s].cached THEN "returned"
                                      ELSE IF kind = "talk" THEN "queue" ELSE "calling")
    BY <1>3 DEF Research!StartCall, Research!IsCall
  <2>2. PICK to \in {"queue", "calling", "returned"} :
           /\ st' = [st EXCEPT ![s].calls[i].pc = to]
           /\ to = "calling" => kind # "talk"
    BY <2>1 DEF Research!CallGoes
  <2>. QED
    BY <1>1, <2>1, <2>2, CallGoesOn
<1>. QED
  BY <1>2, <1>3

\* A failure is tried again, or given up.
LEMMA ResearchCallFails ==
    ASSUME ResearchConstants, ResearchInv, NEW s \in Streams, NEW i \in 1..Len(st[s].calls),
           NEW attempts \in Nat, st[s].calls[i].pc = "calling", Research!FailsAfter(s, i, attempts)
    PROVE  ResearchInv'
<1>1. UNCHANGED <<store, resolved, job>> /\ faults' \in 0..MaxFaults
  BY DEF Research!FailsAfter, Research!Fault, ResearchInv, ResearchWell, ResearchConstants
<1>2. CASE st' = [st EXCEPT ![s].calls[i].pc = "returned"]
  BY <1>1, <1>2, CallGoesOn
<1>3. CASE st' = [st EXCEPT ![s].calls[i].tries = @ + 1]
  <2>1. /\ st[s] \in Stream /\ st[s].calls[i] \in ToolCall /\ st[s].calls \in Seq(ToolCall)
    BY TheStream
  <2>2. PICK k : k = [st[s].calls[i] EXCEPT !.tries = @ + 1]
    OBVIOUS
  <2>3. PICK r : r = [st[s] EXCEPT !.calls = [st[s].calls EXCEPT ![i] = k]]
    OBVIOUS
  <2>4. st' = [st EXCEPT ![s] = r]
    BY <1>3, <2>1, <2>2, <2>3 DEF ResearchInv, ResearchWell, Stream
  <2>5. k \in ToolCall /\ k.pc = "calling" /\ k.kind = st[s].calls[i].kind
    BY <2>1, <2>2 DEF ToolCall
  <2>6. [st[s].calls EXCEPT ![i] = k] \in Seq(ToolCall)
    BY <2>1, <2>5
  <2>7. /\ r \in Stream /\ r.calls = [st[s].calls EXCEPT ![i] = k] /\ r.turn = st[s].turn
        /\ r.active = st[s].active /\ r.pc = st[s].pc /\ r.pending = st[s].pending
    BY <2>1, <2>3, <2>6 DEF Stream
  <2>8. CallIsWell(st[s], k) /\ k.pc # "new"
    BY <2>5 DEF CallIsWell
  <2>9. k.kind = "talk" /\ k.pc = "calling" => Talks(st[s], i)
    BY <2>5 DEF Talks
  <2>. QED
    BY <1>1, <2>4, <2>5, <2>7, <2>8, <2>9, CallStays
<1>. QED
  BY <1>2, <1>3 DEF Research!FailsAfter, Research!CallGoes

\* A call that returns, with what its stream makes of it.
LEMMA CallReturns ==
    ASSUME ResearchConstants, ResearchInv, NEW s \in Streams, NEW i \in 1..Len(st[s].calls),
           NEW k \in ToolCall, k.pc = "returned", NEW r \in Stream,
           r.calls = [st[s].calls EXCEPT ![i] = k], r.turn = st[s].turn, r.active = st[s].active,
           r.pc = st[s].pc \/ r.pc = "closing", r.pending = st[s].pending,
           st' = [st EXCEPT ![s] = r], UNCHANGED <<store, resolved, job>>, faults' \in 0..MaxFaults
    PROVE  ResearchInv'
<1>1. CallIsWell(st[s], k) /\ k.pc # "new" /\ ~ (k.kind = "talk" /\ k.pc = "calling")
  BY DEF CallIsWell
<1>2. r.pending \in {st[s].pending, <<>>}
  OBVIOUS
<1>. QED
  BY <1>1, <1>2, CallStays

\* An evaluation, an answer that is cached, a tool that raises.
LEMMA ResearchCallsReturn ==
    ASSUME ResearchConstants, ResearchInv, NEW s \in Streams, NEW i \in 1..Abreast,
           \/ Research!Evaluate(s, i) \/ Research!SearchAnswers(s, i) \/ Research!TalkAnswers(s, i)
           \/ Research!ToolRaises(s, i)
    PROVE  ResearchInv'
<1>1. UNCHANGED <<store, resolved, job>> /\ i \in 1..Len(st[s].calls)
  BY DEF Research!Evaluate, Research!SearchAnswers, Research!TalkAnswers, Research!Answers,
         Research!ToolRaises, Research!IsCall
<1>2. faults' \in 0..MaxFaults
  BY DEF Research!Evaluate, Research!SearchAnswers, Research!TalkAnswers, Research!Answers,
         Research!ToolRaises, Research!Fault, ResearchInv, ResearchWell, ResearchConstants
<1>3. st[s] \in Stream /\ st[s].calls[i] \in ToolCall /\ st[s].calls \in Seq(ToolCall)
  BY <1>1, TheStream
<1>4. PICK k : k = [st[s].calls[i] EXCEPT !.pc = "returned"]
  OBVIOUS
<1>5. PICK calls : calls = [st[s].calls EXCEPT ![i] = k]
  OBVIOUS
<1>6. k \in ToolCall /\ k.pc = "returned"
  BY <1>3, <1>4 DEF ToolCall
<1>7. calls \in Seq(ToolCall)
  <2>1. [st[s].calls EXCEPT ![i] = k] \in Seq(ToolCall)
    BY <1>1, <1>3, <1>6
  <2>. QED
    BY <1>5, <2>1
<1>8. CASE Research!Evaluate(s, i)
  <2>0. PICK n \in Nat : n = st[s].evaluations + 1
    BY <1>3 DEF Stream
  <2>1. PICK r : r = [st[s] EXCEPT !.evaluations = n, !.calls = calls]
    OBVIOUS
  <2>2. st' = [st EXCEPT ![s] = r]
    BY <1>3, <1>4, <1>5, <1>8, <2>0, <2>1 DEF Research!Evaluate, ResearchInv, ResearchWell, Stream
  <2>3. /\ r \in Stream /\ r.calls = calls /\ r.turn = st[s].turn
        /\ r.active = st[s].active /\ r.pc = st[s].pc /\ r.pending = st[s].pending
    BY <1>3, <1>7, <2>1 DEF Stream
  <2>4. r.calls = [st[s].calls EXCEPT ![i] = k]
    BY <1>5, <2>3
  <2>5. r \in Stream /\ r.turn = st[s].turn /\ r.active = st[s].active /\ r.pending = st[s].pending
    BY <2>3
  <2>6. r.pc = st[s].pc \/ r.pc = "closing"
    BY <2>3
  <2>. QED
    BY <1>1, <1>2, <1>6, <2>2, <2>4, <2>5, <2>6, CallReturns
<1>9. ASSUME NEW kind \in {"search", "talk"}, Research!Answers(s, i, kind) PROVE ResearchInv'
  <2>1. PICK r : r = [st[s] EXCEPT !.cached = @ \cup {kind}, !.calls = calls]
    OBVIOUS
  <2>2. st' = [st EXCEPT ![s] = r]
    BY <1>3, <1>4, <1>5, <1>9, <2>1 DEF Research!Answers, ResearchInv, ResearchWell, Stream
  <2>3. /\ r \in Stream /\ r.calls = calls /\ r.turn = st[s].turn
        /\ r.active = st[s].active /\ r.pc = st[s].pc /\ r.pending = st[s].pending
    BY <1>3, <1>7, <2>1 DEF Stream, Research!Kinds
  <2>4. r.calls = [st[s].calls EXCEPT ![i] = k]
    BY <1>5, <2>3
  <2>5. r \in Stream /\ r.turn = st[s].turn /\ r.active = st[s].active /\ r.pending = st[s].pending
    BY <2>3
  <2>6. r.pc = st[s].pc \/ r.pc = "closing"
    BY <2>3
  <2>. QED
    BY <1>1, <1>2, <1>6, <2>2, <2>4, <2>5, <2>6, CallReturns
<1>10. CASE Research!ToolRaises(s, i)
  <2>1. PICK r : r = [st[s] EXCEPT !.pc = "closing", !.calls = calls]
    OBVIOUS
  <2>2. st' = [st EXCEPT ![s] = r]
    BY <1>3, <1>4, <1>5, <1>10, <2>1 DEF Research!ToolRaises, ResearchInv, ResearchWell, Stream
  <2>3. /\ r \in Stream /\ r.calls = calls /\ r.turn = st[s].turn
        /\ r.active = st[s].active /\ r.pc = "closing" /\ r.pending = st[s].pending
    BY <1>3, <1>7, <2>1 DEF Stream
  <2>4. r.calls = [st[s].calls EXCEPT ![i] = k]
    BY <1>5, <2>3
  <2>5. r \in Stream /\ r.turn = st[s].turn /\ r.active = st[s].active /\ r.pending = st[s].pending
    BY <2>3
  <2>6. r.pc = st[s].pc \/ r.pc = "closing"
    BY <2>3
  <2>. QED
    BY <1>1, <1>2, <1>6, <2>2, <2>4, <2>5, <2>6, CallReturns
<1>. QED
  BY <1>8, <1>9, <1>10 DEF Research!SearchAnswers, Research!TalkAnswers
\* What may be answered is a question of some stream.
LEMMA QuestionsAreOfStreams ==
    ASSUME ResearchInv, NEW q \in store \cup resolved
    PROVE  q # <<>> /\ \E t \in Streams : q \in st[t].active /\ q[1] = t
<1>1. PICK t \in Streams : q \in st[t].active
  BY DEF ResearchInv, ResearchWell
<1>2. q \in Question /\ q[1] = t
  BY <1>1, TheStream DEF StreamIsWell, Stream
<1>3. PICK n \in Nat, m \in Nat : q = <<t, n, m>>
  BY <1>2 DEF Question
<1>4. q # <<>>
  BY <1>3
<1>. QED
  BY <1>1, <1>2, <1>4

\* The tool waits only for a question of its own stream that can still be answered.
LEMMA ResearchAsks ==
    ASSUME ResearchConstants, ResearchInv, NEW s \in Streams, NEW i \in 1..Abreast,
           Research!AskClarification(s, i)
    PROVE  ResearchInv'
<1>1. /\ UNCHANGED <<store, resolved, job>> /\ faults' \in 0..MaxFaults
      /\ i \in 1..Len(st[s].calls)
  BY DEF Research!AskClarification, Research!IsCall, ResearchInv, ResearchWell
<1>2. st[s] \in Stream /\ st[s].calls[i] \in ToolCall /\ st[s].calls \in Seq(ToolCall)
      /\ StreamIsWell(s, st[s])
  BY <1>1, TheStream
<1>3. PICK q : q = st[s].pending
  OBVIOUS
<1>4. PICK place \in {"waiting", "returned"} : place = IF q \in store THEN "waiting" ELSE "returned"
  OBVIOUS
<1>5. PICK k : k = [st[s].calls[i] EXCEPT !.on = q, !.pc = place]
  OBVIOUS
<1>6. PICK r : r = [st[s] EXCEPT !.pending = <<>>, !.calls = [st[s].calls EXCEPT ![i] = k]]
  OBVIOUS
<1>7. st' = [st EXCEPT ![s] = r]
  BY <1>2, <1>3, <1>4, <1>5, <1>6
     DEF Research!AskClarification, Research!NoQuestion, ResearchInv, ResearchWell, Stream
<1>8. k \in ToolCall /\ k.pc = place /\ k.on = q
  BY <1>2, <1>3, <1>5 DEF ToolCall, Stream
<1>9. [st[s].calls EXCEPT ![i] = k] \in Seq(ToolCall)
  BY <1>1, <1>2, <1>8
<1>10. /\ r \in Stream /\ r.calls = [st[s].calls EXCEPT ![i] = k] /\ r.turn = st[s].turn
       /\ r.active = st[s].active /\ r.pc = st[s].pc /\ r.pending = <<>>
  BY <1>2, <1>6, <1>9 DEF Stream
<1>11. CallIsWell(st[s], k)
  <2>1. q \in store => q \in st[s].active
    BY <1>2, <1>3, QuestionsAreOfStreams DEF StreamIsWell
  <2>2. q \in store => st[s].pc \notin {"post", "ended"}
    BY <1>2, <2>1 DEF StreamIsWell
  <2>. QED
    BY <1>4, <1>8, <2>1, <2>2 DEF CallIsWell
<1>12. k.pc # "new" /\ ~ (k.kind = "talk" /\ k.pc = "calling") /\ r.pending \in {st[s].pending, <<>>}
  BY <1>4, <1>8, <1>10
<1>. QED
  BY <1>1, <1>7, <1>8, <1>10, <1>11, <1>12, CallStays

\* The semaphore lets one more in when there is room.
LEMMA ResearchEnters ==
    ASSUME ResearchConstants, ResearchInv, NEW s \in Streams, NEW i \in 1..Abreast,
           Research!EnterSemaphore(s, i)
    PROVE  ResearchInv'
<1>1. /\ UNCHANGED <<store, resolved, job>> /\ faults' \in 0..MaxFaults
      /\ i \in 1..Len(st[s].calls) /\ st' = [st EXCEPT ![s].calls[i].pc = "calling"]
      /\ st[s].calls[i].kind = "talk" /\ Cardinality(Research!Talking) < MaxTalkers
  BY ResearchCardinality
     DEF Research!EnterSemaphore, Research!IsCall, Research!CallGoes, ResearchInv, ResearchWell
<1>2. st[s] \in Stream /\ st[s].calls[i] \in ToolCall /\ st[s].calls \in Seq(ToolCall)
  BY <1>1, TheStream
<1>3. PICK k : k = [st[s].calls[i] EXCEPT !.pc = "calling"]
  OBVIOUS
<1>4. PICK r : r = [st[s] EXCEPT !.calls = [st[s].calls EXCEPT ![i] = k]]
  OBVIOUS
<1>5. st' = [st EXCEPT ![s] = r]
  BY <1>1, <1>2, <1>3, <1>4 DEF ResearchInv, ResearchWell, Stream
<1>6. k \in ToolCall /\ k.pc = "calling"
  BY <1>2, <1>3 DEF ToolCall
<1>7. [st[s].calls EXCEPT ![i] = k] \in Seq(ToolCall)
  BY <1>1, <1>2, <1>6
<1>8. /\ r \in Stream /\ r.calls = [st[s].calls EXCEPT ![i] = k] /\ r.turn = st[s].turn
      /\ r.active = st[s].active /\ r.pc = st[s].pc /\ r.pending = st[s].pending
  BY <1>2, <1>4, <1>7 DEF Stream
<1>9. CallIsWell(st[s], k) /\ k.pc # "new" /\ r.pending \in {st[s].pending, <<>>}
  BY <1>6, <1>8 DEF CallIsWell
<1>10. /\ ResearchWell'
       /\ \A t \in Streams : \A j : t # s \/ j # i => (Talks(st'[t], j) <=> Talks(st[t], j))
  <2>1. r.pc = st[s].pc \/ r.pc = "closing"
    BY <1>8
  <2>2. UNCHANGED <<store, resolved, job>> /\ faults' \in 0..MaxFaults /\ i \in 1..Len(st[s].calls)
    BY <1>1
  <2>. QED
    BY <1>5, <1>6, <1>8, <1>9, <2>1, <2>2, CallChanges
<1>11. Research!Talking' \subseteq Research!Talking \cup {<<s, i>>}
  <2>1. \A q : q \in Research!Talking' <=>
                        q \in Streams \X (1..Abreast) /\ Talks(st'[q[1]], q[2])
    BY DEF Research!Talking, Research!IsCall, Talks
  <2>2. \A q \in Streams \X (1..Abreast) : q[1] \in Streams /\ q = <<q[1], q[2]>>
    OBVIOUS
  <2>. QED
    BY <2>1, <2>2, <1>10, TalkersAreFew
<1>12. Cardinality(Research!Talking') <= MaxTalkers
  <2>1. IsFiniteSet(Research!Talking)
    BY TalkersAreFew
  <2>2. /\ IsFiniteSet(Research!Talking \cup {<<s, i>>})
        /\ Cardinality(Research!Talking \cup {<<s, i>>}) <= Cardinality(Research!Talking) + 1
    <3>1. PICK T : T = Research!Talking
      OBVIOUS
    <3>2. IsFiniteSet(T) /\ Cardinality(T) \in Nat
      BY <2>1, <3>1, FS_CardinalityType
    <3>3. /\ IsFiniteSet(T \cup {<<s, i>>})
          /\ Cardinality(T \cup {<<s, i>>}) = IF <<s, i>> \in T THEN Cardinality(T) ELSE Cardinality(T) + 1
      BY <3>2, FS_AddElement
    <3>. QED
      BY <3>1, <3>2, <3>3
  <2>3. /\ IsFiniteSet(Research!Talking')
        /\ Cardinality(Research!Talking') <= Cardinality(Research!Talking \cup {<<s, i>>})
    BY <1>11, <2>2, FS_Subset
  <2>4. /\ Cardinality(Research!Talking) \in Nat /\ Cardinality(Research!Talking') \in Nat
        /\ Cardinality(Research!Talking \cup {<<s, i>>}) \in Nat
    BY <2>1, <2>2, <2>3, FS_CardinalityType
  <2>. QED
    BY <1>1, <2>2, <2>3, <2>4 DEF ResearchConstants
<1>. QED
  BY <1>10, <1>12, ResearchCardinality DEF ResearchInv

\* A question is announced once: no call before it had its number.
LEMMA ResearchAnnounces ==
    ASSUME ResearchConstants, ResearchInv, NEW s \in Streams, NEW i \in 1..Abreast,
           Research!Announce(s, i)
    PROVE  ResearchInv'
<1>1. /\ UNCHANGED <<resolved, job>> /\ faults' \in 0..MaxFaults /\ job' \in [Streams -> JobStates]
      /\ i \in 1..Len(st[s].calls) /\ st[s].calls[i].pc = "new" /\ st[s].pc = "announce"
  BY DEF Research!Announce, Research!At, ResearchInv, ResearchWell
<1>2. /\ st[s] \in Stream /\ st[s].calls[i] \in ToolCall /\ st[s].calls \in Seq(ToolCall)
      /\ StreamIsWell(s, st[s]) /\ Len(st[s].calls) \in Nat /\ st[s].turn \in Nat /\ i \in Nat
  BY <1>1, TheStream DEF Stream
<1>3. PICK q : q = <<s, st[s].turn, i>>
  OBVIOUS
<1>4. q \in Question /\ q[1] = s /\ q[2] = st[s].turn /\ q[3] = i
  BY <1>2, <1>3 DEF Question
<1>5. q \notin resolved
  <2>1. \A t \in Streams : q \in st[t].active /\ q[1] = t => FALSE
    BY <1>1, <1>2, <1>4 DEF StreamIsWell
  <2>. QED
    BY <2>1, QuestionsAreOfStreams
<1>6. PICK asks \in BOOLEAN : asks = (st[s].calls[i].kind = "ask")
  OBVIOUS
<1>7. PICK k : k = [st[s].calls[i] EXCEPT !.pc = "ready"]
  OBVIOUS
<1>8. PICK active : active = IF asks THEN st[s].active \cup {q} ELSE st[s].active
  OBVIOUS
<1>9. PICK pending : pending = IF asks THEN q ELSE st[s].pending
  OBVIOUS
<1>10. PICK place \in {"announce", "run"} : place = IF i = Len(st[s].calls) THEN "run" ELSE st[s].pc
  BY <1>1
<1>11. PICK r : r = [st[s] EXCEPT !.pc = place, !.calls = [st[s].calls EXCEPT ![i] = k],
                                  !.pending = pending, !.active = active]
  OBVIOUS
<1>12. st' = [st EXCEPT ![s] = r]
  BY <1>2, <1>3, <1>6, <1>7, <1>8, <1>9, <1>10, <1>11
     DEF Research!Announce, ResearchInv, ResearchWell, Stream
<1>13. store' = IF asks THEN store \cup {q} ELSE store
  BY <1>3, <1>6 DEF Research!Announce, Research!Register
<1>14. k \in ToolCall /\ k.pc = "ready"
  BY <1>2, <1>7 DEF ToolCall
<1>15. [st[s].calls EXCEPT ![i] = k] \in Seq(ToolCall)
  BY <1>1, <1>2, <1>14
<1>16. /\ r \in Stream /\ r.calls = [st[s].calls EXCEPT ![i] = k] /\ r.turn = st[s].turn
       /\ r.active = active /\ r.pc = place /\ r.pending = pending
  BY <1>2, <1>4, <1>8, <1>9, <1>11, <1>15 DEF Stream, Research!Live
<1>17. /\ Len(r.calls) = Len(st[s].calls) /\ r.calls[i] = k
       /\ \A j \in 1..Len(st[s].calls) : j # i => r.calls[j] = st[s].calls[j]
  BY <1>1, <1>2, <1>16
<1>18. ASSUME NEW j \in 1..Len(r.calls) PROVE CallIsWell(r, r.calls[j])'
  <2>1. CASE j = i
    BY <2>1, <1>14, <1>17 DEF CallIsWell
  <2>2. CASE j # i
    <3>1. r.calls[j] = st[s].calls[j] /\ CallIsWell(st[s], r.calls[j])
      BY <1>2, <1>17, <2>2 DEF StreamIsWell
    <3>. QED
      BY <1>1, <1>8, <1>13, <1>16, <3>1 DEF CallIsWell
  <2>. QED
    BY <2>1, <2>2
<1>19. ASSUME NEW p \in r.active
       PROVE  /\ p[1] = s /\ p[2] <= r.turn
              /\ r.pc = "announce" /\ p[2] = r.turn =>
                    p[3] \in 1..Len(r.calls) /\ r.calls[p[3]].pc # "new"
  <2>1. CASE p = q
    BY <2>1, <1>1, <1>2, <1>4, <1>14, <1>16, <1>17
  <2>2. CASE p # q
    <3>1. p \in st[s].active
      BY <1>8, <1>16, <2>2
    <3>2. /\ p[1] = s /\ p[2] <= st[s].turn
          /\ p[2] = st[s].turn => p[3] \in 1..Len(st[s].calls) /\ st[s].calls[p[3]].pc # "new"
      BY <1>1, <1>2, <3>1 DEF StreamIsWell
    <3>. QED
      BY <1>14, <1>16, <1>17, <3>2
  <2>. QED
    BY <2>1, <2>2
<1>20. r.pending # <<>> => r.pending \in r.active
  BY <1>2, <1>8, <1>9, <1>16 DEF StreamIsWell
<1>21. Len(r.calls) <= Abreast /\ r.pc \notin {"post", "ended"}
  BY <1>2, <1>10, <1>16, <1>17 DEF StreamIsWell
<1>22. StreamIsWell(s, r)'
  BY <1>16, <1>18, <1>19, <1>20, <1>21 DEF StreamIsWell
<1>23. /\ st[s].active \subseteq r.active /\ store \subseteq store' \cup resolved'
       /\ store' \cap resolved' = {} /\ store' \subseteq store \cup r.active
       /\ resolved' \subseteq store \cup resolved /\ resolved \subseteq resolved'
  BY <1>1, <1>5, <1>8, <1>13, <1>16 DEF ResearchInv, ResearchWell
<1>24. ResearchWell'
  BY <1>1, <1>12, <1>22, <1>23, StreamMoves
<1>25. \A t \in Streams : \A j : Talks(st'[t], j) => Talks(st[t], j)
  <2>1. \A t \in Streams : st'[t] = IF t = s THEN r ELSE st[t]
    BY <1>12 DEF ResearchInv, ResearchWell
  <2>. QED
    BY <1>14, <1>17, <2>1 DEF Talks
<1>. QED
  BY <1>24, <1>25, NobodyJoins
\* A failed call of a service.
LEMMA ResearchCallsFail ==
    ASSUME ResearchConstants, ResearchInv, NEW s \in Streams, NEW i \in 1..Abreast,
           Research!SearchFails(s, i) \/ Research!TalkFails(s, i) \/ Research!TalkRefused(s, i)
    PROVE  ResearchInv'
<1>1. i \in 1..Len(st[s].calls) /\ st[s].calls[i].pc = "calling"
  BY DEF Research!SearchFails, Research!TalkFails, Research!TalkRefused, Research!IsCall
<1>2. PICK attempts \in Nat : Research!FailsAfter(s, i, attempts)
  BY DEF Research!SearchFails, Research!TalkFails, Research!TalkRefused
<1>. QED
  BY <1>1, <1>2, ResearchCallFails

\* The end of a stream answers the questions it still has in the store.
LEMMA ResearchCancels ==
    ASSUME ResearchConstants, ResearchInv, NEW s \in Streams, Research!CancelSession(s)
    PROVE  ResearchInv'
<1>1. PICK place \in {"post", "ended"} : place = IF s \in Investigations THEN "post" ELSE "ended"
  OBVIOUS
<1>2. PICK r : r = [st[s] EXCEPT !.pc = place]
  OBVIOUS
<1>3. /\ UNCHANGED job /\ faults' \in 0..MaxFaults /\ job' \in [Streams -> JobStates]
      /\ store' = store \ (st[s].active \cap store)
      /\ resolved' = resolved \cup (st[s].active \cap store)
  BY DEF Research!CancelSession, Research!SetAnswer, Research!OpenQuestions, ResearchInv, ResearchWell
<1>4. st' = [st EXCEPT ![s] = r]
  BY <1>1, <1>2 DEF Research!CancelSession, Research!Go, ResearchInv, ResearchWell
<1>5. st[s] \in Stream /\ StreamIsWell(s, st[s])
  BY TheStream
<1>6. /\ r \in Stream /\ r.pc = place /\ r.turn = st[s].turn /\ r.calls = st[s].calls
      /\ r.pending = st[s].pending /\ r.active = st[s].active
  BY <1>2, <1>5 DEF Stream
<1>7. ASSUME NEW j \in 1..Len(r.calls) PROVE CallIsWell(r, r.calls[j])'
  <2>1. CallIsWell(st[s], r.calls[j])
    BY <1>5, <1>6 DEF StreamIsWell
  <2>. QED
    BY <1>3, <1>6, <2>1 DEF CallIsWell
<1>8. StreamIsWell(s, r)'
  BY <1>3, <1>5, <1>6, <1>7 DEF StreamIsWell
<1>9. /\ store \subseteq store' \cup resolved' /\ st[s].active \subseteq r.active
      /\ store' \cap resolved' = {} /\ store' \subseteq store \cup r.active
      /\ resolved' \subseteq store \cup resolved /\ resolved \subseteq resolved'
  BY <1>3, <1>6 DEF ResearchInv, ResearchWell
<1>10. ResearchWell'
  BY <1>3, <1>4, <1>8, <1>9, StreamMoves
<1>11. \A t \in Streams : \A j : Talks(st'[t], j) => Talks(st[t], j)
  <2>1. \A t \in Streams : st'[t] = IF t = s THEN r ELSE st[t]
    BY <1>4 DEF ResearchInv, ResearchWell
  <2>. QED
    BY <1>6, <2>1 DEF Talks
<1>. QED
  BY <1>10, <1>11, NobodyJoins

\* The user answers.
LEMMA ResearchClarifies ==
    ASSUME ResearchConstants, ResearchInv, NEW q \in store, Research!Clarify(q)
    PROVE  ResearchInv'
<1>1. /\ UNCHANGED <<st, job, faults>> /\ store' = store \ {q} /\ resolved' = resolved \cup {q}
  BY DEF Research!Clarify, Research!SetAnswer
<1>2. ASSUME NEW s \in Streams PROVE StreamIsWell(s, st[s])'
  <2>1. StreamIsWell(s, st[s])
    BY TheStream
  <2>2. \A j \in 1..Len(st[s].calls) : CallIsWell(st[s], st[s].calls[j])'
    BY <1>1, <2>1 DEF StreamIsWell, CallIsWell
  <2>. QED
    BY <1>1, <2>1, <2>2 DEF StreamIsWell
<1>3. store' \cap resolved' = {} /\ store' \cup resolved' = store \cup resolved
  BY <1>1 DEF ResearchInv, ResearchWell
<1>4. ResearchWell'
  BY <1>1, <1>2, <1>3 DEF ResearchInv, ResearchWell
<1>. QED
  BY <1>1, <1>4, NobodyJoins

\* A stream that has nothing, at the start and after a restart.
LEMMA EmptyIsWell ==
    ASSUME ResearchConstants, NEW s \in Streams,
           NEW r, r = Research!Idle \/ r = [Research!Idle EXCEPT !.pc = "ended"]
    PROVE  StreamIsWell(s, r) /\ r.active = {} /\ r.calls = <<>> /\ Len(r.calls) = 0
<1>1. PICK none : none = <<>>
  OBVIOUS
<1>2. none \in Seq(ToolCall) /\ Len(none) = 0 /\ none \in Question \cup {<<>>}
  BY <1>1
<1>3. PICK place \in {"idle", "ended"} :
         r = [pc |-> place, turn |-> 0, calls |-> none, pending |-> none,
              active |-> {}, evaluations |-> 0, cached |-> {}]
  <2>1. CASE r = Research!Idle
    BY <1>1, <2>1 DEF Research!Idle, Research!NoQuestion
  <2>2. CASE r = [Research!Idle EXCEPT !.pc = "ended"]
    BY <1>1, <2>2 DEF Research!Idle, Research!NoQuestion
  <2>. QED
    BY <2>1, <2>2
<1>4. /\ r.pc = place /\ r.turn = 0 /\ r.calls = none /\ r.pending = none /\ r.active = {}
      /\ Len(r.calls) = 0
  BY <1>2, <1>3
<1>5. r \in Stream
  <2>1. 0 \in 0..MaxTurns
    BY DEF ResearchConstants
  <2>. QED
    BY <1>2, <1>3, <2>1 DEF Stream
<1>6. 0 <= Abreast
  BY DEF ResearchConstants
<1>. QED
  BY <1>1, <1>4, <1>5, <1>6 DEF StreamIsWell

\* A restart leaves no stream, no question and no answer.
LEMMA ResearchRestarts ==
    ASSUME ResearchConstants, ResearchInv, Research!Restart
    PROVE  ResearchInv'
<1>1. /\ UNCHANGED job /\ faults' \in 0..MaxFaults /\ store' = {} /\ resolved' = {}
      /\ st' = [s \in Streams |-> IF Research!At(s, "idle") /\ job[s] = "none" THEN Research!Idle
                                  ELSE [Research!Idle EXCEPT !.pc = "ended"]]
  BY DEF Research!Restart, Research!Fault, ResearchInv, ResearchWell, ResearchConstants
<1>2. \A s \in Streams : st'[s] = Research!Idle \/ st'[s] = [Research!Idle EXCEPT !.pc = "ended"]
  BY <1>1
<1>3. ASSUME NEW s \in Streams
      PROVE  StreamIsWell(s, st[s])' /\ st'[s].calls = <<>> /\ Len(st'[s].calls) = 0
  <2>1. PICK r : r = st'[s]
    OBVIOUS
  <2>2. StreamIsWell(s, r) /\ r.active = {} /\ r.calls = <<>> /\ Len(r.calls) = 0
    BY <1>2, <2>1, EmptyIsWell
  <2>3. StreamIsWell(s, r)'
    BY <2>2 DEF StreamIsWell, CallIsWell
  <2>. QED
    BY <2>1, <2>2, <2>3 DEF StreamIsWell, CallIsWell
<1>4. st' \in [Streams -> Stream]
  BY <1>1, <1>3 DEF StreamIsWell
<1>5. ResearchWell'
  BY <1>1, <1>3, <1>4 DEF ResearchInv, ResearchWell
<1>6. \A t \in Streams : \A j : ~ Talks(st'[t], j)
  BY <1>3 DEF Talks
<1>. QED
  BY <1>5, <1>6, NobodyJoins

\* No stream has begun.
LEMMA ResearchInit ==
    ASSUME ResearchConstants, Research!Init
    PROVE  ResearchInv
<1>1. ASSUME NEW s \in Streams
      PROVE  StreamIsWell(s, st[s]) /\ st[s].calls = <<>> /\ Len(st[s].calls) = 0
  <2>1. PICK r : r = Research!Idle
    OBVIOUS
  <2>2. st[s] = r
    BY <2>1 DEF Research!Init
  <2>. QED
    BY <2>1, <2>2, EmptyIsWell
<1>2. st \in [Streams -> Stream]
  BY <1>1 DEF Research!Init, StreamIsWell
<1>3. ResearchWell
  BY <1>1, <1>2 DEF Research!Init, ResearchWell, JobStates, ResearchConstants
<1>4. Research!Talking = {}
  <2>1. \A q \in Streams \X (1..Abreast) : ~ Talks(st[q[1]], q[2])
    BY <1>1 DEF Talks
  <2>. QED
    BY <2>1, TalkersAreFew
<1>5. Research!Cardinality(Research!Talking) <= MaxTalkers
  BY <1>4, ResearchCardinality, FS_EmptySet DEF ResearchConstants
<1>. QED
  BY <1>3, <1>5 DEF ResearchInv

\* Every step, of a stream, its user, or the process.
LEMMA ResearchStep ==
    ASSUME ResearchConstants, ResearchInv, [Research!Next]_Research!researchVars
    PROVE  ResearchInv'
<1>1. CASE Research!Next
  <2>1. CASE Research!Restart
    BY <2>1, ResearchRestarts
  <2>2. CASE \E q \in store : Research!Clarify(q)
    BY <2>2, ResearchClarifies
  <2>3. ASSUME NEW s \in Streams,
               \/ Research!SubmitJob(s) \/ Research!StartStream(s) \/ Research!ModelFails(s)
               \/ \E kinds \in Research!KindLists : Research!Complete(s, kinds)
               \/ Research!Results(s) \/ Research!Report(s) \/ Research!Disconnect(s)
               \/ Research!CancelSession(s) \/ Research!PostToWebhook(s)
        PROVE  ResearchInv'
    BY <2>3, ResearchPlaces, ResearchCompletes, ResearchCallsEnd, ResearchCancels
  <2>4. ASSUME NEW s \in Streams, NEW i \in 1..Abreast,
               \/ Research!Announce(s, i) \/ Research!AskClarification(s, i)
               \/ Research!AnswerComes(s, i) \/ Research!Evaluate(s, i)
               \/ Research!StartCall(s, i) \/ Research!EnterSemaphore(s, i)
               \/ Research!SearchAnswers(s, i) \/ Research!SearchFails(s, i)
               \/ Research!TalkAnswers(s, i) \/ Research!TalkFails(s, i)
               \/ Research!TalkRefused(s, i) \/ Research!ToolRaises(s, i)
        PROVE  ResearchInv'
    BY <2>4, ResearchAnnounces, ResearchAsks, ResearchCallsMove, ResearchCallsReturn,
       ResearchEnters, ResearchCallsFail
  <2>. QED
    BY <1>1, <2>1, <2>2, <2>3, <2>4 DEF Research!Next
<1>2. CASE UNCHANGED Research!researchVars
  <2>1. UNCHANGED <<st, store, resolved, job, faults>>
    BY <1>2 DEF Research!researchVars
  <2>2. ResearchWell'
    BY <2>1 DEF ResearchInv, ResearchWell, StreamIsWell, CallIsWell
  <2>. QED
    BY <2>1, <2>2, NobodyJoins
<1>. QED
  BY <1>1, <1>2

\* However streams, their parallel tools, answers, failures, closed browsers and restarts
\* overlap, a tool that waits can be answered or has been, and a stream that has ended
\* leaves no question in the store and no tool waiting for one; and no more talk to the
\* records at once than the semaphore admits (clarification.py and streaming.py).
THEOREM QuestionsEndCorrect ==
    ASSUME ResearchConstants
    PROVE  Research!Spec => [](Research!TypeOK /\ Research!QuestionsEndWithTheirStream)
<1>1. Research!Init => ResearchInv
  BY ResearchInit
<1>2. ResearchInv /\ [Research!Next]_Research!researchVars => ResearchInv'
  BY ResearchStep
<1>3. ResearchInv => Research!TypeOK /\ Research!QuestionsEndWithTheirStream
  <2>. SUFFICES ASSUME ResearchInv PROVE Research!TypeOK /\ Research!QuestionsEndWithTheirStream
    OBVIOUS
  <2>1. Research!TypeOK
    <3>1. ASSUME NEW s \in Streams
          PROVE  /\ st[s].pc \in Research!Live \cup {"idle", "closing", "post", "ended"}
                 /\ st[s].turn \in 0..MaxTurns /\ Len(st[s].calls) <= Abreast
                 /\ st[s].pending # <<>> => st[s].pending \in st[s].active
      BY TheStream DEF StreamIsWell, Stream
    <3>2. store \cap resolved = {} /\ store \subseteq UNION {st[s].active : s \in Streams}
      BY DEF ResearchInv, ResearchWell
    <3>. QED
      BY <3>1, <3>2 DEF ResearchInv, ResearchWell, JobStates, Research!TypeOK, Research!NoQuestion
  <2>2. Research!QuestionsEndWithTheirStream
    BY TheStream DEF Research!QuestionsEndWithTheirStream, StreamIsWell, CallIsWell
  <2>. QED
    BY <2>1, <2>2
<1>. QED
  BY <1>1, <1>2, <1>3, PTL DEF Research!Spec

-----------------------------------------------------------------------------
(* The reports of a monitor *)

Frequencies == {"daily", "weekly"}
MonitorRow == [exists : BOOLEAN, active : BOOLEAN, freq : Frequencies, next : 0..LastDay + Weekly]
Tick == [pc : {"sleep", "select", "unlock", "start"}, due : SUBSET [m : Monitors, freq : Frequencies]]
Run == [pc : {"stream", "list", "create", "link", "reschedule"}, m : Monitors,
        freq : Frequencies, parent : 0..MaxSessions, id : 0..MaxSessions]
StoredReport == [m : Monitors, parent : 0..MaxSessions]

MonitorsInv ==
    /\ day \in 0..LastDay /\ monitor \in [Monitors -> MonitorRow]
    /\ edits \in 0..MonitorEdits /\ faults \in 0..MaxFaults

\* The advisory lock is held by the instance whose tick selects, and by no other.
SelectorHoldsTheLock ==
    \A i \in Instances : loop[i].pc \in {"select", "unlock"} <=> lock = i
TicksInv ==
    /\ lock \in Instances \cup {NoInstance} /\ loop \in [Instances -> Tick]
    /\ SelectorHoldsTheLock

\* The session that a run is going to link to is there, of the same query, and was
\* stored before the run's own.
RunIsWell(r, reports) ==
    /\ r.pc = "create" /\ r.parent # 0 =>
         r.parent \in 1..Len(reports) /\ reports[r.parent].m = r.m
    /\ r.pc = "link" => /\ r.id \in 1..Len(reports) /\ r.parent \in 1..(r.id - 1)
                        /\ reports[r.parent].m = r.m /\ reports[r.id].m = r.m
Chained(reports) ==
    \A k \in 1..Len(reports) : reports[k].parent # 0 =>
        reports[k].parent \in 1..(k - 1) /\ reports[reports[k].parent].m = reports[k].m

\* A run on the way to its session has a place for it.
Saving(r) == r.pc \in {"list", "create"}
Savers == {u \in Tasks : Saving(task[u])}
RunsInv ==
    /\ task \in [Tasks -> Run \cup {Sched!NoTask}]
    /\ sessions \in Seq(StoredReport)
    /\ \A t \in Tasks : RunIsWell(task[t], sessions)
    /\ Chained(sessions)
    /\ Len(sessions) + Cardinality(Savers) <= MaxSessions

SchedInv == MonitorsInv /\ TicksInv /\ RunsInv

\* The instance counts as this module does.
LEMMA SchedCardinality == \A S : Sched!Cardinality(S) = Cardinality(S)
BY DEF Sched!Cardinality, Cardinality

\* There are finitely many runs on the way to a session.
LEMMA SaversAreFew ==
    ASSUME SchedConstants
    PROVE  IsFiniteSet(Savers) /\ Cardinality(Savers) \in Nat
BY FS_Subset, FS_CardinalityType DEF SchedConstants, Savers

\* What waits for a place keeps it, and takes one only where there is one.
LEMMA SaversMove ==
    ASSUME SchedConstants, RunsInv, NEW t \in Tasks, NEW r \in Run \cup {Sched!NoTask},
           task' = [task EXCEPT ![t] = r]
    PROVE  /\ Cardinality(Savers') \in Nat
           /\ ~ Saving(r) => Cardinality(Savers') <= Cardinality(Savers)
           /\ ~ Saving(r) /\ Saving(task[t]) => Cardinality(Savers') = Cardinality(Savers) - 1
           /\ Saving(r) /\ Saving(task[t]) => Cardinality(Savers') = Cardinality(Savers)
           /\ Saving(r) => Cardinality(Savers') <= Cardinality(Savers) + 1
<1>1. \A u \in Tasks : task'[u] = IF u = t THEN r ELSE task[u]
  BY DEF RunsInv
<1>2. CASE Saving(r)
  <2>1. Savers' = Savers \cup {t}
    BY <1>1, <1>2 DEF Savers, Saving
  <2>2. t \in Savers <=> Saving(task[t])
    BY DEF Savers
  <2>3. Cardinality(Savers') = IF t \in Savers THEN Cardinality(Savers) ELSE Cardinality(Savers) + 1
    BY <2>1, SaversAreFew, FS_AddElement
  <2>. QED
    BY <1>2, <2>2, <2>3, SaversAreFew DEF Saving
<1>3. CASE ~ Saving(r)
  <2>1. Savers' = Savers \ {t}
    BY <1>1, <1>3 DEF Savers, Saving
  <2>2. t \in Savers <=> Saving(task[t])
    BY DEF Savers
  <2>3. /\ Cardinality(Savers') = IF t \in Savers THEN Cardinality(Savers) - 1 ELSE Cardinality(Savers)
        /\ Cardinality(Savers') \in Nat
    BY <2>1, SaversAreFew, FS_RemoveElement, FS_CardinalityType
  <2>. QED
    BY <1>3, <2>2, <2>3, SaversAreFew DEF Saving
<1>. QED
  BY <1>2, <1>3

\* A run that moves with the sessions as they are.
LEMMA RunMoves ==
    ASSUME SchedConstants, RunsInv, NEW t \in Tasks, NEW r \in Run \cup {Sched!NoTask},
           task' = [task EXCEPT ![t] = r], sessions' = sessions, RunIsWell(r, sessions),
           \/ ~ Saving(r)
           \/ Saving(task[t])
           \/ Len(sessions) + Cardinality(Savers) < MaxSessions
    PROVE  RunsInv'
<1>1. \A u \in Tasks : task'[u] = IF u = t THEN r ELSE task[u]
  BY DEF RunsInv
<1>2. task' \in [Tasks -> Run \cup {Sched!NoTask}]
  BY DEF RunsInv
<1>3. \A u \in Tasks : RunIsWell(task[u], sessions)'
  BY <1>1 DEF RunsInv, RunIsWell
<1>4. Len(sessions) \in Nat /\ Cardinality(Savers) \in Nat
  BY SaversAreFew DEF RunsInv
<1>5. (Len(sessions) + Cardinality(Savers) <= MaxSessions)'
  <2>1. MaxSessions \in Nat /\ Len(sessions) + Cardinality(Savers) <= MaxSessions
    BY DEF RunsInv, SchedConstants
  <2>2. Cardinality(Savers') \in Nat
    BY SaversMove
  <2>3. \/ Cardinality(Savers') <= Cardinality(Savers)
        \/ /\ Cardinality(Savers') <= Cardinality(Savers) + 1
           /\ Len(sessions) + Cardinality(Savers) < MaxSessions
    <3>1. CASE ~ Saving(r)
      BY <3>1, SaversMove
    <3>2. CASE Saving(r) /\ Saving(task[t])
      <4>1. Cardinality(Savers') = Cardinality(Savers)
        BY <3>2, SaversMove
      <4>. QED
        BY <1>4, <4>1
    <3>3. CASE Saving(r) /\ Len(sessions) + Cardinality(Savers) < MaxSessions
      BY <3>3, SaversMove
    <3>. QED
      BY <3>1, <3>2, <3>3
  <2>. QED
    BY <1>4, <2>1, <2>2, <2>3
<1>. QED
  BY <1>2, <1>3, <1>5 DEF RunsInv, Chained

\* What the invariant says of one run.
LEMMA TheRun ==
    ASSUME SchedInv, NEW t \in Tasks
    PROVE  /\ task[t] \in Run \/ (task[t] = Sched!NoTask /\ task[t].pc = "free")
           /\ RunIsWell(task[t], sessions) /\ sessions \in Seq(StoredReport)
BY DEF SchedInv, RunsInv, Sched!NoTask

\* A run that only has the due time left to move, and one that is over.
LEMMA GoesOnIsWell ==
    ASSUME SchedConstants, SchedInv, NEW t \in Tasks, task[t] \in Run
    PROVE  LET r == [task[t] EXCEPT !.pc = "reschedule", !.parent = 0, !.id = 0]
           IN  r \in Run /\ ~ Saving(r) /\ \A reports : RunIsWell(r, reports)
<1>. DEFINE r == [task[t] EXCEPT !.pc = "reschedule", !.parent = 0, !.id = 0]
<1>1. r.pc = "reschedule"
  BY DEF Run
<1>2. r \in Run
  <2>. DEFINE q == [task[t] EXCEPT !.pc = "reschedule", !.parent = 0]
  <2>1. 0 \in 0..MaxSessions
    BY DEF SchedConstants
  <2>2. q \in Run
    BY <2>1 DEF Run
  <2>3. r = [q EXCEPT !.id = 0]
    OBVIOUS
  <2>4. [q EXCEPT !.id = 0] \in Run
    <3>. HIDE DEF q
    <3>. QED
      BY <2>1, <2>2 DEF Run
  <2>. QED
    BY <2>3, <2>4
<1>. QED
  BY <1>1, <1>2 DEF Saving, RunIsWell

\* The number that is free carries no run.
LEMMA NoTaskIsWell == ~ Saving(Sched!NoTask) /\ \A reports : RunIsWell(Sched!NoTask, reports)
BY DEF Sched!NoTask, Saving, RunIsWell

-----------------------------------------------------------------------------
\* The owner and the calendar: no run, no tick and no report is touched.
LEMMA OwnerIsWell ==
    ASSUME SchedConstants, SchedInv,
           \/ Sched!NextDay
           \/ \E m \in Monitors :
                \/ \E freq \in Frequencies : Sched!CreateMonitor(m, freq)
                \/ Sched!UpdateMonitor(m) \/ Sched!DeleteMonitor(m)
    PROVE  SchedInv'
<1>1. UNCHANGED <<lock, loop, task, sessions, faults>>
  BY DEF Sched!NextDay, Sched!CreateMonitor, Sched!UpdateMonitor, Sched!DeleteMonitor
<1>2. TicksInv' /\ RunsInv'
  BY <1>1 DEF SchedInv, TicksInv, SelectorHoldsTheLock, RunsInv, RunIsWell, Chained, Savers
<1>3. MonitorsInv'
  <2>. USE DEF SchedInv, MonitorsInv
  <2>1. CASE Sched!NextDay
    BY <2>1 DEF Sched!NextDay, SchedConstants
  <2>2. ASSUME NEW m \in Monitors, NEW freq \in Frequencies, Sched!CreateMonitor(m, freq)
        PROVE  MonitorsInv'
    <3>1. [exists |-> TRUE, active |-> TRUE, freq |-> freq, next |-> day] \in MonitorRow
      BY DEF MonitorRow, SchedConstants
    <3>. QED
      BY <2>2, <3>1 DEF Sched!CreateMonitor, Sched!Edit, SchedConstants
  <2>3. ASSUME NEW m \in Monitors, Sched!UpdateMonitor(m) PROVE MonitorsInv'
    <3>1. PICK freq \in Frequencies, active \in BOOLEAN :
            monitor' = [monitor EXCEPT ![m] = [monitor[m] EXCEPT !.freq = freq, !.active = active]]
      BY <2>3 DEF Sched!UpdateMonitor, Frequencies
    <3>2. [monitor[m] EXCEPT !.freq = freq, !.active = active] \in MonitorRow
      BY DEF MonitorRow
    <3>3. monitor' \in [Monitors -> MonitorRow]
      BY <3>1, <3>2
    <3>. QED
      BY <2>3, <3>3 DEF Sched!UpdateMonitor, Sched!Edit, SchedConstants
  <2>4. ASSUME NEW m \in Monitors, Sched!DeleteMonitor(m) PROVE MonitorsInv'
    <3>1. Sched!NoRow \in MonitorRow
      BY DEF Sched!NoRow, MonitorRow, Frequencies, SchedConstants
    <3>. QED
      BY <2>4, <3>1 DEF Sched!DeleteMonitor, Sched!Edit, SchedConstants
  <2>. QED
    BY <2>1, <2>2, <2>3, <2>4
<1>. QED
  BY <1>2, <1>3 DEF SchedInv

\* A run that starts, of a monitor as it was read.
LEMMA StartedIsWell ==
    ASSUME SchedConstants, SchedInv, NEW m \in Monitors, NEW freq \in Frequencies,
           NEW t \in Tasks, task' = [task EXCEPT ![t] = Sched!Started(m, freq)],
           sessions' = sessions
    PROVE  RunsInv'
<1>. DEFINE r == Sched!Started(m, freq)
<1>1. r \in Run /\ r.pc = "stream"
  BY DEF Sched!Started, Run, SchedConstants
<1>2. ~ Saving(r) /\ RunIsWell(r, sessions)
  BY <1>1 DEF Saving, RunIsWell
<1>. QED
  BY <1>1, <1>2, RunMoves DEF SchedInv

\* Run now.
LEMMA TriggerIsWell ==
    ASSUME SchedConstants, SchedInv, NEW m \in Monitors, NEW t \in Tasks,
           Sched!TriggerMonitor(m, t)
    PROVE  SchedInv'
<1>1. /\ UNCHANGED <<day, monitor, lock, loop, sessions, faults>>
      /\ edits < MonitorEdits /\ edits' = edits + 1
      /\ task' = [task EXCEPT ![t] = Sched!Started(m, monitor[m].freq)]
  BY DEF Sched!TriggerMonitor, Sched!Edit
<1>2. monitor[m].freq \in Frequencies
  BY DEF SchedInv, MonitorsInv, MonitorRow
<1>3. RunsInv'
  BY <1>1, <1>2, StartedIsWell
<1>. QED
  BY <1>1, <1>3 DEF SchedInv, MonitorsInv, TicksInv, SelectorHoldsTheLock, SchedConstants

\* A tick moves: its instance has the lock from when it got it to when it gives it back.
LEMMA TickMoves ==
    ASSUME SchedConstants, TicksInv, NEW i \in Instances, NEW k \in Tick,
           loop' = [loop EXCEPT ![i] = k],
           \/ lock' = lock /\ (k.pc \in {"select", "unlock"} <=> lock = i)
           \/ lock = NoInstance /\ lock' = i /\ k.pc \in {"select", "unlock"}
           \/ lock = i /\ lock' = NoInstance /\ k.pc \notin {"select", "unlock"}
    PROVE  TicksInv'
<1>1. \A j \in Instances : loop'[j] = IF j = i THEN k ELSE loop[j]
  BY DEF TicksInv
<1>2. loop' \in [Instances -> Tick] /\ lock' \in Instances \cup {NoInstance}
  BY DEF TicksInv
<1>3. ASSUME NEW j \in Instances
      PROVE  loop'[j].pc \in {"select", "unlock"} <=> lock' = j
  <2>1. loop[j].pc \in {"select", "unlock"} <=> lock = j
    BY DEF TicksInv, SelectorHoldsTheLock
  <2>2. NoInstance # i /\ NoInstance # j
    BY DEF SchedConstants
  <2>. QED
    BY <1>1, <2>1, <2>2
<1>. QED
  BY <1>2, <1>3 DEF TicksInv, SelectorHoldsTheLock

\* An instance that sleeps, and one that starts what it selected or sleeps.
LEMMA AsleepIsWell ==
    /\ Sched!Asleep \in Tick /\ Sched!Asleep.pc = "sleep"
    /\ \A due \in SUBSET [m : Monitors, freq : Frequencies] :
         /\ [pc |-> "start", due |-> due] \in Tick
         /\ [pc |-> "unlock", due |-> due] \in Tick
BY DEF Sched!Asleep, Tick

\* One tick of an instance, with the failure of its selection.
LEMMA TickIsWell ==
    ASSUME SchedConstants, SchedInv, NEW i \in Instances,
           \/ Sched!TryLock(i) \/ Sched!Select(i) \/ Sched!SelectFails(i) \/ Sched!Unlock(i)
           \/ Sched!CrashInstance(i)
    PROVE  SchedInv'
<1>1. UNCHANGED <<day, monitor, task, sessions, edits>> /\ faults' \in 0..MaxFaults
  BY DEF Sched!TryLock, Sched!Select, Sched!SelectFails, Sched!Unlock, Sched!CrashInstance,
     Sched!Fault, SchedInv, MonitorsInv, SchedConstants
<1>2. MonitorsInv' /\ RunsInv'
  BY <1>1 DEF SchedInv, MonitorsInv, RunsInv, RunIsWell, Chained, Savers
<1>3. TicksInv /\ loop[i] \in Tick /\ loop \in [Instances -> Tick]
      /\ (loop[i].pc \in {"select", "unlock"} <=> lock = i) /\ NoInstance # i
  BY DEF SchedInv, TicksInv, SelectorHoldsTheLock, SchedConstants
<1>4. CASE Sched!TryLock(i)
  <2>1. CASE lock = NoInstance
    <3>1. /\ lock' = i
          /\ loop' = [loop EXCEPT ![i] = [loop[i] EXCEPT !.pc = "select"]]
      BY <1>4, <2>1 DEF Sched!TryLock
    <3>2. /\ [loop[i] EXCEPT !.pc = "select"] \in Tick
          /\ [loop[i] EXCEPT !.pc = "select"].pc = "select"
      BY <1>3 DEF Tick
    <3>. QED
      BY <1>2, <1>3, <2>1, <3>1, <3>2, TickMoves DEF SchedInv
  <2>2. CASE lock # NoInstance
    BY <1>2, <1>3, <1>4, <2>2 DEF Sched!TryLock, SchedInv, TicksInv, SelectorHoldsTheLock
  <2>. QED
    BY <2>1, <2>2
<1>5. CASE Sched!Select(i)
  <2>. DEFINE due == {[m |-> m, freq |-> monitor[m].freq] : m \in {n \in Monitors : Sched!Due(n)}}
  <2>1. /\ loop[i].pc = "select" /\ lock' = lock
        /\ loop' = [loop EXCEPT ![i] = [pc |-> "unlock", due |-> due]]
    BY <1>5 DEF Sched!Select
  <2>2. \A m \in Monitors : monitor[m].freq \in Frequencies
    BY DEF SchedInv, MonitorsInv, MonitorRow
  <2>3. due \in SUBSET [m : Monitors, freq : Frequencies]
    BY <2>2
  <2>4. [pc |-> "unlock", due |-> due] \in Tick
    BY <2>3, AsleepIsWell
  <2>. QED
    BY <1>2, <1>3, <2>1, <2>4, TickMoves DEF SchedInv
<1>6. CASE Sched!SelectFails(i)
  <2>1. /\ loop[i].pc = "select" /\ lock' = lock
        /\ loop' = [loop EXCEPT ![i] = [loop[i] EXCEPT !.pc = "unlock"]]
    BY <1>6 DEF Sched!SelectFails, Sched!GoesToUnlock
  <2>2. /\ [loop[i] EXCEPT !.pc = "unlock"] \in Tick
        /\ [loop[i] EXCEPT !.pc = "unlock"].pc = "unlock"
    BY <1>3 DEF Tick
  <2>. QED
    BY <1>2, <1>3, <2>1, <2>2, TickMoves DEF SchedInv
<1>7. CASE Sched!Unlock(i)
  <2>. DEFINE k == IF loop[i].due = {} THEN Sched!Asleep ELSE [pc |-> "start", due |-> loop[i].due]
  <2>1. /\ loop[i].pc = "unlock" /\ lock' = NoInstance /\ loop' = [loop EXCEPT ![i] = k]
    BY <1>7 DEF Sched!Unlock, Sched!StartsOrSleeps
  <2>2. k \in Tick /\ k.pc \in {"sleep", "start"}
    BY <1>3, AsleepIsWell DEF Tick
  <2>. QED
    BY <1>2, <1>3, <2>1, <2>2, TickMoves DEF SchedInv
<1>8. CASE Sched!CrashInstance(i)
  <2>1. loop' = [loop EXCEPT ![i] = Sched!Asleep]
    BY <1>8 DEF Sched!CrashInstance
  <2>2. (lock = i /\ lock' = NoInstance) \/ (lock # i /\ lock' = lock)
    BY <1>8 DEF Sched!CrashInstance
  <2>. QED
    BY <1>2, <1>3, <2>1, <2>2, AsleepIsWell, TickMoves DEF SchedInv
<1>. QED
  BY <1>4, <1>5, <1>6, <1>7, <1>8

\* A run of what was selected.
LEMMA StartOneIsWell ==
    ASSUME SchedConstants, SchedInv, NEW i \in Instances, Sched!StartOne(i)
    PROVE  SchedInv'
<1>1. PICK d \in loop[i].due, t \in Tasks :
        /\ task' = [task EXCEPT ![t] = Sched!Started(d.m, d.freq)]
        /\ loop' = [loop EXCEPT ![i] = IF loop[i].due \ {d} = {} THEN Sched!Asleep
                                       ELSE [pc |-> "start", due |-> loop[i].due \ {d}]]
  BY DEF Sched!StartOne, Sched!StartsOrSleeps
<1>2. UNCHANGED <<day, monitor, lock, sessions, edits, faults>> /\ loop[i].pc = "start"
  BY DEF Sched!StartOne
<1>3. TicksInv /\ loop[i] \in Tick /\ (loop[i].pc \in {"select", "unlock"} <=> lock = i)
  BY DEF SchedInv, TicksInv, SelectorHoldsTheLock
<1>4. d.m \in Monitors /\ d.freq \in Frequencies
  BY <1>3 DEF Tick
<1>5. RunsInv'
  BY <1>1, <1>2, <1>4, StartedIsWell
<1>6. TicksInv'
  <2>. DEFINE k == IF loop[i].due \ {d} = {} THEN Sched!Asleep
                   ELSE [pc |-> "start", due |-> loop[i].due \ {d}]
  <2>1. loop[i].due \ {d} \in SUBSET [m : Monitors, freq : Frequencies]
    BY <1>3 DEF Tick
  <2>2. k \in Tick /\ k.pc \in {"sleep", "start"}
    BY <2>1, AsleepIsWell
  <2>. QED
    BY <1>1, <1>2, <1>3, <2>2, TickMoves
<1>. QED
  BY <1>2, <1>5, <1>6 DEF SchedInv, MonitorsInv

-----------------------------------------------------------------------------
\* The steps of a run that leave the monitors and the ticks alone.
LEMMA OnlyTheRun ==
    ASSUME SchedInv, RunsInv', UNCHANGED <<day, monitor, lock, loop, edits>>,
           faults' \in 0..MaxFaults
    PROVE  SchedInv'
BY DEF SchedInv, MonitorsInv, TicksInv, SelectorHoldsTheLock

\* The research ends, with a report for which there is a place, or without one.
LEMMA StreamEndsIsWell ==
    ASSUME SchedConstants, SchedInv, NEW t \in Tasks, Sched!StreamEnds(t)
    PROVE  SchedInv'
<1>1. /\ UNCHANGED <<day, monitor, lock, loop, sessions, edits, faults>>
      /\ task[t].pc = "stream"
  BY DEF Sched!StreamEnds
<1>2. task[t] \in Run /\ RunIsWell(task[t], sessions) /\ faults' \in 0..MaxFaults
  BY <1>1, TheRun DEF SchedInv, MonitorsInv
<1>3. CASE /\ Len(sessions) + Cardinality(Savers) < MaxSessions
           /\ task' = [task EXCEPT ![t] = [task[t] EXCEPT !.pc = "list"]]
  <2>. DEFINE r == [task[t] EXCEPT !.pc = "list"]
  <2>1. r \in Run /\ r.pc = "list"
    BY <1>2 DEF Run
  <2>2. RunIsWell(r, sessions)
    BY <2>1 DEF RunIsWell
  <2>. QED
    BY <1>1, <1>2, <1>3, <2>1, <2>2, RunMoves, OnlyTheRun DEF SchedInv
<1>4. CASE Sched!GoesOn(t)
  <2>1. task' = [task EXCEPT ![t] = [task[t] EXCEPT !.pc = "reschedule", !.parent = 0, !.id = 0]]
    BY <1>4 DEF Sched!GoesOn
  <2>. QED
    BY <1>1, <1>2, <2>1, GoesOnIsWell, RunMoves, OnlyTheRun DEF SchedInv
<1>5. Sched!Cardinality({u \in Tasks : task[u].pc \in {"list", "create"}}) = Cardinality(Savers)
  BY SchedCardinality DEF Savers, Saving
<1>. QED
  BY <1>3, <1>4, <1>5 DEF Sched!StreamEnds, Sched!Goes

\* The session to link to, if there is one: it is of the same query.
LEMMA ListSessionsIsWell ==
    ASSUME SchedConstants, SchedInv, NEW t \in Tasks, Sched!ListSessions(t)
    PROVE  SchedInv'
<1>1. /\ UNCHANGED <<day, monitor, lock, loop, sessions, edits, faults>>
      /\ task[t].pc = "list"
  BY DEF Sched!ListSessions
<1>2. /\ task[t] \in Run /\ faults' \in 0..MaxFaults /\ sessions \in Seq(StoredReport)
      /\ DOMAIN sessions = 1..Len(sessions) /\ Len(sessions) \in Nat
  BY <1>1, TheRun DEF SchedInv, MonitorsInv
<1>3. Len(sessions) <= MaxSessions
  BY <1>2, SaversAreFew DEF SchedInv, RunsInv, SchedConstants
<1>4. PICK p : /\ p = 0 \/ (p \in 1..Len(sessions) /\ sessions[p].m = task[t].m)
               /\ task' = [task EXCEPT ![t] = [task[t] EXCEPT !.pc = "create", !.parent = p]]
  BY <1>2 DEF Sched!ListSessions
<1>. DEFINE r == [task[t] EXCEPT !.pc = "create", !.parent = p]
<1>5. p \in 0..MaxSessions
  BY <1>2, <1>3, <1>4 DEF SchedConstants
<1>6. r \in Run /\ r.pc = "create" /\ r.parent = p /\ r.m = task[t].m
  BY <1>2, <1>5 DEF Run
<1>7. RunIsWell(r, sessions) /\ Saving(task[t])
  BY <1>1, <1>4, <1>6 DEF RunIsWell, Saving
<1>. QED
  BY <1>1, <1>2, <1>4, <1>6, <1>7, RunMoves, OnlyTheRun DEF SchedInv

\* Reports that are only added to, or linked, keep what was found.
LEMMA ReportsKeep ==
    ASSUME NEW r, NEW old \in Seq(StoredReport), NEW new \in Seq(StoredReport), RunIsWell(r, old),
           Len(old) <= Len(new), \A k \in 1..Len(old) : new[k].m = old[k].m
    PROVE  RunIsWell(r, new)
<1>1. Len(old) \in Nat /\ Len(new) \in Nat
  OBVIOUS
<1>2. CASE r.pc = "create" /\ r.parent # 0
  <2>1. r.parent \in 1..Len(old) /\ old[r.parent].m = r.m
    BY <1>2 DEF RunIsWell
  <2>. QED
    BY <1>1, <1>2, <2>1 DEF RunIsWell
<1>3. CASE r.pc = "link"
  <2>1. /\ r.id \in 1..Len(old) /\ r.parent \in 1..(r.id - 1)
        /\ old[r.parent].m = r.m /\ old[r.id].m = r.m
    BY <1>3 DEF RunIsWell
  <2>2. r.parent \in 1..Len(old)
    BY <1>1, <2>1
  <2>. QED
    BY <1>1, <1>3, <2>1, <2>2 DEF RunIsWell
<1>. QED
  BY <1>2, <1>3 DEF RunIsWell

\* The run's own session is the last, and what it will link to is before it.
LEMMA CreateSessionIsWell ==
    ASSUME SchedConstants, SchedInv, NEW t \in Tasks, Sched!CreateSession(t)
    PROVE  SchedInv'
<1>. DEFINE n == Len(sessions)
            report == [m |-> task[t].m, parent |-> 0]
            on == [task[t] EXCEPT !.pc = "reschedule", !.parent = 0, !.id = 0]
            link == [task[t] EXCEPT !.pc = "link", !.id = n + 1]
            r == IF task[t].parent = 0 THEN on ELSE link
<1>1. /\ UNCHANGED <<day, monitor, lock, loop, edits, faults>>
      /\ task[t].pc = "create" /\ sessions' = Append(sessions, report)
  BY DEF Sched!CreateSession
<1>2. task' = [task EXCEPT ![t] = r]
  BY DEF Sched!CreateSession, Sched!GoesOn
<1>3. /\ task[t] \in Run /\ RunIsWell(task[t], sessions) /\ sessions \in Seq(StoredReport)
      /\ n \in Nat /\ faults' \in 0..MaxFaults
  BY <1>1, TheRun DEF SchedInv, MonitorsInv
<1>4. n + Cardinality(Savers) <= MaxSessions /\ MaxSessions \in Nat /\ Cardinality(Savers) \in Nat
  BY SaversAreFew DEF SchedInv, RunsInv, SchedConstants
<1>5. Saving(task[t])
  BY <1>1 DEF Saving
<1>6. n < MaxSessions
  <2>1. Savers # {}
    BY <1>5 DEF Savers
  <2>2. Cardinality(Savers) # 0
    BY <2>1, SaversAreFew, FS_EmptySet
  <2>. QED
    BY <1>3, <1>4, <2>2
<1>7. report \in StoredReport /\ report.parent = 0
  <2>1. task[t].m \in Monitors
    BY <1>3 DEF Run
  <2>. QED
    BY <1>4, <2>1 DEF StoredReport
<1>8. /\ sessions' \in Seq(StoredReport) /\ Len(sessions') = n + 1
      /\ \A k \in 1..n : sessions'[k] = sessions[k]
      /\ sessions'[n + 1] = report
  BY <1>1, <1>3, <1>7
<1>9. r \in Run /\ ~ Saving(r) /\ RunIsWell(r, sessions')
  <2>1. CASE task[t].parent = 0
    BY <1>3, <2>1, GoesOnIsWell
  <2>2. CASE task[t].parent # 0
    <3>1. task[t].parent \in 1..n /\ sessions[task[t].parent].m = task[t].m
      BY <1>1, <1>3, <2>2 DEF RunIsWell
    <3>2. /\ link \in Run /\ link.pc = "link" /\ link.id = n + 1
          /\ link.parent = task[t].parent /\ link.m = task[t].m
      <4>1. n + 1 \in 0..MaxSessions
        BY <1>3, <1>4, <1>6
      <4>2. link \in Run
        BY <1>3, <4>1 DEF Run
      <4>3. link.pc = "link" /\ link.parent = task[t].parent /\ link.m = task[t].m
        BY <1>3 DEF Run
      <4>4. link.id = n + 1
        BY <1>3 DEF Run
      <4>. QED
        BY <4>2, <4>3, <4>4
    <3>3. /\ link.id \in 1..Len(sessions') /\ link.parent \in 1..(link.id - 1)
          /\ sessions'[link.parent].m = link.m
      BY <1>3, <1>8, <3>1, <3>2
    <3>4. sessions'[link.id].m = link.m
      BY <1>8, <3>2
    <3>5. RunIsWell(link, sessions') /\ ~ Saving(link)
      BY <3>2, <3>3, <3>4 DEF RunIsWell, Saving
    <3>. QED
      BY <2>2, <3>2, <3>5
  <2>. QED
    BY <2>1, <2>2
<1>10. \A u \in Tasks : RunIsWell(task'[u], sessions')
  <2>1. ASSUME NEW u \in Tasks, u # t PROVE RunIsWell(task'[u], sessions')
    <3>1. task'[u] = task[u] /\ RunIsWell(task[u], sessions)
      BY <1>2, <2>1 DEF SchedInv, RunsInv
    <3>. QED
      BY <1>3, <1>8, <3>1, ReportsKeep
  <2>2. task'[t] = r
    BY <1>2 DEF SchedInv, RunsInv
  <2>. QED
    BY <1>9, <2>1, <2>2
<1>11. Chained(sessions')
  <2>1. ASSUME NEW k \in 1..Len(sessions'), sessions'[k].parent # 0
        PROVE  /\ sessions'[k].parent \in 1..(k - 1)
               /\ sessions'[sessions'[k].parent].m = sessions'[k].m
    <3>1. k \in 1..n
      BY <1>3, <1>7, <1>8, <2>1
    <3>2. sessions[k].parent \in 1..(k - 1) /\ sessions[sessions[k].parent].m = sessions[k].m
      BY <1>8, <2>1, <3>1 DEF SchedInv, RunsInv, Chained
    <3>3. sessions[k].parent \in 1..n
      BY <1>3, <3>1, <3>2
    <3>. QED
      BY <1>8, <3>1, <3>2, <3>3
  <2>. QED
    BY <2>1 DEF Chained
<1>12. Len(sessions') + Cardinality(Savers') <= MaxSessions
  <2>1. Cardinality(Savers') = Cardinality(Savers) - 1
    BY <1>2, <1>5, <1>9, SaversMove DEF SchedInv
  <2>. QED
    BY <1>3, <1>4, <1>8, <2>1
<1>13. task' \in [Tasks -> Run \cup {Sched!NoTask}]
  BY <1>2, <1>9 DEF SchedInv, RunsInv
<1>14. RunsInv'
  BY <1>8, <1>10, <1>11, <1>12, <1>13 DEF RunsInv
<1>. QED
  BY <1>1, <1>3, <1>14, OnlyTheRun

\* The link, to what the run found before it stored its own session.
LEMMA LinkParentIsWell ==
    ASSUME SchedConstants, SchedInv, NEW t \in Tasks, Sched!LinkParent(t)
    PROVE  SchedInv'
<1>. DEFINE id == task[t].id
            p == task[t].parent
            r == [task[t] EXCEPT !.pc = "reschedule", !.parent = 0, !.id = 0]
<1>1. /\ UNCHANGED <<day, monitor, lock, loop, edits, faults>> /\ task[t].pc = "link"
      /\ sessions' = [sessions EXCEPT ![id] = [sessions[id] EXCEPT !.parent = p]]
      /\ task' = [task EXCEPT ![t] = r]
  BY DEF Sched!LinkParent, Sched!ParentToLink, Sched!GoesOn
<1>2. /\ task[t] \in Run /\ RunIsWell(task[t], sessions) /\ sessions \in Seq(StoredReport)
      /\ Len(sessions) \in Nat /\ faults' \in 0..MaxFaults
  BY <1>1, TheRun DEF SchedInv, MonitorsInv
<1>3. /\ id \in 1..Len(sessions) /\ p \in 1..(id - 1)
      /\ sessions[p].m = task[t].m /\ sessions[id].m = task[t].m
  BY <1>1, <1>2 DEF RunIsWell
<1>4. p \in 0..MaxSessions /\ p \in 1..Len(sessions) /\ p # id
  BY <1>2, <1>3 DEF Run
<1>5. /\ [sessions[id] EXCEPT !.parent = p] \in StoredReport
      /\ [sessions[id] EXCEPT !.parent = p].parent = p
      /\ [sessions[id] EXCEPT !.parent = p].m = sessions[id].m
  <2>1. sessions[id] \in StoredReport
    BY <1>2, <1>3
  <2>. QED
    BY <1>4, <2>1 DEF StoredReport
<1>6. /\ sessions' \in Seq(StoredReport) /\ Len(sessions') = Len(sessions)
      /\ \A k \in 1..Len(sessions) : /\ sessions'[k].m = sessions[k].m
                                     /\ k # id => sessions'[k] = sessions[k]
      /\ sessions'[id].parent = p
  <2>1. /\ sessions' \in Seq(StoredReport) /\ Len(sessions') = Len(sessions)
        /\ sessions'[id] = [sessions[id] EXCEPT !.parent = p]
        /\ \A k \in 1..Len(sessions) : k # id => sessions'[k] = sessions[k]
    BY <1>1, <1>2, <1>3, <1>5
  <2>. QED
    BY <1>3, <1>5, <2>1
<1>7. r \in Run /\ ~ Saving(r) /\ \A reports : RunIsWell(r, reports)
  BY <1>2, GoesOnIsWell
<1>8. \A u \in Tasks : RunIsWell(task'[u], sessions')
  <2>1. ASSUME NEW u \in Tasks PROVE RunIsWell(task'[u], sessions')
    <3>1. task'[u] = IF u = t THEN r ELSE task[u]
      BY <1>1 DEF SchedInv, RunsInv
    <3>2. RunIsWell(task[u], sessions)
      BY DEF SchedInv, RunsInv
    <3>3. RunIsWell(task[u], sessions')
      BY <1>2, <1>6, <3>2, ReportsKeep
    <3>. QED
      BY <1>7, <3>1, <3>3
  <2>. QED
    BY <2>1
<1>9. Chained(sessions')
  <2>1. ASSUME NEW k \in 1..Len(sessions'), sessions'[k].parent # 0
        PROVE  /\ sessions'[k].parent \in 1..(k - 1)
               /\ sessions'[sessions'[k].parent].m = sessions'[k].m
    <3>1. CASE k = id
      BY <1>3, <1>4, <1>6, <3>1
    <3>2. CASE k # id
      <4>1. k \in 1..Len(sessions) /\ sessions'[k] = sessions[k]
        BY <1>6, <3>2
      <4>2. sessions[k].parent \in 1..(k - 1) /\ sessions[sessions[k].parent].m = sessions[k].m
        BY <2>1, <4>1 DEF SchedInv, RunsInv, Chained
      <4>3. sessions[k].parent \in 1..Len(sessions)
        BY <1>2, <4>1, <4>2
      <4>. QED
        BY <1>6, <4>1, <4>2, <4>3
    <3>. QED
      BY <3>1, <3>2
  <2>. QED
    BY <2>1 DEF Chained
<1>10. Len(sessions') + Cardinality(Savers') <= MaxSessions
  <2>1. /\ Cardinality(Savers') \in Nat /\ Cardinality(Savers') <= Cardinality(Savers)
    BY <1>1, <1>7, SaversMove DEF SchedInv
  <2>2. /\ Cardinality(Savers) \in Nat /\ MaxSessions \in Nat
        /\ Len(sessions) + Cardinality(Savers) <= MaxSessions
    BY SaversAreFew DEF SchedInv, RunsInv, SchedConstants
  <2>. QED
    BY <1>2, <1>6, <2>1, <2>2
<1>11. task' \in [Tasks -> Run \cup {Sched!NoTask}]
  BY <1>1, <1>7 DEF SchedInv, RunsInv
<1>12. RunsInv'
  BY <1>6, <1>8, <1>9, <1>10, <1>11 DEF RunsInv
<1>. QED
  BY <1>1, <1>2, <1>12, OnlyTheRun

\* A run that fails, or whose process dies.
LEMMA RunFailsIsWell ==
    ASSUME SchedConstants, SchedInv, NEW t \in Tasks, Sched!SaveFails(t) \/ Sched!Dies(t)
    PROVE  SchedInv'
<1>1. UNCHANGED <<day, monitor, lock, loop, sessions, edits>> /\ faults' \in 0..MaxFaults
  BY DEF Sched!SaveFails, Sched!Dies, Sched!Fault, SchedInv, MonitorsInv, SchedConstants
<1>2. CASE Sched!SaveFails(t)
  <2>1. /\ task' = [task EXCEPT ![t] = [task[t] EXCEPT !.pc = "reschedule", !.parent = 0, !.id = 0]]
        /\ task[t].pc # "free"
    BY <1>2 DEF Sched!SaveFails, Sched!GoesOn
  <2>2. task[t] \in Run
    BY <2>1, TheRun
  <2>. QED
    BY <1>1, <2>1, <2>2, GoesOnIsWell, RunMoves, OnlyTheRun DEF SchedInv
<1>3. CASE Sched!Dies(t)
  <2>1. task' = [task EXCEPT ![t] = Sched!NoTask]
    BY <1>3 DEF Sched!Dies
  <2>. QED
    BY <1>1, <2>1, NoTaskIsWell, RunMoves, OnlyTheRun DEF SchedInv
<1>. QED
  BY <1>2, <1>3

\* The due time is moved by the interval that the run started with.
LEMMA RescheduleIsWell ==
    ASSUME SchedConstants, SchedInv, NEW t \in Tasks, Sched!Reschedule(t)
    PROVE  SchedInv'
<1>. DEFINE m == task[t].m
            next == day + Sched!FrequencyDelta(task[t].freq)
<1>1. /\ UNCHANGED <<day, lock, loop, sessions, edits, faults>>
      /\ task[t].pc = "reschedule" /\ task' = [task EXCEPT ![t] = Sched!NoTask]
      /\ monitor' = IF monitor[m].exists
                    THEN [monitor EXCEPT ![m] = [monitor[m] EXCEPT !.next = next]]
                    ELSE monitor
  BY DEF Sched!Reschedule
<1>2. task[t] \in Run
  BY <1>1, TheRun
<1>3. m \in Monitors
  BY <1>2 DEF Run
<1>4. next \in 0..LastDay + Weekly
  <2>1. /\ day \in 0..LastDay /\ LastDay \in Nat /\ Daily \in Nat /\ Weekly \in Nat /\ Daily <= Weekly
    BY DEF SchedInv, MonitorsInv, SchedConstants
  <2>2. Sched!FrequencyDelta(task[t].freq) \in 0..Weekly
    BY <2>1 DEF Sched!FrequencyDelta
  <2>. QED
    BY <2>1, <2>2
<1>5. [monitor[m] EXCEPT !.next = next] \in MonitorRow
  BY <1>3, <1>4 DEF SchedInv, MonitorsInv, MonitorRow
<1>6. MonitorsInv'
  <2>1. monitor' \in [Monitors -> MonitorRow]
    BY <1>1, <1>3, <1>5 DEF SchedInv, MonitorsInv
  <2>. QED
    BY <1>1, <2>1 DEF SchedInv, MonitorsInv
<1>7. RunsInv'
  BY <1>1, NoTaskIsWell, RunMoves DEF SchedInv
<1>. QED
  BY <1>1, <1>6, <1>7 DEF SchedInv, TicksInv, SelectorHoldsTheLock

\* It holds at the start.
LEMMA SchedInit == ASSUME SchedConstants, Sched!Init PROVE SchedInv
<1>1. /\ day = 0 /\ monitor = [m \in Monitors |-> Sched!NoRow] /\ lock = NoInstance
      /\ loop = [i \in Instances |-> Sched!Asleep] /\ task = [t \in Tasks |-> Sched!NoTask]
      /\ sessions = <<>> /\ edits = 0 /\ faults = 0
  BY DEF Sched!Init
<1>2. Sched!NoRow \in MonitorRow
  BY DEF Sched!NoRow, MonitorRow, Frequencies, SchedConstants
<1>3. MonitorsInv
  BY <1>1, <1>2 DEF MonitorsInv, SchedConstants
<1>4. TicksInv
  BY <1>1, AsleepIsWell DEF TicksInv, SelectorHoldsTheLock, SchedConstants
<1>5. Savers = {}
  BY <1>1, NoTaskIsWell DEF Savers
<1>6. Len(sessions) = 0 /\ sessions \in Seq(StoredReport) /\ Cardinality(Savers) = 0
  BY <1>1, <1>5, FS_EmptySet
<1>7. RunsInv
  BY <1>1, <1>6, NoTaskIsWell DEF RunsInv, Chained, SchedConstants
<1>. QED
  BY <1>3, <1>4, <1>7 DEF SchedInv

\* Every step, of the owner, a tick or a run.
LEMMA SchedStep ==
    ASSUME SchedConstants, SchedInv, [Sched!Next]_Sched!schedVars
    PROVE  SchedInv'
<1>1. CASE Sched!Next
  <2>1. CASE Sched!NextDay
    BY <2>1, OwnerIsWell
  <2>2. ASSUME NEW m \in Monitors,
               \/ \E freq \in Frequencies : Sched!CreateMonitor(m, freq)
               \/ Sched!UpdateMonitor(m) \/ Sched!DeleteMonitor(m)
               \/ \E t \in Tasks : Sched!TriggerMonitor(m, t)
        PROVE  SchedInv'
    BY <2>2, OwnerIsWell, TriggerIsWell
  <2>3. ASSUME NEW i \in Instances,
               Sched!TickStep(i) \/ Sched!SelectFails(i) \/ Sched!CrashInstance(i)
        PROVE  SchedInv'
    BY <2>3, TickIsWell, StartOneIsWell DEF Sched!TickStep
  <2>4. ASSUME NEW t \in Tasks, Sched!RunStep(t) \/ Sched!SaveFails(t) \/ Sched!Dies(t)
        PROVE  SchedInv'
    BY <2>4, StreamEndsIsWell, ListSessionsIsWell, CreateSessionIsWell, LinkParentIsWell,
       RescheduleIsWell, RunFailsIsWell DEF Sched!RunStep
  <2>. QED
    BY <1>1, <2>1, <2>2, <2>3, <2>4 DEF Sched!Next, Frequencies
<1>2. CASE UNCHANGED Sched!schedVars
  <2>1. UNCHANGED <<day, monitor, lock, loop, task, sessions, edits, faults>>
    BY <1>2 DEF Sched!schedVars
  <2>. QED
    BY <2>1 DEF SchedInv, MonitorsInv, TicksInv, SelectorHoldsTheLock, RunsInv, RunIsWell, Chained,
       Savers
<1>. QED
  BY <1>1, <1>2

\* The invariant says what it is for.
LEMMA SchedInvSuffices ==
    ASSUME SchedConstants, SchedInv
    PROVE  Sched!TypeOK /\ Sched!ParentsAreOlder /\ SelectorHoldsTheLock
<1>1. sessions \in Seq(StoredReport) /\ Len(sessions) \in Nat /\ Len(sessions) <= MaxSessions
  BY SaversAreFew DEF SchedInv, RunsInv, SchedConstants
<1>2. Sched!TypeOK
  <2>1. \A i \in Instances : /\ loop[i].pc \in {"sleep", "select", "unlock", "start"}
                             /\ loop[i].due \subseteq [m : Monitors, freq : Frequencies]
    BY DEF SchedInv, TicksInv, Tick
  <2>2. \A t \in Tasks : task[t] = Sched!NoTask \/ task[t] \in Run
    BY DEF SchedInv, RunsInv
  <2>3. sessions \in Seq([m : Monitors, parent : 0..MaxSessions])
    BY <1>1 DEF StoredReport
  <2>4. MonitorsInv /\ lock \in Instances \cup {NoInstance}
    BY DEF SchedInv, TicksInv
  <2>. QED
    BY <1>1, <2>1, <2>2, <2>3, <2>4 DEF MonitorsInv, MonitorRow, Run, Frequencies, Sched!TypeOK
<1>3. Sched!ParentsAreOlder
  BY <1>1 DEF SchedInv, RunsInv, Chained, Sched!ParentsAreOlder
<1>4. SelectorHoldsTheLock
  BY DEF SchedInv, TicksInv
<1>. QED
  BY <1>2, <1>3, <1>4

\* However ticks of several instances, runs of one monitor, deleted monitors, failures and
\* crashes overlap, the advisory lock is held by the one instance that selects and by
\* nobody that died or failed to, and the reports of a monitor are a chain into the past:
\* each is linked to one of the same query that was stored before it (scheduler.py).
THEOREM ParentsAreOlderCorrect ==
    ASSUME SchedConstants
    PROVE  Sched!Spec => [](Sched!TypeOK /\ Sched!ParentsAreOlder /\ SelectorHoldsTheLock)
<1>1. Sched!Init => SchedInv
  BY SchedInit
<1>2. SchedInv /\ [Sched!Next]_Sched!schedVars => SchedInv'
  BY SchedStep
<1>3. SchedInv => Sched!TypeOK /\ Sched!ParentsAreOlder /\ SelectorHoldsTheLock
  BY SchedInvSuffices
<1>. QED
  BY <1>1, <1>2, <1>3, PTL DEF Sched!Spec
-----------------------------------------------------------------------------
(* A job's clusters hold its attributes *)

\* The instance counts as this module does.
LEMMA ClusterCardinality == \A S : Clusters!Cardinality(S) = Cardinality(S)
BY DEF Clusters!Cardinality, Cardinality

\* The attributes of a campaign, and a label that is none of them.
ClusterLabels == 0..MaxAttribute

\* The rank of an attribute counts the smaller ones.
LEMMA RankCounts ==
    ASSUME NEW C \in SUBSET Int, IsFiniteSet(C), NEW a \in C, NEW b \in C, b < a
    PROVE  /\ Clusters!Rank(a, C) \in Nat /\ Clusters!Rank(b, C) \in Nat
           /\ Clusters!Rank(b, C) < Clusters!Rank(a, C)
<1>. DEFINE upper == {y \in C : y < a}
            lower == {y \in C : y < b}
<1>1. Clusters!Rank(a, C) = Cardinality(upper) /\ Clusters!Rank(b, C) = Cardinality(lower)
  BY ClusterCardinality DEF Clusters!Rank
<1>2. lower \cup {b} \in SUBSET upper /\ b \notin lower /\ upper \in SUBSET C
  <2>1. a \in Int /\ b \in Int /\ \A y \in C : y \in Int
    OBVIOUS
  <2>2. \A y \in C : y < b => y < a
    BY <2>1
  <2>3. ~ (b < b)
    BY <2>1
  <2>. QED
    BY <2>2, <2>3
<1>. HIDE DEF upper, lower
<1>3. IsFiniteSet(upper)
  BY <1>2, FS_Subset
<1>4. IsFiniteSet(lower \cup {b}) /\ Cardinality(lower \cup {b}) <= Cardinality(upper)
  BY <1>2, <1>3, FS_Subset
<1>5. lower \in SUBSET (lower \cup {b})
  OBVIOUS
<1>6. IsFiniteSet(lower)
  BY <1>4, <1>5, FS_Subset
<1>7. Cardinality(lower \cup {b}) = Cardinality(lower) + 1
  BY <1>2, <1>6, FS_AddElement
<1>8. Cardinality(upper) \in Nat /\ Cardinality(lower) \in Nat
  BY <1>3, <1>6, FS_CardinalityType
<1>. QED
  BY <1>1, <1>4, <1>7, <1>8

\* A rank is a number below the size of the set.
LEMMA RankIsBelow ==
    ASSUME NEW C \in SUBSET Int, IsFiniteSet(C), NEW a \in C
    PROVE  /\ Clusters!Rank(a, C) \in Nat /\ Cardinality(C) \in Nat
           /\ Clusters!Rank(a, C) < Cardinality(C)
<1>. DEFINE below == {y \in C : y < a}
<1>1. Clusters!Rank(a, C) = Cardinality(below)
  BY ClusterCardinality DEF Clusters!Rank
<1>2. IsFiniteSet(below) /\ below \subseteq C /\ a \in C \ below
  BY FS_Subset
<1>3. /\ Cardinality(below) \in Nat /\ Cardinality(C) \in Nat
      /\ Cardinality(below) <= Cardinality(C) /\ Cardinality(below) # Cardinality(C)
  <2>1. below # C
    BY <1>2
  <2>2. Cardinality(below) <= Cardinality(C) /\ Cardinality(below) # Cardinality(C)
    BY <1>2, <2>1, FS_Subset
  <2>. QED
    BY <1>2, <2>2, FS_CardinalityType
<1>. HIDE DEF below
<1>. QED
  BY <1>1, <1>3

\* The ranks of a part are MaxSize numbers in a row.
LEMMA PartIsSmall ==
    ASSUME ClusterConstants, NEW C \in SUBSET Int, IsFiniteSet(C), NEW a \in C
    PROVE  /\ Clusters!Part(a, C) \subseteq C /\ a \in Clusters!Part(a, C)
           /\ IsFiniteSet(Clusters!Part(a, C)) /\ Cardinality(Clusters!Part(a, C)) <= MaxSize
<1>. DEFINE part == Clusters!Part(a, C)
            q == Clusters!Rank(a, C) \div MaxSize
            row == (MaxSize * q)..(MaxSize * q + MaxSize - 1)
            f == [b \in part |-> Clusters!Rank(b, C)]
<1>1. part \subseteq C /\ a \in part /\ \A b \in part : Clusters!Rank(b, C) \div MaxSize = q
  BY DEF Clusters!Part
<1>2. IsFiniteSet(part)
  BY <1>1, FS_Subset
<1>3. MaxSize \in Nat /\ MaxSize > 0 /\ q \in Nat /\ MaxSize * q \in Nat
  <2>1. Clusters!Rank(a, C) \in Nat /\ MaxSize \in Nat /\ MaxSize > 0
    BY RankIsBelow DEF ClusterConstants
  <2>2. \A x, m \in Nat : m > 0 => x \div m \in Nat
    OBVIOUS
  <2>3. \A x, m \in Nat : m * x \in Nat
    OBVIOUS
  <2>. QED
    BY <2>1, <2>2, <2>3
<1>4. ASSUME NEW b \in part PROVE f[b] \in row
  <2>1. Clusters!Rank(b, C) \in Nat /\ Clusters!Rank(b, C) \div MaxSize = q
    BY <1>1, RankIsBelow
  <2>2. \A x, m \in Nat : m > 0 => m * (x \div m) <= x /\ x < m * (x \div m) + m
    OBVIOUS
  <2>3. MaxSize * q <= Clusters!Rank(b, C) /\ Clusters!Rank(b, C) < MaxSize * q + MaxSize
    BY <1>3, <2>1, <2>2
  <2>. HIDE DEF q
  <2>. QED
    BY <1>3, <2>1, <2>3
<1>5. \A b, c \in part : f[b] = f[c] => b = c
  <2>1. ASSUME NEW b \in part, NEW c \in part, b # c PROVE f[b] # f[c]
    <3>1. b \in Int /\ c \in Int /\ b \in C /\ c \in C
      BY <1>1
    <3>2. CASE b < c
      BY <3>1, <3>2, RankCounts
    <3>3. CASE c < b
      BY <3>1, <3>3, RankCounts
    <3>. QED
      BY <2>1, <3>1, <3>2, <3>3
  <2>. QED
    BY <2>1
<1>6. f \in Injection(part, row)
  BY <1>4, <1>5 DEF Injection, IsInjective
<1>7. IsFiniteSet(row) /\ Cardinality(row) = MaxSize
  <2>. HIDE DEF q
  <2>1. MaxSize * q \in Int /\ MaxSize * q + MaxSize - 1 \in Int
    BY <1>3
  <2>. DEFINE first == MaxSize * q
  <2>. HIDE DEF first
  <2>2. IsFiniteSet(row)
    BY <2>1, FS_Interval DEF first
  <2>3. Cardinality(row) = IF MaxSize * q > MaxSize * q + MaxSize - 1 THEN 0
                           ELSE (MaxSize * q + MaxSize - 1) - MaxSize * q + 1
    BY <2>1, FS_Interval
  <2>. QED
    BY <1>3, <2>2, <2>3
<1>8. Cardinality(part) <= MaxSize
  BY <1>6, <1>7, FS_Injection
<1>. QED
  BY <1>1, <1>2, <1>8

\* What is cut stays whole.
LEMMA SplitIsWhole ==
    ASSUME ClusterConstants, NEW C \in SUBSET ClusterLabels
    PROVE  /\ UNION Clusters!Split(C) = C
           /\ \A D \in Clusters!Split(C) : IsFiniteSet(D) /\ Cardinality(D) <= MaxSize
<1>1. C \in SUBSET Int /\ IsFiniteSet(C)
  <2>1. IsFiniteSet(ClusterLabels)
    BY FS_Interval DEF ClusterLabels, ClusterConstants
  <2>2. IsFiniteSet(C)
    BY <2>1, FS_Subset
  <2>3. C \in SUBSET Int
    BY DEF ClusterLabels, ClusterConstants
  <2>. QED
    BY <2>2, <2>3
<1>2. ASSUME NEW a \in C
      PROVE  /\ Clusters!Part(a, C) \subseteq C /\ a \in Clusters!Part(a, C)
             /\ IsFiniteSet(Clusters!Part(a, C)) /\ Cardinality(Clusters!Part(a, C)) <= MaxSize
  BY <1>1, PartIsSmall
<1>3. \A D : D \in Clusters!Split(C) <=> \E a \in C : D = Clusters!Part(a, C)
  BY DEF Clusters!Split
<1>. QED
  BY <1>2, <1>3

\* Of no more attributes than are shown to the model all are.
LEMMA FirstIsAll ==
    ASSUME NEW S \in SUBSET Int, IsFiniteSet(S), Limit \in Nat, Cardinality(S) <= Limit
    PROVE  Clusters!First(Limit, S) = S
<1>1. ASSUME NEW a \in S PROVE Clusters!Rank(a, S) < Limit
  <2>1. /\ Clusters!Rank(a, S) \in Nat /\ Cardinality(S) \in Nat
        /\ Clusters!Rank(a, S) < Cardinality(S)
    BY RankIsBelow
  <2>. QED
    BY <2>1
<1>. QED
  BY <1>1 DEF Clusters!First

\* The clusters of an answer of the model, whatever it is: none is too large, and of
\* few enough attributes all are in one.
LEMMA AnswerIsWhole ==
    ASSUME ClusterConstants, NEW new \in SUBSET Clusters!Attributes,
           NEW family \in Clusters!Answers(Clusters!First(Limit, new))
    PROVE  LET records == Clusters!Records(Clusters!ClusterAttributes(new, family))
           IN  /\ \A D \in records : D \subseteq Clusters!Attributes /\ Cardinality(D) <= MaxSize
               /\ Cardinality(new) <= Limit => new \subseteq UNION records
<1>. DEFINE shown == Clusters!First(Limit, new)
            rest == Clusters!Unclustered(shown, family)
            clusters == Clusters!ClusterAttributes(new, family)
            records == Clusters!Records(clusters)
<1>1. /\ Clusters!Attributes = ClusterLabels \ {0} /\ Clusters!Invented = 0
      /\ ClusterLabels \subseteq Int /\ IsFiniteSet(ClusterLabels)
  <2>1. IsFiniteSet(ClusterLabels)
    BY FS_Interval DEF ClusterLabels, ClusterConstants
  <2>2. ClusterLabels \subseteq Int /\ Clusters!Attributes = ClusterLabels \ {0} /\ Clusters!Invented = 0
    BY DEF Clusters!Attributes, Clusters!Invented, ClusterLabels, ClusterConstants
  <2>. QED
    BY <2>1, <2>2
<1>2. shown \subseteq new /\ rest \in SUBSET ClusterLabels
  <2>1. shown \subseteq new
    BY DEF Clusters!First
  <2>2. rest \subseteq shown
    BY DEF Clusters!Unclustered
  <2>. QED
    BY <1>1, <2>1, <2>2
<1>3. \A C \in family : C \in SUBSET ClusterLabels
  <2>1. \A C \in family : C \subseteq shown \cup {Clusters!Invented}
    BY DEF Clusters!Answers, Clusters!kSubset
  <2>2. 0 \in ClusterLabels
    BY DEF ClusterLabels, ClusterConstants
  <2>. QED
    BY <1>1, <1>2, <2>1, <2>2
<1>4. \A D : D \in clusters <=> \/ \E C \in family : D \in Clusters!Split(C)
                                \/ D \in Clusters!Split(rest)
  BY DEF Clusters!ClusterAttributes
<1>5. \A D \in clusters : D \subseteq ClusterLabels /\ IsFiniteSet(D) /\ Cardinality(D) <= MaxSize
  <2>1. ASSUME NEW C \in SUBSET ClusterLabels, NEW D \in Clusters!Split(C)
        PROVE  D \subseteq ClusterLabels /\ IsFiniteSet(D) /\ Cardinality(D) <= MaxSize
    BY <2>1, SplitIsWhole
  <2>. QED
    BY <1>2, <1>3, <1>4, <2>1
<1>6. ASSUME NEW D \in records
      PROVE  D \subseteq Clusters!Attributes /\ Cardinality(D) <= MaxSize
  <2>1. PICK C \in clusters : D = C \ {Clusters!Invented}
    BY DEF Clusters!Records
  <2>2. C \subseteq ClusterLabels /\ IsFiniteSet(C) /\ Cardinality(C) <= MaxSize
    BY <1>5
  <2>3. D \in SUBSET C /\ D \subseteq Clusters!Attributes
    BY <1>1, <2>1, <2>2
  <2>4. Cardinality(D) <= Cardinality(C) /\ Cardinality(D) \in Nat /\ Cardinality(C) \in Nat
    BY <2>2, <2>3, FS_Subset, FS_CardinalityType
  <2>5. MaxSize \in Nat
    BY DEF ClusterConstants
  <2>. QED
    BY <2>2, <2>3, <2>4, <2>5
<1>7. ASSUME Cardinality(new) <= Limit, NEW a \in new PROVE a \in UNION records
  <2>1. new \in SUBSET Int /\ IsFiniteSet(new)
    <3>1. new \in SUBSET ClusterLabels
      BY <1>1
    <3>. QED
      BY <1>1, <3>1, FS_Subset
  <2>2. shown = new
    BY <1>7, <2>1, FirstIsAll DEF ClusterConstants
  <2>3. \/ \E C \in family : a \in C
        \/ a \in rest
    BY <2>2 DEF Clusters!Unclustered
  <2>4. PICK D \in clusters : a \in D
    <3>1. CASE a \in rest
      <4>1. UNION Clusters!Split(rest) = rest
        BY <1>2, SplitIsWhole
      <4>2. PICK D \in Clusters!Split(rest) : a \in D
        BY <3>1, <4>1
      <4>. QED
        BY <1>4, <4>2
    <3>2. ASSUME NEW C \in family, a \in C PROVE \E D \in clusters : a \in D
      <4>1. UNION Clusters!Split(C) = C
        BY <1>3, SplitIsWhole
      <4>2. PICK D \in Clusters!Split(C) : a \in D
        BY <3>2, <4>1
      <4>. QED
        BY <1>4, <4>2
    <3>. QED
      BY <2>3, <3>1, <3>2
  <2>5. a \in D \ {Clusters!Invented}
    BY <1>1, <2>4
  <2>6. D \ {Clusters!Invented} \in records
    BY <2>4, <2>5 DEF Clusters!Records
  <2>. QED
    BY <2>5, <2>6
<1>. QED
  BY <1>6, <1>7

Sized == {C \in SUBSET Clusters!Attributes : Cardinality(C) <= MaxSize}
ClusterJob ==
    [pc : {"idle", "read", "cluster", "save", "returned"}, given : SUBSET Clusters!Attributes,
     existing : SUBSET Sized, toSave : SUBSET Sized, result : SUBSET Sized]

\* What is stored and what is not yet stored hold the job's attributes.
JobCovers(r) ==
    /\ r.pc = "save" /\ Cardinality(r.given) <= Limit =>
         r.given \subseteq UNION (r.result \cup r.toSave)
    /\ r.pc = "returned" /\ Cardinality(r.given) <= Limit => r.given \subseteq UNION r.result

ClustersInv ==
    /\ rows \subseteq Sized /\ faults \in 0..MaxFaults
    /\ job \in [Jobs -> ClusterJob]
    /\ \A j \in Jobs : JobCovers(job[j])

\* A step of one job.
LEMMA ClusterJobMoves ==
    ASSUME ClustersInv, NEW j \in Jobs, NEW r \in ClusterJob, JobCovers(r),
           job' = [job EXCEPT ![j] = r], rows' \subseteq Sized, faults' \in 0..MaxFaults
    PROVE  ClustersInv'
<1>1. \A k \in Jobs : job'[k] = IF k = j THEN r ELSE job[k]
  BY DEF ClustersInv
<1>2. \A k \in Jobs : JobCovers(job'[k])
  BY <1>1 DEF ClustersInv
<1>3. job' \in [Jobs -> ClusterJob]
  BY DEF ClustersInv
<1>. QED
  BY <1>2, <1>3 DEF ClustersInv, JobCovers, Sized, Clusters!Attributes

\* A job that has nothing yet.
LEMMA ClustersIdle ==
    ASSUME NEW given \in SUBSET Clusters!Attributes
    PROVE  /\ Clusters!Idle \in ClusterJob /\ JobCovers(Clusters!Idle)
           /\ [Clusters!Idle EXCEPT !.pc = "read", !.given = given] \in ClusterJob
           /\ JobCovers([Clusters!Idle EXCEPT !.pc = "read", !.given = given])
BY DEF Clusters!Idle, ClusterJob, JobCovers

\* The rows hold every attribute of the job, or there are new ones.
LEMMA ClustersRead ==
    ASSUME ClusterConstants, ClustersInv, NEW j \in Jobs, Clusters!ReadClusters(j)
    PROVE  ClustersInv'
<1>. DEFINE given == job[j].given
            old == {C \cap given : C \in rows} \ {{}}
            done == [job[j] EXCEPT !.pc = "returned", !.result = old]
            ask == [job[j] EXCEPT !.pc = "cluster", !.existing = rows]
<1>1. /\ job[j].pc = "read" /\ UNCHANGED <<rows, faults>>
      /\ job' = [job EXCEPT ![j] = IF Clusters!New(given, rows) = {} THEN done ELSE ask]
  BY DEF Clusters!ReadClusters
<1>2. job[j] \in ClusterJob /\ rows \subseteq Sized /\ faults \in 0..MaxFaults
  BY DEF ClustersInv
<1>3. IsFiniteSet(Clusters!Attributes)
  BY FS_Interval DEF Clusters!Attributes, ClusterConstants
<1>4. old \subseteq Sized
  <2>1. ASSUME NEW C \in rows PROVE C \cap given \in Sized
    <3>1. C \subseteq Clusters!Attributes /\ Cardinality(C) <= MaxSize
      BY <1>2 DEF Sized
    <3>2. IsFiniteSet(C)
      BY <1>3, <3>1, FS_Subset
    <3>3. /\ Cardinality(C \cap given) <= Cardinality(C)
          /\ Cardinality(C \cap given) \in Nat /\ Cardinality(C) \in Nat
      BY <3>2, FS_Subset, FS_CardinalityType
    <3>4. Cardinality(C \cap given) <= MaxSize
      BY <3>1, <3>3 DEF ClusterConstants
    <3>. QED
      BY <3>1, <3>4 DEF Sized
  <2>. QED
    BY <2>1
<1>5. CASE Clusters!New(given, rows) = {}
  <2>1. ASSUME NEW a \in given PROVE a \in UNION old
    <3>1. PICK C \in rows : a \in C
      BY <1>5 DEF Clusters!New
    <3>2. a \in C \cap given /\ C \cap given \in old
      BY <3>1
    <3>. QED
      BY <3>2
  <2>2. done \in ClusterJob
    BY <1>2, <1>4 DEF ClusterJob
  <2>3. done.pc = "returned" /\ done.given = given /\ done.result = old
    BY <1>2 DEF ClusterJob
  <2>4. JobCovers(done)
    BY <2>1, <2>3 DEF JobCovers
  <2>. QED
    BY <1>1, <1>2, <1>5, <2>2, <2>4, ClusterJobMoves
<1>6. CASE Clusters!New(given, rows) # {}
  <2>1. ask \in ClusterJob /\ ask.pc = "cluster"
    BY <1>2 DEF ClusterJob
  <2>2. JobCovers(ask)
    BY <2>1 DEF JobCovers
  <2>. QED
    BY <1>1, <1>2, <1>6, <2>1, <2>2, ClusterJobMoves
<1>. QED
  BY <1>5, <1>6

\* The model groups what is new.
LEMMA ClustersGroup ==
    ASSUME ClusterConstants, ClustersInv, NEW j \in Jobs, Clusters!Cluster(j)
    PROVE  ClustersInv'
<1>. DEFINE given == job[j].given
            existing == job[j].existing
            new == Clusters!New(given, existing)
<1>1. PICK family \in Clusters!Answers(Clusters!First(Limit, new)) :
        job' = [job EXCEPT ![j] =
          [job[j] EXCEPT !.pc = "save",
                         !.toSave = Clusters!Records(Clusters!ClusterAttributes(new, family)),
                         !.result = existing]]
  BY DEF Clusters!Cluster, ClustersInv
<1>. DEFINE records == Clusters!Records(Clusters!ClusterAttributes(new, family))
            r == [job[j] EXCEPT !.pc = "save", !.toSave = records, !.result = existing]
<1>2. /\ job[j] \in ClusterJob /\ given \subseteq Clusters!Attributes
      /\ existing \in SUBSET Sized /\ new \subseteq given
      /\ UNCHANGED <<rows, faults>> /\ rows \subseteq Sized /\ faults \in 0..MaxFaults
  BY DEF ClustersInv, ClusterJob, Clusters!New, Clusters!Cluster
<1>3. /\ \A D \in records : D \subseteq Clusters!Attributes /\ Cardinality(D) <= MaxSize
      /\ Cardinality(new) <= Limit => new \subseteq UNION records
  BY <1>2, AnswerIsWhole
<1>4. records \in SUBSET Sized
  BY <1>3 DEF Sized
<1>. HIDE DEF records
<1>5. r \in ClusterJob /\ r.pc = "save" /\ r.given = given /\ r.toSave = records /\ r.result = existing
  BY <1>2, <1>4 DEF ClusterJob
<1>6. ASSUME Cardinality(given) <= Limit PROVE given \subseteq UNION (existing \cup records)
  <2>0. IsFiniteSet(Clusters!Attributes)
    BY FS_Interval DEF Clusters!Attributes, ClusterConstants
  <2>1. IsFiniteSet(given)
    BY <1>2, <2>0, FS_Subset
  <2>2. /\ Cardinality(new) <= Cardinality(given)
        /\ Cardinality(new) \in Nat /\ Cardinality(given) \in Nat
    BY <1>2, <2>1, FS_Subset, FS_CardinalityType
  <2>3. Cardinality(new) <= Limit
    BY <1>6, <2>2 DEF ClusterConstants
  <2>. QED
    BY <1>3, <2>3 DEF Clusters!New
<1>7. JobCovers(r)
  BY <1>5, <1>6 DEF JobCovers
<1>. QED
  BY <1>1, <1>2, <1>5, <1>7, ClusterJobMoves DEF records

\* A cluster that is saved is in the result.
LEMMA ClustersSave ==
    ASSUME ClustersInv, NEW j \in Jobs, Clusters!SaveOne(j)
    PROVE  ClustersInv'
<1>1. PICK C \in job[j].toSave :
        /\ rows' = rows \cup {C}
        /\ job' = [job EXCEPT ![j] = [job[j] EXCEPT !.toSave = job[j].toSave \ {C},
                                                    !.result = job[j].result \cup {C}]]
  BY DEF Clusters!SaveOne, ClustersInv
<1>. DEFINE r == [job[j] EXCEPT !.toSave = job[j].toSave \ {C}, !.result = job[j].result \cup {C}]
<1>2. /\ job[j].pc = "save" /\ faults' = faults /\ job[j] \in ClusterJob /\ JobCovers(job[j])
      /\ faults \in 0..MaxFaults /\ rows \subseteq Sized
  BY DEF Clusters!SaveOne, ClustersInv
<1>3. C \in Sized /\ job[j].toSave \subseteq Sized /\ job[j].result \subseteq Sized
  BY <1>2 DEF ClusterJob
<1>4. /\ r \in ClusterJob /\ r.pc = "save" /\ r.given = job[j].given
      /\ r.toSave = job[j].toSave \ {C} /\ r.result = job[j].result \cup {C}
  BY <1>2, <1>3 DEF ClusterJob
<1>5. r.result \cup r.toSave = job[j].result \cup job[j].toSave
  BY <1>4
<1>6. JobCovers(r)
  BY <1>2, <1>4, <1>5 DEF JobCovers
<1>. QED
  BY <1>1, <1>2, <1>3, <1>4, <1>6, ClusterJobMoves

\* With everything saved the result is whole.
LEMMA ClustersSaved ==
    ASSUME ClustersInv, NEW j \in Jobs, Clusters!Saved(j)
    PROVE  ClustersInv'
<1>. DEFINE r == [job[j] EXCEPT !.pc = "returned", !.existing = {}]
<1>1. /\ job[j].pc = "save" /\ job[j].toSave = {} /\ UNCHANGED <<rows, faults>>
      /\ job' = [job EXCEPT ![j] = r]
  BY DEF Clusters!Saved
<1>2. /\ job[j] \in ClusterJob /\ JobCovers(job[j]) /\ rows \subseteq Sized /\ faults \in 0..MaxFaults
  BY DEF ClustersInv
<1>3. r \in ClusterJob /\ r.pc = "returned" /\ r.given = job[j].given /\ r.result = job[j].result
  BY <1>2 DEF ClusterJob
<1>4. job[j].result \cup job[j].toSave = job[j].result
  BY <1>1
<1>5. JobCovers(r)
  BY <1>1, <1>2, <1>3, <1>4 DEF JobCovers
<1>. QED
  BY <1>1, <1>2, <1>3, <1>5, ClusterJobMoves

\* Every step of a job.
LEMMA ClustersStep ==
    ASSUME ClusterConstants, ClustersInv, [Clusters!Next]_Clusters!clusterVars
    PROVE  ClustersInv'
<1>1. ASSUME NEW j \in Jobs, NEW given \in SUBSET Clusters!Attributes, Clusters!Ask(j, given)
      PROVE  ClustersInv'
  <2>1. /\ job' = [job EXCEPT ![j] = [Clusters!Idle EXCEPT !.pc = "read", !.given = given]]
        /\ UNCHANGED <<rows, faults>> /\ rows \subseteq Sized /\ faults \in 0..MaxFaults
    BY <1>1 DEF Clusters!Ask, ClustersInv
  <2>. QED
    BY <2>1, ClustersIdle, ClusterJobMoves
<1>2. ASSUME NEW j \in Jobs, Clusters!CallFails(j) PROVE ClustersInv'
  <2>1. /\ job' = [job EXCEPT ![j] = Clusters!Idle] /\ rows' = rows /\ rows \subseteq Sized
        /\ faults' \in 0..MaxFaults
    BY <1>2 DEF Clusters!CallFails, ClustersInv, ClusterConstants
  <2>2. {} \in SUBSET Clusters!Attributes
    OBVIOUS
  <2>. QED
    BY <2>1, <2>2, ClustersIdle, ClusterJobMoves
<1>3. CASE UNCHANGED Clusters!clusterVars
  BY <1>3 DEF Clusters!clusterVars, ClustersInv, JobCovers, Sized, Clusters!Attributes
<1>. QED
  BY <1>1, <1>2, <1>3, ClustersRead, ClustersGroup, ClustersSave, ClustersSaved DEF Clusters!Next

\* Whatever the model answers, whatever rows an earlier failure left and whatever another
\* job of the campaign writes meanwhile, a job is given clusters of at most MaxSize, which
\* hold every attribute it asked about if those are no more than the model is shown
\* (attribute_clustering.py).
THEOREM ClustersCoverCorrect ==
    ASSUME ClusterConstants
    PROVE  Clusters!Spec => [](Clusters!TypeOK /\ Clusters!CallCoversItsAttributes)
<1>1. Clusters!Init => ClustersInv
  <2>. SUFFICES ASSUME Clusters!Init PROVE ClustersInv
    OBVIOUS
  <2>1. rows = {} /\ job = [j \in Jobs |-> Clusters!Idle] /\ faults = 0
    BY DEF Clusters!Init
  <2>2. Clusters!Idle \in ClusterJob /\ JobCovers(Clusters!Idle)
    <3>1. {} \in SUBSET Clusters!Attributes
      OBVIOUS
    <3>. QED
      BY <3>1, ClustersIdle
  <2>. QED
    BY <2>1, <2>2 DEF ClustersInv, ClusterConstants
<1>2. ClustersInv /\ [Clusters!Next]_Clusters!clusterVars => ClustersInv'
  BY ClustersStep
<1>3. ClustersInv => Clusters!TypeOK /\ Clusters!CallCoversItsAttributes
  <2>. SUFFICES ASSUME ClustersInv
                PROVE  Clusters!TypeOK /\ Clusters!CallCoversItsAttributes
    OBVIOUS
  <2>1. Clusters!TypeOK
    <3>1. Sized \subseteq SUBSET Clusters!Attributes
      BY DEF Sized
    <3>2. rows \subseteq SUBSET Clusters!Attributes /\ faults \in 0..MaxFaults
      BY <3>1 DEF ClustersInv
    <3>3. job \in [Jobs -> [pc : {"idle", "read", "cluster", "save", "returned"},
                            given : SUBSET Clusters!Attributes,
                            existing : SUBSET SUBSET Clusters!Attributes,
                            toSave : SUBSET SUBSET Clusters!Attributes,
                            result : SUBSET SUBSET Clusters!Attributes]]
      BY <3>1 DEF ClustersInv, ClusterJob
    <3>. QED
      BY <3>2, <3>3 DEF Clusters!TypeOK
  <2>2. ASSUME NEW j \in Jobs, job[j].pc = "returned"
        PROVE  /\ \A C \in job[j].result : Cardinality(C) <= MaxSize
               /\ Cardinality(job[j].given) <= Limit => job[j].given \subseteq UNION job[j].result
    BY <2>2 DEF ClustersInv, ClusterJob, Sized, JobCovers
  <2>3. Clusters!CallCoversItsAttributes
    BY <2>2, ClusterCardinality DEF Clusters!CallCoversItsAttributes
  <2>. QED
    BY <2>1, <2>3
<1>. QED
  BY <1>1, <1>2, <1>3, PTL DEF Clusters!Spec

-----------------------------------------------------------------------------
(* What goes with a deleted row *)

\* The tables whose rows may be referred to by what does not go with them.
Blocking == {"users", "teams", "comments", "kg_entities", "kg_relationships"}

\* The table a column refers to.
ParentOf(column) ==
    IF column \in {"parent", "root"} THEN "job_queue"
    ELSE IF column \in {"subject", "object"} THEN "kg_entities"
    ELSE IF column \in {"old", "new"} THEN "kg_relationships"
    ELSE column

\* The columns that are cleared when what they refer to goes.
Clearable ==
    {<<"sessions", "sessions">>, <<"comments", "teams">>, <<"campaigns", "teams">>,
     <<"programs", "teams">>, <<"job_queue", "parent">>, <<"job_queue", "root">>,
     <<Schema!History, "teams">>, <<"entity_library", "teams">>,
     <<"attribute_library", "teams">>, <<"kg_entities", "kg_entities">>,
     <<"entity_attribute_knowledge", "teams">>}

CellColumns == {"campaigns", "entities", "attributes"}

\* What is true of each foreign key: whom it may block, what it makes go along, which
\* columns it may leave empty.
PlainKey(k) ==
    /\ k.rule \in {"cascade", "clear", "refuse", "restrict"}
    /\ k.rule \in {"refuse", "restrict"} => k.parent \in Blocking
    /\ k.rule \in {"refuse", "restrict"} /\ k.parent = "comments" =>
         k.rule = "refuse" /\ k.table = "comments" /\ k.column = "comments"
    /\ k.parent = ParentOf(k.column)
    /\ k.rule = "clear" => <<k.table, k.column>> \in Clearable
    /\ <<k.table, k.column>> \in Clearable => k.given = FALSE
CascadesUpwards(k) ==
    k.rule = "cascade" =>
        /\ k.table # "sessions"
        /\ k.table = "comments" => k.column = "sessions"
        /\ k.table \in Blocking \ {"comments"} => k.parent \in Blocking \ {"comments"}
CellKey(k) ==
    /\ k.table = "entity_attribute_assignments" => k.rule = "cascade" /\ k.column \in CellColumns
    /\ k.table = Schema!History /\ k.column \notin CellColumns =>
         k.column = "teams" /\ k.rule = "clear" /\ k.given = FALSE
    /\ k.table = "campaigns" => k.column = "teams"
GoodKey(k) == PlainKey(k) /\ CascadesUpwards(k) /\ CellKey(k)

\* The keys of users, sessions and teams.
LEMMA SharingKeysAreGood == \A k \in Schema!SharingKeys : GoodKey(k)
BY DEF Schema!SharingKeys, Schema!Part, Schema!May, Schema!Must, Schema!Fk, GoodKey, PlainKey,
       CascadesUpwards, CellKey, ParentOf, Blocking, Clearable, CellColumns, Schema!History

\* The keys of comments and notifications.
LEMMA TalkKeysAreGood == \A k \in Schema!TalkKeys : GoodKey(k)
BY DEF Schema!TalkKeys, Schema!Part, Schema!May, Schema!Must, Schema!Fk, GoodKey, PlainKey,
       CascadesUpwards, CellKey, ParentOf, Blocking, Clearable, CellColumns, Schema!History

\* The keys of campaigns and their results.
LEMMA CampaignKeysAreGood == \A k \in Schema!CampaignKeys : GoodKey(k)
BY DEF Schema!CampaignKeys, Schema!Part, Schema!May, Schema!Must, Schema!Fk, GoodKey, PlainKey,
       CascadesUpwards, CellKey, ParentOf, Blocking, Clearable, CellColumns, Schema!History

\* The keys of the queue.
LEMMA QueueKeysAreGood == \A k \in Schema!QueueKeys : GoodKey(k)
BY DEF Schema!QueueKeys, Schema!Part, Schema!May, Schema!Must, Schema!Fk, GoodKey, PlainKey,
       CascadesUpwards, CellKey, ParentOf, Blocking, Clearable, CellColumns, Schema!History

\* The keys of the matrix.
LEMMA MatrixKeysAreGood == \A k \in Schema!MatrixKeys : GoodKey(k)
BY DEF Schema!MatrixKeys, Schema!Part, Schema!May, Schema!Must, Schema!Fk, GoodKey, PlainKey,
       CascadesUpwards, CellKey, ParentOf, Blocking, Clearable, CellColumns, Schema!History

\* The keys of the history of cells.
LEMMA HistoryKeysAreGood == \A k \in Schema!HistoryKeys : GoodKey(k)
BY DEF Schema!HistoryKeys, Schema!Part, Schema!May, Schema!Must, Schema!Fk, GoodKey, PlainKey,
       CascadesUpwards, CellKey, ParentOf, Blocking, Clearable, CellColumns, Schema!History

\* The keys of the libraries.
LEMMA LibraryKeysAreGood == \A k \in Schema!LibraryKeys : GoodKey(k)
BY DEF Schema!LibraryKeys, Schema!Part, Schema!May, Schema!Must, Schema!Fk, GoodKey, PlainKey,
       CascadesUpwards, CellKey, ParentOf, Blocking, Clearable, CellColumns, Schema!History

\* The keys of the knowledge graph.
LEMMA GraphKeysAreGood == \A k \in Schema!GraphKeys : GoodKey(k)
BY DEF Schema!GraphKeys, Schema!Part, Schema!May, Schema!Must, Schema!Fk, GoodKey, PlainKey,
       CascadesUpwards, CellKey, ParentOf, Blocking, Clearable, CellColumns, Schema!History

\* The keys of flags and promotions.
LEMMA ReviewKeysAreGood == \A k \in Schema!ReviewKeys : GoodKey(k)
BY DEF Schema!ReviewKeys, Schema!Part, Schema!May, Schema!Must, Schema!Fk, GoodKey, PlainKey,
       CascadesUpwards, CellKey, ParentOf, Blocking, Clearable, CellColumns, Schema!History

\* The keys of chats.
LEMMA ChatKeysAreGood == \A k \in Schema!ChatKeys : GoodKey(k)
BY DEF Schema!ChatKeys, Schema!Part, Schema!May, Schema!Must, Schema!Fk, GoodKey, PlainKey,
       CascadesUpwards, CellKey, ParentOf, Blocking, Clearable, CellColumns, Schema!History

\* All keys.
LEMMA KeysAreGood == \A k \in Schema!AllKeys : GoodKey(k)
BY SharingKeysAreGood, TalkKeysAreGood, CampaignKeysAreGood, QueueKeysAreGood, MatrixKeysAreGood,
   HistoryKeysAreGood, LibraryKeysAreGood, GraphKeysAreGood, ReviewKeysAreGood, ChatKeysAreGood
   DEF Schema!AllKeys

\* A set of numbers that is not empty has a smallest.
LEMMA SmallestOf ==
    ASSUME NEW U \in SUBSET Nat, U # {}
    PROVE  \E k \in U : \A n \in U : k <= n
<1>1. IsWellFoundedOn(OpToRel(<, Nat), Nat)
  BY NatLessThanWellFounded
<1>2. PICK k \in U : \A n \in U : ~ (<<n, k>> \in OpToRel(<, Nat))
  BY <1>1, WFMin
<1>3. \A n \in U : ~ (n < k)
  BY <1>2 DEF OpToRel
<1>. QED
  BY <1>3

\* f collects from first on, at each number what was there and what adds finds beneath it.
Collects(f, N, first, adds) ==
    f = [n \in 0..N |-> IF n = 0 THEN first ELSE f[n - 1] \cup adds[f[n - 1]]]

\* There is such a function.
LEMMA CollectsExists ==
    ASSUME NEW S, NEW adds \in [SUBSET S -> SUBSET S], NEW first \in SUBSET S, NEW N \in Nat
    PROVE  \E f \in [0..N -> SUBSET S] : Collects(f, N, first, adds)
<1>. DEFINE Short == {n \in Nat : ~ \E f \in [0..n -> SUBSET S] : Collects(f, n, first, adds)}
<1>1. Short = {}
  <2>. SUFFICES ASSUME Short # {} PROVE FALSE
    OBVIOUS
  <2>1. PICK n \in Short : \A m \in Short : n <= m
    <3>1. Short \in SUBSET Nat
      OBVIOUS
    <3>. HIDE DEF Short
    <3>. QED
      BY <3>1, SmallestOf
  <2>2. n # 0
    <3>. DEFINE f == [i \in 0..0 |-> first]
    <3>1. f \in [0..0 -> SUBSET S]
      OBVIOUS
    <3>2. Collects(f, 0, first, adds)
      BY DEF Collects
    <3>. QED
      BY <3>1, <3>2
  <2>3. n \in Nat /\ n - 1 \in Nat /\ n - 1 \notin Short
    BY <2>1, <2>2
  <2>4. PICK f \in [0..(n - 1) -> SUBSET S] : Collects(f, n - 1, first, adds)
    BY <2>3
  <2>. DEFINE g == [i \in 0..n |-> IF i = n THEN f[n - 1] \cup adds[f[n - 1]] ELSE f[i]]
  <2>5. f[n - 1] \in SUBSET S /\ adds[f[n - 1]] \in SUBSET S
    BY <2>3, <2>4
  <2>6. g \in [0..n -> SUBSET S]
    BY <2>3, <2>4, <2>5
  <2>7. ASSUME NEW i \in 0..n
        PROVE  g[i] = IF i = 0 THEN first ELSE g[i - 1] \cup adds[g[i - 1]]
    <3>1. CASE i = n
      <4>1. i # 0 /\ i - 1 \in 0..n /\ i - 1 # n
        BY <2>2, <2>3, <3>1
      <4>2. g[i - 1] = f[n - 1]
        BY <4>1, <3>1
      <4>. QED
        BY <4>1, <4>2, <3>1
    <3>2. CASE i # n
      <4>1. i \in 0..(n - 1)
        BY <2>3, <3>2
      <4>2. g[i] = f[i] /\ i # 0 => i - 1 \in 0..n /\ g[i - 1] = f[i - 1]
        BY <4>1, <2>3, <3>2
      <4>3. f[i] = IF i = 0 THEN first ELSE f[i - 1] \cup adds[f[i - 1]]
        BY <2>4, <4>1 DEF Collects
      <4>4. g[i] = f[i]
        BY <3>2
      <4>. QED
        BY <4>2, <4>3, <4>4
    <3>. QED
      BY <3>1, <3>2
  <2>8. Collects(g, n, first, adds)
    <3>1. g = [i \in 0..n |-> g[i]]
      OBVIOUS
    <3>2. [i \in 0..n |-> g[i]]
            = [i \in 0..n |-> IF i = 0 THEN first ELSE g[i - 1] \cup adds[g[i - 1]]]
      BY <2>7
    <3>. HIDE DEF g
    <3>. QED
      BY <3>1, <3>2 DEF Collects
  <2>. HIDE DEF g
  <2>. QED
    BY <2>1, <2>6, <2>8
<1>. QED
  BY <1>1

\* Induction up to a number, over the set of those for which something is so.
LEMMA UpTo ==
    ASSUME NEW N \in Nat, NEW U, 0 \in U, \A n \in 1..N : n - 1 \in U => n \in U
    PROVE  \A n \in 0..N : n \in U
<1>. DEFINE V == {n \in 0..N : n \notin U}
<1>. SUFFICES ASSUME V # {} PROVE FALSE
  OBVIOUS
<1>1. PICK n \in V : \A m \in V : n <= m
  <2>1. V \in SUBSET Nat
    OBVIOUS
  <2>. HIDE DEF V
  <2>. QED
    BY <2>1, SmallestOf
<1>2. n \in 1..N /\ n - 1 \in 0..N /\ n - 1 \notin V
  BY <1>1
<1>. QED
  BY <1>1, <1>2

\* Cardinality is the same in the instance.
LEMMA SchemaCardinality == \A S : Schema!Cardinality(S) = Cardinality(S)
BY DEF Schema!Cardinality, Cardinality

\* Removed is the least set that holds the row and what is beneath it.
LEMMA RemovedIsLeast ==
    ASSUME IsFiniteSet(Schema!Rows), NEW row \in Schema!Rows
    PROVE  LET gone == Schema!Removed(row) IN
             /\ row \in gone /\ gone \subseteq Schema!Rows /\ Schema!Beneath(gone) \subseteq gone
             /\ \A X \in SUBSET Schema!Rows :
                  row \in X /\ Schema!Beneath(X) \subseteq X => gone \subseteq X
<1>. DEFINE N == Cardinality(Schema!Rows)
            adds == [s \in SUBSET Schema!Rows |-> Schema!Beneath(s)]
            w == CHOOSE within : within = [n \in 0..N |->
                   IF n = 0 THEN {row} ELSE within[n - 1] \cup Schema!Beneath(within[n - 1])]
<1>1. N \in Nat
  BY FS_CardinalityType
<1>2. Schema!Removed(row) = w[N]
  BY SchemaCardinality DEF Schema!Removed
<1>3. \A s, t : s \subseteq t => Schema!Beneath(s) \subseteq Schema!Beneath(t)
  BY DEF Schema!Beneath
<1>4. \A s : Schema!Beneath(s) \subseteq Schema!Rows
  BY DEF Schema!Beneath
<1>5. w = [n \in 0..N |-> IF n = 0 THEN {row} ELSE w[n - 1] \cup Schema!Beneath(w[n - 1])]
  <2>1. adds \in [SUBSET Schema!Rows -> SUBSET Schema!Rows]
    BY <1>4
  <2>2. PICK f \in [0..N -> SUBSET Schema!Rows] : Collects(f, N, {row}, adds)
    <3>1. {row} \in SUBSET Schema!Rows
      OBVIOUS
    <3>. HIDE DEF adds, N
    <3>. QED
      BY <1>1, <2>1, <3>1, CollectsExists
  <2>3. f = [n \in 0..N |-> IF n = 0 THEN {row} ELSE f[n - 1] \cup adds[f[n - 1]]]
    BY <2>2 DEF Collects
  <2>4. \A n \in 0..N : n # 0 => adds[f[n - 1]] = Schema!Beneath(f[n - 1])
    <3>1. \A n \in 0..N : n # 0 => n - 1 \in 0..N
      BY <1>1
    <3>. QED
      BY <2>2, <3>1
  <2>5. f = [n \in 0..N |-> IF n = 0 THEN {row} ELSE f[n - 1] \cup Schema!Beneath(f[n - 1])]
    <3>. HIDE DEF adds, N
    <3>. QED
      BY <2>3, <2>4
  <2>. HIDE DEF adds, N
  <2>. QED
    BY <2>5
<1>. HIDE DEF N, w
<1>6. w[0] = {row}
  <2>1. 0 \in 0..N
    BY <1>1
  <2>. QED
    BY <1>5, <2>1
<1>7. \A n \in 1..N : /\ n \in 0..N /\ n - 1 \in 0..N
                      /\ w[n] = w[n - 1] \cup Schema!Beneath(w[n - 1])
  <2>1. \A n \in 1..N : n \in 0..N /\ n - 1 \in 0..N /\ n # 0
    BY <1>1
  <2>. QED
    BY <1>5, <2>1
<1>8. ASSUME NEW X \in SUBSET Schema!Rows, row \in X, Schema!Beneath(X) \subseteq X
      PROVE  \A n \in 0..N : w[n] \subseteq X
  <2>. DEFINE U == {n \in 0..N : w[n] \subseteq X}
  <2>1. 0 \in U
    BY <1>1, <1>6, <1>8
  <2>2. ASSUME NEW n \in 1..N, n - 1 \in U PROVE n \in U
    <3>1. w[n - 1] \subseteq X
      BY <2>2
    <3>2. Schema!Beneath(w[n - 1]) \subseteq X
      BY <3>1, <1>3, <1>8
    <3>. QED
      BY <1>7, <3>1, <3>2
  <2>3. \A n \in 0..N : n \in U
    <3>. HIDE DEF U
    <3>. QED
      BY <1>1, <2>1, <2>2, UpTo
  <2>. QED
    BY <2>3
<1>9. \A n \in 0..N : w[n] \subseteq Schema!Rows
  BY <1>4, <1>8
<1>10. \A n \in 0..N : row \in w[n]
  <2>. DEFINE U == {n \in 0..N : row \in w[n]}
  <2>1. 0 \in U /\ \A n \in 1..N : n - 1 \in U => n \in U
    BY <1>1, <1>6, <1>7
  <2>2. \A n \in 0..N : n \in U
    <3>. HIDE DEF U
    <3>. QED
      BY <1>1, <2>1, UpTo
  <2>. QED
    BY <2>2
<1>11. \A n \in 0..N : Schema!Beneath(w[n]) \subseteq w[n] \/ Cardinality(w[n]) > n
  <2>. DEFINE U == {n \in 0..N : Schema!Beneath(w[n]) \subseteq w[n] \/ Cardinality(w[n]) > n}
  <2>1. 0 \in U
    <3>1. Cardinality(w[0]) = 1
      BY <1>6, FS_Singleton
    <3>. QED
      BY <1>1, <3>1
  <2>2. ASSUME NEW n \in 1..N, n - 1 \in U PROVE n \in U
    <3>1. n \in 0..N /\ n - 1 \in 0..N /\ w[n] = w[n - 1] \cup Schema!Beneath(w[n - 1])
      BY <1>7
    <3>2. CASE Schema!Beneath(w[n - 1]) \subseteq w[n - 1]
      <4>1. w[n] = w[n - 1]
        BY <3>1, <3>2
      <4>. QED
        BY <3>1, <3>2, <4>1
    <3>3. CASE ~ (Schema!Beneath(w[n - 1]) \subseteq w[n - 1])
      <4>1. Cardinality(w[n - 1]) > n - 1
        BY <2>2, <3>3
      <4>2. IsFiniteSet(w[n])
        BY <1>9, <3>1, FS_Subset
      <4>3. w[n - 1] \subseteq w[n] /\ w[n - 1] # w[n]
        BY <3>1, <3>3
      <4>4. Cardinality(w[n - 1]) \in Nat /\ Cardinality(w[n]) \in Nat
        BY <4>2, <4>3, FS_Subset, FS_CardinalityType
      <4>5. Cardinality(w[n - 1]) < Cardinality(w[n])
        <5>1. w[n - 1] \in SUBSET w[n]
          BY <4>3
        <5>2. /\ Cardinality(w[n - 1]) <= Cardinality(w[n])
              /\ Cardinality(w[n]) # Cardinality(w[n - 1])
          BY <4>2, <4>3, <5>1, FS_Subset
        <5>. QED
          BY <4>4, <5>2
      <4>6. Cardinality(w[n]) > n
        BY <4>1, <4>4, <4>5, <3>1, <1>1
      <4>. QED
        BY <3>1, <4>6
    <3>. QED
      BY <3>2, <3>3
  <2>3. \A n \in 0..N : n \in U
    <3>. HIDE DEF U
    <3>. QED
      BY <1>1, <2>1, <2>2, UpTo
  <2>. QED
    BY <2>3
<1>12. N \in 0..N
  BY <1>1
<1>13. Schema!Beneath(w[N]) \subseteq w[N]
  <2>1. Cardinality(w[N]) <= N
    BY <1>9, <1>12, FS_Subset DEF N
  <2>2. Cardinality(w[N]) \in Nat
    BY <1>9, <1>12, FS_Subset, FS_CardinalityType
  <2>. QED
    BY <1>1, <1>11, <1>12, <2>1, <2>2
<1>. QED
  BY <1>2, <1>8, <1>9, <1>10, <1>12, <1>13

-----------------------------------------------------------------------------
(* Rows stay where their keys allow *)

SchemaInv ==
    /\ IsFiniteSet(Schema!Rows)
    /\ Schema!Rows \subseteq SchemaTables \X (1..2)
    /\ Schema!TypeOK
    /\ Schema!CellsKeepTheirHistory

\* The keys that were worked out are the keys there are.
LEMMA SameKeys == Foreign!AllKeys = Schema!AllKeys
<1>1. \A t, c, p, r, g : Foreign!Fk(t, c, p, r, g) = Schema!Fk(t, c, p, r, g)
  BY DEF Foreign!Fk, Schema!Fk
<1>2. /\ \A t, p : Foreign!Part(t, p) = Schema!Part(t, p)
      /\ \A t, p, r : /\ Foreign!May(t, p, r) = Schema!May(t, p, r)
                      /\ Foreign!Must(t, p, r) = Schema!Must(t, p, r)
  BY <1>1, Zenon DEF Foreign!Part, Schema!Part, Foreign!May, Schema!May, Foreign!Must, Schema!Must
<1>3. Foreign!SharingKeys = Schema!SharingKeys
  BY <1>1, <1>2, Zenon DEF Foreign!SharingKeys, Schema!SharingKeys
<1>4. Foreign!TalkKeys = Schema!TalkKeys
  BY <1>1, <1>2, Zenon DEF Foreign!TalkKeys, Schema!TalkKeys
<1>5. Foreign!CampaignKeys = Schema!CampaignKeys
  BY <1>1, <1>2, Zenon DEF Foreign!CampaignKeys, Schema!CampaignKeys
<1>6. Foreign!QueueKeys = Schema!QueueKeys
  BY <1>1, <1>2, Zenon DEF Foreign!QueueKeys, Schema!QueueKeys
<1>7. Foreign!MatrixKeys = Schema!MatrixKeys
  BY <1>1, <1>2, Zenon DEF Foreign!MatrixKeys, Schema!MatrixKeys
<1>8. Foreign!HistoryKeys = Schema!HistoryKeys
  BY <1>1, <1>2, Zenon DEF Foreign!HistoryKeys, Schema!HistoryKeys
<1>9. Foreign!LibraryKeys = Schema!LibraryKeys
  BY <1>1, <1>2, Zenon DEF Foreign!LibraryKeys, Schema!LibraryKeys
<1>10. Foreign!GraphKeys = Schema!GraphKeys
  BY <1>1, <1>2, Zenon DEF Foreign!GraphKeys, Schema!GraphKeys
<1>11. Foreign!ReviewKeys = Schema!ReviewKeys
  BY <1>1, <1>2, Zenon DEF Foreign!ReviewKeys, Schema!ReviewKeys
<1>12. Foreign!ChatKeys = Schema!ChatKeys
  BY <1>1, <1>2, Zenon DEF Foreign!ChatKeys, Schema!ChatKeys
<1>. QED
  BY <1>3, <1>4, <1>5, <1>6, <1>7, <1>8, <1>9, <1>10, <1>11, <1>12, Zenon
     DEF Foreign!AllKeys, Schema!AllKeys

\* The keys of a table are good, and their columns refer to the parent's rows.
LEMMA KeysOfATable ==
    ASSUME SchemaConstants
    PROVE  /\ \A t \in SchemaTables : Schema!KeysOf(t) = {k \in Schema!AllKeys : k.table = t}
           /\ \A t \in SchemaTables : \A k \in Schema!KeysOf(t) : GoodKey(k) /\ k.table = t
BY KeysAreGood, SameKeys DEF SchemaConstants, Schema!KeysOf, ForeignKeys

\* A row refers to a row of the key's parent.
LEMMA RefersToTheParent ==
    ASSUME SchemaConstants, Schema!TypeOK, NEW r \in Schema!Rows,
           NEW k \in Schema!KeysOf(Schema!Table(r)), rows[r][k.column] \in Schema!Rows,
           Schema!Null \notin Schema!Rows
    PROVE  Schema!Table(rows[r][k.column]) = k.parent
BY DEF Schema!TypeOK, Schema!Choices

\* Null is no row.
LEMMA NullIsNoRow ==
    ASSUME SchemaInv
    PROVE  Schema!Null \notin Schema!Rows
<1>1. \A r \in SchemaTables \X (1..2) : r # <<>>
  OBVIOUS
<1>. QED
  BY <1>1 DEF SchemaInv, Schema!Null

\* A set of tables that no cascade leads into holds what goes with a row of it.
LEMMA GoesWithin ==
    ASSUME SchemaConstants, SchemaInv, NEW row \in Schema!Rows, NEW Away, 
           Schema!Table(row) \notin Away,
           \A k \in Schema!AllKeys : k.rule = "cascade" /\ k.table \in Away => k.parent \in Away
    PROVE  \A r \in Schema!Removed(row) : r \in Schema!Rows /\ Schema!Table(r) \notin Away
<1>. DEFINE X == {r \in Schema!Rows : Schema!Table(r) \notin Away}
<1>1. Schema!Beneath(X) \subseteq X
  <2>. SUFFICES ASSUME NEW r \in Schema!Beneath(X) PROVE r \in X
    OBVIOUS
  <2>1. PICK k \in Schema!KeysOf(Schema!Table(r)) : k.rule = "cascade" /\ rows[r][k.column] \in X
    BY DEF Schema!Beneath
  <2>2. r \in Schema!Rows /\ Schema!Table(r) \in SchemaTables
    BY DEF Schema!Beneath, SchemaInv, Schema!TypeOK
  <2>3. Schema!Table(rows[r][k.column]) = k.parent
    BY <2>1, <2>2, RefersToTheParent, NullIsNoRow DEF SchemaInv
  <2>4. k \in Schema!AllKeys /\ k.table = Schema!Table(r)
    BY <2>2, KeysOfATable
  <2>. QED
    BY <2>1, <2>2, <2>3, <2>4
<1>2. X \in SUBSET Schema!Rows /\ row \in X
  OBVIOUS
<1>3. Schema!Removed(row) \subseteq X
  <2>. HIDE DEF X
  <2>. QED
    BY <1>1, <1>2, RemovedIsLeast DEF SchemaInv
<1>. QED
  BY <1>3

\* What refuses a deletion: a key that blocks, of a row that stays or of a team.
LEMMA Refuses ==
    ASSUME SchemaConstants, SchemaInv, NEW row \in Schema!Rows, Schema!Refused(row)
    PROVE  \E r \in Schema!Rows : \E k \in Schema!KeysOf(Schema!Table(r)) :
             /\ rows[r][k.column] \in Schema!Removed(row)
             /\ Schema!Table(rows[r][k.column]) = k.parent
             /\ k.parent \in Blocking
             /\ k.rule = "restrict" \/ (k.rule = "refuse" /\ r \notin Schema!Removed(row))
<1>1. PICK r \in Schema!Rows : \E k \in Schema!KeysOf(Schema!Table(r)) :
             /\ rows[r][k.column] \in Schema!Removed(row)
             /\ k.rule = "restrict" \/ (k.rule = "refuse" /\ r \notin Schema!Removed(row))
  BY DEF Schema!Refused
<1>2. PICK k \in Schema!KeysOf(Schema!Table(r)) :
             /\ rows[r][k.column] \in Schema!Removed(row)
             /\ k.rule = "restrict" \/ (k.rule = "refuse" /\ r \notin Schema!Removed(row))
  BY <1>1
<1>3. Schema!Removed(row) \subseteq Schema!Rows
  BY RemovedIsLeast DEF SchemaInv
<1>4. Schema!Table(r) \in SchemaTables
  BY DEF SchemaInv, Schema!TypeOK
<1>5. Schema!Table(rows[r][k.column]) = k.parent
  BY <1>2, <1>3, RefersToTheParent, NullIsNoRow DEF SchemaInv
<1>6. k.parent \in Blocking
  BY <1>2, <1>4, KeysOfATable DEF GoodKey, PlainKey
<1>. QED
  BY <1>2, <1>5, <1>6

\* The tables whose rows the endpoints delete without asking.
Easy == Schema!Deletable \ {"teams", "kg_entities", "kg_relationships", "comments", "sessions"}

\* Nothing blocks the deletion of these.
LEMMA EasyIsNotRefused ==
    ASSUME SchemaConstants, SchemaInv, NEW row \in Schema!Rows, Schema!Table(row) \in Easy
    PROVE  ~ Schema!Refused(row)
<1>. DEFINE Away == Blocking \cup {"sessions"}
<1>1. Schema!Table(row) \notin Away
  BY DEF Easy, Schema!Deletable, Blocking
<1>2. \A k \in Schema!AllKeys : k.rule = "cascade" /\ k.table \in Away => k.parent \in Away
  <2>. SUFFICES ASSUME NEW k \in Schema!AllKeys, k.rule = "cascade", k.table \in Away
                PROVE  k.parent \in Away
    OBVIOUS
  <2>1. GoodKey(k)
    BY KeysAreGood
  <2>. QED
    BY <2>1 DEF GoodKey, CascadesUpwards, PlainKey, ParentOf, Blocking
<1>3. \A r \in Schema!Removed(row) : Schema!Table(r) \notin Away
  <2>. HIDE DEF Away
  <2>. QED
    BY <1>1, <1>2, GoesWithin
<1>. QED
  BY <1>3, Refuses

\* Only a comment refuses that a session goes: a reply to one of its own, of another session.
LEMMA OnlyRepliesRefuse ==
    ASSUME SchemaConstants, SchemaInv, NEW row \in Schema!Rows, Schema!Table(row) = "sessions",
           Schema!Refused(row)
    PROVE  \E a, b \in Schema!Rows : /\ Schema!Table(a) = "comments" /\ Schema!Table(b) = "comments"
                                     /\ rows[b].comments = a
                                     /\ rows[a].sessions # rows[b].sessions
<1>. DEFINE gone == Schema!Removed(row)
            Away == Blocking \ {"comments"}
<1>1. PICK b \in Schema!Rows : \E k \in Schema!KeysOf(Schema!Table(b)) :
             /\ rows[b][k.column] \in gone
             /\ Schema!Table(rows[b][k.column]) = k.parent
             /\ k.parent \in Blocking
             /\ k.rule = "restrict" \/ (k.rule = "refuse" /\ b \notin gone)
  BY Refuses
<1>2. PICK k \in Schema!KeysOf(Schema!Table(b)) :
             /\ rows[b][k.column] \in gone
             /\ Schema!Table(rows[b][k.column]) = k.parent
             /\ k.parent \in Blocking
             /\ k.rule = "restrict" \/ (k.rule = "refuse" /\ b \notin gone)
  BY <1>1
<1>3. \A r \in gone : r \in Schema!Rows /\ Schema!Table(r) \notin Away
  <2>1. \A j \in Schema!AllKeys : j.rule = "cascade" /\ j.table \in Away => j.parent \in Away
    BY KeysAreGood DEF GoodKey, CascadesUpwards
  <2>2. Schema!Table(row) \notin Away
    BY DEF Blocking
  <2>. HIDE DEF Away
  <2>. QED
    BY <2>1, <2>2, GoesWithin
<1>4. Schema!Table(b) \in SchemaTables
  BY DEF SchemaInv, Schema!TypeOK
<1>5. k.parent = "comments"
  BY <1>2, <1>3
<1>6. k.rule = "refuse" /\ Schema!Table(b) = "comments" /\ k.column = "comments"
  BY <1>2, <1>4, <1>5, KeysOfATable DEF GoodKey, PlainKey
<1>. DEFINE a == rows[b].comments
<1>7. a \in gone /\ a \in Schema!Rows /\ Schema!Table(a) = "comments" /\ b \notin gone
  BY <1>2, <1>3, <1>5, <1>6
\* Nothing cascades to a comment but its session, and to a session nothing does.
<1>8. \A r \in gone : /\ Schema!Table(r) = "sessions" => r = row
                      /\ Schema!Table(r) = "comments" => rows[r].sessions = row
  <2>. DEFINE X == {r \in Schema!Rows : /\ Schema!Table(r) = "sessions" => r = row
                                        /\ Schema!Table(r) = "comments" => rows[r].sessions = row}
  <2>1. Schema!Beneath(X) \subseteq X
    <3>. SUFFICES ASSUME NEW r \in Schema!Beneath(X) PROVE r \in X
      OBVIOUS
    <3>1. PICK j \in Schema!KeysOf(Schema!Table(r)) : j.rule = "cascade" /\ rows[r][j.column] \in X
      BY DEF Schema!Beneath
    <3>2. r \in Schema!Rows /\ Schema!Table(r) \in SchemaTables
      BY DEF Schema!Beneath, SchemaInv, Schema!TypeOK
    <3>3. Schema!Table(rows[r][j.column]) = j.parent
      BY <3>1, <3>2, RefersToTheParent, NullIsNoRow DEF SchemaInv
    <3>4. GoodKey(j) /\ j.table = Schema!Table(r)
      BY <3>2, KeysOfATable
    <3>5. Schema!Table(r) # "sessions"
      BY <3>1, <3>4 DEF GoodKey, CascadesUpwards
    <3>6. ASSUME Schema!Table(r) = "comments" PROVE rows[r].sessions = row
      <4>1. j.column = "sessions" /\ j.parent = "sessions"
        BY <3>1, <3>4, <3>6 DEF GoodKey, CascadesUpwards, PlainKey, ParentOf
      <4>. QED
        BY <3>1, <3>3, <4>1
    <3>. QED
      BY <3>2, <3>5, <3>6
  <2>2. X \in SUBSET Schema!Rows /\ row \in X
    OBVIOUS
  <2>3. gone \subseteq X
    <3>. HIDE DEF X
    <3>. QED
      BY <2>1, <2>2, RemovedIsLeast DEF SchemaInv
  <2>. QED
    BY <2>3
<1>9. rows[a].sessions = row
  BY <1>7, <1>8
<1>10. ASSUME rows[b].sessions = row PROVE FALSE
  <2>. DEFINE j == Schema!Fk("comments", "sessions", "sessions", "cascade", TRUE)
  <2>1. j \in Schema!AllKeys
    BY DEF Schema!AllKeys, Schema!TalkKeys, Schema!Part, Schema!Fk
  <2>2. j.table = "comments" /\ j.column = "sessions" /\ j.rule = "cascade"
    BY DEF Schema!Fk
  <2>. HIDE DEF j
  <2>3. j \in Schema!KeysOf(Schema!Table(b))
    BY <1>4, <1>6, <2>1, <2>2, KeysOfATable
  <2>4. row \in gone /\ Schema!Beneath(gone) \subseteq gone
    BY RemovedIsLeast DEF SchemaInv
  <2>5. b \in Schema!Beneath(gone)
    BY <1>10, <2>2, <2>3, <2>4 DEF Schema!Beneath
  <2>. QED
    BY <1>7, <2>4, <2>5
<1>. QED
  BY <1>6, <1>7, <1>9, <1>10

\* What the delete endpoints rely on.
LEMMA DeletesSucceedWhere ==
    ASSUME SchemaConstants, SchemaInv
    PROVE  Schema!DeletesSucceed
BY EasyIsNotRefused, OnlyRepliesRefuse DEF Schema!DeletesSucceed, Easy

\* What the columns of a row hold is what some rows hold, each of its key's parent.
WellPlaced(f, t, all) ==
    /\ DOMAIN f = {k.column : k \in Schema!KeysOf(t)}
    /\ \A k \in Schema!KeysOf(t) :
         f[k.column] \in {r \in all : Schema!Table(r) = k.parent}
                         \cup (IF k.given THEN {} ELSE {Schema!Null})

\* Types are what is well placed.
LEMMA TypesArePlaces ==
    Schema!TypeOK <=>
      \A r \in Schema!Rows : /\ Schema!Table(r) \in SchemaTables
                             /\ r[2] \in 1..Schema!Copies(Schema!Table(r))
                             /\ WellPlaced(rows[r], Schema!Table(r), Schema!Rows)
BY DEF Schema!TypeOK, Schema!Choices, WellPlaced

\* New rows leave the others in their place.
LEMMA MoreIsAsGood ==
    ASSUME NEW f, NEW t, NEW all, NEW more, all \subseteq more, WellPlaced(f, t, all)
    PROVE  WellPlaced(f, t, more)
<1>. SUFFICES ASSUME NEW k \in Schema!KeysOf(t)
              PROVE  f[k.column] \in {r \in more : Schema!Table(r) = k.parent}
                         \cup (IF k.given THEN {} ELSE {Schema!Null})
  BY DEF WellPlaced
<1>1. f[k.column] \in {r \in all : Schema!Table(r) = k.parent}
                         \cup (IF k.given THEN {} ELSE {Schema!Null})
  BY DEF WellPlaced
<1>. QED
  BY <1>1

\* A new row is well placed.
LEMMA ColumnsArePlaces ==
    ASSUME NEW t, NEW f \in Schema!Columns(t)
    PROVE  WellPlaced(f, t, Schema!Rows)
BY DEF Schema!Columns, Schema!Choices, WellPlaced

\* The history of a new cell: its campaign, entity and attribute, and the campaign's team.
LEMMA HistoryIsPlaced ==
    ASSUME SchemaConstants, SchemaInv, NEW f \in Schema!Columns("entity_attribute_assignments")
    PROVE  /\ Schema!History \in SchemaTables
           /\ WellPlaced(Schema!HistoryRow(f), Schema!History, Schema!Rows)
           /\ \A c \in DOMAIN f : Schema!HistoryRow(f)[c] = f[c]
<1>. DEFINE cells == "entity_attribute_assignments"
            Is(t, c) == Schema!Fk(t, c, c, "cascade", TRUE)
            teamOf(t) == Schema!Fk(t, "teams", "teams", "clear", FALSE)
            h == Schema!HistoryRow(f)
<1>1. /\ \A c \in CellColumns : Is(cells, c) \in Schema!AllKeys /\ Is(Schema!History, c) \in Schema!AllKeys
      /\ teamOf("campaigns") \in Schema!AllKeys /\ teamOf(Schema!History) \in Schema!AllKeys
  <2>1. \A c \in CellColumns : Is(cells, c) \in Schema!MatrixKeys
    BY DEF CellColumns, Schema!MatrixKeys, Schema!Part
  <2>2. \A c \in CellColumns : Is(Schema!History, c) \in Schema!HistoryKeys
    BY DEF CellColumns, Schema!HistoryKeys, Schema!Part, Schema!History
  <2>3. teamOf("campaigns") \in Schema!CampaignKeys /\ teamOf(Schema!History) \in Schema!HistoryKeys
    BY DEF Schema!CampaignKeys, Schema!HistoryKeys, Schema!May, Schema!History
  <2>. QED
    BY <2>1, <2>2, <2>3 DEF Schema!AllKeys
<1>2. \A t, c : /\ Is(t, c).table = t /\ Is(t, c).column = c /\ Is(t, c).parent = c
                /\ Is(t, c).given = TRUE
                /\ teamOf(t).table = t /\ teamOf(t).column = "teams"
                /\ teamOf(t).parent = "teams" /\ teamOf(t).given = FALSE
  BY DEF Schema!Fk
<1>. HIDE DEF Is, teamOf
<1>3. cells \in SchemaTables /\ Schema!History \in SchemaTables /\ "campaigns" \in SchemaTables
  BY <1>1, <1>2 DEF SchemaConstants, CellColumns
<1>4. \A c \in CellColumns : Is(cells, c) \in Schema!KeysOf(cells)
                             /\ Is(Schema!History, c) \in Schema!KeysOf(Schema!History)
  BY <1>1, <1>2, <1>3, KeysOfATable
<1>5. /\ teamOf("campaigns") \in Schema!KeysOf("campaigns")
      /\ teamOf(Schema!History) \in Schema!KeysOf(Schema!History)
  BY <1>1, <1>2, <1>3, KeysOfATable
<1>6. WellPlaced(f, cells, Schema!Rows)
  BY ColumnsArePlaces
<1>7. \A c \in CellColumns : f[c] \in Schema!Rows /\ Schema!Table(f[c]) = c
  <2>. SUFFICES ASSUME NEW c \in CellColumns PROVE f[c] \in Schema!Rows /\ Schema!Table(f[c]) = c
    OBVIOUS
  <2>1. f[Is(cells, c).column] \in {r \in Schema!Rows : Schema!Table(r) = Is(cells, c).parent}
                                  \cup (IF Is(cells, c).given THEN {} ELSE {Schema!Null})
    BY <1>4, <1>6 DEF WellPlaced
  <2>. QED
    BY <2>1, <1>2
<1>8. DOMAIN f = CellColumns
  <2>1. DOMAIN f = {k.column : k \in Schema!KeysOf(cells)}
    BY <1>6 DEF WellPlaced
  <2>2. \A k \in Schema!KeysOf(cells) : k.column \in CellColumns
    BY <1>3, KeysOfATable DEF GoodKey, CellKey
  <2>. QED
    BY <2>1, <2>2, <1>2, <1>4
<1>9. /\ DOMAIN h = CellColumns \cup {"teams"}
      /\ \A c \in CellColumns : h[c] = f[c]
      /\ h.teams = rows[f.campaigns].teams
  BY DEF Schema!HistoryRow, CellColumns
<1>10. h.teams \in {r \in Schema!Rows : Schema!Table(r) = "teams"} \cup {Schema!Null}
  <2>1. f.campaigns \in Schema!Rows /\ Schema!Table(f.campaigns) = "campaigns"
    BY <1>7 DEF CellColumns
  <2>2. WellPlaced(rows[f.campaigns], "campaigns", Schema!Rows)
    BY <2>1, TypesArePlaces DEF SchemaInv
  <2>3. rows[f.campaigns][teamOf("campaigns").column] \in
           {r \in Schema!Rows : Schema!Table(r) = teamOf("campaigns").parent}
           \cup (IF teamOf("campaigns").given THEN {} ELSE {Schema!Null})
    BY <1>5, <2>2 DEF WellPlaced
  <2>. QED
    BY <1>2, <1>9, <2>3
<1>. HIDE DEF h
<1>11. DOMAIN h = {k.column : k \in Schema!KeysOf(Schema!History)}
  <2>1. \A k \in Schema!KeysOf(Schema!History) : k.column \in CellColumns \cup {"teams"}
    BY <1>3, KeysOfATable DEF GoodKey, CellKey
  <2>. QED
    BY <2>1, <1>2, <1>4, <1>5, <1>9
<1>12. ASSUME NEW k \in Schema!KeysOf(Schema!History)
       PROVE  h[k.column] \in {r \in Schema!Rows : Schema!Table(r) = k.parent}
                              \cup (IF k.given THEN {} ELSE {Schema!Null})
  <2>1. GoodKey(k) /\ k.table = Schema!History
    BY <1>3, KeysOfATable
  <2>2. CASE k.column \in CellColumns
    <3>1. k.parent = k.column
      BY <2>1, <2>2 DEF GoodKey, PlainKey, ParentOf, CellColumns
    <3>. QED
      BY <1>7, <1>9, <2>2, <3>1
  <2>3. CASE k.column \notin CellColumns
    <3>1. k.column = "teams" /\ k.given = FALSE
      BY <2>1, <2>3 DEF GoodKey, CellKey
    <3>2. k.parent = "teams"
      BY <2>1, <3>1 DEF GoodKey, PlainKey, ParentOf
    <3>. QED
      BY <1>10, <3>1, <3>2
  <2>. QED
    BY <2>2, <2>3
<1>13. WellPlaced(h, Schema!History, Schema!Rows)
  BY <1>11, <1>12 DEF WellPlaced
<1>. QED
  BY <1>3, <1>8, <1>9, <1>13 DEF h

\* At first there is no row.
LEMMA SchemaInit == Schema!Init => SchemaInv
<1>. SUFFICES ASSUME Schema!Init PROVE SchemaInv
  OBVIOUS
<1>1. Schema!Rows = {}
  BY DEF Schema!Init, Schema!Rows
<1>. QED
  BY <1>1, FS_EmptySet DEF SchemaInv, Schema!TypeOK, Schema!CellsKeepTheirHistory

\* A row of one copy.
LEMMA OneCell ==
    ASSUME SchemaInv, NEW r \in Schema!Rows, Schema!Table(r) = "entity_attribute_assignments"
    PROVE  r = <<"entity_attribute_assignments", 1>>
<1>1. r \in SchemaTables \X (1..2) /\ r[2] \in 1..1
  BY DEF SchemaInv, Schema!TypeOK, Schema!Copies
<1>. QED
  BY <1>1 DEF Schema!Table

\* A cell and its history have the columns of a cell, and those cascade.
LEMMA CellsHaveColumns ==
    ASSUME SchemaConstants, SchemaInv, NEW r \in Schema!Rows,
           Schema!Table(r) \in {"entity_attribute_assignments", Schema!History}
    PROVE  CellColumns \subseteq DOMAIN rows[r]
<1>. DEFINE key(c) == Schema!Fk(Schema!Table(r), c, c, "cascade", TRUE)
<1>1. \A c \in CellColumns : key(c) \in Schema!AllKeys
  <2>1. CASE Schema!Table(r) = "entity_attribute_assignments"
    <3>1. \A c \in CellColumns : key(c) \in Schema!MatrixKeys
      BY <2>1 DEF CellColumns, Schema!MatrixKeys, Schema!Part
    <3>. QED
      BY <3>1 DEF Schema!AllKeys
  <2>2. CASE Schema!Table(r) = Schema!History
    <3>1. \A c \in CellColumns : key(c) \in Schema!HistoryKeys
      BY <2>2 DEF CellColumns, Schema!HistoryKeys, Schema!Part, Schema!History
    <3>. QED
      BY <3>1 DEF Schema!AllKeys
  <2>. QED
    BY <2>1, <2>2
<1>2. \A c : key(c).table = Schema!Table(r) /\ key(c).column = c
  BY DEF Schema!Fk
<1>. HIDE DEF key
<1>3. Schema!Table(r) \in SchemaTables
  BY DEF SchemaInv, Schema!TypeOK
<1>4. \A c \in CellColumns : key(c) \in Schema!KeysOf(Schema!Table(r))
  BY <1>1, <1>2, <1>3, KeysOfATable
<1>. QED
  BY <1>2, <1>4 DEF SchemaInv, Schema!TypeOK

\* A new row refers to rows there are, and a new cell's history comes with it.
LEMMA InsertKeepsRows ==
    ASSUME SchemaConstants, SchemaInv, NEW t \in SchemaTables, Schema!Insert(t)
    PROVE  SchemaInv'
<1>. DEFINE cells == "entity_attribute_assignments"
            before == <<Schema!History, 1>>
<1>1. PICK n \in 1..Schema!Copies(t), f \in Schema!Columns(t) :
        /\ <<t, n>> \notin Schema!Rows
        /\ rows' = IF t = cells
                     THEN [r \in Schema!Rows \cup {<<t, n>>, before} |->
                             IF r = <<t, n>> THEN f
                             ELSE IF r = before THEN Schema!HistoryRow(f) ELSE rows[r]]
                     ELSE Schema!With(t, f, n)
  BY DEF Schema!Insert
<1>2. n \in 1..2 /\ Schema!Table(<<t, n>>) = t /\ Schema!Table(before) = Schema!History
      /\ <<t, n>>[2] = n /\ before[2] = 1
  BY <1>1 DEF Schema!Copies, Schema!Table
<1>3. t # Schema!History
  BY DEF Schema!Insert
<1>4. \A r \in Schema!Rows : /\ r \in SchemaTables \X (1..2) /\ Schema!Table(r) \in SchemaTables
                             /\ r[2] \in 1..Schema!Copies(Schema!Table(r))
                             /\ WellPlaced(rows[r], Schema!Table(r), Schema!Rows)
  BY TypesArePlaces DEF SchemaInv
<1>5. WellPlaced(f, t, Schema!Rows)
  BY <1>1, ColumnsArePlaces
<1>6. CASE t = cells
  <2>1. /\ Schema!History \in SchemaTables
        /\ WellPlaced(Schema!HistoryRow(f), Schema!History, Schema!Rows)
        /\ \A c \in DOMAIN f : Schema!HistoryRow(f)[c] = f[c]
    BY <1>1, <1>6, HistoryIsPlaced
  <2>2. /\ Schema!Rows' = Schema!Rows \cup {<<t, n>>, before}
        /\ rows' = [r \in Schema!Rows \cup {<<t, n>>, before} |->
                             IF r = <<t, n>> THEN f
                             ELSE IF r = before THEN Schema!HistoryRow(f) ELSE rows[r]]
    BY <1>1, <1>6 DEF Schema!Rows
  <2>3. before # <<t, n>>
    BY <1>2, <1>3
  <2>4. IsFiniteSet(Schema!Rows')
    <3>1. IsFiniteSet(Schema!Rows \cup {<<t, n>>}) 
      BY FS_AddElement DEF SchemaInv
    <3>2. IsFiniteSet((Schema!Rows \cup {<<t, n>>}) \cup {before})
      BY <3>1, FS_AddElement
    <3>. QED
      BY <3>2, <2>2
  <2>5. Schema!Rows' \subseteq SchemaTables \X (1..2)
    BY <1>2, <1>4, <2>1, <2>2
  <2>6. /\ rows'[<<t, n>>] = f /\ rows'[before] = Schema!HistoryRow(f)
        /\ \A r \in Schema!Rows : r # before => rows'[r] = rows[r]
    BY <1>1, <2>2, <2>3
  <2>7. ASSUME NEW r \in Schema!Rows'
        PROVE  /\ Schema!Table(r) \in SchemaTables
               /\ r[2] \in 1..Schema!Copies(Schema!Table(r))
               /\ WellPlaced(rows'[r], Schema!Table(r), Schema!Rows')
    <3>1. CASE r = <<t, n>>
      BY <1>1, <1>2, <1>5, <2>2, <2>6, <3>1, MoreIsAsGood
    <3>2. CASE r = before
      <4>1. 1 \in 1..Schema!Copies(Schema!History)
        BY DEF Schema!Copies
      <4>. QED
        BY <1>2, <2>1, <2>2, <2>6, <3>2, <4>1, MoreIsAsGood
    <3>3. CASE r # <<t, n>> /\ r # before
      BY <1>4, <2>2, <2>6, <3>3, MoreIsAsGood
    <3>. QED
      BY <3>1, <3>2, <3>3
  <2>8. Schema!TypeOK'
    BY <2>7 DEF Schema!TypeOK, Schema!Choices, WellPlaced
  <2>9. Schema!CellsKeepTheirHistory'
    <3>. SUFFICES ASSUME NEW r \in Schema!Rows', Schema!Table(r) = cells
                  PROVE  \E h \in Schema!Rows' : /\ Schema!Table(h) = Schema!History
                                  /\ \A c \in DOMAIN rows'[r] : rows'[h][c] = rows'[r][c]
      BY DEF Schema!CellsKeepTheirHistory, Schema!Rows
    <3>1. n = 1
      BY <1>1, <1>6 DEF Schema!Copies
    <3>2. r = <<t, n>>
      <4>1. r # before
        BY <1>2, <1>3, <1>6
      <4>2. r \notin Schema!Rows
        BY <1>1, <1>6, <3>1, OneCell
      <4>. QED
        BY <2>2, <4>1, <4>2
    <3>. QED
      BY <1>2, <2>1, <2>2, <2>6, <3>2
  <2>. QED
    BY <2>4, <2>5, <2>8, <2>9 DEF SchemaInv, Schema!Rows
<1>7. CASE t # cells
  <2>1. /\ Schema!Rows' = Schema!Rows \cup {<<t, n>>}
        /\ rows' = [r \in Schema!Rows \cup {<<t, n>>} |-> IF r = <<t, n>> THEN f ELSE rows[r]]
    BY <1>1, <1>7 DEF Schema!Rows, Schema!With
  <2>2. IsFiniteSet(Schema!Rows')
    BY <2>1, FS_AddElement DEF SchemaInv
  <2>3. Schema!Rows' \subseteq SchemaTables \X (1..2)
    BY <1>2, <1>4, <2>1
  <2>4. rows'[<<t, n>>] = f /\ \A r \in Schema!Rows : rows'[r] = rows[r]
    BY <1>1, <2>1
  <2>5. ASSUME NEW r \in Schema!Rows'
        PROVE  /\ Schema!Table(r) \in SchemaTables
               /\ r[2] \in 1..Schema!Copies(Schema!Table(r))
               /\ WellPlaced(rows'[r], Schema!Table(r), Schema!Rows')
    <3>1. CASE r = <<t, n>>
      BY <1>1, <1>2, <1>5, <2>1, <2>4, <3>1, MoreIsAsGood
    <3>2. CASE r # <<t, n>>
      BY <1>4, <2>1, <2>4, <3>2, MoreIsAsGood
    <3>. QED
      BY <3>1, <3>2
  <2>6. Schema!TypeOK'
    BY <2>5 DEF Schema!TypeOK, Schema!Choices, WellPlaced
  <2>7. Schema!CellsKeepTheirHistory'
    <3>. SUFFICES ASSUME NEW r \in Schema!Rows', Schema!Table(r) = cells
                  PROVE  \E h \in Schema!Rows' : /\ Schema!Table(h) = Schema!History
                                  /\ \A c \in DOMAIN rows'[r] : rows'[h][c] = rows'[r][c]
      BY DEF Schema!CellsKeepTheirHistory, Schema!Rows
    <3>1. r \in Schema!Rows
      BY <1>2, <1>7, <2>1
    <3>2. PICK h \in Schema!Rows : /\ Schema!Table(h) = Schema!History
                                   /\ \A c \in DOMAIN rows[r] : rows[h][c] = rows[r][c]
      BY <3>1 DEF SchemaInv, Schema!CellsKeepTheirHistory
    <3>. QED
      BY <2>1, <2>4, <3>1, <3>2
  <2>. QED
    BY <2>2, <2>3, <2>6, <2>7 DEF SchemaInv, Schema!Rows
<1>. QED
  BY <1>6, <1>7

\* What referred to a deleted row goes, or is cleared, or the deletion was refused.
LEMMA DeleteKeepsRows ==
    ASSUME SchemaConstants, SchemaInv, NEW row \in Schema!Rows, Schema!Delete(row)
    PROVE  SchemaInv'
<1>. DEFINE gone == Schema!Removed(row)
            cleared(r) == {k.column : k \in {k \in Schema!KeysOf(Schema!Table(r)) :
                                               k.rule = "clear" /\ rows[r][k.column] \in gone}}
<1>1. rows' = [r \in Schema!Rows \ gone |->
                 [c \in DOMAIN rows[r] |-> IF c \in cleared(r) THEN Schema!Null ELSE rows[r][c]]]
  BY DEF Schema!Delete
<1>2. ~ Schema!Refused(row) /\ Schema!Table(row) \in Schema!Deletable
  BY DEF Schema!Delete
<1>3. row \in gone /\ gone \subseteq Schema!Rows /\ Schema!Beneath(gone) \subseteq gone
      /\ \A X \in SUBSET Schema!Rows : row \in X /\ Schema!Beneath(X) \subseteq X => gone \subseteq X
  BY RemovedIsLeast DEF SchemaInv
<1>. HIDE DEF gone
<1>4. \A r \in Schema!Rows : /\ r \in SchemaTables \X (1..2) /\ Schema!Table(r) \in SchemaTables
                             /\ r[2] \in 1..Schema!Copies(Schema!Table(r))
                             /\ WellPlaced(rows[r], Schema!Table(r), Schema!Rows)
  BY TypesArePlaces DEF SchemaInv
<1>5. /\ Schema!Rows' = Schema!Rows \ gone
      /\ \A r \in Schema!Rows' : rows'[r] =
            [c \in DOMAIN rows[r] |-> IF c \in cleared(r) THEN Schema!Null ELSE rows[r][c]]
  BY <1>1 DEF Schema!Rows
<1>6. \A r \in Schema!Rows \ gone : \A k \in Schema!KeysOf(Schema!Table(r)) :
         rows[r][k.column] \in gone => k.rule = "clear"
  <2>. SUFFICES ASSUME NEW r \in Schema!Rows \ gone, NEW k \in Schema!KeysOf(Schema!Table(r)),
                       rows[r][k.column] \in gone
                PROVE  k.rule = "clear"
    OBVIOUS
  <2>1. k.rule # "cascade"
    BY <1>3 DEF Schema!Beneath
  <2>2. k.rule \notin {"refuse", "restrict"}
    BY <1>2 DEF Schema!Refused, gone
  <2>3. k.rule \in {"cascade", "clear", "refuse", "restrict"}
    BY <1>4, KeysOfATable DEF GoodKey, PlainKey
  <2>. QED
    BY <2>1, <2>2, <2>3
<1>7. ASSUME NEW r \in Schema!Rows'
      PROVE  WellPlaced(rows'[r], Schema!Table(r), Schema!Rows')
  <2>1. r \in Schema!Rows \ gone
    BY <1>5
  <2>2. WellPlaced(rows[r], Schema!Table(r), Schema!Rows)
    BY <1>4, <2>1
  <2>3. DOMAIN rows'[r] = {k.column : k \in Schema!KeysOf(Schema!Table(r))}
    BY <1>5, <2>2 DEF WellPlaced
  <2>4. ASSUME NEW k \in Schema!KeysOf(Schema!Table(r))
        PROVE  rows'[r][k.column] \in {s \in Schema!Rows' : Schema!Table(s) = k.parent}
                                       \cup (IF k.given THEN {} ELSE {Schema!Null})
    <3>1. k.column \in DOMAIN rows[r]
      BY <2>2 DEF WellPlaced
    <3>2. rows'[r][k.column] = IF k.column \in cleared(r) THEN Schema!Null ELSE rows[r][k.column]
      <4>1. rows'[r] = [c \in DOMAIN rows[r] |->
                          IF c \in cleared(r) THEN Schema!Null ELSE rows[r][c]]
        BY <1>5
      <4>. DEFINE these == cleared(r)
                  old == rows[r]
                  new == rows'[r]
                  place == k.column
      <4>2. place \in DOMAIN old /\ new = [c \in DOMAIN old |->
                          IF c \in these THEN Schema!Null ELSE old[c]]
        BY <3>1, <4>1
      <4>. HIDE DEF these, old, new, place
      <4>3. new[place] = IF place \in these THEN Schema!Null ELSE old[place]
        BY <4>2
      <4>. QED
        BY <4>3 DEF these, old, new, place
    <3>3. CASE k.column \in cleared(r)
      <4>1. PICK j \in Schema!KeysOf(Schema!Table(r)) : j.rule = "clear" /\ j.column = k.column
        BY <3>3
      <4>2. GoodKey(j) /\ GoodKey(k) /\ j.table = k.table
        BY <1>4, <2>1, KeysOfATable
      <4>3. k.given = FALSE
        BY <4>1, <4>2 DEF GoodKey, PlainKey
      <4>. QED
        BY <3>2, <3>3, <4>3
    <3>4. CASE k.column \notin cleared(r)
      <4>1. rows[r][k.column] \notin gone
        BY <1>6, <2>1, <3>4
      <4>2. rows[r][k.column] \in {s \in Schema!Rows : Schema!Table(s) = k.parent}
                                       \cup (IF k.given THEN {} ELSE {Schema!Null})
        BY <2>2 DEF WellPlaced
      <4>. QED
        BY <1>5, <3>2, <3>4, <4>1, <4>2
    <3>. QED
      BY <3>3, <3>4
  <2>. QED
    BY <2>3, <2>4 DEF WellPlaced
<1>8. Schema!TypeOK'
  <2>1. \A r \in Schema!Rows' : /\ Schema!Table(r) \in SchemaTables
                                /\ r[2] \in 1..Schema!Copies(Schema!Table(r))
    BY <1>4, <1>5
  <2>. QED
    BY <1>7, <2>1 DEF Schema!TypeOK, Schema!Choices, WellPlaced
<1>9. Schema!CellsKeepTheirHistory'
  <2>. DEFINE cells == "entity_attribute_assignments"
  <2>. SUFFICES ASSUME NEW r \in Schema!Rows', Schema!Table(r) = cells
                PROVE  \E h \in Schema!Rows' : /\ Schema!Table(h) = Schema!History
                                /\ \A c \in DOMAIN rows'[r] : rows'[h][c] = rows'[r][c]
    BY DEF Schema!CellsKeepTheirHistory, Schema!Rows
  <2>1. r \in Schema!Rows /\ r \notin gone
    BY <1>5
  <2>2. PICK h \in Schema!Rows : /\ Schema!Table(h) = Schema!History
                                 /\ \A c \in DOMAIN rows[r] : rows[h][c] = rows[r][c]
    BY <2>1 DEF SchemaInv, Schema!CellsKeepTheirHistory
  <2>3. \A k \in Schema!KeysOf(cells) : GoodKey(k) /\ k.table = cells /\ k.rule = "cascade"
                                       /\ k.column \in CellColumns
    BY <1>4, <2>1, KeysOfATable DEF GoodKey, CellKey
  <2>4. DOMAIN rows[r] = {k.column : k \in Schema!KeysOf(cells)}
    BY <1>4, <2>1 DEF WellPlaced
  <2>5. \A c \in DOMAIN rows[r] : c \in CellColumns /\ rows[r][c] \notin gone
    <3>1. \A k \in Schema!KeysOf(cells) : rows[r][k.column] \notin gone
      BY <1>3, <2>1, <2>3 DEF Schema!Beneath
    <3>. QED
      BY <2>3, <2>4, <3>1
\* A history goes only with what its cell refers to, and then the cell goes as well.
  <2>6. h \notin gone
    <3>. SUFFICES ASSUME h \in gone PROVE FALSE
      OBVIOUS
    <3>. DEFINE X == gone \ {h}
    <3>1. h # row
      BY <1>2, <2>2 DEF Schema!Deletable, Schema!History
    <3>2. X \in SUBSET Schema!Rows /\ row \in X
      BY <1>3, <3>1
    <3>3. ~ (Schema!Beneath(X) \subseteq X)
      BY <1>3, <3>2
    <3>4. h \in Schema!Beneath(X)
      BY <1>3, <3>3 DEF Schema!Beneath
    <3>5. PICK k \in Schema!KeysOf(Schema!History) : k.rule = "cascade" /\ rows[h][k.column] \in X
      BY <2>2, <3>4 DEF Schema!Beneath
    <3>6. GoodKey(k) /\ k.table = Schema!History
      BY <1>4, <2>2, KeysOfATable
    <3>7. k.column \in CellColumns
      BY <3>5, <3>6 DEF GoodKey, CellKey
    <3>8. k.column \in DOMAIN rows[r]
      BY <3>7, <2>1, CellsHaveColumns
    <3>. QED
      BY <2>2, <2>5, <3>5, <3>8
  <2>7. h \in Schema!Rows'
    BY <1>5, <2>2, <2>6
  <2>8. \A c \in DOMAIN rows[r] : c \notin cleared(r) /\ c \notin cleared(h)
    <3>1. \A c \in DOMAIN rows[r] : rows[h][c] = rows[r][c] /\ rows[r][c] \notin gone
      BY <2>2, <2>5
    <3>. QED
      BY <3>1
  <2>9. /\ DOMAIN rows'[r] = DOMAIN rows[r]
        /\ \A c \in DOMAIN rows[r] : rows'[r][c] = rows[r][c]
    BY <1>5, <2>8
  <2>10. \A c \in DOMAIN rows[r] : c \in DOMAIN rows[h] => rows'[h][c] = rows[h][c]
    BY <1>5, <2>7, <2>8
  <2>11. \A c \in DOMAIN rows[r] : c \in DOMAIN rows[h]
    BY <2>2, <2>5, CellsHaveColumns
  <2>. QED
    BY <2>2, <2>7, <2>9, <2>10, <2>11
<1>10. IsFiniteSet(Schema!Rows') /\ Schema!Rows' \subseteq SchemaTables \X (1..2)
  BY <1>4, <1>5, FS_Subset DEF SchemaInv
<1>. QED
  BY <1>8, <1>9, <1>10 DEF SchemaInv, Schema!Rows

\* Every step keeps the invariant.
LEMMA SchemaStep ==
    ASSUME SchemaConstants, SchemaInv, [Schema!Next]_rows
    PROVE  SchemaInv'
<1>1. CASE UNCHANGED rows
  <2>1. Schema!Rows' = Schema!Rows
    BY <1>1 DEF Schema!Rows
  <2>2. \A k : Schema!Choices(k)' = Schema!Choices(k)
    BY <2>1 DEF Schema!Choices
  <2>3. Schema!TypeOK'
    BY <1>1, <2>1, <2>2 DEF SchemaInv, Schema!TypeOK
  <2>4. Schema!CellsKeepTheirHistory'
    BY <1>1, <2>1 DEF SchemaInv, Schema!CellsKeepTheirHistory
  <2>. QED
    BY <2>1, <2>3, <2>4 DEF SchemaInv
<1>2. ASSUME NEW t \in SchemaTables, Schema!Insert(t) PROVE SchemaInv'
  BY <1>2, InsertKeepsRows
<1>3. ASSUME NEW row \in Schema!Rows, Schema!Delete(row) PROVE SchemaInv'
  BY <1>3, DeleteKeepsRows
<1>4. ASSUME NEW row \in Schema!Rows, Schema!DeleteFails(row) PROVE SchemaInv'
  BY <1>1, <1>4 DEF Schema!DeleteFails
<1>. QED
  BY <1>1, <1>2, <1>3, <1>4 DEF Schema!Next

\* What the delete endpoints rely on holds for every number of rows: nothing refuses the deletion
\* of a campaign, an entity, a chat and what else they delete without asking; a session refuses
\* only for a reply from another; and a cell keeps its history whatever is deleted.
THEOREM DeletesSucceedCorrect ==
    ASSUME SchemaConstants
    PROVE  Schema!Spec => [](Schema!TypeOK /\ Schema!DeletesSucceed /\ Schema!CellsKeepTheirHistory)
<1>1. Schema!Init => SchemaInv
  BY SchemaInit
<1>2. SchemaInv /\ [Schema!Next]_rows => SchemaInv'
  BY SchemaStep
<1>3. SchemaInv => Schema!TypeOK /\ Schema!DeletesSucceed /\ Schema!CellsKeepTheirHistory
  BY DeletesSucceedWhere DEF SchemaInv
<1>. QED
  BY <1>1, <1>2, <1>3, PTL DEF Schema!Spec
=============================================================================
