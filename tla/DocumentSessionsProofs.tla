----------------------- MODULE DocumentSessionsProofs -----------------------
(***************************************************************************)
(* No upload overwrites another and none is stored twice, for any number of *)
(* uploads, queries, processes, retries and faults.                         *)
(***************************************************************************)
EXTENDS DocumentSessions, TLAPS

-----------------------------------------------------------------------------
(* Type correctness *)

\* The parts of a state the safety of uploads rests on.
Types == /\ doc \in Seq(Documents) /\ pdf \in Seq(Documents) /\ pg \in Seq(Documents)
         /\ version \in Nat /\ known \in BOOLEAN
         /\ memory \in [Procs -> Seq(Documents)]
         /\ task \in [Requests -> Task]
         /\ answer \in [docs : Seq(Documents), by : Queries \cup {NoQuery}]
         /\ registered \in BOOLEAN

\* What history and faults hold.
HistoryTypes ==
  overlapped \subseteq Queries /\ gone \subseteq Documents /\ faults \in Nat

\* Requests and documents of an upload.
LEMMA UploadTypes ==
  /\ Uploads \subseteq Requests /\ Queries \subseteq Requests
  /\ Uploads \subseteq Documents /\ Old \in Documents
BY DEF Requests, Documents

\* The elements of a list of documents are documents.
LEMMA ElemsType == ASSUME NEW s \in Seq(Documents) PROVE Elems(s) \subseteq Documents
BY DEF Elems

\* What a reader finds is a list of documents.
LEMMA ContentType == ASSUME Types PROVE Content \in Seq(Documents)
BY DEF Types, Content

\* Moving a request keeps the types.
LEMMA GotoType ==
  ASSUME Types, NEW r \in Requests, NEW l, Goto(r, l),
         l \in {"getting", "falling", "setting", "storing", "registering"}
                 \cup Appending \cup Ended
  PROVE  task' \in [Requests -> Task]
BY DEF Types, Goto, Task

\* What a request found is a list of documents.
LEMMA FoundType ==
  ASSUME Types, NEW r \in Requests, NEW docs \in Seq(Documents), Found(r, docs)
  PROVE  task' \in [Requests -> Task]
<1>. DEFINE l == IF docs # <<>> THEN IF r \in Uploads THEN "invalidating" ELSE "storing"
                 ELSE IF r \in Uploads THEN "elsewhere" ELSE "ended"
<1>1. task' = [task EXCEPT ![r].docs = docs, ![r].pc = l]
  BY DEF Found
<1>2. l \in {"invalidating", "storing", "elsewhere", "ended"}
  OBVIOUS
<1>. HIDE DEF l
<1>3. task[r] \in Task /\ task' = [task EXCEPT ![r] = [task[r] EXCEPT !.docs = docs, !.pc = l]]
  BY <1>1 DEF Types
<1>4. [task[r] EXCEPT !.docs = docs, !.pc = l] \in Task
  BY <1>2, <1>3 DEF Task, Appending, Ended
<1>. QED
  BY <1>3, <1>4 DEF Types

\* The initial state has the types.
LEMMA TypeInit == Init => TypeOK
<1>. SUFFICES ASSUME Init PROVE TypeOK
  OBVIOUS
<1>1. doc \in Seq(Documents) /\ pdf \in Seq(Documents) /\ pg \in Seq(Documents)
  <2>1. <<>> \in Seq(Documents) /\ <<Old>> \in Seq(Documents)
    BY UploadTypes
  <2>. QED
    BY <2>1 DEF Init
<1>2. task \in [Requests -> Task]
  BY DEF Init, Task
<1>. QED
  BY <1>1, <1>2 DEF Init, TypeOK, NoAnswer

\* The steps common to uploads and queries keep the types.
LEMMA TypeRequest ==
  ASSUME TypeOK, NEW r \in Requests, Arrive(r) \/ Get(r) \/ GetFails(r) \/ GetPg(r)
  PROVE  TypeOK'
<1>. USE DEF store, cache, history, vars
<1>0. Types
  BY DEF TypeOK, Types
<1>1. CASE Arrive(r)
  <2>1. task' \in [Requests -> Task]
    BY <1>0, <1>1, GotoType DEF Arrive, Ended
  <2>2. overlapped' \subseteq Queries
    <3>1. Querying \subseteq Queries /\ (r \notin Uploads => {r} \subseteq Queries)
      BY DEF Querying, Requests
    <3>. QED
      BY <1>1, <3>1 DEF Arrive, TypeOK
  <2>3. faults' \in Nat
    BY <1>1 DEF Arrive, Fault, TypeOK
  <2>. QED
    BY <1>1, <2>1, <2>2, <2>3 DEF Arrive, TypeOK
<1>2. CASE Get(r)
  <2>1. task' \in [Requests -> Task]
    BY <1>0, <1>2, GotoType, FoundType, ContentType DEF Get
  <2>. QED
    BY <1>2, <2>1 DEF Get, TypeOK
<1>3. CASE GetFails(r)
  <2>1. memory[task[r].proc] \in Seq(Documents)
    BY DEF TypeOK, Task
  <2>2. task' \in [Requests -> Task]
    BY <1>0, <1>3, <2>1, GotoType, FoundType DEF GetFails
  <2>. QED
    BY <1>3, <2>2 DEF GetFails, Fault, TypeOK
<1>4. CASE GetPg(r)
  <2>1. task' \in [Requests -> Task]
    <3>1. <<>> \in Seq(Documents) /\ pg \in Seq(Documents)
      BY <1>0 DEF Types
    <3>. QED
      BY <1>0, <1>4, <3>1, FoundType DEF GetPg
  <2>. QED
    BY <1>4, <2>1 DEF GetPg, Fault, TypeOK
<1>. QED
  BY <1>1, <1>2, <1>3, <1>4

\* Reading moves a request to the list it read; both updates are typed.
LEMMA TaskType ==
  ASSUME Types, NEW r \in Requests, NEW v \in Task, task' = [task EXCEPT ![r] = v]
  PROVE  task' \in [Requests -> Task]
BY DEF Types

\* Adding a document to a list, or to a process's list in memory.
LEMMA AppendTypes ==
  ASSUME Types, NEW u \in Uploads
  PROVE  /\ <<u>> \in Seq(Documents)
         /\ \A s \in Seq(Documents) : Append(s, u) \in Seq(Documents)
         /\ task[u] \in Task /\ task[u].docs \in Seq(Documents) /\ task[u].proc \in Procs
         /\ MemoryAppend(u) \in [Procs -> Seq(Documents)]
<1>1. u \in Requests /\ u \in Documents
  BY UploadTypes
<1>2. \A s \in Seq(Documents) : Append(s, u) \in Seq(Documents)
  BY <1>1
<1>3. task[u] \in Task /\ task[u].docs \in Seq(Documents) /\ task[u].proc \in Procs
  BY <1>1 DEF Types, Task
<1>. QED
  BY <1>1, <1>2, <1>3 DEF Types, MemoryAppend

\* The steps of an upload keep the types.
LEMMA TypeUpload == ASSUME TypeOK, NEW u \in Uploads, UploadStep(u) PROVE TypeOK'
<1>. USE DEF store, cache, history, vars
<1>0. Types /\ u \in Requests
  BY UploadTypes DEF TypeOK, Types
<1>. DEFINE T == task' \in [Requests -> Task]
<1>1. CASE Open(u)
  <2>1. T
    BY <1>0, <1>1, GotoType DEF Open
  <2>. QED
    BY <1>1, <2>1 DEF Open, TypeOK
<1>2. CASE Set(u)
  <2>1. <<u>> \in Seq(Documents) /\ task[u] \in Task
    BY <1>0, AppendTypes
  <2>2. task' = [task EXCEPT ![u] = [task[u] EXCEPT !.docs = <<u>>, !.pc = "writing"]]
    BY <1>0, <1>2 DEF Set, Types
  <2>3. [task[u] EXCEPT !.docs = <<u>>, !.pc = "writing"] \in Task
    BY <2>1 DEF Task, Appending
  <2>. QED
    BY <1>0, <1>2, <2>1, <2>2, <2>3, TaskType DEF Set, TypeOK
<1>3. CASE SetFails(u)
  <2>1. T
    BY <1>0, <1>3, GotoType DEF SetFails, Appending
  <2>2. <<u>> \in Seq(Documents) /\ task[u].proc \in Procs
    BY <1>0, AppendTypes
  <2>3. doc' \in Seq(Documents) /\ version' \in Nat
    <3>1. CASE doc' = <<u>> /\ version' = version + 1
      BY <2>2, <3>1 DEF TypeOK
    <3>2. CASE UNCHANGED <<doc, version>>
      BY <3>2 DEF TypeOK
    <3>. QED
      BY <1>3, <3>1, <3>2 DEF SetFails
  <2>4. memory' \in [Procs -> Seq(Documents)]
    BY <1>3, <2>2 DEF SetFails, TypeOK
  <2>. QED
    BY <1>3, <2>1, <2>3, <2>4 DEF SetFails, Fault, TypeOK
<1>4. CASE Invalidate(u)
  <2>1. [task[u] EXCEPT !.pc = "deleting", !.seen = registered] \in Task
    BY <1>0 DEF Types, Task, Appending
  <2>2. task' = [task EXCEPT ![u] = [task[u] EXCEPT !.pc = "deleting", !.seen = registered]]
    BY <1>0, <1>4 DEF Invalidate, Types
  <2>. QED
    BY <1>0, <1>4, <2>1, <2>2, TaskType DEF Invalidate, TypeOK
<1>5. CASE Delete(u)
  <2>1. T
    BY <1>0, <1>5, GotoType DEF Delete, Appending
  <2>2. answer' \in [docs : Seq(Documents), by : Queries \cup {NoQuery}]
    BY <1>5 DEF Delete, TypeOK, NoAnswer
  <2>. QED
    BY <1>5, <2>1, <2>2 DEF Delete, TypeOK
<1>6. CASE InvalidateFails(u)
  <2>1. T
    BY <1>0, <1>6, GotoType DEF InvalidateFails, Appending
  <2>2. /\ answer' \in [docs : Seq(Documents), by : Queries \cup {NoQuery}]
        /\ registered' \in BOOLEAN
    <3>1. NoAnswer \in [docs : Seq(Documents), by : Queries \cup {NoQuery}]
      BY DEF NoAnswer
    <3>2. \/ answer' \in {NoAnswer, answer} /\ registered' = FALSE
          \/ answer' = answer /\ registered' = registered
      BY <1>6 DEF InvalidateFails
    <3>. QED
      BY <3>1, <3>2 DEF TypeOK
  <2>3. /\ overlapped' \subseteq Queries /\ faults' \in Nat
        /\ UNCHANGED <<store, memory, pg, known, gone>>
    BY <1>6 DEF InvalidateFails, Fault, TypeOK
  <2>. QED
    BY <2>1, <2>2, <2>3 DEF TypeOK
<1>7. CASE Watch(u)
  <2>. DEFINE v == [task[u] EXCEPT !.pc = "executing", !.docs = Content,
                                   !.ver = version, !.old = doc = <<>> /\ pdf # <<>>]
  <2>1. v \in Task
    BY <1>0, ContentType DEF Types, Task, Appending
  <2>2. task' = [task EXCEPT ![u] = v]
    BY <1>0, <1>7 DEF Watch, Types
  <2>. HIDE DEF v
  <2>. QED
    BY <1>0, <1>7, <2>1, <2>2, TaskType DEF Watch, TypeOK
<1>8. CASE Exec(u)
  <2>1. doc' \in Seq(Documents) /\ version' \in Nat /\ pdf' \in Seq(Documents)
    BY <1>0, <1>8, AppendTypes DEF Exec, Commit, Types
  <2>2. [task[u] EXCEPT !.pc = "writing", !.docs = doc'] \in Task
    BY <1>0, <2>1 DEF Types, Task, Appending
  <2>3. task' = [task EXCEPT ![u] = [task[u] EXCEPT !.pc = "writing", !.docs = doc']]
    BY <1>0, <1>8 DEF Exec, Types
  <2>. QED
    BY <1>0, <1>8, <2>1, <2>2, <2>3, TaskType DEF Exec, TypeOK
<1>9. CASE Retry(u)
  <2>1. [task[u] EXCEPT !.pc = "watching", !.tries = @ + 1] \in Task
    <3>1. task[u] \in Task /\ task[u].tries + 1 \in Nat
      BY <1>0 DEF Types, Task
    <3>. QED
      BY <3>1 DEF Task, Appending
  <2>2. task' = [task EXCEPT ![u] = [task[u] EXCEPT !.pc = "watching", !.tries = @ + 1]]
    BY <1>0, <1>9 DEF Retry, Types
  <2>. QED
    BY <1>0, <1>9, <2>1, <2>2, TaskType DEF Retry, TypeOK
<1>10. CASE GiveUp(u)
  <2>1. T
    BY <1>0, <1>10, GotoType DEF GiveUp, Appending
  <2>. QED
    BY <1>0, <1>10, <2>1, AppendTypes DEF GiveUp, TypeOK
<1>11. CASE AppendFails(u)
  <2>1. T
    BY <1>0, <1>11, GotoType DEF AppendFails, FallBack, Appending
  <2>2. doc' \in Seq(Documents) /\ version' \in Nat /\ pdf' \in Seq(Documents)
    <3>1. CASE Commit(u)
      BY <1>0, <3>1, AppendTypes DEF Commit, Types
    <3>2. CASE UNCHANGED store
      BY <1>0, <3>2 DEF Types
    <3>. QED
      BY <1>11, <3>1, <3>2 DEF AppendFails
  <2>. QED
    BY <1>0, <1>11, <2>1, <2>2, AppendTypes DEF AppendFails, FallBack, Fault, TypeOK
<1>12. CASE WritePg(u)
  <2>1. T
    BY <1>0, <1>12, GotoType DEF WritePg, Ended
  <2>2. pg' \in Seq(Documents) /\ faults' \in Nat
    BY <1>0, <1>12, AppendTypes DEF WritePg, Fault, TypeOK
  <2>. QED
    BY <1>12, <2>1, <2>2 DEF WritePg, TypeOK
<1>. QED
  BY <1>1, <1>2, <1>3, <1>4, <1>5, <1>6, <1>7, <1>8, <1>9, <1>10, <1>11, <1>12 DEF UploadStep

\* The steps of a query keep the types.
LEMMA TypeQuery == ASSUME TypeOK, NEW q \in Queries, QueryStep(q) PROVE TypeOK'
<1>. USE DEF store, cache, history, vars
<1>0. Types /\ q \in Requests
  BY UploadTypes DEF TypeOK, Types
<1>1. [docs |-> task[q].docs, by |-> q] \in [docs : Seq(Documents), by : Queries \cup {NoQuery}]
  BY <1>0 DEF Types, Task
<1>2. task' \in [Requests -> Task]
  BY <1>0, GotoType DEF QueryStep, Store, Register, StoreFails, Ended
<1>3. CASE Store(q)
  BY <1>1, <1>2, <1>3 DEF Store, TypeOK
<1>4. CASE Register(q)
  BY <1>2, <1>4 DEF Register, Registers, TypeOK
<1>5. CASE StoreFails(q)
  <2>1. answer' \in [docs : Seq(Documents), by : Queries \cup {NoQuery}] /\ registered' \in BOOLEAN
    BY <1>1, <1>5 DEF StoreFails, TypeOK
  <2>. QED
    BY <1>2, <1>5, <2>1 DEF StoreFails, Fault, TypeOK
<1>. QED
  BY <1>3, <1>4, <1>5 DEF QueryStep

\* Expiry and restarts keep the types.
LEMMA TypeEnvironment ==
  ASSUME TypeOK, \/ Expire \/ ExpirePg \/ ExpireAnswer
                 \/ \E p \in Procs : Crash(p)
  PROVE  TypeOK'
<1>. USE DEF store, cache, history, vars
<1>0. Types
  BY DEF TypeOK, Types
<1>1. <<>> \in Seq(Documents) /\ Querying \subseteq Queries
  BY DEF Querying
<1>2. CASE Expire
  <2>1. Elems(Content) \subseteq Documents
    BY <1>0, ContentType, ElemsType
  <2>2. version' \in Nat
    BY <1>2 DEF Expire, TypeOK
  <2>. QED
    BY <1>1, <1>2, <2>1, <2>2 DEF Expire, Fault, TypeOK
<1>3. CASE ExpirePg
  BY <1>1, <1>3 DEF ExpirePg, Fault, TypeOK
<1>4. CASE ExpireAnswer
  BY <1>1, <1>4 DEF ExpireAnswer, NoAnswer, TypeOK
<1>5. ASSUME NEW p \in Procs, Crash(p) PROVE TypeOK'
  <2>1. Elems(memory[p]) \subseteq Documents
    BY ElemsType DEF TypeOK
  <2>2. \A r \in Requests : task'[r] \in Task
    <3>1. \A r \in Requests : [task[r] EXCEPT !.pc = "lost"] \in Task
      BY DEF TypeOK, Task, Ended
    <3>. QED
      BY <1>5, <3>1 DEF Crash, TypeOK
  <2>3. task' \in [Requests -> Task]
    BY <1>5, <2>2 DEF Crash
  <2>4. memory' \in [Procs -> Seq(Documents)]
    BY <1>1, <1>5 DEF Crash, TypeOK
  <2>. QED
    BY <1>1, <1>5, <2>1, <2>3, <2>4 DEF Crash, Fault, TypeOK
<1>. QED
  BY <1>2, <1>3, <1>4, <1>5

\* Every step keeps the types.
LEMMA TypeNext == ASSUME TypeOK, [Next]_vars PROVE TypeOK'
<1>1. CASE UNCHANGED vars
  BY <1>1 DEF TypeOK, vars, store, cache, history
<1>2. CASE Next
  BY <1>2, TypeRequest, TypeUpload, TypeQuery, TypeEnvironment DEF Next
<1>. QED
  BY <1>1, <1>2

\* Every variable of a document session keeps its type.
THEOREM SessionTypes == Spec => []TypeOK
<1>1. Init => TypeOK
  BY TypeInit
<1>2. TypeOK /\ [Next]_vars => TypeOK'
  BY TypeNext
<1>. QED
  BY <1>1, <1>2, PTL DEF Spec

-----------------------------------------------------------------------------
(***************************************************************************)
(* No upload overwrites another, and none is stored twice: the optimistic   *)
(* append of redis_client, for any number of requests, retries and faults.  *)
(***************************************************************************)

-----------------------------------------------------------------------------
(* The inductive invariant of the append *)

\* Nobody knows the session while its first upload writes it.
OpenInv ==
  /\ ~ known => /\ pdf = <<>>
                /\ (\A r \in Requests : task[r].pc = "new") => doc = <<>>
  /\ \A u \in Uploads : task[u].pc = "setting" =>
       ~ known /\ Content = <<>> /\ \A r \in Requests \ {u} : task[r].pc = "new"

\* What an upload read is what Redis holds while WATCH would not notice a change,
\* except that the keys may have expired unnoticed.
WatchInv ==
  \A u \in Uploads : task[u].pc = "executing" =>
    /\ task[u].ver <= version
    /\ task[u].ver = version => Content = <<>> \/ task[u].docs = Content

AppendInv == TypeOK /\ OpenInv /\ WatchInv

\* A request takes a step, other than to open the session.
Moves(r) == /\ task'[r].pc \notin {"new", "setting"}
            /\ task'[r].pc = "executing" =>
                 task'[r].ver = version /\ task'[r].docs = Content /\ UNCHANGED store
            /\ \A s \in Requests \ {r} : task'[s] = task[s]
            /\ task[r].pc # "new" \/ known
            /\ known' \in {known, TRUE}

\* Every step of a request but Open is one.
LEMMA RequestMoves ==
  ASSUME TypeOK, NEW r \in Requests,
         \/ Arrive(r) \/ Get(r) \/ GetFails(r) \/ GetPg(r)
         \/ r \in Uploads /\ UploadStep(r) /\ ~ Open(r)
         \/ r \in Queries /\ QueryStep(r)
  PROVE  Moves(r)
<1>. USE DEF store, cache, history, vars, Goto, Found
<1>0. task \in [Requests -> Task] /\ known \in BOOLEAN
  BY DEF TypeOK
<1>. DEFINE Active == {"getting", "falling", "storing", "registering"} \cup (Appending \ {"executing"}) \cup Ended
            To(v) == task' = [task EXCEPT ![r] = v]
<1>1. ASSUME NEW v, To(v), v.pc \in Active, task[r].pc # "new" \/ known, known' \in {known, TRUE}
      PROVE  Moves(r)
  <2>1. v.pc \notin {"new", "setting", "executing"}
    BY <1>1 DEF Appending, Ended
  <2>. QED
    BY <1>0, <1>1, <2>1 DEF Moves
<1>2. ASSUME NEW l \in Active, Goto(r, l), task[r].pc # "new" \/ known, known' \in {known, TRUE}
      PROVE  Moves(r)
  <2>1. To([task[r] EXCEPT !.pc = l]) /\ [task[r] EXCEPT !.pc = l].pc = l
    BY <1>0, <1>2 DEF Task
  <2>. QED
    BY <1>1, <1>2, <2>1
<1>3. ASSUME NEW docs, Found(r, docs), task[r].pc # "new", known' = known
      PROVE  Moves(r)
  <2>. DEFINE l == IF docs # <<>> THEN IF r \in Uploads THEN "invalidating" ELSE "storing"
                   ELSE IF r \in Uploads THEN "elsewhere" ELSE "ended"
  <2>1. task' = [task EXCEPT ![r].docs = docs, ![r].pc = l] /\ l \in Active
    BY <1>3 DEF Appending, Ended
  <2>. HIDE DEF l
  <2>2. To([task[r] EXCEPT !.docs = docs, !.pc = l])
    BY <1>0, <2>1
  <2>3. [task[r] EXCEPT !.docs = docs, !.pc = l].pc = l
    BY <1>0 DEF Task
  <2>. HIDE DEF Active
  <2>. QED
    BY <1>1, <1>3, <2>1, <2>2, <2>3
<1>4. CASE Arrive(r)
  BY <1>2, <1>4 DEF Arrive, Ended
<1>5. CASE Get(r) \/ GetFails(r) \/ GetPg(r)
  <2>. HIDE DEF Goto, Found, Active
  <2>1. /\ \/ \E docs : Found(r, docs)
           \/ Goto(r, "falling")
        /\ task[r].pc # "new" /\ known' = known
    BY <1>5 DEF Get, GetFails, GetPg
  <2>2. "falling" \in Active
    BY DEF Active
  <2>. QED
    BY <1>2, <1>3, <2>1, <2>2
<1>6. CASE Set(r)
  <2>1. To([task[r] EXCEPT !.docs = doc', !.pc = "writing"])
    BY <1>0, <1>6 DEF Set
  <2>2. [task[r] EXCEPT !.docs = doc', !.pc = "writing"].pc = "writing"
    BY <1>0 DEF Task
  <2>. QED
    BY <1>1, <1>6, <2>1, <2>2 DEF Set, Appending
<1>7. CASE SetFails(r) \/ Delete(r) \/ InvalidateFails(r) \/ GiveUp(r) \/ AppendFails(r)
  <2>. HIDE DEF Goto, Active
  <2>1. /\ Goto(r, "dumping") \/ Goto(r, "watching")
        /\ task[r].pc # "new" /\ known' = known
    BY <1>7 DEF SetFails, Delete, InvalidateFails, GiveUp, AppendFails, FallBack
  <2>2. {"dumping", "watching"} \subseteq Active
    BY DEF Active, Appending
  <2>. QED
    BY <1>2, <2>1, <2>2
<1>8. CASE Invalidate(r)
  <2>1. To([task[r] EXCEPT !.pc = "deleting", !.seen = registered])
    BY <1>0, <1>8 DEF Invalidate
  <2>2. [task[r] EXCEPT !.pc = "deleting", !.seen = registered].pc = "deleting"
    BY <1>0 DEF Task
  <2>. QED
    BY <1>1, <1>8, <2>1, <2>2 DEF Invalidate, Appending
<1>9. CASE Watch(r)
  BY <1>0, <1>9 DEF Watch, Moves, Task
<1>10. CASE Exec(r)
  <2>1. To([task[r] EXCEPT !.pc = "writing", !.docs = doc'])
    BY <1>0, <1>10 DEF Exec
  <2>2. [task[r] EXCEPT !.pc = "writing", !.docs = doc'].pc = "writing"
    BY <1>0 DEF Task
  <2>. QED
    BY <1>1, <1>10, <2>1, <2>2 DEF Exec, Appending
<1>11. CASE Retry(r)
  <2>1. To([task[r] EXCEPT !.pc = "watching", !.tries = @ + 1])
    BY <1>0, <1>11 DEF Retry
  <2>2. [task[r] EXCEPT !.pc = "watching", !.tries = @ + 1].pc = "watching"
    BY <1>0 DEF Task
  <2>. QED
    BY <1>1, <1>11, <2>1, <2>2 DEF Retry, Appending
<1>12. CASE WritePg(r)
  BY <1>2, <1>12 DEF WritePg, Ended
<1>13. CASE QueryStep(r)
  <2>. HIDE DEF Goto, Active
  <2>1. /\ Goto(r, "ended") \/ Goto(r, "registering")
        /\ task[r].pc # "new" /\ known' = known
    BY <1>13 DEF QueryStep, Store, Register, StoreFails
  <2>2. {"ended", "registering"} \subseteq Active
    BY DEF Active, Ended
  <2>. QED
    BY <1>2, <2>1, <2>2
<1>. QED
  BY <1>4, <1>5, <1>6, <1>7, <1>8, <1>9, <1>10, <1>11, <1>12, <1>13 DEF UploadStep

\* A step of a request leaves the keys alone, writes them and moves the version, or
\* is the migration of the former format.
LEMMA RequestWrites ==
  ASSUME TypeOK, NEW r \in Requests,
         \/ Arrive(r) \/ Get(r) \/ GetFails(r) \/ GetPg(r)
         \/ r \in Uploads /\ UploadStep(r)
         \/ r \in Queries /\ QueryStep(r)
  PROVE  \/ UNCHANGED store
         \/ /\ version' = version + 1 /\ pdf' \in {pdf, <<>>}
            /\ \/ task[r].pc = "setting" /\ doc' = <<r>>
               \/ /\ r \in Uploads /\ task[r].pc = "executing" /\ Unchanged(r)
                  /\ doc' = Append(task[r].docs, r)
<1>. USE DEF store, cache, history, vars
<1>1. CASE Arrive(r) \/ Get(r) \/ GetFails(r) \/ GetPg(r)
  BY <1>1 DEF Arrive, Get, GetFails, GetPg
<1>2. CASE Open(r) \/ Invalidate(r) \/ Delete(r) \/ InvalidateFails(r)
  BY <1>2 DEF Open, Invalidate, Delete, InvalidateFails
<1>3. CASE Watch(r) \/ Retry(r) \/ GiveUp(r) \/ WritePg(r)
  BY <1>3 DEF Watch, Retry, GiveUp, WritePg
<1>4. CASE Set(r) \/ SetFails(r)
  BY <1>4 DEF Set, SetFails
<1>5. CASE r \in Uploads /\ (Exec(r) \/ AppendFails(r))
  BY <1>5 DEF Exec, AppendFails, Commit
<1>6. CASE QueryStep(r)
  BY <1>6 DEF QueryStep, Store, Register, StoreFails
<1>. QED
  BY <1>1, <1>2, <1>3, <1>4, <1>5, <1>6 DEF UploadStep

\* The initial state satisfies the invariant.
LEMMA AppendInit == Init => AppendInv
<1>. SUFFICES ASSUME Init PROVE AppendInv
  OBVIOUS
<1>1. \A r \in Requests : task[r].pc = "new"
  BY DEF Init
<1>2. pdf # <<>> => known
  BY DEF Init
<1>. QED
  BY <1>1, <1>2, TypeInit, UploadTypes DEF Init, AppendInv, OpenInv, WatchInv

\* The step that opens the session keeps the invariant: nobody else has begun.
LEMMA OpenKeeps ==
  ASSUME AppendInv, NEW u \in Uploads, Open(u) PROVE OpenInv' /\ WatchInv'
<1>. USE UploadTypes DEF store, cache, history
<1>1. /\ task \in [Requests -> Task] /\ u \in Requests
      /\ task'[u].pc = "setting" /\ \A r \in Requests \ {u} : task'[r].pc = "new"
  BY DEF AppendInv, TypeOK, Open, Goto
<1>2. Content = <<>> /\ pdf = <<>> /\ ~ known
  BY DEF AppendInv, OpenInv, Open, Content
<1>3. Content' = Content /\ pdf' = pdf /\ known' = known /\ doc' = doc
  BY DEF Open, Content
<1>. QED
  BY <1>1, <1>2, <1>3 DEF OpenInv, WatchInv

\* Every other step of a request keeps it.
LEMMA RequestKeeps ==
  ASSUME AppendInv, NEW r \in Requests, Moves(r),
         \/ UNCHANGED store
         \/ /\ version' = version + 1 /\ pdf' \in {pdf, <<>>}
  PROVE  OpenInv' /\ WatchInv'
<1>1. OpenInv'
  <2>1. ~ known' => ~ known /\ pdf' = <<>>
    BY DEF AppendInv, OpenInv, Moves, store, TypeOK
  <2>2. task'[r].pc # "new"
    BY DEF Moves
  <2>3. ASSUME NEW u \in Uploads, task'[u].pc = "setting" PROVE FALSE
    <3>1. u \in Requests /\ u # r
      BY <2>3, UploadTypes DEF Moves
    <3>2. task[u].pc = "setting"
      BY <2>3, <3>1 DEF Moves
    <3>3. ~ known /\ task[r].pc = "new"
      BY <3>1, <3>2 DEF AppendInv, OpenInv
    <3>. QED
      BY <3>3 DEF Moves
  <2>. QED
    BY <2>1, <2>2, <2>3 DEF OpenInv
<1>2. WatchInv'
  <2>. SUFFICES ASSUME NEW u \in Uploads, task'[u].pc = "executing"
                PROVE  /\ task'[u].ver <= version'
                       /\ task'[u].ver = version' => Content' = <<>> \/ task'[u].docs = Content'
    BY DEF WatchInv
  <2>0. u \in Requests /\ version \in Nat /\ task[u].ver \in Nat
    BY UploadTypes DEF AppendInv, TypeOK, Task
  <2>1. CASE u = r
    BY <2>0, <2>1 DEF Moves, store, Content
  <2>2. CASE u # r
    <3>1. task'[u] = task[u]
      BY <2>0, <2>2 DEF Moves
    <3>2. CASE UNCHANGED store
      BY <3>1, <3>2 DEF AppendInv, WatchInv, store, Content
    <3>3. CASE version' = version + 1
      BY <2>0, <3>1, <3>3 DEF AppendInv, WatchInv
    <3>. QED
      BY <3>2, <3>3
  <2>. QED
    BY <2>1, <2>2
<1>. QED
  BY <1>1, <1>2

\* Expiry and restarts keep it: what has expired is nothing anyone can lose.
LEMMA EnvironmentKeeps ==
  ASSUME AppendInv, \/ Expire \/ ExpirePg \/ ExpireAnswer
                    \/ \E p \in Procs : Crash(p)
  PROVE  OpenInv' /\ WatchInv'
<1>. USE DEF store, cache, history
<1>0. version \in Nat /\ task \in [Requests -> Task] /\ Uploads \subseteq Requests
  BY UploadTypes DEF AppendInv, TypeOK
<1>1. CASE Expire
  <2>1. Content' = <<>> /\ doc' = <<>> /\ pdf' = <<>> /\ UNCHANGED <<task, known>>
    BY <1>1 DEF Expire, Content
  <2>2. \A u \in Uploads : task[u].pc = "executing" => task[u].ver <= version'
    BY <1>0, <1>1 DEF Expire, AppendInv, WatchInv, Task
  <2>. QED
    BY <2>1, <2>2 DEF AppendInv, OpenInv, WatchInv
<1>2. CASE ExpirePg \/ ExpireAnswer
  BY <1>2 DEF ExpirePg, ExpireAnswer, AppendInv, OpenInv, WatchInv, Content
<1>3. ASSUME NEW p \in Procs, Crash(p) PROVE OpenInv' /\ WatchInv'
  <2>1. UNCHANGED store /\ known' = known /\ Content' = Content
    BY <1>3 DEF Crash, Content
  <2>2. \A r \in Requests : \/ task'[r] = task[r]
                            \/ task'[r].pc = "lost" /\ task[r].pc # "new"
    BY <1>0, <1>3 DEF Crash, Task
  <2>3. \A r \in Requests : task[r].pc = "new" => task'[r].pc = "new"
    BY <1>0, <1>3 DEF Crash
  <2>. QED
    BY <1>0, <2>1, <2>2, <2>3 DEF AppendInv, OpenInv, WatchInv
<1>. QED
  BY <1>1, <1>2, <1>3

\* Every step keeps the invariant of the append.
LEMMA AppendNext == ASSUME AppendInv, [Next]_vars PROVE AppendInv'
<1>0. TypeOK /\ TypeOK'
  BY TypeNext DEF AppendInv
<1>1. CASE UNCHANGED vars
  BY <1>0, <1>1 DEF AppendInv, OpenInv, WatchInv, Content, vars, store, cache, history
<1>2. ASSUME NEW u \in Uploads, Open(u) PROVE OpenInv' /\ WatchInv'
  BY <1>2, OpenKeeps
<1>3. ASSUME NEW r \in Requests,
             \/ Arrive(r) \/ Get(r) \/ GetFails(r) \/ GetPg(r)
             \/ r \in Uploads /\ UploadStep(r) /\ ~ Open(r)
             \/ r \in Queries /\ QueryStep(r)
      PROVE  OpenInv' /\ WatchInv'
  BY <1>0, <1>3, RequestMoves, RequestWrites, RequestKeeps
<1>. DEFINE Kept == OpenInv' /\ WatchInv'
<1>4. ASSUME \/ Expire \/ ExpirePg \/ ExpireAnswer \/ \E p \in Procs : Crash(p) PROVE Kept
  BY <1>4, EnvironmentKeeps
<1>. HIDE DEF Kept
<1>5. ASSUME NEW r \in Requests, Arrive(r) \/ Get(r) \/ GetFails(r) \/ GetPg(r) PROVE Kept
  BY <1>3, <1>5 DEF Kept
<1>6. ASSUME NEW u \in Uploads, UploadStep(u) PROVE Kept
  <2>1. u \in Requests
    BY UploadTypes
  <2>2. CASE Open(u)
    BY <1>2, <2>2 DEF Kept
  <2>3. CASE ~ Open(u)
    BY <1>3, <1>6, <2>1, <2>3 DEF Kept
  <2>. QED
    BY <2>2, <2>3
<1>7. ASSUME NEW q \in Queries, QueryStep(q) PROVE Kept
  <2>1. q \in Requests
    BY UploadTypes
  <2>. QED
    BY <1>3, <1>7, <2>1 DEF Kept
<1>8. CASE Next
  <2>1. Kept
    BY <1>4, <1>5, <1>6, <1>7, <1>8 DEF Next
  <2>. QED
    BY <1>0, <2>1 DEF AppendInv, Kept
<1>. QED
  BY <1>1, <1>8

\* What Redis holds of a session only grows by one document at the end.
LEMMA StepSurvives ==
  ASSUME AppendInv, [Next]_vars
  PROVE  [\/ Content = <<>> \/ Content' = <<>> \/ Content' = Content
          \/ \E u \in Uploads : Content' = Append(Content, u)]_vars
<1>. DEFINE Grows == \/ Content = <<>> \/ Content' = <<>> \/ Content' = Content
                     \/ \E u \in Uploads : Content' = Append(Content, u)
<1>0. TypeOK
  BY DEF AppendInv
<1>1. CASE UNCHANGED vars
  BY <1>1
<1>2. ASSUME NEW r \in Requests,
             \/ Arrive(r) \/ Get(r) \/ GetFails(r) \/ GetPg(r)
             \/ r \in Uploads /\ UploadStep(r)
             \/ r \in Queries /\ QueryStep(r)
      PROVE  Grows
  <2>1. CASE UNCHANGED store
    BY <2>1 DEF store, Content
  <2>2. CASE r \in Uploads /\ task[r].pc = "setting"
    BY <2>2 DEF AppendInv, OpenInv
  <2>3. CASE /\ r \in Uploads /\ task[r].pc = "executing" /\ Unchanged(r)
             /\ doc' = Append(task[r].docs, r)
    <3>1. Content = <<>> \/ task[r].docs = Content
      BY <2>3 DEF AppendInv, WatchInv, Unchanged
    <3>2. doc' # <<>>
      BY <1>0, <2>3 DEF TypeOK, Task
    <3>. QED
      BY <2>3, <3>1, <3>2 DEF Content
  <2>4. task[r].pc = "setting" /\ ~ UNCHANGED store => r \in Uploads
    BY <1>2 DEF Arrive, Get, GetFails, GetPg, QueryStep, Store, Register, StoreFails, store
  <2>. QED
    BY <1>0, <1>2, <2>1, <2>2, <2>3, <2>4, RequestWrites
<1>3. CASE Expire
  BY <1>3 DEF Expire, Content
<1>4. CASE ExpirePg \/ ExpireAnswer \/ \E p \in Procs : Crash(p)
  BY <1>4 DEF ExpirePg, ExpireAnswer, Crash, Content, store
<1>. QED
  BY <1>1, <1>2, <1>3, <1>4, UploadTypes DEF Next

\* The invariant of the append holds in every state.
LEMMA AppendInvariant == Spec => []AppendInv
BY AppendInit, AppendNext, PTL DEF Spec

\* "concurrent uploads to the same session_key cannot overwrite each other": with
\* any number of them, of retries and of faults.
THEOREM UploadsSurviveCorrect == Spec => UploadsSurvive
<1>1. AppendInv /\ [Next]_vars =>
        [\/ Content = <<>> \/ Content' = <<>> \/ Content' = Content
         \/ \E u \in Uploads : Content' = Append(Content, u)]_vars
  BY StepSurvives
<1>. QED
  BY <1>1, AppendInvariant, PTL DEF Spec, UploadsSurvive

-----------------------------------------------------------------------------
(* No upload is stored twice *)

\* Where an upload has not been stored anywhere yet.
Before == {"new", "getting", "falling", "setting", "elsewhere",
           "invalidating", "deleting", "watching", "executing"}

\* A list with no repetition, and no upload that is yet to be stored.
GoodIn(t, s) ==
  Distinct(s) /\ \A u \in Uploads : t[u].pc \in Before => u \notin Elems(s)

\* Every list is good, those of the requests included.
OnceInv ==
  /\ GoodIn(task, doc) /\ GoodIn(task, pdf) /\ GoodIn(task, pg)
  /\ \A p \in Procs : GoodIn(task, memory[p])
  /\ \A r \in Requests : GoodIn(task, task[r].docs)

\* No step takes an upload back to where it was not stored.
Onward == \A u \in Uploads : task'[u].pc \in Before => task[u].pc \in Before

\* The step of an upload that stores it.
Stores(u) == task[u].pc \in Before /\ task'[u].pc \notin Before

\* A good list stays good.
LEMMA GoodStays ==
  ASSUME Onward, NEW s, GoodIn(task, s) PROVE GoodIn(task', s)
BY DEF Onward, GoodIn

\* A new document makes a good list longer by one.
LEMMA GoodGrows ==
  ASSUME Onward, NEW s \in Seq(Documents), GoodIn(task, s), NEW u \in Uploads, Stores(u)
  PROVE  GoodIn(task', Append(s, u))
<1>1. u \in Documents /\ Append(s, u) \in Seq(Documents) /\ Len(Append(s, u)) = Len(s) + 1
  BY UploadTypes
<1>2. /\ \A i \in 1..Len(s) : Append(s, u)[i] = s[i]
      /\ Append(s, u)[Len(s) + 1] = u
  BY <1>1
<1>3. Elems(Append(s, u)) = Elems(s) \cup {u}
  <2>1. Len(s) \in Nat
    OBVIOUS
  <2>. QED
    BY <1>1, <1>2, <2>1 DEF Elems
<1>4. u \notin Elems(s) /\ Distinct(s)
  BY DEF GoodIn, Stores
<1>5. Distinct(Append(s, u))
  <2>. SUFFICES ASSUME NEW i \in 1..Len(s) + 1, NEW j \in 1..Len(s) + 1,
                       Append(s, u)[i] = Append(s, u)[j]
                PROVE  i = j
    BY <1>1 DEF Distinct
  <2>1. \A k \in 1..Len(s) : s[k] # u
    BY <1>4 DEF Elems
  <2>2. \A k \in 1..Len(s) + 1 : k \in 1..Len(s) \/ k = Len(s) + 1
    BY <1>1
  <2>. QED
    BY <1>2, <1>4, <2>1, <2>2 DEF Distinct
<1>6. \A v \in Uploads : task'[v].pc \in Before => v \notin Elems(Append(s, u))
  BY <1>3 DEF Onward, Stores, GoodIn
<1>. QED
  BY <1>5, <1>6 DEF GoodIn

\* The lists of no and of one document.
LEMMA GoodShort ==
  ASSUME Onward PROVE /\ GoodIn(task', <<>>)
                      /\ \A u \in Uploads : Stores(u) => GoodIn(task', <<u>>)
<1>1. GoodIn(task', <<>>) /\ GoodIn(task, <<>>)
  BY DEF GoodIn, Distinct, Elems
<1>2. ASSUME NEW u \in Uploads, Stores(u) PROVE GoodIn(task', <<u>>)
  <2>1. <<>> \in Seq(Documents) /\ Append(<<>>, u) = <<u>>
    OBVIOUS
  <2>. QED
    BY <1>1, <1>2, <2>1, GoodGrows
<1>. QED
  BY <1>1, <1>2

\* The initial lists are good.
LEMMA OnceInit == Init => OnceInv
<1>. SUFFICES ASSUME Init PROVE OnceInv
  OBVIOUS
<1>1. GoodIn(task, <<>>)
  BY DEF GoodIn, Distinct, Elems
<1>2. GoodIn(task, <<Old>>)
  BY SessionAssumption DEF GoodIn, Distinct, Elems
<1>3. \A r \in Requests : task[r].docs = <<>>
  BY DEF Init
<1>. QED
  BY <1>1, <1>2, <1>3 DEF Init, OnceInv

\* One request moves: the others keep their records.
Only(r) == \A s \in Requests \ {r} : task'[s] = task[s]

\* The steps that only read: a request takes over a good list.
LEMMA OnceReads ==
  ASSUME TypeOK, OnceInv, NEW r \in Requests, Only(r), UNCHANGED <<store, memory, pg>>,
         r \in Uploads => (task'[r].pc \in Before => task[r].pc \in Before),
         \/ task'[r].docs \in {task[r].docs, Content, memory[task[r].proc], pg, <<>>}
  PROVE  OnceInv'
<1>1. Onward
  BY UploadTypes DEF Onward, Only
<1>2. \A p \in Procs : GoodIn(task', memory[p])
  BY <1>1, GoodStays DEF OnceInv
<1>3. GoodIn(task', doc) /\ GoodIn(task', pdf) /\ GoodIn(task', pg)
  BY <1>1, GoodStays DEF OnceInv
<1>4. GoodIn(task', Content)
  BY <1>3 DEF Content
<1>5. \A s \in Requests : GoodIn(task', task[s].docs)
  BY <1>1, GoodStays DEF OnceInv
<1>6. task[r].proc \in Procs
  BY DEF TypeOK, Task
<1>7. GoodIn(task', task'[r].docs)
  BY <1>1, <1>2, <1>3, <1>4, <1>5, <1>6, GoodShort
<1>8. \A s \in Requests : GoodIn(task', task'[s].docs)
  BY <1>5, <1>7 DEF Only
<1>. QED
  BY <1>2, <1>3, <1>8 DEF OnceInv, store

\* Arriving, reading and the whole of a query are such steps.
LEMMA OnceRequest ==
  ASSUME TypeOK, OnceInv, NEW r \in Requests,
         Arrive(r) \/ Get(r) \/ GetFails(r) \/ GetPg(r)
  PROVE  OnceInv'
<1>. USE DEF store, cache, history
<1>0. task \in [Requests -> Task]
  BY DEF TypeOK
<1>1. Only(r) /\ UNCHANGED <<store, memory, pg>>
  BY <1>0 DEF Arrive, Get, GetFails, GetPg, Goto, Found, Only
<1>2. task[r].pc \in Before
  BY DEF Arrive, Get, GetFails, GetPg, Before
<1>3. \/ \E docs \in {Content, memory[task[r].proc], pg, <<>>} : Found(r, docs)
      \/ \E l \in {"ended", "getting", "falling"} : Goto(r, l)
  BY DEF Arrive, Get, GetFails, GetPg
<1>4. ASSUME NEW docs, Found(r, docs) PROVE task'[r].docs = docs
  BY <1>0, <1>4 DEF Found, Task
<1>5. ASSUME NEW l, Goto(r, l) PROVE task'[r].docs = task[r].docs
  BY <1>0, <1>5 DEF Goto, Task
<1>6. task'[r].docs \in {task[r].docs, Content, memory[task[r].proc], pg, <<>>}
  BY <1>3, <1>4, <1>5
<1>. QED
  BY <1>1, <1>2, <1>6, OnceReads

\* A query stores answers, never documents.
LEMMA OnceQuery ==
  ASSUME TypeOK, OnceInv, NEW q \in Queries, QueryStep(q) PROVE OnceInv'
<1>. USE DEF store, cache, history
<1>0. task \in [Requests -> Task] /\ q \in Requests /\ q \notin Uploads
  BY UploadTypes, SessionAssumption DEF TypeOK
<1>1. UNCHANGED <<store, memory, pg>> /\ \E l : Goto(q, l)
  BY DEF QueryStep, Store, Register, StoreFails
<1>2. Only(q) /\ task'[q].docs = task[q].docs
  BY <1>0, <1>1 DEF Goto, Only, Task
<1>. QED
  BY <1>0, <1>1, <1>2, OnceReads

\* Steps of an upload that store nothing.
LEMMA OncePrepares ==
  ASSUME TypeOK, OnceInv, NEW u \in Uploads,
         \/ Open(u) \/ Invalidate(u) \/ Delete(u) \/ InvalidateFails(u)
         \/ Watch(u) \/ Retry(u)
  PROVE  OnceInv'
<1>. USE DEF store, cache, history
<1>0. task \in [Requests -> Task] /\ u \in Requests
  BY UploadTypes DEF TypeOK
<1>1. UNCHANGED <<store, memory, pg>> /\ task[u].pc \in Before
  BY DEF Open, Invalidate, Delete, InvalidateFails, Watch, Retry, Before
<1>2. Only(u) /\ task'[u].docs \in {task[u].docs, Content}
  <2>1. CASE Watch(u)
    BY <1>0, <2>1 DEF Watch, Only, Task
  <2>2. CASE Invalidate(u) \/ Retry(u)
    BY <1>0, <2>2 DEF Invalidate, Retry, Only, Task
  <2>3. CASE Open(u) \/ Delete(u) \/ InvalidateFails(u)
    BY <1>0, <2>3 DEF Open, Delete, InvalidateFails, Goto, Only, Task
  <2>. QED
    BY <2>1, <2>2, <2>3
<1>. QED
  BY <1>0, <1>1, <1>2, OnceReads

\* Steps that store: Redis and memory keep their lists or gain the upload, once.
LEMMA OnceStores ==
  ASSUME TypeOK, OnceInv, NEW u \in Uploads, Only(u), Stores(u), pg' = pg,
         \/ doc' = doc \/ doc' = <<u>> \/ doc' = Append(task[u].docs, u),
         pdf' \in {pdf, <<>>},
         \A p \in Procs : \/ memory'[p] = memory[p] \/ memory'[p] = <<u>>
                          \/ memory'[p] = Append(memory[p], u),
         task'[u].docs \in {task[u].docs, doc'}
  PROVE  OnceInv'
<1>0. u \in Requests /\ task[u].docs \in Seq(Documents)
  BY UploadTypes DEF TypeOK, Task
<1>1. Onward
  BY DEF Onward, Only, Stores, Requests
<1>2. GoodIn(task', pg') /\ GoodIn(task', pdf') /\ GoodIn(task', doc)
  BY <1>1, GoodStays, GoodShort DEF OnceInv
<1>3. \A s \in Requests : GoodIn(task', task[s].docs)
  BY <1>1, GoodStays DEF OnceInv
<1>4. GoodIn(task', doc')
  <2>1. GoodIn(task', <<u>>)
    BY <1>1, GoodShort
  <2>2. GoodIn(task', Append(task[u].docs, u))
    BY <1>0, <1>1, GoodGrows DEF OnceInv
  <2>. QED
    BY <1>2, <2>1, <2>2
<1>5. ASSUME NEW p \in Procs PROVE GoodIn(task', memory'[p])
  <2>1. memory[p] \in Seq(Documents) /\ GoodIn(task, memory[p])
    BY DEF TypeOK, OnceInv
  <2>2. GoodIn(task', <<u>>)
    BY <1>1, GoodShort
  <2>3. GoodIn(task', Append(memory[p], u)) /\ GoodIn(task', memory[p])
    BY <1>1, <2>1, GoodGrows, GoodStays
  <2>. QED
    BY <2>2, <2>3
<1>6. \A s \in Requests : GoodIn(task', task'[s].docs)
  BY <1>3, <1>4 DEF Only
<1>. QED
  BY <1>2, <1>4, <1>5, <1>6 DEF OnceInv

\* The storing steps are those: each stores its upload and leaves Before.
LEMMA OnceUpload ==
  ASSUME TypeOK, OnceInv, NEW u \in Uploads,
         Set(u) \/ SetFails(u) \/ Exec(u) \/ GiveUp(u) \/ AppendFails(u)
  PROVE  OnceInv'
<1>. USE DEF store, cache, history
<1>0. task \in [Requests -> Task] /\ u \in Requests
  BY UploadTypes DEF TypeOK
<1>1. Only(u) /\ task'[u].pc \in {"writing", "dumping"} /\ task'[u].docs \in {task[u].docs, doc'}
  <2>1. CASE Set(u) \/ Exec(u)
    BY <1>0, <2>1 DEF Set, Exec, Only, Task
  <2>2. CASE SetFails(u) \/ GiveUp(u) \/ AppendFails(u)
    <3>1. Goto(u, "dumping")
      BY <2>2 DEF SetFails, GiveUp, AppendFails, FallBack
    <3>. QED
      BY <1>0, <3>1 DEF Goto, Only, Task
  <2>. QED
    BY <2>1, <2>2
<1>2. Stores(u)
  BY <1>1 DEF Stores, Before, Set, SetFails, Exec, GiveUp, AppendFails
<1>3. pg' = pg /\ pdf' \in {pdf, <<>>}
  BY DEF Set, SetFails, Exec, GiveUp, AppendFails, Commit
<1>4. doc' = doc \/ doc' = <<u>> \/ doc' = Append(task[u].docs, u)
  BY DEF Set, SetFails, Exec, GiveUp, AppendFails, Commit
<1>5. \A p \in Procs : \/ memory'[p] = memory[p] \/ memory'[p] = <<u>>
                       \/ memory'[p] = Append(memory[p], u)
  <2>1. \/ memory' = memory
        \/ memory' = [memory EXCEPT ![task[u].proc] = <<u>>]
        \/ memory' = MemoryAppend(u)
    BY DEF Set, SetFails, Exec, GiveUp, AppendFails, FallBack
  <2>. QED
    BY <2>1 DEF MemoryAppend, TypeOK
<1>. QED
  BY <1>1, <1>2, <1>3, <1>4, <1>5, OnceStores

\* The PostgreSQL copy is one of the good lists.
LEMMA OnceWritesPg ==
  ASSUME TypeOK, OnceInv, NEW u \in Uploads, WritePg(u) PROVE OnceInv'
<1>. USE DEF store, cache, history
<1>0. task \in [Requests -> Task] /\ u \in Requests /\ task[u].proc \in Procs
  BY UploadTypes DEF TypeOK, Task
<1>1. Only(u) /\ task'[u].pc = "ended" /\ task'[u].docs = task[u].docs
  BY <1>0 DEF WritePg, Goto, Only, Task
<1>2. Onward
  BY <1>1 DEF Onward, Only, Before, Requests
<1>3. pg' \in {pg, task[u].docs, memory[task[u].proc]} /\ UNCHANGED <<store, memory>>
  BY DEF WritePg
<1>4. GoodIn(task', pg')
  BY <1>0, <1>2, <1>3, GoodStays DEF OnceInv
<1>5. /\ GoodIn(task', doc) /\ GoodIn(task', pdf)
      /\ \A p \in Procs : GoodIn(task', memory[p])
      /\ \A r \in Requests : GoodIn(task', task[r].docs)
  BY <1>2, GoodStays DEF OnceInv
<1>6. \A r \in Requests : task'[r].docs = task[r].docs
  BY <1>1 DEF Only
<1>. QED
  BY <1>3, <1>4, <1>5, <1>6 DEF OnceInv

\* Expiry and restarts empty lists.
LEMMA OnceEnvironment ==
  ASSUME TypeOK, OnceInv, \/ Expire \/ ExpirePg \/ ExpireAnswer
                          \/ \E p \in Procs : Crash(p)
  PROVE  OnceInv'
<1>. USE DEF store, cache, history
<1>0. /\ task \in [Requests -> Task] /\ memory \in [Procs -> Seq(Documents)]
      /\ Uploads \subseteq Requests
  BY UploadTypes DEF TypeOK
<1>1. \A r \in Requests : task'[r] = task[r] \/ task'[r] = [task[r] EXCEPT !.pc = "lost"]
  BY <1>0 DEF Expire, ExpirePg, ExpireAnswer, Crash
<1>2. \A r \in Requests : /\ task'[r].docs = task[r].docs
                          /\ task'[r].pc \in {task[r].pc, "lost"}
  BY <1>0, <1>1 DEF Task
<1>3. Onward
  BY <1>0, <1>2 DEF Onward, Before
<1>4. doc' \in {doc, <<>>} /\ pdf' \in {pdf, <<>>} /\ pg' \in {pg, <<>>}
  BY DEF Expire, ExpirePg, ExpireAnswer, Crash
<1>5. \A p \in Procs : memory'[p] \in {memory[p], <<>>}
  BY <1>0 DEF Expire, ExpirePg, ExpireAnswer, Crash
<1>6. /\ GoodIn(task', <<>>)
      /\ GoodIn(task', doc) /\ GoodIn(task', pdf) /\ GoodIn(task', pg)
      /\ \A p \in Procs : GoodIn(task', memory[p])
      /\ \A r \in Requests : GoodIn(task', task[r].docs)
  BY <1>3, GoodStays, GoodShort DEF OnceInv
<1>. QED
  BY <1>2, <1>4, <1>5, <1>6 DEF OnceInv

\* Every step keeps the lists good.
LEMMA OnceNext == ASSUME TypeOK, OnceInv, [Next]_vars PROVE OnceInv'
<1>1. CASE UNCHANGED vars
  BY <1>1 DEF OnceInv, vars, store, cache, history
<1>2. ASSUME NEW u \in Uploads, UploadStep(u) PROVE OnceInv'
  BY <1>2, OncePrepares, OnceUpload, OnceWritesPg DEF UploadStep
<1>3. CASE Next
  BY <1>2, <1>3, OnceRequest, OnceQuery, OnceEnvironment DEF Next
<1>. QED
  BY <1>1, <1>3

\* No retry, ambiguous EXEC or fallback stores an upload twice in any copy, for
\* any number of uploads, processes and faults.
THEOREM StoredOnceCorrect == Spec => []StoredOnce
<1>1. TypeOK /\ OnceInv /\ [Next]_vars => OnceInv'
  BY OnceNext
<1>2. OnceInv => StoredOnce
  BY DEF OnceInv, GoodIn, StoredOnce
<1>. QED
  BY <1>1, <1>2, OnceInit, SessionTypes, PTL DEF Spec

-----------------------------------------------------------------------------
(* A confirmed upload is kept *)

\* Where an upload has been stored: about to be confirmed, or confirmed.
Stored == {"writing", "dumping", "ended"}

\* It is where its process or every process would find it, or a fault took it.
Kept(u) == u \in Elems(Content) \cup Elems(memory[task[u].proc]) \cup gone

\* Already before the upload writes the PostgreSQL copy.
KeptInv == \A u \in Uploads : task[u].pc \in Stored => Kept(u)

\* The elements of short and of longer lists.
LEMMA ElemsAppend ==
  /\ Elems(<<>>) = {}
  /\ \A u \in Documents : Elems(<<u>>) = {u}
  /\ \A s \in Seq(Documents), u \in Documents : Elems(Append(s, u)) = Elems(s) \cup {u}
<1>1. Elems(<<>>) = {} /\ \A u \in Documents : Elems(<<u>>) = {u}
  BY DEF Elems
<1>2. ASSUME NEW s \in Seq(Documents), NEW u \in Documents
      PROVE  Elems(Append(s, u)) = Elems(s) \cup {u}
  <2>1. Append(s, u) \in Seq(Documents) /\ Len(Append(s, u)) = Len(s) + 1 /\ Len(s) \in Nat
    OBVIOUS
  <2>2. /\ \A i \in 1..Len(s) : Append(s, u)[i] = s[i]
        /\ Append(s, u)[Len(s) + 1] = u
    BY <2>1
  <2>. QED
    BY <2>1, <2>2 DEF Elems
<1>. QED
  BY <1>1, <1>2

\* No request changes the record of another, or its process.
LEMMA SamePlace ==
  ASSUME TypeOK, NEW r \in Requests,
         \/ Arrive(r) \/ Get(r) \/ GetFails(r) \/ GetPg(r)
         \/ UploadStep(r) \/ QueryStep(r)
  PROVE  Only(r) /\ task'[r].proc = task[r].proc
<1>0. task \in [Requests -> Task] /\ task[r] \in Task
  BY DEF TypeOK
<1>1. ASSUME NEW l, Goto(r, l) PROVE Only(r) /\ task'[r].proc = task[r].proc
  BY <1>0, <1>1 DEF Goto, Only, Task
<1>2. ASSUME NEW docs, Found(r, docs) PROVE Only(r) /\ task'[r].proc = task[r].proc
  BY <1>0, <1>2 DEF Found, Only, Task
<1>3. CASE Arrive(r) \/ Get(r) \/ GetFails(r) \/ GetPg(r)
  BY <1>1, <1>2, <1>3 DEF Arrive, Get, GetFails, GetPg
<1>4. CASE \/ Open(r) \/ SetFails(r) \/ Delete(r) \/ InvalidateFails(r) \/ GiveUp(r)
           \/ AppendFails(r) \/ WritePg(r) \/ QueryStep(r)
  BY <1>1, <1>4 DEF Open, SetFails, Delete, InvalidateFails, GiveUp, AppendFails, FallBack,
                    WritePg, QueryStep, Store, Register, StoreFails
<1>5. CASE Set(r) \/ Exec(r)
  BY <1>0, <1>5 DEF Set, Exec, Only, Task
<1>6. CASE Invalidate(r) \/ Retry(r)
  BY <1>0, <1>6 DEF Invalidate, Retry, Only, Task
<1>7. CASE Watch(r)
  BY <1>0, <1>7 DEF Watch, Only, Task
<1>. QED
  BY <1>3, <1>4, <1>5, <1>6, <1>7 DEF UploadStep

\* Nothing is lost: what was kept stays kept.
LEMMA KeptStays ==
  ASSUME TypeOK, KeptInv,
         Elems(Content) \subseteq Elems(Content)' \cup gone',
         \A p \in Procs : Elems(memory[p]) \subseteq Elems(memory'[p]) \cup gone',
         gone \subseteq gone',
         \A u \in Uploads : task'[u].proc = task[u].proc,
         \A u \in Uploads : task'[u].pc \in Stored => task[u].pc \in Stored \/ Kept(u)'
  PROVE  KeptInv'
<1>. SUFFICES ASSUME NEW u \in Uploads, task'[u].pc \in Stored, task[u].pc \in Stored
              PROVE  Kept(u)'
  BY DEF KeptInv
<1>1. task[u].proc \in Procs
  BY UploadTypes DEF TypeOK, Task
<1>2. u \in Elems(Content) \cup Elems(memory[task[u].proc]) \cup gone
  BY DEF KeptInv, Kept
<1>3. u \in Elems(Content)' \cup Elems(memory'[task[u].proc]) \cup gone'
  BY <1>1, <1>2
<1>. QED
  BY <1>3 DEF Kept

\* Steps of a request that store no document.
LEMMA KeptReads ==
  ASSUME TypeOK, KeptInv, NEW r \in Requests,
         \/ Arrive(r) \/ Get(r) \/ GetFails(r) \/ GetPg(r)
         \/ r \in Uploads /\ (\/ Open(r) \/ Invalidate(r) \/ Delete(r) \/ InvalidateFails(r)
                              \/ Watch(r) \/ Retry(r) \/ WritePg(r))
         \/ r \in Queries /\ QueryStep(r)
  PROVE  KeptInv'
<1>. USE DEF store, cache, history
<1>0. task \in [Requests -> Task] /\ task[r] \in Task
  BY DEF TypeOK
<1>1. UNCHANGED <<store, memory, gone>>
  BY DEF Arrive, Get, GetFails, GetPg, Open, Invalidate, Delete, InvalidateFails, Watch, Retry,
         WritePg, QueryStep, Store, Register, StoreFails
<1>2. Only(r) /\ task'[r].proc = task[r].proc
  BY SamePlace DEF UploadStep
<1>3. r \in Uploads /\ task'[r].pc \in Stored => task[r].pc \in Stored
  <2>. SUFFICES ASSUME r \in Uploads PROVE task[r].pc \in Stored \/ task'[r].pc \notin Stored
    OBVIOUS
  <2>. USE DEF Stored
  <2>0. r \notin Queries
    BY SessionAssumption
  <2>1. ASSUME NEW l \in {"getting", "falling", "setting", "watching"}, Goto(r, l)
        PROVE  task'[r].pc \notin Stored
    BY <1>0, <2>1 DEF Goto, Task
  <2>2. ASSUME NEW docs, Found(r, docs) PROVE task'[r].pc \notin Stored
    BY <1>0, <2>2 DEF Found, Task
  <2>3. CASE Arrive(r) \/ Get(r) \/ GetFails(r) \/ GetPg(r)
    BY <2>0, <2>1, <2>2, <2>3 DEF Arrive, Get, GetFails, GetPg
  <2>4. CASE Open(r) \/ Delete(r) \/ InvalidateFails(r)
    BY <2>1, <2>4 DEF Open, Delete, InvalidateFails
  <2>5. CASE Invalidate(r) \/ Retry(r)
    BY <1>0, <2>5 DEF Invalidate, Retry, Task
  <2>6. CASE Watch(r)
    BY <1>0, <2>6 DEF Watch, Task
  <2>7. CASE WritePg(r)
    BY <2>7 DEF WritePg
  <2>. QED
    BY <2>0, <2>3, <2>4, <2>5, <2>6, <2>7
<1>4. Elems(Content)' = Elems(Content) /\ \A p \in Procs : Elems(memory'[p]) = Elems(memory[p])
  BY <1>1 DEF Content
<1>5. \A u \in Uploads : task'[u].proc = task[u].proc
  BY <1>2, UploadTypes DEF Only
<1>6. \A u \in Uploads : task'[u].pc \in Stored => task[u].pc \in Stored
  BY <1>2, <1>3, UploadTypes DEF Only
<1>. QED
  BY <1>1, <1>4, <1>5, <1>6, KeptStays

\* An append keeps what is there, and the upload is in Redis or in memory after it.
LEMMA KeptStores ==
  ASSUME AppendInv, KeptInv, NEW u \in Uploads, Exec(u) \/ GiveUp(u) \/ AppendFails(u)
  PROVE  KeptInv'
<1>. USE DEF store, cache, history
<1>0. /\ TypeOK /\ task \in [Requests -> Task] /\ u \in Requests /\ task[u] \in Task
      /\ memory \in [Procs -> Seq(Documents)] /\ u \in Documents
  BY UploadTypes DEF AppendInv, TypeOK
<1>1. Only(u) /\ task'[u].proc = task[u].proc
  BY <1>0, SamePlace DEF UploadStep
<1>2. gone' = gone
  BY DEF Exec, GiveUp, AppendFails
<1>3. \/ UNCHANGED store
      \/ /\ doc' = Append(task[u].docs, u)
         /\ task[u].pc = "executing" /\ Unchanged(u)
  BY DEF Exec, GiveUp, AppendFails, Commit
<1>4. ASSUME doc' = Append(task[u].docs, u), task[u].pc = "executing", Unchanged(u)
      PROVE  Elems(Content)' = Elems(task[u].docs) \cup {u} /\ Elems(Content) \subseteq Elems(Content)'
  <2>1. task[u].docs \in Seq(Documents) /\ doc' # <<>>
    BY <1>0, <1>4 DEF Task
  <2>2. Content' = doc'
    BY <2>1 DEF Content
  <2>3. Elems(Content)' = Elems(task[u].docs) \cup {u}
    BY <1>0, <1>4, <2>1, <2>2, ElemsAppend
  <2>4. Content = <<>> \/ task[u].docs = Content
    BY <1>4 DEF AppendInv, WatchInv, Unchanged
  <2>. QED
    BY <2>3, <2>4, ElemsAppend
<1>5. Elems(Content) \subseteq Elems(Content)'
  <2>1. UNCHANGED store => Content' = Content
    BY DEF Content
  <2>. QED
    BY <1>3, <1>4, <2>1
<1>6. task[u].proc \in Procs
  BY <1>0 DEF Task
<1>7. memory' = memory \/ memory' = [memory EXCEPT ![task[u].proc] = Append(memory[task[u].proc], u)]
  BY DEF Exec, GiveUp, AppendFails, FallBack, MemoryAppend
<1>8. ASSUME NEW p \in Procs PROVE Elems(memory[p]) \subseteq Elems(memory'[p])
  <2>1. memory[p] \in Seq(Documents)
    BY <1>0
  <2>2. memory'[p] = memory[p] \/ memory'[p] = Append(memory[p], u)
    BY <1>0, <1>7
  <2>3. Elems(Append(memory[p], u)) = Elems(memory[p]) \cup {u}
    BY <1>0, <2>1, ElemsAppend
  <2>. QED
    BY <2>2, <2>3
<1>9. Kept(u)'
  <2>1. CASE Exec(u)
    BY <1>4, <2>1 DEF Exec, Commit, Kept
  <2>2. CASE GiveUp(u) \/ AppendFails(u)
    <3>1. memory'[task[u].proc] = Append(memory[task[u].proc], u)
      BY <1>0, <1>6, <2>2 DEF GiveUp, AppendFails, FallBack, MemoryAppend
    <3>2. u \in Elems(memory'[task[u].proc])
      BY <1>0, <1>6, <3>1, ElemsAppend
    <3>. QED
      BY <1>1, <3>2 DEF Kept
  <2>. QED
    BY <2>1, <2>2
<1>10. \A v \in Uploads : task'[v].proc = task[v].proc
  BY <1>1, UploadTypes DEF Only
<1>11. \A v \in Uploads : task'[v].pc \in Stored => task[v].pc \in Stored \/ Kept(v)'
  <2>. SUFFICES ASSUME NEW v \in Uploads PROVE task'[v] = task[v] \/ Kept(v)'
    OBVIOUS
  <2>1. CASE v = u
    BY <1>9, <2>1
  <2>2. CASE v # u
    BY <1>1, <2>2, UploadTypes DEF Only
  <2>. QED
    BY <2>1, <2>2
<1>. QED
  BY <1>0, <1>2, <1>5, <1>8, <1>10, <1>11, KeptStays

\* The upload that opens the session is the only one.
LEMMA KeptOpens ==
  ASSUME AppendInv, KeptInv, NEW u \in Uploads, Set(u) \/ SetFails(u)
  PROVE  KeptInv'
<1>0. /\ TypeOK /\ u \in Requests /\ task[u] \in Task /\ u \in Documents
      /\ memory \in [Procs -> Seq(Documents)] /\ task[u].proc \in Procs
  BY UploadTypes DEF AppendInv, TypeOK, Task
<1>1. Only(u) /\ task'[u].proc = task[u].proc
  BY <1>0, SamePlace DEF UploadStep
<1>2. \A r \in Requests \ {u} : task'[r].pc = "new"
  BY <1>1 DEF AppendInv, OpenInv, Set, SetFails, Only
<1>3. Kept(u)'
  <2>1. CASE Set(u)
    <3>1. doc' = <<u>> /\ doc' # <<>>
      BY <2>1 DEF Set
    <3>2. u \in Elems(doc')
      BY <1>0, <3>1, ElemsAppend
    <3>. QED
      BY <3>1, <3>2 DEF Kept, Content
  <2>2. CASE SetFails(u)
    <3>1. memory'[task[u].proc] = <<u>>
      BY <1>0, <2>2 DEF SetFails
    <3>2. u \in Elems(memory'[task[u].proc])
      BY <1>0, <3>1, ElemsAppend
    <3>. QED
      BY <1>1, <3>2 DEF Kept
  <2>. QED
    BY <2>1, <2>2
<1>. QED
  BY <1>2, <1>3, UploadTypes DEF KeptInv, Stored

\* What expiry and restarts remove is counted as gone.
LEMMA KeptEnvironment ==
  ASSUME TypeOK, KeptInv, \/ Expire \/ ExpirePg \/ ExpireAnswer
                          \/ \E p \in Procs : Crash(p)
  PROVE  KeptInv'
<1>. USE DEF store, cache, history
<1>0. /\ task \in [Requests -> Task] /\ memory \in [Procs -> Seq(Documents)]
      /\ Uploads \subseteq Requests
  BY UploadTypes DEF TypeOK
<1>1. CASE Expire
  <2>1. /\ Elems(Content) \subseteq gone' /\ gone \subseteq gone'
        /\ memory' = memory /\ task' = task
    BY <1>1 DEF Expire
  <2>. QED
    BY <2>1, KeptStays
<1>2. CASE ExpirePg \/ ExpireAnswer
  BY <1>2 DEF ExpirePg, ExpireAnswer, KeptInv, Kept, Content
<1>3. ASSUME NEW p \in Procs, Crash(p) PROVE KeptInv'
  <2>1. \A r \in Requests : task'[r] = task[r] \/ task'[r] = [task[r] EXCEPT !.pc = "lost"]
    BY <1>0, <1>3 DEF Crash
  <2>2. \A r \in Requests : /\ task'[r].proc = task[r].proc
                            /\ task'[r].pc \in Stored => task[r].pc \in Stored
    BY <1>0, <2>1 DEF Task, Stored
  <2>3. Content' = Content /\ gone \subseteq gone'
    BY <1>3 DEF Crash, Content
  <2>4. \A s \in Procs : memory'[s] = memory[s] \/ Elems(memory[s]) \subseteq gone'
    BY <1>0, <1>3 DEF Crash
  <2>. QED
    BY <1>0, <2>2, <2>3, <2>4, KeptStays
<1>. QED
  BY <1>1, <1>2, <1>3

\* No step loses an upload.
LEMMA KeptNext == ASSUME AppendInv, KeptInv, [Next]_vars PROVE KeptInv'
<1>0. TypeOK
  BY DEF AppendInv
<1>1. CASE UNCHANGED vars
  BY <1>1 DEF KeptInv, Kept, Content, vars, store, cache, history
<1>2. ASSUME NEW r \in Requests, Arrive(r) \/ Get(r) \/ GetFails(r) \/ GetPg(r) PROVE KeptInv'
  BY <1>0, <1>2, KeptReads
<1>3. ASSUME NEW u \in Uploads, UploadStep(u) PROVE KeptInv'
  BY <1>0, <1>3, KeptReads, KeptStores, KeptOpens, UploadTypes DEF UploadStep
<1>4. ASSUME NEW q \in Queries, QueryStep(q) PROVE KeptInv'
  BY <1>0, <1>4, KeptReads, UploadTypes
<1>5. CASE Expire \/ ExpirePg \/ ExpireAnswer \/ \E p \in Procs : Crash(p)
  BY <1>0, <1>5, KeptEnvironment
<1>. QED
  BY <1>1, <1>2, <1>3, <1>4, <1>5 DEF Next

\* A confirmed upload stays where its readers look for it until a fault removes it
\* from there: no conflict, retry or fallback of another upload does.
THEOREM AcceptedIsKeptCorrect == Spec => []AcceptedIsKept
<1>1. Init => KeptInv
  BY UploadTypes DEF Init, KeptInv, Stored
<1>2. AppendInv /\ KeptInv /\ [Next]_vars => KeptInv'
  BY KeptNext
<1>3. KeptInv => AcceptedIsKept
  BY DEF KeptInv, Kept, Stored, AcceptedIsKept
<1>. QED
  BY <1>1, <1>2, <1>3, AppendInvariant, PTL DEF Spec

-----------------------------------------------------------------------------
(* A clean answer is current *)

\* A query that is running; an upload that is, the first of a session apart.
Running(q) == task[q].pc \notin {"new"} \cup Ended
Busy(u) == task[u].pc \in {"getting", "falling"} \cup Appending

\* Nobody asks about a session that no client knows.
Unknown == ~ known => answer.by = NoQuery /\ \A q \in Queries : task[q].pc = "new"

\* A clean query runs while no upload does, so that what it read is what is there.
Alone ==
  \A q \in Queries \ overlapped : Running(q) =>
    /\ \A u \in Uploads : ~ Busy(u)
    /\ task[q].pc \in {"storing", "registering"} => task[q].docs = Content

\* A clean answer is registered, or about to be, so that an upload finds it, and it
\* is gone before the upload appends.
Fresh ==
  answer.by \in Queries \ overlapped =>
    /\ answer.docs = Content
    /\ registered \/ task[answer.by].pc = "registering"
    /\ \A u \in Uploads : /\ task[u].pc = "deleting" => task[u].seen
                          /\ task[u].pc \notin {"watching", "executing"}

FreshInv == Unknown /\ Alone /\ Fresh

\* A request only adds to the queries that are not clean.
LEMMA OverlappedGrows ==
  ASSUME NEW r \in Requests,
         \/ Arrive(r) \/ Get(r) \/ GetFails(r) \/ GetPg(r)
         \/ UploadStep(r) \/ QueryStep(r)
  PROVE  overlapped \subseteq overlapped'
BY DEF UploadStep, QueryStep, Arrive, Get, GetFails, GetPg, Open, Set, SetFails, Invalidate, Delete,
       InvalidateFails, Watch, Exec, Retry, GiveUp, AppendFails, WritePg, Store, Register, StoreFails,
       history

\* After a step of an upload no clean query is running.
LEMMA UploadOverlaps ==
  ASSUME AppendInv, FreshInv, NEW u \in Uploads,
         \/ Arrive(u) \/ Get(u) \/ GetFails(u) \/ GetPg(u) \/ UploadStep(u)
  PROVE  /\ \A q \in Queries \ overlapped' : task[q].pc \in {"new"} \cup Ended
         /\ \A q \in Queries : task'[q] = task[q]
         /\ \A v \in Uploads \ {u} : task'[v] = task[v]
<1>0. TypeOK /\ u \in Requests /\ u \notin Queries
  BY UploadTypes, SessionAssumption DEF AppendInv
<1>1. Only(u) /\ overlapped \subseteq overlapped'
  BY <1>0, SamePlace, OverlappedGrows
<1>. DEFINE Overlaps == \A q \in Queries \ overlapped' : task[q].pc \in {"new"} \cup Ended
<1>2. Arrive(u) => Overlaps
  BY <1>0 DEF Arrive, Querying
<1>3. Open(u) \/ Set(u) \/ SetFails(u) => Overlaps
  <2>1. Open(u) \/ Set(u) \/ SetFails(u) => ~ known
    BY DEF AppendInv, OpenInv, Open, Set, SetFails
  <2>. QED
    BY <2>1 DEF FreshInv, Unknown
<1>4. Busy(u) => Overlaps
  BY <1>1 DEF FreshInv, Alone, Running
<1>5. Arrive(u) \/ Open(u) \/ Set(u) \/ SetFails(u) \/ Busy(u)
  BY DEF Busy, Appending, Get, GetFails, GetPg, UploadStep, Invalidate, Delete, InvalidateFails,
         Watch, Exec, Retry, GiveUp, AppendFails, WritePg
<1>6. Overlaps
  BY <1>2, <1>3, <1>4, <1>5
<1>7. \A r \in Requests \ {u} : task'[r] = task[r]
  BY <1>1 DEF Only
<1>8. Queries \subseteq Requests \ {u} /\ Uploads \ {u} \subseteq Requests \ {u}
  BY <1>0 DEF Requests
<1>9. /\ \A q \in Queries : task'[q] = task[q]
      /\ \A v \in Uploads \ {u} : task'[v] = task[v]
  BY <1>7, <1>8
<1>. QED
  BY <1>6, <1>9, Zenon

\* A step of an upload keeps a clean answer unless it deletes it.
LEMMA FreshUpload ==
  ASSUME AppendInv, FreshInv, NEW u \in Uploads,
         \/ Arrive(u) \/ Get(u) \/ GetFails(u) \/ GetPg(u) \/ UploadStep(u)
  PROVE  FreshInv'
<1>. USE DEF store, cache, history
<1>0. /\ TypeOK /\ u \in Requests /\ task \in [Requests -> Task] /\ task[u] \in Task
      /\ u \notin Queries /\ NoQuery \notin Queries
  BY UploadTypes, SessionAssumption DEF AppendInv, TypeOK
<1>1. overlapped \subseteq overlapped'
  BY <1>0, OverlappedGrows
<1>2. /\ \A q \in Queries \ overlapped' : task[q].pc \in {"new"} \cup Ended
      /\ \A q \in Queries : task'[q] = task[q]
      /\ \A v \in Uploads \ {u} : task'[v] = task[v]
  BY UploadOverlaps
<1>3. answer' \in {answer, NoAnswer} /\ known' \in {known, TRUE}
  BY <1>0 DEF UploadStep, Arrive, Get, GetFails, GetPg, Open, Set, SetFails, Invalidate, Delete,
              InvalidateFails, Watch, Exec, Retry, GiveUp, AppendFails, WritePg
<1>4. Unknown'
  <2>1. known \in BOOLEAN
    BY <1>0 DEF TypeOK
  <2>0. ~ known' => ~ known
    BY <1>3, <2>1, Zenon
  <2>2. ~ known' => answer.by = NoQuery /\ \A q \in Queries : task[q].pc = "new"
    BY <2>0, Zenon DEF FreshInv, Unknown
  <2>3. ~ known' => answer'.by = NoQuery
    BY <1>3, <2>2 DEF NoAnswer
  <2>. QED
    BY <1>2, <2>2, <2>3 DEF Unknown
<1>5. Alone'
  BY <1>2 DEF Alone, Running
<1>6. Fresh'
  <2>. SUFFICES ASSUME answer'.by \in Queries \ overlapped'
                PROVE  /\ answer'.docs = Content'
                       /\ registered' \/ task'[answer'.by].pc = "registering"
                       /\ task'[u].pc = "deleting" => task'[u].seen
                       /\ task'[u].pc \notin {"watching", "executing"}
                       /\ \A v \in Uploads \ {u} : /\ task'[v].pc = "deleting" => task'[v].seen
                                                   /\ task'[v].pc \notin {"watching", "executing"}
    BY DEF Fresh
  <2>1. answer' = answer /\ answer.by \in Queries \ overlapped
    BY <1>0, <1>1, <1>3 DEF NoAnswer
  <2>2. /\ answer.docs = Content /\ registered
        /\ \A v \in Uploads : /\ task[v].pc = "deleting" => task[v].seen
                              /\ task[v].pc \notin {"watching", "executing"}
    <3>1. task[answer.by].pc # "registering"
      BY <1>2, <2>1 DEF Ended
    <3>. QED
      BY <2>1, <3>1 DEF FreshInv, Fresh
  <2>3. known
    BY <1>0, <2>1 DEF FreshInv, Unknown
  <2>4. ~ (Open(u) \/ Set(u) \/ SetFails(u))
    BY <2>3 DEF AppendInv, OpenInv, Open, Set, SetFails
  <2>5. ~ (Watch(u) \/ Exec(u) \/ Retry(u) \/ GiveUp(u) \/ AppendFails(u))
    BY <2>2 DEF Watch, Exec, Retry, GiveUp, AppendFails
  <2>6. ~ Delete(u) /\ ~ InvalidateFails(u)
    <3>1. NoAnswer # answer
      BY <1>0, <2>1 DEF NoAnswer
    <3>2. ~ Delete(u)
      BY <2>1, <2>2, <3>1 DEF Delete
    <3>3. InvalidateFails(u) => answer.by \in overlapped'
      BY <2>1 DEF InvalidateFails
    <3>. QED
      BY <2>1, <3>2, <3>3
  <2>7. CASE Invalidate(u)
    <3>1. task'[u].pc = "deleting" /\ task'[u].seen = registered
      BY <1>0, <2>7 DEF Invalidate, Task
    <3>2. Content' = Content /\ registered' = registered
      BY <2>7 DEF Invalidate, Content
    <3>. QED
      BY <1>2, <2>1, <2>2, <3>1, <3>2
  <2>8. CASE Arrive(u) \/ Get(u) \/ GetFails(u) \/ GetPg(u) \/ WritePg(u)
    <3>1. ASSUME NEW l \in {"getting", "falling", "ended"}, Goto(u, l)
          PROVE  task'[u].pc \notin {"deleting", "watching", "executing"}
      BY <1>0, <3>1 DEF Goto, Task
    <3>2. ASSUME NEW docs, Found(u, docs)
          PROVE  task'[u].pc \notin {"deleting", "watching", "executing"}
      BY <1>0, <3>2 DEF Found, Task
    <3>3. task'[u].pc \notin {"deleting", "watching", "executing"}
      BY <2>8, <3>1, <3>2 DEF Arrive, Get, GetFails, GetPg, WritePg
    <3>4. Content' = Content /\ registered' = registered
      BY <2>8 DEF Arrive, Get, GetFails, GetPg, WritePg, Content
    <3>. QED
      BY <1>2, <2>1, <2>2, <3>3, <3>4
  <2>. QED
    BY <2>4, <2>5, <2>6, <2>7, <2>8 DEF UploadStep
<1>. QED
  BY <1>4, <1>5, <1>6 DEF FreshInv

\* A step of a query: its answer is what Redis holds, or it is not clean.
LEMMA FreshQuery ==
  ASSUME TypeOK, FreshInv, NEW q \in Queries,
         Arrive(q) \/ Get(q) \/ GetFails(q) \/ GetPg(q) \/ QueryStep(q)
  PROVE  FreshInv'
<1>. USE DEF store, cache, history
<1>0. /\ q \in Requests /\ task \in [Requests -> Task] /\ task[q] \in Task
      /\ q \notin Uploads /\ known \in BOOLEAN
  BY UploadTypes, SessionAssumption DEF TypeOK
<1>1. overlapped \subseteq overlapped' /\ Only(q)
  BY <1>0, OverlappedGrows, SamePlace
<1>2. /\ \A u \in Uploads : task'[u] = task[u]
      /\ \A p \in Queries \ {q} : task'[p] = task[p]
  BY <1>0, <1>1, UploadTypes DEF Only
<1>3. known /\ known' = known /\ Content' = Content
  BY DEF FreshInv, Unknown, QueryStep, Arrive, Get, GetFails, GetPg, Store, Register, StoreFails, Content
<1>4. Unknown'
  BY <1>3 DEF Unknown
<1>5. ASSUME q \notin overlapped', Running(q)'
      PROVE  /\ \A u \in Uploads : ~ Busy(u)
             /\ task'[q].pc \in {"storing", "registering"} => task'[q].docs = Content
  <2>1. q \notin overlapped
    BY <1>1, <1>5
  <2>2. CASE Arrive(q)
    <3>1. Uploading = {} /\ Goto(q, "getting")
      <4>1. Goto(q, "ended") => ~ Running(q)'
        BY <1>0 DEF Goto, Running, Ended, Task
      <4>. QED
        BY <1>0, <1>5, <2>2, <4>1 DEF Arrive
    <3>2. task'[q].pc = "getting"
      BY <1>0, <3>1 DEF Goto, Task
    <3>. QED
      BY <3>1, <3>2 DEF Uploading, Busy
  <2>3. CASE Running(q)
    <3>0. /\ \A u \in Uploads : ~ Busy(u)
          /\ task[q].pc \in {"storing", "registering"} => task[q].docs = Content
      BY <2>1, <2>3 DEF FreshInv, Alone
    <3>1. CASE Get(q)
      <4>1. ASSUME Found(q, Content) PROVE task'[q].docs = Content
        BY <1>0, <4>1 DEF Found, Task
      <4>2. Goto(q, "falling") => task'[q].pc = "falling"
        BY <1>0 DEF Goto, Task
      <4>. QED
        BY <3>0, <3>1, <4>1, <4>2 DEF Get
    <3>2. ~ GetFails(q) /\ ~ GetPg(q) /\ ~ StoreFails(q)
      BY <1>5 DEF GetFails, GetPg, StoreFails
    <3>3. CASE Store(q) \/ Register(q)
      <4>1. \E l : Goto(q, l)
        BY <3>3 DEF Store, Register
      <4>2. task'[q].docs = task[q].docs /\ task[q].pc \in {"storing", "registering"}
        BY <1>0, <3>3, <4>1 DEF Goto, Task, Store, Register
      <4>. QED
        BY <3>0, <4>2
    <3>4. CASE Arrive(q)
      BY <2>2, <3>4
    <3>. QED
      BY <3>1, <3>2, <3>3, <3>4 DEF QueryStep
  <2>4. Arrive(q) \/ Running(q)
    BY DEF Running, Ended, Get, GetFails, GetPg, QueryStep, Store, Register, StoreFails
  <2>. QED
    BY <2>2, <2>3, <2>4
<1>6. Alone'
  <2>. SUFFICES ASSUME NEW p \in Queries \ overlapped', Running(p)'
                PROVE  /\ \A u \in Uploads : ~ Busy(u)'
                       /\ task'[p].pc \in {"storing", "registering"} => task'[p].docs = Content'
    BY DEF Alone
  <2>1. \A u \in Uploads : Busy(u)' <=> Busy(u)
    BY <1>2 DEF Busy
  <2>2. CASE p = q
    BY <1>3, <1>5, <2>1, <2>2
  <2>3. CASE p # q
    <3>1. task'[p] = task[p] /\ p \notin overlapped
      BY <1>1, <1>2, <2>3
    <3>2. Running(p)
      BY <3>1 DEF Running
    <3>. QED
      BY <1>3, <2>1, <3>1, <3>2 DEF FreshInv, Alone
  <2>. QED
    BY <2>2, <2>3
<1>7. Fresh'
  <2>. SUFFICES ASSUME answer'.by \in Queries \ overlapped'
                PROVE  /\ answer'.docs = Content
                       /\ registered' \/ task'[answer'.by].pc = "registering"
                       /\ \A u \in Uploads : /\ task[u].pc = "deleting" => task[u].seen
                                             /\ task[u].pc \notin {"watching", "executing"}
    BY <1>2, <1>3 DEF Fresh
  <2>1. CASE answer' = answer
    <3>1. answer.by \in Queries \ overlapped
      BY <1>1, <2>1
    <3>2. /\ answer.docs = Content
          /\ registered \/ task[answer.by].pc = "registering"
          /\ \A u \in Uploads : /\ task[u].pc = "deleting" => task[u].seen
                                /\ task[u].pc \notin {"watching", "executing"}
      BY <3>1 DEF FreshInv, Fresh
    <3>3. registered' \/ task'[answer.by].pc = "registering"
      <4>1. registered => registered'
        BY DEF QueryStep, Arrive, Get, GetFails, GetPg, Store, Register, Registers, StoreFails
      <4>2. CASE answer.by # q
        BY <1>2, <3>1, <3>2, <4>1, <4>2
      <4>3. CASE answer.by = q
        <5>1. task[q].pc = "registering" => registered'
          BY <2>1, <4>3 DEF QueryStep, Arrive, Get, GetFails, GetPg, Store, Register, Registers,
                            StoreFails
        <5>. QED
          BY <3>2, <4>1, <4>3, <5>1
      <4>. QED
        BY <4>2, <4>3
    <3>. QED
      BY <2>1, <3>2, <3>3
  <2>2. CASE answer' # answer
    <3>1. answer' = [docs |-> task[q].docs, by |-> q]
      BY <2>2 DEF QueryStep, Arrive, Get, GetFails, GetPg, Store, Register, StoreFails
    <3>2. q \notin overlapped' /\ q \notin overlapped
      BY <1>1, <3>1
    <3>3. task[q].pc = "storing" /\ Goto(q, "registering")
      BY <2>2, <3>2 DEF QueryStep, Arrive, Get, GetFails, GetPg, Store, Register, StoreFails
    <3>4. task'[q].pc = "registering"
      BY <1>0, <3>3 DEF Goto, Task
    <3>5. Running(q)
      BY <3>3 DEF Running, Ended
    <3>6. task[q].docs = Content /\ \A u \in Uploads : ~ Busy(u)
      BY <3>2, <3>3, <3>5 DEF FreshInv, Alone
    <3>. QED
      BY <3>1, <3>4, <3>6 DEF Busy, Appending
  <2>. QED
    BY <2>1, <2>2
<1>. QED
  BY <1>4, <1>6, <1>7 DEF FreshInv

\* Expiry and restarts: the queries and the answer they touch are not clean.
LEMMA FreshEnvironment ==
  ASSUME TypeOK, FreshInv, \/ Expire \/ ExpirePg \/ ExpireAnswer
                           \/ \E p \in Procs : Crash(p)
  PROVE  FreshInv'
<1>. USE DEF store, cache, history
<1>0. /\ task \in [Requests -> Task] /\ Uploads \subseteq Requests /\ Queries \subseteq Requests
      /\ NoQuery \notin Queries
  BY UploadTypes, SessionAssumption DEF TypeOK
<1>1. CASE Expire
  <2>1. /\ answer' = answer /\ known' = known /\ task' = task
        /\ overlapped' = overlapped \cup Querying \cup ({answer.by} \cap Queries)
    BY <1>1 DEF Expire
  <2>. QED
    BY <2>1 DEF FreshInv, Unknown, Alone, Fresh, Running, Querying
<1>2. CASE ExpirePg
  BY <1>2 DEF ExpirePg, FreshInv, Unknown, Alone, Fresh, Running, Busy, Content
<1>3. CASE ExpireAnswer
  BY <1>0, <1>3 DEF ExpireAnswer, NoAnswer, FreshInv, Unknown, Alone, Fresh, Running, Busy, Content
<1>4. ASSUME NEW p \in Procs, Crash(p) PROVE FreshInv'
  <2>1. /\ UNCHANGED <<answer, registered, known>> /\ Content' = Content
        /\ overlapped' = overlapped \cup {q \in Querying : task[q].proc = p}
    BY <1>4 DEF Crash, Content
  <2>2. \A r \in Requests : \/ task'[r] = task[r]
                            \/ /\ task[r].proc = p /\ task[r].pc \notin {"new"} \cup Ended
                               /\ task'[r] = [task[r] EXCEPT !.pc = "lost"]
    BY <1>0, <1>4 DEF Crash
  <2>3. \A r \in Requests : \/ task'[r] = task[r]
                            \/ /\ task[r].proc = p /\ task[r].pc \notin {"new"} \cup Ended
                               /\ task'[r].pc = "lost"
    BY <1>0, <2>2 DEF Task
  <2>4. \A q \in Queries \ overlapped' : q \notin overlapped /\ task'[q] = task[q]
    BY <1>0, <2>1, <2>3 DEF Querying
  <2>5. \A u \in Uploads : task'[u] = task[u] \/ task'[u].pc = "lost"
    BY <1>0, <2>3
  <2>6. Unknown'
    BY <1>0, <2>1, <2>3 DEF FreshInv, Unknown
  <2>7. Alone'
    BY <2>1, <2>4, <2>5 DEF FreshInv, Alone, Running, Busy, Appending
  <2>8. Fresh'
    BY <2>1, <2>4, <2>5 DEF FreshInv, Fresh
  <2>. QED
    BY <2>6, <2>7, <2>8 DEF FreshInv
<1>. QED
  BY <1>1, <1>2, <1>3, <1>4

\* Every step keeps clean answers current.
LEMMA FreshNext == ASSUME AppendInv, FreshInv, [Next]_vars PROVE FreshInv'
<1>0. TypeOK
  BY DEF AppendInv
<1>1. CASE UNCHANGED vars
  BY <1>1 DEF FreshInv, Unknown, Alone, Fresh, Running, Busy, Content, vars, store, cache, history
<1>2. ASSUME NEW r \in Requests, Arrive(r) \/ Get(r) \/ GetFails(r) \/ GetPg(r) PROVE FreshInv'
  BY <1>0, <1>2, FreshUpload, FreshQuery DEF Requests
<1>3. ASSUME NEW u \in Uploads, UploadStep(u) PROVE FreshInv'
  BY <1>3, FreshUpload
<1>4. ASSUME NEW q \in Queries, QueryStep(q) PROVE FreshInv'
  BY <1>0, <1>4, FreshQuery
<1>5. CASE Expire \/ ExpirePg \/ ExpireAnswer \/ \E p \in Procs : Crash(p)
  BY <1>0, <1>5, FreshEnvironment
<1>. QED
  BY <1>1, <1>2, <1>3, <1>4, <1>5 DEF Next

\* "so that stale results are not served for the updated dataset": an answer that no
\* upload overlapped and no fault hit is what the session holds.
THEOREM CleanAnswersCorrect == Spec => []CleanAnswersAreCurrent
<1>1. Init => FreshInv
  BY SessionAssumption, UploadTypes
     DEF Init, NoAnswer, FreshInv, Unknown, Alone, Fresh, Running
<1>2. AppendInv /\ FreshInv /\ [Next]_vars => FreshInv'
  BY FreshNext
<1>3. FreshInv => CleanAnswersAreCurrent
  BY DEF FreshInv, Fresh, CleanAnswersAreCurrent
<1>. QED
  BY <1>1, <1>2, <1>3, AppendInvariant, PTL DEF Spec
=============================================================================
