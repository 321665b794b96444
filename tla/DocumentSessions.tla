-------------------------- MODULE DocumentSessions --------------------------
(***************************************************************************)
(* One document session: the list of uploaded documents and its copies, and *)
(* the cached answer to one question about them.                            *)
(*                                                                         *)
(*   app/redis_client.py            set, append and get, with fallbacks     *)
(*   app/db/document_sessions.py    the PostgreSQL copy                     *)
(*   app/routers/documents.py       the upload handler                      *)
(*   app/document_intelligence.py   the query cache and its invalidation    *)
(*                                                                         *)
(* A document is the upload that brought it; its text is left out, and so   *)
(* is session_cap, which no caller passes.  An authentication error makes   *)
(* redis_client reconnect and call again: it ends like the call that        *)
(* succeeds or like the one that raises.  The schema of the documents has a *)
(* cache of its own, which is not modelled.                                 *)
(***************************************************************************)
EXTENDS Integers, Sequences, FiniteSets

CONSTANTS
  Uploads,     \* upload requests for this session
  Queries,     \* requests with the same question about it
  Procs,       \* API processes, each with a _memory_store
  Old,         \* the document of a session in the former format
  NoQuery,     \* nobody's cached answer
  MaxTries,    \* _APPEND_MAX_RETRIES
  FaultKinds,  \* which faults may happen, a subset of AllFaults
  MaxFaults    \* bound: faults in one behaviour

AllFaults == {"redis",   \* Redis cannot be reached or a call raises
              "pg",      \* a PostgreSQL call raises
              "expire",  \* a key expires or is evicted
              "crash"}   \* an API process restarts

Requests  == Uploads \cup Queries
Documents == Uploads \cup {Old}

ASSUME SessionAssumption ==
  /\ MaxTries \in Nat \ {0} /\ MaxFaults \in Nat
  /\ FaultKinds \subseteq AllFaults
  /\ Uploads \cap Queries = {}
  /\ Old \notin Uploads /\ NoQuery \notin Queries

VARIABLES
  doc,         \* Seq(Documents): doc:<key> in Redis, <<>> when there is none
  pdf,         \* Seq(Documents): pdf:<key>, the former format
  version,     \* how often a WATCH on the two keys would have noticed a change
  memory,      \* [Procs -> Seq(Documents)]: _memory_store[key]
  pg,          \* Seq(Documents): the row of document_sessions
  answer,      \* [docs, by]: doc_query:<key>:<hash>; by = NoQuery when absent
  registered,  \* the answer's key is in the set doc_query_keys:<key>
  task,        \* [Requests -> Task]
  known,       \* the client was told the session's key
  overlapped,  \* history: queries an upload overlapped, or a fault hit
  gone,        \* history: documents a fault removed
  faults       \* faults so far

store   == <<doc, pdf, version>>
cache   == <<answer, registered>>
history == <<overlapped, gone>>
vars == <<store, memory, pg, cache, task, known, history, faults>>

Ended == {"ended", "elsewhere", "lost"}
Appending == {"invalidating", "deleting", "watching", "executing", "writing", "dumping"}
Task == [pc : {"new", "getting", "falling", "setting", "storing", "registering"}
                \cup Appending \cup Ended,
         proc : Procs,
         docs : Seq(Documents),   \* what the request read, or is to write
         ver : Nat,               \* the version it watches
         old : BOOLEAN,           \* migrated: the read found the former format
         seen : BOOLEAN,          \* SMEMBERS returned the answer's key
         tries : Nat]

NoAnswer == [docs |-> <<>>, by |-> NoQuery]
Elems(s) == {s[i] : i \in 1..Len(s)}

\* What a reader of Redis finds: doc: first, then the former format.
Content == IF doc # <<>> THEN doc ELSE pdf

Goto(r, l) == task' = [task EXCEPT ![r].pc = l]

Fault(kind) == kind \in FaultKinds /\ faults < MaxFaults /\ faults' = faults + 1

\* Uploads between their first and their last call, and queries likewise.
Uploading == {u \in Uploads : task[u].pc \in {"getting", "falling"} \cup Appending}
Querying  == {q \in Queries : task[q].pc \notin {"new"} \cup Ended}

-----------------------------------------------------------------------------
(* get_documents, for an upload that names a session and for a query *)

\* A request arrives.  The answer may be in the cache, and then that is all; an
\* unreachable cache is a miss.  The endpoint's rate limit, budget and first look
\* at the session only end a query sooner, as one that finds no document ends.
Arrive(r) ==
  /\ known /\ task[r].pc = "new"
  /\ \/ /\ r \in Queries /\ answer.by # NoQuery
        /\ Goto(r, "ended")
        /\ UNCHANGED <<overlapped, faults>>
     \/ /\ r \in Queries => answer.by = NoQuery
        /\ Goto(r, "getting")
        /\ overlapped' = IF r \in Uploads THEN overlapped \cup Querying
                         ELSE IF Uploading # {} THEN overlapped \cup {r} ELSE overlapped
        /\ UNCHANGED faults
     \/ /\ r \in Queries /\ Fault("redis")
        /\ Goto(r, "getting")
        /\ overlapped' = overlapped \cup {r}
  /\ UNCHANGED <<store, memory, pg, cache, known, gone>>

\* What a request does with the documents it found; an upload that found none
\* opens another session.
Found(r, docs) ==
  task' = [task EXCEPT ![r].docs = docs, ![r].pc =
    IF docs # <<>> THEN IF r \in Uploads THEN "invalidating" ELSE "storing"
    ELSE IF r \in Uploads THEN "elsewhere" ELSE "ended"]

Get(r) ==
  /\ task[r].pc = "getting"
  /\ IF Content # <<>> THEN Found(r, Content) ELSE Goto(r, "falling")
  /\ UNCHANGED <<store, memory, pg, cache, known, history, faults>>

\* Without a client memory is read; when the call raises it is not.
GetFails(r) ==
  /\ task[r].pc = "getting" /\ Fault("redis")
  /\ \/ memory[task[r].proc] # <<>> /\ Found(r, memory[task[r].proc])
     \/ Goto(r, "falling")
  /\ overlapped' = overlapped \cup ({r} \cap Queries)
  /\ UNCHANGED <<store, memory, pg, cache, known, gone>>

GetPg(r) ==
  /\ task[r].pc = "falling"
  /\ \/ Found(r, pg) /\ UNCHANGED faults
     \/ Found(r, <<>>) /\ Fault("pg")
  /\ overlapped' = overlapped \cup ({r} \cap Queries)
  /\ UNCHANGED <<store, memory, pg, cache, known, gone>>

-----------------------------------------------------------------------------
(* Uploads *)

\* set_documents, for the upload that opens the session.
Open(u) ==
  /\ ~ known /\ task[u].pc = "new" /\ \A r \in Requests : task[r].pc = "new"
  /\ Goto(u, "setting")
  /\ UNCHANGED <<store, memory, pg, cache, known, history, faults>>

Set(u) ==
  /\ task[u].pc = "setting"
  /\ doc' = <<u>> /\ version' = version + 1
  /\ task' = [task EXCEPT ![u].docs = doc', ![u].pc = "writing"]
  /\ UNCHANGED <<pdf, memory, pg, cache, known, history, faults>>

SetFails(u) ==
  /\ task[u].pc = "setting" /\ Fault("redis")
  /\ \/ doc' = <<u>> /\ version' = version + 1
     \/ UNCHANGED <<doc, version>>
  /\ memory' = [memory EXCEPT ![task[u].proc] = <<u>>]
  /\ Goto(u, "dumping")
  /\ UNCHANGED <<pdf, pg, cache, known, history>>

\* invalidate_query_cache: SMEMBERS, then DEL of the members and of their set.
Invalidate(u) ==
  /\ task[u].pc = "invalidating"
  /\ task' = [task EXCEPT ![u].pc = "deleting", ![u].seen = registered]
  /\ UNCHANGED <<store, memory, pg, cache, known, history, faults>>

Delete(u) ==
  /\ task[u].pc = "deleting"
  /\ answer' = IF task[u].seen THEN NoAnswer ELSE answer
  /\ registered' = FALSE
  /\ Goto(u, "watching")
  /\ UNCHANGED <<store, memory, pg, known, history, faults>>

\* It raised, after DEL was applied or not: logged, and the upload goes on.
InvalidateFails(u) ==
  /\ task[u].pc \in {"invalidating", "deleting"} /\ Fault("redis")
  /\ \/ /\ task[u].pc = "deleting" /\ registered' = FALSE
        /\ answer' = IF task[u].seen THEN NoAnswer ELSE answer
     \/ UNCHANGED cache
  /\ Goto(u, "watching")
  /\ overlapped' = overlapped \cup ({answer.by} \cap Queries)
  /\ UNCHANGED <<store, memory, pg, known, gone>>

\* _redis_append.  WATCH precedes the reads: what changes between the two only
\* makes EXEC fail, as it does when it changes later.
Watch(u) ==
  /\ task[u].pc = "watching"
  /\ task' = [task EXCEPT ![u].pc = "executing", ![u].docs = Content,
                          ![u].ver = version, ![u].old = doc = <<>> /\ pdf # <<>>]
  /\ UNCHANGED <<store, memory, pg, cache, known, history, faults>>

UnwatchedMutant(u) == TRUE
Unchanged(u) == task[u].ver = version

Commit(u) ==
  /\ doc' = Append(task[u].docs, u) /\ version' = version + 1
  /\ pdf' = IF task[u].old THEN <<>> ELSE pdf

Exec(u) ==
  /\ task[u].pc = "executing" /\ Unchanged(u)
  /\ Commit(u)
  /\ task' = [task EXCEPT ![u].pc = "writing", ![u].docs = doc']
  /\ UNCHANGED <<memory, pg, cache, known, history, faults>>

\* WatchError: once more, up to _APPEND_MAX_RETRIES.
Retry(u) ==
  /\ task[u].pc = "executing" /\ ~ Unchanged(u)
  /\ task[u].tries + 1 < MaxTries
  /\ task' = [task EXCEPT ![u].pc = "watching", ![u].tries = @ + 1]
  /\ UNCHANGED <<store, memory, pg, cache, known, history, faults>>

\* _memory_append.  The list it returns is the stored one, so that the copy
\* written to PostgreSQL is the list as it is at that time.
NestMutant(u) == [memory EXCEPT ![task[u].proc] = Append(@, task[u].docs)]
OverwriteMutant(u) == [memory EXCEPT ![task[u].proc] = <<u>>]
MemoryAppend(u) == [memory EXCEPT ![task[u].proc] = Append(@, u)]

\* The RuntimeError after the last retry is caught by append_document.
GiveUp(u) ==
  /\ task[u].pc = "executing" /\ ~ Unchanged(u)
  /\ task[u].tries + 1 >= MaxTries
  /\ memory' = MemoryAppend(u)
  /\ Goto(u, "dumping")
  /\ UNCHANGED <<store, pg, cache, known, history, faults>>

\* No client, or a call raised: EXEC may have been applied.
AgainMutant(u) == Goto(u, "watching") /\ UNCHANGED memory
FallBack(u) == Goto(u, "dumping") /\ memory' = MemoryAppend(u)
AppendFails(u) ==
  /\ task[u].pc \in {"watching", "executing"} /\ Fault("redis")
  /\ \/ task[u].pc = "executing" /\ Unchanged(u) /\ Commit(u)
     \/ UNCHANGED store
  /\ FallBack(u)
  /\ UNCHANGED <<pg, cache, known, history>>

\* _pg_write_session; what it raises is logged.
WritePg(u) ==
  /\ task[u].pc \in {"writing", "dumping"}
  /\ \/ /\ pg' = IF task[u].pc = "writing" THEN task[u].docs ELSE memory[task[u].proc]
        /\ UNCHANGED faults
     \/ UNCHANGED pg /\ Fault("pg")
  /\ Goto(u, "ended") /\ known' = TRUE
  /\ UNCHANGED <<store, memory, cache, history>>

-----------------------------------------------------------------------------
(* Queries: _query_document_impl *)

\* A complete result is stored, a partial or failed one is not.
Store(q) ==
  /\ task[q].pc = "storing"
  /\ \/ /\ answer' = [docs |-> task[q].docs, by |-> q]
        /\ Goto(q, "registering")
     \/ UNCHANGED answer /\ Goto(q, "ended")
  /\ UNCHANGED <<store, memory, pg, registered, known, history, faults>>

ForgetMutant(q) == registered
Registers(q) == TRUE
Register(q) ==
  /\ task[q].pc = "registering"
  /\ registered' = Registers(q)
  /\ Goto(q, "ended")
  /\ UNCHANGED <<store, memory, pg, answer, known, history, faults>>

StoreFails(q) ==
  /\ task[q].pc \in {"storing", "registering"} /\ Fault("redis")
  /\ \/ /\ task[q].pc = "storing" /\ UNCHANGED registered
        /\ answer' = [docs |-> task[q].docs, by |-> q]
     \/ task[q].pc = "registering" /\ registered' = TRUE /\ UNCHANGED answer
     \/ UNCHANGED cache
  /\ Goto(q, "ended")
  /\ overlapped' = overlapped \cup {q}
  /\ UNCHANGED <<store, memory, pg, known, gone>>

-----------------------------------------------------------------------------
(* The environment *)

\* Before 6.0.9 Redis did not tell a WATCH that the key had expired.
Expire ==
  /\ Content # <<>> /\ Fault("expire")
  /\ doc' = <<>> /\ pdf' = <<>> /\ version' \in {version, version + 1}
  /\ gone' = gone \cup Elems(Content)
  /\ overlapped' = overlapped \cup Querying \cup ({answer.by} \cap Queries)
  /\ UNCHANGED <<memory, pg, cache, task, known>>

ExpirePg ==
  /\ pg # <<>> /\ Fault("expire")
  /\ pg' = <<>>
  /\ UNCHANGED <<store, memory, cache, task, known, history>>

\* The hour of an answer is over; the set of keys lives at least as long.
ExpireAnswer ==
  /\ answer # NoAnswer
  /\ answer' = NoAnswer
  /\ UNCHANGED <<store, memory, pg, registered, task, known, history, faults>>

Crash(p) ==
  /\ Fault("crash")
  /\ memory' = [memory EXCEPT ![p] = <<>>]
  /\ gone' = gone \cup Elems(memory[p])
  /\ overlapped' = overlapped \cup {q \in Querying : task[q].proc = p}
  /\ task' = [r \in Requests |-> IF task[r].proc = p /\ task[r].pc \notin {"new"} \cup Ended
                                 THEN [task[r] EXCEPT !.pc = "lost"] ELSE task[r]]
  /\ UNCHANGED <<store, pg, cache, known>>

-----------------------------------------------------------------------------
\* No session yet, or one the client keeps from the time of the former format.
Init ==
  /\ doc = <<>> /\ pg = <<>> /\ version = 0
  /\ \/ known = FALSE /\ pdf = <<>>
     \/ known = TRUE /\ pdf = <<Old>>
  /\ memory = [p \in Procs |-> <<>>]
  /\ answer = NoAnswer /\ registered = FALSE
  /\ \E at \in [Requests -> Procs] :
       task = [r \in Requests |-> [pc |-> "new", proc |-> at[r], docs |-> <<>>, ver |-> 0,
                                   old |-> FALSE, seen |-> FALSE, tries |-> 0]]
  /\ overlapped = {} /\ gone = {} /\ faults = 0

UploadStep(u) == \/ Open(u) \/ Set(u) \/ SetFails(u)
                 \/ Invalidate(u) \/ Delete(u) \/ InvalidateFails(u)
                 \/ Watch(u) \/ Exec(u) \/ Retry(u) \/ GiveUp(u) \/ AppendFails(u)
                 \/ WritePg(u)
QueryStep(q)  == Store(q) \/ Register(q) \/ StoreFails(q)

Next == \/ \E r \in Requests : Arrive(r) \/ Get(r) \/ GetFails(r) \/ GetPg(r)
        \/ \E u \in Uploads : UploadStep(u)
        \/ \E q \in Queries : QueryStep(q)
        \/ Expire \/ ExpirePg \/ ExpireAnswer
        \/ \E p \in Procs : Crash(p)

Spec == Init /\ [][Next]_vars

-----------------------------------------------------------------------------
(* Properties *)

\* Types: every variable holds a value the code could hold.
TypeOK ==
  /\ doc \in Seq(Documents) /\ pdf \in Seq(Documents) /\ version \in Nat
  /\ memory \in [Procs -> Seq(Documents)] /\ pg \in Seq(Documents)
  /\ answer \in [docs : Seq(Documents), by : Queries \cup {NoQuery}]
  /\ registered \in BOOLEAN /\ known \in BOOLEAN
  /\ task \in [Requests -> Task]
  /\ overlapped \subseteq Queries /\ gone \subseteq Documents /\ faults \in Nat

\* "concurrent uploads to the same session_key cannot overwrite each other"
\* (app/redis_client.py:261-262): what Redis holds of a session only grows by one
\* document at the end, migration included, until it expires.
UploadsSurvive ==
  [][\/ Content = <<>> \/ Content' = <<>> \/ Content' = Content
     \/ \E u \in Uploads : Content' = Append(Content, u)]_vars

\* A retry is not a second upload: neither a conflict nor an ambiguous EXEC puts
\* a document twice in any of the copies.
Distinct(s) == \A i, j \in 1..Len(s) : s[i] = s[j] => i = j
StoredOnce == Distinct(doc) /\ Distinct(pg) /\ \A p \in Procs : Distinct(memory[p])

\* An upload that was confirmed is in Redis or in the memory of the process that
\* confirmed it, unless a fault removed it from there.
AcceptedIsKept ==
  \A u \in Uploads : task[u].pc = "ended" =>
    u \in Elems(Content) \cup Elems(memory[task[u].proc]) \cup gone

\* "so that stale results are not served for the updated dataset"
\* (app/document_intelligence.py:743-744): an answer found by a query that no
\* upload overlapped and no fault hit is deleted before the session changes.
CleanAnswersAreCurrent ==
  answer.by \in Queries \ overlapped => answer.docs = Content

\* "Acts as a durable fallback" (app/db/document_sessions.py:4): the PostgreSQL copy
\* never loses a document while the row lives.
DurableCopyGrows == [][pg' = <<>> \/ Elems(pg) \subseteq Elems(pg')]_vars
=============================================================================
