---------------------------- MODULE EntityExtraction ----------------------------
(***************************************************************************)
(* The extraction workers (worker/entity_extraction.py) and the two        *)
(* publishers of their stream (app/streams.py).  A document is published   *)
(* as one message, or cut into chunks that the workers extract on their    *)
(* own; a Redis hash collects the partial results and counts them, and the *)
(* worker that counts the last chunk merges them into the knowledge graph. *)
(*                                                                         *)
(* A message is a chunk index or Whole, and its text is the set of facts a *)
(* model finds in it (Mentions).  The writes to the graph are single steps *)
(* here; KnowledgeGraph has them statement by statement.                   *)
(***************************************************************************)
EXTENDS Naturals, Sequences, FiniteSets

CONSTANTS
    Workers,     \* the extraction workers
    N,           \* the chunks the document is cut into
    Facts,       \* what can be found in a text
    Mentions,    \* the facts each message's text states
    MaxFaults    \* a bound: how many failures a behaviour may have

Chunks == 1..N
Whole == N + 1      \* the message of a text published in one piece
Messages == Chunks \cup {Whole}

ASSUME ExtractionAssumption ==
    /\ N \in Nat \ {0}
    /\ Mentions \in [Messages -> SUBSET Facts]
    /\ MaxFaults \in Nat

MaxExtractionRetries == 3   \* _MAX_EXTRACTION_RETRIES
ChunkMaxRetries == 2        \* _CHUNK_MAX_RETRIES

VARIABLES
    toPublish,   \* what the two publishers have still to add, in order
    queue,       \* stream entries no worker was given yet
    pending,     \* entries given to a worker and not acknowledged
    progress,    \* the hash extraction_progress:{session_id}
    work,        \* what each worker is doing
    graph,       \* the facts in the knowledge graph
    retries,     \* failed_extraction_tasks.attempt_count of each message
    found,       \* history: what the extraction of a message returned
    merges,      \* history: how many workers were told to merge
    faults,      \* how many failures there were
    losses       \* history: the failures that lose results, or the merge, for good

vars == <<toPublish, queue, pending, progress, work, graph, retries, found,
          merges, faults, losses>>

-----------------------------------------------------------------------------
NoMsg == 0
Hash == 0           \* what toPublish holds for the initialisation of the hash
Idle == [pc |-> "idle", msg |-> NoMsg, tries |-> 0, failed |-> FALSE,
         merging |-> FALSE, next |-> 1, result |-> {}]

\* A hash Redis does not have; a write to it makes it again, counter at zero.
NoHash == [chunk |-> [i \in Chunks |-> "none"], done |-> 0, exists |-> FALSE]

Fault == faults < MaxFaults /\ faults' = faults + 1
Ok == faults' = faults
Loses(cause) == losses' = losses \cup {cause}
Safe == losses' = losses

At(w, pc) == work[w].pc = pc
Go(w, pc) == work' = [work EXCEPT ![w].pc = pc]
IsChunk(w) == work[w].msg \in Chunks
WillCount(w) == IsChunk(w) /\ work[w].pc \in {"extract", "track", "count"}

Init ==
    /\ toPublish = [i \in 1..N + 2 |-> i - 1]   \* Hash, the chunks, Whole
    /\ queue = <<>>
    /\ pending = {}
    /\ progress = NoHash
    /\ work = [w \in Workers |-> Idle]
    /\ graph = {}
    /\ retries = [m \in Messages |-> 0]
    /\ found = [m \in Messages |-> {}]
    /\ merges = 0
    /\ faults = 0
    /\ losses = {}

-----------------------------------------------------------------------------
(* The publishers. *)

\* The hash is initialised before the first chunk is added; the fields of an
\* earlier document with the same session would stay.
PublishHash ==
    /\ toPublish # <<>> /\ Head(toPublish) = Hash
    /\ progress' = [progress EXCEPT !.done = 0, !.exists = TRUE]
    /\ toPublish' = Tail(toPublish)
    /\ Ok /\ UNCHANGED <<queue, pending, work, graph, retries, found, merges, losses>>

\* One XADD.
PublishMessage ==
    /\ toPublish # <<>> /\ Head(toPublish) # Hash
    /\ queue' = Append(queue, Head(toPublish))
    /\ toPublish' = Tail(toPublish)
    /\ Ok /\ UNCHANGED <<pending, progress, work, graph, retries, found, merges, losses>>

\* Redis fails: the chunks not yet added are given up and the caller is told
\* that none was published; a whole text is given up silently.  The XADD may
\* have been applied.
PublishFails ==
    /\ toPublish # <<>> /\ Fault
    /\ \E applied \in BOOLEAN :
         queue' = IF applied /\ Head(toPublish) # Hash
                  THEN Append(queue, Head(toPublish)) ELSE queue
    /\ IF Head(toPublish) = Whole THEN toPublish' = <<>> /\ Safe
       ELSE toPublish' = <<Whole>> /\ Loses("uncounted")
    /\ UNCHANGED <<pending, progress, work, graph, retries, found, merges>>

-----------------------------------------------------------------------------
(* A worker, from the read to the acknowledgement. *)

\* consume_next: only entries nobody was given yet (">").
Read(w) ==
    /\ At(w, "idle") /\ queue # <<>>
    /\ queue' = Tail(queue)
    /\ pending' = pending \cup {Head(queue)}
    /\ work' = [work EXCEPT ![w] = [Idle EXCEPT !.pc = "extract", !.msg = Head(queue)]]
    /\ Ok /\ UNCHANGED <<toPublish, progress, graph, retries, found, merges, losses>>

\* The entry is assigned, the reply is lost and consume_jobs returns nothing.
ReadLost(w) ==
    /\ At(w, "idle") /\ queue # <<>> /\ Fault
    /\ queue' = Tail(queue)
    /\ pending' = pending \cup {Head(queue)}
    /\ IF Head(queue) = Whole THEN Safe ELSE Loses("uncounted")
    /\ UNCHANGED <<toPublish, progress, work, graph, retries, found, merges>>

\* The model answers, for every batch of the text or for some: a batch that
\* fails, or an error that is no rate limit, is an empty answer like any other.
Extract(w) ==
    LET m == work[w].msg
    IN /\ At(w, "extract")
       /\ \E answer \in {{}, Mentions[m]} :
            /\ work' = [work EXCEPT ![w].pc = IF IsChunk(w) THEN "track" ELSE "store",
                                    ![w].result = answer]
            /\ found' = [found EXCEPT ![m] = answer]
       /\ Ok /\ UNCHANGED <<toPublish, queue, pending, progress, graph, retries,
                            merges, losses>>

\* MUTANT: one attempt too many.
MayTryOnceMore(w) == work[w].tries <= ChunkMaxRetries
MayTryAgain(w) == work[w].tries < ChunkMaxRetries

\* A rate limit is raised.  A chunk is tried three times and then marked failed,
\* a whole text goes to the retry path at once.
RateLimited(w) ==
    /\ At(w, "extract")
    /\ work' = [work EXCEPT ![w] =
         IF ~IsChunk(w) THEN [@ EXCEPT !.pc = "retry"]
         ELSE IF MayTryAgain(w) THEN [@ EXCEPT !.tries = work[w].tries + 1]
         ELSE [@ EXCEPT !.pc = "track", !.failed = TRUE]]
    /\ Ok /\ UNCHANGED <<toPublish, queue, pending, progress, graph, retries,
                         found, merges, losses>>

\* hset of the chunk's result and status, then expire.
Tracked(w) == [progress EXCEPT
    !.chunk[work[w].msg] = IF work[w].failed THEN "failed" ELSE "done", !.exists = TRUE]
TrackChunk(w) ==
    /\ At(w, "track")
    /\ progress' = Tracked(w) /\ Go(w, "count")
    /\ Ok /\ UNCHANGED <<toPublish, queue, pending, graph, retries, found, merges, losses>>

\* The write raises, applied or not.
TrackFails(w) ==
    /\ At(w, "track") /\ Fault
    /\ progress' \in {progress, Tracked(w)} /\ Go(w, "fallback")
    /\ Loses("uncounted")
    /\ UNCHANGED <<toPublish, queue, pending, graph, retries, found, merges>>

\* MUTANT: the worker looks whether every chunk is there instead of at the counter.
LooksAtChunks(p) == \A i \in Chunks : p.chunk[i] # "none"
\* Of all the workers one sees the counter reach the number of chunks.
IsLast(p) == p.done = N

\* MUTANT: a failed chunk is not counted.
CountsSuccess(w) == [progress EXCEPT !.done = IF work[w].failed THEN @ ELSE @ + 1, !.exists = TRUE]
Counted(w) == [progress EXCEPT !.done = @ + 1, !.exists = TRUE]

\* HINCRBY done_count; the last one merges, the others are done.
CountChunk(w) ==
    /\ At(w, "count")
    /\ progress' = Counted(w)
    /\ IF IsLast(progress')
       THEN /\ work' = [work EXCEPT ![w].pc = "merge", ![w].merging = TRUE,
                                    ![w].result = {}, ![w].next = 1]
            /\ merges' = merges + 1
       ELSE Go(w, "ack") /\ merges' = merges
    /\ Ok /\ UNCHANGED <<toPublish, queue, pending, graph, retries, found, losses>>

\* The increment raises.  If it was applied, and was the last, nobody merges.
CountFails(w) ==
    /\ At(w, "count") /\ Fault /\ Go(w, "fallback")
    /\ \/ progress' = progress /\ Loses("uncounted")
       \/ /\ progress' = Counted(w)
          /\ IF IsLast(progress') THEN Loses("count") ELSE Safe
    /\ UNCHANGED <<toPublish, queue, pending, graph, retries, found, merges>>

\* MUTANT: a chunk whose progress could not be written is dropped.
FallbackDrops(w) == Go(w, "ack")
\* The chunk is stored on its own, unless its extraction had failed.
FallsBack(w) == Go(w, IF work[w].failed THEN "ack" ELSE "store")
Fallback(w) ==
    /\ At(w, "fallback") /\ FallsBack(w)
    /\ Ok /\ UNCHANGED <<toPublish, queue, pending, progress, graph, retries,
                         found, merges, losses>>

\* The merging worker reads one chunk after the other; a missing or failed
\* one adds nothing.
MergeRead(w) ==
    LET i == work[w].next
    IN /\ At(w, "merge") /\ i <= N
       /\ work' = [work EXCEPT ![w].next = i + 1,
            ![w].result = IF progress.chunk[i] = "done" THEN @ \cup found[i] ELSE @]
       /\ Ok /\ UNCHANGED <<toPublish, queue, pending, progress, graph, retries,
                            found, merges, losses>>

Merged(w) ==
    /\ At(w, "merge") /\ work[w].next > N
    /\ Go(w, "store")
    /\ Ok /\ UNCHANGED <<toPublish, queue, pending, progress, graph, retries,
                         found, merges, losses>>

\* A read raises: the merge is given up and the message is acknowledged.
MergeFails(w) ==
    /\ At(w, "merge") /\ work[w].next <= N /\ Fault
    /\ Go(w, "ack") /\ Loses("merge")
    /\ UNCHANGED <<toPublish, queue, pending, progress, graph, retries, found, merges>>

\* _store_extraction_result.
Store(w) ==
    /\ At(w, "store")
    /\ graph' = graph \cup work[w].result /\ Go(w, "ack")
    /\ Ok /\ UNCHANGED <<toPublish, queue, pending, progress, retries, found,
                         merges, losses>>

\* An entity or relationship that cannot be written is skipped with a warning,
\* and the result counts as stored; a merge swallows every other error too.
StorePart(w) ==
    /\ At(w, "store") /\ Fault
    /\ \E kept \in SUBSET work[w].result : graph' = graph \cup kept
    /\ Go(w, "ack") /\ Loses("store")
    /\ UNCHANGED <<toPublish, queue, pending, progress, retries, found, merges>>

\* No connection for the relationships: outside a merge the message fails.
StoreFails(w) ==
    /\ At(w, "store") /\ ~work[w].merging /\ Fault
    /\ \E kept \in SUBSET work[w].result : graph' = graph \cup kept
    /\ Go(w, "retry") /\ Safe
    /\ UNCHANGED <<toPublish, queue, pending, progress, retries, found, merges>>

\* XACK; a failure of it is logged and the entry stays pending.
Ack(w) ==
    /\ At(w, "ack")
    /\ \/ pending' = pending \ {work[w].msg} /\ Ok
       \/ pending' = pending /\ Fault
    /\ work' = [work EXCEPT ![w] = Idle]
    /\ UNCHANGED <<toPublish, queue, progress, graph, retries, found, merges, losses>>

\* The failure is recorded and the entry left pending, up to the third time.
\* A row that cannot be written counts as no retry at all.
Retry(w) ==
    LET m == work[w].msg
    IN /\ At(w, "retry")
       /\ \/ /\ retries' = [retries EXCEPT ![m] = @ + 1] /\ Ok
             /\ Go(w, IF retries[m] + 1 >= MaxExtractionRetries THEN "ack" ELSE "left")
          \/ retries' = retries /\ Fault /\ Go(w, "left")
       /\ UNCHANGED <<toPublish, queue, pending, progress, graph, found, merges, losses>>

\* "Leave unacked": the worker reads on.
Leave(w) ==
    /\ At(w, "left")
    /\ work' = [work EXCEPT ![w] = Idle]
    /\ Ok /\ UNCHANGED <<toPublish, queue, pending, progress, graph, retries,
                         found, merges, losses>>

\* The process dies and is started again; its entry stays pending.
Crash(w) ==
    /\ ~At(w, "idle") /\ Fault
    /\ IF work[w].merging THEN Loses("crash")
       ELSE IF WillCount(w) THEN Loses("uncounted") ELSE Safe
    /\ work' = [work EXCEPT ![w] = Idle]
    /\ UNCHANGED <<toPublish, queue, pending, progress, graph, retries, found, merges>>

\* An hour without a write: Redis drops the hash.
Expire ==
    /\ progress.exists /\ Fault
    /\ progress' = NoHash
    /\ Loses("expire")
    /\ UNCHANGED <<toPublish, queue, pending, work, graph, retries, found, merges>>

WorkerStep(w) ==
    \/ Read(w) \/ Extract(w) \/ RateLimited(w) \/ TrackChunk(w) \/ CountChunk(w)
    \/ Fallback(w) \/ MergeRead(w) \/ Merged(w) \/ Store(w) \/ Ack(w) \/ Retry(w)
    \/ Leave(w)
WorkerFault(w) ==
    \/ ReadLost(w) \/ TrackFails(w) \/ CountFails(w) \/ MergeFails(w)
    \/ StorePart(w) \/ StoreFails(w) \/ Crash(w)

Next ==
    \/ PublishHash \/ PublishMessage \/ PublishFails \/ Expire
    \/ \E w \in Workers : WorkerStep(w) \/ WorkerFault(w)

\* The loops of the publishers and of every worker keep running.
Fairness ==
    /\ WF_vars(PublishHash \/ PublishMessage)
    /\ \A w \in Workers : WF_vars(WorkerStep(w))

Spec == Init /\ [][Next]_vars /\ Fairness

-----------------------------------------------------------------------------
(* What must hold. *)

\* Types of the variables.
TypeOK ==
    /\ toPublish \in Seq(Messages \cup {Hash})
    /\ queue \in Seq(Messages)
    /\ pending \subseteq Messages
    /\ progress \in [chunk : [Chunks -> {"none", "failed", "done"}], done : 0..N,
                     exists : BOOLEAN]
    /\ work \in [Workers ->
         [pc : {"idle", "extract", "track", "count", "fallback", "merge", "store",
                "ack", "retry", "left"},
          msg : Messages \cup {NoMsg}, tries : 0..ChunkMaxRetries, failed : BOOLEAN,
          merging : BOOLEAN, next : 1..N + 1, result : SUBSET Facts]]
    /\ graph \subseteq Facts
    /\ retries \in [Messages -> 0..MaxExtractionRetries]
    /\ found \in [Messages -> SUBSET Facts]
    /\ merges \in Nat
    /\ faults \in 0..MaxFaults
    /\ losses \subseteq {"count", "merge", "store", "crash", "expire", "uncounted"}

\* The chunks on their way to the counter.
StillToCount ==
    {i \in Chunks : \/ \E k \in DOMAIN toPublish : toPublish[k] = i
                    \/ \E k \in DOMAIN queue : queue[k] = i
                    \/ \E w \in Workers : WillCount(w) /\ work[w].msg = i}

\* "Atomic counter - exactly one worker sees done_count == total_chunks": never
\* two; that one finds every chunk in the hash unless the hash expired; and it
\* comes, for what the counter lacks is on its way to it, unless a failure took
\* a chunk away before it was counted.
MergedOnceAndWhole ==
    /\ merges <= 1
    /\ "expire" \notin losses =>
         \A w \in Workers : At(w, "merge") => \A i \in Chunks : progress.chunk[i] # "none"
    /\ losses \cap {"expire", "uncounted"} = {} =>
         progress.done + Cardinality(StillToCount) = N

Gone(m) == m \notin pending /\ \A i \in DOMAIN queue : queue[i] # m

\* The chunk is in the hash, and the worker that counts the last one has still to
\* merge it; if a chunk is never counted it waits until the hash expires.
AwaitsMerge(m) ==
    /\ m \in Chunks /\ progress.chunk[m] = "done"
    /\ progress.done < N \/ \E w \in Workers : work[w].merging

\* What was found in an acknowledged message is in the graph or awaits a merge,
\* unless one of the failures happened that lose results for good.
AcknowledgedIsKept ==
    losses \subseteq {"uncounted"} => \A m \in Messages :
        Gone(m) => found[m] \subseteq graph \/ AwaitsMerge(m)

\* A document published without a failure is in the graph in the end, whatever
\* happened to the extraction of its chunks: a chunk that failed adds nothing
\* and does not hold up the others.
DocumentIsStored ==
    toPublish = <<>> ~> \/ faults > 0
                        \/ \A i \in Chunks : Gone(i) /\ found[i] \subseteq graph

\* "Leave unacked - consumer group will redeliver": a message left pending by a
\* failure is given to a worker again.
FailedIsRedelivered ==
    \A m \in Messages : (\E w \in Workers : At(w, "left") /\ work[w].msg = m)
        ~> (\E w \in Workers : At(w, "extract") /\ work[w].msg = m)
=============================================================================
