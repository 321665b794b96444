------------------------- MODULE EntityExtractionProofs -------------------------
(***************************************************************************)
(* The chunks of a document are merged once and whole, and nothing that    *)
(* was found in an acknowledged message is lost, for every number of       *)
(* workers, chunks and failures.                                           *)
(*                                                                         *)
(* The argument is in four layers, each inductive given the ones before:   *)
(* the types (Types); a message is in one place at a time (Places); the    *)
(* counter and the chunks on their way to it never exceed the number of    *)
(* chunks (Counting); what was found is stored, awaits the merge or is     *)
(* still pending (Keeping).                                                *)
(***************************************************************************)
EXTENDS EntityExtraction, FiniteSetTheorems, TLAPS

-----------------------------------------------------------------------------
(* The inductive invariants. *)

Holds(s, m) == \E k \in DOMAIN s : s[k] = m
Distinct(s) == \A j, k \in DOMAIN s : s[j] = s[k] => j = k

\* What the publishers have to add is a tail of the whole list.
Line(k) == [i \in 1..N + 2 - k |-> i + k - 1]

\* The hash, with a counter nothing bounds, and what a worker holds.
Hashes == [chunk : [Chunks -> {"none", "failed", "done"}], done : Nat, exists : BOOLEAN]
Pcs == {"idle", "extract", "track", "count", "fallback", "merge", "store", "ack",
        "retry", "left"}
Doing == [pc : Pcs, msg : Messages \cup {NoMsg}, tries : 0..ChunkMaxRetries,
          failed : BOOLEAN, merging : BOOLEAN, next : 1..N + 1, result : SUBSET Facts]

\* TypeOK without the two bounds that need an argument, and a worker that is not
\* idle has a message.
Streams ==
    /\ toPublish \in Seq(Messages \cup {Hash})
    /\ queue \in Seq(Messages)
    /\ pending \subseteq Messages
Results ==
    /\ progress \in Hashes
    /\ graph \subseteq Facts
    /\ retries \in [Messages -> Nat]
    /\ found \in [Messages -> SUBSET Facts]
    /\ merges \in Nat
Failures ==
    /\ faults \in 0..MaxFaults
    /\ losses \subseteq {"count", "merge", "store", "crash", "expire", "uncounted"}
Working ==
    /\ work \in [Workers -> Doing]
    /\ \A w \in Workers : ~At(w, "idle") => work[w].msg \in Messages
Types == Streams /\ Results /\ Failures /\ Working

\* A message nobody was given yet has left no trace.
Fresh(m) == m \notin pending /\ retries[m] = 0 /\ found[m] = {}

\* What a worker at a step holds.
Shape(w) ==
    /\ work[w].pc = "idle" <=> work[w].msg = NoMsg
    /\ work[w].pc = "idle" => ~work[w].merging
    /\ work[w].pc # "idle" => work[w].msg \in pending
    /\ work[w].pc \in {"track", "count", "fallback", "merge"} => work[w].msg \in Chunks
    /\ work[w].merging =>
         work[w].pc \in {"merge", "store", "ack"} /\ work[w].msg \in Chunks
    /\ work[w].pc = "merge" => work[w].merging
    /\ work[w].pc = "extract" => found[work[w].msg] = {} /\ work[w].result = {}
    /\ work[w].failed => work[w].pc \notin {"idle", "extract"} /\ found[work[w].msg] = {}
    /\ work[w].pc \in {"track", "count", "fallback"} => work[w].result = found[work[w].msg]
    /\ work[w].pc = "store" /\ ~work[w].merging => work[w].result = found[work[w].msg]
    /\ work[w].pc \notin {"idle", "left"} => retries[work[w].msg] = 0

Places ==
    /\ \E k \in 0..N + 2 : toPublish = Line(k)
    /\ Distinct(queue)
    /\ \A m \in Messages : Holds(toPublish, m) => ~Holds(queue, m)
    /\ \A m \in Messages : Holds(toPublish, m) \/ Holds(queue, m) => Fresh(m)
    /\ \A w \in Workers : Shape(w)
    /\ \A v, w \in Workers : work[v].msg = work[w].msg /\ work[v].msg # NoMsg => v = w
    /\ \A m \in Messages : retries[m] <= 1

\* The chunks in the hash that are not on their way to the counter any more.
TrackedAndPast == {i \in Chunks : progress.chunk[i] # "none"} \ StillToCount

Counting ==
    /\ progress.done + Cardinality(StillToCount) <= N
    /\ losses \cap {"expire", "uncounted"} = {} =>
         progress.done + Cardinality(StillToCount) = N
    /\ merges = 0 \/ (merges = 1 /\ StillToCount = {})
    /\ \A w \in Workers : work[w].merging => merges = 1
    /\ "expire" \notin losses =>
         /\ progress.done <= Cardinality(TrackedAndPast)
         /\ merges = 1 => \A i \in Chunks : progress.chunk[i] # "none"
         /\ \A w \in Workers : At(w, "count") \/ work[w].merging =>
              progress.chunk[work[w].msg] = IF work[w].failed THEN "failed" ELSE "done"

Kept(m) ==
    \/ found[m] \subseteq graph
    \/ AwaitsMerge(m)
    \/ m \in pending /\ \A w \in Workers : work[w].msg = m => ~At(w, "ack")

\* What the merge has read, holds or has stored.
MergeHolds(w) ==
    \A i \in Chunks : progress.chunk[i] = "done" =>
        /\ At(w, "merge") /\ i < work[w].next => found[i] \subseteq work[w].result
        /\ At(w, "store") => found[i] \subseteq work[w].result
        /\ At(w, "ack") => found[i] \subseteq graph

Keeping ==
    losses \subseteq {"uncounted"} =>
        /\ \A m \in Messages : Kept(m)
        /\ \A w \in Workers : work[w].merging => MergeHolds(w)

-----------------------------------------------------------------------------
(* Sequences. *)

\* Appending an entry that is not there keeps the entries distinct.
LEMMA AppendHolds ==
    ASSUME NEW S, NEW s \in Seq(S), NEW e \in S
    PROVE  /\ \A m : Holds(Append(s, e), m) <=> Holds(s, m) \/ m = e
           /\ Distinct(s) /\ ~Holds(s, e) => Distinct(Append(s, e))
<1>1. /\ Append(s, e) \in Seq(S) /\ DOMAIN Append(s, e) = 1..Len(s) + 1
      /\ DOMAIN s = 1..Len(s) /\ Len(s) \in Nat
      /\ \A k \in 1..Len(s) : Append(s, e)[k] = s[k]
      /\ Append(s, e)[Len(s) + 1] = e
  OBVIOUS
<1>2. QED BY <1>1 DEF Holds, Distinct

\* Of distinct entries the tail has all but the head.
LEMMA TailHolds ==
    ASSUME NEW S, NEW s \in Seq(S), s # <<>>, Distinct(s)
    PROVE  /\ Distinct(Tail(s)) /\ Holds(s, Head(s)) /\ Head(s) \in S
           /\ \A m : Holds(Tail(s), m) <=> Holds(s, m) /\ m # Head(s)
<1>1. /\ Tail(s) \in Seq(S) /\ DOMAIN Tail(s) = 1..Len(s) - 1
      /\ DOMAIN s = 1..Len(s) /\ Len(s) \in Nat \ {0}
      /\ \A k \in 1..Len(s) - 1 : Tail(s)[k] = s[k + 1]
      /\ Head(s) = s[1] /\ Head(s) \in S
  OBVIOUS
<1>2. Distinct(Tail(s))
  BY <1>1 DEF Distinct
<1>3. Holds(s, Head(s)) BY <1>1 DEF Holds
<1>4. ASSUME NEW m, Holds(Tail(s), m) PROVE Holds(s, m) /\ m # Head(s)
  BY <1>1, <1>4 DEF Holds, Distinct
<1>5. ASSUME NEW m, Holds(s, m), m # Head(s) PROVE Holds(Tail(s), m)
  <2>1. PICK k \in 1..Len(s) : s[k] = m BY <1>1, <1>5 DEF Holds
  <2>2. k - 1 \in 1..Len(s) - 1 /\ Tail(s)[k - 1] = m BY <1>1, <1>5, <2>1
  <2>3. QED BY <1>1, <2>2 DEF Holds
<1>6. QED BY <1>1, <1>2, <1>3, <1>4, <1>5

\* What a tail of the publishers' list holds.
LEMMA LineHolds ==
    ASSUME NEW k \in 0..N + 2
    PROVE  /\ \A m : Holds(Line(k), m) <=> m \in k..N + 1
           /\ k <= N + 1 => Line(k) # <<>> /\ Head(Line(k)) = k /\ Tail(Line(k)) = Line(k + 1)
           /\ k = N + 2 => Line(k) = <<>>
           /\ k = Whole => Line(k) = <<Whole>>
<1>0. N \in Nat BY ExtractionAssumption
<1>1. DOMAIN Line(k) = 1..N + 2 - k /\ \A i \in 1..N + 2 - k : Line(k)[i] = i + k - 1
  BY DEF Line
<1>2. ASSUME NEW m, m \in k..N + 1 PROVE Holds(Line(k), m)
  <2>1. m - k + 1 \in 1..N + 2 - k BY <1>0, <1>2
  <2>2. Line(k)[m - k + 1] = m BY <1>0, <1>1, <1>2, <2>1
  <2>3. QED BY <1>1, <2>1, <2>2 DEF Holds
<1>3. ASSUME NEW m, Holds(Line(k), m) PROVE m \in k..N + 1
  BY <1>0, <1>1, <1>3 DEF Holds
<1>4. Line(k) \in Seq(Nat) /\ Len(Line(k)) = N + 2 - k
  BY <1>0 DEF Line
<1>5. ASSUME k <= N + 1
      PROVE  Line(k) # <<>> /\ Head(Line(k)) = k /\ Tail(Line(k)) = Line(k + 1)
  <2>1. Line(k) # <<>> /\ Head(Line(k)) = k BY <1>0, <1>1, <1>4, <1>5
  <2>2. Tail(Line(k)) \in Seq(Nat) /\ Len(Tail(Line(k))) = N + 1 - k
    BY <1>0, <1>4, <1>5, <2>1
  <2>3. Line(k + 1) \in Seq(Nat) /\ Len(Line(k + 1)) = N + 1 - k
    BY <1>0, <1>5 DEF Line
  <2>4. ASSUME NEW i \in 1..N + 1 - k PROVE Tail(Line(k))[i] = Line(k + 1)[i]
    <3>1. Tail(Line(k))[i] = Line(k)[i + 1] BY <1>0, <1>4, <1>5, <2>1
    <3>2. QED BY <1>0, <1>1, <1>5, <3>1 DEF Line
  <2>5. QED BY <2>1, <2>2, <2>3, <2>4
<1>6. ASSUME k = N + 2 PROVE Line(k) = <<>> BY <1>0, <1>4, <1>6
<1>7. ASSUME k = Whole PROVE Line(k) = <<Whole>>
  <2>1. Len(Line(k)) = 1 /\ Line(k)[1] = Whole BY <1>0, <1>1, <1>4, <1>7 DEF Whole
  <2>2. \A s \in Seq(Nat) : Len(s) = 1 => s = <<s[1]>> OBVIOUS
  <2>3. QED BY <1>4, <2>1, <2>2
<1>8. QED BY <1>2, <1>3, <1>5, <1>6, <1>7

\* The publishers' next entry and what is left after it.
LEMMA Published ==
    ASSUME NEW k \in 0..N + 2, toPublish = Line(k), toPublish # <<>>
    PROVE  /\ k \in 0..N + 1 /\ Head(toPublish) = k /\ Tail(toPublish) = Line(k + 1)
           /\ k + 1 \in 0..N + 2 /\ <<Whole>> = Line(Whole) /\ <<>> = Line(N + 2)
           /\ Whole \in 0..N + 2 /\ N + 2 \in 0..N + 2
BY LineHolds, ExtractionAssumption DEF Whole

-----------------------------------------------------------------------------
(* Types. *)

\* What a call writes to the hash.
LEMMA HashKept ==
    ASSUME Types, NEW w \in Workers
    PROVE  /\ NoHash \in Hashes /\ Tracked(w) \in Hashes /\ Counted(w) \in Hashes
           /\ NoHash.done = 0 /\ \A i \in Chunks : NoHash.chunk[i] = "none"
           /\ Tracked(w).done = progress.done
           /\ \A i \in Chunks : Tracked(w).chunk[i] =
                 IF i # work[w].msg THEN progress.chunk[i]
                 ELSE IF work[w].failed THEN "failed" ELSE "done"
           /\ Counted(w).done = progress.done + 1 /\ Counted(w).chunk = progress.chunk
<1>1. /\ progress \in Hashes /\ progress.done \in Nat /\ progress.exists \in BOOLEAN
      /\ progress.chunk \in [Chunks -> {"none", "failed", "done"}]
  BY DEF Types, Results, Hashes
<1>2. NoHash \in Hashes /\ NoHash.done = 0 /\ \A i \in Chunks : NoHash.chunk[i] = "none"
  BY DEF NoHash, Hashes
<1>3. PICK s \in {"failed", "done"} : s = IF work[w].failed THEN "failed" ELSE "done"
  OBVIOUS
<1>4. PICK c : c = [progress.chunk EXCEPT ![work[w].msg] = s] OBVIOUS
<1>5. /\ c \in [Chunks -> {"none", "failed", "done"}]
      /\ \A i \in Chunks : c[i] = IF i # work[w].msg THEN progress.chunk[i] ELSE s
  BY <1>1, <1>4
<1>6. Tracked(w) = [progress EXCEPT !.chunk = c, !.exists = TRUE]
  BY <1>1, <1>3, <1>4 DEF Tracked, Hashes
<1>7. Tracked(w) \in Hashes /\ Tracked(w).done = progress.done /\ Tracked(w).chunk = c
  BY <1>1, <1>5, <1>6 DEF Hashes
<1>8. PICK d \in Nat : d = progress.done + 1 BY <1>1
<1>9. Counted(w) = [progress EXCEPT !.done = d, !.exists = TRUE]
  BY <1>1, <1>8 DEF Counted, Hashes
<1>10. /\ Counted(w) \in Hashes /\ Counted(w).done = d
       /\ Counted(w).chunk = progress.chunk
  BY <1>1, <1>8, <1>9 DEF Hashes
<1>11. QED BY <1>2, <1>3, <1>5, <1>7, <1>8, <1>10

\* A worker gets the fields k.
LEMMA Gets ==
    ASSUME Working, NEW w \in Workers, NEW k \in Doing, work' = [work EXCEPT ![w] = k]
    PROVE  /\ work' \in [Workers -> Doing] /\ work'[w] = k
           /\ \A v \in Workers \ {w} : work'[v] = work[v]
           /\ k.pc = "idle" \/ k.msg \in Messages => Working'
<1>1. /\ work' \in [Workers -> Doing] /\ work'[w] = k
      /\ \A v \in Workers \ {w} : work'[v] = work[v]
  BY DEF Working
<1>2. QED BY <1>1 DEF Working, At

\* A worker that goes on to another step keeps what it holds.
LEMMA Goes ==
    ASSUME Working, NEW w \in Workers, NEW p \in Pcs, Go(w, p), ~At(w, "idle")
    PROVE  /\ Working'
           /\ work'[w].pc = p /\ work'[w].msg = work[w].msg
           /\ work'[w].failed = work[w].failed /\ work'[w].merging = work[w].merging
           /\ work'[w].result = work[w].result /\ work'[w].next = work[w].next
           /\ \A v \in Workers \ {w} : work'[v] = work[v]
<1>1. work \in [Workers -> Doing] /\ work[w] \in Doing /\ work[w].msg \in Messages
  BY DEF Working
<1>2. PICK k : k = [work[w] EXCEPT !.pc = p] OBVIOUS
<1>3. /\ k \in Doing /\ k.pc = p /\ k.msg = work[w].msg /\ k.failed = work[w].failed
      /\ k.merging = work[w].merging /\ k.result = work[w].result /\ k.next = work[w].next
  BY <1>1, <1>2 DEF Doing
<1>4. work' = [work EXCEPT ![w] = k] BY <1>1, <1>2 DEF Go
<1>5. QED BY <1>1, <1>3, <1>4, Gets

\* A worker that is done.
LEMMA IdleIsTyped == Idle \in Doing /\ Idle.pc = "idle" /\ Idle.msg = NoMsg
                     /\ ~Idle.merging /\ ~Idle.failed
BY ExtractionAssumption DEF Idle, Doing, Pcs, ChunkMaxRetries

\* What a worker reads.
LEMMA ReadsFields ==
    ASSUME Working, NEW w \in Workers, NEW m \in Messages,
           work' = [work EXCEPT ![w] = [Idle EXCEPT !.pc = "extract", !.msg = m]]
    PROVE  /\ Working'
           /\ work'[w].pc = "extract" /\ work'[w].msg = m /\ work'[w].result = {}
           /\ ~work'[w].merging /\ ~work'[w].failed
           /\ \A v \in Workers \ {w} : work'[v] = work[v]
<1>1. PICK k : k = [Idle EXCEPT !.pc = "extract", !.msg = m] OBVIOUS
<1>2. /\ k \in Doing /\ k.pc = "extract" /\ k.msg = m /\ k.result = {}
      /\ ~k.merging /\ ~k.failed
  BY <1>1, IdleIsTyped DEF Doing, Pcs, Idle
<1>3. work' = [work EXCEPT ![w] = k] BY <1>1
<1>4. QED BY <1>2, <1>3, Gets

\* What an answer leaves with the worker.
LEMMA ExtractFields ==
    ASSUME Types, NEW w \in Workers, Extract(w)
    PROVE  \E answer \in SUBSET Facts :
             /\ Working' /\ found' = [found EXCEPT ![work[w].msg] = answer]
             /\ work'[w].pc = IF work[w].msg \in Chunks THEN "track" ELSE "store"
             /\ work'[w].msg = work[w].msg /\ work'[w].result = answer
             /\ work'[w].failed = work[w].failed /\ work'[w].merging = work[w].merging
             /\ \A v \in Workers \ {w} : work'[v] = work[v]
<1>1. work \in [Workers -> Doing] /\ work[w] \in Doing /\ work[w].msg \in Messages
  BY DEF Types, Working, Extract, At
<1>2. PICK answer \in {{}, Mentions[work[w].msg]} :
        /\ work' = [work EXCEPT ![w].pc = IF IsChunk(w) THEN "track" ELSE "store",
                                ![w].result = answer]
        /\ found' = [found EXCEPT ![work[w].msg] = answer]
  BY DEF Extract, IsChunk
<1>3. answer \subseteq Facts BY <1>1, <1>2, ExtractionAssumption
<1>4. PICK p \in Pcs : p = IF IsChunk(w) THEN "track" ELSE "store" BY DEF Pcs
<1>5. PICK k : k = [work[w] EXCEPT !.pc = p, !.result = answer] OBVIOUS
<1>6. /\ k \in Doing /\ k.pc = p /\ k.msg = work[w].msg /\ k.result = answer
      /\ k.failed = work[w].failed /\ k.merging = work[w].merging
  BY <1>1, <1>3, <1>5 DEF Doing
<1>7. work' = [work EXCEPT ![w] = k] BY <1>1, <1>2, <1>4, <1>5
<1>8. Working BY DEF Types
<1>9. QED BY <1>1, <1>2, <1>3, <1>4, <1>6, <1>7, <1>8, Gets DEF IsChunk

\* What a rate limit leaves with the worker.
LEMMA LimitedFields ==
    ASSUME Working, NEW w \in Workers, RateLimited(w)
    PROVE  /\ Working' /\ work'[w].msg = work[w].msg /\ work'[w].result = work[w].result
           /\ work'[w].merging = work[w].merging
           /\ \/ ~IsChunk(w) /\ work'[w].pc = "retry" /\ work'[w].failed = work[w].failed
              \/ work'[w].pc = "extract" /\ work'[w].failed = work[w].failed
              \/ IsChunk(w) /\ work'[w].pc = "track" /\ work'[w].failed
           /\ \A v \in Workers \ {w} : work'[v] = work[v]
<1>1. /\ work \in [Workers -> Doing] /\ work[w] \in Doing /\ work[w].msg \in Messages
      /\ work[w].pc = "extract"
  BY DEF Working, RateLimited, At
<1>2. CASE ~IsChunk(w)
  <2>1. Go(w, "retry") /\ "retry" \in Pcs /\ ~At(w, "idle")
    BY <1>1, <1>2 DEF RateLimited, Go, Pcs, At
  <2>2. QED BY <1>2, <2>1, Goes
<1>3. CASE IsChunk(w) /\ MayTryAgain(w)
  <2>1. PICK t : t = work[w].tries + 1 OBVIOUS
  <2>2. t \in 0..ChunkMaxRetries
    BY <1>1, <1>3, <2>1 DEF MayTryAgain, ChunkMaxRetries, Doing
  <2>3. PICK k : k = [work[w] EXCEPT !.tries = t] OBVIOUS
  <2>4. /\ k \in Doing /\ k.msg = work[w].msg /\ k.pc = "extract"
        /\ k.failed = work[w].failed /\ k.result = work[w].result
        /\ k.merging = work[w].merging
    BY <1>1, <2>2, <2>3 DEF Doing
  <2>5. work' = [work EXCEPT ![w] = [work[w] EXCEPT !.tries = work[w].tries + 1]]
    BY <1>3 DEF RateLimited
  <2>6. work' = [work EXCEPT ![w] = k] BY <2>1, <2>3, <2>5
  <2>7. QED BY <1>1, <2>4, <2>6, Gets
<1>4. CASE IsChunk(w) /\ ~MayTryAgain(w)
  <2>1. PICK k : k = [work[w] EXCEPT !.pc = "track", !.failed = TRUE] OBVIOUS
  <2>2. /\ k \in Doing /\ k.msg = work[w].msg /\ k.pc = "track" /\ k.failed
        /\ k.result = work[w].result /\ k.merging = work[w].merging
    BY <1>1, <2>1 DEF Doing, Pcs
  <2>3. work' = [work EXCEPT ![w] = k] BY <1>4, <2>1 DEF RateLimited
  <2>4. QED BY <1>1, <1>4, <2>2, <2>3, Gets
<1>5. QED BY <1>2, <1>3, <1>4

\* What the count leaves with the worker.
LEMMA CountFields ==
    ASSUME Working, NEW w \in Workers, CountChunk(w)
    PROVE  /\ Working' /\ work'[w].msg = work[w].msg /\ work'[w].failed = work[w].failed
           /\ \/ /\ progress'.done # N /\ work'[w].pc = "ack" /\ merges' = merges
                 /\ work'[w].merging = work[w].merging
              \/ /\ progress'.done = N /\ work'[w].pc = "merge" /\ merges' = merges + 1
                 /\ work'[w].merging /\ work'[w].next = 1 /\ work'[w].result = {}
           /\ \A v \in Workers \ {w} : work'[v] = work[v]
<1>1. /\ work \in [Workers -> Doing] /\ work[w] \in Doing /\ work[w].msg \in Messages
      /\ work[w].pc = "count"
  BY DEF Working, CountChunk, At
<1>2. CASE progress'.done # N
  <2>1. Go(w, "ack") /\ "ack" \in Pcs /\ merges' = merges /\ ~At(w, "idle")
    BY <1>1, <1>2 DEF CountChunk, IsLast, Pcs, At
  <2>2. QED BY <1>2, <2>1, Goes
<1>3. CASE progress'.done = N
  <2>1. PICK k : k = [work[w] EXCEPT !.pc = "merge", !.merging = TRUE, !.result = {},
                                     !.next = 1]
    OBVIOUS
  <2>2. /\ k \in Doing /\ k.msg = work[w].msg /\ k.pc = "merge" /\ k.merging
        /\ k.failed = work[w].failed /\ k.next = 1 /\ k.result = {}
    <3>1. 1 \in 1..N + 1 /\ {} \subseteq Facts /\ "merge" \in Pcs
      BY ExtractionAssumption DEF Pcs
    <3>2. QED BY <1>1, <2>1, <3>1 DEF Doing
  <2>3. /\ work' = [work EXCEPT ![w].pc = "merge", ![w].merging = TRUE,
                                ![w].result = {}, ![w].next = 1]
        /\ merges' = merges + 1
    BY <1>3 DEF CountChunk, IsLast
  <2>4. work' = [work EXCEPT ![w] = k] BY <1>1, <2>1, <2>3
  <2>5. QED BY <1>1, <1>3, <2>2, <2>3, <2>4, Gets
<1>4. QED BY <1>2, <1>3

\* What reading a chunk adds to the merge.
LEMMA MergeFields ==
    ASSUME Types, NEW w \in Workers, MergeRead(w)
    PROVE  /\ Working' /\ work'[w].pc = "merge" /\ work'[w].msg = work[w].msg
           /\ work'[w].failed = work[w].failed /\ work'[w].merging = work[w].merging
           /\ work[w].next \in 1..N /\ work'[w].next = work[w].next + 1
           /\ work'[w].result = IF progress.chunk[work[w].next] = "done"
                                THEN work[w].result \cup found[work[w].next]
                                ELSE work[w].result
           /\ \A v \in Workers \ {w} : work'[v] = work[v]
<1>1. /\ work \in [Workers -> Doing] /\ work[w] \in Doing /\ work[w].msg \in Messages
      /\ work[w].pc = "merge" /\ N \in Nat /\ Working
  BY ExtractionAssumption DEF Types, Working, MergeRead, At
<1>2. work[w].next \in 1..N BY <1>1 DEF MergeRead, Doing
<1>3. PICK r : r = IF progress.chunk[work[w].next] = "done"
                   THEN work[w].result \cup found[work[w].next] ELSE work[w].result
  OBVIOUS
<1>4. found[work[w].next] \subseteq Facts
  BY <1>2 DEF Types, Results, Messages, Chunks
<1>5. r \subseteq Facts BY <1>1, <1>3, <1>4 DEF Doing
<1>6. PICK n : n = work[w].next + 1 OBVIOUS
<1>7. n \in 1..N + 1 BY <1>1, <1>2, <1>6
<1>8. PICK k : k = [work[w] EXCEPT !.next = n, !.result = r] OBVIOUS
<1>9. /\ k \in Doing /\ k.pc = "merge" /\ k.msg = work[w].msg /\ k.next = n
      /\ k.result = r /\ k.failed = work[w].failed /\ k.merging = work[w].merging
  BY <1>1, <1>5, <1>7, <1>8 DEF Doing
<1>10. work' = [work EXCEPT ![w] = k] BY <1>1, <1>3, <1>6, <1>8 DEF MergeRead
<1>11. QED BY <1>1, <1>2, <1>3, <1>6, <1>9, <1>10, Gets

\* A worker that acknowledged, left or lost its message.
LEMMA IdleFields ==
    ASSUME Working, NEW w \in Workers, work' = [work EXCEPT ![w] = Idle]
    PROVE  /\ Working' /\ work'[w].pc = "idle" /\ work'[w].msg = NoMsg
           /\ ~work'[w].merging /\ ~work'[w].failed
           /\ \A v \in Workers \ {w} : work'[v] = work[v]
BY Gets, IdleIsTyped

\* The publishers and the hash keep the types.
LEMMA TypesPublishers ==
    ASSUME Types, PublishHash \/ PublishMessage \/ PublishFails \/ Expire
    PROVE  Types'
<1>0. N \in Nat /\ MaxFaults \in Nat BY ExtractionAssumption
<1>1. Streams' /\ Working'
  <2>1. CASE PublishHash
    <3>1. Tail(toPublish) \in Seq(Messages \cup {Hash})
      BY <2>1 DEF Types, Streams, PublishHash
    <3>2. QED BY <2>1, <3>1 DEF Types, Streams, Working, PublishHash, At
  <2>2. CASE PublishMessage
    <3>1. Head(toPublish) \in Messages /\ Tail(toPublish) \in Seq(Messages \cup {Hash})
      BY <2>2 DEF Types, Streams, PublishMessage
    <3>2. Append(queue, Head(toPublish)) \in Seq(Messages) BY <3>1 DEF Types, Streams
    <3>3. QED BY <2>2, <3>1, <3>2 DEF Types, Streams, Working, PublishMessage, At
  <2>3. CASE PublishFails
    <3>1. Head(toPublish) \in Messages \cup {Hash}
      BY <2>3 DEF Types, Streams, PublishFails
    <3>2. queue' \in Seq(Messages) BY <2>3, <3>1 DEF Types, Streams, PublishFails
    <3>3. <<Whole>> \in Seq(Messages \cup {Hash}) /\ <<>> \in Seq(Messages \cup {Hash})
      BY DEF Messages
    <3>4. toPublish' \in {<<Whole>>, <<>>} BY <2>3 DEF PublishFails
    <3>5. QED BY <2>3, <3>2, <3>3, <3>4 DEF Types, Streams, Working, PublishFails, At
  <2>4. CASE Expire BY <2>4 DEF Types, Streams, Working, Expire, At
  <2>5. QED BY <2>1, <2>2, <2>3, <2>4
<1>2. Results'
  <2>1. CASE PublishHash
    <3>1. progress' \in Hashes BY <2>1 DEF Types, Results, Hashes, PublishHash
    <3>2. QED BY <2>1, <3>1 DEF Types, Results, PublishHash
  <2>2. CASE Expire
    <3>1. progress' \in Hashes BY <2>2 DEF Expire, NoHash, Hashes
    <3>2. QED BY <2>2, <3>1 DEF Types, Results, Expire
  <2>3. QED BY <2>1, <2>2 DEF Types, Results, PublishMessage, PublishFails
<1>3. Failures'
  <2>1. CASE Expire BY <1>0, <2>1 DEF Types, Failures, Expire, Fault, Loses
  <2>2. CASE PublishFails
    <3>1. Fault /\ losses' \in {losses, losses \cup {"uncounted"}}
      BY <2>2 DEF PublishFails, Loses, Safe
    <3>2. QED BY <1>0, <3>1 DEF Types, Failures, Fault
  <2>3. QED BY <2>1, <2>2 DEF Types, Failures, PublishHash, PublishMessage, Ok
<1>4. QED BY <1>1, <1>2, <1>3 DEF Types

\* The workers' steps keep what is in the streams.
LEMMA StreamsStep ==
    ASSUME Types, NEW w \in Workers, WorkerStep(w) \/ WorkerFault(w)
    PROVE  Streams'
<1>1. CASE Read(w) \/ ReadLost(w)
  <2>1. /\ queue' = Tail(queue) /\ pending' = pending \cup {Head(queue)}
        /\ queue # <<>> /\ toPublish' = toPublish
    BY <1>1 DEF Read, ReadLost
  <2>2. QED BY <2>1 DEF Types, Streams
<1>2. CASE Ack(w) BY <1>2 DEF Types, Streams, Ack
<1>3. CASE ~(Read(w) \/ ReadLost(w) \/ Ack(w))
  <2>1. UNCHANGED <<toPublish, queue, pending>>
    BY <1>3 DEF WorkerStep, WorkerFault, Extract, RateLimited, TrackChunk, CountChunk,
                Fallback, MergeRead, Merged, Store, Retry, Leave, TrackFails,
                CountFails, MergeFails, StorePart, StoreFails, Crash
  <2>2. QED BY <2>1 DEF Types, Streams
<1>4. QED BY <1>1, <1>2, <1>3

\* They keep the types of the results.
LEMMA ResultsStep ==
    ASSUME Types, NEW w \in Workers, WorkerStep(w) \/ WorkerFault(w)
    PROVE  Results'
<1>1. CASE TrackChunk(w) \/ TrackFails(w) \/ CountFails(w) \/ CountChunk(w)
  <2>1. /\ progress' \in {progress, Tracked(w), Counted(w)}
        /\ UNCHANGED <<graph, retries, found>>
    BY <1>1 DEF TrackChunk, TrackFails, CountFails, CountChunk
  <2>2. merges' \in Nat
    BY <1>1 DEF Types, Results, TrackChunk, TrackFails, CountFails, CountChunk
  <2>3. QED BY <2>1, <2>2, HashKept DEF Types, Results
<1>2. CASE Store(w) \/ StorePart(w) \/ StoreFails(w)
  <2>1. work[w].result \subseteq Facts BY DEF Types, Working, Doing
  <2>2. graph' \subseteq Facts
    BY <1>2, <2>1 DEF Types, Results, Store, StorePart, StoreFails
  <2>3. QED BY <1>2, <2>2 DEF Types, Results, Store, StorePart, StoreFails
<1>3. CASE Extract(w)
  <2>1. PICK answer \in SUBSET Facts : found' = [found EXCEPT ![work[w].msg] = answer]
    BY <1>3, ExtractFields
  <2>2. found' \in [Messages -> SUBSET Facts] BY <2>1 DEF Types, Results
  <2>3. QED BY <1>3, <2>2 DEF Types, Results, Extract
<1>4. CASE Retry(w)
  <2>1. retries' \in [Messages -> Nat] BY <1>4 DEF Types, Results, Retry
  <2>2. QED BY <1>4, <2>1 DEF Types, Results, Retry
<1>5. CASE Read(w) \/ ReadLost(w) \/ RateLimited(w) \/ Fallback(w) \/ MergeRead(w)
           \/ Merged(w) \/ Ack(w) \/ Leave(w) \/ MergeFails(w) \/ Crash(w)
  <2>1. UNCHANGED <<progress, graph, retries, found, merges>>
    BY <1>5 DEF Read, ReadLost, RateLimited, Fallback, MergeRead, Merged, Ack, Leave,
                MergeFails, Crash
  <2>2. QED BY <2>1 DEF Types, Results
<1>6. QED BY <1>1, <1>2, <1>3, <1>4, <1>5 DEF WorkerStep, WorkerFault

\* They count the failures and what they lose.
LEMMA FailuresStep ==
    ASSUME Types, NEW w \in Workers, WorkerStep(w) \/ WorkerFault(w)
    PROVE  Failures'
<1>0. MaxFaults \in Nat BY ExtractionAssumption
<1>1. CASE WorkerFault(w)
  <2>1. Fault
    BY <1>1 DEF WorkerFault, ReadLost, TrackFails, CountFails, MergeFails, StorePart,
                StoreFails, Crash
  <2>2. \E c \in {"count", "merge", "store", "crash", "uncounted"} :
          losses' \in {losses, losses \cup {c}}
    BY <1>1 DEF WorkerFault, ReadLost, TrackFails, CountFails, MergeFails, StorePart,
                StoreFails, Crash, Safe, Loses
  <2>3. QED BY <1>0, <2>1, <2>2 DEF Types, Failures, Fault
<1>2. CASE WorkerStep(w)
  <2>1. (faults' = faults \/ Fault) /\ losses' = losses
    BY <1>2 DEF WorkerStep, Read, Extract, RateLimited, TrackChunk, CountChunk,
                Fallback, MergeRead, Merged, Store, Ack, Retry, Leave, Ok
  <2>2. QED BY <1>0, <2>1 DEF Types, Failures, Fault
<1>3. QED BY <1>1, <1>2

\* They keep the types of what the workers hold.
LEMMA WorkingStep ==
    ASSUME Types, NEW w \in Workers, WorkerStep(w) \/ WorkerFault(w)
    PROVE  Working'
<1>0. Working BY DEF Types
<1>1. CASE Read(w)
  <2>1. Head(queue) \in Messages BY <1>1 DEF Types, Streams, Read
  <2>2. QED BY <1>0, <1>1, <2>1, ReadsFields DEF Read
<1>2. CASE Extract(w) BY <1>2, ExtractFields
<1>3. CASE RateLimited(w) BY <1>0, <1>3, LimitedFields
<1>4. CASE CountChunk(w) BY <1>0, <1>4, CountFields
<1>5. CASE MergeRead(w) BY <1>5, MergeFields
<1>6. CASE Ack(w) \/ Leave(w) \/ Crash(w)
  BY <1>0, <1>6, IdleFields DEF Ack, Leave, Crash
<1>7. CASE ReadLost(w) BY <1>0, <1>7 DEF ReadLost, Working, At
<1>8. CASE TrackChunk(w) \/ Fallback(w) \/ Merged(w) \/ Store(w) \/ Retry(w)
           \/ TrackFails(w) \/ CountFails(w) \/ MergeFails(w) \/ StorePart(w)
           \/ StoreFails(w)
  <2>1. PICK p \in {"count", "ack", "store", "left", "fallback", "retry"} : Go(w, p)
    BY <1>8 DEF TrackChunk, Fallback, FallsBack, Merged, Store, Retry, TrackFails,
                CountFails, MergeFails, StorePart, StoreFails
  <2>2. ~At(w, "idle")
    BY <1>8 DEF At, TrackChunk, Fallback, Merged, Store, Retry, TrackFails,
                CountFails, MergeFails, StorePart, StoreFails
  <2>3. p \in Pcs BY DEF Pcs
  <2>4. QED BY <1>0, <2>1, <2>2, <2>3, Goes
<1>9. QED BY <1>1, <1>2, <1>3, <1>4, <1>5, <1>6, <1>7, <1>8 DEF WorkerStep, WorkerFault

\* Every step keeps the types.
LEMMA TypesStep == Types /\ [Next]_vars => Types'
<1>1. ASSUME Types, UNCHANGED vars PROVE Types'
  BY <1>1 DEF Types, Streams, Results, Failures, Working, vars, At
<1>2. ASSUME Types, NEW w \in Workers, WorkerStep(w) \/ WorkerFault(w) PROVE Types'
  BY <1>2, StreamsStep, ResultsStep, FailuresStep, WorkingStep DEF Types
<1>3. QED BY <1>1, <1>2, TypesPublishers DEF Next

\* A behaviour starts in the types.
LEMMA TypesInit == Init => Types
<1>1. SUFFICES ASSUME Init PROVE Types OBVIOUS
<1>0. N \in Nat /\ MaxFaults \in Nat BY ExtractionAssumption
<1>2. toPublish \in Seq(Messages \cup {Hash}) /\ queue \in Seq(Messages)
  BY <1>0, <1>1 DEF Init, Messages, Chunks, Whole, Hash
<1>3. progress \in Hashes BY <1>1 DEF Init, NoHash, Hashes
<1>4. Working BY <1>1, IdleIsTyped DEF Init, At, Working
<1>5. QED BY <1>0, <1>1, <1>2, <1>3, <1>4 DEF Init, Types, Streams, Results, Failures

-----------------------------------------------------------------------------
(* Places. *)

\* A step of a worker that touches nothing but its own message.
OwnStep(w) ==
    /\ toPublish' = toPublish /\ queue' = queue
    /\ work[w].msg \in Messages
    /\ work'[w].msg \in {work[w].msg, NoMsg}
    /\ \A v \in Workers \ {w} : work'[v] = work[v]
    /\ \A m \in Messages \ {work[w].msg} :
         /\ m \in pending' <=> m \in pending
         /\ retries'[m] = retries[m] /\ found'[m] = found[m]

\* A step of a worker that leaves the results of its message alone.
LEMMA OwnWork ==
    ASSUME Types, NEW w \in Workers, work[w].msg \in Messages,
           UNCHANGED <<toPublish, queue, pending, retries, found>>,
           work'[w].msg \in {work[w].msg, NoMsg},
           \A v \in Workers \ {w} : work'[v] = work[v]
    PROVE  OwnStep(w)
BY DEF OwnStep

\* The other messages and workers stay as they are.
LEMMA OwnPlaces ==
    ASSUME Types, Places, NEW w \in Workers, OwnStep(w), Shape(w)',
           retries'[work[w].msg] <= 1
    PROVE  Places'
<1>1. /\ \E k \in 0..N + 2 : toPublish' = Line(k)
      /\ Distinct(queue')
      /\ \A m \in Messages : Holds(toPublish', m) => ~Holds(queue', m)
  BY DEF Places, OwnStep
<1>2. work[w].pc # "idle" /\ work[w].msg \in pending
  <2>1. Shape(w) BY DEF Places
  <2>2. work[w].msg # NoMsg
    BY ExtractionAssumption DEF OwnStep, Messages, Chunks, Whole, NoMsg
  <2>3. QED BY <2>1, <2>2 DEF Shape
<1>3. ASSUME NEW m \in Messages, Holds(toPublish', m) \/ Holds(queue', m)
      PROVE  m \notin pending' /\ retries'[m] = 0 /\ found'[m] = {}
  <2>1. Fresh(m) BY <1>3 DEF Places, OwnStep
  <2>2. m # work[w].msg BY <1>2, <2>1 DEF Fresh
  <2>3. QED BY <2>1, <2>2 DEF Fresh, OwnStep
<1>4. ASSUME NEW v \in Workers, v # w PROVE Shape(v)'
  <2>1. Shape(v) /\ work'[v] = work[v] BY <1>4 DEF Places, OwnStep
  <2>2. CASE work[v].msg = NoMsg
    <3>1. work[v].pc = "idle" /\ ~work[v].merging /\ ~work[v].failed BY <2>1, <2>2 DEF Shape
    <3>2. QED BY <2>1, <2>2, <3>1 DEF Shape
  <2>3. CASE work[v].msg # NoMsg
    <3>1. work[v].msg # work[w].msg BY <1>4, <2>3 DEF Places
    <3>2. work[v].msg \in Messages \ {work[w].msg}
      BY <2>1, <2>3, <3>1 DEF Types, Working, Shape, At
    <3>3. /\ work[v].msg \in pending' <=> work[v].msg \in pending
          /\ retries'[work[v].msg] = retries[work[v].msg]
          /\ found'[work[v].msg] = found[work[v].msg]
      BY <3>2 DEF OwnStep
    <3>4. QED BY <2>1, <3>3 DEF Shape
  <2>4. QED BY <2>2, <2>3
<1>5. ASSUME NEW u \in Workers, NEW v \in Workers, work'[u].msg = work'[v].msg,
             work'[u].msg # NoMsg
      PROVE  u = v
  <2>1. \A x \in Workers : work'[x].msg # NoMsg => work'[x].msg = work[x].msg
    BY DEF OwnStep
  <2>2. QED BY <1>5, <2>1 DEF Places
<1>6. \A m \in Messages : retries'[m] <= 1
  BY DEF Places, OwnStep
<1>7. QED BY <1>1, <1>3, <1>4, <1>5, <1>6 DEF Places, Fresh

\* A worker at a step has a message, and the next retry of it is the first.
LEMMA AtWork ==
    ASSUME Types, Places, NEW w \in Workers, ~At(w, "idle")
    PROVE  /\ Shape(w) /\ work[w].msg \in Messages /\ work[w].msg \in pending
           /\ work[w].msg # NoMsg /\ work[w].pc \in Pcs /\ work[w].pc # "idle"
           /\ work[w].merging \in BOOLEAN /\ work[w].failed \in BOOLEAN
           /\ retries[work[w].msg] <= 1
<1>1. work[w].msg \in Messages /\ work[w] \in Doing BY DEF Types, Working
<1>2. work[w].msg # NoMsg
  BY <1>1, ExtractionAssumption DEF Messages, Chunks, Whole, NoMsg
<1>3. QED BY <1>1, <1>2 DEF Places, Shape, At, Doing

\* The steps of a worker that only write its own fields, the hash or the graph.
LEMMA OwnMoves ==
    ASSUME Types, Places, NEW w \in Workers,
           \/ RateLimited(w) \/ TrackChunk(w) \/ CountChunk(w) \/ Fallback(w)
           \/ MergeRead(w) \/ Merged(w) \/ Store(w) \/ Leave(w) \/ TrackFails(w)
           \/ CountFails(w) \/ MergeFails(w) \/ StorePart(w) \/ StoreFails(w) \/ Crash(w)
    PROVE  OwnStep(w) /\ Shape(w)' /\ retries'[work[w].msg] <= 1
<1>0. Working BY DEF Types
<1>1. UNCHANGED <<toPublish, queue, pending, retries, found>>
  BY DEF RateLimited, TrackChunk, CountChunk, Fallback, MergeRead, Merged, Store, Leave,
         TrackFails, CountFails, MergeFails, StorePart, StoreFails, Crash
<1>2. ~At(w, "idle")
  BY DEF At, RateLimited, TrackChunk, CountChunk, Fallback, MergeRead, Merged, Store,
         Leave, TrackFails, CountFails, MergeFails, StorePart, StoreFails, Crash
<1>3. /\ Shape(w) /\ work[w].msg \in Messages /\ work[w].msg \in pending
      /\ work[w].msg # NoMsg /\ work[w].pc # "idle" /\ retries[work[w].msg] <= 1
  BY <1>2, AtWork
<1>4. SUFFICES /\ work'[w].msg \in {work[w].msg, NoMsg}
               /\ \A v \in Workers \ {w} : work'[v] = work[v]
               /\ Shape(w)'
  BY <1>1, <1>3, OwnWork
<1>5. CASE RateLimited(w)
  <2>1. work[w].pc = "extract" BY <1>5 DEF RateLimited, At
  <2>2. QED BY <1>0, <1>1, <1>3, <1>5, <2>1, LimitedFields DEF Shape, IsChunk
<1>6. CASE CountChunk(w)
  <2>1. work[w].pc = "count" BY <1>6 DEF CountChunk, At
  <2>2. QED BY <1>0, <1>1, <1>3, <1>6, <2>1, CountFields DEF Shape
<1>7. CASE MergeRead(w)
  <2>1. work[w].pc = "merge" BY <1>7 DEF MergeRead, At
  <2>2. QED BY <1>0, <1>1, <1>3, <1>7, <2>1, MergeFields DEF Shape
<1>8. CASE Leave(w) \/ Crash(w)
  BY <1>0, <1>8, IdleFields DEF Shape, Leave, Crash
<1>9. CASE TrackChunk(w) \/ TrackFails(w) \/ CountFails(w)
  <2>1. PICK p \in {"count", "fallback"} : Go(w, p)
    BY <1>9 DEF TrackChunk, TrackFails, CountFails
  <2>2. work[w].pc \in {"track", "count"} /\ p \in Pcs
    BY <1>9 DEF TrackChunk, TrackFails, CountFails, At, Pcs
  <2>3. QED BY <1>0, <1>1, <1>2, <1>3, <2>1, <2>2, Goes DEF Shape
<1>10. CASE Fallback(w)
  <2>1. PICK p \in {"ack", "store"} : Go(w, p) BY <1>10 DEF Fallback, FallsBack
  <2>2. work[w].pc = "fallback" /\ p \in Pcs BY <1>10 DEF Fallback, At, Pcs
  <2>3. QED BY <1>0, <1>1, <1>2, <1>3, <2>1, <2>2, Goes DEF Shape
<1>11. CASE Merged(w) \/ MergeFails(w)
  <2>1. PICK p \in {"ack", "store"} : Go(w, p) BY <1>11 DEF Merged, MergeFails
  <2>2. work[w].pc = "merge" /\ p \in Pcs BY <1>11 DEF Merged, MergeFails, At, Pcs
  <2>3. QED BY <1>0, <1>1, <1>2, <1>3, <2>1, <2>2, Goes DEF Shape
<1>12. CASE Store(w) \/ StorePart(w) \/ StoreFails(w)
  <2>1. PICK p \in {"ack", "retry"} : Go(w, p) /\ (p = "retry" => ~work[w].merging)
    BY <1>12 DEF Store, StorePart, StoreFails
  <2>2. work[w].pc = "store" /\ p \in Pcs
    BY <1>12 DEF Store, StorePart, StoreFails, At, Pcs
  <2>3. QED BY <1>0, <1>1, <1>2, <1>3, <2>1, <2>2, Goes DEF Shape
<1>13. QED BY <1>5, <1>6, <1>7, <1>8, <1>9, <1>10, <1>11, <1>12

\* An answer, an acknowledgement and a retry.
LEMMA OwnAnswers ==
    ASSUME Types, Places, NEW w \in Workers, Extract(w) \/ Ack(w) \/ Retry(w)
    PROVE  OwnStep(w) /\ Shape(w)' /\ retries'[work[w].msg] <= 1
<1>0. Working BY DEF Types
<1>1. ~At(w, "idle") BY DEF At, Extract, Ack, Retry
<1>2. /\ Shape(w) /\ work[w].msg \in Messages /\ work[w].msg \in pending
      /\ work[w].msg # NoMsg /\ work[w].pc # "idle" /\ retries[work[w].msg] <= 1
  BY <1>1, AtWork
<1>3. CASE Extract(w)
  <2>1. work[w].pc = "extract" BY <1>3 DEF Extract, At
  <2>2. UNCHANGED <<toPublish, queue, pending, retries>> BY <1>3 DEF Extract
  <2>3. PICK answer \in SUBSET Facts :
          /\ found' = [found EXCEPT ![work[w].msg] = answer]
          /\ work'[w].pc = IF work[w].msg \in Chunks THEN "track" ELSE "store"
          /\ work'[w].msg = work[w].msg /\ work'[w].result = answer
          /\ work'[w].failed = work[w].failed /\ work'[w].merging = work[w].merging
          /\ \A v \in Workers \ {w} : work'[v] = work[v]
    BY <1>3, ExtractFields
  <2>4. /\ found'[work[w].msg] = answer
        /\ \A m \in Messages \ {work[w].msg} : found'[m] = found[m]
    BY <1>2, <2>3 DEF Types, Results
  <2>5. OwnStep(w) BY <1>2, <2>2, <2>3, <2>4 DEF OwnStep
  <2>6. ~work[w].merging /\ retries[work[w].msg] = 0 BY <1>2, <2>1 DEF Shape
  <2>7. ~work[w].failed BY <1>2, <2>1 DEF Shape
  <2>8. Shape(w)' BY <1>2, <2>1, <2>2, <2>3, <2>4, <2>6, <2>7 DEF Shape
  <2>9. QED BY <1>2, <2>2, <2>5, <2>8
<1>4. CASE Ack(w)
  <2>1. /\ pending' \in {pending, pending \ {work[w].msg}}
        /\ work' = [work EXCEPT ![w] = Idle]
        /\ UNCHANGED <<toPublish, queue, retries, found>>
    BY <1>4 DEF Ack
  <2>2. /\ work'[w].pc = "idle" /\ work'[w].msg = NoMsg
        /\ ~work'[w].merging /\ ~work'[w].failed
        /\ \A v \in Workers \ {w} : work'[v] = work[v]
    BY <1>0, <2>1, IdleFields
  <2>3. OwnStep(w) BY <1>2, <2>1, <2>2 DEF OwnStep
  <2>4. Shape(w)' BY <2>2 DEF Shape
  <2>5. QED BY <1>2, <2>1, <2>3, <2>4
<1>5. CASE Retry(w)
  <2>1. work[w].pc = "retry" BY <1>5 DEF Retry, At
  <2>2. retries[work[w].msg] = 0 BY <1>2, <2>1 DEF Shape
  <2>3. /\ Go(w, "left") /\ UNCHANGED <<toPublish, queue, pending, found>>
        /\ retries' \in {retries, [retries EXCEPT ![work[w].msg] = 1]}
    BY <1>5, <2>2 DEF Retry, MaxExtractionRetries
  <2>4. "left" \in Pcs BY DEF Pcs
  <2>5. /\ work'[w].pc = "left" /\ work'[w].msg = work[w].msg
        /\ work'[w].failed = work[w].failed /\ work'[w].merging = work[w].merging
        /\ work'[w].result = work[w].result
        /\ \A v \in Workers \ {w} : work'[v] = work[v]
    BY <1>0, <1>1, <2>3, <2>4, Goes
  <2>6. /\ retries'[work[w].msg] <= 1
        /\ \A m \in Messages \ {work[w].msg} : retries'[m] = retries[m]
    BY <1>2, <2>2, <2>3 DEF Types, Results
  <2>7. OwnStep(w) BY <1>2, <2>3, <2>5, <2>6 DEF OwnStep
  <2>8. Shape(w)' BY <1>2, <2>1, <2>3, <2>5 DEF Shape
  <2>9. QED BY <2>6, <2>7, <2>8
<1>6. QED BY <1>3, <1>4, <1>5

\* A message is given to one worker.
LEMMA PlacesRead ==
    ASSUME Types, Places, NEW w \in Workers, Read(w) \/ ReadLost(w)
    PROVE  Places'
<1>1. PICK h \in Messages : h = Head(queue)
  BY DEF Types, Streams, Read, ReadLost
<1>2. /\ queue # <<>> /\ queue' = Tail(queue) /\ pending' = pending \cup {h}
      /\ UNCHANGED <<toPublish, retries, found>> /\ At(w, "idle")
  BY <1>1 DEF Read, ReadLost
<1>3. queue \in Seq(Messages) /\ Distinct(queue) BY DEF Types, Streams, Places
<1>4. /\ Distinct(Tail(queue)) /\ Holds(queue, h)
      /\ \A m : Holds(Tail(queue), m) <=> Holds(queue, m) /\ m # h
  BY <1>1, <1>2, <1>3, TailHolds
<1>5. Fresh(h) /\ ~Holds(toPublish, h) BY <1>4 DEF Places
<1>6. h # NoMsg BY ExtractionAssumption DEF Messages, Chunks, Whole, NoMsg
<1>7. ASSUME NEW m \in Messages, Holds(toPublish', m) \/ Holds(queue', m) PROVE Fresh(m)'
  BY <1>2, <1>4, <1>5, <1>7 DEF Places, Fresh
<1>8. \A m \in Messages : Holds(toPublish', m) => ~Holds(queue', m)
  BY <1>2, <1>4 DEF Places
<1>9. ASSUME NEW v \in Workers PROVE Shape(v) /\ work[v].msg # h
  BY <1>5, <1>6 DEF Places, Shape, Fresh
<1>10. CASE Read(w)
  <2>1. /\ work'[w].pc = "extract" /\ work'[w].msg = h /\ work'[w].result = {}
        /\ ~work'[w].merging /\ ~work'[w].failed
        /\ \A v \in Workers \ {w} : work'[v] = work[v]
    BY <1>1, <1>10, ReadsFields DEF Types, Read
  <2>2. Shape(w)' BY <1>2, <1>5, <1>6, <2>1 DEF Shape, Fresh
  <2>3. ASSUME NEW v \in Workers, v # w PROVE Shape(v)'
    BY <1>2, <1>9, <2>1, <2>3 DEF Shape
  <2>4. ASSUME NEW u \in Workers, NEW v \in Workers, work'[u].msg = work'[v].msg,
               work'[u].msg # NoMsg
        PROVE  u = v
    BY <1>9, <2>1, <2>4 DEF Places
  <2>5. QED BY <1>2, <1>4, <1>7, <1>8, <2>2, <2>3, <2>4 DEF Places
<1>11. CASE ReadLost(w)
  <2>1. work' = work BY <1>11 DEF ReadLost
  <2>2. \A v \in Workers : Shape(v)' BY <1>2, <1>9, <2>1 DEF Shape
  <2>3. QED BY <1>2, <1>4, <1>7, <1>8, <2>1, <2>2 DEF Places
<1>12. QED BY <1>10, <1>11

\* The publishers add what is next, or give it up.
LEMMA PlacesPublishers ==
    ASSUME Types, Places, PublishHash \/ PublishMessage \/ PublishFails \/ Expire
    PROVE  Places'
<1>1. UNCHANGED <<work, pending, retries, found>>
  BY DEF PublishHash, PublishMessage, PublishFails, Expire
<1>2. SUFFICES /\ \E k \in 0..N + 2 : toPublish' = Line(k)
               /\ Distinct(queue')
               /\ \A m \in Messages : Holds(toPublish', m) => ~Holds(queue', m)
               /\ \A m \in Messages : Holds(toPublish', m) \/ Holds(queue', m) =>
                    Holds(toPublish, m) \/ Holds(queue, m)
  BY <1>1 DEF Places, Shape, Fresh
<1>3. CASE Expire BY <1>3 DEF Places, Expire
<1>4. CASE ~Expire
  <2>1. PICK k \in 0..N + 2 : toPublish = Line(k) BY DEF Places
  <2>2. toPublish # <<>> BY <1>4 DEF PublishHash, PublishMessage, PublishFails
  <2>3. /\ k \in 0..N + 1 /\ Head(toPublish) = k /\ Tail(toPublish) = Line(k + 1)
        /\ k + 1 \in 0..N + 2 /\ <<Whole>> = Line(Whole) /\ <<>> = Line(N + 2)
        /\ Whole \in 0..N + 2 /\ N + 2 \in 0..N + 2
    BY <2>1, <2>2, Published
  <2>4. PICK j \in 0..N + 2 : toPublish' = Line(j) /\ j > k
    <3>1. CASE PublishFails
      <4>1. \/ toPublish' = Line(N + 2)
            \/ k # Whole /\ toPublish' = Line(Whole)
        BY <2>3, <3>1 DEF PublishFails
      <4>2. QED BY <2>3, <4>1, ExtractionAssumption DEF Whole
    <3>2. CASE ~PublishFails
      <4>1. toPublish' = Line(k + 1) /\ k + 1 > k
        BY <1>4, <2>3, <3>2 DEF PublishHash, PublishMessage
      <4>2. QED BY <2>3, <4>1
    <3>3. QED BY <3>1, <3>2
  <2>5. /\ \A m : Holds(toPublish, m) <=> m \in k..N + 1
        /\ \A m : Holds(toPublish', m) <=> m \in j..N + 1
    BY <2>1, <2>4, LineHolds
  <2>6. Holds(toPublish, k) /\ ~Holds(toPublish', k)
    BY <2>3, <2>4, <2>5, ExtractionAssumption
  <2>7. \A m : Holds(toPublish', m) => Holds(toPublish, m)
    BY <2>3, <2>4, <2>5, ExtractionAssumption
  <2>8. queue' = queue \/ (k \in Messages /\ queue' = Append(queue, k))
    <3>1. k = Hash \/ k \in Messages
      BY <2>3, ExtractionAssumption DEF Hash, Messages, Chunks, Whole
    <3>2. QED BY <1>4, <2>3, <3>1 DEF PublishHash, PublishMessage, PublishFails
  <2>9. CASE queue' = queue BY <2>4, <2>7, <2>9 DEF Places
  <2>10. CASE k \in Messages /\ queue' = Append(queue, k)
    <3>1. queue \in Seq(Messages) /\ Distinct(queue) /\ ~Holds(queue, k)
      BY <2>6, <2>10 DEF Types, Streams, Places
    <3>2. /\ \A m : Holds(queue', m) <=> Holds(queue, m) \/ m = k
          /\ Distinct(queue')
      BY <2>10, <3>1, AppendHolds
    <3>3. QED BY <2>4, <2>6, <2>7, <3>2 DEF Places
  <2>11. QED BY <2>8, <2>9, <2>10
<1>5. QED BY <1>3, <1>4

\* Every step leaves a message in one place at most.
LEMMA PlacesStep == Types /\ Places /\ [Next]_vars => Places'
<1>1. ASSUME Places, UNCHANGED vars PROVE Places'
  BY <1>1 DEF Places, Shape, Fresh, vars
<1>2. ASSUME Types, Places, NEW w \in Workers, WorkerStep(w) \/ WorkerFault(w)
      PROVE  Places'
  <2>1. CASE Read(w) \/ ReadLost(w) BY <1>2, <2>1, PlacesRead
  <2>2. CASE Extract(w) \/ Ack(w) \/ Retry(w) BY <1>2, <2>2, OwnAnswers, OwnPlaces
  <2>3. CASE \/ RateLimited(w) \/ TrackChunk(w) \/ CountChunk(w) \/ Fallback(w)
             \/ MergeRead(w) \/ Merged(w) \/ Store(w) \/ Leave(w) \/ TrackFails(w)
             \/ CountFails(w) \/ MergeFails(w) \/ StorePart(w) \/ StoreFails(w) \/ Crash(w)
    <3>1. OwnStep(w) /\ Shape(w)' /\ retries'[work[w].msg] <= 1
      BY <1>2, <2>3, OwnMoves
    <3>2. QED BY <1>2, <3>1, OwnPlaces
  <2>4. QED BY <1>2, <2>1, <2>2, <2>3 DEF WorkerStep, WorkerFault
<1>3. QED BY <1>1, <1>2, PlacesPublishers DEF Next

\* A behaviour starts with every message in the publishers' hands.
LEMMA PlacesInit == Init => Places
<1>1. SUFFICES ASSUME Init PROVE Places OBVIOUS
<1>2. toPublish = Line(0) /\ 0 \in 0..N + 2
  BY <1>1, ExtractionAssumption DEF Init, Line
<1>3. \A m : ~Holds(queue, m) BY <1>1 DEF Init, Holds
<1>4. Distinct(queue) BY <1>1 DEF Init, Distinct
<1>5. \A m \in Messages : Fresh(m) BY <1>1 DEF Init, Fresh
<1>6. \A w \in Workers : Shape(w) /\ work[w].msg = NoMsg
  BY <1>1 DEF Init, Shape, Idle
<1>7. \A m \in Messages : retries[m] <= 1 BY <1>1 DEF Init
<1>8. QED BY <1>2, <1>3, <1>4, <1>5, <1>6, <1>7 DEF Places

-----------------------------------------------------------------------------
(* Counting. *)

\* The chunks are finitely many, and so are their subsets.
LEMMA ChunksFinite ==
    /\ IsFiniteSet(Chunks) /\ Cardinality(Chunks) = N
    /\ \A S \in SUBSET Chunks :
         /\ IsFiniteSet(S) /\ Cardinality(S) \in Nat /\ Cardinality(S) <= N
         /\ Cardinality(S) = N => S = Chunks
         /\ Cardinality(S) = 0 => S = {}
<1>1. N \in Nat /\ 1 \in Nat BY ExtractionAssumption
<1>2. IsFiniteSet(Chunks) /\ Cardinality(Chunks) = N
  BY <1>1, FS_Interval DEF Chunks
<1>3. ASSUME NEW S \in SUBSET Chunks
      PROVE  /\ IsFiniteSet(S) /\ Cardinality(S) \in Nat /\ Cardinality(S) <= N
             /\ Cardinality(S) = N => S = Chunks
             /\ Cardinality(S) = 0 => S = {}
  <2>1. IsFiniteSet(S) /\ Cardinality(S) <= N BY <1>2, FS_Subset
  <2>2. Cardinality(S) = N => S = Chunks BY <1>2, FS_Subset
  <2>3. QED BY <2>1, <2>2, FS_CardinalityType, FS_EmptySet
<1>4. QED BY <1>2, <1>3

\* Where a chunk is on its way.
LEMMA StillMeans ==
    /\ StillToCount \subseteq Chunks
    /\ \A i \in Chunks :
         i \in StillToCount <=>
            \/ Holds(toPublish, i) \/ Holds(queue, i)
            \/ \E w \in Workers : WillCount(w) /\ work[w].msg = i
BY DEF StillToCount, Holds

\* And after a step.
LEMMA StillMeansNext ==
    /\ StillToCount' \subseteq Chunks
    /\ \A i \in Chunks :
         i \in StillToCount' <=>
            \/ Holds(toPublish', i) \/ Holds(queue', i)
            \/ \E w \in Workers : WillCount(w)' /\ work'[w].msg = i
BY DEF StillToCount, Holds

\* A step of a worker takes at most its own chunk off the way to the counter.
LEMMA StillOwn ==
    ASSUME Types, Places, NEW w \in Workers, OwnStep(w), ~At(w, "idle")
    PROVE  /\ WillCount(w) /\ WillCount(w)' => StillToCount' = StillToCount
           /\ ~WillCount(w) /\ ~WillCount(w)' => StillToCount' = StillToCount
           /\ WillCount(w) /\ ~WillCount(w)' =>
                /\ StillToCount' = StillToCount \ {work[w].msg}
                /\ work[w].msg \in StillToCount /\ work[w].msg \in Chunks
<1>1. /\ work[w].msg \in Messages /\ work[w].msg \in pending /\ work[w].msg # NoMsg
  BY AtWork
<1>2. ~Holds(toPublish, work[w].msg) /\ ~Holds(queue, work[w].msg)
  BY <1>1 DEF Places, Fresh
<1>3. /\ toPublish' = toPublish /\ queue' = queue
      /\ work'[w].msg \in {work[w].msg, NoMsg}
      /\ \A v \in Workers \ {w} : work'[v] = work[v] /\ work[v].msg # work[w].msg
  BY <1>1 DEF OwnStep, Places
<1>4. \A v \in Workers \ {w} : WillCount(v)' = WillCount(v)
  BY <1>3 DEF WillCount, IsChunk
<1>5. WillCount(w)' => work'[w].msg = work[w].msg
  BY <1>3, ExtractionAssumption DEF WillCount, IsChunk, Chunks, NoMsg
<1>6. ASSUME NEW i \in Chunks, i # work[w].msg PROVE i \in StillToCount' <=> i \in StillToCount
  <2>1. (\E v \in Workers : WillCount(v)' /\ work'[v].msg = i)
          <=> (\E v \in Workers : WillCount(v) /\ work[v].msg = i)
    BY <1>3, <1>4, <1>5, <1>6
  <2>2. QED BY <1>3, <2>1, StillMeans, StillMeansNext
<1>7. work[w].msg \in Chunks =>
        /\ work[w].msg \in StillToCount <=> WillCount(w)
        /\ work[w].msg \in StillToCount' <=> WillCount(w)'
  <2>1. ASSUME NEW v \in Workers, work[v].msg = work[w].msg \/ work'[v].msg = work[w].msg
        PROVE  v = w
    BY <1>3, <2>1
  <2>2. QED BY <1>2, <1>3, <1>5, <2>1, StillMeans, StillMeansNext
<1>8. WillCount(w) => work[w].msg \in Chunks BY DEF WillCount, IsChunk
<1>9. QED BY <1>5, <1>6, <1>7, <1>8, StillMeans, StillMeansNext

\* A read leaves a chunk on its way unless the reply is lost.
LEMMA StillRead ==
    ASSUME Types, Places, NEW w \in Workers, Read(w) \/ ReadLost(w)
    PROVE  /\ StillToCount' \subseteq StillToCount
           /\ "uncounted" \notin losses' => StillToCount' = StillToCount
           /\ losses \subseteq losses'
<1>1. PICK h \in Messages : h = Head(queue)
  BY DEF Types, Streams, Read, ReadLost
<1>2. /\ queue # <<>> /\ queue' = Tail(queue) /\ toPublish' = toPublish /\ At(w, "idle")
  BY DEF Read, ReadLost
<1>3. queue \in Seq(Messages) /\ Distinct(queue) BY DEF Types, Streams, Places
<1>4. /\ Holds(queue, h) /\ \A m : Holds(queue', m) <=> Holds(queue, m) /\ m # h
  BY <1>1, <1>2, <1>3, TailHolds
<1>5. ~WillCount(w) BY <1>2 DEF WillCount, At
<1>6. CASE Read(w)
  <2>1. /\ work'[w].pc = "extract" /\ work'[w].msg = h
        /\ \A v \in Workers \ {w} : work'[v] = work[v]
    BY <1>1, <1>6, ReadsFields DEF Types, Read
  <2>2. /\ \A v \in Workers \ {w} : WillCount(v)' = WillCount(v)
        /\ WillCount(w)' <=> h \in Chunks
    BY <2>1 DEF WillCount, IsChunk
  <2>3. ASSUME NEW i \in Chunks PROVE i \in StillToCount' <=> i \in StillToCount
    BY <1>2, <1>4, <1>5, <2>1, <2>2, StillMeans, StillMeansNext
  <2>4. losses' = losses BY <1>6 DEF Read
  <2>5. QED BY <2>3, <2>4, StillMeans, StillMeansNext
<1>7. CASE ReadLost(w)
  <2>1. work' = work /\ \A v \in Workers : WillCount(v)' = WillCount(v)
    BY <1>7 DEF ReadLost, WillCount, IsChunk
  <2>2. \/ h = Whole /\ losses' = losses
        \/ "uncounted" \in losses' /\ losses \subseteq losses'
    BY <1>1, <1>7 DEF ReadLost, Safe, Loses
  <2>3. Whole \notin Chunks BY ExtractionAssumption DEF Whole, Chunks
  <2>4. ASSUME NEW i \in Chunks, i # h PROVE i \in StillToCount' <=> i \in StillToCount
    BY <1>2, <1>4, <2>1, <2>4, StillMeans, StillMeansNext
  <2>5. h \in StillToCount' => h \in StillToCount
    BY <1>2, <1>4, <2>1, StillMeans, StillMeansNext
  <2>6. QED BY <2>2, <2>3, <2>4, <2>5, StillMeans, StillMeansNext
<1>8. QED BY <1>6, <1>7

\* Nor does a publisher take one off its way unless it fails.
LEMMA StillPublish ==
    ASSUME Types, Places, PublishHash \/ PublishMessage \/ PublishFails
    PROVE  /\ StillToCount' \subseteq StillToCount
           /\ "uncounted" \notin losses' => StillToCount' = StillToCount
           /\ losses \subseteq losses'
           /\ PublishHash => StillToCount = Chunks /\ StillToCount' = Chunks
<1>1. PICK k \in 0..N + 2 : toPublish = Line(k) BY DEF Places
<1>2. toPublish # <<>> BY DEF PublishHash, PublishMessage, PublishFails
<1>3. /\ k \in 0..N + 1 /\ Head(toPublish) = k /\ Tail(toPublish) = Line(k + 1)
      /\ k + 1 \in 0..N + 2 /\ <<Whole>> = Line(Whole) /\ <<>> = Line(N + 2)
      /\ Whole \in 0..N + 2 /\ N + 2 \in 0..N + 2
  BY <1>1, <1>2, Published
<1>4. \A v \in Workers : WillCount(v)' = WillCount(v) /\ work' = work
  BY DEF PublishHash, PublishMessage, PublishFails, WillCount, IsChunk
<1>5. \A m : Holds(toPublish, m) <=> m \in k..N + 1 BY <1>1, LineHolds
<1>6. /\ queue \in Seq(Messages)
      /\ k \in Messages => \A m : Holds(Append(queue, k), m) <=> Holds(queue, m) \/ m = k
  BY AppendHolds DEF Types, Streams
<1>7. /\ \A i \in Chunks : i \in Nat /\ i >= 1 /\ i <= N
      /\ k # 0 => k \in Messages
  BY <1>3, ExtractionAssumption DEF Chunks, Messages, Whole
<1>8. CASE PublishHash \/ PublishMessage
  <2>1. \A m : Holds(toPublish', m) <=> m \in k + 1..N + 1
    BY <1>3, <1>8, LineHolds DEF PublishHash, PublishMessage
  <2>2. \/ k = 0 /\ queue' = queue
        \/ k # 0 /\ queue' = Append(queue, k)
    BY <1>3, <1>8 DEF PublishHash, PublishMessage, Hash
  <2>3. ASSUME NEW i \in Chunks
        PROVE  (Holds(toPublish', i) \/ Holds(queue', i)) <=> (Holds(toPublish, i) \/ Holds(queue, i))
    <3>1. Holds(toPublish, i) <=> i >= k BY <1>3, <1>5, <1>7, ExtractionAssumption
    <3>2. Holds(toPublish', i) <=> i >= k + 1 BY <1>3, <1>7, <2>1, ExtractionAssumption
    <3>3. i # k => (i >= k <=> i >= k + 1) BY <1>3, <1>7
    <3>4. CASE k = 0
      <4>1. i # k /\ queue' = queue BY <1>7, <2>2, <3>4
      <4>2. QED BY <3>1, <3>2, <3>3, <4>1
    <3>5. CASE k # 0
      <4>1. k \in Messages /\ queue' = Append(queue, k) BY <1>7, <2>2, <3>5
      <4>2. Holds(queue', i) <=> Holds(queue, i) \/ i = k BY <1>6, <4>1
      <4>3. Holds(toPublish, i) <=> Holds(toPublish', i) \/ i = k
        BY <1>3, <1>7, <3>1, <3>2
      <4>4. QED BY <4>2, <4>3
    <3>6. QED BY <3>4, <3>5
  <2>4. ASSUME NEW i \in Chunks PROVE i \in StillToCount' <=> i \in StillToCount
    BY <1>4, <2>3, StillMeans, StillMeansNext
  <2>5. losses' = losses BY <1>8 DEF PublishHash, PublishMessage
  <2>6. ASSUME PublishHash, NEW i \in Chunks PROVE i \in StillToCount
    <3>1. k = 0 BY <1>3, <2>6 DEF PublishHash, Hash
    <3>2. Holds(toPublish, i) BY <1>5, <1>7, <3>1, ExtractionAssumption
    <3>3. QED BY <3>2, StillMeans
  <2>7. QED BY <2>4, <2>5, <2>6, StillMeans, StillMeansNext
<1>9. CASE PublishFails
  <2>1. queue' = queue \/ (k \in Messages /\ queue' = Append(queue, k))
    BY <1>3, <1>7, <1>9 DEF PublishFails, Hash
  <2>2. \/ k = Whole /\ toPublish' = Line(N + 2) /\ losses' = losses
        \/ /\ k # Whole /\ toPublish' = Line(Whole)
           /\ "uncounted" \in losses' /\ losses \subseteq losses'
    BY <1>3, <1>9 DEF PublishFails, Safe, Loses
  <2>3. \A i \in Chunks : ~Holds(toPublish', i)
    <3>1. /\ \A m : Holds(Line(N + 2), m) <=> m \in N + 2..N + 1
          /\ \A m : Holds(Line(Whole), m) <=> m \in Whole..N + 1
      BY <1>3, LineHolds
    <3>2. QED BY <1>7, <2>2, <3>1, ExtractionAssumption DEF Whole
  <2>4. ASSUME NEW i \in Chunks, Holds(queue', i) PROVE Holds(toPublish, i) \/ Holds(queue, i)
    <3>1. Holds(toPublish, k) BY <1>3, <1>5, ExtractionAssumption
    <3>2. CASE queue' = queue BY <2>4, <3>2
    <3>3. CASE k \in Messages /\ queue' = Append(queue, k)
      <4>1. Holds(queue', i) <=> Holds(queue, i) \/ i = k BY <1>6, <3>3
      <4>2. QED BY <2>4, <3>1, <4>1
    <3>4. QED BY <2>1, <3>2, <3>3
  <2>5. ASSUME NEW i \in Chunks, Holds(queue, i) PROVE Holds(queue', i)
    BY <1>6, <2>1, <2>5
  <2>6. ASSUME k = Whole, NEW i \in Chunks PROVE ~Holds(toPublish, i)
    BY <1>5, <1>7, <2>6, ExtractionAssumption DEF Whole
  <2>7. ~PublishHash
    <3>1. losses' = losses \/ "uncounted" \in losses' BY <2>2
    <3>2. faults' # faults
      BY <1>9 DEF PublishFails, Fault, Types, Failures
    <3>3. QED BY <3>2 DEF PublishHash, Ok
  <2>8. ASSUME NEW i \in Chunks, i \in StillToCount' PROVE i \in StillToCount
    BY <1>4, <2>3, <2>4, <2>8, StillMeans, StillMeansNext
  <2>9. ASSUME k = Whole, NEW i \in Chunks, i \in StillToCount PROVE i \in StillToCount'
    BY <1>4, <2>5, <2>6, <2>9, StillMeans, StillMeansNext
  <2>10. QED BY <2>2, <2>7, <2>8, <2>9, StillMeans, StillMeansNext
<1>10. QED BY <1>8, <1>9

\* A step that neither counts nor lets the hash expire.
LEMMA CountingKeeps ==
    ASSUME Types, Types', Counting,
           StillToCount' \subseteq StillToCount,
           "uncounted" \notin losses' => StillToCount' = StillToCount,
           losses \subseteq losses', merges' = merges,
           progress'.done = progress.done,
           \A i \in Chunks : progress.chunk[i] # "none" => progress'.chunk[i] # "none",
           \A w \in Workers : work'[w].merging => work[w].merging,
           "expire" \notin losses' => \A w \in Workers :
               At(w, "count")' \/ work'[w].merging =>
                 progress'.chunk[work'[w].msg] = IF work'[w].failed THEN "failed" ELSE "done"
    PROVE  Counting'
<1>0. N \in Nat /\ progress.done \in Nat
  BY ExtractionAssumption DEF Types, Results, Hashes
<1>1. /\ StillToCount \in SUBSET Chunks /\ StillToCount' \in SUBSET Chunks
  BY StillMeans, StillMeansNext
<1>2. /\ IsFiniteSet(StillToCount) /\ Cardinality(StillToCount) \in Nat
      /\ Cardinality(StillToCount') \in Nat
  BY <1>1, ChunksFinite
<1>3. Cardinality(StillToCount') <= Cardinality(StillToCount)
  BY <1>2, FS_Subset
<1>4. progress'.done + Cardinality(StillToCount') <= N
  BY <1>0, <1>2, <1>3 DEF Counting
<1>5. losses' \cap {"expire", "uncounted"} = {} =>
        progress'.done + Cardinality(StillToCount') = N
  BY DEF Counting
<1>6. merges' = 0 \/ (merges' = 1 /\ StillToCount' = {}) BY DEF Counting
<1>7. \A w \in Workers : work'[w].merging => merges' = 1 BY DEF Counting
<1>8. ASSUME "expire" \notin losses' PROVE progress'.done <= Cardinality(TrackedAndPast')
  <2>1. TrackedAndPast \subseteq TrackedAndPast' BY DEF TrackedAndPast
  <2>2. TrackedAndPast \in SUBSET Chunks /\ TrackedAndPast' \in SUBSET Chunks
    BY DEF TrackedAndPast
  <2>3. /\ IsFiniteSet(TrackedAndPast') /\ Cardinality(TrackedAndPast') \in Nat
        /\ Cardinality(TrackedAndPast) \in Nat
    BY <2>2, ChunksFinite
  <2>4. Cardinality(TrackedAndPast) <= Cardinality(TrackedAndPast')
    BY <2>1, <2>3, FS_Subset
  <2>5. "expire" \notin losses BY <1>8
  <2>6. progress.done <= Cardinality(TrackedAndPast) BY <2>5 DEF Counting
  <2>7. QED BY <1>0, <2>3, <2>4, <2>6
<1>9. ASSUME "expire" \notin losses', merges' = 1, NEW i \in Chunks
      PROVE  progress'.chunk[i] # "none"
  <2>1. "expire" \notin losses BY <1>9
  <2>2. QED BY <1>9, <2>1 DEF Counting
<1>10. QED BY <1>4, <1>5, <1>6, <1>7, <1>8, <1>9 DEF Counting

\* Counting a chunk that was on its way.
LEMMA CountingCounts ==
    ASSUME Types, Types', Counting, NEW w \in Workers, At(w, "count"),
           work[w].msg \in StillToCount, StillToCount' = StillToCount \ {work[w].msg},
           losses \subseteq losses', losses' \subseteq losses \cup {"count"},
           progress'.done = progress.done + 1, progress'.chunk = progress.chunk,
           \/ merges' = merges /\ ~work'[w].merging
           \/ merges' = merges + 1 /\ progress'.done = N,
           work'[w].msg = work[w].msg, work'[w].failed = work[w].failed,
           ~At(w, "count")', ~work[w].merging,
           \A v \in Workers \ {w} : work'[v] = work[v]
    PROVE  Counting'
<1> DEFINE m == work[w].msg
<1>0. N \in Nat /\ progress.done \in Nat
  BY ExtractionAssumption DEF Types, Results, Hashes
<1>1. /\ StillToCount \in SUBSET Chunks /\ StillToCount' \in SUBSET Chunks /\ m \in Chunks
  BY StillMeans, StillMeansNext
<1>2. /\ IsFiniteSet(StillToCount) /\ Cardinality(StillToCount) \in Nat
      /\ Cardinality(StillToCount') \in Nat
  BY <1>1, ChunksFinite
<1>3. Cardinality(StillToCount') = Cardinality(StillToCount) - 1
  BY <1>2, FS_RemoveElement
<1>4. progress'.done + Cardinality(StillToCount') = progress.done + Cardinality(StillToCount)
  BY <1>0, <1>2, <1>3
<1>5. progress'.done + Cardinality(StillToCount') <= N
  BY <1>4 DEF Counting
<1>6. losses' \cap {"expire", "uncounted"} = {} =>
        progress'.done + Cardinality(StillToCount') = N
  BY <1>4 DEF Counting
<1>7. merges = 0 BY DEF Counting
<1>8. progress'.done = N => StillToCount' = {}
  <2>1. progress'.done = N => Cardinality(StillToCount') = 0 BY <1>0, <1>2, <1>5
  <2>2. QED BY <1>1, <2>1, ChunksFinite
<1>9. \A v \in Workers : ~work[v].merging BY <1>7 DEF Counting
<1>10. \A v \in Workers : work'[v].merging => merges' = 1 BY <1>7, <1>9
<1>11. merges' = 0 \/ (merges' = 1 /\ StillToCount' = {}) BY <1>7, <1>8
<1>12. ASSUME "expire" \notin losses'
       PROVE  /\ progress'.done <= Cardinality(TrackedAndPast')
              /\ merges' = 1 => \A i \in Chunks : progress'.chunk[i] # "none"
              /\ \A v \in Workers : At(v, "count")' \/ work'[v].merging =>
                   progress'.chunk[work'[v].msg] =
                     IF work'[v].failed THEN "failed" ELSE "done"
  <2>1. "expire" \notin losses BY <1>12
  <2>2. progress.chunk[m] # "none" BY <2>1 DEF Counting
  <2>3. /\ TrackedAndPast' = TrackedAndPast \cup {m} /\ m \notin TrackedAndPast
    BY <1>1, <2>2 DEF TrackedAndPast
  <2>4. TrackedAndPast \in SUBSET Chunks /\ TrackedAndPast' \in SUBSET Chunks
    BY <1>1, <2>3 DEF TrackedAndPast
  <2>5. /\ IsFiniteSet(TrackedAndPast) /\ Cardinality(TrackedAndPast) \in Nat
        /\ Cardinality(TrackedAndPast') \in Nat /\ Cardinality(TrackedAndPast') <= N
    BY <2>4, ChunksFinite
  <2>6. Cardinality(TrackedAndPast') = Cardinality(TrackedAndPast) + 1
    BY <2>3, <2>5, FS_AddElement
  <2>7. progress'.done <= Cardinality(TrackedAndPast')
    BY <1>0, <2>1, <2>5, <2>6 DEF Counting
  <2>8. ASSUME merges' = 1, NEW i \in Chunks PROVE progress'.chunk[i] # "none"
    <3>1. progress'.done = N BY <1>7, <2>8
    <3>2. Cardinality(TrackedAndPast') = N BY <1>0, <2>5, <2>7, <3>1
    <3>3. TrackedAndPast' = Chunks BY <2>4, <3>2, ChunksFinite
    <3>4. QED BY <2>3, <2>2, <3>3 DEF TrackedAndPast
  <2>9. ASSUME NEW v \in Workers, At(v, "count")' \/ work'[v].merging
        PROVE  progress'.chunk[work'[v].msg] =
                 IF work'[v].failed THEN "failed" ELSE "done"
    <3>1. CASE v = w BY <2>1, <3>1 DEF Counting
    <3>2. CASE v # w
      <4>1. work'[v] = work[v] BY <3>2
      <4>2. At(v, "count") \/ work[v].merging BY <2>9, <4>1 DEF At
      <4>3. QED BY <2>1, <4>1, <4>2 DEF Counting
    <3>3. QED BY <3>1, <3>2
  <2>10. QED BY <2>7, <2>8, <2>9
<1>13. QED BY <1>5, <1>6, <1>10, <1>11, <1>12 DEF Counting

\* The publishers and the expiry of the hash.
LEMMA CountingPublishers ==
    ASSUME Types, Types', Places, Counting,
           PublishHash \/ PublishMessage \/ PublishFails \/ Expire
    PROVE  Counting'
<1>0. N \in Nat /\ progress.done \in Nat
  BY ExtractionAssumption DEF Types, Results, Hashes
<1>1. UNCHANGED <<work, merges>>
  BY DEF PublishHash, PublishMessage, PublishFails, Expire
<1>2. /\ Cardinality(StillToCount) \in Nat /\ Cardinality(StillToCount) <= N
      /\ Cardinality(TrackedAndPast') \in Nat
  BY StillMeans, StillMeansNext, ChunksFinite DEF TrackedAndPast
<1>3. CASE Expire
  <2>1. UNCHANGED <<toPublish, queue>> /\ progress' = NoHash /\ "expire" \in losses'
    BY <1>3 DEF Expire, Loses
  <2>2. StillToCount' = StillToCount
    BY <1>1, <2>1 DEF StillToCount, WillCount, IsChunk
  <2>3. progress'.done = 0 BY <2>1 DEF NoHash
  <2>4. QED BY <1>0, <1>1, <1>2, <2>1, <2>2, <2>3 DEF Counting
<1>4. CASE PublishHash
  <2>1. StillToCount' = Chunks /\ StillToCount = Chunks /\ losses' = losses
    BY <1>4, StillPublish DEF PublishHash
  <2>2. progress'.done = 0 /\ progress'.chunk = progress.chunk
    BY <1>4 DEF Types, Results, Hashes, PublishHash
  <2>3. Cardinality(StillToCount') = N /\ Cardinality(StillToCount) = N
    BY <2>1, ChunksFinite
  <2>4. QED BY <1>0, <1>1, <1>2, <2>1, <2>2, <2>3 DEF Counting, At
<1>5. CASE PublishMessage \/ PublishFails
  <2>1. progress' = progress BY <1>5 DEF PublishMessage, PublishFails
  <2>2. /\ StillToCount' \subseteq StillToCount /\ losses \subseteq losses'
        /\ "uncounted" \notin losses' => StillToCount' = StillToCount
    BY <1>5, StillPublish
  <2>3. "expire" \notin losses' => \A w \in Workers :
          At(w, "count")' \/ work'[w].merging =>
            progress'.chunk[work'[w].msg] = IF work'[w].failed THEN "failed" ELSE "done"
    BY <1>1, <2>1, <2>2 DEF Counting, At
  <2>4. QED BY <1>1, <2>1, <2>2, <2>3, CountingKeeps
<1>6. QED BY <1>3, <1>4, <1>5

\* A step of a worker on its own message that does not count it.
LEMMA CountingOwn ==
    ASSUME Types, Types', Places, Counting, NEW w \in Workers, OwnStep(w), ~At(w, "idle"),
           losses \subseteq losses', merges' = merges,
           progress'.done = progress.done,
           \A i \in Chunks \ {work[w].msg} : progress'.chunk[i] = progress.chunk[i],
           progress'.chunk = progress.chunk \/ progress' = Tracked(w),
           WillCount(w) /\ ~WillCount(w)' => "uncounted" \in losses',
           ~WillCount(w) => ~WillCount(w)',
           work'[w].merging => work[w].merging,
           "expire" \notin losses' => (At(w, "count")' \/ work'[w].merging =>
                 progress'.chunk[work'[w].msg] = IF work'[w].failed THEN "failed" ELSE "done")
    PROVE  Counting'
<1>1. /\ StillToCount' \subseteq StillToCount
      /\ "uncounted" \notin losses' => StillToCount' = StillToCount
  BY StillOwn
<1>2. \A i \in Chunks : progress.chunk[i] # "none" => progress'.chunk[i] # "none"
  BY HashKept
<1>3. \A v \in Workers : work'[v].merging => work[v].merging BY DEF OwnStep
<1>4. ASSUME "expire" \notin losses', NEW v \in Workers, v # w,
             At(v, "count")' \/ work'[v].merging
      PROVE  progress'.chunk[work'[v].msg] = IF work'[v].failed THEN "failed" ELSE "done"
  <2>1. work'[v] = work[v] BY <1>4 DEF OwnStep
  <2>2. At(v, "count") \/ work[v].merging BY <1>4, <2>1 DEF At
  <2>3. work[v].msg \in Chunks BY <2>2 DEF Places, Shape, At
  <2>4. work[v].msg # work[w].msg
    <3>1. work[v].msg # NoMsg
      BY <2>3, ExtractionAssumption DEF Chunks, NoMsg
    <3>2. QED BY <1>4, <3>1 DEF Places
  <2>5. progress'.chunk[work[v].msg] = progress.chunk[work[v].msg] BY <2>3, <2>4
  <2>6. "expire" \notin losses BY <1>4
  <2>7. QED BY <2>1, <2>2, <2>5, <2>6 DEF Counting
<1>5. "expire" \notin losses' => \A v \in Workers :
          At(v, "count")' \/ work'[v].merging =>
            progress'.chunk[work'[v].msg] = IF work'[v].failed THEN "failed" ELSE "done"
  BY <1>4
<1>6. QED BY <1>1, <1>2, <1>3, <1>5, CountingKeeps

\* The steps that leave the hash alone.
LEMMA CountingMoves ==
    ASSUME Types, Types', Places, Counting, NEW w \in Workers,
           \/ Extract(w) \/ RateLimited(w) \/ Fallback(w) \/ MergeRead(w) \/ Merged(w)
           \/ Store(w) \/ Ack(w) \/ Retry(w) \/ Leave(w) \/ MergeFails(w) \/ StorePart(w)
           \/ StoreFails(w) \/ Crash(w)
    PROVE  Counting'
<1>0. Working BY DEF Types
<1>1. /\ progress' = progress /\ merges' = merges /\ ~At(w, "idle")
      /\ losses \subseteq losses'
  BY DEF Extract, RateLimited, Fallback, MergeRead, Merged, Store, Ack, Retry, Leave,
         MergeFails, StorePart, StoreFails, Crash, At, Safe, Loses
<1>2. OwnStep(w) BY OwnMoves, OwnAnswers
<1>3. /\ Shape(w) /\ work[w].msg \in Messages /\ work[w].merging \in BOOLEAN
  BY <1>1, AtWork
<1>4. SUFFICES /\ WillCount(w) /\ ~WillCount(w)' => "uncounted" \in losses'
               /\ ~WillCount(w) => ~WillCount(w)'
               /\ ~At(w, "count")'
               /\ work'[w].merging => /\ work[w].merging /\ work'[w].msg = work[w].msg
                                      /\ work'[w].failed = work[w].failed
  <2>1. "expire" \notin losses' => (At(w, "count")' \/ work'[w].merging =>
          progress'.chunk[work'[w].msg] = IF work'[w].failed THEN "failed" ELSE "done")
    BY <1>1, <1>4 DEF Counting
  <2>2. QED BY <1>1, <1>2, <1>4, <2>1, CountingOwn
<1>5. CASE Extract(w)
  <2>1. work[w].pc = "extract" BY <1>5 DEF Extract, At
  <2>2. /\ work'[w].pc = IF work[w].msg \in Chunks THEN "track" ELSE "store"
        /\ work'[w].msg = work[w].msg
        /\ work'[w].failed = work[w].failed /\ work'[w].merging = work[w].merging
    BY <1>5, ExtractFields
  <2>3. QED BY <2>1, <2>2 DEF WillCount, IsChunk, At
<1>6. CASE RateLimited(w)
  <2>1. work[w].pc = "extract" BY <1>6 DEF RateLimited, At
  <2>2. ~work[w].merging BY <1>3, <2>1 DEF Shape
  <2>3. QED BY <1>0, <1>6, <2>1, <2>2, LimitedFields DEF WillCount, IsChunk, At
<1>7. CASE MergeRead(w)
  <2>1. work[w].pc = "merge" BY <1>7 DEF MergeRead, At
  <2>2. QED BY <1>7, <2>1, MergeFields DEF WillCount, IsChunk, At
<1>8. CASE Ack(w) \/ Leave(w) \/ Crash(w)
  <2>1. work' = [work EXCEPT ![w] = Idle] BY <1>8 DEF Ack, Leave, Crash
  <2>2. work'[w].pc = "idle" /\ ~work'[w].merging BY <1>0, <2>1, IdleFields
  <2>3. WillCount(w) => "uncounted" \in losses'
    <3>1. CASE Crash(w)
      <4>1. WillCount(w) => ~work[w].merging BY <1>3 DEF Shape, WillCount
      <4>2. QED BY <3>1, <4>1 DEF Crash, Loses
    <3>2. CASE Ack(w) \/ Leave(w) BY <3>2 DEF Ack, Leave, At, WillCount
    <3>3. QED BY <1>8, <3>1, <3>2
  <2>4. QED BY <2>2, <2>3 DEF WillCount, At
<1>9. CASE Fallback(w) \/ Merged(w) \/ Store(w) \/ Retry(w) \/ MergeFails(w)
           \/ StorePart(w) \/ StoreFails(w)
  <2>1. PICK p \in {"ack", "store", "left", "retry"} : Go(w, p)
    BY <1>9 DEF Fallback, FallsBack, Merged, Store, Retry, MergeFails, StorePart, StoreFails
  <2>2. work[w].pc \in {"fallback", "merge", "store", "retry"}
    BY <1>9 DEF At, Fallback, Merged, Store, Retry, MergeFails, StorePart, StoreFails
  <2>3. p \in Pcs BY DEF Pcs
  <2>4. /\ work'[w].pc = p /\ work'[w].msg = work[w].msg
        /\ work'[w].failed = work[w].failed /\ work'[w].merging = work[w].merging
    BY <1>0, <1>1, <2>1, <2>3, Goes
  <2>5. QED BY <2>2, <2>4 DEF WillCount, At
<1>10. QED BY <1>5, <1>6, <1>7, <1>8, <1>9

\* Writing a chunk to the hash.
LEMMA CountingTracks ==
    ASSUME Types, Types', Places, Counting, NEW w \in Workers, TrackChunk(w) \/ TrackFails(w)
    PROVE  Counting'
<1>0. Working BY DEF Types
<1>1. /\ progress' \in {progress, Tracked(w)} /\ merges' = merges /\ work[w].pc = "track"
      /\ losses \subseteq losses'
  BY DEF TrackChunk, TrackFails, At, Loses
<1>2. OwnStep(w) BY OwnMoves
<1>3. Shape(w) /\ work[w].msg \in Chunks /\ ~work[w].merging /\ ~At(w, "idle")
  BY <1>1, AtWork DEF Shape, At
<1>4. /\ progress'.done = progress.done
      /\ \A i \in Chunks \ {work[w].msg} : progress'.chunk[i] = progress.chunk[i]
      /\ progress'.chunk = progress.chunk \/ progress' = Tracked(w)
  BY <1>1, HashKept
<1>5. PICK p \in {"count", "fallback"} :
        /\ Go(w, p)
        /\ p = "count" => progress' = Tracked(w)
        /\ p = "fallback" => "uncounted" \in losses'
  BY DEF TrackChunk, TrackFails, Loses
<1>6. p \in Pcs BY DEF Pcs
<1>7. /\ work'[w].pc = p /\ work'[w].msg = work[w].msg
      /\ work'[w].failed = work[w].failed /\ work'[w].merging = work[w].merging
  BY <1>0, <1>3, <1>5, <1>6, Goes
<1>8. /\ WillCount(w) /\ ~WillCount(w)' => "uncounted" \in losses'
      /\ WillCount(w) /\ ~work'[w].merging
  BY <1>1, <1>3, <1>5, <1>7 DEF WillCount, IsChunk
<1>9. At(w, "count")' => progress'.chunk[work'[w].msg] =
                           IF work'[w].failed THEN "failed" ELSE "done"
  BY <1>3, <1>5, <1>7, HashKept DEF At
<1>10. QED BY <1>1, <1>2, <1>3, <1>4, <1>8, <1>9, CountingOwn

\* Counting it.
LEMMA CountingIncrements ==
    ASSUME Types, Types', Places, Counting, NEW w \in Workers, CountChunk(w) \/ CountFails(w)
    PROVE  Counting'
<1>0. Working BY DEF Types
<1>1. work[w].pc = "count" /\ ~At(w, "idle") BY DEF CountChunk, CountFails, At
<1>2. OwnStep(w) BY OwnMoves
<1>3. Shape(w) /\ work[w].msg \in Chunks /\ ~work[w].merging /\ WillCount(w)
  BY <1>1, AtWork DEF Shape, WillCount, IsChunk
<1>4. CASE progress' = Counted(w) /\ "uncounted" \notin losses' \ losses
  <2>1. progress'.done = progress.done + 1 /\ progress'.chunk = progress.chunk
    BY <1>4, HashKept
  <2>2. losses \subseteq losses' /\ losses' \subseteq losses \cup {"count"}
    BY <1>4 DEF CountChunk, CountFails, Safe, Loses
  <2>3. /\ work'[w].msg = work[w].msg /\ work'[w].failed = work[w].failed
        /\ work'[w].pc \in {"ack", "merge", "fallback"}
        /\ \/ merges' = merges /\ ~work'[w].merging
           \/ merges' = merges + 1 /\ progress'.done = N
    <3>1. CASE CountChunk(w) BY <1>0, <1>3, <3>1, CountFields
    <3>2. CASE CountFails(w)
      <4>1. Go(w, "fallback") /\ "fallback" \in Pcs /\ merges' = merges
        BY <3>2 DEF CountFails, Pcs
      <4>2. QED BY <1>0, <1>1, <1>3, <4>1, Goes
    <3>3. QED BY <3>1, <3>2
  <2>4. ~WillCount(w)' /\ ~At(w, "count")' BY <2>3 DEF WillCount, At
  <2>5. StillToCount' = StillToCount \ {work[w].msg} /\ work[w].msg \in StillToCount
    BY <1>1, <1>2, <1>3, <2>4, StillOwn
  <2>6. \A v \in Workers \ {w} : work'[v] = work[v] BY <1>2 DEF OwnStep
  <2>7. QED BY <1>1, <1>3, <2>1, <2>2, <2>3, <2>4, <2>5, <2>6, CountingCounts DEF At
<1>5. CASE ~(progress' = Counted(w) /\ "uncounted" \notin losses' \ losses)
  <2>1. CountFails(w) /\ progress' = progress /\ Loses("uncounted")
    BY <1>5 DEF CountChunk, CountFails, Safe, Loses
  <2>2. Go(w, "fallback") /\ "fallback" \in Pcs /\ merges' = merges
    BY <2>1 DEF CountFails, Pcs
  <2>3. work'[w].pc = "fallback" /\ ~work'[w].merging BY <1>0, <1>1, <1>3, <2>2, Goes
  <2>4. "uncounted" \in losses' /\ losses \subseteq losses' BY <2>1 DEF Loses
  <2>5. ~At(w, "count")' BY <2>3 DEF At
  <2>6. QED BY <1>1, <1>2, <1>3, <2>1, <2>2, <2>3, <2>4, <2>5, CountingOwn
<1>6. QED BY <1>4, <1>5

\* Every step keeps the count.
LEMMA CountingStep == Types /\ Types' /\ Places /\ Counting /\ [Next]_vars => Counting'
<1>1. ASSUME Counting, UNCHANGED vars PROVE Counting'
  <2>1. StillToCount' = StillToCount
    BY <1>1 DEF StillToCount, WillCount, IsChunk, vars
  <2>2. TrackedAndPast' = TrackedAndPast BY <1>1, <2>1 DEF TrackedAndPast, vars
  <2>3. QED BY <1>1, <2>1, <2>2 DEF Counting, At, vars
<1>2. ASSUME Types, Types', Places, Counting, NEW w \in Workers,
             WorkerStep(w) \/ WorkerFault(w)
      PROVE  Counting'
  <2>1. CASE Read(w) \/ ReadLost(w)
    <3>1. /\ StillToCount' \subseteq StillToCount /\ losses \subseteq losses'
          /\ "uncounted" \notin losses' => StillToCount' = StillToCount
      BY <1>2, <2>1, StillRead
    <3>2. /\ progress' = progress /\ merges' = merges
      BY <2>1 DEF Read, ReadLost
    <3>3. /\ \A v \in Workers \ {w} : work'[v] = work[v]
          /\ work'[w] = work[w] \/ (~work'[w].merging /\ ~At(w, "count")')
      <4>1. CASE Read(w)
        <5>1. Head(queue) \in Messages /\ Working
          BY <1>2, <4>1 DEF Types, Streams, Read
        <5>2. QED BY <4>1, <5>1, ReadsFields DEF Read, At
      <4>2. CASE ReadLost(w) BY <4>2 DEF ReadLost
      <4>3. QED BY <2>1, <4>1, <4>2
    <3>4. \A v \in Workers : work'[v].merging => work[v].merging BY <3>3
    <3>5. "expire" \notin losses' => \A v \in Workers :
            At(v, "count")' \/ work'[v].merging =>
              progress'.chunk[work'[v].msg] = IF work'[v].failed THEN "failed" ELSE "done"
      BY <1>2, <3>1, <3>2, <3>3 DEF Counting, At
    <3>6. QED BY <1>2, <3>1, <3>2, <3>4, <3>5, CountingKeeps
  <2>2. CASE TrackChunk(w) \/ TrackFails(w) BY <1>2, <2>2, CountingTracks
  <2>3. CASE CountChunk(w) \/ CountFails(w) BY <1>2, <2>3, CountingIncrements
  <2>4. CASE \/ Extract(w) \/ RateLimited(w) \/ Fallback(w) \/ MergeRead(w) \/ Merged(w)
             \/ Store(w) \/ Ack(w) \/ Retry(w) \/ Leave(w) \/ MergeFails(w) \/ StorePart(w)
             \/ StoreFails(w) \/ Crash(w)
    BY <1>2, <2>4, CountingMoves
  <2>5. QED BY <1>2, <2>1, <2>2, <2>3, <2>4 DEF WorkerStep, WorkerFault
<1>3. QED BY <1>1, <1>2, CountingPublishers DEF Next

\* A behaviour starts with every chunk on its way.
LEMMA CountingInit == Init => Counting
<1>1. SUFFICES ASSUME Init PROVE Counting OBVIOUS
<1>2. toPublish = Line(0) /\ 0 \in 0..N + 2
  BY <1>1, ExtractionAssumption DEF Init, Line
<1>3. \A i \in Chunks : Holds(toPublish, i)
  <2>1. \A i \in Chunks : i \in 0..N + 1 BY ExtractionAssumption DEF Chunks
  <2>2. \A m : Holds(toPublish, m) <=> m \in 0..N + 1 BY <1>2, LineHolds
  <2>3. QED BY <2>1, <2>2
<1>4. StillToCount = Chunks BY <1>3, StillMeans
<1>5. Cardinality(StillToCount) = N /\ progress.done = 0 /\ N \in Nat
  BY <1>1, <1>4, ChunksFinite, ExtractionAssumption DEF Init, NoHash
<1>6. Cardinality(TrackedAndPast) \in Nat BY ChunksFinite DEF TrackedAndPast
<1>7. \A w \in Workers : ~work[w].merging /\ ~At(w, "count")
  BY <1>1 DEF Init, Idle, At
<1>8. merges = 0 BY <1>1 DEF Init
<1>9. QED BY <1>5, <1>6, <1>7, <1>8 DEF Counting

-----------------------------------------------------------------------------
(* Keeping. *)

\* A message a worker is at, before the acknowledgement, is kept.
LEMMA InHand ==
    ASSUME Types', Places', NEW w \in Workers, NEW m \in Messages, work'[w].msg = m,
           work'[w].pc \notin {"idle", "ack"}
    PROVE  Kept(m)'
<1>1. m \in pending' BY DEF Places, Shape
<1>2. m # NoMsg BY ExtractionAssumption DEF Messages, Chunks, Whole, NoMsg
<1>3. \A v \in Workers : work'[v].msg = m => v = w BY <1>2 DEF Places
<1>4. QED BY <1>1, <1>3 DEF Kept, At

\* A pending message no worker is at is kept.
LEMMA LeftPending ==
    ASSUME Places', NEW m \in Messages, m \in pending',
           \A w \in Workers : work'[w].msg # m
    PROVE  Kept(m)'
BY DEF Kept

\* While a worker merges, no chunk is on its way to the counter.
LEMMA MergingIsLast ==
    ASSUME Types, Places, Counting, NEW w \in Workers, work[w].merging
    PROVE  \A v \in Workers : ~WillCount(v)
<1>1. StillToCount = {} BY DEF Counting
<1>2. \A v \in Workers : WillCount(v) => work[v].msg \in Chunks BY DEF WillCount, IsChunk
<1>3. QED BY <1>1, <1>2, StillMeans

\* What a step on its own message leaves of the other messages.
LEMMA KeptOthers ==
    ASSUME Types, Places, NEW w \in Workers, OwnStep(w), ~At(w, "idle"),
           graph \subseteq graph',
           \A i \in Chunks \ {work[w].msg} : progress'.chunk[i] = progress.chunk[i],
           \/ progress'.done < N
           \/ \E v \in Workers : work'[v].merging
           \/ progress'.done = progress.done /\ \A v \in Workers : ~work[v].merging
           \/ \A i \in Chunks : progress.chunk[i] = "done" => found[i] \subseteq graph,
           NEW m \in Messages, m # work[w].msg, Kept(m)
    PROVE  Kept(m)'
<1>1. found'[m] = found[m] /\ (m \in pending' <=> m \in pending) BY DEF OwnStep
<1>2. CASE found[m] \subseteq graph BY <1>1, <1>2 DEF Kept
<1>3. CASE AwaitsMerge(m)
  <2>1. m \in Chunks /\ progress.chunk[m] = "done" /\ progress'.chunk[m] = "done"
    BY <1>3 DEF AwaitsMerge
  <2>2. progress.done < N \/ \E v \in Workers : work[v].merging
    BY <1>3 DEF AwaitsMerge
  <2>3. \/ found[m] \subseteq graph
        \/ progress'.done < N
        \/ \E v \in Workers : work'[v].merging
    BY <2>1, <2>2
  <2>4. QED BY <1>1, <2>1, <2>3 DEF Kept, AwaitsMerge
<1>4. CASE m \in pending /\ \A v \in Workers : work[v].msg = m => ~At(v, "ack")
  <2>1. m # NoMsg BY ExtractionAssumption DEF Messages, Chunks, Whole, NoMsg
  <2>2. work'[w].msg # m BY <2>1 DEF OwnStep
  <2>3. \A v \in Workers \ {w} : work'[v] = work[v] BY DEF OwnStep
  <2>4. QED BY <1>1, <1>4, <2>2, <2>3 DEF Kept, At
<1>5. QED BY <1>2, <1>3, <1>4 DEF Kept

\* And of a merge under way at another worker.
LEMMA MergeOthers ==
    ASSUME Types, Places, Counting, NEW w \in Workers, OwnStep(w),
           graph \subseteq graph',
           WillCount(w) \/ \A i \in Chunks : /\ progress'.chunk[i] = progress.chunk[i]
                                             /\ found'[i] = found[i],
           NEW v \in Workers, v # w, work[v].merging, MergeHolds(v)
    PROVE  MergeHolds(v)'
<1>1. ~WillCount(w) BY MergingIsLast
<1>2. work'[v] = work[v] BY DEF OwnStep
<1>3. \A i \in Chunks : progress'.chunk[i] = progress.chunk[i] /\ found'[i] = found[i]
  BY <1>1
<1>4. QED BY <1>2, <1>3 DEF MergeHolds, At

\* A step of a worker on its own message.
LEMMA KeepingOwn ==
    ASSUME Types, Types', Places, Places', Counting, Keeping,
           NEW w \in Workers, OwnStep(w), ~At(w, "idle"),
           losses' \subseteq {"uncounted"}, losses \subseteq losses', graph \subseteq graph',
           \A i \in Chunks \ {work[w].msg} : progress'.chunk[i] = progress.chunk[i],
           \/ progress'.done < N
           \/ \E v \in Workers : work'[v].merging
           \/ progress'.done = progress.done /\ \A v \in Workers : ~work[v].merging
           \/ \A i \in Chunks : progress.chunk[i] = "done" => found[i] \subseteq graph,
           WillCount(w) \/ \A i \in Chunks : /\ progress'.chunk[i] = progress.chunk[i]
                                             /\ found'[i] = found[i],
           NEW n \in Messages, n = work[w].msg, Kept(n)',
           work'[w].merging => MergeHolds(w)'
    PROVE  Keeping'
<1>1. losses \subseteq {"uncounted"} OBVIOUS
<1>2. ASSUME NEW m \in Messages PROVE Kept(m)'
  <2>1. Kept(m) BY <1>1 DEF Keeping
  <2>2. CASE m = n BY <2>2
  <2>3. CASE m # n BY <2>1, <2>3, KeptOthers
  <2>4. QED BY <2>2, <2>3
<1>3. ASSUME NEW v \in Workers, work'[v].merging PROVE MergeHolds(v)'
  <2>1. CASE v = w BY <1>3, <2>1
  <2>2. CASE v # w
    <3>1. work[v].merging BY <1>3, <2>2 DEF OwnStep
    <3>2. MergeHolds(v) BY <1>1, <3>1 DEF Keeping
    <3>3. QED BY <2>2, <3>1, <3>2, MergeOthers
  <2>3. QED BY <2>1, <2>2
<1>4. QED BY <1>2, <1>3 DEF Keeping

\* A step that leaves a worker without a merge at its message.
LEMMA KeepingBusy ==
    ASSUME Types, Types', Places, Places', Counting, Keeping,
           NEW w \in Workers, OwnStep(w), ~At(w, "idle"),
           losses' \subseteq {"uncounted"}, losses \subseteq losses', graph \subseteq graph',
           \A i \in Chunks \ {work[w].msg} : progress'.chunk[i] = progress.chunk[i],
           progress'.done = progress.done \/ progress'.done < N,
           WillCount(w) \/ \A i \in Chunks : /\ progress'.chunk[i] = progress.chunk[i]
                                             /\ found'[i] = found[i],
           ~work[w].merging, ~work'[w].merging,
           work'[w].msg = work[w].msg, work'[w].pc \notin {"idle", "ack"}
    PROVE  Keeping'
<1>1. PICK n \in Messages : n = work[w].msg BY AtWork
<1>2. Kept(n)' BY <1>1, InHand
<1>3. \/ progress'.done < N
      \/ \E v \in Workers : work'[v].merging
      \/ progress'.done = progress.done /\ \A v \in Workers : ~work[v].merging
  <2>1. \A v \in Workers : work[v].merging => work'[v].merging BY DEF OwnStep
  <2>2. QED BY <2>1
<1>4. QED BY <1>1, <1>2, <1>3, KeepingOwn

\* What every step of a worker at its message leaves alone.
LEMMA WorkerKeeps ==
    ASSUME Types, Places, NEW w \in Workers,
           \/ Extract(w) \/ RateLimited(w) \/ Fallback(w) \/ MergeRead(w) \/ Merged(w)
           \/ Store(w) \/ Ack(w) \/ Retry(w) \/ Leave(w) \/ MergeFails(w) \/ StorePart(w)
           \/ StoreFails(w) \/ Crash(w) \/ TrackChunk(w) \/ TrackFails(w)
           \/ CountChunk(w) \/ CountFails(w)
    PROVE  /\ OwnStep(w) /\ ~At(w, "idle") /\ Shape(w) /\ work[w].msg \in Messages
           /\ work[w].merging \in BOOLEAN
           /\ losses \subseteq losses' /\ graph \subseteq graph'
           /\ \A i \in Chunks \ {work[w].msg} : progress'.chunk[i] = progress.chunk[i]
           /\ \/ WillCount(w)
              \/ \A i \in Chunks : /\ progress'.chunk[i] = progress.chunk[i]
                                   /\ found'[i] = found[i]
<1>1. OwnStep(w) BY OwnMoves, OwnAnswers
<1>2. ~At(w, "idle")
  BY DEF At, Extract, RateLimited, Fallback, MergeRead, Merged, Store, Ack, Retry, Leave,
         MergeFails, StorePart, StoreFails, Crash, TrackChunk, TrackFails, CountChunk,
         CountFails
<1>3. Shape(w) /\ work[w].msg \in Messages /\ work[w].merging \in BOOLEAN BY <1>2, AtWork
<1>4. losses \subseteq losses'
  BY DEF Extract, RateLimited, Fallback, MergeRead, Merged, Store, Ack, Retry, Leave,
         MergeFails, StorePart, StoreFails, Crash, TrackChunk, TrackFails, CountChunk,
         CountFails, Safe, Loses
<1>5. graph \subseteq graph'
  BY DEF Extract, RateLimited, Fallback, MergeRead, Merged, Store, Ack, Retry, Leave,
         MergeFails, StorePart, StoreFails, Crash, TrackChunk, TrackFails, CountChunk,
         CountFails
<1>6. progress' \in {progress, Tracked(w), Counted(w)}
  BY DEF Extract, RateLimited, Fallback, MergeRead, Merged, Store, Ack, Retry, Leave,
         MergeFails, StorePart, StoreFails, Crash, TrackChunk, TrackFails, CountChunk,
         CountFails
<1>7. \A i \in Chunks \ {work[w].msg} : progress'.chunk[i] = progress.chunk[i]
  BY <1>6, HashKept
<1>8. WillCount(w) \/ \A i \in Chunks : /\ progress'.chunk[i] = progress.chunk[i]
                                        /\ found'[i] = found[i]
  <2>1. CASE TrackChunk(w) \/ TrackFails(w) \/ CountChunk(w) \/ CountFails(w)
    BY <1>3, <2>1 DEF TrackChunk, TrackFails, CountChunk, CountFails, At, Shape,
                      WillCount, IsChunk
  <2>2. CASE Extract(w)
    <3>1. CASE work[w].msg \in Chunks
      BY <2>2, <3>1 DEF Extract, At, WillCount, IsChunk
    <3>2. CASE work[w].msg \notin Chunks
      <4>1. progress' = progress BY <2>2 DEF Extract
      <4>2. \A i \in Chunks : found'[i] = found[i]
        BY <1>1, <3>2 DEF OwnStep, Messages
      <4>3. QED BY <4>1, <4>2
    <3>3. QED BY <3>1, <3>2
  <2>3. CASE \/ RateLimited(w) \/ Fallback(w) \/ MergeRead(w) \/ Merged(w)
             \/ Store(w) \/ Ack(w) \/ Retry(w) \/ Leave(w) \/ MergeFails(w)
             \/ StorePart(w) \/ StoreFails(w) \/ Crash(w)
    BY <2>3 DEF RateLimited, Fallback, MergeRead, Merged, Store, Ack, Retry, Leave,
                MergeFails, StorePart, StoreFails, Crash
  <2>4. QED BY <2>1, <2>2, <2>3
<1>9. QED BY <1>1, <1>2, <1>3, <1>4, <1>5, <1>7, <1>8

\* The steps after which the worker is still at its message.
LEMMA KeepingOn ==
    ASSUME Types, Types', Places, Places', Counting, Counting', Keeping, NEW w \in Workers,
           losses' \subseteq {"uncounted"},
           \/ Extract(w) \/ RateLimited(w) \/ TrackChunk(w) \/ TrackFails(w)
           \/ CountFails(w) \/ StoreFails(w) \/ Retry(w)
    PROVE  Keeping'
<1>0. Working BY DEF Types
<1>1. /\ OwnStep(w) /\ ~At(w, "idle") /\ Shape(w) /\ work[w].msg \in Messages
      /\ work[w].merging \in BOOLEAN
      /\ losses \subseteq losses' /\ graph \subseteq graph'
      /\ \A i \in Chunks \ {work[w].msg} : progress'.chunk[i] = progress.chunk[i]
      /\ \/ WillCount(w)
         \/ \A i \in Chunks : /\ progress'.chunk[i] = progress.chunk[i]
                              /\ found'[i] = found[i]
  BY WorkerKeeps
<1>2. progress'.done = progress.done \/ progress'.done < N
  <2>1. CASE CountFails(w)
    <3>1. CASE progress' = progress BY <3>1
    <3>2. CASE progress' # progress
      <4>1. progress'.done # N BY <2>1, <3>2 DEF CountFails, IsLast, Loses
      <4>2. progress'.done <= N
        <5>1. Cardinality(StillToCount') \in Nat BY StillMeansNext, ChunksFinite
        <5>2. progress'.done \in Nat /\ N \in Nat
          BY ExtractionAssumption DEF Types, Results, Hashes
        <5>3. progress'.done + Cardinality(StillToCount') <= N BY DEF Counting
        <5>4. QED BY <5>1, <5>2, <5>3
      <4>3. progress'.done \in Nat /\ N \in Nat
        BY ExtractionAssumption DEF Types, Results, Hashes
      <4>4. QED BY <4>1, <4>2, <4>3
    <3>3. QED BY <3>1, <3>2
  <2>2. CASE TrackChunk(w) \/ TrackFails(w)
    <3>1. progress' \in {progress, Tracked(w)} BY <2>2 DEF TrackChunk, TrackFails
    <3>2. QED BY <3>1, HashKept
  <2>3. CASE Extract(w) \/ RateLimited(w) \/ StoreFails(w) \/ Retry(w)
    BY <2>3 DEF Extract, RateLimited, StoreFails, Retry
  <2>4. QED BY <2>1, <2>2, <2>3
<1>3. SUFFICES /\ ~work[w].merging /\ work'[w].merging = work[w].merging
               /\ work'[w].msg = work[w].msg /\ work'[w].pc \notin {"idle", "ack"}
  BY <1>1, <1>2, KeepingBusy
<1>4. CASE Extract(w)
  <2>1. ~work[w].merging BY <1>1, <1>4 DEF Shape, Extract, At
  <2>2. QED BY <1>4, <2>1, ExtractFields
<1>5. CASE RateLimited(w)
  <2>1. ~work[w].merging BY <1>1, <1>5 DEF Shape, RateLimited, At
  <2>2. QED BY <1>0, <1>5, <2>1, LimitedFields
<1>6. CASE TrackChunk(w) \/ TrackFails(w) \/ CountFails(w) \/ StoreFails(w) \/ Retry(w)
  <2>1. ~work[w].merging
    BY <1>1, <1>6 DEF Shape, TrackChunk, TrackFails, CountFails, StoreFails, Retry, At
  <2>2. PICK p \in {"count", "fallback", "retry", "left"} : Go(w, p)
    <3>1. CASE Retry(w)
      <4>1. retries[work[w].msg] = 0 BY <1>1, <3>1 DEF Retry, Shape, At
      <4>2. QED BY <3>1, <4>1 DEF Retry, MaxExtractionRetries
    <3>2. QED BY <1>6, <3>1 DEF TrackChunk, TrackFails, CountFails, StoreFails
  <2>3. p \in Pcs BY DEF Pcs
  <2>4. QED BY <1>0, <1>1, <2>1, <2>2, <2>3, Goes
<1>7. QED BY <1>4, <1>5, <1>6

\* The count, and the merge it may start.
LEMMA KeepingCounts ==
    ASSUME Types, Types', Places, Places', Counting, Counting', Keeping, NEW w \in Workers,
           losses' \subseteq {"uncounted"}, CountChunk(w)
    PROVE  Keeping'
<1>0. Working BY DEF Types
<1>n. PICK n \in Messages : n = work[w].msg BY WorkerKeeps
<1>1. /\ OwnStep(w) /\ ~At(w, "idle") /\ Shape(w) /\ work[w].msg \in Messages
      /\ losses \subseteq losses' /\ graph \subseteq graph'
      /\ \A i \in Chunks \ {work[w].msg} : progress'.chunk[i] = progress.chunk[i]
      /\ \/ WillCount(w)
         \/ \A i \in Chunks : /\ progress'.chunk[i] = progress.chunk[i]
                              /\ found'[i] = found[i]
  BY WorkerKeeps
<1>2. work[w].pc = "count" /\ work[w].msg \in Chunks /\ ~work[w].merging
  BY <1>1 DEF CountChunk, At, Shape
<1>3. progress'.done \in Nat /\ N \in Nat /\ progress'.done <= N
  <2>1. Cardinality(StillToCount') \in Nat BY StillMeansNext, ChunksFinite
  <2>2. progress'.done \in Nat /\ N \in Nat
    BY ExtractionAssumption DEF Types, Results, Hashes
  <2>3. progress'.done + Cardinality(StillToCount') <= N BY DEF Counting
  <2>4. QED BY <2>1, <2>2, <2>3
<1>4. CASE progress'.done # N
  <2>1. progress'.done < N BY <1>3, <1>4
  <2>2. work'[w].pc = "ack" /\ work'[w].msg = work[w].msg /\ ~work'[w].merging
    BY <1>0, <1>2, <1>4, CountFields
  <2>3. progress'.chunk = progress.chunk /\ found' = found /\ graph' = graph
    BY HashKept DEF CountChunk
  <2>4. Kept(n)'
    <3>1. CASE work[w].failed
      <4>1. found[work[w].msg] = {} BY <1>1, <3>1 DEF Shape
      <4>2. QED BY <1>n, <2>3, <4>1 DEF Kept
    <3>2. CASE ~work[w].failed
      <4>1. "expire" \notin losses BY <1>1
      <4>2. progress.chunk[work[w].msg] = "done"
        BY <1>2, <3>2, <4>1 DEF Counting, At
      <4>3. QED BY <1>n, <1>2, <2>1, <2>3, <4>2 DEF Kept, AwaitsMerge
    <3>3. QED BY <3>1, <3>2
  <2>5. QED BY <1>n, <1>1, <2>1, <2>2, <2>4, KeepingOwn
<1>5. CASE progress'.done = N
  <2>1. /\ work'[w].pc = "merge" /\ work'[w].msg = work[w].msg /\ work'[w].merging
        /\ work'[w].next = 1
    BY <1>0, <1>5, CountFields
  <2>2. Kept(n)' BY <1>n, <1>1, <2>1, InHand
  <2>3. MergeHolds(w)' BY <2>1 DEF MergeHolds, At, Chunks
  <2>4. QED BY <1>n, <1>1, <2>1, <2>2, <2>3, KeepingOwn
<1>6. QED BY <1>4, <1>5

\* The steps of a merge.
LEMMA KeepingMerges ==
    ASSUME Types, Types', Places, Places', Counting, Keeping, NEW w \in Workers,
           losses' \subseteq {"uncounted"}, MergeRead(w) \/ Merged(w)
    PROVE  Keeping'
<1>0. Working BY DEF Types
<1>n. PICK n \in Messages : n = work[w].msg BY WorkerKeeps
<1>1. /\ OwnStep(w) /\ ~At(w, "idle") /\ Shape(w) /\ work[w].msg \in Messages
      /\ losses \subseteq losses' /\ graph \subseteq graph'
      /\ \A i \in Chunks \ {work[w].msg} : progress'.chunk[i] = progress.chunk[i]
      /\ \/ WillCount(w)
         \/ \A i \in Chunks : /\ progress'.chunk[i] = progress.chunk[i]
                              /\ found'[i] = found[i]
  BY WorkerKeeps
<1>2. work[w].pc = "merge" /\ work[w].merging BY <1>1 DEF MergeRead, Merged, At, Shape
<1>3. MergeHolds(w) BY <1>1, <1>2 DEF Keeping
<1>4. progress' = progress /\ found' = found BY DEF MergeRead, Merged
<1>5. N \in Nat /\ work[w].next \in 1..N + 1
  BY ExtractionAssumption DEF Types, Working, Doing
<1>6. /\ work'[w].pc \in {"merge", "store"} /\ work'[w].msg = work[w].msg
      /\ work'[w].merging = work[w].merging
      /\ MergeHolds(w)'
  <2>1. CASE MergeRead(w)
    <3>1. /\ work'[w].pc = "merge" /\ work'[w].msg = work[w].msg
          /\ work'[w].merging = work[w].merging
          /\ work[w].next \in 1..N /\ work'[w].next = work[w].next + 1
          /\ work'[w].result = IF progress.chunk[work[w].next] = "done"
                               THEN work[w].result \cup found[work[w].next]
                               ELSE work[w].result
      BY <2>1, MergeFields
    <3>2. ASSUME NEW i \in Chunks, progress.chunk[i] = "done", i < work[w].next + 1
          PROVE  found[i] \subseteq work'[w].result
      <4>1. CASE i = work[w].next BY <3>1, <3>2, <4>1
      <4>2. CASE i # work[w].next
        <5>1. i < work[w].next BY <1>5, <3>2, <4>2 DEF Chunks
        <5>2. found[i] \subseteq work[w].result
          BY <1>2, <1>3, <3>2, <5>1 DEF MergeHolds, At
        <5>3. QED BY <3>1, <5>2
      <4>3. QED BY <4>1, <4>2
    <3>3. QED BY <1>4, <3>1, <3>2 DEF MergeHolds, At
  <2>2. CASE Merged(w)
    <3>1. Go(w, "store") /\ "store" \in Pcs /\ work[w].next > N
      BY <2>2 DEF Merged, Pcs
    <3>2. /\ work'[w].pc = "store" /\ work'[w].msg = work[w].msg
          /\ work'[w].merging = work[w].merging /\ work'[w].result = work[w].result
      BY <1>0, <1>1, <3>1, Goes
    <3>3. ASSUME NEW i \in Chunks, progress.chunk[i] = "done"
          PROVE  found[i] \subseteq work[w].result
      <4>1. i < work[w].next BY <1>5, <3>1 DEF Chunks
      <4>2. QED BY <1>2, <1>3, <3>3, <4>1 DEF MergeHolds, At
    <3>4. QED BY <1>4, <3>2, <3>3 DEF MergeHolds, At
  <2>3. QED BY <2>1, <2>2
<1>7. Kept(n)' BY <1>n, <1>1, <1>6, InHand
<1>8. work'[w].merging BY <1>2, <1>6
<1>9. QED BY <1>n, <1>1, <1>6, <1>7, <1>8, KeepingOwn

\* The results are stored, or a failed chunk adds nothing.
LEMMA KeepingStores ==
    ASSUME Types, Types', Places, Places', Counting, Keeping, NEW w \in Workers,
           losses' \subseteq {"uncounted"}, Store(w) \/ Fallback(w)
    PROVE  Keeping'
<1>0. Working BY DEF Types
<1>n. PICK n \in Messages : n = work[w].msg BY WorkerKeeps
<1>1. /\ OwnStep(w) /\ ~At(w, "idle") /\ Shape(w) /\ work[w].msg \in Messages
      /\ work[w].merging \in BOOLEAN
      /\ losses \subseteq losses' /\ graph \subseteq graph'
      /\ \A i \in Chunks \ {work[w].msg} : progress'.chunk[i] = progress.chunk[i]
      /\ \/ WillCount(w)
         \/ \A i \in Chunks : /\ progress'.chunk[i] = progress.chunk[i]
                              /\ found'[i] = found[i]
  BY WorkerKeeps
<1>2. PICK p \in {"ack", "store"} : /\ Go(w, p)
                                    /\ Store(w) => p = "ack"
                                    /\ Fallback(w) => p = "store" \/ work[w].failed
    <2>1. CASE Store(w)
    <3>1. Go(w, "ack") /\ ~Fallback(w) BY <2>1 DEF Store, Fallback, At
    <3>2. QED BY <3>1
  <2>2. CASE Fallback(w)
    <3>1. Go(w, IF work[w].failed THEN "ack" ELSE "store") /\ ~Store(w)
      BY <2>2 DEF Store, Fallback, FallsBack, At
    <3>2. QED BY <3>1
  <2>3. QED BY <2>1, <2>2
<1>3. p \in Pcs BY DEF Pcs
<1>4. /\ work'[w].pc = p /\ work'[w].msg = work[w].msg
      /\ work'[w].merging = work[w].merging /\ work'[w].result = work[w].result
      /\ \A v \in Workers \ {w} : work'[v] = work[v]
  BY <1>0, <1>1, <1>2, <1>3, Goes
<1>5. progress' = progress /\ found' = found BY DEF Store, Fallback
<1>6. \/ progress'.done < N
      \/ \E v \in Workers : work'[v].merging
      \/ progress'.done = progress.done /\ \A v \in Workers : ~work[v].merging
  <2>1. \A v \in Workers : work[v].merging => work'[v].merging BY <1>4
  <2>2. QED BY <1>5, <2>1
<1>7. CASE Fallback(w)
  <2>1. ~work[w].merging BY <1>1, <1>7 DEF Fallback, At, Shape
  <2>2. Kept(n)'
    <3>1. CASE p = "store" BY <1>n, <1>1, <1>4, <3>1, InHand
    <3>2. CASE work[w].failed
      <4>1. found[work[w].msg] = {} BY <1>1, <3>2 DEF Shape
      <4>2. QED BY <1>n, <1>5, <4>1 DEF Kept
    <3>3. QED BY <1>2, <1>7, <3>1, <3>2
  <2>3. QED BY <1>n, <1>1, <1>4, <1>6, <2>1, <2>2, KeepingOwn
<1>8. CASE Store(w)
  <2>1. work[w].pc = "store" /\ graph' = graph \cup work[w].result BY <1>8 DEF Store, At
  <2>2. p = "ack" BY <1>2, <1>8
  <2>3. CASE work[w].merging
    <3>1. MergeHolds(w) BY <1>1, <2>3 DEF Keeping
    <3>2. MergeHolds(w)'
      BY <1>4, <1>5, <2>1, <2>2, <3>1 DEF MergeHolds, At
    <3>3. found[work[w].msg] = {} \/ progress.chunk[work[w].msg] = "done"
      <4>1. "expire" \notin losses BY <1>1
      <4>2. progress.chunk[work[w].msg] = IF work[w].failed THEN "failed" ELSE "done"
        BY <2>3, <4>1 DEF Counting
      <4>3. QED BY <1>1, <4>2 DEF Shape
    <3>4. work[w].msg \in Chunks BY <1>1, <2>3 DEF Shape
    <3>5. found[work[w].msg] \subseteq work[w].result
      BY <2>1, <3>1, <3>3, <3>4 DEF MergeHolds, At
    <3>6. Kept(n)' BY <1>n, <1>5, <2>1, <3>5 DEF Kept
    <3>7. QED BY <1>n, <1>1, <1>4, <1>6, <3>2, <3>6, KeepingOwn
  <2>4. CASE ~work[w].merging
    <3>1. found[work[w].msg] = work[w].result BY <1>1, <2>1, <2>4 DEF Shape
    <3>2. Kept(n)' BY <1>n, <1>5, <2>1, <3>1 DEF Kept
    <3>3. QED BY <1>n, <1>1, <1>4, <1>6, <2>4, <3>2, KeepingOwn
  <2>5. QED BY <1>1, <2>3, <2>4
<1>9. QED BY <1>7, <1>8

\* The worker is done with its message, leaves it or dies.
LEMMA KeepingEnds ==
    ASSUME Types, Types', Places, Places', Counting, Keeping, NEW w \in Workers,
           losses' \subseteq {"uncounted"}, Ack(w) \/ Leave(w) \/ Crash(w)
    PROVE  Keeping'
<1>0. Working BY DEF Types
<1>n. PICK n \in Messages : n = work[w].msg BY WorkerKeeps
<1>1. /\ OwnStep(w) /\ ~At(w, "idle") /\ Shape(w) /\ work[w].msg \in Messages
      /\ work[w].merging \in BOOLEAN
      /\ losses \subseteq losses' /\ graph \subseteq graph'
      /\ \A i \in Chunks \ {work[w].msg} : progress'.chunk[i] = progress.chunk[i]
      /\ \/ WillCount(w)
         \/ \A i \in Chunks : /\ progress'.chunk[i] = progress.chunk[i]
                              /\ found'[i] = found[i]
  BY WorkerKeeps
<1>2. /\ work' = [work EXCEPT ![w] = Idle]
      /\ UNCHANGED <<progress, graph, found>>
  BY DEF Ack, Leave, Crash
<1>3. /\ work'[w].msg = NoMsg /\ ~work'[w].merging
      /\ \A v \in Workers \ {w} : work'[v] = work[v]
  BY <1>0, <1>2, IdleFields
<1>4. work[w].msg # NoMsg /\ work[w].msg \in pending BY <1>1, AtWork
<1>5. \A v \in Workers : work'[v].msg # work[w].msg
  BY <1>3, <1>4 DEF Places
<1>6. work[w].merging => At(w, "ack") /\ Ack(w)
  <2>1. Crash(w) /\ work[w].merging => FALSE BY DEF Crash, Loses
  <2>2. Leave(w) => ~work[w].merging BY <1>1 DEF Leave, At, Shape
  <2>3. Ack(w) => At(w, "ack") BY DEF Ack
  <2>4. QED BY <2>1, <2>2, <2>3
<1>7. CASE work[w].merging
  <2>1. MergeHolds(w) BY <1>1, <1>7 DEF Keeping
  <2>2. \A i \in Chunks : progress.chunk[i] = "done" => found[i] \subseteq graph
    BY <1>6, <1>7, <2>1 DEF MergeHolds
  <2>3. work[w].msg \in Chunks BY <1>1, <1>7 DEF Shape
  <2>4. found[work[w].msg] \subseteq graph
    <3>1. "expire" \notin losses BY <1>1
    <3>2. progress.chunk[work[w].msg] = IF work[w].failed THEN "failed" ELSE "done"
      BY <1>7, <3>1 DEF Counting
    <3>3. CASE work[w].failed BY <1>1, <3>3 DEF Shape
    <3>4. CASE ~work[w].failed BY <2>2, <2>3, <3>2, <3>4
    <3>5. QED BY <3>3, <3>4
  <2>5. Kept(n)' BY <1>n, <1>2, <2>4 DEF Kept
  <2>6. QED BY <1>n, <1>1, <1>3, <2>2, <2>5, KeepingOwn
<1>8. CASE ~work[w].merging
  <2>1. \A v \in Workers : work[v].merging => work'[v].merging BY <1>3, <1>8
  <2>2. \/ progress'.done < N
        \/ \E v \in Workers : work'[v].merging
        \/ progress'.done = progress.done /\ \A v \in Workers : ~work[v].merging
    BY <1>2, <2>1
  <2>3. Kept(n)'
    <3>1. CASE work[w].msg \in pending' BY <1>n, <1>1, <1>5, <3>1, LeftPending
    <3>2. CASE work[w].msg \notin pending'
      <4>1. At(w, "ack") BY <1>4, <3>2 DEF Ack, Leave, Crash
      <4>2. Kept(n) BY <1>1 DEF Keeping
      <4>3. found[n] \subseteq graph \/ AwaitsMerge(n)
        BY <1>n, <4>1, <4>2 DEF Kept
      <4>4. CASE AwaitsMerge(n)
        BY <1>n, <1>2, <2>1, <4>4 DEF Kept, AwaitsMerge
      <4>5. QED BY <1>n, <1>2, <4>3, <4>4 DEF Kept
    <3>3. QED BY <3>1, <3>2
  <2>4. QED BY <1>n, <1>1, <1>3, <2>2, <2>3, KeepingOwn
<1>9. QED BY <1>1, <1>7, <1>8

\* A message that is read is pending, whatever becomes of the reply.
LEMMA KeepingReads ==
    ASSUME Types, Types', Places, Places', Counting, Keeping, NEW w \in Workers,
           losses' \subseteq {"uncounted"}, Read(w) \/ ReadLost(w)
    PROVE  Keeping'
<1>1. PICK h \in Messages : h = Head(queue)
  BY DEF Types, Streams, Read, ReadLost
<1>2. /\ queue # <<>> /\ pending' = pending \cup {h} /\ At(w, "idle")
      /\ UNCHANGED <<progress, graph, found>>
  BY <1>1 DEF Read, ReadLost
<1>3. losses \subseteq losses' BY StillRead
<1>4. /\ work'[w] = work[w] \/ (work'[w].pc = "extract" /\ work'[w].msg = h /\ ~work'[w].merging)
      /\ \A v \in Workers \ {w} : work'[v] = work[v]
  <2>1. CASE Read(w) BY <1>1, <2>1, ReadsFields DEF Types, Read
  <2>2. CASE ReadLost(w) BY <2>2 DEF ReadLost
  <2>3. QED BY <2>1, <2>2
<1>5. ~work[w].merging /\ work[w].msg = NoMsg BY <1>2 DEF Places, Shape, At
<1>6. h # NoMsg BY ExtractionAssumption DEF Messages, Chunks, Whole, NoMsg
<1>7. \A v \in Workers : work[v].msg # h
  <2>1. queue \in Seq(Messages) /\ Distinct(queue) BY DEF Types, Streams, Places
  <2>2. Holds(queue, h) BY <1>1, <1>2, <2>1, TailHolds
  <2>3. Fresh(h) BY <2>2 DEF Places
  <2>4. QED BY <1>6, <2>3 DEF Places, Shape, Fresh
<1>8. ASSUME NEW m \in Messages PROVE Kept(m)'
  <2>1. Kept(m) BY <1>3 DEF Keeping
  <2>2. \A v \in Workers : work'[v].merging <=> work[v].merging BY <1>4, <1>5
  <2>3. CASE m = h
    BY <1>2, <1>4, <1>7, <2>3 DEF Kept, At
  <2>4. CASE m # h
    <3>1. CASE AwaitsMerge(m) BY <1>2, <2>2, <3>1 DEF Kept, AwaitsMerge
    <3>2. CASE found[m] \subseteq graph BY <1>2, <3>2 DEF Kept
    <3>3. CASE m \in pending /\ \A v \in Workers : work[v].msg = m => ~At(v, "ack")
      BY <1>2, <1>4, <2>4, <3>3 DEF Kept, At
    <3>4. QED BY <2>1, <3>1, <3>2, <3>3 DEF Kept
  <2>5. QED BY <2>3, <2>4
<1>9. ASSUME NEW v \in Workers, work'[v].merging PROVE MergeHolds(v)'
  <2>1. v # w /\ work'[v] = work[v] BY <1>4, <1>5, <1>9
  <2>2. MergeHolds(v) BY <1>3, <1>9, <2>1 DEF Keeping
  <2>3. QED BY <1>2, <2>1, <2>2 DEF MergeHolds, At
<1>10. QED BY <1>8, <1>9 DEF Keeping

\* The publishers take nothing back.
LEMMA KeepingPublishers ==
    ASSUME Types, Keeping, losses' \subseteq {"uncounted"},
           PublishHash \/ PublishMessage \/ PublishFails \/ Expire
    PROVE  Keeping'
<1>1. UNCHANGED <<work, pending, graph, found>>
  BY DEF PublishHash, PublishMessage, PublishFails, Expire
<1>2. losses \subseteq losses' /\ ~Expire
  BY DEF PublishHash, PublishMessage, PublishFails, Expire, Safe, Loses
<1>3. progress'.chunk = progress.chunk
  <2>1. CASE PublishHash BY <2>1 DEF PublishHash, Types, Results, Hashes
  <2>2. CASE ~PublishHash BY <1>2, <2>2 DEF PublishMessage, PublishFails
  <2>3. QED BY <2>1, <2>2
<1>4. progress'.done = progress.done \/ progress'.done < N
  <2>1. CASE PublishHash
    <3>1. progress'.done = 0 BY <2>1 DEF PublishHash, Types, Results, Hashes
    <3>2. QED BY <3>1, ExtractionAssumption
  <2>2. CASE ~PublishHash BY <1>2, <2>2 DEF PublishMessage, PublishFails
  <2>3. QED BY <2>1, <2>2
<1>5. ASSUME NEW m \in Messages PROVE Kept(m)'
  <2>1. Kept(m) BY <1>2 DEF Keeping
  <2>2. AwaitsMerge(m) => AwaitsMerge(m)' BY <1>1, <1>3, <1>4 DEF AwaitsMerge
  <2>3. QED BY <1>1, <2>1, <2>2 DEF Kept, At
<1>6. ASSUME NEW v \in Workers, work'[v].merging PROVE MergeHolds(v)'
  <2>1. MergeHolds(v) BY <1>1, <1>2, <1>6 DEF Keeping
  <2>2. QED BY <1>1, <1>3, <2>1 DEF MergeHolds, At
<1>7. QED BY <1>5, <1>6 DEF Keeping

\* Every step keeps what was found.
LEMMA KeepingStep ==
    ASSUME Types, Types', Places, Places', Counting, Counting', Keeping, [Next]_vars
    PROVE  Keeping'
<1>1. CASE UNCHANGED vars
  BY <1>1 DEF Keeping, Kept, AwaitsMerge, MergeHolds, At, vars
<1>2. CASE ~(losses' \subseteq {"uncounted"}) BY <1>2 DEF Keeping
<1>3. ASSUME losses' \subseteq {"uncounted"}, NEW w \in Workers,
             WorkerStep(w) \/ WorkerFault(w)
      PROVE  Keeping'
  <2>1. CASE Read(w) \/ ReadLost(w) BY <1>3, <2>1, KeepingReads
  <2>2. CASE \/ Extract(w) \/ RateLimited(w) \/ TrackChunk(w) \/ TrackFails(w)
             \/ CountFails(w) \/ StoreFails(w) \/ Retry(w)
    BY <1>3, <2>2, KeepingOn
  <2>3. CASE CountChunk(w) BY <1>3, <2>3, KeepingCounts
  <2>4. CASE MergeRead(w) \/ Merged(w) BY <1>3, <2>4, KeepingMerges
  <2>5. CASE Store(w) \/ Fallback(w) BY <1>3, <2>5, KeepingStores
  <2>6. CASE Ack(w) \/ Leave(w) \/ Crash(w) BY <1>3, <2>6, KeepingEnds
  <2>7. CASE MergeFails(w) \/ StorePart(w)
    BY <1>3, <2>7 DEF MergeFails, StorePart, Loses
  <2>8. QED
    BY <1>3, <2>1, <2>2, <2>3, <2>4, <2>5, <2>6, <2>7 DEF WorkerStep, WorkerFault
<1>4. CASE losses' \subseteq {"uncounted"} /\ (PublishHash \/ PublishMessage \/ PublishFails \/ Expire)
  BY <1>4, KeepingPublishers
<1>5. QED BY <1>1, <1>2, <1>3, <1>4 DEF Next

\* A behaviour starts with nothing found.
LEMMA KeepingInit == Init => Keeping
BY DEF Init, Keeping, Kept, Idle

-----------------------------------------------------------------------------
(* The theorems. *)

\* The four layers together.
Safety == Types /\ Places /\ Counting /\ Keeping

\* They hold in every state of a behaviour.
LEMMA SafetyHolds == Spec => []Safety
<1>1. Init => Safety BY TypesInit, PlacesInit, CountingInit, KeepingInit DEF Safety
<1>2. Safety /\ [Next]_vars => Safety'
  BY TypesStep, PlacesStep, CountingStep, KeepingStep DEF Safety
<1>3. QED BY <1>1, <1>2, PTL DEF Spec

\* Every variable has its type: the counter never passes the number of chunks,
\* and no message is retried more often than the worker allows.
THEOREM TypeCorrect == Spec => []TypeOK
<1>1. Safety => TypeOK
  <2>1. SUFFICES ASSUME Safety PROVE TypeOK OBVIOUS
  <2>2. N \in Nat /\ progress \in Hashes /\ Cardinality(StillToCount) \in Nat
    BY <2>1, StillMeans, ChunksFinite, ExtractionAssumption DEF Safety, Types, Results
  <2>3. progress.done \in Nat /\ progress.done + Cardinality(StillToCount) <= N
    BY <2>1, <2>2 DEF Safety, Counting, Hashes
  <2>4. progress.done \in 0..N BY <2>2, <2>3
  <2>5. progress \in [chunk : [Chunks -> {"none", "failed", "done"}], done : 0..N,
                      exists : BOOLEAN]
    BY <2>2, <2>4 DEF Hashes
  <2>6. retries \in [Messages -> 0..MaxExtractionRetries]
    <3>1. \A m \in Messages : retries[m] \in Nat /\ retries[m] <= 1
      BY <2>1 DEF Safety, Types, Results, Places
    <3>2. QED BY <2>1, <3>1 DEF Safety, Types, Results, MaxExtractionRetries
  <2>7. QED
    BY <2>1, <2>5, <2>6 DEF TypeOK, Safety, Types, Streams, Results, Failures, Working,
                            Doing, Pcs
<1>2. QED BY <1>1, SafetyHolds, PTL

\* At most one worker is told to merge, the chunks are all there when it does, and
\* unless a failure took one away the chunks still to come are what the counter
\* lacks (worker/entity_extraction.py, _process_chunk).
THEOREM ChunksMergedOnce == Spec => []MergedOnceAndWhole
<1>1. Safety => MergedOnceAndWhole
  <2>1. SUFFICES ASSUME Safety PROVE MergedOnceAndWhole OBVIOUS
  <2>2. merges <= 1 BY <2>1 DEF Safety, Counting
  <2>3. ASSUME "expire" \notin losses, NEW w \in Workers, At(w, "merge"), NEW i \in Chunks
        PROVE  progress.chunk[i] # "none"
    <3>1. work[w].merging BY <2>1, <2>3 DEF Safety, Places, Shape, At
    <3>2. QED BY <2>1, <2>3, <3>1 DEF Safety, Counting
  <2>4. losses \cap {"expire", "uncounted"} = {} =>
          progress.done + Cardinality(StillToCount) = N
    BY <2>1 DEF Safety, Counting
  <2>5. QED BY <2>2, <2>3, <2>4 DEF MergedOnceAndWhole
<1>2. QED BY <1>1, SafetyHolds, PTL

\* An acknowledgement comes after the results of the message are in the graph, or
\* in the hash for a merge (run_extraction_worker).
THEOREM AcknowledgedIsStored == Spec => []AcknowledgedIsKept
<1>1. Safety => AcknowledgedIsKept
  BY DEF Safety, Keeping, Kept, AcknowledgedIsKept, Gone
<1>2. QED BY <1>1, SafetyHolds, PTL
=============================================================================
