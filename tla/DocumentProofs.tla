--------------------------- MODULE DocumentProofs ---------------------------
(***************************************************************************)
(* The services around documents, the walks of the graph and the agent,    *)
(* for every value of their constants: how many callers compute one schema *)
(* at once, whether a cached answer looked at every row, whether a batch   *)
(* of lookups answers for every name, how the pages of a document become   *)
(* batches, what trimming leaves of the conversation with the agent, and   *)
(* whether what a walk of the graph finds is exactly what is there.        *)
(* The services share no state and a slot of ServiceState holds variables  *)
(* of several of them, so each theorem is about one service.               *)
(***************************************************************************)
EXTENDS DocumentServices, FiniteSetTheorems, SequenceTheorems, WellFoundedInduction,
        TLAPS

-----------------------------------------------------------------------------
(* One computation of a schema at a time, but for locks that ran out *)

\* The instance counts as this module does.
LEMMA SameCardinality == \A S : Cache!Cardinality(S) = Cardinality(S)
BY Zenon DEF Cache!Cardinality, Cardinality

CacheCall == [pc : {"idle", "look", "lock", "compute", "write", "unlock", "poll", "returned"},
              given : 0..MaxDocs, polls : 0..MaxPolls, result : 0..MaxDocs]

\* Whoever takes the lock finds it free; whoever frees it computes, whether the lock
\* is its own or not.
CacheInv ==
    /\ Cache!TypeOK
    /\ expiries <= faults
    /\ IsFiniteSet(Cache!Computing)
    /\ Cardinality(Cache!Computing) <= 1 + expiries
    /\ ~ lock => Cardinality(Cache!Computing) <= expiries

\* A step makes k of what c is doing.
Calls(c, k) == call' = [call EXCEPT ![c] = k]

\* Each kind of step makes another call of the caller's.
LEMMA CallSteps ==
    ASSUME CacheConstants, Cache!TypeOK, NEW c \in Callers
    PROVE  /\ \A at \in {"look", "lock", "compute", "write", "unlock", "poll"} :
                Cache!Go(c, at) => \E k \in CacheCall : k.pc = at /\ Calls(c, k)
           /\ \A schema \in 0..MaxDocs :
                Cache!Returned(c, schema) => \E k \in CacheCall : k.pc = "returned" /\ Calls(c, k)
           /\ Cache!Call(c) => \E k \in CacheCall : k.pc = "look" /\ Calls(c, k)
           /\ Cache!Compute(c) => \E k \in CacheCall : k.pc = "write" /\ Calls(c, k)
           /\ Cache!Poll(c) => \E k \in CacheCall : k.pc \in {"poll", "returned"} /\ Calls(c, k)
<1>. USE DEF CacheConstants, Calls
<1>0. call \in [Callers -> CacheCall] /\ call[c] \in CacheCall /\ docs \in 0..MaxDocs /\ cache \in 0..MaxDocs
  BY DEF Cache!TypeOK, CacheCall
<1>1. ASSUME NEW at \in {"look", "lock", "compute", "write", "unlock", "poll"}, Cache!Go(c, at)
      PROVE  \E k \in CacheCall : k.pc = at /\ Calls(c, k)
  <2>1. PICK k : k = [call[c] EXCEPT !.pc = at]
    OBVIOUS
  <2>2. k \in CacheCall /\ k.pc = at
    BY <1>0, <2>1 DEF CacheCall
  <2>3. Calls(c, k)
    BY <1>0, <1>1, <2>1 DEF Cache!Go
  <2>. QED
    BY <2>2, <2>3
<1>2. ASSUME NEW schema \in 0..MaxDocs, Cache!Returned(c, schema)
      PROVE  \E k \in CacheCall : k.pc = "returned" /\ Calls(c, k)
  <2>1. PICK k : k = [Cache!Idle EXCEPT !.pc = "returned", !.result = schema]
    OBVIOUS
  <2>2. k = [pc |-> "returned", given |-> 0, polls |-> 0, result |-> schema]
    BY <2>1 DEF Cache!Idle, Cache!None
  <2>3. k \in CacheCall /\ k.pc = "returned"
    BY <2>2 DEF CacheCall
  <2>4. Calls(c, k)
    BY <1>2, <2>1 DEF Cache!Returned
  <2>. QED
    BY <2>3, <2>4
<1>3. ASSUME Cache!Call(c) PROVE \E k \in CacheCall : k.pc = "look" /\ Calls(c, k)
  <2>1. PICK k : k = [Cache!Idle EXCEPT !.pc = "look", !.given = docs]
    OBVIOUS
  <2>2. k = [pc |-> "look", given |-> docs, polls |-> 0, result |-> 0]
    BY <2>1 DEF Cache!Idle, Cache!None
  <2>3. k \in CacheCall /\ k.pc = "look"
    BY <1>0, <2>2 DEF CacheCall
  <2>4. Calls(c, k)
    BY <1>3, <2>1 DEF Cache!Call
  <2>. QED
    BY <2>3, <2>4
<1>4. ASSUME Cache!Compute(c) PROVE \E k \in CacheCall : k.pc = "write" /\ Calls(c, k)
  <2>1. PICK k : k = [call[c] EXCEPT !.pc = "write", !.result = call[c].given]
    OBVIOUS
  <2>2. k \in CacheCall /\ k.pc = "write"
    BY <1>0, <2>1 DEF CacheCall
  <2>3. Calls(c, k)
    BY <1>0, <1>4, <2>1 DEF Cache!Compute
  <2>. QED
    BY <2>2, <2>3
<1>5. ASSUME Cache!Poll(c) PROVE \E k \in CacheCall : k.pc \in {"poll", "returned"} /\ Calls(c, k)
  <2>1. CASE cache # Cache!None
    BY <1>0, <1>2, <1>5, <2>1 DEF Cache!Poll
  <2>2. CASE cache = Cache!None /\ call[c].polls < MaxPolls
    <3>1. PICK k : k = [call[c] EXCEPT !.polls = call[c].polls + 1]
      OBVIOUS
    <3>2. call[c].polls + 1 \in 0..MaxPolls /\ call[c].pc = "poll"
      BY <1>0, <1>5, <2>2 DEF CacheCall, Cache!Poll, Cache!At
    <3>3. k \in CacheCall /\ k.pc = "poll"
      BY <1>0, <3>1, <3>2 DEF CacheCall
    <3>4. Calls(c, k)
      BY <1>0, <1>5, <2>2, <3>1 DEF Cache!Poll
    <3>. QED
      BY <3>3, <3>4
  <2>3. CASE cache = Cache!None /\ ~ (call[c].polls < MaxPolls)
    <3>1. Cache!Returned(c, 0)
      BY <1>5, <2>3 DEF Cache!Poll, Cache!GivesUp, Cache!None
    <3>. QED
      BY <1>2, <3>1
  <2>. QED
    BY <2>1, <2>2, <2>3
<1>. QED
  BY <1>1, <1>2, <1>3, <1>4, <1>5

\* A caller counts by what it is doing.
LEMMA ComputingMoves ==
    ASSUME Cache!TypeOK, NEW c \in Callers, NEW k \in CacheCall, Calls(c, k)
    PROVE  /\ call' \in [Callers -> CacheCall]
           /\ (c \in Cache!Computing) = (call[c].pc \in {"compute", "write", "unlock"})
           /\ Cache!Computing' = IF k.pc \in {"compute", "write", "unlock"}
                                  THEN Cache!Computing \cup {c} ELSE Cache!Computing \ {c}
<1>1. call \in [Callers -> CacheCall]
  BY DEF Cache!TypeOK, CacheCall
<1>2. call' \in [Callers -> CacheCall] /\ call'[c] = k /\ \A d \in Callers \ {c} : call'[d] = call[d]
  BY <1>1 DEF Calls
<1>. QED
  BY <1>2 DEF Cache!Computing

\* The values of the next state.
LEMMA CacheTyped ==
    ASSUME call' \in [Callers -> CacheCall], docs' \in 1..MaxDocs, cache' \in 0..MaxDocs,
           lock' \in BOOLEAN, expiries' \in 0..MaxFaults, faults' \in 0..MaxFaults
    PROVE  Cache!TypeOK'
BY DEF Cache!TypeOK, CacheCall

\* Steps by which the set of those who compute stays, and the lock opens for nobody.
LEMMA CacheQuiet ==
    ASSUME CacheInv, CacheConstants,
           Cache!Computing' = Cache!Computing,
           call' \in [Callers -> CacheCall], docs' \in 1..MaxDocs, cache' \in 0..MaxDocs,
           lock' \in {lock, TRUE}, expiries' = expiries,
           faults' = faults \/ (faults < MaxFaults /\ faults' = faults + 1)
    PROVE  CacheInv'
<1>1. /\ IsFiniteSet(Cache!Computing') /\ Cardinality(Cache!Computing') <= 1 + expiries'
      /\ ~ lock' => Cardinality(Cache!Computing') <= expiries'
  BY DEF CacheInv, Cache!TypeOK
<1>2. lock' \in BOOLEAN /\ faults' \in 0..MaxFaults /\ expiries' <= faults' /\ expiries' \in 0..MaxFaults
  <2>1. lock \in BOOLEAN /\ faults \in 0..MaxFaults /\ expiries \in 0..MaxFaults /\ expiries <= faults
    BY DEF CacheInv, Cache!TypeOK
  <2>2. lock' \in BOOLEAN
    BY <2>1
  <2>. QED
    BY <2>1, <2>2 DEF CacheConstants
<1>3. Cache!TypeOK'
  BY <1>2, CacheTyped
<1>. QED
  BY <1>1, <1>2, <1>3 DEF CacheInv

\* One step of a caller.
CallerStep(c) ==
    \/ Cache!Call(c) \/ Cache!LookUp(c) \/ Cache!LookUpFails(c) \/ Cache!TryLock(c)
    \/ Cache!TryLockFails(c) \/ Cache!Compute(c) \/ Cache!ComputeFails(c) \/ Cache!Write(c)
    \/ Cache!Unlock(c) \/ Cache!UnlockFails(c) \/ Cache!Poll(c)

\* Only who finds the lock free begins to compute, and takes it; who ends frees one
\* that was taken, or leaves it.
LEMMA CallerKeeps ==
    ASSUME CacheInv, CacheConstants, NEW c \in Callers, CallerStep(c) PROVE CacheInv'
<1>0. /\ Cache!TypeOK /\ docs \in 1..MaxDocs /\ cache \in 0..MaxDocs /\ lock \in BOOLEAN
      /\ call[c] \in CacheCall /\ faults \in Nat /\ expiries \in Nat
  BY DEF CacheInv, Cache!TypeOK, CacheCall, CacheConstants
<1>. USE DEF Cache!At, Cache!Fault
<1>1. CASE Cache!Call(c) \/ Cache!LookUp(c) \/ Cache!LookUpFails(c) \/ Cache!Poll(c) \/ Cache!TryLockFails(c)
  <2>1. call[c].pc \notin {"compute", "write", "unlock"}
    BY <1>1 DEF Cache!Call, Cache!LookUp, Cache!LookUpFails, Cache!Poll, Cache!TryLockFails
  <2>2. \E k \in CacheCall : k.pc \notin {"compute", "write", "unlock"} /\ Calls(c, k)
    <3>1. 0 \in 0..MaxDocs
      BY DEF CacheConstants
    <3>. QED
      BY <1>0, <1>1, <3>1, CallSteps DEF Cache!LookUp, Cache!LookUpFails, Cache!TryLockFails, Cache!None
  <2>3. PICK k \in CacheCall : k.pc \notin {"compute", "write", "unlock"} /\ Calls(c, k)
    BY <2>2
  <2>4. Cache!Computing' = Cache!Computing /\ call' \in [Callers -> CacheCall]
    BY <1>0, <2>1, <2>3, ComputingMoves
  <2>5. /\ docs' = docs /\ cache' = cache /\ lock' \in {lock, TRUE} /\ expiries' = expiries
        /\ faults' = faults \/ (faults < MaxFaults /\ faults' = faults + 1)
    BY <1>1 DEF Cache!Call, Cache!LookUp, Cache!LookUpFails, Cache!Poll, Cache!TryLockFails
  <2>. QED
    BY <1>0, <2>4, <2>5, CacheQuiet
<1>2. CASE Cache!Compute(c) \/ Cache!ComputeFails(c) \/ Cache!Write(c)
  <2>1. call[c].pc \in {"compute", "write"}
    BY <1>2 DEF Cache!Compute, Cache!ComputeFails, Cache!Write
  <2>2. PICK k \in CacheCall : k.pc \in {"write", "unlock"} /\ Calls(c, k)
    BY <1>0, <1>2, CallSteps DEF Cache!ComputeFails, Cache!Write
  <2>3. Cache!Computing' = Cache!Computing /\ call' \in [Callers -> CacheCall]
    BY <1>0, <2>1, <2>2, ComputingMoves
  <2>4. /\ docs' = docs /\ cache' \in {cache, call[c].result} /\ lock' = lock /\ expiries' = expiries
        /\ faults' = faults \/ (faults < MaxFaults /\ faults' = faults + 1)
    BY <1>2 DEF Cache!Compute, Cache!ComputeFails, Cache!Write
  <2>5. cache' \in 0..MaxDocs
    BY <1>0, <2>4 DEF CacheCall
  <2>. QED
    BY <1>0, <2>3, <2>4, <2>5, CacheQuiet
<1>3. CASE Cache!TryLock(c)
  <2>1. call[c].pc = "lock" /\ lock' = TRUE /\ UNCHANGED <<docs, cache, expiries, faults>>
    BY <1>3 DEF Cache!TryLock
  <2>2. CASE lock
    <3>1. PICK k \in CacheCall : k.pc = "poll" /\ Calls(c, k)
      BY <1>0, <1>3, <2>2, CallSteps DEF Cache!TryLock
    <3>2. Cache!Computing' = Cache!Computing /\ call' \in [Callers -> CacheCall]
      BY <1>0, <2>1, <3>1, ComputingMoves
    <3>. QED
      BY <1>0, <2>1, <3>2, CacheQuiet
  <2>3. CASE ~ lock
    <3>1. PICK k \in CacheCall : k.pc = "compute" /\ Calls(c, k)
      BY <1>0, <1>3, <2>3, CallSteps DEF Cache!TryLock
    <3>2. Cache!Computing' = Cache!Computing \cup {c} /\ call' \in [Callers -> CacheCall]
      BY <1>0, <3>1, ComputingMoves
    <3>3. /\ IsFiniteSet(Cache!Computing) /\ Cardinality(Cache!Computing) <= expiries
          /\ Cardinality(Cache!Computing) \in Nat
      BY <2>3, FS_CardinalityType DEF CacheInv
    <3>4. PICK set : set = Cache!Computing \cup {c}
      OBVIOUS
    <3>5. /\ IsFiniteSet(set)
          /\ \/ Cardinality(set) = Cardinality(Cache!Computing)
             \/ Cardinality(set) = Cardinality(Cache!Computing) + 1
      BY <3>3, <3>4, FS_AddElement
    <3>6. IsFiniteSet(Cache!Computing') /\ Cardinality(Cache!Computing') <= 1 + expiries
      BY <1>0, <3>2, <3>3, <3>4, <3>5
    <3>7. expiries' <= faults' /\ expiries' \in 0..MaxFaults /\ faults' \in 0..MaxFaults
      BY <2>1 DEF CacheInv, Cache!TypeOK
    <3>8. Cache!TypeOK'
      BY <1>0, <2>1, <3>2, <3>7, CacheTyped
    <3>. QED
      BY <2>1, <3>6, <3>7, <3>8 DEF CacheInv
  <2>. QED
    BY <2>2, <2>3
<1>4. CASE Cache!Unlock(c) \/ Cache!UnlockFails(c)
  <2>1. call[c].pc = "unlock" /\ UNCHANGED <<docs, cache, expiries>> /\ lock' \in {lock, FALSE}
        /\ (faults' = faults \/ (faults < MaxFaults /\ faults' = faults + 1))
    BY <1>4 DEF Cache!Unlock, Cache!UnlockFails
  <2>2. call[c].result \in 0..MaxDocs
    BY <1>0 DEF CacheCall
  <2>3. PICK k \in CacheCall : k.pc = "returned" /\ Calls(c, k)
    BY <1>0, <1>4, <2>2, CallSteps DEF Cache!Unlock, Cache!UnlockFails
  <2>4. PICK set : set = Cache!Computing \ {c}
    OBVIOUS
  <2>5. c \in Cache!Computing /\ Cache!Computing' = set /\ call' \in [Callers -> CacheCall]
    BY <1>0, <2>1, <2>3, <2>4, ComputingMoves
  <2>6. IsFiniteSet(Cache!Computing) /\ Cardinality(Cache!Computing) <= 1 + expiries
    BY DEF CacheInv
  <2>7. IsFiniteSet(set) /\ Cardinality(set) = Cardinality(Cache!Computing) - 1
    BY <2>4, <2>5, <2>6, FS_RemoveElement
  <2>8. IsFiniteSet(Cache!Computing') /\ Cardinality(Cache!Computing') <= expiries
    BY <1>0, <2>5, <2>6, <2>7, FS_CardinalityType
  <2>9. /\ expiries' <= faults' /\ expiries' \in 0..MaxFaults /\ faults' \in 0..MaxFaults
        /\ lock' \in BOOLEAN
    <3>1. lock' \in BOOLEAN
      BY <1>0, <2>1
    <3>2. faults \in 0..MaxFaults /\ expiries \in 0..MaxFaults /\ expiries <= faults
      BY DEF CacheInv, Cache!TypeOK
    <3>. QED
      BY <2>1, <3>1, <3>2 DEF CacheConstants
  <2>10. Cache!TypeOK'
    BY <1>0, <2>1, <2>5, <2>9, CacheTyped
  <2>11. Cardinality(Cache!Computing') \in Nat
    BY <2>8, FS_CardinalityType
  <2>. QED
    BY <1>0, <2>1, <2>8, <2>9, <2>10, <2>11 DEF CacheInv
<1>. QED
  BY <1>1, <1>2, <1>3, <1>4 DEF CallerStep

\* So does what happens to the lock and the cache by itself: an expiry is counted.
LEMMA CacheInductive ==
    ASSUME CacheInv, CacheConstants, [Cache!Next]_Cache!cacheVars PROVE CacheInv'
<1>0. /\ Cache!TypeOK /\ docs \in 1..MaxDocs /\ cache \in 0..MaxDocs /\ lock \in BOOLEAN
      /\ call \in [Callers -> CacheCall] /\ faults \in Nat /\ expiries \in Nat
  BY DEF CacheInv, Cache!TypeOK, CacheCall, CacheConstants
<1>1. CASE UNCHANGED Cache!cacheVars
  <2>1. UNCHANGED <<docs, cache, lock, call, expiries, faults>>
    BY <1>1 DEF Cache!cacheVars
  <2>2. Cache!Computing' = Cache!Computing
    BY <2>1 DEF Cache!Computing
  <2>. QED
    BY <1>0, <2>1, <2>2, CacheQuiet
<1>2. CASE Cache!AppendDocument \/ Cache!Evict
  <2>1. UNCHANGED <<lock, call, expiries>> /\ docs' \in 1..MaxDocs /\ cache' \in 0..MaxDocs
        /\ (faults' = faults \/ (faults < MaxFaults /\ faults' = faults + 1))
    BY <1>0, <1>2 DEF Cache!AppendDocument, Cache!Evict, Cache!Fault, Cache!None, CacheConstants
  <2>2. Cache!Computing' = Cache!Computing
    BY <2>1 DEF Cache!Computing
  <2>. QED
    BY <1>0, <2>1, <2>2, CacheQuiet
<1>3. CASE Cache!Expire
  <2>1. /\ lock /\ lock' = FALSE /\ expiries' = expiries + 1 /\ UNCHANGED <<docs, cache, call>>
        /\ faults < MaxFaults /\ faults' = faults + 1
    BY <1>3 DEF Cache!Expire, Cache!Fault
  <2>2. Cache!Computing' = Cache!Computing
    BY <2>1 DEF Cache!Computing
  <2>3. IsFiniteSet(Cache!Computing') /\ Cardinality(Cache!Computing') <= expiries'
    BY <1>0, <2>1, <2>2, FS_CardinalityType DEF CacheInv
  <2>4. expiries' <= faults' /\ expiries' \in 0..MaxFaults /\ faults' \in 0..MaxFaults
    BY <1>0, <2>1 DEF CacheInv, Cache!TypeOK, CacheConstants
  <2>5. Cache!TypeOK'
    BY <1>0, <2>1, <2>4, CacheTyped
  <2>6. Cardinality(Cache!Computing') \in Nat
    BY <2>3, FS_CardinalityType
  <2>. QED
    BY <1>0, <2>1, <2>3, <2>4, <2>5, <2>6 DEF CacheInv
<1>4. CASE \E c \in Callers : CallerStep(c)
  BY <1>4, CallerKeeps
<1>. QED
  BY <1>1, <1>2, <1>3, <1>4 DEF Cache!Next, CallerStep

\* The callers between taking and freeing the lock are one more, at most, than the
\* locks that ran out under their holders, although the delete frees whatever lock
\* is there (analyze_schema in app/document_intelligence.py).
THEOREM OverlapIsBoundedCorrect ==
    ASSUME CacheConstants PROVE Cache!Spec => [](Cache!TypeOK /\ Cache!OverlapIsBounded)
<1>1. ASSUME Cache!Init PROVE CacheInv
  <2>1. Cache!Idle \in CacheCall /\ Cache!Idle.pc = "idle"
    BY DEF CacheConstants, Cache!Idle, CacheCall, Cache!None
  <2>2. Cache!TypeOK
    <3>1. call = [c \in Callers |-> Cache!Idle]
      BY <1>1 DEF Cache!Init
    <3>2. call \in [Callers -> CacheCall]
      BY <2>1, <3>1
    <3>3. docs = 1 /\ cache = 0 /\ lock = FALSE /\ expiries = 0 /\ faults = 0
      BY <1>1 DEF Cache!Init, Cache!None
    <3>4. 1 \in 1..MaxDocs /\ 0 \in 0..MaxDocs /\ 0 \in 0..MaxFaults
      BY DEF CacheConstants
    <3>. QED
      BY <3>2, <3>3, <3>4, Zenon DEF Cache!TypeOK, CacheCall
  <2>3. \A c \in Callers : call[c].pc = "idle"
    BY <1>1, <2>1, Zenon DEF Cache!Init
  <2>4. Cache!Computing = {}
    BY <2>3 DEF Cache!Computing
  <2>5. IsFiniteSet(Cache!Computing) /\ Cardinality(Cache!Computing) = 0
    BY <2>4, FS_EmptySet
  <2>. QED
    BY <1>1, <2>2, <2>5 DEF CacheInv, Cache!Init
<1>2. CacheInv /\ [Cache!Next]_Cache!cacheVars => CacheInv'
  BY CacheInductive
<1>3. CacheInv => Cache!TypeOK /\ Cache!OverlapIsBounded
  BY SameCardinality DEF CacheInv, Cache!OverlapIsBounded
<1>. QED
  BY <1>1, <1>2, <1>3, PTL DEF Cache!Spec

-----------------------------------------------------------------------------
(* Cached answers cover the chunks, and the budget is passed by what overlaps or fails *)

\* The instance counts as this module does.
LEMMA QueryCardinality == \A S : Query!Cardinality(S) = Cardinality(S)
BY Zenon DEF Query!Cardinality, Cardinality

\* Documents have a greatest number of rows.
Lines == Nat \X Nat
Paths == {"none", "simple", "complex", "prose"}
QueryPlaces == {"idle", "budget", "load", "plan", "extract", "cost", "store", "register"}
QueryCall == [pc : QueryPlaces,
              query : Queries \cup {"none"}, given : Seq(DocumentRows), path : Paths,
              todo : SUBSET SUBSET Lines, found : SUBSET Lines, failed : BOOLEAN, used : Nat]

QueryTypes ==
    /\ docs \in Seq(DocumentRows) /\ Len(docs) \in 1..MaxDocs
    /\ answer \in [Queries -> [cached : BOOLEAN, rows : SUBSET Lines, path : Paths]]
    /\ keys \subseteq Queries /\ cost \in Nat
    /\ call \in [Askers -> QueryCall]
    /\ upload \in [pc : {"idle", "delete", "append"}, members : SUBSET Queries]
    /\ upload.pc # "idle" => Len(docs) < MaxDocs
    /\ excused \subseteq Queries /\ faults \in 0..MaxFaults /\ spent \in Nat

\* From the documents it was given to the answer that is stored and registered.
Given == {"plan", "extract", "cost", "store", "register"}
\* Past the check of the budget and not charged yet.
Unpaid == {"load", "plan", "extract", "cost"}
Debtors == {c \in Askers : call[c].pc \in Unpaid}

\* The rows a query was given that are not among these are past the cut of a chunk.
Covered(k, seen) == Query!RowsOf(k.given) \ seen \subseteq PastTheCut

\* A query has found, or has yet to look at, every row it was given, but for those past
\* the cut and the chunks that failed; each chunk is one call; and one that is not excused was given the
\* documents as they are, with no upload since.
CallOk(k) ==
    /\ k.pc # "idle" => k.query \in Queries
    /\ Len(k.given) <= MaxDocs
    /\ Query!RowsOf(k.given) \subseteq Query!RowsOf(docs)
    /\ k.found \subseteq Query!RowsOf(k.given)
    /\ k.pc = "extract" =>
         /\ \A chunk \in k.todo : chunk \subseteq Query!RowsOf(k.given)
         /\ IsFiniteSet(k.todo) /\ k.used + Cardinality(k.todo) <= Query!MostCalls
         /\ k.path # "simple" /\ (~ k.failed => Covered(k, k.found \cup UNION k.todo))
    /\ k.pc = "cost" => k.used <= Query!MostCalls
    /\ k.pc \in {"cost", "store", "register"} =>
         /\ ~ k.failed => Covered(k, k.found)
         /\ k.path = "simple" => Covered(k, k.found) /\ k.found = Query!RowsOf(k.given)
    /\ k.pc \in Given /\ k.query \notin excused => k.given = docs /\ upload.pc = "idle"

\* A cached answer that is not excused covers the chunks, and an upload will find it.
Certain(q) ==
    q \notin excused /\ answer[q].cached =>
        /\ Query!Unread(q) \subseteq PastTheCut
        /\ answer[q].path = "simple" => Query!Unread(q) = {}
        /\ upload.pc # "append"
        /\ q \in keys \/ \E c \in Askers : call[c].pc = "register" /\ call[c].query = q

\* The rows of an answer are rows of the documents, excused or not.
Within(q) == answer[q].cached => answer[q].rows \subseteq Query!RowsOf(docs)

\* What is spent and what those past the check may still spend; and what is spent that
\* was not charged, which takes a failure.
CostOk ==
    /\ spent + Cardinality(Debtors) * Query!MostCalls
         <= Budget - 1 + (Cardinality(Askers) + faults) * Query!MostCalls
    /\ spent <= cost + faults * Query!MostCalls

QueryInv ==
    /\ QueryTypes
    /\ \A c \in Askers : CallOk(call[c])
    /\ \A q \in Queries : Certain(q) /\ Within(q)
    /\ CostOk

\* The rows of at most MaxDocs documents.
LEMMA RowsAreBounded ==
    ASSUME QueryConstants, NEW ds \in Seq(DocumentRows), Len(ds) <= MaxDocs
    PROVE  /\ Query!RowsOf(ds) \subseteq Lines /\ IsFiniteSet(Query!RowsOf(ds))
           /\ Cardinality(Query!RowsOf(ds)) + 1 <= Query!MostCalls
           /\ Query!MostCalls \in Nat
<1>1. Query!Max(DocumentRows) \in DocumentRows /\ \A m \in DocumentRows : Query!Max(DocumentRows) >= m
  BY DEF Query!Max, QueryConstants
<1>2. PICK top \in Nat : top = Query!Max(DocumentRows) /\ \A m \in DocumentRows : m <= top
  BY <1>1 DEF QueryConstants
<1>. DEFINE All == (1..MaxDocs) \X (1..top)
<1>3. Query!RowsOf(ds) \subseteq All
  <2>1. ASSUME NEW d \in DOMAIN ds, NEW x \in {d} \X (1..ds[d]) PROVE x \in All
    <3>1. d \in 1..MaxDocs /\ ds[d] \in DocumentRows
      BY DEF QueryConstants
    <3>2. ds[d] \in Nat /\ ds[d] <= top
      BY <3>1, <1>2 DEF QueryConstants
    <3>3. 1..ds[d] \subseteq 1..top
      BY <3>2
    <3>. QED
      BY <3>1, <3>3
  <2>. QED
    BY <2>1 DEF Query!RowsOf
<1>4. IsFiniteSet(All) /\ Cardinality(All) = MaxDocs * top
  <2>1. IsFiniteSet(1..MaxDocs) /\ Cardinality(1..MaxDocs) = MaxDocs
    BY FS_Interval DEF QueryConstants
  <2>2. IsFiniteSet(1..top) /\ Cardinality(1..top) = top
    BY <1>2, FS_Interval
  <2>. QED
    BY <2>1, <2>2, FS_Product
<1>5. /\ IsFiniteSet(Query!RowsOf(ds)) /\ Cardinality(Query!RowsOf(ds)) \in Nat
      /\ Cardinality(Query!RowsOf(ds)) <= Cardinality(All)
  BY <1>3, <1>4, FS_Subset, FS_CardinalityType
<1>6. Query!MostCalls = 1 + MaxDocs * top /\ MaxDocs * top \in Nat
  BY <1>2 DEF Query!MostCalls, QueryConstants
<1>7. Query!RowsOf(ds) \subseteq Lines
  BY <1>3 DEF Lines, QueryConstants
<1>. QED
  BY <1>4, <1>5, <1>6, <1>7

\* The chunks are the rows, in fewer parts than there are rows.
LEMMA ChunksAreTheRows ==
    ASSUME QueryConstants, NEW ds \in Seq(DocumentRows), Len(ds) <= MaxDocs
    PROVE  /\ UNION Query!Chunks(ds) = Query!RowsOf(ds)
           /\ \A chunk \in Query!Chunks(ds) : chunk \subseteq Query!RowsOf(ds)
           /\ IsFiniteSet(Query!Chunks(ds))
           /\ 1 + Cardinality(Query!Chunks(ds)) <= Query!MostCalls
<1>. DEFINE all == Query!RowsOf(ds)
            part(x) == {y \in all : Query!SameChunk(x, y)}
            f == [x \in all |-> part(x)]
<1>1. Query!Chunks(ds) = {part(x) : x \in all}
  BY Zenon DEF Query!Chunks
<1>2. \A x \in all : x \in part(x)
  BY DEF Query!SameChunk
<1>3. IsFiniteSet(all) /\ Cardinality(all) + 1 <= Query!MostCalls /\ Query!MostCalls \in Nat
  BY RowsAreBounded
<1>4. /\ IsFiniteSet(Query!Chunks(ds))
      /\ Cardinality(Query!Chunks(ds)) <= Cardinality(all)
  <2>1. f \in Surjection(all, Query!Chunks(ds))
    BY <1>1, Zenon DEF Surjection
  <2>. QED
    BY <2>1, <1>3, FS_Surjection
<1>5. Cardinality(all) \in Nat /\ Cardinality(Query!Chunks(ds)) \in Nat
  BY <1>3, <1>4, FS_CardinalityType
<1>6. UNION Query!Chunks(ds) = all
  <2>. HIDE DEF all
  <2>1. \A x \in all : part(x) \subseteq all
    OBVIOUS
  <2>. HIDE DEF part
  <2>. QED
    BY <1>1, <1>2, <2>1
<1>7. \A chunk \in Query!Chunks(ds) : chunk \subseteq all
  BY <1>1
<1>. QED
  BY <1>3, <1>4, <1>5, <1>6, <1>7

\* An upload takes no row away.
LEMMA RowsGrow ==
    ASSUME NEW ds \in Seq(DocumentRows), NEW n \in DocumentRows
    PROVE  Query!RowsOf(ds) \subseteq Query!RowsOf(Append(ds, n))
<1>1. \A d \in DOMAIN ds : d \in DOMAIN Append(ds, n) /\ Append(ds, n)[d] = ds[d]
  OBVIOUS
<1>. QED
  BY <1>1 DEF Query!RowsOf

\* Fewer debtors owe less.
LEMMA DebtsShrink ==
    ASSUME NEW a \in Nat, NEW b \in Nat, NEW m \in Nat, a <= b PROVE a * m <= b * m
<1>1. PICK d \in Nat : b = a + d
  <2>1. b - a \in Nat /\ b = a + (b - a)
    OBVIOUS
  <2>. QED
    BY <2>1
<1>2. b * m = a * m + d * m /\ a * m \in Nat /\ d * m \in Nat
  BY <1>1
<1>. QED
  BY <1>2

\* Who may still be charged is one of the callers.
LEMMA DebtorsAreCallers ==
    ASSUME QueryConstants, QueryTypes
    PROVE  /\ IsFiniteSet(Debtors) /\ Cardinality(Debtors) \in Nat
           /\ Cardinality(Askers) \in Nat /\ Cardinality(Debtors) <= Cardinality(Askers)
           /\ Query!MostCalls \in Nat
<1>1. Debtors \subseteq Askers /\ IsFiniteSet(Askers)
  BY DEF Debtors, QueryConstants
<1>2. Query!MostCalls \in Nat
  BY RowsAreBounded DEF QueryTypes
<1>. QED
  BY <1>1, <1>2, FS_Subset, FS_CardinalityType

\* Nobody joins those who may still be charged, and nothing is: the bound stays, and
\* only grows with a failure.
LEMMA CostHolds ==
    ASSUME QueryConstants, QueryInv, QueryTypes', Debtors' \subseteq Debtors,
           cost' = cost, spent' = spent, faults <= faults'
    PROVE  CostOk'
<1>1. PICK m \in Nat : m = Query!MostCalls /\ m = Query!MostCalls'
  BY DebtorsAreCallers DEF QueryInv, Query!MostCalls
<1>2. PICK n, k, a, f, g \in Nat :
        /\ n = Cardinality(Debtors') /\ k = Cardinality(Debtors) /\ n <= k
        /\ a = Cardinality(Askers) /\ f = faults /\ g = faults' /\ f <= g
  <2>1. IsFiniteSet(Debtors) /\ Cardinality(Debtors) \in Nat /\ Cardinality(Askers) \in Nat
    BY DebtorsAreCallers DEF QueryInv
  <2>2. Cardinality(Debtors') \in Nat /\ Cardinality(Debtors') <= Cardinality(Debtors)
    BY <2>1, FS_Subset, FS_CardinalityType
  <2>. QED
    BY <2>1, <2>2 DEF QueryInv, QueryTypes, QueryConstants
<1>3. n * m <= k * m /\ f * m <= g * m /\ (a + f) * m <= (a + g) * m
  <2>1. a + f \in Nat /\ a + g \in Nat /\ a + f <= a + g
    BY <1>2
  <2>2. (a + f) * m <= (a + g) * m
    BY <2>1, DebtsShrink
  <2>3. n * m <= k * m
    BY <1>2, DebtsShrink
  <2>4. f * m <= g * m
    BY <1>2, DebtsShrink
  <2>. QED
    BY <2>2, <2>3, <2>4
<1>4. PICK nm, km, fm, gm, low, high \in Nat :
        /\ nm = n * m /\ km = k * m /\ fm = f * m /\ gm = g * m
        /\ low = (a + f) * m /\ high = (a + g) * m
  <2>1. a + f \in Nat /\ a + g \in Nat
    OBVIOUS
  <2>. QED
    BY <2>1
<1>5. /\ spent + km <= Budget - 1 + low /\ spent <= cost + fm
      /\ spent \in Nat /\ cost \in Nat /\ Budget \in Nat
  BY <1>1, <1>2, <1>4 DEF QueryInv, QueryTypes, QueryConstants, CostOk
<1>6. spent' + nm <= Budget - 1 + high /\ spent' <= cost' + gm
  BY <1>3, <1>4, <1>5
<1>. QED
  BY <1>1, <1>2, <1>4, <1>6 DEF CostOk

\* A step of one query: the others are as they were.
LEMMA QueryCallMoves ==
    ASSUME QueryConstants, QueryInv, NEW c \in Askers, NEW k \in QueryCall,
           call' = [call EXCEPT ![c] = k], UNCHANGED <<docs, upload>>,
           excused \subseteq excused', excused' \subseteq Queries, faults' \in 0..MaxFaults,
           answer' \in [Queries -> [cached : BOOLEAN, rows : SUBSET Lines, path : Paths]],
           keys' \subseteq Queries, cost' \in Nat, spent' \in Nat,
           CallOk(k)', \A q \in Queries : Certain(q)' /\ Within(q)', CostOk'
    PROVE  QueryInv'
<1>1. QueryTypes'
  BY DEF QueryInv, QueryTypes
<1>2. ASSUME NEW d \in Askers PROVE CallOk(call[d])'
  <2>1. CASE d = c
    <3>1. call'[d] = k
      BY <2>1 DEF QueryInv, QueryTypes
    <3>. QED
      BY <3>1 DEF CallOk, Covered
  <2>2. CASE d # c
    <3>1. call'[d] = call[d]
      BY <2>2 DEF QueryInv, QueryTypes
    <3>2. CallOk(call[d])
      BY DEF QueryInv
    <3>. QED
      BY <3>1, <3>2 DEF CallOk, Covered
  <2>. QED
    BY <2>1, <2>2
<1>. QED
  BY <1>1, <1>2 DEF QueryInv

\* A step that changes no answer and charges nothing.
LEMMA QueryCallGoesOn ==
    ASSUME QueryConstants, QueryInv, NEW c \in Askers, NEW k \in QueryCall,
           call' = [call EXCEPT ![c] = k], UNCHANGED <<docs, answer, keys, cost, upload, spent>>,
           excused \subseteq excused', excused' \subseteq Queries,
           faults' \in 0..MaxFaults, faults <= faults',
           call[c].pc = "register" => call[c].query \in excused',
           k.pc \in Unpaid => call[c].pc \in Unpaid,
           CallOk(k)'
    PROVE  QueryInv'
<1>1. ASSUME NEW q \in Queries PROVE Certain(q)' /\ Within(q)'
  <2>1. Certain(q) /\ Within(q)
    BY DEF QueryInv
  <2>2. Within(q)'
    BY <2>1 DEF Within
  <2>3. ASSUME q \notin excused', NEW d \in Askers, call[d].pc = "register", call[d].query = q
        PROVE  call'[d].pc = "register" /\ call'[d].query = q
    BY <2>3 DEF QueryInv, QueryTypes
  <2>4. Certain(q)'
    BY <2>1, <2>3 DEF Certain, Query!Unread, Query!RowsOf
  <2>. QED
    BY <2>2, <2>4
<1>2. CostOk'
  <2>1. Debtors' \subseteq Debtors
    BY DEF Debtors, QueryInv, QueryTypes
  <2>2. QueryTypes'
    BY DEF QueryInv, QueryTypes
  <2>. QED
    BY <2>1, <2>2, CostHolds
<1>. QED
  BY <1>1, <1>2, QueryCallMoves DEF QueryInv, QueryTypes

\* A query that has ended, or has just begun, is well.
Fresh(place, q) == [pc |-> place, query |-> q, given |-> <<>>, path |-> "none", todo |-> {},
                    found |-> {}, failed |-> FALSE, used |-> 0]
LEMMA FreshCall ==
    ASSUME QueryConstants, NEW place \in {"idle", "budget"}, NEW q \in Queries \cup {"none"},
           place = "budget" => q \in Queries, NEW k, k = Fresh(place, q)
    PROVE  k \in QueryCall /\ k.pc = place /\ CallOk(k)'
<1>1. Query!RowsOf(<<>>) = {} /\ <<>> \in Seq(DocumentRows) /\ Len(<<>>) = 0
  BY DEF Query!RowsOf
<1>2. /\ k.pc = place /\ k.query = q /\ k.given = <<>> /\ k.path = "none"
      /\ k.todo = {} /\ k.found = {} /\ k.failed = FALSE /\ k.used = 0
  BY DEF Fresh
<1>3. k \in QueryCall
  BY <1>1 DEF QueryCall, QueryPlaces, Paths, Fresh
<1>4. CallOk(k)'
  BY <1>1, <1>2 DEF CallOk, Given, QueryConstants
<1>. QED
  BY <1>2, <1>3, <1>4

\* A query that ends.
LEMMA QueryEnds ==
    ASSUME QueryConstants, QueryInv, NEW c \in Askers, Query!Ends(c),
           UNCHANGED <<docs, answer, keys, cost, upload, spent>>,
           excused \subseteq excused', excused' \subseteq Queries,
           faults' \in 0..MaxFaults, faults <= faults',
           call[c].pc = "register" => call[c].query \in excused'
    PROVE  QueryInv'
<1>1. PICK k : k = Fresh("idle", "none")
  OBVIOUS
<1>2. k \in QueryCall /\ CallOk(k)' /\ k.pc = "idle"
  BY <1>1, FreshCall
<1>3. call' = [call EXCEPT ![c] = k]
  BY <1>1 DEF Query!Ends, Query!Idle, Fresh
<1>. QED
  BY <1>2, <1>3, QueryCallGoesOn DEF Unpaid

LEMMA FaultsAreCounted ==
    ASSUME QueryConstants, QueryTypes, faults' = faults \/ Query!Fault
    PROVE  faults' \in 0..MaxFaults /\ faults <= faults'
BY DEF QueryTypes, QueryConstants, Query!Fault

\* A query that moves on takes the rest with it.
LEMMA PlaceMoves ==
    ASSUME NEW k \in QueryCall, NEW place \in QueryPlaces, NEW m, m = [k EXCEPT !.pc = place]
    PROVE  /\ m \in QueryCall /\ m.pc = place /\ m.query = k.query /\ m.given = k.given
           /\ m.path = k.path /\ m.todo = k.todo /\ m.found = k.found
           /\ m.failed = k.failed /\ m.used = k.used
BY DEF QueryCall

\* A query begins; its budget is checked.
LEMMA LookUpKeeps ==
    ASSUME QueryConstants, QueryInv, NEW c \in Askers, NEW q \in Queries,
           Query!LookUp(c, q) \/ Query!LookUpFails(c, q)
    PROVE  QueryInv'
<1>1. PICK k : k = Fresh("budget", q)
  OBVIOUS
<1>2. k \in QueryCall /\ CallOk(k)' /\ k.pc = "budget"
  BY <1>1, FreshCall
<1>3. call' = [call EXCEPT ![c] = k] /\ UNCHANGED <<docs, answer, keys, cost, upload, excused, spent>>
  BY <1>1 DEF Query!LookUp, Query!LookUpFails, Query!Idle, Fresh
<1>4. faults' \in 0..MaxFaults /\ faults <= faults'
  BY FaultsAreCounted DEF QueryInv, Query!LookUp, Query!LookUpFails
<1>5. call[c].pc = "idle"
  BY DEF Query!LookUp, Query!LookUpFails, Query!At
<1>. QED
  BY <1>2, <1>3, <1>4, <1>5, QueryCallGoesOn DEF QueryInv, QueryTypes, Unpaid

\* One more may be charged: what was spent is below the budget but for the failures, or
\* this is one failure more.
LEMMA OneMoreDebtor ==
    ASSUME QueryConstants, QueryInv, QueryTypes', NEW c \in Askers, c \notin Debtors,
           Debtors' = Debtors \cup {c}, cost' = cost, spent' = spent,
           \/ cost < Budget /\ faults' = faults
           \/ faults' = faults + 1
    PROVE  CostOk'
<1>1. PICK m \in Nat : m = Query!MostCalls /\ m = Query!MostCalls'
  BY DebtorsAreCallers DEF QueryInv, Query!MostCalls
<1>2. PICK k, a, f \in Nat :
        /\ k = Cardinality(Debtors) /\ Cardinality(Debtors') = k + 1 /\ k + 1 <= a
        /\ a = Cardinality(Askers) /\ f = faults
  <2>1. /\ IsFiniteSet(Debtors) /\ Cardinality(Debtors) \in Nat /\ Cardinality(Askers) \in Nat
        /\ IsFiniteSet(Askers)
    BY DebtorsAreCallers DEF QueryInv, QueryConstants
  <2>2. Cardinality(Debtors') = Cardinality(Debtors) + 1
    BY <2>1, FS_AddElement
  <2>3. Debtors' \subseteq Askers
    BY DEF Debtors
  <2>4. Cardinality(Debtors') <= Cardinality(Askers)
    BY <2>1, <2>3, FS_Subset
  <2>. QED
    BY <2>1, <2>2, <2>4 DEF QueryInv, QueryTypes, QueryConstants
<1>3. /\ (k + 1) * m = k * m + m /\ (a + f + 1) * m = (a + f) * m + m
      /\ (a + f) * m = a * m + f * m /\ (f + 1) * m = f * m + m /\ (k + 1) * m <= a * m
  BY <1>2, DebtsShrink
<1>4. PICK km, am, fm \in Nat : km = k * m /\ am = a * m /\ fm = f * m
  OBVIOUS
<1>5. /\ spent + km <= Budget - 1 + (am + fm) /\ spent <= cost + fm /\ km + m <= am
      /\ spent \in Nat /\ cost \in Nat /\ Budget \in Nat
  BY <1>1, <1>2, <1>3, <1>4 DEF QueryInv, QueryTypes, QueryConstants, CostOk
<1>6. CASE cost < Budget /\ faults' = faults
  <2>1. spent + (km + m) <= Budget - 1 + (am + fm)
    BY <1>5, <1>6
  <2>. QED
    BY <1>1, <1>2, <1>3, <1>4, <1>5, <1>6, <2>1 DEF CostOk
<1>7. CASE faults' = faults + 1
  <2>1. spent + (km + m) <= Budget - 1 + (am + fm + m) /\ spent <= cost + (fm + m)
    BY <1>5
  <2>2. faults' = f + 1 /\ a + (f + 1) = a + f + 1
    BY <1>2, <1>7
  <2>. QED
    BY <1>1, <1>2, <1>3, <1>4, <2>1, <2>2 DEF CostOk
<1>. QED
  BY <1>6, <1>7

LEMMA CheckBudgetKeeps ==
    ASSUME QueryConstants, QueryInv, NEW c \in Askers,
           Query!CheckBudget(c) \/ Query!BudgetUnknown(c)
    PROVE  QueryInv'
<1>1. UNCHANGED <<docs, answer, keys, cost, upload, excused, spent>> /\ call[c].pc = "budget"
  BY DEF Query!CheckBudget, Query!BudgetUnknown, Query!At
<1>0. faults' \in 0..MaxFaults /\ faults <= faults'
  BY FaultsAreCounted DEF QueryInv, Query!CheckBudget, Query!BudgetUnknown
<1>2. CASE Query!CheckBudget(c) /\ cost >= Budget
  BY <1>0, <1>1, <1>2, QueryEnds DEF Query!CheckBudget, QueryInv, QueryTypes
<1>3. CASE Query!BudgetUnknown(c) \/ (Query!CheckBudget(c) /\ ~ (cost >= Budget))
  <2>1. PICK k : k = [call[c] EXCEPT !.pc = "load"]
    OBVIOUS
  <2>0. call[c] \in QueryCall /\ CallOk(call[c])
    BY DEF QueryInv, QueryTypes
  <2>2. /\ k \in QueryCall /\ k.pc = "load" /\ k.query = call[c].query
        /\ k.given = call[c].given /\ k.found = call[c].found
    BY <2>0, <2>1, PlaceMoves DEF QueryPlaces
  <2>3. call' = [call EXCEPT ![c] = k]
    BY <1>3, <2>1 DEF Query!CheckBudget, Query!BudgetUnknown, Query!Go
  <2>4. CallOk(k)'
    BY <1>1, <2>0, <2>2 DEF CallOk, Given
  <2>5. ASSUME NEW p \in Queries PROVE Certain(p)' /\ Within(p)'
    <3>1. Certain(p) /\ Within(p)
      BY DEF QueryInv
    <3>2. \A d \in Askers : call[d].pc = "register" => call'[d] = call[d]
      BY <1>1, <2>3 DEF QueryInv, QueryTypes
    <3>. QED
      BY <1>1, <3>1, <3>2 DEF Certain, Within, Query!Unread
  <2>6. CostOk'
    <3>1. QueryTypes'
      BY <1>0, <1>1, <2>2, <2>3 DEF QueryInv, QueryTypes
    <3>2. c \notin Debtors /\ Debtors' = Debtors \cup {c}
      BY <1>1, <2>2, <2>3 DEF Debtors, Unpaid, QueryInv, QueryTypes
    <3>3. (cost < Budget /\ faults' = faults) \/ faults' = faults + 1
      BY <1>3 DEF Query!CheckBudget, Query!BudgetUnknown, Query!Fault, QueryInv, QueryTypes,
                  QueryConstants
    <3>. QED
      BY <1>1, <3>1, <3>2, <3>3, OneMoreDebtor
  <2>. QED
    BY <1>0, <1>1, <2>2, <2>3, <2>4, <2>5, <2>6, QueryCallMoves DEF QueryInv, QueryTypes
<1>. QED
  BY <1>2, <1>3

\* The documents cannot be read.
LEMMA LoadFailsKeeps ==
    ASSUME QueryConstants, QueryInv, NEW c \in Askers, Query!LoadFails(c)
    PROVE  QueryInv'
<1>1. /\ UNCHANGED <<docs, answer, keys, cost, upload, excused, spent>> /\ call[c].pc = "load"
      /\ Query!Ends(c)
  BY DEF Query!LoadFails, Query!At
<1>2. faults' \in 0..MaxFaults /\ faults <= faults'
  BY FaultsAreCounted DEF QueryInv, Query!LoadFails
<1>. QED
  BY <1>1, <1>2, QueryEnds DEF QueryInv, QueryTypes

\* The call of a query in the invariant.
LEMMA TheCall ==
    ASSUME QueryInv, NEW c \in Askers
    PROVE  /\ call[c] \in QueryCall /\ CallOk(call[c])
           /\ call[c].query \in Queries \cup {"none"} /\ call[c].given \in Seq(DocumentRows)
           /\ call[c].todo \in SUBSET SUBSET Lines /\ call[c].found \in SUBSET Lines
           /\ call[c].failed \in BOOLEAN /\ call[c].used \in Nat
<1>1. call[c] \in QueryCall /\ CallOk(call[c])
  BY DEF QueryInv, QueryTypes
<1>. QED
  BY <1>1 DEF QueryCall

\* The documents are given as they are; an upload under way excuses the query.
LEMMA LoadDocumentsKeeps ==
    ASSUME QueryConstants, QueryInv, NEW c \in Askers, Query!LoadDocuments(c)
    PROVE  QueryInv'
<1>1. PICK k : k = [call[c] EXCEPT !.pc = "plan", !.given = docs]
  OBVIOUS
<1>2. /\ UNCHANGED <<docs, answer, keys, cost, upload, faults, spent>> /\ call[c].pc = "load"
      /\ excused' = excused \cup (IF upload.pc = "idle" THEN {} ELSE {call[c].query})
      /\ call' = [call EXCEPT ![c] = k]
  BY <1>1 DEF Query!LoadDocuments, Query!At
<1>3. /\ call[c] \in QueryCall /\ CallOk(call[c]) /\ docs \in Seq(DocumentRows) /\ Len(docs) <= MaxDocs
      /\ call[c].query \in Queries
  <2>1. call[c] \in QueryCall /\ CallOk(call[c])
    BY TheCall
  <2>2. docs \in Seq(DocumentRows) /\ Len(docs) <= MaxDocs
    BY DEF QueryInv, QueryTypes, QueryConstants
  <2>3. call[c].query \in Queries
    BY <1>2, <2>1 DEF CallOk
  <2>. QED
    BY <2>1, <2>2, <2>3
<1>4. /\ k \in QueryCall /\ k.pc = "plan" /\ k.given = docs /\ k.query = call[c].query
      /\ k.found = call[c].found
  BY <1>1, <1>3 DEF QueryCall, QueryPlaces
<1>5. call[c].found \subseteq Query!RowsOf(docs)
  BY <1>3 DEF CallOk
<1>6. CallOk(k)'
  BY <1>2, <1>3, <1>4, <1>5 DEF CallOk, Given
<1>7. excused \subseteq excused' /\ excused' \subseteq Queries /\ faults' \in 0..MaxFaults /\ faults <= faults'
  BY <1>2, <1>3 DEF QueryInv, QueryTypes
<1>. QED
  BY <1>2, <1>4, <1>6, <1>7, QueryCallGoesOn DEF Unpaid

\* The plan: all rows are looked at now, or are yet to be, chunk by chunk.
LEMMA BuildQueryPlanKeeps ==
    ASSUME QueryConstants, QueryInv, NEW c \in Askers, NEW path \in {"simple", "complex", "prose"},
           Query!BuildQueryPlan(c, path)
    PROVE  QueryInv'
<1>. DEFINE given == call[c].given
            simple == path = "simple"
<1>0. PICK place, todo, found :
        /\ place = IF simple THEN "cost" ELSE "extract"
        /\ todo = IF simple THEN {} ELSE Query!Chunks(given)
        /\ found = IF simple THEN Query!RowsOf(given) ELSE {}
  OBVIOUS
<1>1. PICK k : k = [call[c] EXCEPT !.pc = place, !.path = path, !.used = 1, !.todo = todo,
                      !.found = found]
  OBVIOUS
<1>2. /\ UNCHANGED <<docs, answer, keys, cost, upload, excused, faults, spent>> /\ call[c].pc = "plan"
  BY DEF Query!BuildQueryPlan, Query!At
<1>3. /\ call[c] \in QueryCall /\ CallOk(call[c]) /\ given \in Seq(DocumentRows)
      /\ call[c].query \in Queries
  BY <1>2, TheCall DEF QueryInv, QueryTypes, CallOk
<1>4. call' = [call EXCEPT ![c] = k]
  BY <1>0, <1>1 DEF Query!BuildQueryPlan
<1>5. /\ Query!RowsOf(given) \subseteq Lines /\ IsFiniteSet(Query!RowsOf(given))
      /\ Cardinality(Query!RowsOf(given)) \in Nat /\ Query!MostCalls \in Nat
      /\ Cardinality(Query!RowsOf(given)) + 1 <= Query!MostCalls
  BY <1>3, RowsAreBounded, FS_CardinalityType DEF CallOk
<1>6. /\ UNION Query!Chunks(given) = Query!RowsOf(given)
      /\ \A chunk \in Query!Chunks(given) : chunk \subseteq Query!RowsOf(given)
      /\ IsFiniteSet(Query!Chunks(given)) /\ 1 + Cardinality(Query!Chunks(given)) <= Query!MostCalls
  BY <1>3, ChunksAreTheRows DEF CallOk
<1>7. k \in QueryCall
  <2>2. Query!Chunks(given) \in SUBSET SUBSET Lines
    BY <1>5, <1>6
  <2>3. /\ place \in QueryPlaces /\ todo \in SUBSET SUBSET Lines /\ found \in SUBSET Lines
        /\ path \in Paths
    BY <1>0, <1>5, <2>2 DEF QueryPlaces, Paths
  <2>. QED
    BY <1>1, <1>3, <2>3 DEF QueryCall
<1>10. /\ k.pc = place /\ k.query = call[c].query /\ k.given = given
      /\ k.found = found /\ k.used = 1 /\ k.todo = todo /\ k.path = path
  BY <1>1, <1>3 DEF QueryCall
<1>8. CallOk(k)'
  <2>. HIDE DEF given
  <2>0. Query!MostCalls' = Query!MostCalls /\ Query!RowsOf(docs)' = Query!RowsOf(docs)
    BY <1>2 DEF Query!MostCalls, Query!RowsOf
  <2>1. CASE simple
    <3>1. /\ k.pc = "cost" /\ k.query = call[c].query /\ k.given = given
          /\ k.found = Query!RowsOf(given) /\ k.used = 1
      BY <1>0, <1>10, <2>1
    <3>2. 1 <= Query!MostCalls
      BY <1>5
    <3>3. Covered(k, k.found)
      BY <3>1 DEF Covered
    <3>. QED
      BY <1>2, <1>3, <2>0, <3>1, <3>2, <3>3 DEF CallOk, Covered, Given, given
  <2>2. CASE ~ simple
    <3>1. /\ k.pc = "extract" /\ k.query = call[c].query /\ k.given = given
          /\ k.found = {} /\ k.used = 1 /\ k.todo = Query!Chunks(given)
      BY <1>0, <1>10, <2>2
    <3>2. Covered(k, k.found \cup UNION k.todo) /\ k.path # "simple"
      BY <1>6, <1>10, <2>2, <3>1 DEF Covered
    <3>. QED
      BY <1>2, <1>3, <1>6, <2>0, <3>1, <3>2 DEF CallOk, Covered, Given, given
  <2>. QED
    BY <2>1, <2>2
<1>9. k.pc \in Unpaid => call[c].pc \in Unpaid
  BY <1>2 DEF Unpaid
<1>11. /\ excused \subseteq excused' /\ excused' \subseteq Queries
       /\ faults' \in 0..MaxFaults /\ faults <= faults' /\ call[c].pc # "register"
  BY <1>2 DEF QueryInv, QueryTypes, QueryConstants
<1>. QED
  BY <1>2, <1>4, <1>7, <1>8, <1>9, <1>11, QueryCallGoesOn

\* A chunk is looked at, or fails and the query knows.
LEMMA ChunkKeeps ==
    ASSUME QueryConstants, QueryInv, NEW c \in Askers, NEW chunk \in call[c].todo,
           \/ Query!ExtractTabularChunk(c, chunk) \/ Query!ExtractProseChunk(c, chunk)
           \/ Query!ChunkFails(c, chunk)
    PROVE  QueryInv'
<1>1. PICK todo : todo = call[c].todo \ {chunk}
  OBVIOUS
<1>0. PICK seen : seen = Query!Prompt(chunk)
  OBVIOUS
<1>2. PICK found, failed :
        /\ call' = [call EXCEPT ![c].todo = todo, ![c].found = found, ![c].failed = failed,
                                ![c].used = call[c].used + 1]
        /\ \/ found = call[c].found \cup seen /\ failed = call[c].failed
           \/ found = call[c].found /\ failed = TRUE
  <2>0. call \in [Askers -> QueryCall] /\ call[c] \in QueryCall
    BY TheCall DEF QueryInv, QueryTypes
  <2>1. CASE Query!ExtractTabularChunk(c, chunk) \/ Query!ExtractProseChunk(c, chunk)
    <3>1. call' = [call EXCEPT ![c].todo = @ \ {chunk}, ![c].found = @ \cup seen,
                               ![c].used = @ + 1]
      BY <1>0, <2>1 DEF Query!ExtractTabularChunk, Query!ExtractProseChunk, Query!Extract
    <3>2. call' = [call EXCEPT ![c].todo = todo, ![c].found = call[c].found \cup seen,
                               ![c].failed = call[c].failed, ![c].used = call[c].used + 1]
      BY <1>1, <2>0, <3>1 DEF QueryCall
    <3>. QED
      BY <3>2
  <2>2. CASE Query!ChunkFails(c, chunk)
    <3>1. call' = [call EXCEPT ![c].todo = @ \ {chunk}, ![c].failed = TRUE, ![c].used = @ + 1]
      BY <2>2 DEF Query!ChunkFails
    <3>2. call' = [call EXCEPT ![c].todo = todo, ![c].found = call[c].found,
                               ![c].failed = TRUE, ![c].used = call[c].used + 1]
      BY <1>1, <2>0, <3>1 DEF QueryCall
    <3>. QED
      BY <3>2
  <2>. QED
    BY <2>1, <2>2
<1>3. PICK k : k = [call[c] EXCEPT !.todo = todo, !.found = found, !.failed = failed,
                      !.used = call[c].used + 1]
  OBVIOUS
<1>4. /\ call[c] \in QueryCall /\ CallOk(call[c]) /\ call[c].used \in Nat
      /\ call[c].todo \in SUBSET SUBSET Lines /\ call[c].found \in SUBSET Lines
      /\ call[c].failed \in BOOLEAN
  BY TheCall
<1>5. UNCHANGED <<docs, answer, keys, cost, upload, excused, spent>> /\ call[c].pc = "extract"
  BY DEF Query!ExtractTabularChunk, Query!ExtractProseChunk, Query!Extract, Query!ChunkFails, Query!At
<1>6. faults' \in 0..MaxFaults /\ faults <= faults'
  BY FaultsAreCounted DEF QueryInv, Query!ExtractTabularChunk, Query!ExtractProseChunk,
                          Query!Extract, Query!ChunkFails
<1>7. call' = [call EXCEPT ![c] = k]
  BY <1>2, <1>3
<1>8. k \in QueryCall
  <2>1. todo \in SUBSET SUBSET Lines
    BY <1>1, <1>4
  <2>2. seen \in SUBSET Lines
    BY <1>0, <1>4 DEF Query!Prompt
  <2>3. found \in SUBSET Lines
    BY <1>2, <1>4, <2>2
  <2>4. failed = call[c].failed \/ failed = TRUE
    BY <1>2, Zenon
  <2>5. failed \in BOOLEAN
    BY <1>4, <2>4, Zenon
  <2>6. call[c].used + 1 \in Nat
    BY <1>4
  <2>. QED
    BY <1>3, <1>4, <2>1, <2>3, <2>5, <2>6 DEF QueryCall
<1>9. /\ k.pc = "extract" /\ k.query = call[c].query /\ k.given = call[c].given
      /\ k.todo = todo /\ k.found = found /\ k.failed = failed /\ k.used = call[c].used + 1
      /\ k.path = call[c].path
  BY <1>3, <1>4, <1>5 DEF QueryCall
<1>10. CallOk(k)'
  <2>1. IsFiniteSet(todo) /\ k.used + Cardinality(todo) <= Query!MostCalls
    <3>1. /\ IsFiniteSet(call[c].todo) /\ Cardinality(call[c].todo) \in Nat
          /\ call[c].used + Cardinality(call[c].todo) <= Query!MostCalls
      BY <1>4, <1>5, FS_CardinalityType DEF CallOk
    <3>2. IsFiniteSet(todo) /\ Cardinality(todo) = Cardinality(call[c].todo) - 1
      BY <1>1, <3>1, FS_RemoveElement
    <3>3. Query!MostCalls \in Nat
      BY DebtorsAreCallers DEF QueryInv
    <3>. QED
      BY <1>4, <1>9, <3>1, <3>2, <3>3
  <2>2. /\ \A part \in call[c].todo : part \subseteq Query!RowsOf(call[c].given)
        /\ call[c].found \subseteq Query!RowsOf(call[c].given)
        /\ call[c].path # "simple"
        /\ ~ call[c].failed => Covered(call[c], call[c].found \cup UNION call[c].todo)
    BY <1>4, <1>5 DEF CallOk
  <2>3. /\ \A part \in todo : part \subseteq Query!RowsOf(call[c].given)
        /\ found \subseteq Query!RowsOf(call[c].given)
    BY <1>0, <1>1, <1>2, <2>2 DEF Query!Prompt
  <2>4. ASSUME ~ failed PROVE Covered(k, found \cup UNION todo)
    <3>1. found = call[c].found \cup seen /\ ~ call[c].failed
      BY <1>2, <2>4
    <3>2. UNION call[c].todo = chunk \cup UNION todo
      BY <1>1
    <3>3. chunk \subseteq seen \cup PastTheCut
      BY <1>0 DEF Query!Prompt
    <3>4. Query!RowsOf(call[c].given) \ (call[c].found \cup UNION call[c].todo) \subseteq PastTheCut
      BY <2>2, <3>1 DEF Covered
    <3>5. Query!RowsOf(call[c].given) \ (found \cup UNION todo) \subseteq PastTheCut
      BY <3>1, <3>2, <3>3, <3>4
    <3>. QED
      BY <1>9, <3>5 DEF Covered
  <2>5. Query!MostCalls' = Query!MostCalls
    BY DEF Query!MostCalls
  <2>6. /\ call[c].query \in Queries /\ Len(call[c].given) <= MaxDocs
        /\ Query!RowsOf(call[c].given) \subseteq Query!RowsOf(docs)
        /\ call[c].query \notin excused => call[c].given = docs /\ upload.pc = "idle"
    BY <1>4, <1>5 DEF CallOk, Given
  <2>7. Query!RowsOf(docs)' = Query!RowsOf(docs)
    BY <1>5 DEF Query!RowsOf
  <2>. QED
    BY <1>5, <1>9, <2>1, <2>2, <2>3, <2>4, <2>5, <2>6, <2>7 DEF CallOk, Covered
<1>. QED
  BY <1>5, <1>6, <1>7, <1>8, <1>9, <1>10, QueryCallGoesOn DEF Unpaid, QueryInv, QueryTypes

\* Nothing is left to look at.
LEMMA MergeKeeps ==
    ASSUME QueryConstants, QueryInv, NEW c \in Askers,
           Query!MergeTabular(c) \/ Query!MergeProse(c)
    PROVE  QueryInv'
<1>1. PICK k : k = [call[c] EXCEPT !.pc = "cost"]
  OBVIOUS
<1>2. /\ UNCHANGED <<docs, answer, keys, cost, upload, excused, faults, spent>>
      /\ call[c].pc = "extract" /\ call[c].todo = {} /\ call' = [call EXCEPT ![c] = k]
  BY <1>1 DEF Query!MergeTabular, Query!MergeProse, Query!Merge, Query!At, Query!Go
<1>3. call[c] \in QueryCall /\ CallOk(call[c]) /\ call[c].used \in Nat
  BY TheCall
<1>4. /\ k \in QueryCall /\ k.pc = "cost" /\ k.query = call[c].query
      /\ k.given = call[c].given /\ k.found = call[c].found /\ k.failed = call[c].failed
      /\ k.used = call[c].used /\ k.path = call[c].path
  BY <1>1, <1>3, PlaceMoves DEF QueryPlaces
<1>5. CallOk(k)'
  <2>1. Query!MostCalls' = Query!MostCalls /\ Query!RowsOf(docs)' = Query!RowsOf(docs)
    BY <1>2 DEF Query!MostCalls, Query!RowsOf
  <2>2. call[c].used <= Query!MostCalls
    <3>1. Cardinality(call[c].todo) = 0 /\ call[c].used + Cardinality(call[c].todo) <= Query!MostCalls
      BY <1>2, <1>3, FS_EmptySet DEF CallOk
    <3>. QED
      BY <1>3, <3>1
  <2>3. call[c].found \cup UNION call[c].todo = call[c].found
    BY <1>2
  <2>4. (~ call[c].failed => Covered(call[c], call[c].found)) /\ call[c].path # "simple"
    BY <1>2, <1>3, <2>3 DEF CallOk
  <2>. QED
    BY <1>2, <1>3, <1>4, <2>1, <2>2, <2>4 DEF CallOk, Covered, Given
<1>6. /\ excused \subseteq excused' /\ excused' \subseteq Queries
      /\ faults' \in 0..MaxFaults /\ faults <= faults' /\ call[c].pc # "register"
  BY <1>2 DEF QueryInv, QueryTypes, QueryConstants
<1>. QED
  BY <1>2, <1>4, <1>5, <1>6, QueryCallGoesOn DEF Unpaid

\* The query is charged what it used, which is no more than one query may use.
LEMMA LogQueryCostKeeps ==
    ASSUME QueryConstants, QueryInv, NEW c \in Askers, Query!LogQueryCost(c)
    PROVE  QueryInv'
<1>1. PICK k : k = [call[c] EXCEPT !.pc = "store"]
  OBVIOUS
<1>2. /\ UNCHANGED <<docs, answer, keys, upload, excused>> /\ call[c].pc = "cost"
      /\ call' = [call EXCEPT ![c] = k] /\ spent' = spent + call[c].used
      /\ \/ cost' = cost + call[c].used /\ faults' = faults
         \/ cost' = cost /\ faults' = faults + 1
  BY <1>1 DEF Query!LogQueryCost, Query!At, Query!Go, Query!Fault
<1>3. faults' \in 0..MaxFaults /\ faults <= faults'
  BY FaultsAreCounted DEF QueryInv, Query!LogQueryCost
<1>4. call[c] \in QueryCall /\ CallOk(call[c]) /\ call[c].used \in Nat
  BY TheCall
<1>5. /\ k \in QueryCall /\ k.pc = "store" /\ k.query = call[c].query
      /\ k.given = call[c].given /\ k.found = call[c].found /\ k.failed = call[c].failed
      /\ k.path = call[c].path
  BY <1>1, <1>4, PlaceMoves DEF QueryPlaces
<1>6. CallOk(k)'
  <2>1. Query!RowsOf(docs)' = Query!RowsOf(docs)
    BY <1>2 DEF Query!RowsOf
  <2>. QED
    BY <1>2, <1>4, <1>5, <2>1 DEF CallOk, Covered, Given
<1>7. ASSUME NEW q \in Queries PROVE Certain(q)' /\ Within(q)'
  <2>1. Certain(q) /\ Within(q)
    BY DEF QueryInv
  <2>2. \A d \in Askers : call[d].pc = "register" => call'[d] = call[d]
    BY <1>2 DEF QueryInv, QueryTypes
  <2>. QED
    BY <1>2, <2>1, <2>2 DEF Certain, Within, Query!Unread
<1>8. CostOk'
  <2>1. Debtors' = Debtors \ {c} /\ c \in Debtors
    BY <1>2, <1>5 DEF Debtors, Unpaid, QueryInv, QueryTypes
  <2>2. PICK n \in Nat : Cardinality(Debtors) = n + 1 /\ Cardinality(Debtors') = n
    <3>1. IsFiniteSet(Debtors) /\ Cardinality(Debtors) \in Nat
      BY DebtorsAreCallers DEF QueryInv
    <3>2. Cardinality(Debtors \ {c}) = Cardinality(Debtors) - 1
      BY <2>1, <3>1, FS_RemoveElement
    <3>3. Cardinality(Debtors \ {c}) \in Nat
      BY <3>1, FS_RemoveElement, FS_CardinalityType
    <3>. QED
      BY <2>1, <3>1, <3>2, <3>3
  <2>3. PICK m \in Nat : m = Query!MostCalls /\ m = Query!MostCalls'
    BY DebtorsAreCallers DEF QueryInv, Query!MostCalls
  <2>4. PICK a, f, used \in Nat :
          a = Cardinality(Askers) /\ f = faults /\ used = call[c].used /\ used <= m
    <3>1. Cardinality(Askers) \in Nat
      BY DebtorsAreCallers DEF QueryInv
    <3>2. faults \in Nat
      BY DEF QueryInv, QueryTypes, QueryConstants
    <3>3. call[c].used \in Nat /\ call[c].used <= m
      BY <1>2, <1>4, <2>3 DEF CallOk
    <3>. QED
      BY <3>1, <3>2, <3>3
  <2>5. /\ (n + 1) * m = n * m + m /\ (a + f + 1) * m = (a + f) * m + m
        /\ (f + 1) * m = f * m + m /\ a + (f + 1) = a + f + 1
    OBVIOUS
  <2>6. PICK nm, all, fm \in Nat : nm = n * m /\ all = (a + f) * m /\ fm = f * m
    <3>1. a + f \in Nat
      OBVIOUS
    <3>. QED
      BY <3>1
  <2>7. /\ spent + (nm + m) <= Budget - 1 + all /\ spent <= cost + fm
        /\ spent \in Nat /\ cost \in Nat /\ Budget \in Nat
    BY <2>2, <2>3, <2>4, <2>5, <2>6 DEF QueryInv, QueryTypes, CostOk, QueryConstants
  <2>8. spent' = spent + used /\ spent' + nm <= Budget - 1 + all
    BY <1>2, <2>4, <2>7
  <2>9. CASE cost' = cost + call[c].used /\ faults' = faults
    <3>1. spent' <= cost' + fm
      BY <2>4, <2>7, <2>8, <2>9
    <3>. QED
      BY <2>2, <2>3, <2>4, <2>6, <2>8, <2>9, <3>1 DEF CostOk
  <2>10. CASE cost' = cost /\ faults' = faults + 1
    <3>1. spent' <= cost' + (fm + m) /\ spent' + nm <= Budget - 1 + (all + m)
      BY <2>4, <2>7, <2>8, <2>10
    <3>2. faults' = f + 1
      BY <2>4, <2>10
    <3>. QED
      BY <2>2, <2>3, <2>4, <2>5, <2>6, <3>1, <3>2 DEF CostOk
  <2>. QED
    BY <1>2, <2>9, <2>10
<1>9. cost' \in Nat /\ spent' \in Nat
  BY <1>2, <1>4 DEF QueryInv, QueryTypes
<1>. QED
  BY <1>2, <1>3, <1>5, <1>6, <1>7, <1>8, <1>9, QueryCallMoves DEF QueryInv, QueryTypes

\* An answer is stored, whole unless it is excused or partial; the query then has only to
\* register it.
LEMMA StoreAnswerKeeps ==
    ASSUME QueryConstants, QueryInv, NEW c \in Askers, Query!StoreAnswer(c)
    PROVE  QueryInv'
<1>1. /\ call[c].pc = "store" /\ UNCHANGED <<docs, keys, cost, upload, faults, spent>>
      /\ excused' = excused \cup (IF call[c].failed THEN {call[c].query} ELSE {})
  BY DEF Query!StoreAnswer, Query!At
<1>2. /\ call[c] \in QueryCall /\ CallOk(call[c]) /\ call[c].query \in Queries
      /\ call[c].found \in SUBSET Lines
  BY <1>1, TheCall DEF CallOk
<1>3. excused \subseteq excused' /\ excused' \subseteq Queries
  BY <1>1, <1>2 DEF QueryInv, QueryTypes
<1>4. CASE Query!Partial(c)
  BY <1>1, <1>3, <1>4, QueryEnds DEF Query!StoreAnswer, QueryInv, QueryTypes
<1>5. CASE ~ Query!Partial(c)
  <2>1. PICK k : k = [call[c] EXCEPT !.pc = "register"]
    OBVIOUS
  <2>2. PICK found, path :
          /\ found = call[c].found /\ path = call[c].path
          /\ answer' = [answer EXCEPT ![call[c].query] =
                           [cached |-> TRUE, rows |-> found, path |-> path]]
    BY <1>5 DEF Query!StoreAnswer
  <2>3. call' = [call EXCEPT ![c] = k]
    BY <1>5, <2>1 DEF Query!StoreAnswer, Query!Go
  <2>4. /\ k \in QueryCall /\ k.pc = "register" /\ k.query = call[c].query
        /\ k.given = call[c].given /\ k.found = call[c].found /\ k.failed = call[c].failed
        /\ k.path = call[c].path
    BY <1>2, <2>1, PlaceMoves DEF QueryPlaces
  <2>5. CallOk(k)'
    <3>1. Query!RowsOf(docs)' = Query!RowsOf(docs)
      BY <1>1 DEF Query!RowsOf
    <3>. QED
      BY <1>1, <1>2, <2>4, <3>1 DEF CallOk, Covered, Given
  <2>6. answer' \in [Queries -> [cached : BOOLEAN, rows : SUBSET Lines, path : Paths]]
    <3>1. path \in Paths
      BY <1>2, <2>2 DEF QueryCall
    <3>. QED
      BY <1>2, <2>2, <3>1 DEF QueryInv, QueryTypes
  <2>7. ASSUME NEW q \in Queries PROVE Certain(q)' /\ Within(q)'
    <3>1. Certain(q) /\ Within(q)
      BY DEF QueryInv
    <3>2. CASE q = call[c].query
      <4>1. answer'[q].rows = call[c].found /\ answer'[q].path = call[c].path /\ call'[c] = k
        BY <2>2, <2>3, <3>2 DEF QueryInv, QueryTypes
      <4>2. Within(q)'
        BY <1>1, <1>2, <4>1 DEF Within, CallOk
      <4>3. ASSUME q \notin excused'
            PROVE  /\ Query!RowsOf(docs) \ call[c].found \subseteq PastTheCut
                   /\ call[c].path = "simple" => Query!RowsOf(docs) \ call[c].found = {}
                   /\ upload.pc = "idle"
        <5>1. ~ call[c].failed /\ q \notin excused
          BY <1>1, <3>2, <4>3
        <5>2. call[c].given = docs /\ upload.pc = "idle"
          BY <1>1, <1>2, <3>2, <5>1 DEF CallOk, Given
        <5>. QED
          BY <1>1, <1>2, <5>1, <5>2 DEF CallOk, Covered
      <4>5. Query!Unread(q)' = Query!RowsOf(docs) \ call[c].found
        BY <1>1, <4>1 DEF Query!Unread, Query!RowsOf
      <4>4. Certain(q)'
        BY <1>1, <2>4, <3>2, <4>1, <4>3, <4>5 DEF Certain
      <4>. QED
        BY <4>2, <4>4
    <3>3. CASE q # call[c].query
      <4>1. answer'[q] = answer[q]
        BY <2>2, <3>3 DEF QueryInv, QueryTypes
      <4>2. \A d \in Askers : call[d].pc = "register" => call'[d] = call[d]
        BY <1>1, <2>3 DEF QueryInv, QueryTypes
      <4>. QED
        BY <1>1, <1>3, <3>1, <4>1, <4>2 DEF Certain, Within, Query!Unread
    <3>. QED
      BY <3>2, <3>3
  <2>8. Debtors' = Debtors
    BY <1>1, <2>3, <2>4 DEF Debtors, Unpaid, QueryInv, QueryTypes
  <2>9. QueryTypes'
    BY <1>1, <1>3, <2>3, <2>4, <2>6 DEF QueryInv, QueryTypes
  <2>10. CostOk'
    BY <1>1, <2>8, <2>9, CostHolds DEF QueryInv, QueryTypes, QueryConstants
  <2>. QED
    BY <1>1, <1>3, <2>3, <2>4, <2>5, <2>6, <2>7, <2>10, QueryCallMoves
       DEF QueryInv, QueryTypes
<1>. QED
  BY <1>4, <1>5

\* The answer is registered, and an upload will find it.
LEMMA RegisterAnswerKeeps ==
    ASSUME QueryConstants, QueryInv, NEW c \in Askers, Query!RegisterAnswer(c)
    PROVE  QueryInv'
<1>1. /\ call[c].pc = "register" /\ keys' = keys \cup {call[c].query}
      /\ UNCHANGED <<docs, answer, cost, upload, excused, faults, spent>>
  BY DEF Query!RegisterAnswer, Query!At
<1>2. PICK k : k = Fresh("idle", "none")
  OBVIOUS
<1>3. k \in QueryCall /\ CallOk(k)' /\ k.pc = "idle"
  BY <1>2, FreshCall
<1>4. call' = [call EXCEPT ![c] = k]
  BY <1>2 DEF Query!RegisterAnswer, Query!Ends, Query!Idle, Fresh
<1>5. call[c].query \in Queries
  BY <1>1, TheCall DEF CallOk
<1>6. ASSUME NEW q \in Queries PROVE Certain(q)' /\ Within(q)'
  <2>1. Certain(q) /\ Within(q)
    BY DEF QueryInv
  <2>2. \A d \in Askers \ {c} : call'[d] = call[d]
    BY <1>4 DEF QueryInv, QueryTypes
  <2>. QED
    BY <1>1, <2>1, <2>2 DEF Certain, Within, Query!Unread
<1>7. Debtors' = Debtors
  BY <1>1, <1>3, <1>4 DEF Debtors, Unpaid, QueryInv, QueryTypes
<1>8. QueryTypes'
  BY <1>1, <1>3, <1>4, <1>5 DEF QueryInv, QueryTypes
<1>9. CostOk'
  BY <1>1, <1>7, <1>8, CostHolds DEF QueryInv, QueryTypes, QueryConstants
<1>. QED
  BY <1>1, <1>3, <1>4, <1>5, <1>6, <1>8, <1>9, QueryCallMoves DEF QueryInv, QueryTypes

\* Redis fails, which excuses the query.
LEMMA StoreFailsKeeps ==
    ASSUME QueryConstants, QueryInv, NEW c \in Askers, Query!StoreFails(c)
    PROVE  QueryInv'
<1>1. /\ call[c].pc \in {"store", "register"} /\ Query!Ends(c)
      /\ UNCHANGED <<docs, answer, keys, cost, upload, spent>>
      /\ excused' = excused \cup {call[c].query}
  BY DEF Query!StoreFails, Query!At
<1>2. call[c].query \in Queries
  BY <1>1, TheCall DEF CallOk
<1>3. faults' \in 0..MaxFaults /\ faults <= faults'
  BY FaultsAreCounted DEF QueryInv, Query!StoreFails
<1>. QED
  BY <1>1, <1>2, <1>3, QueryEnds DEF QueryInv, QueryTypes

\* An upload begins, which excuses the queries under way, and deletes the answers.
LEMMA ReadKeysKeeps ==
    ASSUME QueryConstants, QueryInv, Query!ReadKeys PROVE QueryInv'
<1>1. /\ upload.pc = "idle" /\ Len(docs) < MaxDocs /\ upload' = [pc |-> "delete", members |-> keys]
      /\ excused' = excused \cup Query!InFlight
      /\ UNCHANGED <<docs, answer, keys, cost, call, faults, spent>>
  BY DEF Query!ReadKeys
<1>2. \A c \in Askers : call[c].pc # "idle" => call[c].query \in Query!InFlight \cap Queries
  BY TheCall DEF Query!InFlight, Query!At, CallOk
<1>3. Query!InFlight \subseteq Queries
  BY TheCall DEF Query!InFlight, Query!At, CallOk
<1>4. QueryTypes'
  BY <1>1, <1>3 DEF QueryInv, QueryTypes
<1>5. ASSUME NEW c \in Askers PROVE CallOk(call[c])'
  <2>1. CallOk(call[c])
    BY TheCall
  <2>2. call[c].pc \in Given => call[c].query \in excused'
    BY <1>1, <1>2 DEF Given
  <2>3. /\ Query!MostCalls' = Query!MostCalls /\ call'[c] = call[c]
        /\ Query!RowsOf(docs)' = Query!RowsOf(docs)
    BY <1>1 DEF Query!MostCalls, Query!RowsOf
  <2>. QED
    BY <1>1, <2>1, <2>2, <2>3 DEF CallOk, Covered
<1>6. ASSUME NEW q \in Queries PROVE Certain(q)' /\ Within(q)'
  <2>1. Certain(q) /\ Within(q)
    BY DEF QueryInv
  <2>. QED
    BY <1>1, <2>1 DEF Certain, Within, Query!Unread
<1>7. CostOk'
  BY <1>1, <1>4, CostHolds DEF Debtors, QueryInv, QueryTypes, QueryConstants
<1>. QED
  BY <1>4, <1>5, <1>6, <1>7 DEF QueryInv

\* A query that is not excused is not given documents while an upload is under way.
LEMMA UploadIsAlone ==
    ASSUME QueryInv, upload.pc # "idle", NEW c \in Askers, call[c].pc \in Given
    PROVE  call[c].query \in excused
BY TheCall DEF CallOk

LEMMA DeleteAnswersKeeps ==
    ASSUME QueryConstants, QueryInv, Query!DeleteAnswers \/ Query!InvalidateFails
    PROVE  QueryInv'
<1>1. /\ upload.pc = "delete" /\ upload' = [pc |-> "append", members |-> {}]
      /\ UNCHANGED <<docs, cost, call, spent>> /\ excused \subseteq excused'
  BY DEF Query!DeleteAnswers, Query!InvalidateFails
<1>2. excused' \subseteq Queries
  BY DEF Query!DeleteAnswers, Query!InvalidateFails, QueryInv, QueryTypes
<1>3. faults' \in 0..MaxFaults /\ faults <= faults'
  BY FaultsAreCounted DEF QueryInv, Query!DeleteAnswers, Query!InvalidateFails
<1>4. \A q \in Queries : answer'[q] = answer[q] \/ answer'[q] = Query!NoAnswer
  BY DEF Query!DeleteAnswers, Query!InvalidateFails
<1>5. /\ answer' \in [Queries -> [cached : BOOLEAN, rows : SUBSET Lines, path : Paths]]
      /\ keys' \subseteq Queries
  <2>1. Query!NoAnswer \in [cached : BOOLEAN, rows : SUBSET Lines, path : Paths]
    BY DEF Query!NoAnswer, Paths
  <2>. QED
    BY <2>1 DEF QueryInv, QueryTypes, Query!DeleteAnswers, Query!InvalidateFails
<1>6. QueryTypes'
  BY <1>1, <1>2, <1>3, <1>5 DEF QueryInv, QueryTypes
<1>7. ASSUME NEW c \in Askers PROVE CallOk(call[c])'
  <2>1. CallOk(call[c])
    BY TheCall
  <2>2. call[c].pc \in Given => call[c].query \in excused'
    BY <1>1, UploadIsAlone
  <2>3. /\ Query!MostCalls' = Query!MostCalls /\ call'[c] = call[c]
        /\ Query!RowsOf(docs)' = Query!RowsOf(docs)
    BY <1>1 DEF Query!MostCalls, Query!RowsOf
  <2>. QED
    BY <1>1, <2>1, <2>2, <2>3 DEF CallOk, Covered
<1>8. ASSUME NEW q \in Queries PROVE Certain(q)' /\ Within(q)'
  <2>1. Certain(q) /\ Within(q)
    BY DEF QueryInv
  <2>2. Within(q)'
    BY <1>1, <1>4, <2>1 DEF Within, Query!NoAnswer
  <2>3. ASSUME q \notin excused', answer'[q].cached PROVE FALSE
    <3>1. q \notin excused /\ answer[q].cached /\ answer'[q] = answer[q]
      BY <1>1, <1>4, <2>3 DEF Query!NoAnswer
    <3>2. q \in keys
      BY <1>1, <2>1, <3>1, UploadIsAlone DEF Certain, Given
    <3>3. CASE Query!DeleteAnswers
      <4>1. /\ excused' = excused \cup (keys \ upload.members)
            /\ q \in upload.members => answer'[q] = Query!NoAnswer
        BY <3>3 DEF Query!DeleteAnswers, Query!DeletedOf
      <4>. QED
        BY <2>3, <3>2, <4>1 DEF Query!NoAnswer
    <3>4. CASE Query!InvalidateFails
      BY <2>3, <3>1, <3>4 DEF Query!InvalidateFails
    <3>. QED
      BY <3>3, <3>4
  <2>. QED
    BY <2>2, <2>3 DEF Certain
<1>9. CostOk'
  BY <1>1, <1>3, <1>6, CostHolds DEF Debtors
<1>. QED
  BY <1>6, <1>7, <1>8, <1>9 DEF QueryInv

\* The document is added when no answer without excuse is cached or under way.
LEMMA AppendDocumentKeeps ==
    ASSUME QueryConstants, QueryInv, NEW n \in DocumentRows, Query!AppendDocument(n) PROVE QueryInv'
<1>1. /\ upload.pc = "append" /\ docs' = Append(docs, n)
      /\ upload' = [pc |-> "idle", members |-> {}]
      /\ UNCHANGED <<answer, keys, cost, call, excused, faults, spent>>
  BY DEF Query!AppendDocument
<1>2. docs \in Seq(DocumentRows) /\ Len(docs) < MaxDocs
  BY <1>1 DEF QueryInv, QueryTypes
<1>3. QueryTypes'
  BY <1>1, <1>2 DEF QueryInv, QueryTypes, QueryConstants
<1>4. Query!RowsOf(docs) \subseteq Query!RowsOf(docs')
  BY <1>1, <1>2, RowsGrow
<1>5. ASSUME NEW c \in Askers PROVE CallOk(call[c])'
  <2>1. CallOk(call[c])
    BY TheCall
  <2>2. call[c].pc \in Given => call[c].query \in excused'
    BY <1>1, UploadIsAlone
  <2>3. /\ Query!MostCalls' = Query!MostCalls /\ call'[c] = call[c]
        /\ Query!RowsOf(docs)' = Query!RowsOf(docs')
    BY <1>1 DEF Query!MostCalls, Query!RowsOf
  <2>. QED
    BY <1>1, <1>4, <2>1, <2>2, <2>3 DEF CallOk, Covered
<1>6. ASSUME NEW q \in Queries PROVE Certain(q)' /\ Within(q)'
  <2>1. Certain(q) /\ Within(q)
    BY DEF QueryInv
  <2>2. Query!RowsOf(docs)' = Query!RowsOf(docs')
    BY DEF Query!RowsOf
  <2>. QED
    BY <1>1, <1>4, <2>1, <2>2 DEF Certain, Within, Query!Unread
<1>7. CostOk'
  BY <1>1, <1>3, CostHolds DEF Debtors, QueryInv, QueryTypes, QueryConstants
<1>. QED
  BY <1>3, <1>5, <1>6, <1>7 DEF QueryInv

LEMMA QueryInit == ASSUME QueryConstants, Query!Init PROVE QueryInv
<1>1. PICK n \in DocumentRows : docs = <<n>>
  BY DEF Query!Init
<1>2. /\ answer = [q \in Queries |-> Query!NoAnswer] /\ keys = {} /\ cost = 0
      /\ call = [c \in Askers |-> Query!Idle] /\ upload = [pc |-> "idle", members |-> {}]
      /\ excused = {} /\ faults = 0 /\ spent = 0
  BY DEF Query!Init
<1>3. Query!Idle \in QueryCall /\ Query!NoAnswer \in [cached : BOOLEAN, rows : SUBSET Lines, path : Paths]
  <2>1. <<>> \in Seq(DocumentRows)
    OBVIOUS
  <2>. QED
    BY <2>1 DEF Query!Idle, Query!NoAnswer, QueryCall, QueryPlaces, Paths
<1>4. QueryTypes
  <2>1. docs \in Seq(DocumentRows) /\ Len(docs) = 1
    BY <1>1
  <2>2. 1 \in 1..MaxDocs /\ 0 \in 0..MaxFaults
    BY DEF QueryConstants
  <2>. QED
    BY <1>2, <1>3, <2>1, <2>2 DEF QueryTypes
<1>5. ASSUME NEW c \in Askers PROVE CallOk(call[c])
  <2>1. /\ call[c].pc = "idle" /\ call[c].given = <<>> /\ call[c].found = {}
    BY <1>2 DEF Query!Idle
  <2>2. Query!RowsOf(<<>>) = {} /\ Len(<<>>) = 0
    BY DEF Query!RowsOf
  <2>. QED
    BY <2>1, <2>2 DEF CallOk, Given, QueryConstants
<1>6. ASSUME NEW q \in Queries PROVE Certain(q) /\ Within(q)
  BY <1>2 DEF Certain, Within, Query!NoAnswer
<1>7. CostOk
  <2>1. Debtors = {}
    BY <1>2 DEF Debtors, Unpaid, Query!Idle
  <2>2. Cardinality(Debtors) = 0
    BY <2>1, FS_EmptySet
  <2>3. PICK m \in Nat : m = Query!MostCalls
    BY <1>4, DebtorsAreCallers
  <2>4. PICK a \in Nat : a = Cardinality(Askers)
    BY <1>4, <2>3, DebtorsAreCallers
  <2>5. PICK total \in Nat : total = a * m
    OBVIOUS
  <2>6. 0 * m = 0 /\ (a + 0) * m = a * m
    OBVIOUS
  <2>. QED
    BY <1>2, <2>2, <2>3, <2>4, <2>5, <2>6 DEF CostOk, QueryConstants
<1>. QED
  BY <1>4, <1>5, <1>6, <1>7 DEF QueryInv

LEMMA QueryInvSuffices ==
    ASSUME QueryConstants, QueryInv
    PROVE  Query!TypeOK /\ Query!AnswersCoverTheChunks /\ Query!BudgetHolds
<1>1. Query!TypeOK
  BY TheCall DEF QueryInv, QueryTypes, Within, Query!TypeOK
<1>2. Query!AnswersCoverTheChunks
  BY DEF QueryInv, Certain, Within, Query!AnswersCoverTheChunks
<1>3. Query!BudgetHolds
  <2>1. PICK m \in Nat : m = Query!MostCalls
    BY DebtorsAreCallers DEF QueryInv
  <2>2. PICK all, owed \in Nat :
          all = (Cardinality(Askers) + faults) * m /\ owed = Cardinality(Debtors) * m
    <3>1. Cardinality(Askers) + faults \in Nat /\ Cardinality(Debtors) \in Nat
      BY DebtorsAreCallers DEF QueryInv, QueryTypes, QueryConstants
    <3>. QED
      BY <2>1, <3>1
  <2>3. spent + owed <= Budget - 1 + all /\ spent \in Nat /\ Budget \in Nat
    BY <2>1, <2>2 DEF QueryInv, QueryTypes, CostOk, QueryConstants
  <2>4. spent <= Budget - 1 + all
    BY <2>2, <2>3
  <2>. QED
    BY <2>1, <2>2, <2>4, QueryCardinality DEF Query!BudgetHolds
<1>. QED
  BY <1>1, <1>2, <1>3

\* A cached answer has looked at every chunk of the session's documents, up to the cut of
\* the prompt, unless its query overlapped an upload, lost a chunk or met a failing Redis;
\* and what a session uses passes its budget by no more than what one query may use, for
\* each of those that overlap and each failure: query_document in
\* app/document_intelligence.py.
THEOREM QueryAnswersCorrect ==
    ASSUME QueryConstants
    PROVE  Query!Spec => [](Query!TypeOK /\ Query!AnswersCoverTheChunks /\ Query!BudgetHolds)
<1>1. Query!Init => QueryInv
  BY QueryInit
<1>2. QueryInv /\ [Query!Next]_(Query!queryVars) => QueryInv'
  <2>. SUFFICES ASSUME QueryInv, [Query!Next]_(Query!queryVars) PROVE QueryInv'
    OBVIOUS
  <2>1. CASE UNCHANGED Query!queryVars
    <3>1. UNCHANGED <<docs, answer, keys, cost, call, upload, excused, faults, spent>>
      BY <2>1 DEF Query!queryVars
    <3>2. QueryTypes'
      BY <3>1 DEF QueryInv, QueryTypes
    <3>3. \A c \in Askers : CallOk(call[c])'
      BY <3>1 DEF QueryInv, CallOk, Covered, Query!RowsOf, Query!MostCalls
    <3>4. \A q \in Queries : Certain(q)' /\ Within(q)'
      BY <3>1 DEF QueryInv, Certain, Within, Query!Unread, Query!RowsOf
    <3>5. CostOk'
      BY <3>1, <3>2, CostHolds DEF Debtors, QueryInv, QueryTypes, QueryConstants
    <3>. QED
      BY <3>2, <3>3, <3>4, <3>5 DEF QueryInv
  <2>2. CASE Query!ReadKeys \/ Query!DeleteAnswers \/ Query!InvalidateFails
    BY <2>2, ReadKeysKeeps, DeleteAnswersKeeps
  <2>3. CASE \E n \in DocumentRows : Query!AppendDocument(n)
    BY <2>3, AppendDocumentKeeps
  <2>4. ASSUME NEW c \in Askers,
               \/ \E q \in Queries : Query!LookUp(c, q) \/ Query!LookUpFails(c, q)
               \/ Query!CheckBudget(c) \/ Query!BudgetUnknown(c)
               \/ Query!LoadDocuments(c) \/ Query!LoadFails(c)
               \/ \E path \in {"simple", "complex", "prose"} : Query!BuildQueryPlan(c, path)
        PROVE  QueryInv'
    BY <2>4, LookUpKeeps, CheckBudgetKeeps, LoadDocumentsKeeps, LoadFailsKeeps, BuildQueryPlanKeeps
  <2>5. ASSUME NEW c \in Askers, NEW chunk \in call[c].todo,
               \/ Query!ExtractTabularChunk(c, chunk) \/ Query!ExtractProseChunk(c, chunk)
               \/ Query!ChunkFails(c, chunk)
        PROVE  QueryInv'
    BY <2>5, ChunkKeeps
  <2>6. ASSUME NEW c \in Askers,
               \/ Query!MergeTabular(c) \/ Query!MergeProse(c) \/ Query!LogQueryCost(c)
               \/ Query!StoreAnswer(c) \/ Query!RegisterAnswer(c) \/ Query!StoreFails(c)
        PROVE  QueryInv'
    BY <2>6, MergeKeeps, LogQueryCostKeeps, StoreAnswerKeeps, RegisterAnswerKeeps, StoreFailsKeeps
  <2>. QED
    BY <2>1, <2>2, <2>3, <2>4, <2>5, <2>6, Zenon DEF Query!Next
<1>3. QueryInv => Query!TypeOK /\ Query!AnswersCoverTheChunks /\ Query!BudgetHolds
  BY QueryInvSuffices
<1>. QED
  BY <1>1, <1>2, <1>3, PTL DEF Query!Spec

\* A set of numbers that is not empty has a smallest.
LEMMA LeastOf ==
    ASSUME NEW U \in SUBSET Nat, U # {}
    PROVE  \E k \in U : \A n \in U : k <= n
<1>1. IsWellFoundedOn(OpToRel(<, Nat), Nat)
  BY NatLessThanWellFounded
<1>2. PICK k \in U : \A n \in U : ~ (<<n, k>> \in OpToRel(<, Nat))
  BY <1>1, WFMin
<1>3. \A n \in U : ~ (n < k)
  BY <1>2 DEF OpToRel
<1>. QED
  BY <1>3

\* Induction up to a number, over the set of those for which something is so.
LEMMA Reaches ==
    ASSUME NEW N \in Nat, NEW U, 0 \in U, \A n \in 1..N : n - 1 \in U => n \in U
    PROVE  \A n \in 0..N : n \in U
<1>. DEFINE V == {n \in 0..N : n \notin U}
<1>. SUFFICES ASSUME V # {} PROVE FALSE
  OBVIOUS
<1>1. PICK n \in V : \A m \in V : n <= m
  <2>1. V \in SUBSET Nat
    OBVIOUS
  <2>. HIDE DEF V
  <2>. QED
    BY <2>1, LeastOf
<1>2. n \in 1..N /\ n - 1 \in 0..N /\ n - 1 \notin V
  BY <1>1
<1>. QED
  BY <1>1, <1>2

-----------------------------------------------------------------------------
(* The answers of a batch of lookups *)

ResolverCardinality == \A S : Resolver!Cardinality(S) = Cardinality(S)

\* Cardinality is the same in the instance.
LEMMA ResolverCounts == ResolverCardinality
BY DEF ResolverCardinality, Resolver!Cardinality, Cardinality

\* What a mention does to the names before it.
Adds(acc, p) ==
    IF p.key = Blank \/ \E i \in DOMAIN acc : acc[i].key = p.key THEN acc ELSE Append(acc, p)

\* it[S] is the names of the mentions of s whose places are in S.
IsFold(it, s, n) ==
    it = [S \in SUBSET (1..n) |->
            IF S = {} THEN <<>> ELSE Adds(it[S \ {Resolver!Max(S)}], s[Resolver!Max(S)])]

\* Distinct is that fold.
LEMMA DistinctIsAFold ==
    ASSUME NEW s, DOMAIN s = 1..Len(s)
    PROVE  Resolver!Distinct(s) = (CHOOSE it : IsFold(it, s, Len(s)))[1..Len(s)]
BY DEF Resolver!Distinct, Resolver!FoldLeft, Resolver!MapThenFoldSet, Adds, IsFold

\* The greatest of a set of numbers up to n is n, if n is among them.
LEMMA GreatestOf ==
    ASSUME NEW n \in Nat, NEW S \in SUBSET (1..n), n \in S
    PROVE  Resolver!Max(S) = n
<1>1. \A y \in S : y \in Nat /\ n >= y
  OBVIOUS
<1>2. \A x \in S : (\A y \in S : x >= y) => x = n
  BY <1>1
<1>. QED
  BY <1>1, <1>2 DEF Resolver!Max

\* A mention added to names gives names.
LEMMA AddsNames ==
    ASSUME NEW acc \in Seq(Resolver!Mentions), NEW p \in Resolver!Mentions
    PROVE  Adds(acc, p) \in Seq(Resolver!Mentions)
BY DEF Adds

\* There is such a fold of any mentions.
LEMMA FoldExists ==
    ASSUME NEW s \in Seq(Resolver!Mentions)
    PROVE  \A n \in 0..Len(s) :
             \E it \in [SUBSET (1..n) -> Seq(Resolver!Mentions)] : IsFold(it, s, n)
<1>. DEFINE Listed == Seq(Resolver!Mentions)
            U == {n \in 0..Len(s) : \E it \in [SUBSET (1..n) -> Listed] : IsFold(it, s, n)}
<1>0. Len(s) \in Nat /\ 0 \in 0..Len(s)
  OBVIOUS
<1>1. 0 \in U
  <2>. DEFINE it == [S \in SUBSET (1..0) |-> <<>>]
  <2>1. \A S \in SUBSET (1..0) : S = {}
    OBVIOUS
  <2>2. it \in [SUBSET (1..0) -> Listed]
    OBVIOUS
  <2>3. IsFold(it, s, 0)
    BY <2>1 DEF IsFold
  <2>. HIDE DEF it
  <2>. QED
    BY <1>0, <2>2, <2>3
<1>2. ASSUME NEW n \in 1..Len(s), n - 1 \in U PROVE n \in U
  <2>1. PICK it \in [SUBSET (1..(n - 1)) -> Listed] : IsFold(it, s, n - 1)
    BY <1>2
  <2>. DEFINE new == [S \in SUBSET (1..n) |->
                        IF n \in S THEN Adds(it[S \ {n}], s[n]) ELSE it[S]]
  <2>2. \A S \in SUBSET (1..n) : /\ n \in S => S \ {n} \in SUBSET (1..(n - 1))
                                 /\ n \notin S => S \in SUBSET (1..(n - 1))
    OBVIOUS
  <2>3. s[n] \in Resolver!Mentions
    OBVIOUS
  <2>4. new \in [SUBSET (1..n) -> Listed]
    <3>. SUFFICES ASSUME NEW S \in SUBSET (1..n)
                  PROVE  (IF n \in S THEN Adds(it[S \ {n}], s[n]) ELSE it[S]) \in Listed
      OBVIOUS
    <3>1. CASE n \in S
      <4>1. it[S \ {n}] \in Listed
        BY <2>1, <2>2, <3>1
      <4>. QED
        BY <2>3, <3>1, <4>1, AddsNames
    <3>2. CASE n \notin S
      BY <2>1, <2>2, <3>2
    <3>. QED
      BY <3>1, <3>2
  <2>5. ASSUME NEW S \in SUBSET (1..n)
        PROVE  new[S] = IF S = {} THEN <<>>
                        ELSE Adds(new[S \ {Resolver!Max(S)}], s[Resolver!Max(S)])
    <3>1. CASE n \in S
      <4>1. Resolver!Max(S) = n
        BY <3>1, GreatestOf
      <4>2. S \ {n} \in SUBSET (1..n) /\ n \notin S \ {n}
        OBVIOUS
      <4>3. new[S \ {n}] = it[S \ {n}]
        BY <4>2
      <4>. QED
        BY <3>1, <4>1, <4>3
    <3>2. CASE n \notin S
      <4>1. S \in SUBSET (1..(n - 1)) /\ new[S] = it[S]
        BY <2>2, <3>2
      <4>2. it[S] = IF S = {} THEN <<>>
                    ELSE Adds(it[S \ {Resolver!Max(S)}], s[Resolver!Max(S)])
        BY <2>1, <4>1 DEF IsFold
      <4>3. S \ {Resolver!Max(S)} \in SUBSET (1..n) /\ n \notin S \ {Resolver!Max(S)}
        BY <3>2
      <4>4. new[S \ {Resolver!Max(S)}] = it[S \ {Resolver!Max(S)}]
        BY <4>3
      <4>. QED
        BY <4>1, <4>2, <4>4
    <3>. QED
      BY <3>1, <3>2
  <2>6. IsFold(new, s, n)
    <3>1. new = [S \in SUBSET (1..n) |-> new[S]]
      OBVIOUS
    <3>. HIDE DEF new
    <3>2. [S \in SUBSET (1..n) |-> new[S]] = [S \in SUBSET (1..n) |->
            IF S = {} THEN <<>> ELSE Adds(new[S \ {Resolver!Max(S)}], s[Resolver!Max(S)])]
      BY <2>5
    <3>. QED
      BY <3>1, <3>2 DEF IsFold
  <2>. HIDE DEF new
  <2>. QED
    BY <2>4, <2>6
<1>3. \A n \in 0..Len(s) : n \in U
  <2>. HIDE DEF U
  <2>. QED
    BY <1>0, <1>1, <1>2, Reaches
<1>. QED
  BY <1>3

\* The names of a list: mentions of it, one for each name that is not blank.
AreTheNames(d, s, n) ==
    /\ d \in Seq(Resolver!Mentions)
    /\ {d[i].key : i \in DOMAIN d} = {s[i].key : i \in 1..n} \ {Blank}
    /\ \A i, j \in DOMAIN d : i # j => d[i].key # d[j].key

\* One more mention.
LEMMA AddsAName ==
    ASSUME NEW s \in Seq(Resolver!Mentions), NEW n \in 1..Len(s), NEW d, AreTheNames(d, s, n - 1)
    PROVE  AreTheNames(Adds(d, s[n]), s, n)
<1>1. s[n] \in Resolver!Mentions /\ d \in Seq(Resolver!Mentions)
  BY DEF AreTheNames
<1>2. {s[i].key : i \in 1..n} = {s[i].key : i \in 1..(n - 1)} \cup {s[n].key}
  <2>1. 1..n = (1..(n - 1)) \cup {n}
    OBVIOUS
  <2>. QED
    BY <2>1
<1>3. CASE s[n].key = Blank \/ \E i \in DOMAIN d : d[i].key = s[n].key
  <2>1. Adds(d, s[n]) = d
    BY <1>3 DEF Adds
  <2>2. {s[i].key : i \in 1..n} \ {Blank} = {s[i].key : i \in 1..(n - 1)} \ {Blank}
    BY <1>2, <1>3 DEF AreTheNames
  <2>. QED
    BY <2>1, <2>2 DEF AreTheNames
<1>4. CASE s[n].key # Blank /\ \A i \in DOMAIN d : d[i].key # s[n].key
  <2>1. Adds(d, s[n]) = Append(d, s[n])
    BY <1>4 DEF Adds
  <2>2. /\ DOMAIN Append(d, s[n]) = DOMAIN d \cup {Len(d) + 1}
        /\ Len(d) + 1 \notin DOMAIN d
        /\ Append(d, s[n])[Len(d) + 1] = s[n]
        /\ \A i \in DOMAIN d : Append(d, s[n])[i] = d[i]
    BY <1>1
  <2>3. Append(d, s[n]) \in Seq(Resolver!Mentions)
    BY <1>1
  <2>. DEFINE e == Append(d, s[n])
  <2>7. Adds(d, s[n]) = e /\ e \in Seq(Resolver!Mentions)
    BY <2>1, <2>3
  <2>. HIDE DEF e
  <2>4. {e[i].key : i \in DOMAIN e} = {d[i].key : i \in DOMAIN d} \cup {s[n].key}
    BY <2>2 DEF e
  <2>5. \A i, j \in DOMAIN e : i # j => e[i].key # e[j].key
    BY <2>2, <1>4 DEF e, AreTheNames
  <2>6. {d[i].key : i \in DOMAIN d} \cup {s[n].key} = {s[i].key : i \in 1..n} \ {Blank}
    BY <1>2, <1>4 DEF AreTheNames
  <2>8. AreTheNames(e, s, n)
    BY <2>4, <2>5, <2>6, <2>7 DEF AreTheNames
  <2>. QED
    BY <2>7, <2>8
<1>. QED
  BY <1>3, <1>4

\* Distinct gives the names of its list.
LEMMA DistinctIsTheNames ==
    ASSUME NEW s \in Seq(Resolver!Mentions)
    PROVE  AreTheNames(Resolver!Distinct(s), s, Len(s))
<1>. DEFINE it == CHOOSE it : IsFold(it, s, Len(s))
<1>1. IsFold(it, s, Len(s))
  <2>1. Len(s) \in 0..Len(s)
    OBVIOUS
  <2>2. \E f : IsFold(f, s, Len(s))
    BY <2>1, FoldExists
  <2>. QED
    BY <2>2
<1>2. Resolver!Distinct(s) = it[1..Len(s)]
  BY DistinctIsAFold
<1>. HIDE DEF it
<1>. DEFINE U == {n \in 0..Len(s) : AreTheNames(it[1..n], s, n)}
<1>0. Len(s) \in Nat /\ 0 \in 0..Len(s)
  OBVIOUS
<1>3. \A S \in SUBSET (1..Len(s)) :
         it[S] = IF S = {} THEN <<>> ELSE Adds(it[S \ {Resolver!Max(S)}], s[Resolver!Max(S)])
  BY <1>1 DEF IsFold
<1>4. 0 \in U
  <2>1. 1..0 = {} /\ {} \in SUBSET (1..Len(s))
    OBVIOUS
  <2>2. it[1..0] = <<>>
    BY <1>3, <2>1
  <2>3. AreTheNames(<<>>, s, 0)
    <3>1. DOMAIN <<>> = {} /\ {s[i].key : i \in 1..0} = {}
      BY <2>1
    <3>. QED
      BY <3>1 DEF AreTheNames
  <2>. QED
    BY <1>0, <2>2, <2>3
<1>5. ASSUME NEW n \in 1..Len(s), n - 1 \in U PROVE n \in U
  <2>1. /\ 1..n \in SUBSET (1..Len(s)) /\ 1..n # {} /\ n \in 1..n
        /\ (1..n) \ {n} = 1..(n - 1)
    <3>1. n \in Nat /\ 1 <= n /\ n <= Len(s)
      BY <1>0
    <3>2. n \in 1..n /\ \A i \in 1..n : i \in 1..Len(s)
      BY <1>0, <3>1
    <3>3. \A i : i \in (1..n) \ {n} <=> i \in 1..(n - 1)
      BY <3>1
    <3>. QED
      BY <3>2, <3>3
  <2>2. Resolver!Max(1..n) = n
    BY <2>1, GreatestOf
  <2>3. it[1..n] = Adds(it[1..(n - 1)], s[n])
    BY <1>3, <2>1, <2>2
  <2>4. AreTheNames(it[1..(n - 1)], s, n - 1)
    BY <1>5
  <2>. QED
    BY <2>3, <2>4, AddsAName
<1>6. \A n \in 0..Len(s) : n \in U
  <2>. HIDE DEF U
  <2>. QED
    BY <1>0, <1>4, <1>5, Reaches
<1>. QED
  BY <1>2, <1>6

-----------------------------------------------------------------------------
(* A batch of lookups *)

CallPlaces == {"waiting", "searching", "judging", "done", "cancelled"}

\* The answers are those of the calls, in the order of the names.
Answered ==
    /\ DOMAIN output = DOMAIN entries
    /\ \A i \in DOMAIN entries : /\ output[i].mention = entries[i]
                                 /\ call[i].at = "done" => output[i].result = call[i].result

\* A call is a record that says where it is and what came of it.
CallIsARecord(c) == {"at", "result"} \subseteq DOMAIN c /\ c.at \in CallPlaces

ResolverInv ==
    /\ chunks \in Seq(Seq(Resolver!Mentions))
    /\ heard \in [DOMAIN chunks -> {"asked", "heard", "failed"}]
    /\ stage \in {"extracting", "resolving", "returned", "raised"}
    /\ people \in Seq(Resolver!Mentions) /\ entries \in Seq(Resolver!Mentions)
    /\ AreTheNames(entries, people, Len(people))
    /\ call = [i \in DOMAIN entries |-> call[i]]
    /\ \A i \in DOMAIN entries : CallIsARecord(call[i])
    /\ Cardinality(Resolver!Running) <= Concurrency
    /\ stage = "extracting" => Len(chunks) = 2 /\ entries = <<>>
    /\ stage = "returned" => Answered
    /\ stage # "returned" => output = <<>>

\* The invariant has the types.
LEMMA ResolverTypes == ResolverInv => Resolver!TypeOK
<1>. SUFFICES ASSUME ResolverInv PROVE Resolver!TypeOK
  OBVIOUS
<1>1. DOMAIN call = DOMAIN entries
  BY DEF ResolverInv
<1>2. DOMAIN output \subseteq DOMAIN entries
  BY DEF ResolverInv, Answered
<1>. QED
  BY <1>1, <1>2 DEF ResolverInv, Resolver!TypeOK, CallIsARecord, CallPlaces

\* What is handed out is what the calls came to.
LEMMA NamesAreAnswered == ResolverInv => Resolver!EveryNameIsAnswered
<1>. SUFFICES ASSUME ResolverInv, stage = "returned" PROVE Resolver!EveryNameIsAnswered
  BY DEF Resolver!EveryNameIsAnswered
<1>1. Answered /\ AreTheNames(entries, people, Len(people))
  BY DEF ResolverInv
<1>2. DOMAIN people = 1..Len(people)
  BY DEF ResolverInv
<1>3. {output[i].mention.key : i \in DOMAIN output} = {entries[i].key : i \in DOMAIN entries}
  BY <1>1 DEF Answered
<1>4. {people[i].key : i \in DOMAIN people} = {people[i].key : i \in 1..Len(people)}
  BY <1>2
<1>5. {people[i].key : i \in DOMAIN people} \ {Blank}
         = {output[i].mention.key : i \in DOMAIN output}
  BY <1>1, <1>3, <1>4 DEF AreTheNames
<1>. QED
  BY <1>1, <1>5 DEF Answered, AreTheNames, Resolver!EveryNameIsAnswered

\* Calls move, the rest of the request stays: what a step of the calls has to keep.
LEMMA CallsMove ==
    ASSUME ResolverInv, stage = "resolving",
           UNCHANGED <<chunks, heard, people, stage, entries, output>>,
           call' = [i \in DOMAIN entries |-> call'[i]],
           \A i \in DOMAIN entries : CallIsARecord(call'[i]),
           Cardinality(Resolver!Running') <= Concurrency
    PROVE  ResolverInv'
BY DEF ResolverInv, Resolver!Running, Answered

\* The running calls are finitely many.
LEMMA RunningAreFew ==
    ASSUME ResolverInv
    PROVE  /\ DOMAIN call = DOMAIN entries /\ IsFiniteSet(DOMAIN entries)
           /\ IsFiniteSet(Resolver!Running)
<1>1. DOMAIN entries = 1..Len(entries) /\ Len(entries) \in Nat
  BY DEF ResolverInv
<1>2. IsFiniteSet(DOMAIN entries)
  BY <1>1, FS_Interval
<1>3. DOMAIN call = DOMAIN entries
  BY DEF ResolverInv
<1>4. Resolver!Running \subseteq DOMAIN entries
  BY <1>3 DEF Resolver!Running
<1>. QED
  BY <1>2, <1>3, <1>4, FS_Subset

\* A call that ends makes room.
LEMMA FewerRun ==
    ASSUME ResolverConstants, ResolverInv, Resolver!Running' \subseteq Resolver!Running
    PROVE  Cardinality(Resolver!Running') <= Concurrency
<1>1. /\ Cardinality(Resolver!Running') <= Cardinality(Resolver!Running)
      /\ Cardinality(Resolver!Running') \in Nat /\ Cardinality(Resolver!Running) \in Nat
  BY RunningAreFew, FS_Subset, FS_CardinalityType
<1>. QED
  BY <1>1 DEF ResolverConstants, ResolverInv

\* A lookup starts while there is room.
LEMMA StartsKeeps ==
    ASSUME ResolverConstants, ResolverInv, NEW i \in DOMAIN call, Resolver!Starts(i)
    PROVE  ResolverInv'
<1>1. /\ stage = "resolving" /\ Cardinality(Resolver!Running) < Concurrency
      /\ call' = [call EXCEPT ![i].at = "searching"]
      /\ UNCHANGED <<chunks, heard, people, stage, entries, output>>
  BY ResolverCounts DEF ResolverCardinality, Resolver!Starts, Resolver!HasRoom
<1>2. call' = [j \in DOMAIN entries |-> call'[j]] /\ DOMAIN call = DOMAIN entries
  BY <1>1 DEF ResolverInv
<1>3. \A j \in DOMAIN entries : /\ CallIsARecord(call'[j])
                                /\ j # i => call'[j] = call[j]
  BY <1>1, <1>2 DEF ResolverInv, CallIsARecord, CallPlaces
<1>4. Resolver!Running' \subseteq Resolver!Running \cup {i}
  BY <1>1, <1>2, <1>3 DEF Resolver!Running
<1>5. Cardinality(Resolver!Running') <= Concurrency
  <2>1. IsFiniteSet(Resolver!Running) /\ IsFiniteSet(Resolver!Running \cup {i})
    BY RunningAreFew, FS_AddElement
  <2>2. Cardinality(Resolver!Running \cup {i}) <= Cardinality(Resolver!Running) + 1
    BY <2>1, FS_AddElement, FS_CardinalityType
  <2>3. Cardinality(Resolver!Running') <= Cardinality(Resolver!Running \cup {i})
    BY <1>4, <2>1, FS_Subset
  <2>4. /\ Cardinality(Resolver!Running) \in Nat /\ Cardinality(Resolver!Running \cup {i}) \in Nat
        /\ Cardinality(Resolver!Running') \in Nat
    BY <1>4, <2>1, FS_Subset, FS_CardinalityType
  <2>. QED
    BY <1>1, <2>2, <2>3, <2>4 DEF ResolverConstants
<1>. QED
  BY <1>1, <1>2, <1>3, <1>5, CallsMove

\* A lookup ends with a result.
LEMMA EndsKeeps ==
    ASSUME ResolverConstants, ResolverInv, NEW i \in DOMAIN call, stage = "resolving",
           NEW result, Resolver!Ends(i, result)
    PROVE  ResolverInv'
<1>1. /\ call' = [call EXCEPT ![i].at = "done", ![i].result = result]
      /\ UNCHANGED <<chunks, heard, people, stage, entries, output>>
  BY DEF Resolver!Ends
<1>2. call' = [j \in DOMAIN entries |-> call'[j]] /\ DOMAIN call = DOMAIN entries
  BY <1>1 DEF ResolverInv
<1>3. /\ call'[i].at = "done"
      /\ \A j \in DOMAIN entries : /\ CallIsARecord(call'[j])
                                   /\ j # i => call'[j] = call[j]
  BY <1>1, <1>2 DEF ResolverInv, CallIsARecord, CallPlaces
<1>4. Resolver!Running' \subseteq Resolver!Running
  BY <1>1, <1>2, <1>3 DEF Resolver!Running
<1>. QED
  BY <1>1, <1>2, <1>3, <1>4, FewerRun, CallsMove

\* The searches end a lookup or leave the decision to the model.
LEMMA SearchKeeps ==
    ASSUME ResolverConstants, ResolverInv, NEW i \in DOMAIN call, Resolver!SearchEnds(i)
    PROVE  ResolverInv'
<1>1. stage = "resolving" /\ call[i].at = "searching"
  BY DEF Resolver!SearchEnds
<1>2. \/ \E result : Resolver!Ends(i, result)
      \/ \E found : /\ call' = [call EXCEPT ![i].at = "judging", ![i].found = found]
                    /\ UNCHANGED <<chunks, heard, people, stage, entries, output>>
  BY DEF Resolver!SearchEnds
<1>3. CASE \E result : Resolver!Ends(i, result)
  BY <1>1, <1>3, EndsKeeps
<1>4. ASSUME NEW found, call' = [call EXCEPT ![i].at = "judging", ![i].found = found],
             UNCHANGED <<chunks, heard, people, stage, entries, output>>
      PROVE  ResolverInv'
  <2>1. call' = [j \in DOMAIN entries |-> call'[j]] /\ DOMAIN call = DOMAIN entries
    BY <1>4 DEF ResolverInv
  <2>2. \A j \in DOMAIN entries : /\ CallIsARecord(call'[j])
                                  /\ j # i => call'[j] = call[j]
    BY <1>4, <2>1 DEF ResolverInv, CallIsARecord, CallPlaces
  <2>3. Resolver!Running' \subseteq Resolver!Running
    BY <1>1, <1>4, <2>1, <2>2 DEF Resolver!Running
  <2>. QED
    BY <1>1, <1>4, <2>1, <2>2, <2>3, FewerRun, CallsMove
<1>. QED
  BY <1>2, <1>3, <1>4

\* Two lists in a row are a list.
LEMMA FlattensTwo ==
    ASSUME NEW S, NEW l, l = [k \in 1..2 |-> l[k]], l[1] \in Seq(S), l[2] \in Seq(S)
    PROVE  Resolver!FlattenSeq(l) \in Seq(S)
<1>1. l \in Seq(Seq(S)) /\ Len(l) = 2
  <2>1. l \in [1..2 -> Seq(S)]
    OBVIOUS
  <2>. QED
    BY <2>1
<1>. DEFINE f == CHOOSE flatten : flatten = [i \in 1..Len(l) |->
                    IF i = 1 THEN l[i] ELSE flatten[i - 1] \o l[i]]
<1>2. Resolver!FlattenSeq(l) = f[Len(l)]
  BY <1>1 DEF Resolver!FlattenSeq
<1>3. f = [i \in 1..Len(l) |-> IF i = 1 THEN l[i] ELSE f[i - 1] \o l[i]]
  <2>. DEFINE g == [i \in 1..Len(l) |-> IF i = 1 THEN l[1] ELSE l[1] \o l[2]]
  <2>1. \A i \in 1..Len(l) : g[i] = IF i = 1 THEN l[i] ELSE g[i - 1] \o l[i]
    <3>1. \A i \in 1..Len(l) : i = 1 \/ i = 2
      BY <1>1
    <3>2. g[1] = l[1] /\ g[2] = g[1] \o l[2]
      BY <1>1
    <3>. HIDE DEF g
    <3>3. ASSUME NEW i \in 1..Len(l), i = 2 PROVE i # 1 /\ i - 1 = 1
      BY <3>3
    <3>. QED
      BY <3>1, <3>2, <3>3
  <2>2. g = [i \in 1..Len(l) |-> g[i]]
    OBVIOUS
  <2>. HIDE DEF g
  <2>3. g = [i \in 1..Len(l) |-> IF i = 1 THEN l[i] ELSE g[i - 1] \o l[i]]
    BY <2>1, <2>2
  <2>. QED
    BY <2>3
<1>. HIDE DEF f
<1>4. f[1] = l[1] /\ f[2] = f[1] \o l[2]
  <2>1. 1 \in 1..Len(l) /\ 2 \in 1..Len(l) /\ 2 - 1 = 1 /\ 2 # 1
    BY <1>1
  <2>2. f[1] = IF 1 = 1 THEN l[1] ELSE f[1 - 1] \o l[1]
    BY <1>3, <2>1
  <2>3. f[2] = IF 2 = 1 THEN l[2] ELSE f[2 - 1] \o l[2]
    BY <1>3, <2>1
  <2>. QED
    BY <2>1, <2>2, <2>3
<1>5. f[Len(l)] = l[1] \o l[2]
  BY <1>1, <1>4
<1>6. \A a, b \in Seq(S) : a \o b \in Seq(S)
  OBVIOUS
<1>. QED
  BY <1>2, <1>5, <1>6

\* Calls that wait, and none that runs.
LEMMA WaitingIsWell ==
    /\ CallIsARecord(Resolver!Waiting)
    /\ Resolver!Waiting.at = "waiting"
BY DEF CallIsARecord, CallPlaces, Resolver!Waiting

\* The names of the chunks are merged.
LEMMA MergeNamesKeeps ==
    ASSUME ResolverConstants, ResolverInv, Resolver!MergeNames
    PROVE  ResolverInv'
<1>. DEFINE l == [k \in DOMAIN chunks |-> IF heard[k] = "heard" THEN chunks[k] ELSE <<>>]
            names == Resolver!Distinct(Resolver!FlattenSeq(l))
<1>1. /\ stage = "extracting" /\ people' = names /\ entries' = Resolver!Distinct(names)
      /\ call' = [i \in DOMAIN entries' |-> Resolver!Waiting]
      /\ stage' = IF names = <<>> THEN "returned" ELSE "resolving"
      /\ UNCHANGED <<chunks, heard, output>>
  BY DEF Resolver!MergeNames
<1>2. names \in Seq(Resolver!Mentions)
  <2>1. chunks \in Seq(Seq(Resolver!Mentions)) /\ Len(chunks) = 2
    BY <1>1 DEF ResolverInv
  <2>2. DOMAIN chunks = 1..2
    BY <2>1
  <2>3. l = [k \in 1..2 |-> l[k]] /\ l[1] \in Seq(Resolver!Mentions) /\ l[2] \in Seq(Resolver!Mentions)
    <3>1. chunks[1] \in Seq(Resolver!Mentions) /\ chunks[2] \in Seq(Resolver!Mentions)
      BY <2>1
    <3>2. <<>> \in Seq(Resolver!Mentions)
      OBVIOUS
    <3>3. 1 \in 1..2 /\ 2 \in 1..2
      OBVIOUS
    <3>. QED
      BY <2>2, <3>1, <3>2, <3>3
  <2>. HIDE DEF l
  <2>4. Resolver!FlattenSeq(l) \in Seq(Resolver!Mentions)
    BY <2>3, FlattensTwo
  <2>. QED
    BY <2>4, DistinctIsTheNames DEF AreTheNames
<1>. HIDE DEF names
<1>3. AreTheNames(entries', names, Len(names))
  BY <1>1, <1>2, DistinctIsTheNames
<1>4. entries' \in Seq(Resolver!Mentions)
  BY <1>3 DEF AreTheNames
<1>5. /\ call' = [i \in DOMAIN entries' |-> call'[i]]
      /\ \A i \in DOMAIN entries' : call'[i] = Resolver!Waiting
  BY <1>1
<1>6. Resolver!Running' = {}
  BY <1>5, WaitingIsWell DEF Resolver!Running
<1>7. Cardinality(Resolver!Running') <= Concurrency
  BY <1>6, FS_EmptySet DEF ResolverConstants
<1>8. output' = <<>>
  BY <1>1 DEF ResolverInv
<1>9. stage' = "returned" => Answered'
  <2>. SUFFICES ASSUME names = <<>> PROVE Answered'
    BY <1>1
  <2>1. {names[i].key : i \in 1..Len(names)} = {}
    OBVIOUS
  <2>2. {entries'[i].key : i \in DOMAIN entries'} = {}
    BY <1>3, <2>1 DEF AreTheNames
  <2>3. DOMAIN entries' = {}
    BY <2>2
  <2>4. DOMAIN output' = {}
    BY <1>8
  <2>. QED
    BY <2>3, <2>4 DEF Answered
<1>10. AreTheNames(entries', people', Len(people')) /\ people' \in Seq(Resolver!Mentions)
  BY <1>1, <1>2, <1>3
<1>11. stage' \in {"resolving", "returned"}
  BY <1>1
<1>12. /\ chunks' \in Seq(Seq(Resolver!Mentions))
       /\ heard' \in [DOMAIN chunks' -> {"asked", "heard", "failed"}]
  BY <1>1 DEF ResolverInv
<1>. QED
  BY <1>4, <1>5, <1>7, <1>8, <1>9, <1>10, <1>11, <1>12, WaitingIsWell DEF ResolverInv

\* All lookups have ended.
LEMMA ReturnKeeps ==
    ASSUME ResolverInv, Resolver!Return
    PROVE  ResolverInv'
<1>1. /\ output' = Resolver!Gathered(call) /\ stage' = "returned"
      /\ Resolver!Finished(call) = DOMAIN call
      /\ UNCHANGED <<chunks, heard, people, entries, call>>
  BY DEF Resolver!Return
<1>2. DOMAIN call = DOMAIN entries
  BY DEF ResolverInv
<1>3. Answered'
  BY <1>1, <1>2 DEF Answered, Resolver!Gathered, Resolver!Finished
<1>. QED
  BY <1>1, <1>3 DEF ResolverInv, Resolver!Running

\* The batch runs out of time.
LEMMA TimeoutKeeps ==
    ASSUME ResolverConstants, ResolverInv, Resolver!BatchTimesOut
    PROVE  ResolverInv'
<1>1. /\ call' = [i \in DOMAIN call |->
                    IF i \in Resolver!Finished(call) THEN call[i]
                    ELSE [call[i] EXCEPT !.at = "cancelled"]]
      /\ output' = Resolver!Gathered(call) /\ stage' = "returned"
      /\ UNCHANGED <<chunks, heard, people, entries>>
  BY DEF Resolver!BatchTimesOut
<1>2. DOMAIN call = DOMAIN entries
  BY DEF ResolverInv
<1>3. /\ call' = [i \in DOMAIN entries |-> call'[i]]
      /\ \A i \in DOMAIN entries :
           /\ CallIsARecord(call'[i])
           /\ \/ call[i].at = "done" /\ call'[i] = call[i]
              \/ call[i].at # "done" /\ call'[i].at = "cancelled"
  BY <1>1, <1>2 DEF ResolverInv, CallIsARecord, CallPlaces, Resolver!Finished
<1>4. Resolver!Running' = {}
  BY <1>2, <1>3 DEF Resolver!Running
<1>5. Cardinality(Resolver!Running') <= Concurrency
  BY <1>4, FS_EmptySet DEF ResolverConstants
<1>6. Answered'
  BY <1>1, <1>2, <1>3 DEF Answered, Resolver!Gathered, Resolver!Finished
<1>. QED
  BY <1>1, <1>3, <1>5, <1>6 DEF ResolverInv

\* A chunk is read.
LEMMA HearKeeps ==
    ASSUME ResolverInv, NEW k \in DOMAIN chunks, Resolver!HearChunk(k)
    PROVE  ResolverInv'
BY DEF ResolverInv, Resolver!HearChunk, Resolver!Running, Answered

\* There is no name.
LEMMA NothingKeeps ==
    ASSUME ResolverInv, Resolver!NothingToWait
    PROVE  ResolverInv'
BY DEF ResolverInv, Resolver!NothingToWait, Resolver!Running, Answered

\* A request is as it should be when it arrives.
LEMMA ResolverInit ==
    ASSUME ResolverConstants, Resolver!Init
    PROVE  ResolverInv
<1>0. PICK n \in 1..MaxMentions : \E s \in [1..n -> Resolver!Mentions] :
        Resolver!FromList(s) \/ \E cut \in 0..n : Resolver!FromDocument(s, cut)
  BY DEF Resolver!Init
<1>1. PICK s \in [1..n -> Resolver!Mentions] :
        Resolver!FromList(s) \/ \E cut \in 0..n : Resolver!FromDocument(s, cut)
  BY <1>0
<1>2. s \in Seq(Resolver!Mentions) /\ Len(s) = n /\ n \in Nat
  BY DEF ResolverConstants
<1>3. /\ heard = [k \in DOMAIN chunks |-> "asked"]
      /\ call = [i \in DOMAIN entries |-> Resolver!Waiting]
      /\ output = <<>>
  BY DEF Resolver!Init
<1>4. /\ call = [i \in DOMAIN entries |-> call[i]]
      /\ \A i \in DOMAIN entries : call[i] = Resolver!Waiting
  BY <1>3
<1>5. Resolver!Running = {}
  BY <1>4, WaitingIsWell DEF Resolver!Running
<1>6. Cardinality(Resolver!Running) <= Concurrency
  BY <1>5, FS_EmptySet DEF ResolverConstants
<1>7. CASE Resolver!FromList(s)
  <2>1. chunks = <<>> /\ stage = "resolving" /\ people = s /\ entries = Resolver!Distinct(s)
    BY <1>7 DEF Resolver!FromList
  <2>2. AreTheNames(entries, people, Len(people))
    BY <1>2, <2>1, DistinctIsTheNames
  <2>4. entries \in Seq(Resolver!Mentions)
    BY <2>2 DEF AreTheNames
  <2>3. chunks \in Seq(Seq(Resolver!Mentions))
    BY <2>1
  <2>. QED
    BY <1>2, <1>3, <1>4, <1>6, <2>1, <2>2, <2>3, <2>4, WaitingIsWell DEF ResolverInv
<1>8. ASSUME NEW cut \in 0..n, Resolver!FromDocument(s, cut) PROVE ResolverInv
  <2>1. /\ chunks = Resolver!ChunksOf(s, cut) /\ stage = "extracting"
        /\ people = <<>> /\ entries = <<>>
    BY <1>8 DEF Resolver!FromDocument
  <2>2. /\ SubSeq(s, 1, cut) \in Seq(Resolver!Mentions)
        /\ SubSeq(s, cut + 1, Len(s)) \in Seq(Resolver!Mentions)
    BY <1>2
  <2>3. chunks \in Seq(Seq(Resolver!Mentions)) /\ Len(chunks) = 2
    BY <2>1, <2>2 DEF Resolver!ChunksOf
  <2>4. AreTheNames(entries, people, Len(people))
    <3>1. Len(people) = 0 /\ 1..0 = {} /\ DOMAIN entries = {}
      BY <2>1
    <3>2. {people[i].key : i \in 1..Len(people)} = {}
      BY <3>1
    <3>. QED
      BY <2>1, <3>1, <3>2 DEF AreTheNames
  <2>. QED
    BY <1>3, <1>4, <1>6, <2>1, <2>3, <2>4, WaitingIsWell DEF ResolverInv
<1>. QED
  BY <1>1, <1>7, <1>8

\* Every step keeps the invariant.
LEMMA ResolverStep ==
    ASSUME ResolverConstants, ResolverInv, [Resolver!Next]_Resolver!resolverVars
    PROVE  ResolverInv'
<1>1. CASE UNCHANGED Resolver!resolverVars
  BY <1>1 DEF Resolver!resolverVars, ResolverInv, Resolver!Running, Answered
<1>2. ASSUME NEW i \in DOMAIN call, Resolver!Judge(i) \/ Resolver!ModelFails(i) \/ Resolver!CallTimesOut(i)
      PROVE  ResolverInv'
  <2>1. stage = "resolving" /\ \E result : Resolver!Ends(i, result)
    BY <1>2 DEF Resolver!Judge, Resolver!ModelFails, Resolver!CallTimesOut
  <2>. QED
    BY <2>1, EndsKeeps
<1>. QED
  BY <1>1, <1>2, HearKeeps, MergeNamesKeeps, NothingKeeps, StartsKeeps, SearchKeeps, ReturnKeeps,
     TimeoutKeeps DEF Resolver!Next

\* A batch of lookups of any length: at most Concurrency names are looked up at a time, and
\* whatever fails or runs out of time, each distinct name of the input has one answer, what its
\* own task decided if it ended in time.
THEOREM EveryNameIsAnsweredCorrect ==
    ASSUME ResolverConstants
    PROVE  Resolver!Spec => [](/\ Resolver!TypeOK /\ Resolver!LookupsAreBounded
                               /\ Resolver!EveryNameIsAnswered)
<1>1. Resolver!Init => ResolverInv
  BY ResolverInit
<1>2. ResolverInv /\ [Resolver!Next]_Resolver!resolverVars => ResolverInv'
  BY ResolverStep
<1>3. ResolverInv => /\ Resolver!TypeOK /\ Resolver!LookupsAreBounded
                     /\ Resolver!EveryNameIsAnswered
  BY ResolverTypes, NamesAreAnswered, ResolverCounts
     DEF ResolverInv, Resolver!LookupsAreBounded, ResolverCardinality
<1>. QED
  BY <1>1, <1>2, <1>3, PTL DEF Resolver!Spec

-----------------------------------------------------------------------------
(* Sums, and lists in a row *)

OneOf(U) == CHOOSE x \in U : TRUE

\* it[U] is the sum of v over U, for each part U of T, one element taken at a time.
IsSum(it, v, T) ==
    it = [U \in SUBSET T |-> IF U = {} THEN 0 ELSE v[OneOf(U)] + it[U \ {OneOf(U)}]]

\* What one element leaves.
LEMMA OneLess ==
    ASSUME NEW T, IsFiniteSet(T), NEW U \in SUBSET T
    PROVE  /\ IsFiniteSet(U) /\ Cardinality(U) \in Nat /\ Cardinality(U) <= Cardinality(T)
           /\ Cardinality(U) = 0 <=> U = {}
           /\ U # {} => OneOf(U) \in U
           /\ \A x \in U : U \ {x} \in SUBSET T /\ Cardinality(U \ {x}) = Cardinality(U) - 1
<1>1. IsFiniteSet(U) /\ Cardinality(U) <= Cardinality(T)
  BY FS_Subset
<1>2. Cardinality(U) \in Nat /\ (Cardinality(U) = 0 <=> U = {})
  BY <1>1, FS_CardinalityType, FS_EmptySet
<1>3. U # {} => OneOf(U) \in U
  BY DEF OneOf
<1>4. \A x \in U : Cardinality(U \ {x}) = Cardinality(U) - 1
  BY <1>1, FS_RemoveElement
<1>. QED
  BY <1>1, <1>2, <1>3, <1>4

\* Any two such sums agree where their values do.
LEMMA SumsAgree ==
    ASSUME NEW T, IsFiniteSet(T), NEW S \in SUBSET T, NEW v, NEW w, NEW f, NEW g,
           IsSum(f, v, T), IsSum(g, w, S), \A x \in S : v[x] = w[x]
    PROVE  \A U \in SUBSET S : f[U] = g[U]
<1>. DEFINE N == Cardinality(T)
            A == {n \in 0..N : \A U \in SUBSET S : Cardinality(U) = n => f[U] = g[U]}
<1>1. N \in Nat
  BY FS_CardinalityType
<1>2. \A U \in SUBSET S : /\ U \in SUBSET T
                          /\ f[U] = IF U = {} THEN 0 ELSE v[OneOf(U)] + f[U \ {OneOf(U)}]
                          /\ g[U] = IF U = {} THEN 0 ELSE w[OneOf(U)] + g[U \ {OneOf(U)}]
  BY DEF IsSum
<1>3. 0 \in A
  BY <1>1, <1>2, OneLess
<1>4. ASSUME NEW n \in 1..N, n - 1 \in A PROVE n \in A
  <2>. SUFFICES ASSUME NEW U \in SUBSET S, Cardinality(U) = n PROVE f[U] = g[U]
    BY <1>1
  <2>1. U # {} /\ OneOf(U) \in U /\ U \ {OneOf(U)} \in SUBSET S
        /\ Cardinality(U \ {OneOf(U)}) = n - 1
    BY <1>1, OneLess
  <2>2. f[U \ {OneOf(U)}] = g[U \ {OneOf(U)}]
    BY <1>4, <2>1
  <2>. QED
    BY <1>2, <2>1, <2>2
<1>5. \A n \in 0..N : n \in A
  <2>. HIDE DEF A, N
  <2>. QED
    BY <1>1, <1>3, <1>4, Reaches
<1>6. \A U \in SUBSET S : Cardinality(U) \in 0..N
  BY <1>1, OneLess
<1>. QED
  BY <1>5, <1>6

\* There is a sum of numbers.
LEMMA SumExists ==
    ASSUME NEW T, IsFiniteSet(T), NEW v \in [T -> Nat]
    PROVE  \E it \in [SUBSET T -> Nat] : IsSum(it, v, T)
<1>. DEFINE N == Cardinality(T)
            A == {n \in 0..N : \E it \in [SUBSET T -> Nat] : \A U \in SUBSET T : Cardinality(U) <= n =>
                    it[U] = IF U = {} THEN 0 ELSE v[OneOf(U)] + it[U \ {OneOf(U)}]}
<1>1. N \in Nat
  BY FS_CardinalityType
<1>2. 0 \in A
  <2>. DEFINE it == [U \in SUBSET T |-> 0]
  <2>1. it \in [SUBSET T -> Nat]
    OBVIOUS
  <2>2. \A U \in SUBSET T : Cardinality(U) <= 0 =>
            it[U] = IF U = {} THEN 0 ELSE v[OneOf(U)] + it[U \ {OneOf(U)}]
    BY OneLess
  <2>3. 0 \in 0..N
    BY <1>1
  <2>. HIDE DEF it, N
  <2>. QED
    BY <2>1, <2>2, <2>3
<1>3. ASSUME NEW n \in 1..N, n - 1 \in A PROVE n \in A
  <2>1. PICK it \in [SUBSET T -> Nat] : \A U \in SUBSET T : Cardinality(U) <= n - 1 =>
                    it[U] = IF U = {} THEN 0 ELSE v[OneOf(U)] + it[U \ {OneOf(U)}]
    BY <1>3
  <2>. DEFINE new == [U \in SUBSET T |->
                        IF Cardinality(U) <= n - 1 THEN it[U] ELSE v[OneOf(U)] + it[U \ {OneOf(U)}]]
  <2>2. \A U \in SUBSET T : U # {} => v[OneOf(U)] \in Nat /\ it[U \ {OneOf(U)}] \in Nat
                                      /\ U \ {OneOf(U)} \in SUBSET T
    BY OneLess
  <2>3. \A U \in SUBSET T : Cardinality(U) \in Nat /\ (U = {} => Cardinality(U) = 0)
    BY OneLess
  <2>4. new \in [SUBSET T -> Nat]
    BY <1>1, <2>2, <2>3
  <2>5. ASSUME NEW U \in SUBSET T, Cardinality(U) <= n
        PROVE  new[U] = IF U = {} THEN 0 ELSE v[OneOf(U)] + new[U \ {OneOf(U)}]
    <3>1. CASE U = {}
      <4>1. Cardinality(U) <= n - 1
        BY <1>1, <2>3, <3>1
      <4>. QED
        BY <2>1, <3>1, <4>1
    <3>2. CASE U # {}
      <4>1. /\ U \ {OneOf(U)} \in SUBSET T
            /\ Cardinality(U \ {OneOf(U)}) = Cardinality(U) - 1
        BY <3>2, OneLess
      <4>2. Cardinality(U \ {OneOf(U)}) <= n - 1
        BY <1>1, <2>3, <2>5, <4>1
      <4>3. new[U \ {OneOf(U)}] = it[U \ {OneOf(U)}]
        BY <4>1, <4>2
      <4>4. new[U] = v[OneOf(U)] + it[U \ {OneOf(U)}]
        <5>1. CASE Cardinality(U) <= n - 1
          BY <2>1, <3>2, <5>1
        <5>2. CASE ~ (Cardinality(U) <= n - 1)
          BY <5>2
        <5>. QED
          BY <5>1, <5>2
      <4>. QED
        BY <3>2, <4>3, <4>4
    <3>. QED
      BY <3>1, <3>2
  <2>. HIDE DEF new
  <2>6. n \in 0..N
    BY <1>1
  <2>. QED
    BY <2>4, <2>5, <2>6
<1>4. \A n \in 0..N : n \in A
  <2>. HIDE DEF A, N
  <2>. QED
    BY <1>1, <1>2, <1>3, Reaches
<1>5. PICK it \in [SUBSET T -> Nat] : \A U \in SUBSET T : Cardinality(U) <= N =>
                    it[U] = IF U = {} THEN 0 ELSE v[OneOf(U)] + it[U \ {OneOf(U)}]
  <2>1. N \in A
    <3>. HIDE DEF A, N
    <3>. QED
      BY <1>1, <1>4
  <2>. QED
    BY <2>1
<1>6. \A U \in SUBSET T : it[U] = IF U = {} THEN 0 ELSE v[OneOf(U)] + it[U \ {OneOf(U)}]
  BY <1>5, OneLess
<1>7. it = [U \in SUBSET T |-> it[U]]
  OBVIOUS
<1>8. it = [U \in SUBSET T |-> IF U = {} THEN 0 ELSE v[OneOf(U)] + it[U \ {OneOf(U)}]]
  BY <1>6, <1>7
<1>. QED
  BY <1>8 DEF IsSum

\* f may be taken apart at any element.
TakesAnyFirst(f, v, T) == \A U \in SUBSET T : \A x \in U : f[U] = v[x] + f[U \ {x}]

\* A sum may be.
LEMMA SumTakesAnyFirst ==
    ASSUME NEW T, IsFiniteSet(T), NEW v \in [T -> Nat], NEW f \in [SUBSET T -> Nat], IsSum(f, v, T)
    PROVE  TakesAnyFirst(f, v, T)
<1>. DEFINE N == Cardinality(T)
            A == {n \in 0..N : \A U \in SUBSET T : Cardinality(U) = n =>
                                  \A x \in U : f[U] = v[x] + f[U \ {x}]}
<1>1. N \in Nat
  BY FS_CardinalityType
<1>2. \A U \in SUBSET T : f[U] = IF U = {} THEN 0 ELSE v[OneOf(U)] + f[U \ {OneOf(U)}]
  BY DEF IsSum
<1>3. 0 \in A
  BY <1>1, OneLess
<1>4. ASSUME NEW n \in 1..N, n - 1 \in A PROVE n \in A
  <2>. SUFFICES ASSUME NEW U \in SUBSET T, Cardinality(U) = n, NEW x \in U
                PROVE  f[U] = v[x] + f[U \ {x}]
    BY <1>1
  <2>. DEFINE c == OneOf(U)
  <2>1. c \in U /\ f[U] = v[c] + f[U \ {c}]
    BY <1>2, OneLess
  <2>. HIDE DEF c
  <2>2. CASE x = c
    BY <2>1, <2>2
  <2>3. CASE x # c
    <3>1. /\ U \ {c} \in SUBSET T /\ Cardinality(U \ {c}) = n - 1 /\ x \in U \ {c}
          /\ U \ {x} \in SUBSET T /\ Cardinality(U \ {x}) = n - 1 /\ c \in U \ {x}
      BY <2>1, <2>3, OneLess
    <3>2. f[U \ {c}] = v[x] + f[(U \ {c}) \ {x}] /\ f[U \ {x}] = v[c] + f[(U \ {x}) \ {c}]
      BY <1>4, <3>1
    <3>3. (U \ {c}) \ {x} = (U \ {x}) \ {c}
      OBVIOUS
    <3>4. v[x] \in Nat /\ v[c] \in Nat /\ f[(U \ {c}) \ {x}] \in Nat
      BY <2>1
    <3>. DEFINE p == v[x]
                q == v[c]
                s == f[(U \ {c}) \ {x}]
    <3>5. f[U] = q + (p + s) /\ f[U \ {x}] = q + s
      BY <2>1, <3>2, <3>3
    <3>6. p \in Nat /\ q \in Nat /\ s \in Nat
      BY <3>4
    <3>. HIDE DEF p, q, s
    <3>7. f[U] = p + f[U \ {x}]
      BY <3>5, <3>6
    <3>. QED
      BY <3>7 DEF p
  <2>. QED
    BY <2>2, <2>3
<1>5. \A n \in 0..N : n \in A
  <2>. HIDE DEF A, N
  <2>. QED
    BY <1>1, <1>3, <1>4, Reaches
<1>6. \A U \in SUBSET T : Cardinality(U) \in 0..N
  BY <1>1, OneLess
<1>. QED
  BY <1>5, <1>6 DEF TakesAnyFirst

\* f[i] is the first i lists of ls in a row.
IsInARow(f, ls, n) == f = [i \in 1..n |-> IF i = 1 THEN ls[i] ELSE f[i - 1] \o ls[i]]

\* Lists can be put in a row.
LEMMA InARowExists ==
    ASSUME NEW S, NEW ls \in Seq(Seq(S))
    PROVE  \A n \in 0..Len(ls) : \E f \in [1..n -> Seq(S)] : IsInARow(f, ls, n)
<1>. DEFINE A == {n \in 0..Len(ls) : \E f \in [1..n -> Seq(S)] : IsInARow(f, ls, n)}
<1>0. Len(ls) \in Nat /\ 0 \in 0..Len(ls)
  OBVIOUS
<1>1. 0 \in A
  <2>. DEFINE f == [i \in 1..0 |-> <<>>]
  <2>1. f \in [1..0 -> Seq(S)] /\ 1..0 = {}
    OBVIOUS
  <2>2. IsInARow(f, ls, 0)
    BY <2>1 DEF IsInARow
  <2>. HIDE DEF f
  <2>. QED
    BY <1>0, <2>1, <2>2
<1>2. ASSUME NEW n \in 1..Len(ls), n - 1 \in A PROVE n \in A
  <2>1. PICK f \in [1..(n - 1) -> Seq(S)] : IsInARow(f, ls, n - 1)
    BY <1>2
  <2>. DEFINE g == [i \in 1..n |-> IF i = n THEN (IF n = 1 THEN ls[n] ELSE f[n - 1] \o ls[n])
                                   ELSE f[i]]
  <2>2. ls[n] \in Seq(S) /\ n \in 0..Len(ls) /\ n \in Nat
    BY <1>0
  <2>3. n # 1 => n - 1 \in 1..(n - 1) /\ f[n - 1] \in Seq(S)
    BY <2>1, <2>2
  <2>4. \A a, b \in Seq(S) : a \o b \in Seq(S)
    OBVIOUS
  <2>5. (IF n = 1 THEN ls[n] ELSE f[n - 1] \o ls[n]) \in Seq(S)
    BY <2>2, <2>3, <2>4
  <2>6. \A i \in 1..n : i # n => i \in 1..(n - 1)
    BY <2>2
  <2>7. g \in [1..n -> Seq(S)]
    BY <2>1, <2>5, <2>6
  <2>8. ASSUME NEW i \in 1..n PROVE g[i] = IF i = 1 THEN ls[i] ELSE g[i - 1] \o ls[i]
    <3>1. i # 1 => i - 1 \in 1..n /\ i - 1 # n /\ g[i - 1] = f[i - 1]
      BY <2>2
    <3>2. CASE i = n
      BY <3>1, <3>2
    <3>3. CASE i # n
      <4>1. i \in 1..(n - 1) /\ g[i] = f[i]
        BY <2>6, <3>3
      <4>2. f[i] = IF i = 1 THEN ls[i] ELSE f[i - 1] \o ls[i]
        BY <2>1, <4>1 DEF IsInARow
      <4>. QED
        BY <3>1, <4>1, <4>2
    <3>. QED
      BY <3>2, <3>3
  <2>9. g = [i \in 1..n |-> g[i]]
    OBVIOUS
  <2>. HIDE DEF g
  <2>10. IsInARow(g, ls, n)
    BY <2>8, <2>9 DEF IsInARow
  <2>. QED
    BY <2>2, <2>7, <2>10
<1>3. \A n \in 0..Len(ls) : n \in A
  <2>. HIDE DEF A
  <2>. QED
    BY <1>0, <1>1, <1>2, Reaches
<1>. QED
  BY <1>3

\* The lists in a row are one list, whose beginning a further list does not change.
LEMMA InARowAgree ==
    ASSUME NEW S, NEW ls \in Seq(Seq(S)), NEW ms \in Seq(Seq(S)), Len(ls) <= Len(ms),
           \A i \in 1..Len(ls) : ls[i] = ms[i],
           NEW f, IsInARow(f, ls, Len(ls)), NEW g, IsInARow(g, ms, Len(ms))
    PROVE  \A i \in 1..Len(ls) : f[i] = g[i] /\ f[i] \in Seq(S)
<1>. DEFINE A == {n \in 0..Len(ls) : n # 0 => f[n] = g[n] /\ f[n] \in Seq(S)}
<1>0. Len(ls) \in Nat /\ Len(ms) \in Nat /\ 0 \in A
  OBVIOUS
<1>1. ASSUME NEW n \in 1..Len(ls), n - 1 \in A PROVE n \in A
  <2>1. n \in 1..Len(ms) /\ n \in 0..Len(ls) /\ ls[n] = ms[n] /\ ls[n] \in Seq(S)
    BY <1>0
  <2>2. f[n] = IF n = 1 THEN ls[n] ELSE f[n - 1] \o ls[n]
    BY DEF IsInARow
  <2>3. g[n] = IF n = 1 THEN ms[n] ELSE g[n - 1] \o ms[n]
    BY <2>1 DEF IsInARow
  <2>4. n # 1 => f[n - 1] = g[n - 1] /\ f[n - 1] \in Seq(S)
    BY <1>1
  <2>5. \A a, b \in Seq(S) : a \o b \in Seq(S)
    OBVIOUS
  <2>. QED
    BY <2>1, <2>2, <2>3, <2>4, <2>5
<1>2. \A n \in 0..Len(ls) : n \in A
  <2>. HIDE DEF A
  <2>. QED
    BY <1>0, <1>1, Reaches
<1>. QED
  BY <1>2

-----------------------------------------------------------------------------
(* The pages of a document in batches *)

BatchesCardinality == \A S : Batches!Cardinality(S) = Cardinality(S)

\* Cardinality is the same in the instance.
LEMMA BatchesCount == BatchesCardinality
BY DEF BatchesCardinality, Batches!Cardinality, Cardinality

\* The length of each page of a batch, by its place in the batch.
LengthsOf(ps, lengths) == [i \in DOMAIN ps |-> lengths[ps[i]]]

\* The pages of ps have n characters.
Weighs(ps, lengths, n) ==
    \E it \in [SUBSET DOMAIN ps -> Nat] :
        IsSum(it, LengthsOf(ps, lengths), DOMAIN ps) /\ it[DOMAIN ps] = n

\* Length is that number.
LEMMA LengthIsTheWeight ==
    ASSUME NEW ps \in Seq(DOMAIN pages), pages \in Seq(Nat)
    PROVE  /\ Batches!Length(ps) \in Nat /\ Weighs(ps, pages, Batches!Length(ps))
           /\ \A n \in Nat : Weighs(ps, pages, n) => Batches!Length(ps) = n
<1>. DEFINE D == DOMAIN ps
            v == LengthsOf(ps, pages)
            Sums(it) == it = [U \in SUBSET D |->
                                IF U = {} THEN 0 ELSE pages[ps[OneOf(U)]] + it[U \ {OneOf(U)}]]
            c == CHOOSE it : Sums(it)
<1>1. IsFiniteSet(D) /\ v \in [D -> Nat]
  <2>1. D = 1..Len(ps) /\ Len(ps) \in Nat
    OBVIOUS
  <2>2. \A i \in D : ps[i] \in DOMAIN pages /\ pages[ps[i]] \in Nat
    OBVIOUS
  <2>3. IsFiniteSet(D)
    BY <2>1, FS_Interval
  <2>4. v = [i \in D |-> pages[ps[i]]]
    BY DEF LengthsOf
  <2>. HIDE DEF D, v
  <2>. QED
    BY <2>2, <2>3, <2>4
<1>2. Batches!Length(ps) = c[D]
  BY DEF Batches!Length, Batches!MapThenSumSet, Batches!MapThenFoldSet, OneOf
<1>3. ASSUME NEW it PROVE Sums(it) <=> IsSum(it, v, D)
  <2>1. \A U \in SUBSET D : U # {} => v[OneOf(U)] = pages[ps[OneOf(U)]]
    BY DEF LengthsOf, OneOf
  <2>2. [U \in SUBSET D |-> IF U = {} THEN 0 ELSE pages[ps[OneOf(U)]] + it[U \ {OneOf(U)}]]
        = [U \in SUBSET D |-> IF U = {} THEN 0 ELSE v[OneOf(U)] + it[U \ {OneOf(U)}]]
    BY <2>1
  <2>. QED
    BY <2>2 DEF IsSum
<1>. HIDE DEF D, v
<1>4. PICK it \in [SUBSET D -> Nat] : IsSum(it, v, D)
  BY <1>1, SumExists
<1>5. Sums(c)
  <2>1. Sums(it)
    BY <1>3, <1>4
  <2>. HIDE DEF Sums
  <2>. QED
    BY <2>1
<1>6. IsSum(c, v, D)
  BY <1>3, <1>5
<1>. HIDE DEF c, Sums
<1>7. \A i \in D : v[i] = v[i]
  OBVIOUS
<1>8. ASSUME NEW g, IsSum(g, v, D) PROVE c[D] = g[D]
  BY <1>1, <1>6, <1>7, <1>8, SumsAgree
<1>9. c[D] = it[D] /\ it[D] \in Nat
  BY <1>4, <1>8
<1>. QED
  BY <1>2, <1>4, <1>8, <1>9 DEF Weighs, D, v

\* A page more weighs what it is long.
LEMMA PageAdds ==
    ASSUME NEW lengths \in Seq(Nat), NEW ps \in Seq(DOMAIN lengths), NEW page \in DOMAIN lengths,
           NEW n \in Nat, Weighs(ps, lengths, n)
    PROVE  Weighs(Append(ps, page), lengths, n + lengths[page])
<1>. DEFINE qs == Append(ps, page)
            D == DOMAIN ps
            E == DOMAIN qs
            place == Len(ps) + 1
            v == LengthsOf(ps, lengths)
            w == LengthsOf(qs, lengths)
<1>1. /\ D = 1..Len(ps) /\ E = 1..place /\ Len(ps) \in Nat /\ place \in Nat /\ place \in E
      /\ E \ {place} = D /\ qs[place] = page /\ \A i \in D : qs[i] = ps[i] /\ i \in E
  <2>1. D = 1..Len(ps) /\ Len(ps) \in Nat /\ place \in Nat
    OBVIOUS
  <2>2. qs \in Seq(DOMAIN lengths) /\ Len(qs) = place
    OBVIOUS
  <2>3. E = 1..place /\ qs[place] = page /\ \A i \in 1..Len(ps) : qs[i] = ps[i]
    BY <2>2
  <2>. HIDE DEF D, E, qs
  <2>. QED
    BY <2>1, <2>3
<1>2. \A i \in E : qs[i] \in DOMAIN lengths /\ lengths[qs[i]] \in Nat
  BY <1>1
<1>3. IsFiniteSet(D) /\ IsFiniteSet(E)
  BY <1>1, FS_Interval
<1>4. w \in [E -> Nat] /\ w[place] = lengths[page] /\ \A i \in D : v[i] = w[i]
  BY <1>1, <1>2 DEF LengthsOf
<1>5. PICK f \in [SUBSET D -> Nat] : IsSum(f, v, D) /\ f[D] = n
  BY DEF Weighs
<1>. HIDE DEF D, E, v, w, place
<1>6. PICK g \in [SUBSET E -> Nat] : IsSum(g, w, E)
  BY <1>3, <1>4, SumExists
<1>7. g[E] = w[place] + g[D]
  <2>1. \A U \in SUBSET E : \A x \in U : g[U] = w[x] + g[U \ {x}]
    <3>1. IsFiniteSet(E) /\ w \in [E -> Nat] /\ g \in [SUBSET E -> Nat] /\ IsSum(g, w, E)
      BY <1>3, <1>4, <1>6
    <3>2. TakesAnyFirst(g, w, E)
      BY <3>1, SumTakesAnyFirst
    <3>. QED
      BY <3>2 DEF TakesAnyFirst
  <2>2. E \in SUBSET E /\ place \in E /\ E \ {place} = D
    BY <1>1
  <2>3. g[E] = w[place] + g[E \ {place}]
    BY <2>1, <2>2
  <2>. QED
    BY <2>2, <2>3
<1>8. g[D] = f[D]
  <2>1. D \in SUBSET E /\ \A i \in D : w[i] = v[i]
    BY <1>1, <1>4
  <2>2. \A U \in SUBSET D : g[U] = f[U]
    BY <1>3, <1>5, <1>6, <2>1, SumsAgree
  <2>. QED
    BY <2>2
<1>9. g[E] = n + lengths[page]
  BY <1>2, <1>4, <1>5, <1>7, <1>8
<1>. QED
  BY <1>6, <1>9 DEF Weighs, E, w

\* Batches in a row are one list, which a batch more lengthens.
LEMMA RowGrows ==
    ASSUME NEW S, NEW ls \in Seq(Seq(S)), NEW l \in Seq(S)
    PROVE  /\ Batches!FlattenSeq(ls) \in Seq(S)
           /\ Batches!FlattenSeq(Append(ls, l)) = Batches!FlattenSeq(ls) \o l
<1>. DEFINE ms == Append(ls, l)
            n == Len(ls)
            Row(f, k) == f = [i \in 1..Len(k) |-> IF i = 1 THEN k[i] ELSE f[i - 1] \o k[i]]
            f == CHOOSE r : Row(r, ls)
            g == CHOOSE r : Row(r, ms)
<1>1. /\ n \in Nat /\ ms \in Seq(Seq(S)) /\ Len(ms) = n + 1 /\ ms[n + 1] = l
      /\ \A i \in 1..n : ms[i] = ls[i]
  OBVIOUS
<1>2. Batches!FlattenSeq(ls) = IF n = 0 THEN ls ELSE f[n]
  BY DEF Batches!FlattenSeq
<1>3. Batches!FlattenSeq(ms) = g[n + 1]
  <2>1. Len(ms) # 0
    BY <1>1
  <2>2. Batches!FlattenSeq(ms) = IF Len(ms) = 0 THEN ms ELSE g[Len(ms)]
    BY DEF Batches!FlattenSeq
  <2>. QED
    BY <1>1, <2>1, <2>2
<1>4. ASSUME NEW r, NEW k PROVE Row(r, k) <=> IsInARow(r, k, Len(k))
  BY DEF IsInARow
<1>. HIDE DEF Row, ms, n
<1>5. IsInARow(f, ls, Len(ls))
  <2>1. \E r : IsInARow(r, ls, Len(ls))
    <3>1. Len(ls) \in 0..Len(ls)
      BY <1>1 DEF n
    <3>. QED
      BY <3>1, InARowExists
  <2>. QED
    BY <1>4, <2>1
<1>6. IsInARow(g, ms, Len(ms))
  <2>1. \E r : IsInARow(r, ms, Len(ms))
    <3>1. Len(ms) \in 0..Len(ms)
      BY <1>1
    <3>. QED
      BY <1>1, <3>1, InARowExists
  <2>. QED
    BY <1>4, <2>1
<1>. HIDE DEF f, g
<1>7. \A i \in 1..n : f[i] = g[i] /\ f[i] \in Seq(S)
  <2>1. Len(ls) <= Len(ms) /\ \A i \in 1..Len(ls) : ls[i] = ms[i]
    BY <1>1 DEF n
  <2>2. \A i \in 1..Len(ls) : f[i] = g[i] /\ f[i] \in Seq(S)
    BY <1>1, <1>5, <1>6, <2>1, InARowAgree
  <2>. QED
    BY <2>2 DEF n
<1>8. g[n + 1] = IF n + 1 = 1 THEN l ELSE g[n] \o l
  <2>1. n + 1 \in 1..Len(ms) /\ n + 1 - 1 = n
    BY <1>1
  <2>. QED
    <3>1. g[n + 1] = IF n + 1 = 1 THEN ms[n + 1] ELSE g[n + 1 - 1] \o ms[n + 1]
      <4>1. g = [i \in 1..Len(ms) |-> IF i = 1 THEN ms[i] ELSE g[i - 1] \o ms[i]]
        BY <1>6 DEF IsInARow
      <4>0. PICK m : m = n + 1
        OBVIOUS
      <4>2. g[m] = IF m = 1 THEN ms[m] ELSE g[m - 1] \o ms[m]
        <5>. m \in 1..Len(ms)
          BY <2>1, <4>0
        <5>. QED
          BY <4>1
      <4>. QED
        BY <1>1, <4>0, <4>2
    <3>. QED
      BY <1>1, <2>1, <3>1
<1>9. CASE n = 0
  <2>1. ls = <<>> /\ ls \in Seq(S) /\ ls \o l = l
    BY <1>9 DEF n
  <2>. QED
    BY <1>2, <1>3, <1>8, <1>9, <2>1 DEF ms
<1>10. CASE n # 0
  <2>1. n \in 1..n /\ n + 1 # 1
    BY <1>1, <1>10
  <2>. QED
    BY <1>2, <1>3, <1>7, <1>8, <1>10, <2>1 DEF ms
<1>. QED
  BY <1>9, <1>10

-----------------------------------------------------------------------------
(* The batches of a document *)

\* Several pages are in one batch only up to the target.
FitsTarget(ps) == Len(ps) > 1 => \E n \in 0..Target : Weighs(ps, pages, n)

PagesInv ==
    /\ use \in {"extraction", "prose"}
    /\ pages \in Batches!SeqOf(Lengths \ {0}, MaxPages) /\ pages \in Seq(Nat)
    /\ taken \in 0..Len(pages)
    /\ parts \in Seq(DOMAIN pages) /\ FitsTarget(parts)
    /\ batches \in Seq(Seq(DOMAIN pages))
    /\ \A b \in DOMAIN batches : batches[b] # <<>> /\ FitsTarget(batches[b])
    /\ Batches!FlattenSeq(batches) \o parts = [i \in 1..taken |-> i]

BatchCallStates == {"waiting", "asked", "asleep", "answered", "failed"}
BatchCallIsWell(c) ==
    /\ c \in [at : BatchCallStates, tries : 0..(Retries + 1)]
    /\ c.at = "asleep" => c.tries <= Retries
    /\ c.at = "waiting" => c.tries <= Retries

Settled(b) == call[b].at = "failed" \/ (call[b].at = "answered" /\ Batches!Whole(b) \subseteq read)

CallsInv ==
    /\ call # <<>> => parts = <<>> /\ taken = Len(pages) /\ DOMAIN call = DOMAIN batches
    /\ call = <<>> \/ call = [b \in DOMAIN batches |-> call[b]]
    /\ \A b \in DOMAIN call : BatchCallIsWell(call[b])
    /\ Cardinality(Batches!Reading) <= Limit
    /\ read \subseteq DOMAIN pages /\ (call = <<>> => read = {})
    /\ read # {} => \A b \in DOMAIN call : Settled(b)

BatchInv == PagesInv /\ CallsInv

\* The invariant has the types.
LEMMA BatchTypes == BatchInv => Batches!TypeOK
<1>. SUFFICES ASSUME BatchInv PROVE Batches!TypeOK
  OBVIOUS
<1>1. ASSUME NEW b \in DOMAIN batches
      PROVE  batches[b] # <<>> /\ Batches!Range(batches[b]) \subseteq DOMAIN pages
  <2>1. batches[b] # <<>> /\ batches[b] \in Seq(DOMAIN pages)
    BY DEF BatchInv, PagesInv
  <2>. QED
    BY <2>1 DEF Batches!Range
<1>2. ASSUME NEW b \in DOMAIN call
      PROVE  call[b].at \in BatchCallStates /\ call[b].tries \in 0..(Retries + 1)
  <2>1. BatchCallIsWell(call[b])
    BY DEF BatchInv, CallsInv
  <2>. QED
    BY <2>1 DEF BatchCallIsWell
<1>. QED
  BY <1>1, <1>2 DEF BatchInv, PagesInv, CallsInv, BatchCallStates, Batches!TypeOK

\* What the model is not given of a batch of several pages.
LEMMA LittleIsUnread ==
    ASSUME BatchConstants, BatchInv, NEW b \in DOMAIN batches, Len(batches[b]) > 1
    PROVE  Batches!Unread(b) <= Separator * (Len(batches[b]) - 1)
<1>. DEFINE ps == batches[b]
            joined == Separator * (Len(ps) - 1)
<1>1. ps \in Seq(DOMAIN pages) /\ pages \in Seq(Nat) /\ FitsTarget(ps)
  BY DEF BatchInv, PagesInv
<1>2. Len(ps) \in Nat /\ Len(ps) - 1 \in Nat
  BY <1>1
<1>3. joined \in Nat
  BY <1>2 DEF BatchConstants
<1>4. PICK n \in 0..Target : Weighs(ps, pages, n)
  BY <1>1 DEF FitsTarget
<1>5. n \in Nat /\ n <= Target /\ Target \in Nat
  BY <1>4 DEF BatchConstants
<1>6. Batches!Length(ps) = n
  BY <1>1, <1>4, <1>5, LengthIsTheWeight
<1>7. Batches!TextLength(ps) = n + joined
  BY <1>6 DEF Batches!TextLength
<1>8. \/ Batches!Unread(b) = 0
      \/ Batches!Unread(b) = (n + joined) - Target
  BY <1>7 DEF Batches!Unread
<1>. HIDE DEF joined
<1>9. Batches!Unread(b) <= joined
  BY <1>3, <1>5, <1>8
<1>. QED
  BY <1>9 DEF joined

\* What the invariant says of the pages.
LEMMA PagesFollow ==
    ASSUME BatchConstants, BatchInv
    PROVE  Batches!PagesAreRead
<1>1. Batches!FlattenSeq(batches) \o parts = [i \in 1..taken |-> i]
  BY DEF BatchInv, PagesInv
<1>2. \A b \in DOMAIN batches :
          Len(batches[b]) > 1 => Batches!Unread(b) <= Separator * (Len(batches[b]) - 1)
  BY LittleIsUnread
<1>3. read # {} => \A b \in DOMAIN call : call[b].at = "failed" \/ Batches!Whole(b) \subseteq read
  BY DEF BatchInv, CallsInv, Settled
<1>. QED
  BY <1>1, <1>2, <1>3 DEF Batches!PagesAreRead

\* A page is taken into a batch.
LEMMA TakePageKeeps ==
    ASSUME BatchConstants, BatchInv, Batches!TakePage
    PROVE  BatchInv'
<1>. DEFINE page == taken + 1
<1>1. /\ taken < Len(pages) /\ taken' = page /\ UNCHANGED <<use, pages, call, read>>
      /\ \/ /\ batches' = Append(batches, parts) /\ parts' = <<page>> /\ parts # <<>>
         \/ /\ parts' = Append(parts, page) /\ batches' = batches
            /\ parts = <<>> \/ ~(Batches!Length(parts) + pages[page] > Target)
  BY DEF Batches!TakePage, Batches!BatchIsFull
<1>2. /\ pages \in Seq(Nat) /\ taken \in Nat /\ parts \in Seq(DOMAIN pages) /\ FitsTarget(parts)
      /\ batches \in Seq(Seq(DOMAIN pages))
      /\ \A b \in DOMAIN batches : batches[b] # <<>> /\ FitsTarget(batches[b])
      /\ Batches!FlattenSeq(batches) \o parts = [i \in 1..taken |-> i]
  BY DEF BatchInv, PagesInv
<1>3. page \in DOMAIN pages /\ page \in 0..Len(pages) /\ pages[page] \in Nat
  BY <1>1, <1>2
<1>4. call = <<>>
  BY <1>1, <1>2 DEF BatchInv, CallsInv
<1>5. Batches!FlattenSeq(batches) \in Seq(DOMAIN pages)
      /\ Batches!FlattenSeq(Append(batches, parts)) = Batches!FlattenSeq(batches) \o parts
  <2>. DEFINE S == DOMAIN pages
  <2>1. batches \in Seq(Seq(S)) /\ parts \in Seq(S)
    BY <1>2
  <2>. HIDE DEF S
  <2>2. Batches!FlattenSeq(batches) \in Seq(S)
        /\ Batches!FlattenSeq(Append(batches, parts)) = Batches!FlattenSeq(batches) \o parts
    BY <2>1, RowGrows
  <2>. QED
    BY <2>2 DEF S
<1>6. Append([i \in 1..taken |-> i], page) = [i \in 1..page |-> i]
  <2>1. [i \in 1..taken |-> i] \in Seq(Nat) /\ Len([i \in 1..taken |-> i]) = taken
    BY <1>2
  <2>. QED
    BY <1>2, <2>1
<1>7. /\ parts' \in Seq(DOMAIN pages) /\ batches' \in Seq(Seq(DOMAIN pages))
      /\ Batches!FlattenSeq(batches') \o parts' = [i \in 1..page |-> i]
      /\ FitsTarget(parts)'
      /\ \A b \in DOMAIN batches' : batches'[b] # <<>> /\ FitsTarget(batches[b])'
  <2>. DEFINE S == DOMAIN pages
              row == Batches!FlattenSeq(batches)
  <2>1. CASE batches' = Append(batches, parts) /\ parts' = <<page>> /\ parts # <<>>
    <3>1. parts' \in Seq(S) /\ batches' \in Seq(Seq(S)) /\ Len(parts') = 1
      BY <1>2, <1>3, <2>1
    <3>2. Batches!FlattenSeq(batches') \o parts' = [i \in 1..page |-> i]
      <4>1. Batches!FlattenSeq(batches') = [i \in 1..taken |-> i]
        BY <1>2, <1>5, <2>1
      <4>2. [i \in 1..taken |-> i] \in Seq(Nat) /\ page \in Nat
        BY <1>2
      <4>3. \A s \in Seq(Nat) : s \o <<page>> = Append(s, page)
        BY <4>2
      <4>. QED
        BY <1>6, <2>1, <4>1, <4>2, <4>3
    <3>3. FitsTarget(parts)'
      BY <3>1 DEF FitsTarget
    <3>4. ASSUME NEW b \in DOMAIN batches' PROVE batches'[b] # <<>> /\ FitsTarget(batches[b])'
      <4>1. (b \in DOMAIN batches /\ batches'[b] = batches[b]) \/ batches'[b] = parts
        <5>. DEFINE T == Seq(S)
        <5>1. batches \in Seq(T) /\ parts \in T
          BY <1>2
        <5>. HIDE DEF T
        <5>2. b \in DOMAIN Append(batches, parts)
          BY <2>1
        <5>3. b \in 1..(Len(batches) + 1)
          BY <5>1, <5>2
        <5>. QED
          BY <2>1, <5>1, <5>3
      <4>. QED
        BY <1>1, <1>2, <2>1, <4>1 DEF FitsTarget
    <3>. QED
      BY <3>1, <3>2, <3>3, <3>4
  <2>2. CASE /\ parts' = Append(parts, page) /\ batches' = batches
             /\ parts = <<>> \/ ~(Batches!Length(parts) + pages[page] > Target)
    <3>1. parts' \in Seq(S) /\ batches' \in Seq(Seq(S)) /\ Len(parts') = Len(parts) + 1
          /\ Len(parts) \in Nat /\ (Len(parts) = 0 <=> parts = <<>>)
      BY <1>2, <1>3, <2>2
    <3>2. Batches!FlattenSeq(batches') \o parts' = [i \in 1..page |-> i]
      <4>1. \A s, t \in Seq(S) : s \o Append(t, page) = Append(s \o t, page)
        BY <1>3
      <4>2. row \o Append(parts, page) = Append(row \o parts, page)
        BY <1>2, <1>5, <4>1
      <4>. QED
        BY <1>2, <1>6, <2>2, <4>2
    <3>3. FitsTarget(parts)'
      <4>. SUFFICES ASSUME Len(parts') > 1 PROVE \E n \in 0..Target : Weighs(parts', pages, n)
        BY <1>1 DEF FitsTarget
      <4>. DEFINE n == Batches!Length(parts)
      <4>1. n \in Nat /\ Weighs(parts, pages, n)
        BY <1>2, LengthIsTheWeight
      <4>2. ~(n + pages[page] > Target)
        BY <2>2, <3>1
      <4>. HIDE DEF n
      <4>3. n + pages[page] \in 0..Target
        BY <1>3, <4>1, <4>2 DEF BatchConstants
      <4>4. Weighs(parts', pages, n + pages[page])
        BY <1>2, <1>3, <2>2, <4>1, PageAdds
      <4>. QED
        BY <4>3, <4>4
    <3>4. \A b \in DOMAIN batches' : batches'[b] # <<>> /\ FitsTarget(batches[b])'
      BY <1>1, <1>2, <2>2 DEF FitsTarget
    <3>. QED
      BY <3>1, <3>2, <3>3, <3>4
  <2>. QED
    BY <1>1, <2>1, <2>2
<1>8. PagesInv'
  BY <1>1, <1>3, <1>7 DEF BatchInv, PagesInv
<1>9. CallsInv'
  BY <1>1, <1>4 DEF BatchInv, CallsInv, Batches!Reading, Settled
<1>. QED
  BY <1>8, <1>9 DEF BatchInv

\* The last batch is closed, and the model is asked of each.
LEMMA LastBatchKeeps ==
    ASSUME BatchConstants, BatchInv, Batches!LastBatch
    PROVE  BatchInv'
<1>. DEFINE S == DOMAIN pages
            T == Seq(S)
<1>1. /\ taken = Len(pages) /\ parts # <<>> /\ batches' = Append(batches, parts) /\ parts' = <<>>
      /\ call' = [b \in 1..Len(batches') |-> [at |-> "waiting", tries |-> 0]]
      /\ UNCHANGED <<use, pages, taken, read>> /\ call = <<>>
  BY DEF Batches!LastBatch
<1>2. /\ parts \in T /\ FitsTarget(parts) /\ batches \in Seq(T)
      /\ \A b \in DOMAIN batches : batches[b] # <<>> /\ FitsTarget(batches[b])
      /\ Batches!FlattenSeq(batches) \o parts = [i \in 1..taken |-> i]
      /\ taken \in Nat /\ pages \in Seq(Nat)
  BY DEF BatchInv, PagesInv
<1>3. /\ Batches!FlattenSeq(batches) \in T
      /\ Batches!FlattenSeq(Append(batches, parts)) = Batches!FlattenSeq(batches) \o parts
  <2>. HIDE DEF S
  <2>. QED
    BY <1>2, RowGrows
<1>4. /\ parts' \in T /\ batches' \in Seq(T) /\ DOMAIN batches' = 1..(Len(batches) + 1)
      /\ Len(batches) \in Nat /\ Len(batches') = Len(batches) + 1
      /\ \A b \in DOMAIN batches' :
            (b \in DOMAIN batches /\ batches'[b] = batches[b]) \/ batches'[b] = parts
  <2>1. parts' \in T
    BY <1>1
  <2>2. Append(batches, parts) \in Seq(T) /\ Len(Append(batches, parts)) = Len(batches) + 1
    <3>. HIDE DEF T
    <3>. QED
      BY <1>2
  <2>3. DOMAIN Append(batches, parts) = 1..(Len(batches) + 1) /\ Len(batches) \in Nat
    <3>. HIDE DEF T
    <3>. QED
      BY <1>2
  <2>4. \A b \in 1..(Len(batches) + 1) :
          \/ b \in DOMAIN batches /\ Append(batches, parts)[b] = batches[b]
          \/ Append(batches, parts)[b] = parts
    <3>. HIDE DEF T
    <3>. QED
      BY <1>2
  <2>. QED
    BY <1>1, <2>1, <2>2, <2>3, <2>4
<1>5. Batches!FlattenSeq(batches') \o parts' = [i \in 1..taken |-> i]
  <2>1. Batches!FlattenSeq(batches') = [i \in 1..taken |-> i]
    BY <1>1, <1>2, <1>3
  <2>2. [i \in 1..taken |-> i] \in Seq(Nat)
    BY <1>2
  <2>3. \A s \in Seq(Nat) : s \o <<>> = s
    OBVIOUS
  <2>. QED
    BY <1>1, <2>1, <2>2, <2>3
<1>6. \A b \in DOMAIN batches' : batches'[b] # <<>> /\ FitsTarget(batches[b])'
  BY <1>1, <1>2, <1>4 DEF FitsTarget
<1>7. FitsTarget(parts)'
  BY <1>1 DEF FitsTarget
<1>8. PagesInv'
  BY <1>1, <1>2, <1>4, <1>5, <1>6, <1>7 DEF BatchInv, PagesInv
<1>9. CallsInv'
  <2>1. /\ call' = [b \in DOMAIN batches' |-> call'[b]] /\ DOMAIN call' = DOMAIN batches'
        /\ \A b \in DOMAIN call' : call'[b] = [at |-> "waiting", tries |-> 0]
    BY <1>1, <1>4
  <2>2. BatchCallIsWell([at |-> "waiting", tries |-> 0])
    BY DEF BatchCallIsWell, BatchCallStates, BatchConstants
  <2>3. Batches!Reading' = {}
    BY <2>1 DEF Batches!Reading
  <2>4. Cardinality(Batches!Reading') <= Limit
    BY <2>3, FS_EmptySet DEF BatchConstants
  <2>5. read' = {}
    BY <1>1 DEF BatchInv, CallsInv
  <2>6. \A b \in DOMAIN call' : BatchCallIsWell(call[b])'
    BY <2>1, <2>2 DEF BatchCallIsWell
  <2>. QED
    BY <1>1, <2>1, <2>4, <2>5, <2>6 DEF CallsInv
<1>. QED
  BY <1>8, <1>9 DEF BatchInv

\* A call goes on: what its step has to keep.
LEMMA CallMoves ==
    ASSUME BatchConstants, BatchInv, NEW b \in DOMAIN call, call[b].at \notin {"answered", "failed"},
           NEW c, call' = [call EXCEPT ![b] = c], BatchCallIsWell(c),
           UNCHANGED <<use, pages, taken, parts, batches, read>>,
           c.at = "asked" => Cardinality(Batches!Reading \cup {b}) <= Limit
    PROVE  BatchInv'
<1>1. PagesInv'
  BY DEF BatchInv, PagesInv, FitsTarget
<1>2. /\ call # <<>> /\ DOMAIN call = DOMAIN batches /\ batches \in Seq(Seq(DOMAIN pages))
      /\ \A i \in DOMAIN call : BatchCallIsWell(call[i])
      /\ Cardinality(Batches!Reading) <= Limit /\ call = [i \in DOMAIN batches |-> call[i]]
  <2>1. call # <<>>
    OBVIOUS
  <2>. QED
    BY <2>1 DEF BatchInv, PagesInv, CallsInv
<1>3. /\ DOMAIN call' = DOMAIN call /\ call'[b] = c /\ \A i \in DOMAIN call : i # b => call'[i] = call[i]
  BY <1>2
<1>4. IsFiniteSet(Batches!Reading) /\ IsFiniteSet(Batches!Reading \cup {b})
  <2>1. DOMAIN batches = 1..Len(batches) /\ Len(batches) \in Nat
    BY <1>2
  <2>2. IsFiniteSet(DOMAIN call)
    <3>1. IsFiniteSet(1..Len(batches))
      <4>1. \A n \in Nat : IsFiniteSet(1..n)
        BY FS_Interval
      <4>. QED
        BY <2>1, <4>1
    <3>. QED
      BY <1>2, <2>1, <3>1
  <2>3. Batches!Reading \subseteq DOMAIN call
    BY DEF Batches!Reading
  <2>. QED
    BY <2>2, <2>3, FS_Subset, FS_AddElement
<1>5. Cardinality(Batches!Reading') <= Limit
  <2>1. CASE c.at = "asked"
    <3>1. Batches!Reading' = Batches!Reading \cup {b}
      BY <1>3, <2>1 DEF Batches!Reading
    <3>. QED
      BY <2>1, <3>1
  <2>2. CASE c.at # "asked"
    <3>1. Batches!Reading' \subseteq Batches!Reading
      BY <1>3, <2>2 DEF Batches!Reading
    <3>2. /\ Cardinality(Batches!Reading') <= Cardinality(Batches!Reading)
          /\ Cardinality(Batches!Reading') \in Nat /\ Cardinality(Batches!Reading) \in Nat
      BY <1>4, <3>1, FS_Subset, FS_CardinalityType
    <3>. QED
      BY <1>2, <3>2 DEF BatchConstants
  <2>. QED
    BY <2>1, <2>2
<1>6. read' = {} /\ read' \subseteq DOMAIN pages'
  BY DEF BatchInv, CallsInv, Settled
<1>7. \A i \in DOMAIN call' : BatchCallIsWell(call[i])'
  BY <1>2, <1>3 DEF BatchCallIsWell
<1>8. call' = [i \in DOMAIN batches' |-> call'[i]] /\ DOMAIN call' = DOMAIN batches'
  BY <1>2, <1>3
<1>9. call # <<>> /\ parts' = <<>> /\ taken' = Len(pages')
  BY <1>2 DEF BatchInv, CallsInv
<1>10. CallsInv'
  BY <1>5, <1>6, <1>7, <1>8, <1>9 DEF CallsInv
<1>. QED
  BY <1>1, <1>10 DEF BatchInv

\* The model is asked while there is room.
LEMMA AskKeeps ==
    ASSUME BatchConstants, BatchInv, NEW b, Batches!AskModel(b)
    PROVE  BatchInv'
<1>. DEFINE c == [at |-> "asked", tries |-> call[b].tries + 1]
<1>1. /\ b \in DOMAIN call /\ call[b].at = "waiting" /\ Cardinality(Batches!Reading) < Limit
      /\ UNCHANGED <<use, pages, taken, parts, batches, read>>
  BY BatchesCount DEF BatchesCardinality, Batches!AskModel, Batches!AtCall
<1>2. call' = [call EXCEPT ![b] = c]
  BY DEF Batches!AskModel
<1>3. BatchCallIsWell(call[b])
  BY <1>1 DEF BatchInv, CallsInv
<1>4. BatchCallIsWell(c) /\ c.at = "asked"
  BY <1>1, <1>3 DEF BatchCallIsWell, BatchCallStates, BatchConstants
<1>5. Cardinality(Batches!Reading \cup {b}) <= Limit
  <2>1. DOMAIN call = DOMAIN batches /\ batches \in Seq(Seq(DOMAIN pages))
    BY <1>1 DEF BatchInv, PagesInv, CallsInv
  <2>2. DOMAIN batches = 1..Len(batches) /\ Len(batches) \in Nat
    BY <2>1
  <2>3. IsFiniteSet(DOMAIN call)
    BY <2>1, <2>2, FS_Interval
  <2>4. Batches!Reading \subseteq DOMAIN call /\ b \notin Batches!Reading
    BY <1>1 DEF Batches!Reading
  <2>5. IsFiniteSet(Batches!Reading)
    BY <2>3, <2>4, FS_Subset
  <2>6. /\ Cardinality(Batches!Reading \cup {b}) = Cardinality(Batches!Reading) + 1
        /\ Cardinality(Batches!Reading) \in Nat
    BY <2>4, <2>5, FS_AddElement, FS_CardinalityType
  <2>. QED
    BY <1>1, <2>6 DEF BatchConstants
<1>. HIDE DEF c
<1>. QED
  BY <1>1, <1>2, <1>4, <1>5, CallMoves

\* A call ends, or waits before it is repeated.
LEMMA CallEndsKeeps ==
    ASSUME BatchConstants, BatchInv, NEW b,
           Batches!Answers(b) \/ Batches!RateLimited(b) \/ Batches!Wakes(b) \/ Batches!BatchFails(b)
    PROVE  BatchInv'
<1>1. PICK at \in {"answered", "asleep", "failed", "waiting"} :
        /\ call' = [call EXCEPT ![b].at = at]
        /\ at = "asleep" => call[b].tries <= Retries
        /\ at = "waiting" => call[b].at = "asleep"
  BY DEF Batches!Answers, Batches!RateLimited, Batches!Wakes, Batches!BatchFails, Batches!Becomes,
         Batches!AtCall, Batches!RetriesBatch
<1>2. /\ b \in DOMAIN call /\ call[b].at \in {"asked", "asleep"}
      /\ UNCHANGED <<use, pages, taken, parts, batches, read>>
  BY DEF Batches!Answers, Batches!RateLimited, Batches!Wakes, Batches!BatchFails, Batches!AtCall
<1>. DEFINE c == [call[b] EXCEPT !.at = at]
<1>3. BatchCallIsWell(call[b])
  BY <1>2 DEF BatchInv, CallsInv
<1>4. call' = [call EXCEPT ![b] = c]
  BY <1>1
<1>5. BatchCallIsWell(c) /\ c.at = at
  BY <1>1, <1>3 DEF BatchCallIsWell, BatchCallStates
<1>. HIDE DEF c
<1>. QED
  BY <1>1, <1>2, <1>4, <1>5, CallMoves

\* The answers are merged.
LEMMA MergeResultsKeeps ==
    ASSUME BatchInv, Batches!MergeResults
    PROVE  BatchInv'
<1>1. /\ call # <<>> /\ \A b \in DOMAIN call : call[b].at \in {"answered", "failed"}
      /\ read' = UNION {Batches!Whole(b) : b \in {c \in DOMAIN call : call[c].at = "answered"}}
      /\ UNCHANGED <<use, pages, taken, parts, batches, call>>
  BY DEF Batches!MergeResults
<1>2. DOMAIN call = DOMAIN batches /\ batches \in Seq(Seq(DOMAIN pages))
  BY <1>1 DEF BatchInv, PagesInv, CallsInv
<1>3. \A b \in DOMAIN batches : Batches!Whole(b) \subseteq DOMAIN pages
  <2>. SUFFICES ASSUME NEW b \in DOMAIN batches PROVE Batches!Whole(b) \subseteq DOMAIN pages
    OBVIOUS
  <2>1. batches[b] \in Seq(DOMAIN pages)
    BY <1>2
  <2>. QED
    BY <2>1 DEF Batches!Whole, Batches!Range
<1>4. read' \subseteq DOMAIN pages
  <2>. SUFFICES ASSUME NEW p \in read' PROVE p \in DOMAIN pages
    OBVIOUS
  <2>1. PICK b \in {c \in DOMAIN call : call[c].at = "answered"} : p \in Batches!Whole(b)
    BY <1>1
  <2>. QED
    BY <1>2, <1>3, <2>1
<1>5. \A b \in DOMAIN call : Settled(b)'
  <2>. SUFFICES ASSUME NEW b \in DOMAIN call PROVE Settled(b)'
    OBVIOUS
  <2>0. CASE call[b].at = "failed"
    <3>1. call' = call
      BY <1>1
    <3>. QED
      BY <2>0, <3>1 DEF Settled
  <2>1. Batches!Whole(b)' = Batches!Whole(b)
    BY <1>1 DEF Batches!Whole
  <2>2. CASE call[b].at = "answered"
    <3>1. Batches!Whole(b) \subseteq read'
      BY <1>1, <2>2
    <3>. QED
      BY <1>1, <2>1, <2>2, <3>1 DEF Settled
  <2>. QED
    BY <1>1, <2>0, <2>2
<1>6. PagesInv'
  BY <1>1 DEF BatchInv, PagesInv, FitsTarget
<1>7. CallsInv'
  BY <1>1, <1>4, <1>5 DEF BatchInv, CallsInv, BatchCallIsWell, Batches!Reading
<1>. QED
  BY <1>6, <1>7 DEF BatchInv

\* A document as it arrives.
LEMMA BatchInit ==
    ASSUME BatchConstants, Batches!Init
    PROVE  BatchInv
<1>1. /\ use \in {"extraction", "prose"}
      /\ pages \in Batches!SeqOf({length \in Lengths : length > 0}, MaxPages)
      /\ taken = 0 /\ parts = <<>> /\ batches = <<>> /\ call = <<>> /\ read = {}
  BY DEF Batches!Init
<1>2. {length \in Lengths : length > 0} = Lengths \ {0}
  <2>1. \A length \in Lengths : length \in Nat /\ (length > 0 <=> length # 0)
    BY DEF BatchConstants
  <2>. QED
    BY <2>1
<1>3. pages \in Batches!SeqOf(Lengths \ {0}, MaxPages)
  BY <1>1, <1>2
<1>4. pages \in Seq(Nat)
  <2>1. PICK m \in 0..MaxPages : pages \in [1..m -> Lengths \ {0}]
    BY <1>3 DEF Batches!SeqOf
  <2>2. m \in Nat /\ Lengths \ {0} \subseteq Nat
    BY <2>1 DEF BatchConstants
  <2>3. pages \in [1..m -> Nat]
    BY <2>1, <2>2
  <2>. QED
    BY <2>2, <2>3
<1>5. Batches!FlattenSeq(batches) \o parts = [i \in 1..taken |-> i]
  <2>1. Batches!FlattenSeq(batches) = <<>>
    BY <1>1 DEF Batches!FlattenSeq
  <2>2. 1..taken = {}
    BY <1>1
  <2>. QED
    BY <1>1, <2>1, <2>2
<1>6. Batches!Reading = {}
  BY <1>1 DEF Batches!Reading
<1>7. Cardinality(Batches!Reading) <= Limit
  BY <1>6, FS_EmptySet DEF BatchConstants
<1>8. DOMAIN batches = {} /\ DOMAIN call = {}
  BY <1>1
<1>9. PagesInv
  BY <1>1, <1>3, <1>4, <1>5, <1>8 DEF PagesInv, FitsTarget
<1>10. CallsInv
  BY <1>1, <1>7, <1>8 DEF CallsInv
<1>. QED
  BY <1>9, <1>10 DEF BatchInv

\* Every step keeps the invariant.
LEMMA BatchStep ==
    ASSUME BatchConstants, BatchInv, [Batches!Next]_Batches!batchVars
    PROVE  BatchInv'
<1>1. CASE UNCHANGED Batches!batchVars
  BY <1>1 DEF Batches!batchVars, BatchInv, PagesInv, CallsInv, FitsTarget, BatchCallIsWell, Settled,
              Batches!Reading, Batches!Whole
<1>. QED
  BY <1>1, TakePageKeeps, LastBatchKeeps, AskKeeps, CallEndsKeeps, MergeResultsKeeps DEF Batches!Next

\* A document of any pages: every page is in one batch, in its place; of a batch of several pages
\* the model misses at most what joins them; what is merged holds every batch that was answered;
\* and no more calls run at a time than the limit.
THEOREM PagesAreReadCorrect ==
    ASSUME BatchConstants
    PROVE  Batches!Spec => [](/\ Batches!TypeOK /\ Batches!PagesAreRead
                              /\ Batches!BatchesAreBounded)
<1>1. Batches!Init => BatchInv
  BY BatchInit
<1>2. BatchInv /\ [Batches!Next]_Batches!batchVars => BatchInv'
  BY BatchStep
<1>3. BatchInv => Batches!TypeOK /\ Batches!PagesAreRead /\ Batches!BatchesAreBounded
  BY BatchTypes, PagesFollow, BatchesCount
     DEF BatchInv, CallsInv, Batches!BatchesAreBounded, BatchesCardinality
<1>. QED
  BY <1>1, <1>2, <1>3, PTL DEF Batches!Spec

-----------------------------------------------------------------------------
(* The history of a conversation *)

\* Cardinality is the same in the instance.
LEMMA TalkCounts == \A S : Talk!Cardinality(S) = Cardinality(S)
BY DEF Talk!Cardinality, Cardinality

\* The members of a set below one of them, with it.
UpToIn(i, is) == {j \in is : j < i}

\* A smaller member has fewer below it, and each fewer than there are.
LEMMA PlacesCount ==
    ASSUME NEW n \in Nat, NEW is \in SUBSET (1..n), NEW i \in is
    PROVE  /\ Cardinality(UpToIn(i, is)) \in 0..(Cardinality(is) - 1)
           /\ \A j \in is : j < i => Cardinality(UpToIn(j, is)) < Cardinality(UpToIn(i, is))
<1>1. IsFiniteSet(is) /\ i \in Nat /\ \A j \in is : j \in Nat
  <2>1. IsFiniteSet(1..n)
    BY FS_Interval
  <2>2. IsFiniteSet(is)
    BY <2>1, FS_Subset
  <2>. QED
    BY <2>2
<1>. DEFINE below == UpToIn(i, is)
<1>2. below \subseteq is /\ i \notin below
  BY <1>1 DEF UpToIn
<1>3. IsFiniteSet(below) /\ Cardinality(below) <= Cardinality(is) /\ below # is
  BY <1>1, <1>2, FS_Subset
<1>4. /\ Cardinality(below) \in Nat /\ Cardinality(is) \in Nat
      /\ Cardinality(below) # Cardinality(is)
  BY <1>1, <1>2, <1>3, FS_Subset, FS_CardinalityType
<1>5. ASSUME NEW j \in is, j < i PROVE Cardinality(UpToIn(j, is)) < Cardinality(below)
  <2>. DEFINE lower == UpToIn(j, is)
  <2>0. ~ (j < j) /\ \A x \in is : x < j => x < i
    BY <1>1, <1>5
  <2>1. lower \cup {j} \subseteq below /\ j \notin lower
    BY <1>5, <2>0 DEF UpToIn
  <2>2. IsFiniteSet(lower \cup {j}) /\ Cardinality(lower \cup {j}) <= Cardinality(below)
    BY <1>3, <2>1, FS_Subset
  <2>3. IsFiniteSet(lower)
    BY <1>3, <2>1, FS_Subset
  <2>4. Cardinality(lower \cup {j}) = Cardinality(lower) + 1 /\ Cardinality(lower) \in Nat
    BY <2>1, <2>3, FS_AddElement, FS_CardinalityType
  <2>. HIDE DEF below, lower
  <2>5. Cardinality(lower) < Cardinality(below)
    BY <1>4, <2>2, <2>4
  <2>. QED
    BY <2>5 DEF lower
<1>. HIDE DEF below
<1>6. Cardinality(below) \in 0..(Cardinality(is) - 1)
  BY <1>3, <1>4
<1>. QED
  BY <1>5, <1>6 DEF below

\* e gives the members of is in their order.
InOrder(e, n, is) ==
    /\ e \in [1..n -> is]
    /\ \A k, l \in 1..n : k < l => e[k] < e[l]
    /\ \A i \in is : \E k \in 1..n : e[k] = i

\* The messages e gives the places of.
At(ms, e, n) == [k \in 1..n |-> ms[e[k]]]

\* Only takes the messages at these places in their order.
LEMMA OnlyInOrder ==
    ASSUME NEW ms, NEW n \in Nat, NEW is \in SUBSET (1..n)
    PROVE  \E m \in Nat : \E e : InOrder(e, m, is) /\ Talk!Only(ms, is) = At(ms, e, m)
<1>. DEFINE m == Cardinality(is)
            r == [i \in is |-> Cardinality(UpToIn(i, is)) + 1]
            e == [k \in 1..m |-> CHOOSE i \in is : Cardinality(UpToIn(i, is)) = k - 1]
<1>1. IsFiniteSet(is) /\ m \in Nat /\ \A i \in is : i \in Nat
  <2>1. IsFiniteSet(1..n)
    BY FS_Interval
  <2>2. IsFiniteSet(is)
    BY <2>1, FS_Subset
  <2>3. m \in Nat
    BY <2>2, FS_CardinalityType
  <2>. QED
    BY <2>2, <2>3
<1>. HIDE DEF m
<1>0. /\ \A i \in is : Cardinality(UpToIn(i, is)) \in 0..(m - 1)
      /\ \A i, j \in is : j < i => Cardinality(UpToIn(j, is)) < Cardinality(UpToIn(i, is))
  BY PlacesCount DEF m
<1>2. \A i \in is : r[i] \in 1..m
  BY <1>1, <1>0
<1>3. \A i, j \in is : i < j => r[i] < r[j]
  <2>. SUFFICES ASSUME NEW i \in is, NEW j \in is, i < j PROVE r[i] < r[j]
    OBVIOUS
  <2>. DEFINE a == Cardinality(UpToIn(i, is))
              b == Cardinality(UpToIn(j, is))
  <2>1. a < b
    BY <1>0
  <2>2. a \in Nat /\ b \in Nat
    BY <1>1, <1>0
  <2>3. r[i] = a + 1 /\ r[j] = b + 1
    OBVIOUS
  <2>. HIDE DEF a, b, r
  <2>. QED
    BY <2>1, <2>2, <2>3
<1>. HIDE DEF r
<1>4. \A i, j \in is : r[i] = r[j] => i = j
  <2>. SUFFICES ASSUME NEW i \in is, NEW j \in is, i # j PROVE r[i] # r[j]
    OBVIOUS
  <2>1. i \in Nat /\ j \in Nat /\ r[i] \in Nat /\ r[j] \in Nat
    BY <1>1, <1>2
  <2>2. i < j \/ j < i
    BY <2>1
  <2>. QED
    BY <1>3, <2>1, <2>2
<1>5. \A k \in 1..m : \E i \in is : r[i] = k
  <2>1. r \in [is -> 1..m]
    BY <1>2 DEF r
  <2>2. r \in Injection(is, 1..m)
    BY <1>4, <2>1 DEF Injection, IsInjective
  <2>3. IsFiniteSet(1..m) /\ Cardinality(1..m) = m
    BY <1>1, FS_Interval
  <2>. HIDE DEF m
  <2>4. r \in Surjection(is, 1..m)
    BY <2>2, <2>3, FS_Injection DEF m
  <2>. QED
    BY <2>4 DEF Surjection
<1>6. \A k \in 1..m : e[k] \in is /\ r[e[k]] = k
  <2>. SUFFICES ASSUME NEW k \in 1..m PROVE e[k] \in is /\ r[e[k]] = k
    OBVIOUS
  <2>1. PICK i \in is : r[i] = k
    BY <1>5
  <2>2. Cardinality(UpToIn(i, is)) \in Nat
    BY <1>1, <1>0
  <2>3. Cardinality(UpToIn(i, is)) = k - 1
    BY <1>1, <2>1, <2>2 DEF r
  <2>4. e[k] \in is /\ Cardinality(UpToIn(e[k], is)) = k - 1
    BY <2>3
  <2>. HIDE DEF e
  <2>5. r[e[k]] = k
    BY <1>1, <2>4 DEF r
  <2>. QED
    BY <2>4, <2>5
<1>7. Talk!Only(ms, is) = At(ms, e, m)
  BY DEF At, Talk!Only, Talk!Place, UpToIn, Talk!Cardinality, Cardinality, m
<1>8. DOMAIN e = 1..m /\ e = [k \in 1..m |-> e[k]]
  OBVIOUS
<1>. HIDE DEF e
<1>9. ASSUME NEW k \in 1..m, NEW l \in 1..m, k < l PROVE e[k] < e[l]
  <2>0. e[k] \in is /\ e[l] \in is /\ k \in Nat /\ l \in Nat
    BY <1>1, <1>6
  <2>1. e[k] \in Nat /\ e[l] \in Nat /\ e[k] \in is /\ e[l] \in is /\ k \in Nat /\ l \in Nat
    BY <1>1, <2>0
  <2>2. e[k] # e[l] /\ ~ (e[l] < e[k])
    BY <1>3, <1>6, <1>9, <2>1
  <2>. QED
    BY <2>1, <2>2
<1>10. \A i \in is : \E k \in 1..m : e[k] = i
  BY <1>2, <1>4, <1>6
<1>11. InOrder(e, m, is)
  BY <1>6, <1>8, <1>9, <1>10 DEF InOrder
<1>. QED
  BY <1>1, <1>7, <1>11

\* Ids are pairs: the number of the message that calls, and of the call in it.
Ids == Nat \X Nat
TalkMessage == [role : {"system", "user", "assistant", "tool"}, size : Nat, calls : SUBSET Ids,
            id : Ids \cup {<<>>}]
IsMessage(m) ==
    /\ m \in TalkMessage /\ IsFiniteSet(m.calls)
    /\ m.calls # {} => m.role = "assistant"
    /\ m.role = "tool" <=> m.id # <<>>

\* Every result is right after its call, but for those in L; every call has its result; no
\* result is there twice.
FollowTheirCalls(ms, L) ==
    \A i \in 1..Len(ms) : ms[i].role = "tool" /\ ms[i].id \notin L =>
        \E b \in 1..(i - 1) : /\ ms[b].role # "tool" /\ ms[i].id \in ms[b].calls
                              /\ \A k \in (b + 1)..(i - 1) : ms[k].role = "tool"
HaveResults(ms) ==
    \A i \in 1..Len(ms) : \A c \in ms[i].calls :
        \E j \in (i + 1)..Len(ms) : /\ ms[j].id = c
                                    /\ \A k \in (i + 1)..j : ms[k].role = "tool"
AreApart(ms) ==
    \A i, j \in 1..Len(ms) : ms[i].role = "tool" /\ ms[i].id = ms[j].id => i = j
AreMessages(ms) == ms \in Seq(TalkMessage) /\ \A i \in 1..Len(ms) : IsMessage(ms[i])
Paired(ms) == AreMessages(ms) /\ HaveResults(ms) /\ AreApart(ms)

\* The results are of calls of the first r messages that called.
NotAfter(id, r) == id[1] <= r
UpToRound(ms, r) == \A i \in 1..Len(ms) : ms[i].role = "tool" => NotAfter(ms[i].id, r)

\* Of ms, the results in D are dropped with their calls, and all before a message that is no result.
Dropped(ms, D) == {ms[j].id : j \in D}
Thins(rest, ms, D, e, first) ==
    /\ rest \in Seq(TalkMessage) /\ first \in Nat
    /\ D \subseteq {i \in 1..Len(ms) : ms[i].role = "tool"}
    /\ e \in [1..Len(rest) -> (1..Len(ms)) \ D]
    /\ \A k, l \in 1..Len(rest) : k < l => e[k] < e[l]
    /\ \A k \in 1..Len(rest) : /\ rest[k].role = ms[e[k]].role /\ rest[k].id = ms[e[k]].id
                               /\ rest[k].size = ms[e[k]].size
                               /\ rest[k].calls = ms[e[k]].calls \ Dropped(ms, D)
    /\ \A k \in 1..Len(rest) : e[k] >= first
    /\ \A i \in (1..Len(ms)) \ D : i >= first => \E k \in 1..Len(rest) : e[k] = i
    /\ first <= 1 \/ first > Len(ms) \/ ms[first].role # "tool"

\* What is left is as well paired as what was there.
LEMMA ThinsKeeps ==
    ASSUME NEW ms, NEW rest, NEW D, NEW e, NEW first, NEW L,
           Paired(ms), FollowTheirCalls(ms, L), Thins(rest, ms, D, e, first)
    PROVE  /\ Paired(rest) /\ FollowTheirCalls(rest, L)
           /\ \A r \in Nat : UpToRound(ms, r) => UpToRound(rest, r)
<1>1. /\ ms \in Seq(TalkMessage) /\ rest \in Seq(TalkMessage)
      /\ Len(ms) \in Nat /\ Len(rest) \in Nat /\ first \in Nat
      /\ \A i \in 1..Len(ms) : ms[i] \in TalkMessage /\ IsMessage(ms[i])
      /\ \A k \in 1..Len(rest) : rest[k] \in TalkMessage
  BY DEF Paired, AreMessages, Thins
<1>2. \A k \in 1..Len(rest) :
        /\ e[k] \in 1..Len(ms) /\ e[k] \notin D /\ e[k] \in Nat /\ e[k] >= first
        /\ rest[k].role = ms[e[k]].role /\ rest[k].id = ms[e[k]].id
        /\ rest[k].size = ms[e[k]].size
        /\ rest[k].calls = ms[e[k]].calls \ Dropped(ms, D)
  BY <1>1 DEF Thins
<1>3. \A k, l \in 1..Len(rest) : k < l => e[k] < e[l]
  BY DEF Thins
<1>4. \A k, l \in 1..Len(rest) : (e[k] < e[l] => k < l) /\ (e[k] = e[l] => k = l)
  <2>. SUFFICES ASSUME NEW k \in 1..Len(rest), NEW l \in 1..Len(rest)
                PROVE  (e[k] < e[l] => k < l) /\ (e[k] = e[l] => k = l)
    OBVIOUS
  <2>1. k < l \/ l < k \/ k = l
    BY <1>1
  <2>2. e[k] \in Nat /\ e[l] \in Nat /\ k \in Nat /\ l \in Nat
    BY <1>1, <1>2
  <2>. QED
    BY <1>3, <2>1, <2>2
<1>5. AreMessages(rest)
  <2>1. ASSUME NEW k \in 1..Len(rest) PROVE IsMessage(rest[k])
    <3>1. IsMessage(ms[e[k]]) /\ rest[k] \in TalkMessage
      BY <1>1, <1>2
    <3>2. rest[k].calls \subseteq ms[e[k]].calls
      BY <1>2
    <3>3. IsFiniteSet(rest[k].calls)
      BY <3>1, <3>2, FS_Subset DEF IsMessage
    <3>4. /\ rest[k].calls # {} => rest[k].role = "assistant"
          /\ rest[k].role = "tool" <=> rest[k].id # <<>>
      BY <1>2, <3>1, <3>2 DEF IsMessage
    <3>. QED
      BY <3>1, <3>3, <3>4 DEF IsMessage
  <2>. QED
    BY <1>1, <2>1 DEF AreMessages
<1>6. HaveResults(rest)
  <2>. SUFFICES ASSUME NEW k \in 1..Len(rest), NEW c \in rest[k].calls
                PROVE  \E l \in (k + 1)..Len(rest) :
                          rest[l].id = c /\ \A x \in (k + 1)..l : rest[x].role = "tool"
    BY DEF HaveResults
  <2>1. e[k] \in 1..Len(ms) /\ c \in ms[e[k]].calls /\ c \notin Dropped(ms, D)
    BY <1>2
  <2>2. PICK j \in (e[k] + 1)..Len(ms) :
          ms[j].id = c /\ \A x \in (e[k] + 1)..j : ms[x].role = "tool"
    BY <2>1 DEF Paired, HaveResults
  <2>3. j \in 1..Len(ms) /\ j \in Nat /\ e[k] < j /\ j >= first
    BY <1>1, <1>2, <2>1
  <2>4. j \in (1..Len(ms)) \ D
    BY <2>1, <2>2, <2>3 DEF Dropped
  <2>5. PICK l \in 1..Len(rest) : e[l] = j
    BY <2>3, <2>4 DEF Thins
  <2>6. k < l /\ l \in (k + 1)..Len(rest)
    BY <1>1, <1>4, <2>3, <2>5
  <2>7. rest[l].id = c
    BY <1>2, <2>2, <2>5
  <2>8. ASSUME NEW x \in (k + 1)..l PROVE rest[x].role = "tool"
    <3>1. x \in 1..Len(rest) /\ k < x /\ (x < l \/ x = l)
      BY <1>1, <2>6
    <3>2. e[k] < e[x] /\ (e[x] < j \/ e[x] = j) /\ e[x] \in Nat /\ e[k] \in Nat
      BY <1>2, <1>3, <2>5, <3>1
    <3>3. e[x] \in (e[k] + 1)..j
      BY <2>3, <3>2
    <3>. QED
      BY <1>2, <2>2, <3>1, <3>3
  <2>. QED
    BY <2>6, <2>7, <2>8
<1>7. AreApart(rest)
  BY <1>2, <1>4 DEF Paired, AreApart
<1>8. FollowTheirCalls(rest, L)
  <2>. SUFFICES ASSUME NEW k \in 1..Len(rest), rest[k].role = "tool", rest[k].id \notin L
                PROVE  \E b \in 1..(k - 1) :
                          /\ rest[b].role # "tool" /\ rest[k].id \in rest[b].calls
                          /\ \A x \in (b + 1)..(k - 1) : rest[x].role = "tool"
    BY DEF FollowTheirCalls
  <2>. DEFINE i == e[k]
  <2>1. i \in 1..Len(ms) /\ i \in Nat /\ i \notin D /\ i >= first
        /\ ms[i].role = "tool" /\ ms[i].id \notin L /\ rest[k].id = ms[i].id
    BY <1>2
  <2>2. PICK b \in 1..(i - 1) : /\ ms[b].role # "tool" /\ ms[i].id \in ms[b].calls
                                /\ \A x \in (b + 1)..(i - 1) : ms[x].role = "tool"
    BY <2>1 DEF FollowTheirCalls
  <2>3. b \in 1..Len(ms) /\ b \in Nat /\ b < i
    BY <1>1, <2>1, <2>2
  <2>4. b \in (1..Len(ms)) \ D
    BY <2>2, <2>3 DEF Thins
  <2>5. b >= first
    <3>. SUFFICES ASSUME b < first PROVE FALSE
      BY <1>1, <2>3
    <3>1. first \in (b + 1)..i /\ first \in 1..Len(ms) /\ ~ (first <= 1) /\ ~ (first > Len(ms))
      BY <1>1, <2>1, <2>3
    <3>2. ms[first].role = "tool"
      <4>1. first = i \/ first \in (b + 1)..(i - 1)
        BY <1>1, <2>1, <2>3, <3>1
      <4>. QED
        BY <2>1, <2>2, <4>1
    <3>. QED
      BY <3>1, <3>2 DEF Thins
  <2>6. PICK l \in 1..Len(rest) : e[l] = b
    BY <2>4, <2>5 DEF Thins
  <2>7. l < k /\ l \in 1..(k - 1)
    BY <1>1, <1>4, <2>3, <2>6
  <2>8. ms[i].id \notin Dropped(ms, D)
    <3>. SUFFICES ASSUME NEW j \in D, ms[j].id = ms[i].id PROVE FALSE
      BY DEF Dropped
    <3>1. j \in 1..Len(ms) /\ ms[j].role = "tool"
      BY DEF Thins
    <3>2. j = i
      BY <2>1, <3>1 DEF Paired, AreApart
    <3>. QED
      BY <2>1, <3>2
  <2>9. rest[l].role # "tool" /\ rest[k].id \in rest[l].calls
    BY <1>2, <2>1, <2>2, <2>6, <2>8
  <2>10. ASSUME NEW x \in (l + 1)..(k - 1) PROVE rest[x].role = "tool"
    <3>1. x \in 1..Len(rest) /\ l < x /\ x < k
      BY <1>1, <2>7
    <3>2. e[l] < e[x] /\ e[x] < e[k] /\ e[x] \in Nat /\ e[l] \in Nat
      BY <1>2, <1>3, <3>1
    <3>3. e[x] \in (b + 1)..(i - 1)
      BY <2>1, <2>3, <2>6, <3>2
    <3>. QED
      BY <1>2, <2>2, <3>1, <3>3
  <2>. HIDE DEF i
  <2>. QED
    BY <2>7, <2>9, <2>10
<1>9. \A r \in Nat : UpToRound(ms, r) => UpToRound(rest, r)
  BY <1>2 DEF UpToRound
<1>. QED
  BY <1>5, <1>6, <1>7, <1>8, <1>9 DEF Paired

\* The tokens of each message.
Estimates(ms) == [i \in 1..Len(ms) |-> Talk!EstimateTokens(ms[i])]

\* f[U] is the tokens of the messages of ms in U.
IsTokens(f, ms) ==
    /\ f \in [SUBSET (1..Len(ms)) -> Nat] /\ f[{}] = 0
    /\ TakesAnyFirst(f, Estimates(ms), 1..Len(ms))
    /\ \A U \in SUBSET (1..Len(ms)) : Talk!TokensOf(ms, U) = f[U]

\* A message has a number of tokens, and fewer with fewer calls.
LEMMA EstimateIsANumber ==
    ASSUME NEW m, IsMessage(m)
    PROVE  /\ Talk!EstimateTokens(m) \in Nat
           /\ \A k : IsMessage(k) /\ k.size = m.size /\ k.calls \subseteq m.calls
                        => Talk!EstimateTokens(k) <= Talk!EstimateTokens(m)
<1>1. m.size \in Nat /\ IsFiniteSet(m.calls)
  BY DEF IsMessage, TalkMessage
<1>2. Talk!EstimateTokens(m) = m.size + Cardinality(m.calls) /\ Cardinality(m.calls) \in Nat
  BY <1>1, FS_CardinalityType, TalkCounts DEF Talk!EstimateTokens
<1>3. ASSUME NEW k, IsMessage(k), k.size = m.size, k.calls \subseteq m.calls
      PROVE  Talk!EstimateTokens(k) <= Talk!EstimateTokens(m)
  <2>1. IsFiniteSet(k.calls) /\ Cardinality(k.calls) <= Cardinality(m.calls)
    BY <1>1, <1>3, FS_Subset
  <2>2. Talk!EstimateTokens(k) = m.size + Cardinality(k.calls) /\ Cardinality(k.calls) \in Nat
    BY <1>3, <2>1, FS_CardinalityType, TalkCounts DEF Talk!EstimateTokens
  <2>. QED
    BY <1>1, <1>2, <2>1, <2>2
<1>. QED
  BY <1>1, <1>2, <1>3

\* The tokens of messages add up.
LEMMA TokensAddUp ==
    ASSUME NEW ms, AreMessages(ms)
    PROVE  \E f : IsTokens(f, ms)
<1>. DEFINE T == 1..Len(ms)
            v == Estimates(ms)
<1>1. IsFiniteSet(T) /\ \A i \in T : Talk!EstimateTokens(ms[i]) \in Nat
  <2>1. Len(ms) \in Nat
    BY DEF AreMessages
  <2>2. IsFiniteSet(T)
    BY <2>1, FS_Interval
  <2>. QED
    BY <2>2, EstimateIsANumber DEF AreMessages
<1>2. v \in [T -> Nat] /\ \A i \in T : v[i] = Talk!EstimateTokens(ms[i])
  BY <1>1 DEF Estimates
<1>. HIDE DEF T, v
<1>3. PICK f \in [SUBSET T -> Nat] : IsSum(f, v, T)
  BY <1>1, <1>2, SumExists
<1>4. TakesAnyFirst(f, v, T)
  BY <1>1, <1>2, <1>3, SumTakesAnyFirst
<1>5. f[{}] = 0
  BY <1>3 DEF IsSum
<1>6. ASSUME NEW U \in SUBSET T PROVE Talk!TokensOf(ms, U) = f[U]
  <2>. DEFINE Sums(it) == it = [S \in SUBSET U |->
                    IF S = {} THEN 0 ELSE Talk!EstimateTokens(ms[OneOf(S)]) + it[S \ {OneOf(S)}]]
              c == CHOOSE it : Sums(it)
  <2>1. Talk!TokensOf(ms, U) = c[U]
    BY DEF Talk!TokensOf, Talk!MapThenSumSet, Talk!MapThenFoldSet, OneOf
  <2>2. ASSUME NEW it PROVE Sums(it) <=> IsSum(it, v, U)
    <3>1. \A S \in SUBSET U : S # {} => v[OneOf(S)] = Talk!EstimateTokens(ms[OneOf(S)])
      <4>. SUFFICES ASSUME NEW S \in SUBSET U, S # {}
                    PROVE  v[OneOf(S)] = Talk!EstimateTokens(ms[OneOf(S)])
        OBVIOUS
      <4>1. OneOf(S) \in S
        BY DEF OneOf
      <4>. QED
        BY <1>2, <4>1
    <3>2. [S \in SUBSET U |-> IF S = {} THEN 0 ELSE
                    Talk!EstimateTokens(ms[OneOf(S)]) + it[S \ {OneOf(S)}]]
          = [S \in SUBSET U |-> IF S = {} THEN 0 ELSE v[OneOf(S)] + it[S \ {OneOf(S)}]]
      BY <3>1
    <3>. QED
      BY <3>2 DEF IsSum
  <2>3. \E it : Sums(it)
    <3>1. IsFiniteSet(U)
      BY <1>1, FS_Subset
    <3>. DEFINE w == [i \in U |-> v[i]]
    <3>2. w \in [U -> Nat]
      BY <1>2
    <3>3. \A i \in U : w[i] = v[i]
      OBVIOUS
    <3>. HIDE DEF w, Sums
    <3>4. PICK it \in [SUBSET U -> Nat] : IsSum(it, w, U)
      BY <3>1, <3>2, SumExists
    <3>5. IsSum(it, v, U)
      <4>1. \A S \in SUBSET U : S # {} => w[OneOf(S)] = v[OneOf(S)]
        <5>. SUFFICES ASSUME NEW S \in SUBSET U, S # {} PROVE w[OneOf(S)] = v[OneOf(S)]
          OBVIOUS
        <5>1. OneOf(S) \in S
          BY DEF OneOf
        <5>. QED
          BY <3>3, <5>1
      <4>2. [S \in SUBSET U |-> IF S = {} THEN 0 ELSE w[OneOf(S)] + it[S \ {OneOf(S)}]]
            = [S \in SUBSET U |-> IF S = {} THEN 0 ELSE v[OneOf(S)] + it[S \ {OneOf(S)}]]
        BY <4>1
      <4>. QED
        BY <3>4, <4>2 DEF IsSum
    <3>. QED
      BY <2>2, <3>5
  <2>. HIDE DEF Sums
  <2>4. Sums(c)
    BY <2>3
  <2>5. IsSum(c, v, U)
    BY <2>2, <2>4
  <2>. HIDE DEF c
  <2>6. \A i \in U : v[i] = v[i]
    OBVIOUS
  <2>7. \A S \in SUBSET U : f[S] = c[S]
    BY <1>1, <1>3, <2>5, <2>6, SumsAgree
  <2>. QED
    BY <2>1, <2>7
<1>. QED
  BY <1>3, <1>4, <1>5, <1>6 DEF IsTokens, T, v

\* The places e gives.
PlacesOf(e, n) == {e[k] : k \in 1..n}

\* Fewer tokens in each message, fewer in all.
LEMMA FewerTokens ==
    ASSUME NEW n \in Nat, NEW w \in [1..n -> Nat], NEW g \in [SUBSET (1..n) -> Nat], g[{}] = 0,
           TakesAnyFirst(g, w, 1..n),
           NEW T, NEW v \in [T -> Nat], NEW f \in [SUBSET T -> Nat], f[{}] = 0,
           TakesAnyFirst(f, v, T),
           NEW e \in [1..n -> T], \A k, l \in 1..n : k # l => e[k] # e[l],
           \A k \in 1..n : w[k] <= v[e[k]]
    PROVE  g[1..n] <= f[PlacesOf(e, n)]
<1>. DEFINE S(m) == PlacesOf(e, m)
            A == {m \in 0..n : g[1..m] <= f[S(m)]}
<1>1. 0 \in A
  <2>1. 1..0 = {} /\ 0 \in 0..n
    OBVIOUS
  <2>2. S(0) = {}
    BY <2>1 DEF PlacesOf
  <2>. HIDE DEF S
  <2>. QED
    BY <2>1, <2>2
<1>2. ASSUME NEW m \in 1..n, m - 1 \in A PROVE m \in A
  <2>1. /\ 1..m \in SUBSET (1..n) /\ m \in 1..m /\ (1..m) \ {m} = 1..(m - 1) /\ m \in 0..n
        /\ 1..(m - 1) \in SUBSET (1..n)
    OBVIOUS
  <2>2. S(m) \in SUBSET T /\ e[m] \in S(m) /\ S(m) \ {e[m]} = S(m - 1) /\ S(m - 1) \in SUBSET T
    <3>1. \A k \in 1..m : e[k] \in T /\ (k # m => e[k] # e[m])
      BY <2>1
    <3>2. \A k \in 1..(m - 1) : k \in 1..m /\ k # m
      OBVIOUS
    <3>. QED
      BY <2>1, <3>1, <3>2 DEF PlacesOf
  <2>. HIDE DEF S
  <2>3. g[1..m] = w[m] + g[(1..m) \ {m}]
    BY <2>1 DEF TakesAnyFirst
  <2>4. f[S(m)] = v[e[m]] + f[S(m) \ {e[m]}]
    BY <2>2 DEF TakesAnyFirst
  <2>5. g[1..(m - 1)] <= f[S(m - 1)]
    BY <1>2
  <2>6. /\ w[m] \in Nat /\ g[1..(m - 1)] \in Nat /\ v[e[m]] \in Nat /\ f[S(m - 1)] \in Nat
        /\ w[m] <= v[e[m]]
    BY <2>1, <2>2
  <2>. DEFINE a == w[m]
              b == g[1..(m - 1)]
              c == v[e[m]]
              d == f[S(m - 1)]
  <2>7. g[1..m] = a + b /\ f[S(m)] = c + d
    BY <2>1, <2>2, <2>3, <2>4
  <2>8. a \in Nat /\ b \in Nat /\ c \in Nat /\ d \in Nat /\ a <= c /\ b <= d
    BY <2>5, <2>6
  <2>. HIDE DEF a, b, c, d
  <2>9. g[1..m] <= f[S(m)]
    BY <2>7, <2>8
  <2>. QED
    BY <2>1, <2>9
<1>3. \A m \in 0..n : m \in A
  <2>. HIDE DEF A
  <2>. QED
    BY <1>1, <1>2, Reaches
<1>4. n \in A
  <2>. HIDE DEF A
  <2>. QED
    BY <1>3
<1>. QED
  BY <1>4

\* The tokens of all are those of the first a messages and of the others.
InTwo(g, a, n) == g[1..n] = g[1..a] + g[(a + 1)..n]
LEMMA TokensInTwo ==
    ASSUME NEW n \in Nat, NEW w \in [1..n -> Nat], NEW g \in [SUBSET (1..n) -> Nat], g[{}] = 0,
           TakesAnyFirst(g, w, 1..n), NEW a \in 0..n
    PROVE  InTwo(g, a, n)
<1>. DEFINE A == {m \in 0..(n - a) : g[1..(a + m)] = g[1..a] + g[(a + 1)..(a + m)]}
<1>1. 0 \in A
  <2>1. (a + 1)..(a + 0) = {} /\ a + 0 = a /\ 0 \in 0..(n - a) /\ 1..a \in SUBSET (1..n)
    OBVIOUS
  <2>2. g[1..a] \in Nat
    BY <2>1
  <2>. QED
    BY <2>1, <2>2
<1>2. ASSUME NEW m \in 1..(n - a), m - 1 \in A PROVE m \in A
  <2>. DEFINE p == a + m
  <2>1. /\ p \in 1..n /\ 1..p \in SUBSET (1..n) /\ p \in 1..p /\ (1..p) \ {p} = 1..(p - 1)
        /\ (a + 1)..p \in SUBSET (1..n) /\ p \in (a + 1)..p
        /\ ((a + 1)..p) \ {p} = (a + 1)..(p - 1) /\ a + (m - 1) = p - 1 /\ m \in 0..(n - a)
        /\ 1..a \in SUBSET (1..n) /\ (a + 1)..(p - 1) \in SUBSET (1..n)
    OBVIOUS
  <2>2. g[1..(p - 1)] = g[1..a] + g[(a + 1)..(p - 1)]
    BY <1>2, <2>1
  <2>. HIDE DEF p
  <2>3. g[1..p] = w[p] + g[(1..p) \ {p}] /\ g[(a + 1)..p] = w[p] + g[((a + 1)..p) \ {p}]
    BY <2>1 DEF TakesAnyFirst
  <2>. DEFINE x == w[p]
              y == g[1..a]
              z == g[(a + 1)..(p - 1)]
  <2>4. g[1..p] = x + (y + z) /\ g[(a + 1)..p] = x + z
    BY <2>1, <2>2, <2>3
  <2>5. x \in Nat /\ y \in Nat /\ z \in Nat
    BY <2>1
  <2>. HIDE DEF x, z
  <2>6. g[1..p] = y + g[(a + 1)..p]
    <3>. HIDE DEF y
    <3>. QED
      BY <2>4, <2>5
  <2>. QED
    BY <2>1, <2>6 DEF p
<1>3. \A m \in 0..(n - a) : m \in A
  <2>1. n - a \in Nat
    OBVIOUS
  <2>. HIDE DEF A
  <2>. QED
    BY <1>1, <1>2, <2>1, Reaches
<1>4. n - a \in 0..(n - a) /\ a + (n - a) = n
  OBVIOUS
<1>. QED
  BY <1>3, <1>4 DEF InTwo

\* Without the results to drop and their calls, the messages are thinner.
LEMMA RestThins ==
    ASSUME NEW ms, Paired(ms)
    PROVE  \E e : Thins(Talk!WithoutResults(ms), ms, Talk!ResultsToDrop(ms), e, 1)
<1>. DEFINE D == Talk!ResultsToDrop(ms)
            less == [i \in DOMAIN ms |-> Talk!DropsTheCall(ms, i)]
            is == DOMAIN ms \ D
            rest == Talk!WithoutResults(ms)
<1>1. ms \in Seq(TalkMessage) /\ Len(ms) \in Nat /\ DOMAIN ms = 1..Len(ms)
  BY DEF Paired, AreMessages
<1>2. D \subseteq {i \in 1..Len(ms) : ms[i].role = "tool"}
  BY <1>1 DEF Talk!ResultsToDrop, Talk!Results
<1>3. \A i \in 1..Len(ms) : /\ less[i].role = ms[i].role /\ less[i].id = ms[i].id
                            /\ less[i].size = ms[i].size
                            /\ less[i].calls = ms[i].calls \ Dropped(ms, D)
                            /\ less[i] \in TalkMessage
  <2>. SUFFICES ASSUME NEW i \in 1..Len(ms)
                PROVE  /\ less[i].role = ms[i].role /\ less[i].id = ms[i].id
                       /\ less[i].size = ms[i].size
                       /\ less[i].calls = ms[i].calls \ Dropped(ms, D)
                       /\ less[i] \in TalkMessage
    OBVIOUS
  <2>1. ms[i] \in TalkMessage
    BY <1>1
  <2>2. less[i] = [ms[i] EXCEPT !.calls = @ \ Dropped(ms, D)]
    BY <1>1 DEF Talk!DropsTheCall, Dropped
  <2>. HIDE DEF less, D
  <2>. QED
    BY <2>1, <2>2 DEF TalkMessage
<1>4. rest = Talk!Only(less, is) /\ is \in SUBSET (1..Len(ms)) /\ is = (1..Len(ms)) \ D
  BY <1>1 DEF Talk!WithoutResults
<1>. HIDE DEF less, D, is, rest
<1>5. PICK m \in Nat : \E e : InOrder(e, m, is) /\ rest = At(less, e, m)
  <2>. DEFINE n == Len(ms)
  <2>1. n \in Nat /\ is \in SUBSET (1..n)
    BY <1>1, <1>4
  <2>. HIDE DEF n
  <2>2. \E m \in Nat : \E e : InOrder(e, m, is) /\ Talk!Only(less, is) = At(less, e, m)
    BY <2>1, OnlyInOrder
  <2>. QED
    BY <1>4, <2>2
<1>6. PICK e : InOrder(e, m, is) /\ rest = [k \in 1..m |-> less[e[k]]]
  BY <1>5 DEF At
<1>7. e \in [1..m -> is] /\ \A k \in 1..m : e[k] \in 1..Len(ms) /\ e[k] \in is
  BY <1>4, <1>6 DEF InOrder
<1>8. rest \in Seq(TalkMessage) /\ Len(rest) = m
  BY <1>3, <1>6, <1>7, IsASeq
<1>9. Thins(rest, ms, D, e, 1)
  <2>1. \A k \in 1..m : rest[k] = less[e[k]]
    BY <1>6
  <2>2. /\ \A k, l \in 1..m : k < l => e[k] < e[l]
        /\ \A i \in is : \E k \in 1..m : e[k] = i
    BY <1>6 DEF InOrder
  <2>3. \A k \in 1..m : /\ rest[k].role = ms[e[k]].role /\ rest[k].id = ms[e[k]].id
                        /\ rest[k].size = ms[e[k]].size
                        /\ rest[k].calls = ms[e[k]].calls \ Dropped(ms, D)
    BY <1>3, <1>7, <2>1
  <2>4. \A k \in 1..m : e[k] >= 1
    BY <1>1, <1>7
  <2>5. e \in [1..Len(rest) -> (1..Len(ms)) \ D] /\ 1..Len(rest) = 1..m
    BY <1>4, <1>7, <1>8
  <2>6. \A i \in (1..Len(ms)) \ D : i >= 1 => \E k \in 1..Len(rest) : e[k] = i
    BY <1>4, <2>2, <2>5
  <2>7. 1 \in Nat /\ 1 <= 1
    OBVIOUS
  <2>. QED
    BY <1>2, <1>8, <2>2, <2>3, <2>4, <2>5, <2>6, <2>7 DEF Thins
<1>. QED
  BY <1>9 DEF rest, D

\* So are those from one that is no result.
LEMMA ThinsLater ==
    ASSUME NEW ms, NEW rest, NEW D, NEW e, Len(ms) \in Nat, Thins(rest, ms, D, e, 1),
           NEW f \in 1..Len(rest), rest[f].role # "tool"
    PROVE  \E later, first : Thins(SubSeq(rest, f, Len(rest)), ms, D, later, first)
<1>. DEFINE n == Len(rest)
            part == SubSeq(rest, f, n)
            m == n - f + 1
            later == [k \in 1..m |-> e[k + f - 1]]
<1>1. rest \in Seq(TalkMessage) /\ n \in Nat /\ f \in Nat /\ f <= n
  BY DEF Thins
<1>2. /\ part \in Seq(TalkMessage) /\ Len(part) = m /\ m \in Nat
      /\ \A k \in 1..m : part[k] = rest[k + f - 1] /\ k + f - 1 \in 1..n
  BY <1>1, SubSeqProperties
<1>3. /\ \A k \in 1..n : e[k] \in (1..Len(ms)) \ D /\ e[k] \in Nat
      /\ \A k, l \in 1..n : k < l => e[k] < e[l]
  <2>1. \A k, l \in 1..n : k < l => e[k] < e[l]
    BY DEF Thins
  <2>2. e \in [1..n -> (1..Len(ms)) \ D]
    BY DEF Thins
  <2>3. \A i \in (1..Len(ms)) \ D : i \in Nat
    OBVIOUS
  <2>. QED
    BY <2>1, <2>2, <2>3
<1>4. \A k \in 1..m : later[k] = e[k + f - 1] /\ later[k] \in (1..Len(ms)) \ D
  BY <1>2, <1>3
<1>5. e[f] \in Nat /\ e[f] \in 1..Len(ms) /\ ms[e[f]].role # "tool"
  BY <1>3 DEF Thins
<1>6. \A k \in 1..m : later[k] >= e[f]
  <2>. SUFFICES ASSUME NEW k \in 1..m PROVE e[k + f - 1] >= e[f]
    BY <1>4
  <2>1. f = k + f - 1 \/ f < k + f - 1
    BY <1>1
  <2>. QED
    BY <1>2, <1>3, <1>5, <2>1
<1>7. \A k, l \in 1..m : k < l => later[k] < later[l]
  <2>. SUFFICES ASSUME NEW k \in 1..m, NEW l \in 1..m, k < l PROVE e[k + f - 1] < e[l + f - 1]
    BY <1>4
  <2>1. k + f - 1 < l + f - 1 /\ k + f - 1 \in 1..n /\ l + f - 1 \in 1..n
    BY <1>1, <1>2
  <2>. QED
    BY <1>3, <2>1
<1>8. ASSUME NEW i \in (1..Len(ms)) \ D, i >= e[f] PROVE \E k \in 1..m : later[k] = i
  <2>1. PICK k \in 1..n : e[k] = i
    <3>1. i >= 1
      OBVIOUS
    <3>. QED
      BY <3>1 DEF Thins
  <2>2. k >= f
    <3>. SUFFICES ASSUME k < f PROVE FALSE
      BY <1>1
    <3>1. e[k] < e[f]
      BY <1>3
    <3>. QED
      BY <1>3, <1>5, <1>8, <2>1, <3>1
  <2>3. k - f + 1 \in 1..m /\ (k - f + 1) + f - 1 = k
    BY <1>1, <2>2
  <2>4. later[k - f + 1] = e[k]
    BY <1>4, <2>3
  <2>. QED
    BY <2>1, <2>3, <2>4
<1>9. \A k \in 1..m : /\ part[k].role = ms[later[k]].role /\ part[k].id = ms[later[k]].id
                      /\ part[k].size = ms[later[k]].size
                      /\ part[k].calls = ms[later[k]].calls \ Dropped(ms, D)
  BY <1>2, <1>4 DEF Thins
<1>10. later \in [1..m -> (1..Len(ms)) \ D]
  BY <1>4
<1>11. D \subseteq {i \in 1..Len(ms) : ms[i].role = "tool"}
  BY DEF Thins
<1>. HIDE DEF part, later, m
<1>12. Thins(part, ms, D, later, e[f])
  BY <1>2, <1>5, <1>6, <1>7, <1>8, <1>9, <1>10, <1>11 DEF Thins
<1>. QED
  BY <1>12 DEF part, n

\* So are none of them, and all of them.
LEMMA NoneAndAllThin ==
    ASSUME NEW ms, Paired(ms)
    PROVE  /\ \E D, e, first : Thins(<<>>, ms, D, e, first)
           /\ \E D, e, first : Thins(ms, ms, D, e, first)
<1>1. ms \in Seq(TalkMessage) /\ Len(ms) \in Nat
  BY DEF Paired, AreMessages
<1>. DEFINE none == [k \in 1..0 |-> 1]
            all == [k \in 1..Len(ms) |-> k]
<1>2. Thins(<<>>, ms, {}, none, Len(ms) + 1)
  <2>1. <<>> \in Seq(TalkMessage) /\ Len(<<>>) = 0 /\ 1..0 = {} /\ Len(ms) + 1 \in Nat
    BY <1>1
  <2>2. none \in [1..0 -> (1..Len(ms)) \ {}] /\ Len(ms) + 1 > Len(ms)
    BY <1>1, <2>1
  <2>3. \A i \in (1..Len(ms)) \ {} : ~ (i >= Len(ms) + 1)
    BY <1>1
  <2>. QED
    BY <2>1, <2>2, <2>3 DEF Thins
<1>3. Thins(ms, ms, {}, all, 1)
  <2>1. all \in [1..Len(ms) -> (1..Len(ms)) \ {}] /\ \A k \in 1..Len(ms) : all[k] = k /\ k >= 1
    BY <1>1
  <2>2. \A k \in 1..Len(ms) : ms[k].calls = ms[k].calls \ Dropped(ms, {})
    BY DEF Dropped
  <2>. HIDE DEF all
  <2>. QED
    BY <1>1, <2>1, <2>2 DEF Thins
<1>. QED
  BY <1>2, <1>3

\* The messages that are left have the tokens of those that were kept, or fewer.
HaveFewer(g, rest, f, U) == g[1..Len(rest)] <= f[U]
LEMMA ThinsTokens ==
    ASSUME NEW ms, Paired(ms), NEW rest, NEW D, NEW e, Thins(rest, ms, D, e, 1), AreMessages(rest),
           NEW f, IsTokens(f, ms), NEW g, IsTokens(g, rest)
    PROVE  HaveFewer(g, rest, f, (1..Len(ms)) \ D)
<1>. DEFINE n == Len(rest)
            T == 1..Len(ms)
            w == Estimates(rest)
            v == Estimates(ms)
<1>1. n \in Nat /\ Len(ms) \in Nat
  BY DEF AreMessages, Paired
<1>2. \A k \in 1..n : IsMessage(rest[k])
  BY DEF AreMessages
<1>3. \A i \in T : IsMessage(ms[i])
  BY DEF AreMessages, Paired
<1>4. w \in [1..n -> Nat] /\ \A k \in 1..n : w[k] = Talk!EstimateTokens(rest[k])
  BY <1>2, EstimateIsANumber DEF Estimates
<1>5. v \in [T -> Nat] /\ \A i \in T : v[i] = Talk!EstimateTokens(ms[i])
  BY <1>3, EstimateIsANumber DEF Estimates
<1>6. e \in [1..n -> T] /\ \A k \in 1..n : e[k] \in T \ D /\ e[k] \in Nat
  BY DEF Thins
<1>7. \A k, l \in 1..n : k # l => e[k] # e[l]
  <2>. SUFFICES ASSUME NEW k \in 1..n, NEW l \in 1..n, k # l PROVE e[k] # e[l]
    OBVIOUS
  <2>1. k < l \/ l < k
    BY <1>1
  <2>2. e[k] < e[l] \/ e[l] < e[k]
    BY <2>1 DEF Thins
  <2>. QED
    BY <1>6, <2>2
<1>8. \A k \in 1..n : w[k] <= v[e[k]]
  <2>. SUFFICES ASSUME NEW k \in 1..n PROVE w[k] <= v[e[k]]
    OBVIOUS
  <2>1. rest[k].size = ms[e[k]].size /\ rest[k].calls \subseteq ms[e[k]].calls
    BY DEF Thins
  <2>2. Talk!EstimateTokens(rest[k]) <= Talk!EstimateTokens(ms[e[k]])
    BY <1>2, <1>3, <1>6, <2>1, EstimateIsANumber
  <2>. QED
    BY <1>4, <1>5, <1>6, <2>2
<1>9. PlacesOf(e, n) = T \ D
  <2>1. \A i \in T \ D : \E k \in 1..n : e[k] = i
    <3>1. \A i \in T \ D : i >= 1
      BY <1>1
    <3>. QED
      BY <3>1 DEF Thins
  <2>. QED
    BY <1>6, <2>1 DEF PlacesOf
<1>10. g \in [SUBSET (1..n) -> Nat] /\ g[{}] = 0 /\ TakesAnyFirst(g, w, 1..n)
  BY DEF IsTokens
<1>11. f \in [SUBSET T -> Nat] /\ f[{}] = 0 /\ TakesAnyFirst(f, v, T)
  BY DEF IsTokens
<1>. HIDE DEF n, T, w, v
<1>12. g[1..n] <= f[PlacesOf(e, n)]
  BY <1>1, <1>4, <1>5, <1>6, <1>7, <1>8, <1>10, <1>11, FewerTokens
<1>. QED
  BY <1>9, <1>12 DEF HaveFewer, n, T

\* A part from f on has the tokens of all less those of the part before.
LEMMA TokensOfAPart ==
    ASSUME NEW rest, AreMessages(rest), NEW f \in 1..Len(rest),
           NEW g, IsTokens(g, rest), NEW part, part = SubSeq(rest, f, Len(rest)),
           NEW h, IsTokens(h, part)
    PROVE  h[1..Len(part)] + g[1..(f - 1)] <= g[1..Len(rest)]
<1>. DEFINE n == Len(rest)
            m == n - f + 1
            e == [k \in 1..m |-> k + f - 1]
            w == Estimates(part)
            v == Estimates(rest)
<1>1. rest \in Seq(TalkMessage) /\ n \in Nat /\ f \in Nat /\ f <= n /\ 1 <= f
  BY DEF AreMessages
<1>2. Len(part) = m /\ m \in Nat /\ \A k \in 1..m : part[k] = rest[k + f - 1] /\ k + f - 1 \in 1..n
  BY <1>1, SubSeqProperties
<1>3. \A k \in 1..n : Talk!EstimateTokens(rest[k]) \in Nat
  BY EstimateIsANumber DEF AreMessages
<1>4. v \in [1..n -> Nat] /\ \A k \in 1..n : v[k] = Talk!EstimateTokens(rest[k])
  BY <1>3 DEF Estimates
<1>5. w \in [1..m -> Nat] /\ \A k \in 1..m : w[k] = v[k + f - 1]
  BY <1>2, <1>3, <1>4 DEF Estimates
<1>6. g \in [SUBSET (1..n) -> Nat] /\ g[{}] = 0 /\ TakesAnyFirst(g, v, 1..n)
  BY DEF IsTokens
<1>7. h \in [SUBSET (1..m) -> Nat] /\ h[{}] = 0 /\ TakesAnyFirst(h, w, 1..m)
  BY <1>2 DEF IsTokens
<1>8. e \in [1..m -> 1..n] /\ \A k \in 1..m : e[k] = k + f - 1
  BY <1>2
<1>. HIDE DEF w, v, e, m, n
<1>9. \A k, l \in 1..m : k # l => e[k] # e[l]
  BY <1>1, <1>2, <1>8
<1>10. \A k \in 1..m : w[k] <= v[e[k]]
  <2>. SUFFICES ASSUME NEW k \in 1..m PROVE w[k] <= v[e[k]]
    OBVIOUS
  <2>1. w[k] = v[e[k]] /\ w[k] \in Nat
    BY <1>5, <1>8
  <2>. QED
    BY <2>1
<1>11. h[1..m] <= g[PlacesOf(e, m)]
  BY <1>1, <1>2, <1>4, <1>5, <1>6, <1>7, <1>8, <1>9, <1>10, FewerTokens
<1>12. PlacesOf(e, m) = f..n
  <2>1. \A k \in 1..m : e[k] \in f..n
    BY <1>1, <1>2, <1>8 DEF m
  <2>2. \A i \in f..n : (i - f + 1) \in 1..m /\ e[i - f + 1] = i
    BY <1>1, <1>2, <1>8 DEF m
  <2>. QED
    BY <2>1, <2>2 DEF PlacesOf
<1>13. g[1..n] = g[1..(f - 1)] + g[f..n]
  <2>. DEFINE a == f - 1
  <2>1. a \in 0..n /\ a + 1 = f
    BY <1>1
  <2>. HIDE DEF a
  <2>2. g[1..n] = g[1..a] + g[(a + 1)..n]
    <3>1. InTwo(g, a, n)
      BY <1>1, <1>4, <1>6, <2>1, TokensInTwo
    <3>. QED
      BY <3>1 DEF InTwo
  <2>. QED
    BY <2>1, <2>2 DEF a
<1>14. h[1..m] \in Nat /\ g[1..(f - 1)] \in Nat /\ g[f..n] \in Nat
  <2>1. 1..(f - 1) \in SUBSET (1..n) /\ f..n \in SUBSET (1..n) /\ 1..m \in SUBSET (1..m)
    BY <1>1
  <2>. QED
    BY <1>6, <1>7, <2>1
<1>. DEFINE x == h[1..m]
            y == g[1..(f - 1)]
            z == g[f..n]
<1>15. x <= z /\ g[1..n] = y + z /\ x \in Nat /\ y \in Nat /\ z \in Nat
  BY <1>11, <1>12, <1>13, <1>14
<1>16. x + y <= g[1..n]
  <2>. HIDE DEF x, y, z
  <2>. QED
    BY <1>15
<1>. QED
  BY <1>2, <1>16 DEF n

\* What is trimmed is thinned, and within the budget or one message.
Fits(ms) == Talk!Tokens(ms) <= HistoryBudget \/ Len(ms) <= 1
LEMMA TrimmedFits ==
    ASSUME HistoryBudget \in Nat, NEW ms, Paired(ms)
    PROVE  /\ \E D, e, first : Thins(Talk!TrimHistory(ms), ms, D, e, first)
           /\ Fits(Talk!TrimHistory(ms))
<1>. DEFINE D == Talk!ResultsToDrop(ms)
            total == Talk!TokensOf(ms, DOMAIN ms \ D)
            rest == Talk!WithoutResults(ms)
            kept == {i \in DOMAIN rest :
                        \/ i = Len(rest)
                        \/ total <= HistoryBudget + Talk!TokensOf(rest, 1..(i - 1))}
            firsts == {i \in kept : rest[i].role \in {"user", "system"}}
            t == Talk!TrimHistory(ms)
<1>1. t = IF Talk!Tokens(ms) <= HistoryBudget THEN ms
          ELSE IF total <= HistoryBudget THEN rest
          ELSE IF firsts = {} THEN <<>> ELSE SubSeq(rest, Talk!Min(firsts), Len(rest))
  BY DEF Talk!TrimHistory
<1>2. PICK e : Thins(rest, ms, D, e, 1)
  BY RestThins
<1>3. /\ AreMessages(ms) /\ Len(ms) \in Nat /\ DOMAIN ms = 1..Len(ms)
      /\ AreMessages(rest) /\ rest \in Seq(TalkMessage) /\ Len(rest) \in Nat /\ DOMAIN rest = 1..Len(rest)
  <2>1. AreMessages(ms) /\ ms \in Seq(TalkMessage)
    BY DEF Paired, AreMessages
  <2>2. FollowTheirCalls(ms, Ids \cup {<<>>})
    <3>1. \A i \in 1..Len(ms) : ms[i] \in TalkMessage
      BY <2>1
    <3>2. \A i \in 1..Len(ms) : ms[i].id \in Ids \cup {<<>>}
      <4>. DEFINE R == Ids \cup {<<>>}
      <4>1. \A m \in TalkMessage : m.id \in R
        <5>. HIDE DEF R
        <5>. QED
          BY DEF TalkMessage, R
      <4>. QED
        BY <3>1, <4>1
    <3>. QED
      BY <3>2 DEF FollowTheirCalls
  <2>3. Paired(rest)
    BY <1>2, <2>2, ThinsKeeps
  <2>4. AreMessages(rest) /\ rest \in Seq(TalkMessage)
    BY <2>3 DEF Paired, AreMessages
  <2>. HIDE DEF rest
  <2>. QED
    BY <2>1, <2>4, LenProperties
<1>4. PICK f : IsTokens(f, ms)
  BY <1>3, TokensAddUp
<1>5. PICK g : IsTokens(g, rest)
  BY <1>3, TokensAddUp
<1>. HIDE DEF t, rest, D
<1>6. total = f[(1..Len(ms)) \ D]
  <2>. DEFINE U == (1..Len(ms)) \ D
  <2>1. U \in SUBSET (1..Len(ms)) /\ total = Talk!TokensOf(ms, U)
    BY <1>3
  <2>. HIDE DEF U, total
  <2>2. total = f[U]
    BY <1>4, <2>1 DEF IsTokens
  <2>. QED
    BY <2>2 DEF U
<1>7. g[1..Len(rest)] <= total
  <2>1. HaveFewer(g, rest, f, (1..Len(ms)) \ D)
    BY <1>2, <1>3, <1>4, <1>5, ThinsTokens
  <2>. QED
    BY <1>6, <2>1 DEF HaveFewer
<1>8. Talk!Tokens(rest) = g[1..Len(rest)] /\ g[1..Len(rest)] \in Nat
  BY <1>3, <1>5 DEF IsTokens, Talk!Tokens
<1>9. total \in Nat
  BY <1>4, <1>6 DEF IsTokens
<1>. HIDE DEF total
<1>10. CASE Talk!Tokens(ms) <= HistoryBudget
  <2>1. t = ms
    BY <1>1, <1>10
  <2>. QED
    BY <1>10, <2>1, NoneAndAllThin DEF t, Fits
<1>11. CASE ~ (Talk!Tokens(ms) <= HistoryBudget) /\ total <= HistoryBudget
  <2>1. t = rest
    BY <1>1, <1>11
  <2>2. Talk!Tokens(rest) <= HistoryBudget
    BY <1>7, <1>8, <1>9, <1>11
  <2>. QED
    BY <1>2, <2>1, <2>2 DEF t, Fits
<1>12. CASE ~ (Talk!Tokens(ms) <= HistoryBudget) /\ ~ (total <= HistoryBudget) /\ firsts = {}
  <2>1. t = <<>>
    BY <1>1, <1>12
  <2>2. Len(t) <= 1
    BY <2>1
  <2>. QED
    BY <2>1, <2>2, NoneAndAllThin DEF t, Fits
<1>13. CASE ~ (Talk!Tokens(ms) <= HistoryBudget) /\ ~ (total <= HistoryBudget) /\ firsts # {}
  <2>. DEFINE i == Talk!Min(firsts)
  <2>1. i \in firsts
    <3>1. firsts \in SUBSET Nat
      BY <1>3
    <3>. HIDE DEF firsts
    <3>2. \E k \in firsts : \A n \in firsts : k <= n
      BY <1>13, <3>1, LeastOf
    <3>. QED
      BY <3>2 DEF Talk!Min
  <2>2. t = SubSeq(rest, i, Len(rest))
    BY <1>1, <1>13
  <2>. HIDE DEF i
  <2>3. i \in 1..Len(rest) /\ rest[i].role # "tool" /\ i \in kept
    BY <1>3, <2>1
  <2>4. \E later, first : Thins(t, ms, D, later, first)
    BY <1>2, <1>3, <2>2, <2>3, ThinsLater
  <2>5. CASE i = Len(rest)
    <3>1. Len(t) <= 1
      BY <1>3, <2>2, <2>3, <2>5, SubSeqProperties
    <3>. QED
      BY <2>4, <3>1 DEF t, Fits
  <2>6. CASE total <= HistoryBudget + Talk!TokensOf(rest, 1..(i - 1))
    <3>1. t \in Seq(TalkMessage) /\ Len(t) = Len(rest) - i + 1
          /\ \A k \in 1..Len(t) : t[k] = rest[k + i - 1] /\ k + i - 1 \in 1..Len(rest)
      BY <1>3, <2>2, <2>3, SubSeqProperties
    <3>2. AreMessages(t)
      BY <1>3, <3>1 DEF AreMessages
    <3>3. PICK h : IsTokens(h, t)
      BY <3>2, TokensAddUp
    <3>4. h[1..Len(t)] + g[1..(i - 1)] <= g[1..Len(rest)]
      BY <1>3, <1>5, <2>2, <2>3, <3>3, TokensOfAPart
    <3>5. DOMAIN t = 1..Len(t)
      BY <3>1
    <3>6. Talk!Tokens(t) = h[1..Len(t)] /\ h[1..Len(t)] \in Nat
      BY <3>3, <3>5 DEF IsTokens, Talk!Tokens
    <3>7. Talk!TokensOf(rest, 1..(i - 1)) = g[1..(i - 1)] /\ g[1..(i - 1)] \in Nat
      <4>1. 1..(i - 1) \in SUBSET (1..Len(rest))
        BY <1>3, <2>3
      <4>. QED
        BY <1>5, <4>1 DEF IsTokens
    <3>. DEFINE x == h[1..Len(t)]
                y == g[1..(i - 1)]
                z == g[1..Len(rest)]
    <3>8. /\ x + y <= z /\ z <= total /\ total <= HistoryBudget + y
          /\ x \in Nat /\ y \in Nat /\ z \in Nat
      BY <1>7, <1>8, <2>6, <3>4, <3>6, <3>7
    <3>9. x <= HistoryBudget
      <4>. HIDE DEF x, y, z
      <4>. QED
        BY <1>9, <3>8
    <3>. QED
      BY <2>4, <3>6, <3>9 DEF t, Fits
  <2>. QED
    BY <2>3, <2>5, <2>6
<1>. QED
  BY <1>10, <1>11, <1>12, <1>13

\* The last messages keep what relates them; the results without a call are those of the calls
\* that were before them.
LEMMA LastOnes ==
    ASSUME NEW ms, Paired(ms), NEW s \in 1..(Len(ms) + 1), NEW part, part = SubSeq(ms, s, Len(ms))
    PROVE  /\ Paired(part) /\ \A r \in Nat : UpToRound(ms, r) => UpToRound(part, r)
           /\ FollowTheirCalls(part, {part[i].id : i \in Talk!Results(part)} \ Talk!CallsIn(part))
<1>. DEFINE n == Len(ms)
            m == n - s + 1
            L == {part[i].id : i \in Talk!Results(part)} \ Talk!CallsIn(part)
<1>1. ms \in Seq(TalkMessage) /\ n \in Nat /\ s \in Nat /\ s >= 1 /\ s <= n + 1
  BY DEF Paired, AreMessages
<1>2. /\ part \in Seq(TalkMessage) /\ Len(part) = m /\ m \in Nat /\ DOMAIN part = 1..m
      /\ \A k \in 1..m : part[k] = ms[k + s - 1] /\ k + s - 1 \in 1..n
  <2>1. /\ part \in Seq(TalkMessage) /\ Len(part) = IF s <= n THEN n - s + 1 ELSE 0
        /\ \A k \in 1..m : part[k] = ms[s + k - 1]
    BY <1>1, SubSeqProperties
  <2>2. Len(part) = m /\ m \in Nat
    BY <1>1, <2>1
  <2>3. DOMAIN part = 1..m
    BY <2>1, <2>2, LenProperties
  <2>4. \A k \in 1..m : k + s - 1 \in 1..n /\ s + k - 1 = k + s - 1
    BY <1>1
  <2>. QED
    BY <2>1, <2>2, <2>3, <2>4
<1>3. AreMessages(part)
  BY <1>2 DEF Paired, AreMessages
<1>4. HaveResults(part)
  <2>. SUFFICES ASSUME NEW i \in 1..Len(part), NEW c \in part[i].calls
                PROVE  \E j \in (i + 1)..Len(part) :
                          part[j].id = c /\ \A k \in (i + 1)..j : part[k].role = "tool"
    BY DEF HaveResults
  <2>0. i \in 1..m
    BY <1>2
  <2>. DEFINE a == i + s - 1
  <2>1. a \in 1..n /\ c \in ms[a].calls /\ a \in Nat
    BY <1>2, <2>0
  <2>2. PICK b \in (a + 1)..n : ms[b].id = c /\ \A k \in (a + 1)..b : ms[k].role = "tool"
    BY <2>1 DEF Paired, HaveResults
  <2>. DEFINE j == b - s + 1
  <2>3. j \in (i + 1)..Len(part) /\ j \in 1..m /\ j + s - 1 = b
    BY <1>1, <1>2, <2>0, <2>1, <2>2
  <2>4. part[j].id = c
    BY <1>2, <2>2, <2>3
  <2>5. \A k \in (i + 1)..j : part[k].role = "tool"
    <3>1. \A k \in (i + 1)..j : k \in 1..m /\ k + s - 1 \in (a + 1)..b
      BY <1>1, <2>0, <2>1, <2>2, <2>3
    <3>. QED
      BY <1>2, <2>2, <3>1
  <2>. QED
    BY <2>3, <2>4, <2>5
<1>5. AreApart(part)
  <2>. SUFFICES ASSUME NEW i \in 1..m, NEW j \in 1..m, part[i].role = "tool", part[i].id = part[j].id
                PROVE  i = j
    BY <1>2 DEF AreApart
  <2>1. i + s - 1 = j + s - 1
    BY <1>2 DEF Paired, AreApart
  <2>. QED
    BY <1>1, <2>1
<1>6. \A r \in Nat : UpToRound(ms, r) => UpToRound(part, r)
  BY <1>2 DEF UpToRound
<1>7. FollowTheirCalls(part, L)
  <2>. SUFFICES ASSUME NEW i \in 1..m, part[i].role = "tool", part[i].id \notin L
                PROVE  \E b \in 1..(i - 1) : /\ part[b].role # "tool" /\ part[i].id \in part[b].calls
                                             /\ \A k \in (b + 1)..(i - 1) : part[k].role = "tool"
    BY <1>2 DEF FollowTheirCalls
  <2>1. part[i].id \in Talk!CallsIn(part)
    BY <1>2 DEF Talk!Results
  <2>2. PICK b \in 1..m : part[i].id \in part[b].calls
    BY <1>2, <2>1 DEF Talk!CallsIn
  <2>3. PICK j \in (b + 1)..m :
          part[j].id = part[i].id /\ \A k \in (b + 1)..j : part[k].role = "tool"
    <3>1. b \in 1..Len(part)
      BY <1>2, <2>2
    <3>2. \E j \in (b + 1)..Len(part) :
             part[j].id = part[i].id /\ \A k \in (b + 1)..j : part[k].role = "tool"
      BY <1>4, <2>2, <3>1 DEF HaveResults
    <3>. QED
      BY <1>2, <3>2
  <2>4. j \in 1..m /\ j = i
    <3>1. j \in 1..m
      BY <1>1, <1>2, <2>3
    <3>. QED
      BY <1>2, <1>5, <3>1, <2>3 DEF AreApart
  <2>5. b \in 1..(i - 1) /\ \A k \in (b + 1)..(i - 1) : k \in (b + 1)..j
    BY <1>1, <1>2, <2>3, <2>4
  <2>6. part[b].role # "tool"
    <3>1. IsMessage(part[b]) /\ part[b].calls # {}
      BY <1>2, <1>3, <2>2 DEF AreMessages
    <3>. QED
      BY <3>1 DEF IsMessage
  <2>. QED
    BY <2>2, <2>3, <2>5, <2>6
<1>. QED
  BY <1>3, <1>4, <1>5, <1>6, <1>7 DEF Paired

\* What the messages are.
LEMMA WhatTheyAre ==
    /\ \A size \in Nat : \A by \in {"system", "user"} :
          IsMessage(Talk!Text(by, size)) /\ Talk!Text(by, size).role = by
          /\ Talk!Text(by, size).calls = {}
    /\ \A size \in Nat : \A ids \in SUBSET Ids : IsFiniteSet(ids) =>
          IsMessage(Talk!Calling(ids, size)) /\ Talk!Calling(ids, size).role = "assistant"
          /\ Talk!Calling(ids, size).calls = ids
    /\ \A size \in Nat : \A id \in Ids :
          IsMessage(Talk!Result(id, size)) /\ Talk!Result(id, size).role = "tool"
          /\ Talk!Result(id, size).calls = {} /\ Talk!Result(id, size).id = id
<1>1. IsFiniteSet({}) /\ \A id \in Ids : id # <<>>
  BY FS_EmptySet DEF Ids
<1>2. \A size \in Nat : \A by \in {"system", "user"} :
         IsMessage(Talk!Text(by, size)) /\ Talk!Text(by, size).role = by
         /\ Talk!Text(by, size).calls = {}
  BY <1>1 DEF IsMessage, TalkMessage, Talk!Text
<1>3. \A size \in Nat : \A ids \in SUBSET Ids : IsFiniteSet(ids) =>
         IsMessage(Talk!Calling(ids, size)) /\ Talk!Calling(ids, size).role = "assistant"
         /\ Talk!Calling(ids, size).calls = ids
  BY <1>1 DEF IsMessage, TalkMessage, Talk!Text, Talk!Calling
<1>4. \A size \in Nat : \A id \in Ids :
         IsMessage(Talk!Result(id, size)) /\ Talk!Result(id, size).role = "tool"
         /\ Talk!Result(id, size).calls = {} /\ Talk!Result(id, size).id = id
  BY <1>1 DEF IsMessage, TalkMessage, Talk!Text, Talk!Result
<1>. QED
  BY <1>2, <1>3, <1>4

\* Between a system message and a question they keep it too.
Wrapped(a, ms, b) == <<a>> \o ms \o <<b>>
LEMMA WrappedKeeps ==
    ASSUME NEW ms, Paired(ms), NEW L, FollowTheirCalls(ms, L),
           NEW a, IsMessage(a), a.role # "tool", a.calls = {},
           NEW b, IsMessage(b), b.role # "tool", b.calls = {},
           NEW all, all = Wrapped(a, ms, b)
    PROVE  /\ Paired(all) /\ FollowTheirCalls(all, L)
           /\ \A r \in Nat : UpToRound(ms, r) => UpToRound(all, r)
<1>. DEFINE n == Len(ms)
<1>1. ms \in Seq(TalkMessage) /\ n \in Nat /\ a \in TalkMessage /\ b \in TalkMessage
  BY DEF Paired, AreMessages, IsMessage
<1>2. /\ all \in Seq(TalkMessage) /\ Len(all) = n + 2
      /\ all[1] = a /\ all[n + 2] = b /\ \A k \in 1..n : all[k + 1] = ms[k]
  BY <1>1 DEF Wrapped
<1>3. \A k \in 1..(n + 2) : k \in Nat /\ (k = 1 \/ k = n + 2 \/ (k - 1 \in 1..n /\ all[k] = ms[k - 1]))
  <2>. SUFFICES ASSUME NEW k \in 1..(n + 2), k # 1, k # n + 2
                PROVE  k - 1 \in 1..n /\ all[k] = ms[k - 1]
    BY <1>1
  <2>1. k - 1 \in 1..n /\ (k - 1) + 1 = k
    BY <1>1
  <2>. QED
    BY <1>2, <2>1
<1>. HIDE DEF n
<1>4. AreMessages(all)
  <2>1. \A k \in 1..n : IsMessage(ms[k])
    BY DEF Paired, AreMessages, n
  <2>. QED
    BY <1>2, <1>3, <2>1 DEF AreMessages
<1>5. HaveResults(all)
  <2>. SUFFICES ASSUME NEW i \in 1..Len(all), NEW c \in all[i].calls
                PROVE  \E j \in (i + 1)..Len(all) :
                          all[j].id = c /\ \A k \in (i + 1)..j : all[k].role = "tool"
    BY DEF HaveResults
  <2>1. i - 1 \in 1..n /\ c \in ms[i - 1].calls /\ i \in Nat
    BY <1>2, <1>3
  <2>2. PICK j \in ((i - 1) + 1)..n :
          ms[j].id = c /\ \A k \in ((i - 1) + 1)..j : ms[k].role = "tool"
    BY <2>1 DEF Paired, HaveResults, n
  <2>3. j + 1 \in (i + 1)..Len(all) /\ j \in 1..n /\ j \in Nat
    BY <1>1, <1>2, <2>1, <2>2
  <2>4. \A k \in (i + 1)..(j + 1) : k - 1 \in ((i - 1) + 1)..j /\ k - 1 \in 1..n /\ (k - 1) + 1 = k
    BY <1>1, <2>1, <2>2, <2>3
  <2>5. ASSUME NEW k \in (i + 1)..(j + 1) PROVE all[k].role = "tool"
    <3>1. k - 1 \in ((i - 1) + 1)..j /\ k - 1 \in 1..n /\ (k - 1) + 1 = k
      BY <2>4
    <3>2. all[k] = ms[k - 1]
      BY <1>2, <3>1
    <3>. QED
      BY <2>2, <3>1, <3>2
  <2>. QED
    BY <1>2, <2>2, <2>3, <2>5
<1>6. AreApart(all)
  <2>. SUFFICES ASSUME NEW i \in 1..(n + 2), NEW j \in 1..(n + 2), all[i].role = "tool",
                       all[i].id = all[j].id
                PROVE  i = j
    BY <1>2 DEF AreApart
  <2>1. i - 1 \in 1..n /\ all[i] = ms[i - 1] /\ i \in Nat /\ all[i].id # <<>>
    BY <1>2, <1>3, <1>4 DEF AreMessages, IsMessage
  <2>2. j - 1 \in 1..n /\ all[j] = ms[j - 1] /\ j \in Nat
    BY <1>2, <1>3, <2>1 DEF IsMessage
  <2>3. i - 1 = j - 1
    BY <2>1, <2>2 DEF Paired, AreApart, n
  <2>. QED
    BY <2>1, <2>2, <2>3
<1>7. FollowTheirCalls(all, L)
  <2>. SUFFICES ASSUME NEW i \in 1..(n + 2), all[i].role = "tool", all[i].id \notin L
                PROVE  \E j \in 1..(i - 1) : /\ all[j].role # "tool" /\ all[i].id \in all[j].calls
                                             /\ \A k \in (j + 1)..(i - 1) : all[k].role = "tool"
    BY <1>2 DEF FollowTheirCalls
  <2>1. i - 1 \in 1..n /\ all[i] = ms[i - 1] /\ i \in Nat
    BY <1>2, <1>3
  <2>2. PICK j \in 1..((i - 1) - 1) :
          /\ ms[j].role # "tool" /\ ms[i - 1].id \in ms[j].calls
          /\ \A k \in (j + 1)..((i - 1) - 1) : ms[k].role = "tool"
    BY <2>1 DEF FollowTheirCalls, n
  <2>3. j + 1 \in 1..(i - 1) /\ j \in 1..n /\ j \in Nat /\ all[j + 1] = ms[j]
    BY <1>1, <1>2, <2>1, <2>2
  <2>4. \A k \in ((j + 1) + 1)..(i - 1) :
           k - 1 \in (j + 1)..((i - 1) - 1) /\ k - 1 \in 1..n /\ (k - 1) + 1 = k
    BY <1>1, <2>1, <2>2, <2>3
  <2>5. ASSUME NEW k \in ((j + 1) + 1)..(i - 1) PROVE all[k].role = "tool"
    <3>1. k - 1 \in (j + 1)..((i - 1) - 1) /\ k - 1 \in 1..n /\ (k - 1) + 1 = k
      BY <2>4
    <3>2. all[k] = ms[k - 1]
      BY <1>2, <3>1
    <3>. QED
      BY <2>2, <3>1, <3>2
  <2>. QED
    BY <2>1, <2>2, <2>3, <2>5
<1>8. \A r \in Nat : UpToRound(ms, r) => UpToRound(all, r)
  <2>. SUFFICES ASSUME NEW r \in Nat, UpToRound(ms, r), NEW k \in 1..(n + 2), all[k].role = "tool"
                PROVE  NotAfter(all[k].id, r)
    BY <1>2 DEF UpToRound
  <2>1. k - 1 \in 1..n /\ all[k] = ms[k - 1]
    BY <1>2, <1>3
  <2>. QED
    BY <2>1 DEF UpToRound, n
<1>. QED
  BY <1>4, <1>5, <1>6, <1>7, <1>8 DEF Paired

\* What the model is given after r messages that called.
Kept(ms, L, r) == Paired(ms) /\ FollowTheirCalls(ms, L) /\ UpToRound(ms, r)

\* The ids of the n calls of message r.
CallId(r, k) == <<r, k>>
CallIds(r, n) == {CallId(r, k) : k \in 1..n}

\* An id tells the message and the call.
RoundOf(id) == id[1]
LEMMA CallIdTells ==
    ASSUME NEW r \in Nat, NEW k \in Nat
    PROVE  /\ CallId(r, k) \in Ids /\ RoundOf(CallId(r, k)) = r /\ CallId(r, k) # <<>>
           /\ \A s, l : CallId(s, l) = CallId(r, k) => s = r /\ l = k
BY DEF CallId, Ids, RoundOf

\* An id of an earlier message is of no later one.
LEMMA EarlierIds ==
    ASSUME NEW id \in Ids, NEW r \in Nat
    PROVE  /\ RoundOf(id) = r => NotAfter(id, r)
           /\ \A q \in Nat : q < r /\ NotAfter(id, q) => NotAfter(id, r) /\ RoundOf(id) # r
<1>1. id[1] \in Nat
  BY DEF Ids
<1>. QED
  BY <1>1 DEF RoundOf, NotAfter

\* A result has an id.
LEMMA ResultHasId ==
    ASSUME NEW m, IsMessage(m), m.role = "tool"
    PROVE  m.id \in Ids
<1>. DEFINE R == Ids \cup {<<>>}
<1>1. \A k \in TalkMessage : k.id \in R
  <2>. HIDE DEF R
  <2>. QED
    BY DEF TalkMessage, R
<1>. QED
  BY <1>1 DEF IsMessage

\* There are n of them.
LEMMA CallIdsAre ==
    ASSUME NEW r \in Nat, NEW n \in Nat
    PROVE  /\ CallIds(r, n) \in SUBSET Ids /\ IsFiniteSet(CallIds(r, n))
           /\ Cardinality(CallIds(r, n)) = n
<1>. DEFINE f == [k \in 1..n |-> CallId(r, k)]
<1>1. f \in [1..n -> CallIds(r, n)] /\ \A k \in 1..n : f[k] = CallId(r, k)
  BY DEF CallIds
<1>2. \A c \in CallIds(r, n) : \E k \in 1..n : c = CallId(r, k)
  BY DEF CallIds
<1>. HIDE DEF f
<1>3. f \in Injection(1..n, CallIds(r, n))
  BY <1>1, CallIdTells DEF Injection, IsInjective
<1>4. f \in Surjection(1..n, CallIds(r, n))
  BY <1>1, <1>2 DEF Surjection
<1>5. f \in Bijection(1..n, CallIds(r, n))
  BY <1>3, <1>4 DEF Bijection
<1>6. IsFiniteSet(1..n) /\ Cardinality(1..n) = n
  BY FS_Interval
<1>7. IsFiniteSet(CallIds(r, n)) /\ Cardinality(CallIds(r, n)) = Cardinality(1..n)
  BY <1>5, <1>6, FS_Bijection DEF ExistsBijection
<1>8. CallIds(r, n) \in SUBSET Ids
  BY CallIdTells DEF CallIds
<1>. QED
  BY <1>6, <1>7, <1>8

\* Their results, in their order.
ResultsOf(r, n, sizes) == [k \in 1..n |-> Talk!Result(CallId(r, k), sizes[k])]

\* A call, and its results in the order of the calls, keep it.
LEMMA AnsweredKeeps ==
    ASSUME NEW front, NEW L, NEW r \in Nat \ {0}, Kept(front, L, r - 1),
           NEW n \in Nat, NEW size \in Nat, NEW sizes \in [1..n -> Nat],
           NEW all, all = Append(front, Talk!Calling(CallIds(r, n), size))
                            \o ResultsOf(r, n, sizes)
    PROVE  Kept(all, L, r)
<1>. DEFINE p == Len(front) + 1
            calling == Talk!Calling(CallIds(r, n), size)
            answers == ResultsOf(r, n, sizes)
<1>1. front \in Seq(TalkMessage) /\ p \in Nat /\ p - 1 \in Nat /\ Len(front) = p - 1
      /\ \A k \in 1..(p - 1) : IsMessage(front[k])
  BY DEF Kept, Paired, AreMessages
<1>2. /\ IsMessage(calling) /\ calling \in TalkMessage /\ calling.role # "tool" /\ calling.id = <<>>
      /\ calling.calls = CallIds(r, n)
  <2>1. IsMessage(calling) /\ calling.role = "assistant" /\ calling.calls = CallIds(r, n)
    <3>1. CallIds(r, n) \in SUBSET Ids /\ IsFiniteSet(CallIds(r, n))
      BY CallIdsAre
    <3>. QED
      BY <3>1, WhatTheyAre
  <2>. QED
    BY <2>1 DEF IsMessage
<1>3. \A k \in 1..n : /\ IsMessage(answers[k]) /\ answers[k] \in TalkMessage
                      /\ answers[k].role = "tool" /\ answers[k].calls = {}
                      /\ answers[k].id = CallId(r, k)
  <2>. SUFFICES ASSUME NEW k \in 1..n
                PROVE  LET m == Talk!Result(CallId(r, k), sizes[k])
                       IN  IsMessage(m) /\ m.role = "tool" /\ m.calls = {} /\ m.id = CallId(r, k)
    BY DEF IsMessage, ResultsOf
  <2>1. CallId(r, k) \in Ids /\ sizes[k] \in Nat
    BY CallIdTells
  <2>. QED
    BY <2>1, WhatTheyAre
<1>4. answers \in Seq(TalkMessage) /\ Len(answers) = n
  <2>1. \A k \in 1..n : Talk!Result(CallId(r, k), sizes[k]) \in TalkMessage
    BY <1>3 DEF ResultsOf
  <2>. QED
    BY <2>1, IsASeq DEF ResultsOf
<1>. HIDE DEF calling, answers
<1>5. /\ all \in Seq(TalkMessage) /\ Len(all) = p + n /\ all[p] = calling
      /\ \A k \in 1..(p - 1) : all[k] = front[k]
      /\ \A k \in 1..n : all[p + k] = answers[k]
  <2>1. all = Append(front, calling) \o answers
    BY DEF calling, answers
  <2>2. /\ Append(front, calling) \in Seq(TalkMessage) /\ Len(Append(front, calling)) = p
        /\ Append(front, calling)[p] = calling
        /\ \A k \in 1..(p - 1) : Append(front, calling)[k] = front[k]
    BY <1>1, <1>2, AppendProperties
  <2>. DEFINE start == Append(front, calling)
  <2>. HIDE DEF start
  <2>3. /\ start \o answers \in Seq(TalkMessage) /\ Len(start \o answers) = p + n
        /\ \A k \in 1..(p + n) : (start \o answers)[k] = IF k <= p THEN start[k] ELSE answers[k - p]
    <3>1. start \in Seq(TalkMessage) /\ Len(start) = p
      BY <2>2 DEF start
    <3>2. /\ start \o answers \in Seq(TalkMessage) /\ Len(start \o answers) = Len(start) + Len(answers)
          /\ \A k \in 1..(Len(start) + Len(answers)) :
                (start \o answers)[k] = IF k <= Len(start) THEN start[k] ELSE answers[k - Len(start)]
      BY <1>4, <3>1, ConcatProperties
    <3>. DEFINE both == start \o answers
    <3>. HIDE DEF both
    <3>3. /\ both \in Seq(TalkMessage) /\ Len(both) = p + n
          /\ \A k \in 1..(p + n) : both[k] = IF k <= p THEN start[k] ELSE answers[k - p]
      BY <1>4, <3>1, <3>2 DEF both
    <3>. QED
      BY <3>3 DEF both
  <2>4. p \in 1..(p + n) /\ p <= p /\ \A k \in 1..(p - 1) : k \in 1..(p + n) /\ k <= p
    BY <1>1
  <2>5. \A k \in 1..n : p + k \in 1..(p + n) /\ ~ (p + k <= p) /\ (p + k) - p = k
    BY <1>1
  <2>. QED
    BY <2>1, <2>2, <2>3, <2>4, <2>5 DEF start
<1>. HIDE DEF p
<1>0. \A k \in 1..n : /\ answers[k].id \in CallIds(r, n) /\ RoundOf(answers[k].id) = r
                      /\ \A l \in 1..n : answers[k].id = answers[l].id => k = l
  BY <1>3, CallIdTells DEF CallIds
<1>6. \A i \in (p + 1)..(p + n) : /\ i - p \in 1..n /\ all[i] = answers[i - p] /\ IsMessage(all[i])
                                  /\ all[i].role = "tool" /\ all[i].calls = {}
                                  /\ all[i].id \in CallIds(r, n) /\ RoundOf(all[i].id) = r
  <2>. SUFFICES ASSUME NEW i \in (p + 1)..(p + n)
                PROVE  /\ i - p \in 1..n /\ all[i] = answers[i - p] /\ IsMessage(all[i])
                       /\ all[i].role = "tool" /\ all[i].calls = {}
                       /\ all[i].id \in CallIds(r, n) /\ RoundOf(all[i].id) = r
    OBVIOUS
  <2>1. i - p \in 1..n /\ p + (i - p) = i
    BY <1>1
  <2>2. all[i] = answers[i - p]
    BY <1>5, <2>1
  <2>. QED
    BY <1>0, <1>3, <2>1, <2>2
<1>7. \A i \in 1..(p - 1) : /\ all[i] = front[i] /\ IsMessage(all[i])
                            /\ all[i].role = "tool" => NotAfter(all[i].id, r - 1)
  BY <1>1, <1>5 DEF Kept, UpToRound
<1>13. \A i \in 1..(p - 1) : all[i].role = "tool" =>
            NotAfter(all[i].id, r) /\ RoundOf(all[i].id) # r
  <2>. SUFFICES ASSUME NEW i \in 1..(p - 1), all[i].role = "tool"
                PROVE  NotAfter(all[i].id, r) /\ RoundOf(all[i].id) # r
    OBVIOUS
  <2>1. all[i].id \in Ids
    <3>1. IsMessage(all[i])
      BY <1>7
    <3>. QED
      BY <3>1, ResultHasId
  <2>2. NotAfter(all[i].id, r - 1)
    BY <1>7
  <2>3. r - 1 \in Nat /\ r - 1 < r /\ r \in Nat
    OBVIOUS
  <2>. QED
    BY <2>1, <2>2, <2>3, EarlierIds
<1>14. \A i \in 1..(p + n) : i \in 1..(p - 1) \/ i = p \/ i \in (p + 1)..(p + n)
  BY <1>1
<1>8. AreMessages(all)
  <2>1. \A i \in 1..(p + n) : IsMessage(all[i])
    <3>. SUFFICES ASSUME NEW i \in 1..(p + n) PROVE IsMessage(all[i])
      OBVIOUS
    <3>1. CASE i \in 1..(p - 1)
      BY <1>7, <3>1
    <3>2. CASE i = p
      BY <1>2, <1>5, <3>2
    <3>3. CASE i \in (p + 1)..(p + n)
      BY <1>6, <3>3
    <3>. QED
      BY <1>14, <3>1, <3>2, <3>3
  <2>2. 1..Len(all) = 1..(p + n)
    BY <1>5
  <2>. QED
    BY <1>5, <2>1, <2>2 DEF AreMessages
<1>9. HaveResults(all)
  <2>. SUFFICES ASSUME NEW i \in 1..Len(all), NEW c \in all[i].calls
                PROVE  \E j \in (i + 1)..Len(all) :
                          all[j].id = c /\ \A k \in (i + 1)..j : all[k].role = "tool"
    BY DEF HaveResults
  <2>0. i \in 1..(p + n)
    BY <1>5
  <2>1. CASE i \in 1..(p - 1)
    <3>1. \E j \in (i + 1)..Len(front) :
             front[j].id = c /\ \A k \in (i + 1)..j : front[k].role = "tool"
      BY <1>1, <1>7, <2>1 DEF Kept, Paired, HaveResults
    <3>2. PICK j \in (i + 1)..(p - 1) :
             front[j].id = c /\ \A k \in (i + 1)..j : front[k].role = "tool"
      BY <1>1, <3>1
    <3>3. j \in 1..(p - 1) /\ j \in (i + 1)..Len(all) /\ \A k \in (i + 1)..j : k \in 1..(p - 1)
      BY <1>1, <1>5, <2>1, <3>2
    <3>. QED
      BY <1>5, <3>2, <3>3
  <2>2. CASE i = p
    <3>0. c \in CallIds(r, n)
      BY <1>2, <1>5, <2>2
    <3>1. PICK k \in 1..n : c = CallId(r, k)
      BY <3>0 DEF CallIds
    <3>2. all[p + k] = answers[k] /\ answers[k].id = CallId(r, k)
      BY <1>3, <1>5
    <3>3. p + k \in (i + 1)..Len(all) /\ all[p + k].id = c
      BY <1>1, <1>5, <2>2, <3>1, <3>2
    <3>4. \A x \in (i + 1)..(p + k) : x \in (p + 1)..(p + n)
      BY <1>1, <2>2, <3>1
    <3>. QED
      BY <1>6, <3>3, <3>4
  <2>3. CASE i \in (p + 1)..(p + n)
    BY <1>6, <2>3
  <2>. QED
    BY <1>14, <2>0, <2>1, <2>2, <2>3
<1>10. AreApart(all)
  <2>. SUFFICES ASSUME NEW i \in 1..(p + n), NEW j \in 1..(p + n), all[i].role = "tool",
                       all[i].id = all[j].id
                PROVE  i = j
    BY <1>5 DEF AreApart
  <2>1. all[i].id # <<>> /\ i # p /\ j # p /\ all[j].role = "tool"
    <3>1. all[i].id # <<>>
      BY <1>5, <1>8 DEF AreMessages, IsMessage
    <3>2. all[j].role = "tool"
      BY <1>5, <1>8, <3>1 DEF AreMessages, IsMessage
    <3>. QED
      BY <1>2, <1>5, <3>1, <3>2
  <2>2. CASE i \in 1..(p - 1) /\ j \in 1..(p - 1)
    BY <1>1, <1>7, <2>2 DEF Kept, Paired, AreApart
  <2>3. CASE i \in 1..(p - 1) /\ j \in (p + 1)..(p + n)
    BY <1>6, <1>13, <2>3
  <2>4. CASE i \in (p + 1)..(p + n) /\ j \in 1..(p - 1)
    BY <1>6, <1>13, <2>1, <2>4
  <2>5. CASE i \in (p + 1)..(p + n) /\ j \in (p + 1)..(p + n)
    <3>1. i - p \in 1..n /\ j - p \in 1..n /\ answers[i - p].id = answers[j - p].id
      BY <1>6, <2>5
    <3>2. i - p = j - p
      BY <1>0, <3>1
    <3>. QED
      BY <1>1, <3>2
  <2>. QED
    BY <1>14, <2>1, <2>2, <2>3, <2>4, <2>5
<1>11. FollowTheirCalls(all, L)
  <2>. SUFFICES ASSUME NEW i \in 1..Len(all), all[i].role = "tool", all[i].id \notin L
                PROVE  \E b \in 1..(i - 1) : /\ all[b].role # "tool" /\ all[i].id \in all[b].calls
                                             /\ \A k \in (b + 1)..(i - 1) : all[k].role = "tool"
    BY DEF FollowTheirCalls
  <2>0. i \in 1..(p + n) /\ i \in Nat
    BY <1>1, <1>5
  <2>1. CASE i \in 1..(p - 1)
    <3>1. i \in 1..Len(front)
      BY <1>1, <2>1
    <3>2. PICK b \in 1..(i - 1) : /\ front[b].role # "tool" /\ front[i].id \in front[b].calls
                                  /\ \A k \in (b + 1)..(i - 1) : front[k].role = "tool"
      <4>1. front[i].role = "tool" /\ front[i].id \notin L
        BY <1>7, <2>1
      <4>. QED
        BY <3>1, <4>1 DEF Kept, FollowTheirCalls
    <3>3. b \in 1..(p - 1) /\ \A k \in (b + 1)..(i - 1) : k \in 1..(p - 1)
      BY <1>1, <2>0, <2>1
    <3>. QED
      BY <1>5, <2>1, <3>2, <3>3
  <2>2. CASE i = p
    BY <1>2, <1>5, <2>2
  <2>3. CASE i \in (p + 1)..(p + n)
    <3>1. p \in 1..(i - 1) /\ \A k \in (p + 1)..(i - 1) : k \in (p + 1)..(p + n)
      <4>1. p >= 1
        BY <1>1
      <4>. QED
        BY <1>1, <2>0, <2>3, <4>1
    <3>2. all[i].id \in all[p].calls /\ all[p].role # "tool"
      BY <1>2, <1>5, <1>6, <2>3
    <3>3. \A k \in (p + 1)..(i - 1) : all[k].role = "tool"
      BY <1>6, <3>1
    <3>. QED
      BY <3>1, <3>2, <3>3
  <2>. QED
    BY <1>14, <2>0, <2>1, <2>2, <2>3
<1>12. UpToRound(all, r)
  <2>. SUFFICES ASSUME NEW i \in 1..(p + n), all[i].role = "tool" PROVE NotAfter(all[i].id, r)
    BY <1>5 DEF UpToRound
  <2>1. CASE i \in 1..(p - 1)
    BY <1>13, <2>1
  <2>2. CASE i = p
    BY <1>2, <1>5, <2>2
  <2>3. CASE i \in (p + 1)..(p + n)
    BY <1>6, <2>3, ResultHasId, EarlierIds
  <2>. QED
    BY <1>14, <2>1, <2>2, <2>3
<1>. QED
  BY <1>8, <1>9, <1>10, <1>11, <1>12 DEF Kept, Paired

\* The message that called is the last one, after what the model was given.
Called(ms, L, r) ==
    /\ r \in Nat \ {0}
    /\ \E front : \E n \in Nat : \E size \in Nat :
          Kept(front, L, r - 1) /\ ms = Append(front, Talk!Calling(CallIds(r, n), size))

\* What is true of a conversation after each step.
TalkInv ==
    /\ Paired(history) /\ UpToRound(history, rounds)
    /\ AreMessages(messages) /\ AreMessages(past) /\ Fits(past)
    /\ pc \in {"idle", "model", "tools"}
    /\ rounds \in 0..MaxRounds /\ questions \in 0..MaxQuestions
    /\ pc = "model" => Kept(messages, lost, rounds)
    /\ pc = "tools" => Called(messages, lost, rounds)

\* No messages are well paired.
LEMMA NoneArePaired ==
    /\ Paired(<<>>) /\ \A r : UpToRound(<<>>, r)
    /\ Fits(<<>>)
<1>1. <<>> \in Seq(TalkMessage) /\ Len(<<>>) = 0 /\ 1..0 = {} /\ 0 <= 1
  OBVIOUS
<1>. QED
  BY <1>1 DEF Paired, AreMessages, HaveResults, AreApart, UpToRound, Fits

\* A conversation that was up to a round is up to the next.
LEMMA LaterRound ==
    ASSUME NEW ms, AreMessages(ms), NEW r \in Nat, UpToRound(ms, r)
    PROVE  UpToRound(ms, r + 1)
<1>. SUFFICES ASSUME NEW i \in 1..Len(ms), ms[i].role = "tool" PROVE NotAfter(ms[i].id, r + 1)
  BY DEF UpToRound
<1>1. ms[i].id \in Ids
  BY ResultHasId DEF AreMessages
<1>2. NotAfter(ms[i].id, r)
  BY DEF UpToRound
<1>3. r + 1 \in Nat /\ r < r + 1
  OBVIOUS
<1>. QED
  BY <1>1, <1>2, <1>3, EarlierIds

\* What is trimmed is paired as well as what was there.
LEMMA TrimmedKeeps ==
    ASSUME HistoryBudget \in Nat, NEW ms, NEW L, NEW r \in Nat, Kept(ms, L, r)
    PROVE  Kept(Talk!TrimHistory(ms), L, r) /\ Fits(Talk!TrimHistory(ms))
<1>. DEFINE t == Talk!TrimHistory(ms)
<1>1. Paired(ms) /\ FollowTheirCalls(ms, L) /\ UpToRound(ms, r)
  BY DEF Kept
<1>2. (\E D, e, first : Thins(t, ms, D, e, first)) /\ Fits(t)
  BY <1>1, TrimmedFits
<1>. HIDE DEF t
<1>3. PICK D, e, first : Thins(t, ms, D, e, first)
  BY <1>2
<1>4. Kept(t, L, r)
  BY <1>1, <1>3, ThinsKeeps DEF Kept
<1>. QED
  BY <1>2, <1>4 DEF t

\* Ask keeps TalkInv.
LEMMA AskKeepsTalk ==
    ASSUME TalkConstants, TalkInv, NEW size \in Sizes, Talk!Ask(size)
    PROVE  TalkInv'
<1>. DEFINE s == IF Len(history) > Keep THEN Len(history) - Keep + 1 ELSE 1
            these == Talk!LastMessages
            first == Talk!Text("system", 1)
            question == Talk!Text("user", size)
<1>1. /\ past' = Talk!TrimHistory(these)
      /\ messages' = <<first>> \o past' \o <<question>>
      /\ lost' = {these[i].id : i \in Talk!Results(these)} \ Talk!CallsIn(these)
      /\ pc' = "model" /\ questions' = questions + 1 /\ questions < MaxQuestions
      /\ history' = history /\ rounds' = rounds
  BY DEF Talk!Ask
<1>2. HistoryBudget \in Nat /\ Keep \in Nat /\ size \in Nat /\ rounds \in Nat
      /\ questions' \in 0..MaxQuestions
  <2>1. HistoryBudget \in Nat /\ Keep \in Nat /\ size \in Nat /\ MaxQuestions \in Nat
        /\ MaxRounds \in Nat
    BY DEF TalkConstants
  <2>2. rounds \in 0..MaxRounds /\ questions \in 0..MaxQuestions
    BY DEF TalkInv
  <2>. QED
    BY <1>1, <2>1, <2>2
<1>3. Paired(history) /\ UpToRound(history, rounds) /\ Len(history) \in Nat
  BY DEF TalkInv, Paired, AreMessages
<1>4. s \in 1..(Len(history) + 1) /\ these = SubSeq(history, s, Len(history))
  BY <1>2, <1>3 DEF Talk!LastMessages
<1>. HIDE DEF s, these, first, question
<1>5. Kept(these, lost', rounds)
  BY <1>1, <1>2, <1>3, <1>4, LastOnes DEF Kept
<1>6. Kept(past', lost', rounds) /\ Fits(past')
  BY <1>1, <1>2, <1>5, TrimmedKeeps
<1>7. /\ IsMessage(first) /\ first.role # "tool" /\ first.calls = {}
      /\ IsMessage(question) /\ question.role # "tool" /\ question.calls = {}
  BY <1>2, WhatTheyAre DEF first, question
<1>8. Kept(messages', lost', rounds)
  <2>. DEFINE all == messages'
              given == past'
              L == lost'
  <2>1. all = Wrapped(first, given, question)
    BY <1>1 DEF Wrapped
  <2>2. Paired(given) /\ FollowTheirCalls(given, L) /\ UpToRound(given, rounds)
    BY <1>6 DEF Kept
  <2>. HIDE DEF all, given, L
  <2>3. /\ Paired(all) /\ FollowTheirCalls(all, L)
        /\ \A r \in Nat : UpToRound(given, r) => UpToRound(all, r)
    BY <1>7, <2>1, <2>2, WrappedKeeps
  <2>. QED
    BY <1>2, <2>2, <2>3 DEF Kept, all, L
<1>9. AreMessages(messages') /\ AreMessages(past')
  BY <1>6, <1>8 DEF Kept, Paired
<1>10. Paired(history)' /\ UpToRound(history, rounds)' /\ AreMessages(messages)'
       /\ AreMessages(past)' /\ Fits(past)' /\ Kept(messages, lost, rounds)'
  BY <1>1, <1>3, <1>6, <1>8, <1>9
<1>11. pc' \in {"idle", "model", "tools"} /\ rounds' \in 0..MaxRounds /\ pc' # "tools"
  BY <1>1 DEF TalkInv
<1>. QED
  BY <1>2, <1>10, <1>11 DEF TalkInv

\* CallTools keeps TalkInv.
LEMMA CallToolsKeepsTalk ==
    ASSUME TalkConstants, TalkInv, NEW n \in 1..MaxParallel, Talk!CallTools(n, 1)
    PROVE  TalkInv'
<1>1. /\ pc = "model" /\ rounds < MaxRounds /\ rounds' = rounds + 1
      /\ messages' = Append(messages, Talk!Calling({<<rounds', k>> : k \in 1..n}, 1))
      /\ pc' = "tools" /\ history' = history /\ past' = past /\ questions' = questions
      /\ lost' = lost
  BY DEF Talk!CallTools
<1>2. n \in Nat /\ rounds \in Nat /\ rounds' \in Nat \ {0} /\ rounds' - 1 = rounds
      /\ rounds' \in 0..MaxRounds
  BY <1>1 DEF TalkConstants, TalkInv
<1>3. messages' = Append(messages, Talk!Calling(CallIds(rounds', n), 1))
  BY <1>1 DEF CallIds, CallId
<1>4. Kept(messages, lost, rounds)
  BY <1>1 DEF TalkInv
<1>5. Called(messages', lost', rounds')
  <2>1. lost' = lost /\ 1 \in Nat
    BY <1>1
  <2>2. Kept(messages, lost', rounds' - 1)
    BY <1>2, <1>4, <2>1
  <2>. QED
    BY <1>2, <1>3, <2>1, <2>2 DEF Called
<1>6. AreMessages(messages')
  <2>. DEFINE calling == Talk!Calling(CallIds(rounds', n), 1)
  <2>1. IsMessage(calling)
    BY <1>2, CallIdsAre, WhatTheyAre
  <2>2. calling \in TalkMessage
    BY <2>1 DEF IsMessage
  <2>. HIDE DEF calling
  <2>3. messages \in Seq(TalkMessage) /\ \A i \in 1..Len(messages) : IsMessage(messages[i])
    BY DEF TalkInv, AreMessages
  <2>4. messages' = Append(messages, calling)
    BY <1>3 DEF calling
  <2>5. /\ messages' \in Seq(TalkMessage) /\ Len(messages') = Len(messages) + 1
        /\ \A i \in 1..Len(messages) : messages'[i] = messages[i]
        /\ messages'[Len(messages) + 1] = calling
    BY <2>2, <2>3, <2>4, AppendProperties
  <2>6. \A i \in 1..Len(messages') : i \in 1..Len(messages) \/ i = Len(messages) + 1
    <3>1. Len(messages) \in Nat
      BY <2>3
    <3>. QED
      BY <2>5, <3>1
  <2>. QED
    BY <2>1, <2>3, <2>5, <2>6 DEF AreMessages
<1>7. UpToRound(history, rounds')
  BY <1>1, <1>2, LaterRound DEF TalkInv, Paired
<1>8. Paired(history)' /\ UpToRound(history, rounds)' /\ AreMessages(messages)'
      /\ AreMessages(past)' /\ Fits(past)' /\ Called(messages, lost, rounds)'
  <2>1. Paired(history) /\ AreMessages(past) /\ Fits(past)
    BY DEF TalkInv
  <2>. QED
    BY <1>1, <1>5, <1>6, <1>7, <2>1
<1>9. pc' \in {"idle", "model", "tools"} /\ questions' \in 0..MaxQuestions /\ pc' # "model"
  BY <1>1 DEF TalkInv
<1>. QED
  BY <1>2, <1>8, <1>9 DEF TalkInv

\* AppendResults keeps TalkInv.
LEMMA AppendResultsKeepsTalk ==
    ASSUME TalkConstants, TalkInv, NEW m \in 1..MaxParallel, NEW sizes \in [1..m -> Sizes],
           Talk!AppendResults(sizes)
    PROVE  TalkInv'
<1>1. /\ pc = "tools" /\ Len(sizes) = Cardinality(Talk!Last(messages).calls)
      /\ messages' = messages \o [k \in DOMAIN sizes |-> Talk!Result(<<rounds, k>>, sizes[k])]
      /\ pc' = "model" /\ history' = history /\ past' = past /\ rounds' = rounds
      /\ questions' = questions /\ lost' = lost
  BY TalkCounts DEF Talk!AppendResults
<1>2. Called(messages, lost, rounds)
  BY <1>1 DEF TalkInv
<1>3. rounds \in Nat \ {0}
  BY <1>2 DEF Called
<1>4. PICK front : \E n \in Nat : \E size \in Nat :
          Kept(front, lost, rounds - 1)
          /\ messages = Append(front, Talk!Calling(CallIds(rounds, n), size))
  BY <1>2 DEF Called
<1>5. PICK n \in Nat : \E size \in Nat :
          Kept(front, lost, rounds - 1)
          /\ messages = Append(front, Talk!Calling(CallIds(rounds, n), size))
  BY <1>4
<1>6. PICK size \in Nat :
          Kept(front, lost, rounds - 1)
          /\ messages = Append(front, Talk!Calling(CallIds(rounds, n), size))
  BY <1>5
<1>7. Len(sizes) = n
  <2>. DEFINE calling == Talk!Calling(CallIds(rounds, n), size)
  <2>1. /\ calling \in TalkMessage /\ calling.calls = CallIds(rounds, n)
        /\ Cardinality(CallIds(rounds, n)) = n
    BY <1>3, CallIdsAre, WhatTheyAre DEF IsMessage
  <2>. HIDE DEF calling
  <2>2. messages = Append(front, calling)
    BY <1>6 DEF calling
  <2>3. front \in Seq(TalkMessage)
    BY <1>6 DEF Kept, Paired, AreMessages
  <2>4. Len(messages) = Len(front) + 1 /\ messages[Len(front) + 1] = calling
    BY <2>1, <2>2, <2>3, AppendProperties
  <2>5. Talk!Last(messages) = calling
    BY <2>4 DEF Talk!Last
  <2>. QED
    BY <1>1, <2>1, <2>5
<1>8. n = m /\ sizes \in [1..n -> Nat] /\ DOMAIN sizes = 1..n
  <2>1. m \in Nat /\ Sizes \subseteq Nat
    BY DEF TalkConstants
  <2>2. Len(sizes) = m
    BY <2>1
  <2>3. n = m
    BY <1>7, <2>2
  <2>. QED
    BY <2>1, <2>3
<1>9. messages' = Append(front, Talk!Calling(CallIds(rounds, n), size))
                     \o ResultsOf(rounds, n, sizes)
  BY <1>1, <1>6, <1>8 DEF CallId, ResultsOf
<1>10. Kept(messages', lost, rounds)
  BY <1>3, <1>6, <1>8, <1>9, AnsweredKeeps
<1>11. AreMessages(messages')
  BY <1>10 DEF Kept, Paired
<1>12. Paired(history)' /\ UpToRound(history, rounds)' /\ AreMessages(messages)'
       /\ AreMessages(past)' /\ Fits(past)' /\ Kept(messages, lost, rounds)'
  <2>1. Paired(history) /\ AreMessages(past) /\ Fits(past) /\ UpToRound(history, rounds)
    BY DEF TalkInv
  <2>. QED
    BY <1>1, <1>10, <1>11, <2>1
<1>13. pc' \in {"idle", "model", "tools"} /\ questions' \in 0..MaxQuestions
       /\ rounds' \in 0..MaxRounds /\ pc' # "tools"
  BY <1>1 DEF TalkInv
<1>. QED
  BY <1>12, <1>13 DEF TalkInv

\* TalkInv is inductive.
LEMMA TalkInvInductive == TalkConstants => (Talk!Spec => []TalkInv)
<1>. SUFFICES ASSUME TalkConstants PROVE Talk!Spec => []TalkInv
  OBVIOUS
<1>1. Talk!Init => TalkInv
  <2>. SUFFICES ASSUME Talk!Init PROVE TalkInv
    OBVIOUS
  <2>1. /\ history = <<>> /\ messages = <<>> /\ past = <<>> /\ pc = "idle"
        /\ rounds = 0 /\ questions = 0
    BY DEF Talk!Init
  <2>2. Paired(<<>>) /\ AreMessages(<<>>) /\ UpToRound(<<>>, rounds) /\ Fits(<<>>)
    BY NoneArePaired DEF Paired
  <2>3. rounds \in 0..MaxRounds /\ questions \in 0..MaxQuestions
    BY <2>1 DEF TalkConstants
  <2>. QED
    BY <2>1, <2>2, <2>3 DEF TalkInv
<1>2. TalkInv /\ [Talk!Next]_(Talk!historyVars) => TalkInv'
  <2>. SUFFICES ASSUME TalkInv, [Talk!Next]_(Talk!historyVars) PROVE TalkInv'
    OBVIOUS
  <2>1. CASE \E size \in Sizes : Talk!Ask(size)
    BY <2>1, AskKeepsTalk
  <2>2. CASE \E n \in 1..MaxParallel : Talk!CallTools(n, 1)
    BY <2>2, CallToolsKeepsTalk
  <2>3. CASE \E n \in 1..MaxParallel : \E sizes \in [1..n -> Sizes] : Talk!AppendResults(sizes)
    BY <2>3, AppendResultsKeepsTalk
  <2>4. CASE Talk!AnswerQuestion
    <3>1. /\ pc = "model" /\ history' = messages /\ pc' = "idle" /\ messages' = messages
          /\ past' = past /\ rounds' = rounds /\ questions' = questions /\ lost' = lost
      BY <2>4 DEF Talk!AnswerQuestion
    <3>2. Paired(messages) /\ UpToRound(messages, rounds)
      BY <3>1 DEF TalkInv, Kept
    <3>3. Paired(history)' /\ UpToRound(history, rounds)'
      BY <3>1, <3>2
    <3>4. AreMessages(messages)' /\ AreMessages(past)' /\ Fits(past)'
      <4>1. AreMessages(messages) /\ AreMessages(past) /\ Fits(past)
        BY DEF TalkInv
      <4>. QED
        BY <3>1, <4>1
    <3>5. pc' \in {"idle", "model", "tools"} /\ pc' # "model" /\ pc' # "tools"
          /\ rounds' \in 0..MaxRounds /\ questions' \in 0..MaxQuestions
      BY <3>1 DEF TalkInv
    <3>. QED
      BY <3>3, <3>4, <3>5 DEF TalkInv
  <2>5. CASE Talk!RunFails \/ UNCHANGED Talk!historyVars
    <3>1. /\ history' = history /\ messages' = messages /\ past' = past /\ rounds' = rounds
          /\ questions' = questions /\ lost' = lost /\ pc' \in {"idle", pc}
      BY <2>5 DEF Talk!RunFails, Talk!historyVars
    <3>2. Paired(history)' /\ UpToRound(history, rounds)'
          /\ AreMessages(messages)' /\ AreMessages(past)' /\ Fits(past)'
      <4>1. Paired(history) /\ UpToRound(history, rounds)
            /\ AreMessages(messages) /\ AreMessages(past) /\ Fits(past)
        BY DEF TalkInv
      <4>. QED
        BY <3>1, <4>1
    <3>3. (Kept(messages, lost, rounds) => Kept(messages, lost, rounds)')
          /\ (Called(messages, lost, rounds) => Called(messages, lost, rounds)')
      BY <3>1
    <3>4. pc' \in {"idle", "model", "tools"}
          /\ rounds' \in 0..MaxRounds /\ questions' \in 0..MaxQuestions
          /\ (pc' = "model" => pc = "model") /\ (pc' = "tools" => pc = "tools")
      BY <3>1 DEF TalkInv
    <3>5. (pc = "model" => Kept(messages, lost, rounds))
          /\ (pc = "tools" => Called(messages, lost, rounds))
      BY DEF TalkInv
    <3>. QED
      BY <3>2, <3>3, <3>4, <3>5 DEF TalkInv
  <2>. QED
    BY <2>1, <2>2, <2>3, <2>4, <2>5 DEF Talk!Next
<1>. QED
  BY <1>1, <1>2, PTL DEF Talk!Spec

\* What the invariant says of the messages is what the services run checks.
LEMMA TalkInvImplies ==
    ASSUME TalkInv
    PROVE  Talk!TypeOK /\ Talk!CallsKeepTheirResults /\ Talk!HistoryFits
<1>1. Talk!TypeOK
  <2>1. \A ms \in {history, messages, past} : AreMessages(ms)
    BY DEF TalkInv, Paired
  <2>2. \A ms : AreMessages(ms) => \A i \in DOMAIN ms :
          /\ ms[i].role \in {"system", "user", "assistant", "tool"}
          /\ ms[i].calls # {} => ms[i].role = "assistant"
          /\ (ms[i].role = "tool") = (ms[i].id # <<>>)
    <3>. SUFFICES ASSUME NEW ms, AreMessages(ms), NEW i \in DOMAIN ms
                  PROVE  /\ ms[i].role \in {"system", "user", "assistant", "tool"}
                         /\ ms[i].calls # {} => ms[i].role = "assistant"
                         /\ (ms[i].role = "tool") = (ms[i].id # <<>>)
      OBVIOUS
    <3>1. IsMessage(ms[i])
      BY DEF AreMessages
    <3>2. ms[i].role \in {"system", "user", "assistant", "tool"}
      BY <3>1 DEF IsMessage, TalkMessage
    <3>. QED
      BY <3>1, <3>2 DEF IsMessage
  <2>. QED
    BY <2>1, <2>2 DEF Talk!TypeOK, TalkInv
<1>2. Talk!HistoryFits
  BY DEF TalkInv, Fits, Talk!HistoryFits
<1>3. Talk!CallsKeepTheirResults
  <2>. SUFFICES ASSUME pc = "model", NEW i \in DOMAIN messages
                PROVE  /\ (messages[i].role = "tool" /\ messages[i].id \notin lost) =>
                            messages[i].id \in
                              messages[Talk!Max({j \in 1..(i - 1) : messages[j].role # "tool"})].calls
                       /\ \A c \in messages[i].calls : \E j \in (i + 1)..Len(messages) :
                            messages[j].id = c /\ \A k \in (i + 1)..j : messages[k].role = "tool"
    BY DEF Talk!CallsKeepTheirResults
  <2>1. HaveResults(messages) /\ FollowTheirCalls(messages, lost)
    BY DEF TalkInv, Kept, Paired
  <2>2. i \in 1..Len(messages) /\ Len(messages) \in Nat /\ i \in Nat
    <3>1. messages \in Seq(TalkMessage)
      BY DEF TalkInv, AreMessages
    <3>. QED
      BY <3>1
  <2>3. ASSUME messages[i].role = "tool", messages[i].id \notin lost
        PROVE  messages[i].id \in
                  messages[Talk!Max({j \in 1..(i - 1) : messages[j].role # "tool"})].calls
    <3>. DEFINE those == {j \in 1..(i - 1) : messages[j].role # "tool"}
    <3>1. PICK b \in 1..(i - 1) :
             /\ messages[b].role # "tool" /\ messages[i].id \in messages[b].calls
             /\ \A k \in (b + 1)..(i - 1) : messages[k].role = "tool"
      BY <2>1, <2>2, <2>3 DEF FollowTheirCalls
    <3>2. b \in those /\ those \in SUBSET Nat
      BY <2>2, <3>1
    <3>3. \A j \in those : b >= j
      <4>. SUFFICES ASSUME NEW j \in those, ~ (b >= j) PROVE FALSE
        OBVIOUS
      <4>1. j \in (b + 1)..(i - 1)
        BY <2>2, <3>2
      <4>. QED
        BY <3>1, <4>1
    <3>. HIDE DEF those
    <3>4. Talk!Max(those) \in those /\ \A j \in those : Talk!Max(those) >= j
      BY <3>2, <3>3 DEF Talk!Max
    <3>5. Talk!Max(those) >= b /\ b >= Talk!Max(those) /\ b \in Nat /\ Talk!Max(those) \in Nat
      BY <3>2, <3>3, <3>4
    <3>6. Talk!Max(those) = b
      BY <3>5
    <3>. QED
      BY <3>1, <3>6 DEF those
  <2>. QED
    BY <2>1, <2>2, <2>3 DEF HaveResults
<1>. QED
  BY <1>1, <1>2, <1>3

\* Whatever is trimmed of the history of a conversation, the model is given every result right
\* after its call and every call with its result, but for the results whose call the stream cut
\* off, and a history within the budget or of one message.
THEOREM CallsKeepTheirResultsCorrect ==
    TalkConstants =>
      (Talk!Spec => [](Talk!TypeOK /\ Talk!CallsKeepTheirResults /\ Talk!HistoryFits))
<1>1. TalkInv => Talk!TypeOK /\ Talk!CallsKeepTheirResults /\ Talk!HistoryFits
  BY TalkInvImplies
<1>. QED
  BY <1>1, TalkInvInductive, PTL

-----------------------------------------------------------------------------
(* The queries that walk the graph *)

\* What may be done to a value of S at each of N steps.
StepsOn(S, N) == [(1..N) \X S -> S]

\* f[i] is what x comes to after i of the steps F.
IsIteration(f, F, x, S, N) ==
    f \in [0..N -> S] /\ f[0] = x /\ \A i \in 1..N : f[i] = F[<<i, f[i - 1]>>]

\* Whatever is done at each step, there is the function of what it comes to.
LEMMA StepsExist ==
    ASSUME NEW N \in Nat, NEW S, NEW x \in S, NEW F \in StepsOn(S, N)
    PROVE  \E f : IsIteration(f, F, x, S, N)
<1>0. F \in [(1..N) \X S -> S]
  BY DEF StepsOn
<1>. DEFINE A == {n \in 0..N : \E f \in [0..N -> S] : f[0] = x /\ \A i \in 1..n : f[i] = F[<<i, f[i - 1]>>]}
<1>1. 0 \in A
  <2>. DEFINE f == [i \in 0..N |-> x]
  <2>1. f \in [0..N -> S] /\ f[0] = x /\ 1..0 = {} /\ 0 \in 0..N
    OBVIOUS
  <2>. HIDE DEF f
  <2>. QED
    BY <2>1
<1>2. ASSUME NEW n \in 1..N, n - 1 \in A PROVE n \in A
  <2>1. PICK f \in [0..N -> S] : f[0] = x /\ \A i \in 1..(n - 1) : f[i] = F[<<i, f[i - 1]>>]
    BY <1>2
  <2>. DEFINE y == F[<<n, f[n - 1]>>]
              g == [i \in 0..N |-> IF i = n THEN y ELSE f[i]]
  <2>2. y \in S
    <3>1. f[n - 1] \in S
      BY <2>1
    <3>. QED
      BY <1>0, <3>1
  <2>. HIDE DEF y
  <2>3. g \in [0..N -> S] /\ g[0] = x
    BY <2>1, <2>2
  <2>4. ASSUME NEW i \in 1..n PROVE g[i] = F[<<i, g[i - 1]>>]
    <3>1. i - 1 \in 0..N /\ i - 1 # n /\ g[i - 1] = f[i - 1] /\ i \in 0..N
      OBVIOUS
    <3>2. CASE i = n
      BY <3>1, <3>2 DEF y
    <3>3. CASE i # n
      <4>1. i \in 1..(n - 1) /\ g[i] = f[i]
        BY <3>1, <3>3
      <4>. QED
        BY <2>1, <3>1, <4>1
    <3>. QED
      BY <3>2, <3>3
  <2>. HIDE DEF g
  <2>5. n \in 0..N
    OBVIOUS
  <2>. QED
    BY <2>3, <2>4, <2>5
<1>3. \A n \in 0..N : n \in A
  <2>. HIDE DEF A
  <2>. QED
    BY <1>1, <1>2, Reaches
<1>4. N \in A
  <2>. HIDE DEF A
  <2>. QED
    BY <1>3
<1>. QED
  BY <1>4 DEF IsIteration

\* What one more step along the relationships of es reaches.
Onward(es, s) == s \cup {e.o : e \in {d \in es : d.s \in s}}

\* What the relationships of es that touch s join to it.
Outward(es, s) == s \cup Traversal!Ends(Traversal!Touching(es, s))

\* ball[i] is what is within i steps of n along the relationships of es.
IsWithin(ball, es, n, k) ==
    /\ ball \in [0..k -> SUBSET Nodes] /\ ball[0] = {n}
    /\ \A i \in 1..k : ball[i] = Onward(es, ball[i - 1])

\* hood[i] is what is within i steps of n in any direction.
IsAround(hood, es, n, k) ==
    /\ hood \in [0..k -> SUBSET Nodes] /\ hood[0] = {n}
    /\ \A i \in 1..k : hood[i] = Outward(es, hood[i - 1])

\* The reference definitions' functions are these.
LEMMA BallsAre ==
    ASSUME NEW es \in SUBSET Traversal!Edges, NEW n \in Nodes, NEW k \in Nat
    PROVE  IsWithin(Traversal!Balls(es, n, k), es, n, k)
<1>. DEFINE S == SUBSET Nodes
            F == [y \in (1..k) \X S |-> Onward(es, y[2])]
            Is(b) == b = [i \in 0..k |-> IF i = 0 THEN {n} ELSE b[i - 1] \cup {e.o : e \in {d \in es : d.s \in b[i - 1]}}]
            ball == CHOOSE b : Is(b)
<1>1. {n} \in S /\ \A s \in S : Onward(es, s) \in S
  BY DEF Onward, Traversal!Edges
<1>. HIDE DEF S
<1>2. F \in StepsOn(S, k)
  BY <1>1 DEF StepsOn
<1>3. PICK f : f \in [0..k -> S] /\ f[0] = {n} /\ \A i \in 1..k : f[i] = F[<<i, f[i - 1]>>]
  <2>1. \E f : IsIteration(f, F, {n}, S, k)
    <3>. HIDE DEF F
    <3>. QED
      BY <1>1, <1>2, StepsExist
  <2>. HIDE DEF F
  <2>. QED
    BY <2>1 DEF IsIteration
<1>4. ASSUME NEW i \in 1..k PROVE f[i] = Onward(es, f[i - 1])
  <2>1. f[i - 1] \in S /\ <<i, f[i - 1]>> \in (1..k) \X S
    BY <1>3
  <2>. QED
    BY <1>3, <2>1
<1>5. ASSUME NEW b PROVE Is(b) <=> b = [i \in 0..k |-> IF i = 0 THEN {n} ELSE Onward(es, b[i - 1])]
  <2>1. \A i \in 0..k : b[i - 1] \cup {e.o : e \in {d \in es : d.s \in b[i - 1]}} = Onward(es, b[i - 1])
    BY DEF Onward
  <2>. QED
    BY <2>1
<1>6. Is(f)
  <2>1. \A i \in 0..k : f[i] = IF i = 0 THEN {n} ELSE Onward(es, f[i - 1])
    BY <1>3, <1>4
  <2>2. f = [i \in 0..k |-> f[i]]
    BY <1>3
  <2>3. f = [i \in 0..k |-> IF i = 0 THEN {n} ELSE Onward(es, f[i - 1])]
    BY <2>1, <2>2
  <2>. HIDE DEF Is
  <2>. QED
    BY <1>5, <2>3
<1>7. Is(ball)
  <2>1. Is(f)
    BY <1>6
  <2>. HIDE DEF Is
  <2>. QED
    BY <2>1
<1>8. Traversal!Balls(es, n, k) = ball
  BY DEF Traversal!Balls
<1>. HIDE DEF ball
<1>9. ball = [i \in 0..k |-> IF i = 0 THEN {n} ELSE Onward(es, ball[i - 1])]
  <2>. HIDE DEF Is
  <2>. QED
    BY <1>5, <1>7
<1>10. \A i \in 0..k : ball[i] = IF i = 0 THEN {n} ELSE Onward(es, ball[i - 1])
  BY <1>9
<1>. DEFINE A == {i \in 0..k : ball[i] \in S}
<1>11. \A i \in 0..k : i \in A
  <2>1. 0 \in A
    <3>1. 0 \in 0..k /\ ball[0] = {n}
      BY <1>10
    <3>. QED
      BY <1>1, <3>1
  <2>2. ASSUME NEW i \in 1..k, i - 1 \in A PROVE i \in A
    BY <1>1, <1>10, <2>2
  <2>. HIDE DEF A
  <2>. QED
    BY <2>1, <2>2, Reaches
<1>12. ball \in [0..k -> S]
  BY <1>9, <1>11
<1>. QED
  BY <1>8, <1>10, <1>12 DEF IsWithin, S

\* And so for the neighbourhoods.
LEMMA HoodsAre ==
    ASSUME NEW es \in SUBSET Traversal!Edges, NEW n \in Nodes, NEW k \in Nat
    PROVE  IsAround(Traversal!Hoods(es, n, k), es, n, k)
<1>. DEFINE S == SUBSET Nodes
            F == [y \in (1..k) \X S |-> Outward(es, y[2])]
            Is(b) == b = [i \in 0..k |-> IF i = 0 THEN {n} ELSE b[i - 1] \cup Traversal!Ends(Traversal!Touching(es, b[i - 1]))]
            ball == CHOOSE b : Is(b)
<1>1. {n} \in S /\ \A s \in S : Outward(es, s) \in S
  BY DEF Outward, Traversal!Edges, Traversal!Ends, Traversal!Touching
<1>. HIDE DEF S
<1>2. F \in StepsOn(S, k)
  BY <1>1 DEF StepsOn
<1>3. PICK f : f \in [0..k -> S] /\ f[0] = {n} /\ \A i \in 1..k : f[i] = F[<<i, f[i - 1]>>]
  <2>1. \E f : IsIteration(f, F, {n}, S, k)
    <3>. HIDE DEF F
    <3>. QED
      BY <1>1, <1>2, StepsExist
  <2>. HIDE DEF F
  <2>. QED
    BY <2>1 DEF IsIteration
<1>4. ASSUME NEW i \in 1..k PROVE f[i] = Outward(es, f[i - 1])
  <2>1. f[i - 1] \in S /\ <<i, f[i - 1]>> \in (1..k) \X S
    BY <1>3
  <2>. QED
    BY <1>3, <2>1
<1>5. ASSUME NEW b PROVE Is(b) <=> b = [i \in 0..k |-> IF i = 0 THEN {n} ELSE Outward(es, b[i - 1])]
  <2>1. \A i \in 0..k : b[i - 1] \cup Traversal!Ends(Traversal!Touching(es, b[i - 1])) = Outward(es, b[i - 1])
    BY DEF Outward
  <2>. QED
    BY <2>1
<1>6. Is(f)
  <2>1. \A i \in 0..k : f[i] = IF i = 0 THEN {n} ELSE Outward(es, f[i - 1])
    BY <1>3, <1>4
  <2>2. f = [i \in 0..k |-> f[i]]
    BY <1>3
  <2>3. f = [i \in 0..k |-> IF i = 0 THEN {n} ELSE Outward(es, f[i - 1])]
    BY <2>1, <2>2
  <2>. HIDE DEF Is
  <2>. QED
    BY <1>5, <2>3
<1>7. Is(ball)
  <2>1. Is(f)
    BY <1>6
  <2>. HIDE DEF Is
  <2>. QED
    BY <2>1
<1>8. Traversal!Hoods(es, n, k) = ball
  BY DEF Traversal!Hoods
<1>. HIDE DEF ball
<1>9. ball = [i \in 0..k |-> IF i = 0 THEN {n} ELSE Outward(es, ball[i - 1])]
  <2>. HIDE DEF Is
  <2>. QED
    BY <1>5, <1>7
<1>10. \A i \in 0..k : ball[i] = IF i = 0 THEN {n} ELSE Outward(es, ball[i - 1])
  BY <1>9
<1>. DEFINE A == {i \in 0..k : ball[i] \in S}
<1>11. \A i \in 0..k : i \in A
  <2>1. 0 \in A
    <3>1. 0 \in 0..k /\ ball[0] = {n}
      BY <1>10
    <3>. QED
      BY <1>1, <3>1
  <2>2. ASSUME NEW i \in 1..k, i - 1 \in A PROVE i \in A
    BY <1>1, <1>10, <2>2
  <2>. HIDE DEF A
  <2>. QED
    BY <2>1, <2>2, Reaches
<1>12. ball \in [0..k -> S]
  BY <1>9, <1>11
<1>. QED
  BY <1>8, <1>10, <1>12 DEF IsAround, S

\* level[h] is what find_connections has walked after h steps.
IsRows(level, es, n, max) ==
    /\ level \in [1..max + 1 -> SUBSET Seq(es)]
    /\ level[1] = {<<e>> : e \in {d \in es : d.s = n}}
    /\ \A h \in 1..max : level[h + 1] = IF h < max THEN Traversal!NextRows(es, level[h]) ELSE {}

\* The recursive query computes this.
LEMMA PathRowsAre ==
    ASSUME NEW es, NEW n, NEW max \in Nat
    PROVE  IsRows(Traversal!PathRows(es, n, max), es, n, max)
<1>. DEFINE S == SUBSET Seq(es)
            first == {<<e>> : e \in {d \in es : d.s = n}}
            Next1(i, s) == IF Traversal!MayExpand(i, max) THEN Traversal!NextRows(es, s) ELSE {}
            F == [y \in (1..max) \X S |-> Next1(y[1], y[2])]
            Is(b) == b = [h \in 1..max + 1 |-> IF h = 1 THEN first ELSE Next1(h - 1, b[h - 1])]
            level == CHOOSE b : Is(b)
<1>1. first \in S /\ \A s \in S, i \in Nat : Next1(i, s) \in S
  <2>1. first \in S
    <3>1. \A e \in es : <<e>> \in Seq(es)
      OBVIOUS
    <3>. QED
      BY <3>1
  <2>2. \A s \in S : Traversal!NextRows(es, s) \in S
    <3>1. \A p \in Seq(es), e \in es : Append(p, e) \in Seq(es)
      OBVIOUS
    <3>. QED
      BY <3>1 DEF Traversal!NextRows
  <2>. QED
    BY <2>1, <2>2
<1>. HIDE DEF S, first, Next1
<1>2. F \in StepsOn(S, max)
  <2>1. \A y \in (1..max) \X S : Next1(y[1], y[2]) \in S
    BY <1>1
  <2>. QED
    BY <2>1 DEF StepsOn
<1>3. PICK f : f \in [0..max -> S] /\ f[0] = first /\ \A i \in 1..max : f[i] = F[<<i, f[i - 1]>>]
  <2>1. \E f : IsIteration(f, F, first, S, max)
    <3>. HIDE DEF F
    <3>. QED
      BY <1>1, <1>2, StepsExist
  <2>. HIDE DEF F
  <2>. QED
    BY <2>1 DEF IsIteration
<1>4. ASSUME NEW i \in 1..max PROVE f[i] = Next1(i, f[i - 1])
  <2>1. f[i - 1] \in S /\ <<i, f[i - 1]>> \in (1..max) \X S
    BY <1>3
  <2>. QED
    BY <1>3, <2>1
<1>. DEFINE g == [h \in 1..max + 1 |-> f[h - 1]]
<1>5. Is(g)
  <2>1. \A h \in 1..max + 1 : g[h] = IF h = 1 THEN first ELSE Next1(h - 1, g[h - 1])
    <3>. SUFFICES ASSUME NEW h \in 1..max + 1
                  PROVE  g[h] = IF h = 1 THEN first ELSE Next1(h - 1, g[h - 1])
      OBVIOUS
    <3>1. h # 1 => h - 1 \in 1..max /\ h - 1 \in 1..max + 1 /\ g[h - 1] = f[(h - 1) - 1]
      OBVIOUS
    <3>2. g[h] = f[h - 1]
      OBVIOUS
    <3>. HIDE DEF g
    <3>. QED
      BY <1>3, <1>4, <3>1, <3>2
  <2>2. g = [h \in 1..max + 1 |-> g[h]]
    OBVIOUS
  <2>. HIDE DEF g
  <2>. QED
    BY <2>1, <2>2
<1>. HIDE DEF g
<1>6. Is(level)
  <2>1. Is(g)
    BY <1>5
  <2>. HIDE DEF Is
  <2>. QED
    BY <2>1
<1>7. Traversal!PathRows(es, n, max) = level
  BY DEF Traversal!PathRows, first, Next1
<1>. HIDE DEF level
<1>8. \A h \in 1..max + 1 : level[h] = IF h = 1 THEN first ELSE Next1(h - 1, level[h - 1])
  BY <1>6
<1>. DEFINE A == {i \in 0..max : level[i + 1] \in S}
<1>9. \A i \in 0..max : i \in A
  <2>1. 0 \in A
    <3>1. 0 \in 0..max /\ 0 + 1 \in 1..max + 1 /\ level[0 + 1] = first
      BY <1>8
    <3>. QED
      BY <1>1, <3>1
  <2>2. ASSUME NEW i \in 1..max, i - 1 \in A PROVE i \in A
    <3>1. i \in 0..max /\ i + 1 \in 1..max + 1 /\ i + 1 # 1 /\ (i + 1) - 1 = i /\ (i - 1) + 1 = i
      OBVIOUS
    <3>2. level[i + 1] = Next1(i, level[i])
      BY <1>8, <3>1
    <3>3. level[i] \in S
      BY <2>2, <3>1
    <3>. QED
      BY <1>1, <3>1, <3>2, <3>3
  <2>. HIDE DEF A
  <2>. QED
    BY <2>1, <2>2, Reaches
<1>10. level \in [1..max + 1 -> S]
  <2>1. \A h \in 1..max + 1 : h - 1 \in A /\ (h - 1) + 1 = h
    BY <1>9
  <2>. QED
    BY <1>6, <2>1
<1>11. level[1] = first /\ \A h \in 1..max : level[h + 1] = Next1(h, level[h])
  BY <1>8
<1>. QED
  BY <1>7, <1>10, <1>11 DEF IsRows, S, first, Next1, Traversal!MayExpand

\* A walk of db_get_neighbors: the relationship it came by, where it is and how far.
WalksOver(es) == [rel : es, to : Nodes, hop : Nat]

\* What the walks of s go on to at step h.
GoOn(es, s, h) ==
    {[rel |-> x[1], to |-> Traversal!OtherEnd(x[1], x[2].to), hop |-> h] :
        x \in {y \in es \X s : Traversal!Touches(y[1], {y[2].to}) /\ y[1] # y[2].rel}}

\* The walks of one step.
StartOut(es, n) ==
    {[rel |-> e, to |-> Traversal!OtherEnd(e, n), hop |-> 1] : e \in Traversal!Touching(es, {n})}

\* walk[h] is the walks of h steps from n.
IsWalks(walk, es, n, depth) ==
    /\ walk \in [1..depth -> SUBSET WalksOver(es)] /\ walk[1] = StartOut(es, n)
    /\ \A h \in 1..(depth - 1) : walk[h + 1] = GoOn(es, walk[h], h + 1)

\* The recursive query computes this.
LEMMA WalksAre ==
    ASSUME NEW es \in SUBSET Traversal!Edges, NEW n \in Nodes, NEW depth \in Nat \ {0}
    PROVE  IsWalks(Traversal!Walks(es, n, depth), es, n, depth)
<1>. DEFINE N == depth - 1
            S == SUBSET WalksOver(es)
            first == StartOut(es, n)
            F == [y \in (1..N) \X S |-> GoOn(es, y[2], y[1] + 1)]
            Is(b) == b = [h \in 1..depth |-> IF h = 1 THEN first ELSE GoOn(es, b[h - 1], h)]
            walk == CHOOSE b : Is(b)
<1>0. N \in Nat
  OBVIOUS
<1>1. first \in S /\ \A s \in S, i \in Nat : GoOn(es, s, i) \in S
  <2>1. \A e \in es : \A m : Traversal!OtherEnd(e, m) \in Nodes
    BY DEF Traversal!OtherEnd, Traversal!Edges
  <2>2. first \in S
    BY <2>1 DEF StartOut, WalksOver, Traversal!Touching
  <2>3. ASSUME NEW s \in S, NEW i \in Nat PROVE GoOn(es, s, i) \in S
    <3>1. \A x \in es \X s : [rel |-> x[1], to |-> Traversal!OtherEnd(x[1], x[2].to), hop |-> i]
                                \in WalksOver(es)
      BY <2>1 DEF WalksOver
    <3>. QED
      BY <3>1 DEF GoOn, S
  <2>. QED
    BY <2>2, <2>3
<1>. HIDE DEF S, first, N
<1>2. F \in StepsOn(S, N)
  <2>1. \A y \in (1..N) \X S : y[1] + 1 \in Nat /\ GoOn(es, y[2], y[1] + 1) \in S
    BY <1>1, <1>0
  <2>. QED
    BY <2>1 DEF StepsOn
<1>3. PICK f : f \in [0..N -> S] /\ f[0] = first /\ \A i \in 1..N : f[i] = F[<<i, f[i - 1]>>]
  <2>1. \E f : IsIteration(f, F, first, S, N)
    <3>. HIDE DEF F
    <3>. QED
      BY <1>0, <1>1, <1>2, StepsExist
  <2>. HIDE DEF F
  <2>. QED
    BY <2>1 DEF IsIteration
<1>4. ASSUME NEW i \in 1..N PROVE f[i] = GoOn(es, f[i - 1], i + 1)
  <2>1. f[i - 1] \in S /\ <<i, f[i - 1]>> \in (1..N) \X S
    BY <1>0, <1>3
  <2>. QED
    BY <1>3, <2>1
<1>. DEFINE g == [h \in 1..depth |-> f[h - 1]]
<1>5. Is(g)
  <2>1. \A h \in 1..depth : g[h] = IF h = 1 THEN first ELSE GoOn(es, g[h - 1], h)
    <3>. SUFFICES ASSUME NEW h \in 1..depth
                  PROVE  g[h] = IF h = 1 THEN first ELSE GoOn(es, g[h - 1], h)
      OBVIOUS
    <3>1. h # 1 => h - 1 \in 1..N /\ h - 1 \in 1..depth /\ g[h - 1] = f[(h - 1) - 1] /\ (h - 1) + 1 = h
      BY DEF N
    <3>2. g[h] = f[h - 1] /\ (h = 1 => h - 1 = 0)
      OBVIOUS
    <3>. HIDE DEF g
    <3>. QED
      BY <1>3, <1>4, <3>1, <3>2
  <2>2. g = [h \in 1..depth |-> g[h]]
    OBVIOUS
  <2>. HIDE DEF g
  <2>. QED
    BY <2>1, <2>2
<1>. HIDE DEF g
<1>6. Is(walk)
  <2>1. Is(g)
    BY <1>5
  <2>. HIDE DEF Is
  <2>. QED
    BY <2>1
<1>7. Traversal!Walks(es, n, depth) = walk
  BY DEF Traversal!Walks, first, GoOn, StartOut
<1>. HIDE DEF walk
<1>8. \A h \in 1..depth : walk[h] = IF h = 1 THEN first ELSE GoOn(es, walk[h - 1], h)
  BY <1>6
<1>. DEFINE A == {i \in 0..N : walk[i + 1] \in S}
<1>9. \A i \in 0..N : i \in A
  <2>1. 0 \in A
    <3>1. 0 \in 0..N /\ 0 + 1 \in 1..depth /\ walk[0 + 1] = first
      BY <1>0, <1>8 DEF N
    <3>. QED
      BY <1>1, <3>1
  <2>2. ASSUME NEW i \in 1..N, i - 1 \in A PROVE i \in A
    <3>1. i \in 0..N /\ i + 1 \in 1..depth /\ i + 1 # 1 /\ (i + 1) - 1 = i /\ (i - 1) + 1 = i
          /\ i + 1 \in Nat
      BY <1>0 DEF N
    <3>2. walk[i + 1] = GoOn(es, walk[i], i + 1)
      BY <1>8, <3>1
    <3>3. walk[i] \in S
      BY <2>2, <3>1
    <3>. QED
      BY <1>1, <3>1, <3>2, <3>3
  <2>. HIDE DEF A
  <2>. QED
    BY <1>0, <2>1, <2>2, Reaches
<1>10. walk \in [1..depth -> S]
  <2>1. \A h \in 1..depth : h - 1 \in A /\ (h - 1) + 1 = h
    BY <1>9 DEF N
  <2>. QED
    BY <1>6, <2>1
<1>11. walk[1] = first /\ \A h \in 1..(depth - 1) : walk[h + 1] = GoOn(es, walk[h], h + 1)
  BY <1>8
<1>. QED
  BY <1>7, <1>10, <1>11 DEF IsWalks, S, first

\* Each of the sets b[0], ..., b[k] holds the one before it.
IsGrowing(b, k) == b \in [0..k -> SUBSET Nodes] /\ \A i \in 1..k : b[i - 1] \subseteq b[i]

\* Then it holds all those before it.
LEMMA GrowingHolds ==
    ASSUME NEW k \in Nat, NEW b, IsGrowing(b, k)
    PROVE  \A j \in 0..k : \A i \in 0..j : b[i] \subseteq b[j]
<1>. DEFINE A == {j \in 0..k : \A i \in 0..j : b[i] \subseteq b[j]}
<1>1. 0 \in A
  OBVIOUS
<1>2. ASSUME NEW j \in 1..k, j - 1 \in A PROVE j \in A
  <2>1. \A i \in 0..j : i = j \/ i \in 0..(j - 1)
    OBVIOUS
  <2>2. b[j - 1] \subseteq b[j] /\ j \in 0..k
    BY DEF IsGrowing
  <2>. QED
    BY <1>2, <2>1, <2>2
<1>. HIDE DEF A
<1>3. \A j \in 0..k : j \in A
  BY <1>1, <1>2, Reaches
<1>. QED
  BY <1>3 DEF A

\* What is in one of them and not in the first comes in at one of them.
LEMMA ComesIn ==
    ASSUME NEW k \in Nat, NEW b, IsGrowing(b, k), NEW v, v \notin b[0]
    PROVE  \A j \in 0..k : v \in b[j] => \E i \in 1..j : v \in b[i] /\ v \notin b[i - 1]
<1>. DEFINE A == {j \in 0..k : v \in b[j] => \E i \in 1..j : v \in b[i] /\ v \notin b[i - 1]}
<1>1. 0 \in A
  OBVIOUS
<1>2. ASSUME NEW j \in 1..k, j - 1 \in A PROVE j \in A
  <2>1. j \in 0..k /\ j \in 1..j /\ \A i \in 1..(j - 1) : i \in 1..j
    OBVIOUS
  <2>2. CASE v \in b[j - 1]
    BY <1>2, <2>1, <2>2
  <2>3. CASE v \notin b[j - 1]
    BY <2>1, <2>3
  <2>. QED
    BY <2>2, <2>3
<1>. HIDE DEF A
<1>3. \A j \in 0..k : j \in A
  BY <1>1, <1>2, Reaches
<1>. QED
  BY <1>3 DEF A

\* The balls and the neighbourhoods grow.
LEMMA BothGrow ==
    ASSUME NEW es, NEW n, NEW k \in Nat, NEW b
    PROVE  IsWithin(b, es, n, k) \/ IsAround(b, es, n, k) => IsGrowing(b, k)
BY DEF IsWithin, IsAround, IsGrowing, Onward, Outward

\* They do not depend on how far they are computed.
LEMMA BallsAgree ==
    ASSUME NEW es, NEW n, NEW k \in Nat, NEW m \in 0..k, NEW b, NEW c
    PROVE  /\ IsWithin(b, es, n, k) /\ IsWithin(c, es, n, m) => \A i \in 0..m : b[i] = c[i]
           /\ IsAround(b, es, n, k) /\ IsAround(c, es, n, m) => \A i \in 0..m : b[i] = c[i]
<1>. DEFINE A == {i \in 0..m : b[i] = c[i]}
<1>1. ASSUME IsWithin(b, es, n, k), IsWithin(c, es, n, m) PROVE \A i \in 0..m : i \in A
  <2>1. 0 \in A
    <3>1. 0 \in 0..m /\ b[0] = {n} /\ c[0] = {n}
      BY <1>1 DEF IsWithin
    <3>. QED
      BY <3>1
  <2>2. ASSUME NEW i \in 1..m, i - 1 \in A PROVE i \in A
    <3>1. i \in 0..m /\ i \in 1..k /\ b[i - 1] = c[i - 1]
      BY <2>2
    <3>2. b[i] = Onward(es, b[i - 1])
      BY <1>1, <3>1 DEF IsWithin
    <3>3. c[i] = Onward(es, c[i - 1])
      BY <1>1 DEF IsWithin
    <3>. QED
      BY <3>1, <3>2, <3>3
  <2>. HIDE DEF A
  <2>. QED
    BY <2>1, <2>2, Reaches
<1>2. ASSUME IsAround(b, es, n, k), IsAround(c, es, n, m) PROVE \A i \in 0..m : i \in A
  <2>1. 0 \in A
    <3>1. 0 \in 0..m /\ b[0] = {n} /\ c[0] = {n}
      BY <1>2 DEF IsAround
    <3>. QED
      BY <3>1
  <2>2. ASSUME NEW i \in 1..m, i - 1 \in A PROVE i \in A
    <3>1. i \in 0..m /\ i \in 1..k /\ b[i - 1] = c[i - 1]
      BY <2>2
    <3>2. b[i] = Outward(es, b[i - 1])
      BY <1>2, <3>1 DEF IsAround
    <3>3. c[i] = Outward(es, c[i - 1])
      BY <1>2 DEF IsAround
    <3>. QED
      BY <3>1, <3>2, <3>3
  <2>. HIDE DEF A
  <2>. QED
    BY <2>1, <2>2, Reaches
<1>. QED
  BY <1>1, <1>2

\* The reference definitions, step by step: with the balls up to k computed, what is
\* within j <= k steps is the ball of j.
LEMMA WithinIsABall ==
    ASSUME NEW es \in SUBSET Traversal!Edges, NEW n \in Nodes, NEW k \in Nat
    PROVE  \E b : /\ IsWithin(b, es, n, k)
                  /\ \A j \in 0..k : Traversal!Within(es, n, j) = b[j]
<1>. DEFINE b == Traversal!Balls(es, n, k)
<1>1. IsWithin(b, es, n, k)
  BY BallsAre
<1>2. ASSUME NEW j \in 0..k PROVE Traversal!Within(es, n, j) = b[j]
  <2>. DEFINE c == Traversal!Balls(es, n, j)
  <2>1. j \in Nat /\ j \in 0..j
    OBVIOUS
  <2>2. IsWithin(c, es, n, j)
    BY <2>1, BallsAre
  <2>3. Traversal!Within(es, n, j) = c[j]
    BY DEF Traversal!Within
  <2>. HIDE DEF b, c
  <2>. QED
    BY <1>1, <2>1, <2>2, <2>3, BallsAgree
<1>. HIDE DEF b
<1>. QED
  BY <1>1, <1>2

\* And of the neighbourhoods.
LEMMA AroundIsAHood ==
    ASSUME NEW es \in SUBSET Traversal!Edges, NEW n \in Nodes, NEW k \in Nat
    PROVE  \E b : /\ IsAround(b, es, n, k)
                  /\ \A j \in 0..k : Traversal!Around(es, n, j) = b[j]
<1>. DEFINE b == Traversal!Hoods(es, n, k)
<1>1. IsAround(b, es, n, k)
  BY HoodsAre
<1>2. ASSUME NEW j \in 0..k PROVE Traversal!Around(es, n, j) = b[j]
  <2>. DEFINE c == Traversal!Hoods(es, n, j)
  <2>1. j \in Nat /\ j \in 0..j
    OBVIOUS
  <2>2. IsAround(c, es, n, j)
    BY <2>1, HoodsAre
  <2>3. Traversal!Around(es, n, j) = c[j]
    BY DEF Traversal!Around
  <2>. HIDE DEF b, c
  <2>. QED
    BY <1>1, <2>1, <2>2, <2>3, BallsAgree
<1>. HIDE DEF b
<1>. QED
  BY <1>1, <1>2

\* p leads from n along relationships of es.
IsPath(p, es, n) ==
    /\ p \in Seq(es) /\ Len(p) >= 1 /\ p[1].s = n
    /\ \A i \in 1..(Len(p) - 1) : p[i].o = p[i + 1].s

\* It has h of them, leaves what is within h - 1 steps and arrives within h.
PathOf(p, es, n, ball, h) ==
    /\ IsPath(p, es, n) /\ Len(p) = h
    /\ \A i \in 1..h : p[i].s \in ball[h - 1]
    /\ p[h].o \in ball[h]

\* The relationships found after h steps are paths of h relationships.
LEMMA RowsArePaths ==
    ASSUME NEW es \in SUBSET Traversal!Edges, NEW n \in Nodes, NEW max \in Nat,
           NEW level, IsRows(level, es, n, max), NEW ball, IsWithin(ball, es, n, max)
    PROVE  \A h \in 1..max : \A p \in level[h] : PathOf(p, es, n, ball, h)
<1>. DEFINE A == {h \in 0..max : h # 0 => \A p \in level[h] : PathOf(p, es, n, ball, h)}
<1>1. IsGrowing(ball, max)
  BY BothGrow
<1>2. ASSUME NEW h \in 1..max, h - 1 \in A PROVE h \in A
  <2>1. h \in Nat /\ h \in 0..max /\ h - 1 \in 0..max /\ h \in 1..max + 1 /\ ball[h] = Onward(es, ball[h - 1])
    BY DEF IsWithin
  <2>2. ball[h - 1] \subseteq ball[h]
    BY <1>1 DEF IsGrowing
  <2>3. CASE h = 1
    <3>. SUFFICES ASSUME NEW p \in level[1] PROVE PathOf(p, es, n, ball, 1)
      BY <2>1, <2>3
    <3>1. PICK e \in es : e.s = n /\ p = <<e>>
      BY DEF IsRows
    <3>2. p \in Seq(es) /\ Len(p) = 1 /\ p[1] = e
      BY <3>1
    <3>3. e.s \in ball[0] /\ e.o \in ball[1]
      BY <2>1, <2>3, <3>1 DEF IsWithin, Onward
    <3>4. \A i \in 1..1 : i = 1
      OBVIOUS
    <3>5. IsPath(p, es, n)
      BY <3>1, <3>2 DEF IsPath
    <3>. QED
      BY <3>2, <3>3, <3>4, <3>5 DEF PathOf
  <2>4. CASE h # 1
    <3>. DEFINE g == h - 1
    <3>1. g \in 1..max /\ g < max /\ g + 1 = h /\ g \in Nat /\ Len(<<>>) = 0
      BY <2>1, <2>4
    <3>2. \A q \in level[g] : PathOf(q, es, n, ball, g)
      BY <1>2, <3>1
    <3>3. level[h] = Traversal!NextRows(es, level[g])
      BY <3>1 DEF IsRows
    <3>. SUFFICES ASSUME NEW p \in level[h] PROVE PathOf(p, es, n, ball, h)
      BY <2>1
    <3>4. PICK q \in level[g], e \in es : Traversal!Last(q).o = e.s /\ p = Append(q, e)
      BY <3>3 DEF Traversal!NextRows
    <3>5. PathOf(q, es, n, ball, g)
      BY <3>2
    <3>6. q \in Seq(es) /\ Len(q) = g /\ q[1].s = n /\ q[g].o = e.s
      BY <3>4, <3>5 DEF PathOf, IsPath, Traversal!Last
    <3>7. p \in Seq(es) /\ Len(p) = h /\ p[h] = e /\ \A i \in 1..g : p[i] = q[i]
      BY <3>1, <3>4, <3>6
    <3>. HIDE DEF g
    <3>8. e.s \in ball[g]
      BY <3>5, <3>6 DEF PathOf
    <3>9. e.o \in ball[h]
      BY <2>1, <3>8 DEF Onward, g
    <3>10. \A i \in 1..h : p[i].s \in ball[h - 1]
      <4>1. \A i \in 1..g : q[i].s \in ball[g - 1]
        BY <3>5 DEF PathOf
      <4>2. ball[g - 1] \subseteq ball[g]
        BY <1>1, <3>1 DEF IsGrowing
      <4>3. \A i \in 1..h : i = h \/ i \in 1..g
        BY <3>1
      <4>. QED
        BY <3>7, <3>8, <4>1, <4>2, <4>3 DEF g
    <3>11. \A i \in 1..(Len(p) - 1) : p[i].o = p[i + 1].s
      <4>. SUFFICES ASSUME NEW i \in 1..g PROVE p[i].o = p[i + 1].s
        BY <3>1, <3>7
      <4>1. CASE i = g
        BY <3>1, <3>6, <3>7, <4>1
      <4>2. CASE i # g
        <5>1. i \in 1..(g - 1) /\ i + 1 \in 1..g
          BY <3>1, <4>2
        <5>2. q[i].o = q[i + 1].s
          BY <3>5, <3>6, <5>1 DEF PathOf, IsPath
        <5>. QED
          BY <3>7, <5>1, <5>2
      <4>. QED
        BY <4>1, <4>2
    <3>12. IsPath(p, es, n)
      <4>1. 1 \in 1..g
        BY <3>1
      <4>. QED
        BY <2>1, <3>6, <3>7, <3>11, <4>1 DEF IsPath
    <3>. QED
      BY <3>7, <3>9, <3>10, <3>12 DEF PathOf
  <2>. QED
    BY <2>3, <2>4
<1>3. 0 \in A
  OBVIOUS
<1>4. \A h \in 0..max : h \in A
  <2>. HIDE DEF A
  <2>. QED
    BY <1>2, <1>3, Reaches
<1>. QED
  BY <1>4

\* What is first reached at h steps is the end of a path found then.
LEMMA RowsReach ==
    ASSUME NEW es \in SUBSET Traversal!Edges, NEW n \in Nodes, NEW max \in Nat,
           NEW level, IsRows(level, es, n, max), NEW ball, IsWithin(ball, es, n, max)
    PROVE  \A h \in 1..max : \A v \in ball[h] : v \notin ball[h - 1] => \E p \in level[h] : p[h].o = v
<1>. DEFINE A == {h \in 0..max : h # 0 => \A v \in ball[h] : v \notin ball[h - 1] => \E p \in level[h] : p[h].o = v}
<1>1. IsGrowing(ball, max)
  BY BothGrow
<1>2. ASSUME NEW h \in 1..max, h - 1 \in A PROVE h \in A
  <2>. SUFFICES ASSUME NEW v \in ball[h], v \notin ball[h - 1] PROVE \E p \in level[h] : p[h].o = v
    OBVIOUS
  <2>1. h \in Nat /\ h \in 0..max /\ h - 1 \in 0..max /\ ball[h] = Onward(es, ball[h - 1])
    BY DEF IsWithin
  <2>2. PICK e \in es : e.s \in ball[h - 1] /\ e.o = v
    BY <2>1 DEF Onward
  <2>3. CASE h = 1
    <3>1. e.s = n
      BY <2>2, <2>3 DEF IsWithin
    <3>2. <<e>> \in level[1] /\ <<e>>[1] = e
      BY <3>1 DEF IsRows
    <3>. QED
      BY <2>2, <2>3, <3>2
  <2>4. CASE h # 1
    <3>. DEFINE g == h - 1
    <3>1. g \in 1..max /\ g < max /\ g + 1 = h /\ g \in Nat
      BY <2>1, <2>4
    <3>2. level[h] = Traversal!NextRows(es, level[g])
      BY <3>1 DEF IsRows
    <3>3. ball[g] = Onward(es, ball[g - 1])
      BY <3>1 DEF IsWithin
    <3>4. e.s \notin ball[g - 1]
      BY <2>2, <3>3 DEF Onward
    <3>5. PICK q \in level[g] : q[g].o = e.s
      BY <1>2, <2>2, <3>1, <3>4
    <3>6. PathOf(q, es, n, ball, g)
      BY <3>1, RowsArePaths
    <3>7. q \in Seq(es) /\ Len(q) = g /\ \A i \in 1..g : q[i].s \in ball[g - 1]
      BY <3>6 DEF PathOf, IsPath
    <3>8. e.s \notin Traversal!Left(q)
      BY <3>4, <3>7 DEF Traversal!Left
    <3>. DEFINE p == Append(q, e)
    <3>9. p \in level[h]
      <4>1. Traversal!Last(q).o = e.s
        BY <3>5, <3>7 DEF Traversal!Last
      <4>2. <<q, e>> \in {y \in level[g] \X es : /\ Traversal!Last(y[1]).o = y[2].s
                                               /\ y[2].s \notin Traversal!Left(y[1])}
        BY <3>5, <3>8, <4>1
      <4>3. p = Append(<<q, e>>[1], <<q, e>>[2])
        OBVIOUS
      <4>. QED
        BY <3>2, <4>2, <4>3 DEF Traversal!NextRows
    <3>10. p[h] = e
      BY <3>1, <3>7
    <3>. QED
      BY <2>2, <3>9, <3>10
  <2>. QED
    BY <2>3, <2>4
<1>3. 0 \in A
  OBVIOUS
<1>4. \A h \in 0..max : h \in A
  <2>. HIDE DEF A
  <2>. QED
    BY <1>2, <1>3, Reaches
<1>. QED
  BY <1>4

\* The instance counts as this module does.
LEMMA TraversalCounts == \A S : Traversal!Cardinality(S) = Cardinality(S)
BY Zenon DEF Traversal!Cardinality, Cardinality

\* What a function makes of a finite set is finite.
LEMMA ImageIsFinite ==
    ASSUME NEW S, IsFiniteSet(S), NEW f, DOMAIN f = S
    PROVE  IsFiniteSet({f[x] : x \in S})
<1>. DEFINE T == {f[x] : x \in S}
            g == [x \in S |-> f[x]]
<1>1. g \in Surjection(S, T)
  BY Zenon DEF Surjection
<1>. HIDE DEF T, g
<1>2. IsFiniteSet(T)
  BY <1>1, FS_Surjection
<1>. QED
  BY <1>2 DEF T

\* The rows of the search are finitely many.
LEMMA RowsAreFinite ==
    ASSUME NEW es, IsFiniteSet(es), NEW n, NEW max \in Nat, NEW level, IsRows(level, es, n, max)
    PROVE  \A h \in 1..max + 1 : IsFiniteSet(level[h])
<1>. DEFINE A == {h \in 0..max : IsFiniteSet(level[h + 1])}
<1>1. 0 \in A
  <2>. DEFINE D == {d \in es : d.s = n}
              f == [e \in D |-> <<e>>]
  <2>1. IsFiniteSet(D)
    BY FS_Subset
  <2>2. DOMAIN f = D /\ {f[e] : e \in D} = {<<e>> : e \in D}
    OBVIOUS
  <2>3. level[1] = {f[e] : e \in D}
    BY <2>2 DEF IsRows
  <2>. HIDE DEF D, f
  <2>4. IsFiniteSet(level[1]) /\ 0 \in 0..max /\ 0 + 1 = 1
    BY <2>1, <2>2, <2>3, ImageIsFinite
  <2>. QED
    BY <2>4
<1>2. ASSUME NEW h \in 1..max, h - 1 \in A PROVE h \in A
  <2>1. (h - 1) + 1 = h /\ h \in 0..max /\ h + 1 \in 1..max + 1
    OBVIOUS
  <2>2. IsFiniteSet(level[h])
    BY <1>2, <2>1
  <2>. DEFINE P == level[h] \X es
              D == {y \in P : /\ Traversal!Last(y[1]).o = y[2].s
                              /\ y[2].s \notin Traversal!Left(y[1])}
              f == [x \in D |-> Append(x[1], x[2])]
  <2>3. IsFiniteSet(P)
    BY <2>2, FS_Product
  <2>4. D \in SUBSET P
    OBVIOUS
  <2>5. Traversal!NextRows(es, level[h]) = {f[x] : x \in D}
    BY DEF Traversal!NextRows
  <2>6. DOMAIN f = D
    OBVIOUS
  <2>. HIDE DEF P, D, f
  <2>7. IsFiniteSet(Traversal!NextRows(es, level[h]))
    BY <2>3, <2>4, <2>5, <2>6, FS_Subset, ImageIsFinite
  <2>8. IsFiniteSet({})
    BY FS_EmptySet
  <2>9. IsFiniteSet(level[h + 1])
    BY <2>7, <2>8 DEF IsRows
  <2>. QED
    BY <2>1, <2>9
<1>3. \A h \in 0..max : h \in A
  <2>. HIDE DEF A
  <2>. QED
    BY <1>1, <1>2, Reaches
<1>4. ASSUME NEW h \in 1..max + 1 PROVE IsFiniteSet(level[h])
  <2>1. h - 1 \in 0..max /\ (h - 1) + 1 = h
    OBVIOUS
  <2>. QED
    BY <1>3, <2>1
<1>. QED
  BY <1>4

\* The paths to the target that the search has found.
PathsTo(es, source, target, max) ==
    {p \in UNION {Traversal!PathRows(es, source, max)[h] : h \in 1..max + 1} :
        Traversal!Last(p).o = target}

\* The paths that are looked up: right, some of them, one as short as any.
PathsFound(es, i, ps) ==
    /\ i.to \in Traversal!Within(es, i.from, i.max) /\ ps # {}
    /\ \E p \in ps : i.to \notin Traversal!Within(es, i.from, Len(p) - 1)
    /\ \A p \in ps : IsPath(p, es, i.from) /\ p[Len(p)].o = i.to /\ Len(p) \in 1..i.max

\* What the limit of find_connections may leave of s.
Shortened(s) == Traversal!Limited(s, MaxPaths, LAMBDA p, q : Len(p) < Len(q))

\* What the limit leaves of s: something, and nothing shorter is left out.
LEMMA ShortestAreKept ==
    ASSUME TraversalConstants, NEW s, IsFiniteSet(s),
           NEW t \in Shortened(s)
    PROVE  /\ t \subseteq s /\ (s # {} => t # {})
           /\ \A x \in t, y \in s \ t : ~ (Len(y) < Len(x))
<1>1. /\ t \subseteq s
      /\ Cardinality(t) = IF MaxPaths < Cardinality(s) THEN MaxPaths ELSE Cardinality(s)
      /\ \A x \in t, y \in s \ t : ~ (Len(y) < Len(x))
  BY TraversalCounts DEF Shortened, Traversal!Limited, Traversal!Shortest
<1>2. s # {} => t # {}
  <2>1. Cardinality(s) \in Nat /\ (s # {} => Cardinality(s) # 0) /\ Cardinality({}) = 0
    BY FS_CardinalityType, FS_EmptySet
  <2>. QED
    BY <1>1, <2>1 DEF TraversalConstants
<1>. QED
  BY <1>1, <1>2

\* find_connections finds a path just when there is one, and one as short as any.
LEMMA SearchFinds ==
    ASSUME TraversalConstants, NEW es \in SUBSET Traversal!Edges, IsFiniteSet(es),
           NEW source \in Nodes, NEW target \in Nodes, source # target, NEW max \in Nat \ {0},
           NEW t \in Shortened(PathsTo(es, source, target, max)),
           NEW i, i = [from |-> source, to |-> target, max |-> max]
    PROVE  /\ PathsTo(es, source, target, max) = {} => target \notin Traversal!Within(es, source, max)
           /\ PathsTo(es, source, target, max) # {} => PathsFound(es, i, t)
<1>. DEFINE s == PathsTo(es, source, target, max)
            level == Traversal!PathRows(es, source, max)
<1>0. max \in Nat /\ max \in 1..max /\ max \in 0..max
  OBVIOUS
<1>1. IsRows(level, es, source, max)
  BY <1>0, PathRowsAre
<1>2. PICK b : /\ IsWithin(b, es, source, max)
               /\ \A j \in 0..max : Traversal!Within(es, source, j) = b[j]
  BY <1>0, WithinIsABall
<1>3. IsGrowing(b, max) /\ target \notin b[0]
  <2>1. IsGrowing(b, max)
    BY <1>0, <1>2, BothGrow
  <2>2. b[0] = {source}
    BY <1>2 DEF IsWithin
  <2>. QED
    BY <2>1, <2>2
<1>4. \A p : p \in s <=> \E h \in 1..max : p \in level[h] /\ Traversal!Last(p).o = target
  <2>1. level[max + 1] = {} /\ \A h \in 1..max + 1 : h = max + 1 \/ h \in 1..max
    BY <1>0, <1>1 DEF IsRows
  <2>2. \A h \in 1..max : h \in 1..max + 1
    BY <1>0
  <2>. HIDE DEF level
  <2>. QED
    BY <2>1, <2>2 DEF PathsTo, level
<1>5. IsFiniteSet(s)
  <2>. DEFINE R == {level[h] : h \in 1..max + 1}
              f == [h \in 1..max + 1 |-> level[h]]
  <2>1. \A h \in 1..max + 1 : IsFiniteSet(level[h])
    BY <1>0, <1>1, RowsAreFinite
  <2>2. IsFiniteSet(1..max + 1)
    BY <1>0, FS_Interval
  <2>3. DOMAIN f = 1..max + 1 /\ R = {f[h] : h \in 1..max + 1}
    OBVIOUS
  <2>4. \A T \in R : IsFiniteSet(T)
    BY <2>1
  <2>5. s \in SUBSET (UNION R)
    BY DEF PathsTo
  <2>. HIDE DEF R, f, s, level
  <2>6. IsFiniteSet(R)
    BY <2>2, <2>3, ImageIsFinite
  <2>. QED
    BY <2>4, <2>5, <2>6, FS_UNION, FS_Subset
<1>6. /\ t \subseteq s /\ (s # {} => t # {})
      /\ \A x \in t, y \in s \ t : ~ (Len(y) < Len(x))
  BY <1>5, ShortestAreKept
<1>. HIDE DEF s, level
<1>7. ASSUME NEW p \in s
      PROVE  /\ IsPath(p, es, source) /\ p[Len(p)].o = target /\ Len(p) \in 1..max
             /\ target \in b[Len(p)]
  <2>1. PICK h \in 1..max : p \in level[h] /\ Traversal!Last(p).o = target
    BY <1>4
  <2>2. PathOf(p, es, source, b, h)
    BY <1>0, <1>1, <1>2, <2>1, RowsArePaths
  <2>. QED
    BY <2>1, <2>2 DEF PathOf, Traversal!Last
<1>8. \A j, k \in 0..max : j <= k => b[j] \subseteq b[k]
  <2>1. \A j, k \in 0..max : j <= k => j \in 0..k
    OBVIOUS
  <2>. QED
    BY <1>0, <1>3, <2>1, GrowingHolds
<1>9. s # {} => target \in b[max]
  <2>1. ASSUME NEW p \in s PROVE target \in b[max]
    <3>1. Len(p) \in 0..max /\ Len(p) <= max
      BY <1>7
    <3>. QED
      BY <1>0, <1>7, <1>8, <3>1
  <2>. QED
    BY <2>1
<1>10. ASSUME target \in b[max]
       PROVE  \E k \in 1..max, q \in s : Len(q) = k /\ target \notin b[k - 1]
  <2>1. PICK k \in 1..max : target \in b[k] /\ target \notin b[k - 1]
    BY <1>0, <1>3, <1>10, ComesIn
  <2>2. PICK q \in level[k] : q[k].o = target
    BY <1>0, <1>1, <1>2, <2>1, RowsReach
  <2>3. PathOf(q, es, source, b, k)
    BY <1>0, <1>1, <1>2, RowsArePaths
  <2>4. Len(q) = k /\ Traversal!Last(q).o = target
    BY <2>2, <2>3 DEF PathOf, Traversal!Last
  <2>5. q \in s
    BY <1>4, <2>4
  <2>. QED
    BY <2>1, <2>4, <2>5
<1>11. s = {} => target \notin Traversal!Within(es, source, max)
  BY <1>0, <1>2, <1>10
<1>12. ASSUME s # {} PROVE PathsFound(es, i, t)
  <2>1. target \in b[max]
    BY <1>9, <1>12
  <2>2. PICK k \in 1..max, q \in s : Len(q) = k /\ target \notin b[k - 1]
    BY <1>10, <2>1
  <2>3. PICK x \in t : Len(x) <= k
    <3>1. CASE q \in t
      BY <2>2, <3>1
    <3>2. CASE q \notin t
      <4>1. PICK x \in t : TRUE
        BY <1>6, <1>12
      <4>2. ~ (k < Len(x)) /\ Len(x) \in Nat
        BY <1>6, <1>7, <2>2, <3>2, <4>1
      <4>. QED
        BY <4>1, <4>2
    <3>. QED
      BY <3>1, <3>2
  <2>4. Len(x) \in 1..max
    BY <1>6, <1>7
  <2>5. Len(x) - 1 \in 0..max /\ k - 1 \in 0..max /\ Len(x) - 1 <= k - 1
    BY <2>3, <2>4
  <2>6. target \notin b[Len(x) - 1]
    BY <1>8, <2>2, <2>5
  <2>7. target \notin Traversal!Within(es, source, Len(x) - 1)
    BY <1>2, <2>5, <2>6
  <2>8. target \in Traversal!Within(es, source, max)
    BY <1>0, <1>2, <2>1
  <2>9. \A p \in t : IsPath(p, es, source) /\ p[Len(p)].o = target /\ Len(p) \in 1..max
    BY <1>6, <1>7
  <2>10. i.from = source /\ i.to = target /\ i.max = max
    OBVIOUS
  <2>. QED
    BY <2>7, <2>8, <2>9, <2>10 DEF PathsFound
<1>. QED
  BY <1>11, <1>12 DEF s

\* A list of what is all known is read back whole.
LEMMA AllStillThere ==
    ASSUME NEW S, NEW s \in Seq(S), NEW old, \A i \in 1..Len(s) : s[i] \in old
    PROVE  Traversal!StillThere(s, old) = s
<1>. DEFINE n == Len(s)
            places == {i \in DOMAIN s : s[i] \in old}
            place(k) == CHOOSE i \in places : Cardinality({j \in places : j <= i}) = k
<1>1. n \in Nat /\ places = 1..n /\ DOMAIN s = 1..n
  OBVIOUS
<1>2. Cardinality(1..n) = n /\ \A i \in 1..n : Cardinality(1..i) = i
  <2>1. ASSUME NEW i \in Nat PROVE Cardinality(1..i) = i
    <3>1. i \in Int /\ 1 \in Int
      OBVIOUS
    <3>2. Cardinality(1..i) = IF 1 > i THEN 0 ELSE i - 1 + 1
      BY <3>1, FS_Interval
    <3>. QED
      BY <3>1, <3>2
  <2>. QED
    BY <1>1, <2>1
<1>. HIDE DEF n, places
<1>3. ASSUME NEW k \in 1..n PROVE place(k) = k
  <2>1. \A i \in places : {j \in places : j <= i} = 1..i
    BY <1>1
  <2>2. \A i \in places : Cardinality({j \in places : j <= i}) = i
    BY <1>1, <1>2, <2>1
  <2>3. k \in places
    BY <1>1
  <2>. DEFINE c(i) == Cardinality({j \in places : j <= i})
  <2>4. \A i \in places : c(i) = i
    BY <2>2
  <2>. HIDE DEF c
  <2>5. (CHOOSE i \in places : c(i) = k) = k
    BY <2>3, <2>4
  <2>. QED
    BY <2>5 DEF c
<1>4. Traversal!StillThere(s, old) = [k \in 1..Cardinality(places) |-> s[place(k)]]
  BY DEF Traversal!StillThere, Traversal!Cardinality, Cardinality, places
<1>. HIDE DEF place
<1>5. [k \in 1..n |-> s[place(k)]] = [k \in 1..n |-> s[k]]
  BY <1>3
<1>6. s = [k \in 1..n |-> s[k]]
  BY <1>1 DEF n
<1>. QED
  BY <1>1, <1>2, <1>4, <1>5, <1>6

\* What find_connections answers of the path p.
AnswerOf(p, ents, rels) ==
    [hops |-> Len(p), nodes |-> Traversal!StillThere(Traversal!NodesOfPath(p), ents),
     rels |-> Traversal!StillThere(p, rels)]

\* The answer a is the path p.
ReadsBack(a, p) ==
    /\ a.hops = Len(p) /\ a.rels = p
    /\ a.nodes \in Seq(Nodes) /\ Len(a.nodes) = Len(p) + 1
    /\ \A k \in 1..Len(p) : p[k].s = a.nodes[k] /\ p[k].o = a.nodes[k + 1]

\* The answer to a path of relationships that are there is that path.
LEMMA PathIsReadBack ==
    ASSUME NEW es \in SUBSET Traversal!Edges, NEW rels, es \subseteq rels,
           NEW ents \in SUBSET Nodes, Traversal!Ends(es) \subseteq ents,
           NEW n, NEW p, IsPath(p, es, n)
    PROVE  ReadsBack(AnswerOf(p, ents, rels), p)
<1>. DEFINE m == Len(p)
            ns == Traversal!NodesOfPath(p)
            node(i) == IF i <= m THEN p[i].s ELSE p[m].o
<1>1. /\ p \in Seq(es) /\ m \in Nat /\ m >= 1 /\ \A i \in 1..m : p[i] \in es
      /\ \A i \in 1..(m - 1) : p[i].o = p[i + 1].s
  BY DEF IsPath
<1>2. \A e \in es : e.s \in ents /\ e.o \in ents
  BY DEF Traversal!Ends
<1>3. ns = [i \in 1..m + 1 |-> node(i)]
  BY DEF Traversal!NodesOfPath, Traversal!Last
<1>4. ASSUME NEW i \in 1..m + 1 PROVE node(i) \in ents
  <2>1. i <= m => i \in 1..m
    OBVIOUS
  <2>2. m \in 1..m
    BY <1>1
  <2>. HIDE DEF m
  <2>. QED
    BY <1>1, <1>2, <2>1, <2>2
<1>. HIDE DEF m, node, ns
<1>5. ns \in Seq(ents) /\ Len(ns) = m + 1 /\ \A i \in 1..m + 1 : ns[i] = node(i)
  <2>1. m + 1 \in Nat
    BY <1>1
  <2>. QED
    BY <1>3, <1>4, <2>1, IsASeq
<1>6. Traversal!StillThere(ns, ents) = ns
  <2>1. \A i \in 1..Len(ns) : ns[i] \in ents
    BY <1>5
  <2>. QED
    BY <1>5, <2>1, AllStillThere
<1>7. Traversal!StillThere(p, rels) = p
  <2>1. \A i \in 1..Len(p) : p[i] \in rels
    BY <1>1 DEF m
  <2>. QED
    BY <1>1, <2>1, AllStillThere
<1>8. ASSUME NEW k \in 1..m PROVE p[k].s = ns[k] /\ p[k].o = ns[k + 1]
  <2>1. k \in 1..m + 1 /\ k + 1 \in 1..m + 1 /\ k <= m
    BY <1>1
  <2>2. node(k) = p[k].s
    BY <2>1 DEF node
  <2>3. node(k + 1) = p[k].o
    <3>1. CASE k = m
      <4>1. ~ (k + 1 <= m)
        BY <1>1, <3>1
      <4>. QED
        BY <3>1, <4>1 DEF node
    <3>2. CASE k # m
      <4>1. k \in 1..(m - 1) /\ k + 1 <= m
        BY <1>1, <3>2
      <4>. QED
        BY <1>1, <4>1 DEF node
    <3>. QED
      BY <3>1, <3>2
  <2>. QED
    BY <1>5, <2>1, <2>2, <2>3
<1>9. ns \in Seq(Nodes)
  BY <1>5
<1>. QED
  BY <1>5, <1>6, <1>7, <1>8, <1>9 DEF AnswerOf, ReadsBack, ns, m

\* The answer to the paths that were found.
LEMMA PathsAreAnswered ==
    ASSUME NEW es \in SUBSET Traversal!Edges, NEW rels, es \subseteq rels,
           NEW ents \in SUBSET Nodes, Traversal!Ends(es) \subseteq ents,
           NEW i, NEW ps, PathsFound(es, i, ps)
    PROVE  Traversal!PathsAreRight(es, i, {AnswerOf(p, ents, rels) : p \in ps})
<1>. DEFINE as == {AnswerOf(p, ents, rels) : p \in ps}
<1>1. \A p \in ps : /\ IsPath(p, es, i.from) /\ p[Len(p)].o = i.to /\ Len(p) \in 1..i.max
                    /\ AnswerOf(p, ents, rels).hops = Len(p)
  BY DEF PathsFound, AnswerOf
<1>2. as # {} /\ i.to \in Traversal!Within(es, i.from, i.max)
  BY DEF PathsFound
<1>3. \E a \in as : i.to \notin Traversal!Within(es, i.from, a.hops - 1)
  <2>1. PICK p \in ps : i.to \notin Traversal!Within(es, i.from, Len(p) - 1)
    BY DEF PathsFound
  <2>2. AnswerOf(p, ents, rels) \in as
    OBVIOUS
  <2>. HIDE DEF as
  <2>. QED
    BY <1>1, <2>1, <2>2
<1>4. ASSUME NEW a \in as
      PROVE  /\ Head(a.nodes) = i.from /\ Traversal!Last(a.nodes) = i.to /\ a.hops <= i.max
             /\ Len(a.rels) = a.hops /\ Len(a.nodes) = a.hops + 1
             /\ \A k \in 1..a.hops : a.rels[k].s = a.nodes[k] /\ a.rels[k].o = a.nodes[k + 1]
  <2>1. PICK p \in ps : a = AnswerOf(p, ents, rels)
    OBVIOUS
  <2>. HIDE DEF as
  <2>2. IsPath(p, es, i.from) /\ p[Len(p)].o = i.to /\ Len(p) \in 1..i.max
    BY <1>1
  <2>3. /\ a.hops = Len(p) /\ a.rels = p
        /\ a.nodes \in Seq(Nodes) /\ Len(a.nodes) = Len(p) + 1
        /\ \A k \in 1..Len(p) : p[k].s = a.nodes[k] /\ p[k].o = a.nodes[k + 1]
    <3>1. ReadsBack(AnswerOf(p, ents, rels), p)
      BY <2>2, PathIsReadBack
    <3>. QED
      BY <2>1, <3>1 DEF ReadsBack
  <2>4. p[1].s = i.from /\ Len(p) \in Nat /\ Len(p) >= 1 /\ 1 \in 1..Len(p) /\ Len(p) \in 1..Len(p)
    BY <2>2 DEF IsPath
  <2>5. a.nodes[1] = i.from /\ a.nodes[Len(p) + 1] = i.to
    BY <2>2, <2>3, <2>4
  <2>6. Head(a.nodes) = a.nodes[1] /\ Traversal!Last(a.nodes) = a.nodes[Len(p) + 1]
    BY <2>3, <2>4 DEF Traversal!Last
  <2>7. a.hops <= i.max
    BY <2>2, <2>3
  <2>. QED
    BY <2>3, <2>5, <2>6, <2>7
<1>. HIDE DEF as
<1>5. Traversal!PathsAreRight(es, i, as)
  BY <1>2, <1>3, <1>4 DEF Traversal!PathsAreRight
<1>. QED
  BY <1>5 DEF as

\* After j hops of explore_neighborhood, none of them cut short: what it has visited,
\* what of that is new and the relationships it has seen.
IsExplored(hood, es, j, visited, frontier, seen) ==
    /\ visited = hood[j]
    /\ frontier = IF j = 0 THEN hood[0] ELSE hood[j] \ hood[j - 1]
    /\ seen = IF j = 0 THEN {} ELSE Traversal!Touching(es, hood[j - 1])

\* A hop, all of it, leads from there to the next.
LEMMA HopExplores ==
    ASSUME NEW es, NEW n, NEW k \in Nat, NEW hood, IsAround(hood, es, n, k),
           NEW j \in 0..(k - 1), NEW visited, NEW frontier, NEW seen,
           IsExplored(hood, es, j, visited, frontier, seen),
           NEW level, level = Traversal!Touching(es, frontier)
    PROVE  IsExplored(hood, es, j + 1, visited \cup Traversal!Ends(level),
                      Traversal!Ends(level) \ visited, seen \cup level)
<1>1. j + 1 \in 1..k /\ (j + 1) - 1 = j /\ j + 1 # 0
  OBVIOUS
<1>2. hood[j + 1] = Outward(es, hood[j])
  BY <1>1 DEF IsAround
<1>3. j # 0 => hood[j] = Outward(es, hood[j - 1])
  BY DEF IsAround
<1>4. Traversal!Touching(es, hood[j]) = seen \cup level
  <2>1. CASE j = 0
    BY <2>1 DEF IsExplored, Traversal!Touching
  <2>2. CASE j # 0
    <3>1. frontier = hood[j] \ hood[j - 1] /\ seen = Traversal!Touching(es, hood[j - 1])
          /\ hood[j - 1] \subseteq hood[j]
      BY <1>3, <2>2 DEF IsExplored, Outward
    <3>. QED
      BY <3>1 DEF Traversal!Touching, Traversal!Touches
  <2>. QED
    BY <2>1, <2>2
<1>5. Traversal!Ends(seen \cup level) = Traversal!Ends(seen) \cup Traversal!Ends(level)
  BY DEF Traversal!Ends
<1>6. Traversal!Ends(seen) \subseteq hood[j]
  <2>1. CASE j = 0
    BY <2>1 DEF IsExplored, Traversal!Ends
  <2>2. CASE j # 0
    BY <1>3, <2>2 DEF IsExplored, Outward
  <2>. QED
    BY <2>1, <2>2
<1>7. visited = hood[j]
  BY DEF IsExplored
<1>8. hood[j + 1] = visited \cup Traversal!Ends(level)
  BY <1>2, <1>4, <1>5, <1>6, <1>7 DEF Outward
<1>9. Traversal!Ends(level) \ visited = hood[j + 1] \ hood[j]
  BY <1>7, <1>8
<1>. QED
  BY <1>1, <1>4, <1>8, <1>9 DEF IsExplored

\* When nothing new is left there is nothing further away.
LEMMA ExploredWhole ==
    ASSUME NEW es, NEW n, NEW k \in Nat \ {0}, NEW hood, IsAround(hood, es, n, k),
           NEW j \in 0..k, NEW visited, NEW frontier, NEW seen,
           IsExplored(hood, es, j, visited, frontier, seen), j = k \/ frontier = {}
    PROVE  visited = hood[k] /\ seen = Traversal!Touching(es, hood[k - 1])
<1>1. CASE j = k
  BY <1>1 DEF IsExplored
<1>2. CASE j # k
  <2>1. frontier = {} /\ j \in Nat
    BY <1>2
  <2>2. IsGrowing(hood, k)
    <3>1. k \in Nat
      OBVIOUS
    <3>. QED
      BY <3>1, BothGrow
  <2>3. j # 0 /\ j \in 1..k
    <3>1. hood[0] # {}
      BY DEF IsAround
    <3>2. j # 0
      BY <2>1, <3>1 DEF IsExplored
    <3>. QED
      BY <3>2
  <2>4. hood[j] = hood[j - 1]
    <3>1. hood[j] \ hood[j - 1] = {}
      BY <2>1, <2>3 DEF IsExplored
    <3>2. hood[j - 1] \subseteq hood[j]
      BY <2>2, <2>3 DEF IsGrowing
    <3>. QED
      BY <3>1, <3>2
  <2>. DEFINE A == {i \in 0..k : i >= j => hood[i] = hood[j]}
  <2>5. 0 \in A
    BY <2>3
  <2>6. ASSUME NEW i \in 1..k, i - 1 \in A PROVE i \in A
    <3>1. CASE i < j
      BY <3>1
    <3>2. CASE i = j
      BY <3>2
    <3>3. CASE i > j
      <4>1. i - 1 >= j /\ i \in 0..k
        BY <2>1, <3>3
      <4>2. hood[i - 1] = hood[j]
        BY <2>6, <4>1
      <4>3. hood[i] = Outward(es, hood[i - 1]) /\ hood[j] = Outward(es, hood[j - 1])
        BY <2>3 DEF IsAround
      <4>. QED
        BY <2>4, <4>1, <4>2, <4>3
    <3>. QED
      BY <2>1, <3>1, <3>2, <3>3
  <2>7. \A i \in 0..k : i \in A
    <3>1. k \in Nat
      OBVIOUS
    <3>. HIDE DEF A
    <3>. QED
      BY <2>5, <2>6, <3>1, Reaches
  <2>8. k \in A /\ k - 1 \in A
    <3>1. k \in 0..k /\ k - 1 \in 0..k
      OBVIOUS
    <3>. HIDE DEF A
    <3>. QED
      BY <2>7, <3>1
  <2>9. hood[k] = hood[j] /\ hood[k - 1] = hood[j]
    <3>1. k >= j /\ k - 1 >= j
      BY <1>2, <2>1
    <3>. QED
      BY <2>8, <3>1
  <2>. QED
    BY <2>3, <2>4, <2>9 DEF IsExplored
<1>. QED
  BY <1>1, <1>2

\* The walk w of h steps: the relationship it came by joins where it is to an entity
\* within h - 1 steps.
ComesFrom(w, es, hood, h) ==
    /\ w.rel \in es /\ w.hop = h /\ w.to \in hood[h]
    /\ \E u \in hood[h - 1] : (w.rel.s = u /\ w.rel.o = w.to) \/ (w.rel.o = u /\ w.rel.s = w.to)

\* Every walk is one.
LEMMA WalksComeFrom ==
    ASSUME NEW es \in SUBSET Traversal!Edges, NEW n \in Nodes, NEW k \in Nat \ {0},
           NEW walk, IsWalks(walk, es, n, k), NEW hood, IsAround(hood, es, n, k)
    PROVE  \A h \in 1..k : \A w \in walk[h] : ComesFrom(w, es, hood, h)
<1>. DEFINE A == {h \in 0..k : h # 0 => \A w \in walk[h] : ComesFrom(w, es, hood, h)}
<1>1. ASSUME NEW e \in es, NEW h \in 1..k, NEW u \in hood[h - 1], e.s = u \/ e.o = u,
             NEW w, w = [rel |-> e, to |-> Traversal!OtherEnd(e, u), hop |-> h]
      PROVE  ComesFrom(w, es, hood, h)
  <2>1. w.rel = e /\ w.hop = h /\ w.to = Traversal!OtherEnd(e, u)
    BY <1>1
  <2>2. (e.s = u /\ e.o = w.to) \/ (e.o = u /\ e.s = w.to)
    BY <1>1, <2>1 DEF Traversal!OtherEnd
  <2>3. e \in Traversal!Touching(es, hood[h - 1])
    BY <1>1 DEF Traversal!Touching, Traversal!Touches
  <2>4. w.to \in Traversal!Ends(Traversal!Touching(es, hood[h - 1]))
    BY <2>2, <2>3 DEF Traversal!Ends
  <2>5. hood[h] = Outward(es, hood[h - 1])
    BY DEF IsAround
  <2>6. w.to \in hood[h]
    BY <2>4, <2>5 DEF Outward
  <2>. QED
    BY <2>1, <2>2, <2>6 DEF ComesFrom
<1>2. ASSUME NEW h \in 1..k, h - 1 \in A PROVE h \in A
  <2>. SUFFICES ASSUME NEW w \in walk[h] PROVE ComesFrom(w, es, hood, h)
    OBVIOUS
  <2>1. CASE h = 1
    <3>1. PICK e \in es : /\ Traversal!Touches(e, {n})
                          /\ w = [rel |-> e, to |-> Traversal!OtherEnd(e, n), hop |-> 1]
      BY <2>1 DEF IsWalks, StartOut, Traversal!Touching
    <3>2. n \in hood[h - 1] /\ (e.s = n \/ e.o = n)
      BY <2>1, <3>1 DEF IsAround, Traversal!Touches
    <3>. QED
      BY <1>1, <2>1, <3>1, <3>2
  <2>2. CASE h # 1
    <3>. DEFINE g == h - 1
    <3>1. g \in 1..(k - 1) /\ g \in 1..k /\ g + 1 = h /\ g # 0
      BY <2>2
    <3>. HIDE DEF g
    <3>2. walk[h] = GoOn(es, walk[g], h)
      BY <3>1 DEF IsWalks
    <3>3. PICK e \in es, v \in walk[g] :
             /\ Traversal!Touches(e, {v.to}) /\ e # v.rel
             /\ w = [rel |-> e, to |-> Traversal!OtherEnd(e, v.to), hop |-> h]
      BY <3>2 DEF GoOn
    <3>4. ComesFrom(v, es, hood, g)
      BY <1>2, <3>1 DEF g
    <3>5. v.to \in hood[h - 1] /\ (e.s = v.to \/ e.o = v.to)
      BY <3>3, <3>4 DEF ComesFrom, Traversal!Touches, g
    <3>. QED
      BY <1>1, <3>3, <3>5
  <2>. QED
    BY <2>1, <2>2
<1>3. 0 \in A
  OBVIOUS
<1>4. \A h \in 0..k : h \in A
  <2>1. k \in Nat
    OBVIOUS
  <2>. HIDE DEF A
  <2>. QED
    BY <1>2, <1>3, <2>1, Reaches
<1>. QED
  BY <1>4

\* The relationship e has its nearer end at h - 1 steps.
IsAt(e, hood, h) ==
    Traversal!Touches(e, hood[h - 1]) /\ (h # 1 => ~ Traversal!Touches(e, hood[h - 2]))

\* There is a walk by it then.
LEMMA WalksReach ==
    ASSUME NEW es \in SUBSET Traversal!Edges, NEW n \in Nodes, NEW k \in Nat \ {0},
           NEW walk, IsWalks(walk, es, n, k), NEW hood, IsAround(hood, es, n, k)
    PROVE  \A h \in 1..k : \A e \in es : IsAt(e, hood, h) => \E w \in walk[h] : w.rel = e
<1>. DEFINE A == {h \in 0..k : h # 0 => \A e \in es : IsAt(e, hood, h) => \E w \in walk[h] : w.rel = e}
<1>1. ASSUME NEW h \in 1..k, h - 1 \in A PROVE h \in A
  <2>. SUFFICES ASSUME NEW e \in es, IsAt(e, hood, h) PROVE \E w \in walk[h] : w.rel = e
    OBVIOUS
  <2>1. CASE h = 1
    <3>. DEFINE w == [rel |-> e, to |-> Traversal!OtherEnd(e, n), hop |-> 1]
    <3>1. Traversal!Touches(e, {n})
      <4>1. hood[h - 1] = {n}
        BY <2>1 DEF IsAround
      <4>. QED
        BY <4>1 DEF IsAt
    <3>2. w \in walk[1]
      BY <3>1 DEF IsWalks, StartOut, Traversal!Touching
    <3>. QED
      BY <2>1, <3>2
  <2>2. CASE h # 1
    <3>. DEFINE g == h - 1
    <3>1. g \in 1..(k - 1) /\ g \in 1..k /\ g + 1 = h /\ g # 0 /\ g - 1 = h - 2
      BY <2>2
    <3>2. Traversal!Touches(e, hood[g]) /\ ~ Traversal!Touches(e, hood[g - 1])
      BY <2>2 DEF IsAt
    <3>. HIDE DEF g
    <3>3. PICK v \in hood[g] : (e.s = v \/ e.o = v) /\ v \notin hood[g - 1]
      BY <3>2 DEF Traversal!Touches
    <3>4. hood[g] = Outward(es, hood[g - 1])
      BY <3>1 DEF IsAround
    <3>5. PICK f \in es : Traversal!Touches(f, hood[g - 1]) /\ (f.s = v \/ f.o = v)
      BY <3>3, <3>4 DEF Outward, Traversal!Ends, Traversal!Touching
    <3>6. IsAt(f, hood, g)
      <4>1. ASSUME g # 1 PROVE ~ Traversal!Touches(f, hood[g - 2])
        <5>1. g - 1 \in 1..k /\ (g - 1) - 1 = g - 2
          BY <3>1, <4>1
        <5>2. hood[g - 1] = Outward(es, hood[g - 2])
          BY <5>1 DEF IsAround
        <5>3. ASSUME Traversal!Touches(f, hood[g - 2]) PROVE FALSE
          <6>1. f \in Traversal!Touching(es, hood[g - 2])
            BY <5>3 DEF Traversal!Touching
          <6>2. v \in Traversal!Ends(Traversal!Touching(es, hood[g - 2]))
            BY <3>5, <6>1 DEF Traversal!Ends
          <6>. QED
            BY <3>3, <5>2, <6>2 DEF Outward
        <5>. QED
          BY <5>3
      <4>. QED
        BY <3>5, <4>1 DEF IsAt
    <3>7. PICK x \in walk[g] : x.rel = f
      BY <1>1, <3>1, <3>6 DEF g
    <3>8. ComesFrom(x, es, hood, g)
      BY <3>1, WalksComeFrom
    <3>9. x.to = v
      BY <3>3, <3>5, <3>7, <3>8 DEF ComesFrom
    <3>10. Traversal!Touches(e, {x.to}) /\ e # x.rel
      BY <3>2, <3>3, <3>5, <3>7, <3>9 DEF Traversal!Touches
    <3>. DEFINE w == [rel |-> e, to |-> Traversal!OtherEnd(e, x.to), hop |-> h]
    <3>11. w \in GoOn(es, walk[g], h)
      <4>1. <<e, x>> \in {y \in es \X walk[g] : Traversal!Touches(y[1], {y[2].to}) /\ y[1] # y[2].rel}
        BY <3>10
      <4>2. w = [rel |-> <<e, x>>[1], to |-> Traversal!OtherEnd(<<e, x>>[1], <<e, x>>[2].to), hop |-> h]
        OBVIOUS
      <4>. HIDE DEF w
      <4>. QED
        BY <4>1, <4>2 DEF GoOn
    <3>12. walk[h] = GoOn(es, walk[g], h)
      BY <3>1 DEF IsWalks
    <3>. QED
      BY <3>11, <3>12
  <2>. QED
    BY <2>1, <2>2
<1>2. 0 \in A
  OBVIOUS
<1>3. \A h \in 0..k : h \in A
  <2>1. k \in Nat
    OBVIOUS
  <2>. HIDE DEF A
  <2>. QED
    BY <1>1, <1>2, <2>1, Reaches
<1>. QED
  BY <1>3

\* A relationship that touches what is within k - 1 steps is at one distance.
LEMMA IsAtOne ==
    ASSUME NEW es, NEW n, NEW k \in Nat \ {0}, NEW hood, IsAround(hood, es, n, k), NEW e
    PROVE  /\ Traversal!Touches(e, hood[k - 1]) => \E h \in 1..k : IsAt(e, hood, h)
           /\ \A h \in 1..k, g \in 1..k :
                 IsAt(e, hood, h) /\ Traversal!Touches(e, hood[g - 1]) => h <= g
<1>1. k \in Nat /\ k - 1 \in Nat
  OBVIOUS
<1>2. IsGrowing(hood, k)
  BY <1>1, BothGrow
<1>3. \A i, j \in 0..k : i <= j => hood[i] \subseteq hood[j]
  <2>1. \A i, j \in 0..k : i <= j => i \in 0..j
    OBVIOUS
  <2>. QED
    BY <1>1, <1>2, <2>1, GrowingHolds
<1>4. ASSUME Traversal!Touches(e, hood[k - 1]) PROVE \E h \in 1..k : IsAt(e, hood, h)
  <2>. DEFINE U == {i \in 0..(k - 1) : Traversal!Touches(e, hood[i])}
  <2>1. U \in SUBSET Nat /\ k - 1 \in U
    BY <1>1, <1>4
  <2>2. PICK m \in U : \A i \in U : m <= i
    <3>. HIDE DEF U
    <3>. QED
      BY <2>1, LeastOf
  <2>3. m + 1 \in 1..k /\ (m + 1) - 1 = m /\ (m + 1) - 2 = m - 1
    BY <1>1
  <2>4. m # 0 => m - 1 \in 0..(k - 1) /\ ~ (m <= m - 1)
    BY <1>1
  <2>5. m # 0 => ~ Traversal!Touches(e, hood[m - 1])
    BY <2>2, <2>4
  <2>6. IsAt(e, hood, m + 1)
    BY <2>3, <2>5 DEF IsAt
  <2>. QED
    BY <2>3, <2>6
<1>5. ASSUME NEW h \in 1..k, NEW g \in 1..k, IsAt(e, hood, h), Traversal!Touches(e, hood[g - 1]), ~ (h <= g)
      PROVE  FALSE
  <2>1. h # 1 /\ g - 1 \in 0..k /\ h - 2 \in 0..k /\ g - 1 <= h - 2
    BY <1>1, <1>5
  <2>2. hood[g - 1] \subseteq hood[h - 2]
    BY <1>3, <2>1
  <2>3. ~ Traversal!Touches(e, hood[h - 2])
    BY <1>5, <2>1 DEF IsAt
  <2>. QED
    BY <1>5, <2>2, <2>3 DEF Traversal!Touches
<1>. QED
  BY <1>4, <1>5

\* All the walks of up to k steps.
WalksUpTo(es, n, k) == UNION {Traversal!Walks(es, n, k)[h] : h \in 1..k}

\* The relationships of the walks of ws, each with its fewest hops.
Nearest(ws) ==
    {[rel |-> w.rel, hop |-> w.hop] : w \in {x \in ws : \A v \in ws : v.rel = x.rel => x.hop <= v.hop}}

\* The distance of a relationship is the step at which its nearer end is reached.
LEMMA DistanceIs ==
    ASSUME NEW es \in SUBSET Traversal!Edges, NEW n \in Nodes, NEW k \in Nat \ {0},
           NEW hood, IsAround(hood, es, n, k),
           \A j \in 0..k : Traversal!Around(es, n, j) = hood[j],
           NEW e, NEW h \in 1..k, IsAt(e, hood, h)
    PROVE  Traversal!HopsOfRel(es, n, k, e) = h
<1>1. hood[0] = {n}
  BY DEF IsAround
<1>2. CASE h = 1
  BY <1>1, <1>2 DEF IsAt, Traversal!HopsOfRel
<1>3. CASE h # 1
  <2>. DEFINE P(j) == Traversal!Touches(e, hood[j - 1]) /\ ~ Traversal!Touches(e, hood[j - 2])
  <2>1. h \in 2..k /\ P(h)
    BY <1>3 DEF IsAt
  <2>2. ~ Traversal!Touches(e, {n})
    <3>1. ASSUME Traversal!Touches(e, {n}) PROVE FALSE
      <4>1. 1 \in 1..k /\ Traversal!Touches(e, hood[1 - 1])
        BY <1>1, <3>1
      <4>2. h <= 1
        BY <4>1, IsAtOne
      <4>. QED
        BY <1>3, <4>2
    <3>. QED
      BY <3>1
  <2>3. ASSUME NEW j \in 2..k, P(j) PROVE j = h
    <3>1. j \in 1..k /\ IsAt(e, hood, j) /\ Traversal!Touches(e, hood[h - 1])
      BY <2>1, <2>3 DEF IsAt
    <3>2. h <= j /\ j <= h
      BY <2>1, <3>1, IsAtOne DEF IsAt
    <3>. QED
      BY <3>1, <3>2
  <2>4. \A j \in 2..k : /\ Traversal!Around(es, n, j - 1) = hood[j - 1]
                        /\ Traversal!Around(es, n, j - 2) = hood[j - 2]
    <3>1. \A j \in 2..k : j - 1 \in 0..k /\ j - 2 \in 0..k
      OBVIOUS
    <3>. QED
      BY <3>1
  <2>. DEFINE Q(j) == /\ Traversal!Touches(e, Traversal!Around(es, n, j - 1))
                      /\ ~ Traversal!Touches(e, Traversal!Around(es, n, j - 2))
  <2>5. \A j \in 2..k : Q(j) <=> P(j)
    BY <2>4
  <2>6. Traversal!HopsOfRel(es, n, k, e) = CHOOSE j \in 2..k : Q(j)
    BY <2>2 DEF Traversal!HopsOfRel
  <2>. HIDE DEF P, Q
  <2>7. (CHOOSE j \in 2..k : Q(j)) = h
    BY <2>1, <2>3, <2>5
  <2>. QED
    BY <2>6, <2>7
<1>. QED
  BY <1>2, <1>3

\* Of the relationships around n, db_get_neighbors finds each at its distance.
LEMMA NearestIsRight ==
    ASSUME NEW es \in SUBSET Traversal!Edges, NEW n \in Nodes, NEW k \in Nat \ {0},
           NEW i, i.center = n, i.depth = k
    PROVE  Traversal!DistancesAreRight(es, i, Nearest(WalksUpTo(es, n, k)))
<1>. DEFINE walk == Traversal!Walks(es, n, k)
            ws == WalksUpTo(es, n, k)
            near == {x \in ws : \A v \in ws : v.rel = x.rel => x.hop <= v.hop}
            dist(e) == Traversal!HopsOfRel(es, n, k, e)
            around == Traversal!Touching(es, Traversal!Around(es, n, k - 1))
<1>0. k \in Nat /\ k - 1 \in 0..k
  OBVIOUS
<1>1. IsWalks(walk, es, n, k)
  BY WalksAre
<1>2. PICK hood : /\ IsAround(hood, es, n, k)
                  /\ \A j \in 0..k : Traversal!Around(es, n, j) = hood[j]
  BY <1>0, AroundIsAHood
<1>3. \A w : w \in ws <=> \E h \in 1..k : w \in walk[h]
  BY DEF WalksUpTo
<1>. HIDE DEF walk, ws, near
<1>4. \A h \in 1..k : \A w \in walk[h] : ComesFrom(w, es, hood, h)
  BY <1>1, <1>2, WalksComeFrom
<1>5. \A e : e \in around <=> e \in es /\ Traversal!Touches(e, hood[k - 1])
  BY <1>0, <1>2 DEF Traversal!Touching
<1>6. ASSUME NEW e, NEW h \in 1..k, IsAt(e, hood, h) PROVE dist(e) = h
  BY <1>2, <1>6, DistanceIs
<1>. HIDE DEF dist, around
<1>7. ASSUME NEW w \in ws
      PROVE  /\ w.rel \in around /\ w.hop \in 1..k
             /\ Traversal!Touches(w.rel, hood[w.hop - 1])
  <2>1. PICK h \in 1..k : w \in walk[h]
    BY <1>3
  <2>2. ComesFrom(w, es, hood, h)
    BY <1>4, <2>1
  <2>3. w.rel \in es /\ w.hop = h /\ Traversal!Touches(w.rel, hood[h - 1])
    BY <2>2 DEF ComesFrom, Traversal!Touches
  <2>4. hood[h - 1] \subseteq hood[k - 1]
    <3>1. IsGrowing(hood, k) /\ h - 1 \in 0..(k - 1)
      BY <1>0, <1>2, BothGrow
    <3>. QED
      BY <1>0, <3>1, GrowingHolds
  <2>5. Traversal!Touches(w.rel, hood[k - 1])
    BY <2>3, <2>4 DEF Traversal!Touches
  <2>. QED
    BY <1>5, <2>3, <2>5
<1>8. ASSUME NEW e \in around
      PROVE  \E w \in near : w.rel = e /\ w.hop = dist(e)
  <2>1. e \in es /\ Traversal!Touches(e, hood[k - 1])
    BY <1>5
  <2>2. PICK h \in 1..k : IsAt(e, hood, h)
    BY <1>2, <2>1, IsAtOne
  <2>3. PICK w \in walk[h] : w.rel = e
    BY <1>1, <1>2, <2>1, <2>2, WalksReach
  <2>4. w \in ws /\ w.hop = h
    <3>1. ComesFrom(w, es, hood, h)
      BY <1>4
    <3>. QED
      BY <1>3, <3>1 DEF ComesFrom
  <2>5. ASSUME NEW v \in ws, v.rel = e PROVE h <= v.hop
    BY <1>2, <1>7, <2>2, <2>5, IsAtOne
  <2>6. dist(e) = h
    BY <1>6, <2>2
  <2>7. w \in near
    BY <2>3, <2>4, <2>5 DEF near
  <2>. QED
    BY <2>3, <2>4, <2>6, <2>7
<1>9. ASSUME NEW w \in near PROVE w.rel \in around /\ w.hop = dist(w.rel)
  <2>1. w \in ws /\ w.rel \in around
    BY <1>7 DEF near
  <2>2. PICK v \in near : v.rel = w.rel /\ v.hop = dist(w.rel)
    BY <1>8, <2>1
  <2>3. v \in ws /\ w.hop <= v.hop /\ v.hop <= w.hop
    BY <2>2 DEF near
  <2>4. w.hop \in 1..k /\ v.hop \in 1..k
    BY <1>7, <2>1, <2>3
  <2>. QED
    BY <2>1, <2>2, <2>3, <2>4
<1>10. Nearest(ws) = {[rel |-> w.rel, hop |-> w.hop] : w \in near}
  BY DEF Nearest, near
<1>11. {[rel |-> w.rel, hop |-> w.hop] : w \in near} = {[rel |-> e, hop |-> dist(e)] : e \in around}
  BY <1>8, <1>9
<1>. QED
  BY <1>10, <1>11 DEF Traversal!DistancesAreRight, dist, around, ws

\* There are finitely many relationships there could be.
LEMMA EdgesAreFinite ==
    ASSUME TraversalConstants
    PROVE  IsFiniteSet(Traversal!Edges)
<1>. DEFINE P == (Nodes \X Nodes) \X BOOLEAN
            f == [x \in P |-> [s |-> x[1][1], o |-> x[1][2], deal |-> x[2]]]
            T == {f[x] : x \in P}
<1>1. IsFiniteSet(BOOLEAN)
  <2>1. BOOLEAN = {TRUE} \cup {FALSE}
    OBVIOUS
  <2>2. IsFiniteSet({TRUE}) /\ IsFiniteSet({FALSE})
    BY FS_Singleton
  <2>. QED
    BY <2>1, <2>2, FS_Union
<1>2. IsFiniteSet(P)
  <2>1. IsFiniteSet(Nodes \X Nodes)
    BY FS_Product DEF TraversalConstants
  <2>. QED
    BY <1>1, <2>1, FS_Product
<1>3. ASSUME NEW e \in Traversal!Edges PROVE e \in T
  <2>1. e = [s |-> e.s, o |-> e.o, deal |-> e.deal] /\ e.s \in Nodes /\ e.o \in Nodes /\ e.deal \in BOOLEAN
    BY DEF Traversal!Edges
  <2>2. <<<<e.s, e.o>>, e.deal>> \in P
    BY <2>1
  <2>3. f[<<<<e.s, e.o>>, e.deal>>] = e
    BY <2>1, <2>2
  <2>. HIDE DEF f, P
  <2>. QED
    BY <2>2, <2>3
<1>4. DOMAIN f = P
  OBVIOUS
<1>. HIDE DEF P, f
<1>5. IsFiniteSet(T)
  BY <1>2, <1>4, ImageIsFinite
<1>6. Traversal!Edges \in SUBSET T
  BY <1>3
<1>. QED
  BY <1>5, <1>6, FS_Subset

\* The neighbourhoods computed up to k are those of the reference definition.
LEMMA HoodsAreAround ==
    ASSUME NEW es \in SUBSET Traversal!Edges, NEW n \in Nodes, NEW k \in Nat
    PROVE  /\ IsAround(Traversal!Hoods(es, n, k), es, n, k)
           /\ \A j \in 0..k : Traversal!Around(es, n, j) = Traversal!Hoods(es, n, k)[j]
<1>1. PICK b : IsAround(b, es, n, k) /\ \A j \in 0..k : Traversal!Around(es, n, j) = b[j]
  BY AroundIsAHood
<1>2. IsAround(Traversal!Hoods(es, n, k), es, n, k)
  BY HoodsAre
<1>3. k \in 0..k
  OBVIOUS
<1>4. \A j \in 0..k : b[j] = Traversal!Hoods(es, n, k)[j]
  BY <1>1, <1>2, <1>3, BallsAgree
<1>. QED
  BY <1>1, <1>2, <1>4

\* The relationships that are active.
LEMMA ActiveIs ==
    ASSUME TraversalConstants, Traversal!TypeOK
    PROVE  /\ Traversal!Active \in SUBSET Traversal!Edges /\ IsFiniteSet(Traversal!Active)
           /\ Traversal!Active \subseteq edges /\ entities \in SUBSET Nodes
           /\ Traversal!Ends(Traversal!Active) \subseteq entities
<1>1. Traversal!Active \in SUBSET Traversal!Edges /\ Traversal!Active \subseteq edges
  BY DEF Traversal!TypeOK, Traversal!Active
<1>2. IsFiniteSet(Traversal!Active)
  BY <1>1, EdgesAreFinite, FS_Subset
<1>3. Traversal!Ends(Traversal!Active) \subseteq entities /\ entities \in SUBSET Nodes
  BY <1>1 DEF Traversal!TypeOK, Traversal!Ends
<1>. QED
  BY <1>1, <1>2, <1>3

\* The neighbourhood that is being read hop by hop.
HopsInput == [center : Nodes, depth : Nat \ {0}]
HopQueries ==
    [at : {"hops"}, input : HopsInput, left : Nat, visited : SUBSET Nodes,
     frontier : SUBSET Nodes, edges : SUBSET Traversal!Edges, whole : BOOLEAN, since : Nat]

\* While nothing was written and no limit reached, it is what is there.
Exploring(q, es, ents) ==
    /\ q.visited \subseteq ents
    /\ IsExplored(Traversal!Hoods(es, q.input.center, q.input.depth), es,
                  q.input.depth - q.left, q.visited, q.frontier, q.edges)

TravInv ==
    /\ Traversal!TypeOK /\ Traversal!AnswersAreExact
    /\ query.at = "idle" => query = Traversal!Idle
    /\ query.at \in {"paths", "hops", "found"} => query.since \in 0..changes
    /\ query.at = "paths" /\ query.since = changes =>
          PathsFound(Traversal!Active, query.input, query.paths)
    /\ query.at = "hops" => /\ query \in HopQueries /\ query.left <= query.input.depth
                            /\ query.since = changes /\ query.whole =>
                                  Exploring(query, Traversal!Active, entities)

\* A question or an answer leaves the graph as it is.
LEMMA AskingKeeps ==
    ASSUME TravInv, NEW q, Traversal!Asks(q)
    PROVE  /\ query' = q /\ changes' = changes /\ entities' = entities /\ edges' = edges
           /\ Traversal!Active' = Traversal!Active
           /\ (q.at \in {"idle", "paths", "hops", "found", "answered"} => Traversal!TypeOK')
<1>1. /\ query' = q /\ changes' = changes /\ entities' = entities /\ edges' = edges
      /\ retired' = retired
  BY DEF Traversal!Asks
<1>. QED
  BY <1>1 DEF TravInv, Traversal!TypeOK, Traversal!Active

\* The answer of an operation.
Answer(op, input, nodes, result, whole, still) ==
    [at |-> "answered", op |-> op, input |-> input, nodes |-> nodes, result |-> result,
     whole |-> whole, still |-> still]

\* An answer is exact when it is right of the graph as it is, where it has to be.
LEMMA AnswerKeeps ==
    ASSUME TravInv, NEW op, NEW input, NEW nodes, NEW result, NEW whole,
           Traversal!Answers(op, input, nodes, result, whole),
           (query.at = "idle" \/ query.since = changes) /\ whole =>
              /\ op = "paths" => Traversal!PathsAreRight(Traversal!Active, input, result)
              /\ op = "explore" => Traversal!NeighbourhoodIsRight(Traversal!Active, input, nodes, result)
              /\ op = "neighbors" /\ input.excluded = {} =>
                    Traversal!DistancesAreRight(Traversal!Active, input, result)
    PROVE  TravInv'
<1>. DEFINE q == Answer(op, input, nodes, result, whole, query.at = "idle" \/ query.since = changes)
<1>1. Traversal!Asks(q)
  BY DEF Traversal!Answers, Answer
<1>2. /\ q.at = "answered" /\ q.op = op /\ q.input = input /\ q.nodes = nodes /\ q.result = result
      /\ q.whole = whole /\ q.still = (query.at = "idle" \/ query.since = changes)
  BY DEF Answer
<1>. HIDE DEF q
<1>3. /\ query' = q /\ changes' = changes /\ Traversal!Active' = Traversal!Active /\ Traversal!TypeOK'
  BY <1>1, <1>2, AskingKeeps
<1>4. Traversal!AnswersAreExact'
  BY <1>2, <1>3 DEF Traversal!AnswersAreExact
<1>. QED
  BY <1>2, <1>3, <1>4 DEF TravInv

\* A query that has only found something has nothing to be right about yet.
LEMMA OnlyAsks ==
    ASSUME TravInv, NEW q, Traversal!Asks(q), q.at = "found", q.since = changes
    PROVE  TravInv'
<1>1. /\ query' = q /\ changes' = changes /\ Traversal!Active' = Traversal!Active /\ Traversal!TypeOK'
  BY AskingKeeps
<1>2. changes \in Nat
  BY DEF TravInv, Traversal!TypeOK
<1>3. Traversal!AnswersAreExact'
  BY <1>1 DEF Traversal!AnswersAreExact
<1>. QED
  BY <1>1, <1>2, <1>3 DEF TravInv

\* The invariant holds at the start.
LEMMA TravInit ==
    ASSUME TraversalConstants, Traversal!Init
    PROVE  TravInv
<1>1. query = [at |-> "idle"] /\ query.at = "idle" /\ changes = 0
  BY DEF Traversal!Init, Traversal!Idle
<1>2. Traversal!TypeOK
  <2>1. edges \in SUBSET Traversal!Edges /\ entities = Nodes /\ retired \subseteq edges
    BY DEF Traversal!Init
  <2>2. Traversal!Ends(edges) \subseteq Nodes
    BY <2>1 DEF Traversal!Ends, Traversal!Edges
  <2>. QED
    BY <1>1, <2>1, <2>2 DEF Traversal!TypeOK, TraversalConstants
<1>3. Traversal!AnswersAreExact
  BY <1>1 DEF Traversal!AnswersAreExact
<1>. QED
  BY <1>1, <1>2, <1>3 DEF TravInv, Traversal!Idle

\* find_connections: what it finds at once is right, or right to look up.
LEMMA FindConnectionsKeeps ==
    ASSUME TraversalConstants, TravInv, NEW a \in Nodes, NEW b \in Nodes, NEW m \in 1..MaxHops,
           Traversal!FindConnections(a, b, m)
    PROVE  TravInv'
<1>. DEFINE s == PathsTo(Traversal!Active, a, b, m)
            i == [from |-> a, to |-> b, max |-> m]
<1>1. query.at = "idle" /\ a # b /\ m \in Nat \ {0}
  <2>1. query = Traversal!Idle /\ a # b
    BY Zenon DEF Traversal!FindConnections
  <2>2. query.at = "idle"
    BY <2>1 DEF Traversal!Idle
  <2>3. m \in Nat \ {0}
    BY DEF TraversalConstants
  <2>. QED
    BY <2>1, <2>2, <2>3
<1>2. PICK t \in Shortened(s) :
         IF s = {} THEN Traversal!Answers("paths", i, {}, {}, TRUE)
         ELSE Traversal!Asks([at |-> "paths", input |-> i, paths |-> t, since |-> changes])
  BY Zenon DEF Traversal!FindConnections, Traversal!Search, PathsTo, Shortened
<1>3. Traversal!Active \in SUBSET Traversal!Edges /\ IsFiniteSet(Traversal!Active)
  BY ActiveIs DEF TravInv
<1>. HIDE DEF s
<1>4. /\ s = {} => b \notin Traversal!Within(Traversal!Active, a, m)
      /\ s # {} => PathsFound(Traversal!Active, i, t)
  BY <1>1, <1>2, <1>3, SearchFinds DEF s
<1>5. CASE s = {}
  <2>1. Traversal!PathsAreRight(Traversal!Active, i, {})
    BY <1>4, <1>5 DEF Traversal!PathsAreRight
  <2>2. Traversal!Answers("paths", i, {}, {}, TRUE)
    BY <1>2, <1>5
  <2>. HIDE DEF i
  <2>. QED
    BY <2>1, <2>2, AnswerKeeps
<1>6. CASE s # {}
  <2>. DEFINE q == [at |-> "paths", input |-> i, paths |-> t, since |-> changes]
  <2>. HIDE DEF i
  <2>1. Traversal!Asks(q)
    BY <1>2, <1>6
  <2>2. q.at = "paths" /\ q.input = i /\ q.paths = t /\ q.since = changes
    OBVIOUS
  <2>. HIDE DEF q
  <2>3. /\ query' = q /\ changes' = changes /\ Traversal!Active' = Traversal!Active /\ Traversal!TypeOK'
    BY <2>1, <2>2, AskingKeeps
  <2>4. changes \in Nat
    BY DEF TravInv, Traversal!TypeOK
  <2>5. Traversal!AnswersAreExact'
    BY <2>2, <2>3 DEF Traversal!AnswersAreExact
  <2>6. PathsFound(Traversal!Active, query.input, query.paths)'
    BY <1>4, <1>6, <2>2, <2>3
  <2>. QED
    BY <2>2, <2>3, <2>4, <2>5, <2>6 DEF TravInv
<1>. QED
  BY <1>5, <1>6

\* What is read of the paths is right when nothing was written meanwhile.
LEMMA LookUpPathsKeeps ==
    ASSUME TraversalConstants, TravInv, Traversal!LookUpPaths
    PROVE  TravInv'
<1>. DEFINE as == {AnswerOf(p, entities, edges) : p \in query.paths}
<1>1. query.at = "paths" /\ Traversal!Answers("paths", query.input, {}, as, TRUE)
  BY DEF Traversal!LookUpPaths, AnswerOf
<1>2. ASSUME query.since = changes
      PROVE  Traversal!PathsAreRight(Traversal!Active, query.input, as)
  <2>1. PathsFound(Traversal!Active, query.input, query.paths)
    BY <1>1, <1>2 DEF TravInv
  <2>2. /\ Traversal!Active \in SUBSET Traversal!Edges /\ Traversal!Active \subseteq edges
        /\ entities \in SUBSET Nodes /\ Traversal!Ends(Traversal!Active) \subseteq entities
    BY ActiveIs DEF TravInv
  <2>. QED
    BY <2>1, <2>2, PathsAreAnswered
<1>. HIDE DEF as
<1>. QED
  BY <1>1, <1>2, AnswerKeeps

\* explore_neighborhood starts with its centre.
LEMMA ExploreKeeps ==
    ASSUME TraversalConstants, TravInv, NEW a \in Nodes, NEW h \in 1..MaxHops, Traversal!Explore(a, h)
    PROVE  TravInv'
<1>. DEFINE i == [center |-> a, depth |-> h]
            q == [at |-> "hops", input |-> i, left |-> h, visited |-> {a}, frontier |-> {a},
                  edges |-> {}, whole |-> TRUE, since |-> changes]
<1>1. Traversal!Asks(q) /\ a \in entities
  BY DEF Traversal!Explore
<1>2. h \in Nat \ {0} /\ changes \in Nat
  BY DEF TravInv, Traversal!TypeOK, TraversalConstants
<1>3. i \in HopsInput
  BY <1>2 DEF HopsInput
<1>4. i.center = a /\ i.depth = h
  OBVIOUS
<1>. HIDE DEF i
<1>5. q \in HopQueries
  BY <1>2, <1>3 DEF HopQueries
<1>6. /\ q.at = "hops" /\ q.input = i /\ q.left = h /\ q.visited = {a} /\ q.frontier = {a}
      /\ q.edges = {} /\ q.since = changes
  OBVIOUS
<1>. HIDE DEF q
<1>7. /\ query' = q /\ changes' = changes /\ entities' = entities
      /\ Traversal!Active' = Traversal!Active /\ Traversal!TypeOK'
  BY <1>1, <1>6, AskingKeeps
<1>8. Exploring(q, Traversal!Active, entities)
  <2>. DEFINE hood == Traversal!Hoods(Traversal!Active, a, h)
  <2>1. IsAround(hood, Traversal!Active, a, h)
    BY <1>2, ActiveIs, HoodsAre DEF TravInv
  <2>2. h - h = 0
    BY <1>2
  <2>. HIDE DEF hood
  <2>3. IsExplored(hood, Traversal!Active, h - h, {a}, {a}, {})
    BY <2>1, <2>2 DEF IsExplored, IsAround
  <2>. QED
    BY <1>1, <1>4, <1>6, <2>3 DEF Exploring, hood
<1>9. Traversal!AnswersAreExact'
  BY <1>6, <1>7 DEF Traversal!AnswersAreExact
<1>10. (query \in HopQueries /\ query.left <= query.input.depth)'
  BY <1>2, <1>4, <1>5, <1>6, <1>7
<1>11. Exploring(query, Traversal!Active, entities)'
  BY <1>7, <1>8 DEF Exploring
<1>. QED
  BY <1>2, <1>6, <1>7, <1>9, <1>10, <1>11 DEF TravInv

\* A hop reads what touches the frontier, or some of it.
LEMMA ExploreHopKeeps ==
    ASSUME TraversalConstants, TravInv, Traversal!ExploreHop
    PROVE  TravInv'
<1>. DEFINE all == Traversal!Touching(Traversal!Active, query.frontier)
<1>1. query.at = "hops" /\ query.left > 0 /\ query.frontier # {}
  BY DEF Traversal!ExploreHop
<1>2. PICK level \in SUBSET all :
         Traversal!Asks([query EXCEPT !.left = @ - 1, !.edges = @ \cup level,
                                      !.visited = @ \cup Traversal!Ends(level),
                                      !.frontier = Traversal!Ends(level) \ query.visited,
                                      !.whole = @ /\ level = all])
  BY Zenon DEF Traversal!ExploreHop, Traversal!Limited, Traversal!HopsOf, Traversal!Incident
<1>. DEFINE ends == Traversal!Ends(level)
            q == [query EXCEPT !.left = @ - 1, !.edges = @ \cup level, !.visited = @ \cup ends,
                               !.frontier = ends \ query.visited, !.whole = @ /\ level = all]
<1>3. Traversal!Asks(q)
  BY <1>2
<1>4. query \in HopQueries /\ query.left <= query.input.depth /\ query.since \in 0..changes
  BY <1>1 DEF TravInv
<1>5. /\ Traversal!Active \in SUBSET Traversal!Edges /\ entities \in SUBSET Nodes
      /\ Traversal!Ends(Traversal!Active) \subseteq entities
  BY ActiveIs DEF TravInv
<1>6. level \in SUBSET Traversal!Active
  BY <1>2 DEF Traversal!Touching
<1>7. ends \subseteq entities /\ level \in SUBSET Traversal!Edges
  BY <1>5, <1>6 DEF Traversal!Ends
<1>. HIDE DEF ends, all
<1>8. /\ q.at = "hops" /\ q.input = query.input /\ q.left = query.left - 1
      /\ q.edges = query.edges \cup level /\ q.visited = query.visited \cup ends
      /\ q.frontier = ends \ query.visited /\ q.since = query.since
  BY <1>4 DEF HopQueries
<1>9. q.whole = (query.whole /\ level = all)
  BY <1>4 DEF HopQueries
<1>10. q \in HopQueries
  <2>1. query.left - 1 \in Nat
    BY <1>1, <1>4 DEF HopQueries
  <2>2. query.edges \cup level \in SUBSET Traversal!Edges /\ query.visited \cup ends \in SUBSET Nodes
        /\ ends \ query.visited \in SUBSET Nodes
    BY <1>4, <1>5, <1>7 DEF HopQueries
  <2>3. (query.whole /\ level = all) \in BOOLEAN
    OBVIOUS
  <2>. QED
    BY <1>4, <2>1, <2>2, <2>3 DEF HopQueries
<1>. HIDE DEF q
<1>11. /\ query' = q /\ changes' = changes /\ entities' = entities
       /\ Traversal!Active' = Traversal!Active /\ Traversal!TypeOK'
  BY <1>3, <1>8, AskingKeeps
<1>12. ASSUME q.since = changes, q.whole PROVE Exploring(q, Traversal!Active, entities)
  <2>. DEFINE k == query.input.depth
              c == query.input.center
              j == k - query.left
              hood == Traversal!Hoods(Traversal!Active, c, k)
  <2>1. Exploring(query, Traversal!Active, entities) /\ level = all
    BY <1>1, <1>8, <1>9, <1>12 DEF TravInv
  <2>2. k \in Nat /\ c \in Nodes /\ query.left \in Nat /\ query.left <= k /\ query.left > 0
    BY <1>1, <1>4 DEF HopQueries, HopsInput
  <2>3. j \in 0..(k - 1) /\ k - (query.left - 1) = j + 1
    BY <2>2
  <2>4. IsAround(hood, Traversal!Active, c, k)
    BY <1>5, <2>2, HoodsAre
  <2>5. IsExplored(hood, Traversal!Active, j, query.visited, query.frontier, query.edges)
    BY <2>1 DEF Exploring
  <2>. HIDE DEF k, c, j, hood
  <2>6. IsExplored(hood, Traversal!Active, j + 1, query.visited \cup ends, ends \ query.visited,
                   query.edges \cup level)
    BY <2>1, <2>2, <2>3, <2>4, <2>5, HopExplores DEF all, ends
  <2>7. query.visited \cup ends \subseteq entities
    BY <1>7, <2>1 DEF Exploring
  <2>8. q.input.depth - q.left = j + 1
    BY <1>8, <2>3 DEF k
  <2>. QED
    BY <1>8, <2>6, <2>7, <2>8 DEF Exploring, hood, k, c
<1>13. Traversal!AnswersAreExact'
  BY <1>8, <1>11 DEF Traversal!AnswersAreExact
<1>14. (query \in HopQueries /\ query.left <= query.input.depth)'
  <2>1. query.left \in Nat /\ query.input.depth \in Nat
    BY <1>4 DEF HopQueries, HopsInput
  <2>. QED
    BY <1>4, <1>8, <1>10, <1>11, <2>1
<1>15. (query.since = changes /\ query.whole)' => Exploring(query, Traversal!Active, entities)'
  BY <1>11, <1>12 DEF Exploring
<1>16. (query.since \in 0..changes)'
  BY <1>4, <1>8, <1>11
<1>17. query'.at = "hops"
  BY <1>8, <1>11
<1>. QED
  BY <1>11, <1>13, <1>14, <1>15, <1>16, <1>17 DEF TravInv

\* What it answers in the end is the neighbourhood.
LEMMA ExploreNodesKeeps ==
    ASSUME TraversalConstants, TravInv, Traversal!ExploreNodes
    PROVE  TravInv'
<1>. DEFINE i == query.input
            k == i.depth
            c == i.center
            es == Traversal!Active
            hood == Traversal!Hoods(es, c, k)
<1>1. /\ query.at = "hops" /\ (query.left = 0 \/ query.frontier = {})
      /\ Traversal!Answers("explore", i, query.visited \cap entities, query.edges, query.whole)
  BY DEF Traversal!ExploreNodes
<1>2. ASSUME query.since = changes, query.whole
      PROVE  Traversal!NeighbourhoodIsRight(es, i, query.visited \cap entities, query.edges)
  <2>1. /\ query \in HopQueries /\ query.left <= k /\ Exploring(query, es, entities)
    BY <1>1, <1>2 DEF TravInv
  <2>2. k \in Nat \ {0} /\ k \in Nat /\ c \in Nodes /\ query.left \in Nat
    BY <2>1 DEF HopQueries, HopsInput
  <2>3. es \in SUBSET Traversal!Edges
    BY ActiveIs DEF TravInv
  <2>4. /\ IsAround(hood, es, c, k)
        /\ \A j \in 0..k : Traversal!Around(es, c, j) = hood[j]
    BY <2>2, <2>3, HoodsAreAround
  <2>5. /\ query.visited \subseteq entities
        /\ IsExplored(hood, es, k - query.left, query.visited, query.frontier, query.edges)
    BY <2>1 DEF Exploring
  <2>6. k - query.left \in 0..k /\ (query.left = 0 => k - query.left = k)
        /\ k \in 0..k /\ k - 1 \in 0..k
    BY <2>1, <2>2
  <2>. HIDE DEF k, c, es, hood
  <2>7. k - query.left = k \/ query.frontier = {}
    BY <1>1, <2>6
  <2>8. query.visited = hood[k] /\ query.edges = Traversal!Touching(es, hood[k - 1])
    BY <2>2, <2>4, <2>5, <2>6, <2>7, ExploredWhole
  <2>9. query.visited \cap entities = Traversal!Around(es, c, k)
    BY <2>4, <2>5, <2>6, <2>8
  <2>10. query.edges = Traversal!Touching(es, Traversal!Around(es, c, k - 1))
    BY <2>4, <2>6, <2>8
  <2>. QED
    BY <2>9, <2>10 DEF Traversal!NeighbourhoodIsRight, k, c
<1>3. query.since = changes /\ query.whole =>
         Traversal!NeighbourhoodIsRight(Traversal!Active, i, query.visited \cap entities, query.edges)
  BY <1>2
<1>. HIDE DEF i
<1>. QED
  BY <1>1, <1>3, AnswerKeeps

\* db_get_neighbors answers the same neighbourhood.
LEMMA NeighborsKeeps ==
    ASSUME TraversalConstants, TravInv, NEW a \in Nodes, NEW h \in 1..MaxHops, NEW x,
           Traversal!Neighbors(a, h, x)
    PROVE  TravInv'
<1>. DEFINE es == Traversal!Active
            ws == WalksUpTo(es, a, h)
            kept == {w \in ws : w.to \notin x}
            i == [center |-> a, depth |-> h, excluded |-> x]
            rels == Nearest(kept)
<1>1. PICK level \in SUBSET rels : Traversal!Answers("neighbors", i, {}, level, level = rels)
  BY Zenon DEF Traversal!Neighbors, Traversal!Limited, Traversal!Arrivals, WalksUpTo, Nearest
<1>2. ASSUME x = {}, level = rels PROVE Traversal!DistancesAreRight(es, i, level)
  <2>1. kept = ws
    BY <1>2
  <2>2. es \in SUBSET Traversal!Edges
    BY ActiveIs DEF TravInv
  <2>3. h \in Nat \ {0} /\ i.center = a /\ i.depth = h
    BY DEF TraversalConstants
  <2>. HIDE DEF kept, i, es
  <2>4. Traversal!DistancesAreRight(es, i, Nearest(WalksUpTo(es, a, h)))
    BY <2>2, <2>3, NearestIsRight
  <2>. QED
    BY <1>2, <2>1, <2>4
<1>3. i.excluded = x
  OBVIOUS
<1>. HIDE DEF i, rels
<1>4. (level = rels) /\ i.excluded = {} => Traversal!DistancesAreRight(Traversal!Active, i, level)
  BY <1>2, <1>3
<1>. QED
  BY <1>1, <1>4, AnswerKeeps

\* The other queries read what touches some entities.
LEMMA OtherQueriesKeep ==
    ASSUME TraversalConstants, TravInv
    PROVE  /\ \A m : Traversal!FindEntities(m) => TravInv'
           /\ \A m : Traversal!ReadGraph(m) => TravInv'
           /\ Traversal!FindRelationships => TravInv'
           /\ \A a, d : Traversal!Relationships(a, d) => TravInv'
           /\ Traversal!DealPartners => TravInv'
<1>1. ASSUME NEW op \in {"query", "relationships", "graph", "partners"}, NEW input, NEW nodes,
             NEW result, NEW whole, Traversal!Answers(op, input, nodes, result, whole)
      PROVE  TravInv'
  <2>1. op # "paths" /\ op # "explore" /\ op # "neighbors"
    OBVIOUS
  <2>. QED
    BY <1>1, <2>1, AnswerKeeps
<1>2. ASSUME NEW m, Traversal!FindEntities(m) PROVE TravInv'
  <2>1. PICK found : IF found = {} THEN Traversal!Answers("query", [of |-> {}], {}, {}, TRUE)
                     ELSE Traversal!Asks([at |-> "found", found |-> found, since |-> changes])
    BY <1>2, Zenon DEF Traversal!FindEntities
  <2>2. CASE found = {}
    BY <1>1, <2>1, <2>2
  <2>3. CASE found # {}
    <3>. DEFINE q == [at |-> "found", found |-> found, since |-> changes]
    <3>1. Traversal!Asks(q) /\ q.at = "found" /\ q.since = changes
      BY <2>1, <2>3
    <3>. HIDE DEF q
    <3>. QED
      BY <3>1, OnlyAsks
  <2>. QED
    BY <2>2, <2>3
<1>3. ASSUME NEW m, Traversal!ReadGraph(m) PROVE TravInv'
  <2>1. PICK level : Traversal!Answers("graph", [of |-> m], Traversal!Ends(level), level,
                                      level = Traversal!Incident(m))
    BY <1>3, Zenon DEF Traversal!ReadGraph
  <2>. QED
    BY <1>1, <2>1
<1>4. ASSUME Traversal!FindRelationships PROVE TravInv'
  <2>1. PICK level : Traversal!Answers("query", [of |-> query.found], query.found, level,
                                      level = Traversal!Incident(query.found))
    BY <1>4, Zenon DEF Traversal!FindRelationships
  <2>. QED
    BY <1>1, <2>1
<1>5. ASSUME NEW a, NEW d, Traversal!Relationships(a, d) PROVE TravInv'
  <2>. DEFINE all == {e \in Traversal!Active : \/ d # "incoming" /\ e.s = a
                                               \/ d # "outgoing" /\ e.o = a}
  <2>1. PICK level : Traversal!Answers("relationships", [entity |-> a, direction |-> d], {a}, level,
                                      level = all)
    BY <1>5, Zenon DEF Traversal!Relationships
  <2>. HIDE DEF all
  <2>. QED
    BY <1>1, <2>1
<1>6. ASSUME Traversal!DealPartners PROVE TravInv'
  <2>. DEFINE deals == {e \in Traversal!Active : e.deal /\ e.s \in Persons}
              pairs == {[pair |-> {x[1].s, x[2].s}, of |-> x[1].o] :
                           x \in {y \in deals \X deals : y[1].o = y[2].o /\ y[1].s # y[2].s}}
  <2>1. Traversal!Answers("partners", [of |-> {}], {}, pairs, TRUE)
    BY <1>6, Zenon DEF Traversal!DealPartners
  <2>. HIDE DEF pairs
  <2>. QED
    BY <1>1, <2>1
<1>. QED
  BY <1>2, <1>3, <1>4, <1>5, <1>6

\* After a write no running query is said to have seen the graph as it is.
LEMMA GraphWriteKeeps ==
    ASSUME TraversalConstants, TravInv, Traversal!Write
    PROVE  TravInv'
<1>1. /\ changes < MaxChanges /\ query.at \in {"paths", "hops", "found"} /\ changes' = changes + 1
      /\ query' = query
  BY DEF Traversal!Write
<1>2. /\ changes \in Nat /\ changes' \in 0..MaxChanges /\ MaxChanges \in Nat
      /\ query.since \in 0..changes
  BY <1>1 DEF TravInv, Traversal!TypeOK, TraversalConstants
<1>3. query'.since \in 0..changes' /\ query'.since # changes'
  BY <1>1, <1>2
<1>4. /\ entities' \subseteq Nodes /\ retired' \subseteq edges' /\ edges' \subseteq Traversal!Edges
      /\ Traversal!Ends(edges') \subseteq entities'
  <2>0. /\ entities \subseteq Nodes /\ retired \subseteq edges /\ edges \subseteq Traversal!Edges
        /\ Traversal!Ends(edges) \subseteq entities
    BY DEF TravInv, Traversal!TypeOK
  <2>1. ASSUME NEW n \in entities, entities' = entities \ {n},
               edges' = {e \in edges : ~ Traversal!Touches(e, {n})}, retired' = retired \cap edges'
        PROVE  <1>4!:
    BY <2>0, <2>1 DEF Traversal!Ends, Traversal!Touches
  <2>2. ASSUME NEW e \in Traversal!Edges, Traversal!Ends({e}) \subseteq entities,
               edges' = edges \cup {e}, entities' = entities, retired' = retired
        PROVE  <1>4!:
    BY <2>0, <2>2 DEF Traversal!Ends
  <2>3. ASSUME NEW e \in edges, edges' = edges \ {e}, retired' = retired \ {e}, entities' = entities
        PROVE  <1>4!:
    BY <2>0, <2>3 DEF Traversal!Ends
  <2>4. ASSUME NEW e \in Traversal!Active, retired' = retired \cup {e}, entities' = entities, edges' = edges
        PROVE  <1>4!:
    BY <2>0, <2>4 DEF Traversal!Active
  <2>. QED
    BY <2>1, <2>2, <2>3, <2>4 DEF Traversal!Write
<1>5. Traversal!TypeOK'
  BY <1>1, <1>2, <1>4 DEF Traversal!TypeOK
<1>6. Traversal!AnswersAreExact'
  BY <1>1 DEF Traversal!AnswersAreExact
<1>7. (query.at = "hops" => query \in HopQueries /\ query.left <= query.input.depth)'
  BY <1>1 DEF TravInv
<1>. QED
  BY <1>1, <1>3, <1>5, <1>6, <1>7 DEF TravInv

\* Every step of a query or a writer keeps the invariant.
LEMMA TravStep ==
    ASSUME TraversalConstants, TravInv, [Traversal!Next]_(Traversal!traversalVars)
    PROVE  TravInv'
<1>1. CASE UNCHANGED Traversal!traversalVars
  <2>1. /\ entities' = entities /\ edges' = edges /\ retired' = retired /\ query' = query
        /\ changes' = changes
    BY <1>1 DEF Traversal!traversalVars
  <2>2. Traversal!Active' = Traversal!Active
    BY <2>1 DEF Traversal!Active
  <2>3. Traversal!TypeOK' /\ Traversal!AnswersAreExact'
    BY <2>1, <2>2 DEF TravInv, Traversal!TypeOK, Traversal!AnswersAreExact
  <2>. QED
    BY <2>1, <2>2, <2>3 DEF TravInv, Exploring
<1>2. CASE Traversal!Next
  <2>1. ASSUME NEW a \in Nodes, NEW b \in Nodes, NEW h \in 1..MaxHops, Traversal!FindConnections(a, b, h)
        PROVE  TravInv'
    BY <2>1, FindConnectionsKeeps
  <2>2. ASSUME Traversal!LookUpPaths PROVE TravInv'
    BY <2>2, LookUpPathsKeeps
  <2>3. ASSUME NEW a \in Nodes, NEW h \in 1..MaxHops, Traversal!Explore(a, h) PROVE TravInv'
    BY <2>3, ExploreKeeps
  <2>4. ASSUME Traversal!ExploreHop PROVE TravInv'
    BY <2>4, ExploreHopKeeps
  <2>5. ASSUME Traversal!ExploreNodes PROVE TravInv'
    BY <2>5, ExploreNodesKeeps
  <2>6. ASSUME NEW a \in Nodes, NEW h \in 1..MaxHops, NEW x, Traversal!Neighbors(a, h, x) PROVE TravInv'
    BY <2>6, NeighborsKeeps
  <2>7. ASSUME Traversal!Write PROVE TravInv'
    BY <2>7, GraphWriteKeeps
  <2>. QED
    BY <1>2, <2>1, <2>2, <2>3, <2>4, <2>5, <2>6, <2>7, OtherQueriesKeep, Zenon DEF Traversal!Next
<1>. QED
  BY <1>1, <1>2

\* On a graph nobody wrote meanwhile, and unless a limit was reached, the walks of the
\* knowledge graph answer what is there (agent/kg_tools.py, db/knowledge_graph.py).
THEOREM TraversalAnswersAreExact ==
    ASSUME TraversalConstants
    PROVE  Traversal!Spec => [](Traversal!TypeOK /\ Traversal!AnswersAreExact)
<1>1. Traversal!Init => TravInv
  BY TravInit
<1>2. TravInv /\ [Traversal!Next]_(Traversal!traversalVars) => TravInv'
  BY TravStep
<1>3. TravInv => Traversal!TypeOK /\ Traversal!AnswersAreExact
  BY DEF TravInv
<1>. QED
  BY <1>1, <1>2, <1>3, PTL DEF Traversal!Spec
=============================================================================
