------------------------------ MODULE SchemaCache ------------------------------
(***************************************************************************)
(* The schema of a document session: computed with a language model,       *)
(* cached in Redis, and computed by one caller at a time under a lock with *)
(* a time to live (analyze_schema in app/document_intelligence.py).  The   *)
(* documents of a session only grow; a schema is the number of documents   *)
(* it was computed from.                                                   *)
(***************************************************************************)
EXTENDS Naturals, FiniteSets

CONSTANTS
    Callers,   \* uploads and queries that want the schema
    MaxDocs,   \* a bound: documents in the session
    MaxPolls,  \* how often a caller looks for the holder's result, 30 in the code
    MaxFaults  \* a bound: how many failures, expiries of the lock included

None == 0      \* no schema

VARIABLES
    docs,      \* the documents of the session
    cache,     \* doc_schema:{key}
    lock,      \* doc_schema_lock:{key} is set; its value names nobody
    call,      \* what each caller is doing, and the documents it was given
    expiries,  \* history: how often the lock expired while it was held
    faults

cacheVars == <<docs, cache, lock, call, expiries, faults>>

Idle == [pc |-> "idle", given |-> 0, polls |-> 0, result |-> None]
At(c, pc) == call[c].pc = pc
Go(c, pc) == call' = [call EXCEPT ![c].pc = pc]
Fault == faults < MaxFaults /\ faults' = faults + 1
Returned(c, schema) ==
    call' = [call EXCEPT ![c] = [Idle EXCEPT !.pc = "returned", !.result = schema]]

Init ==
    /\ docs = 1
    /\ cache = None
    /\ lock = FALSE
    /\ call = [c \in Callers |-> Idle]
    /\ expiries = 0
    /\ faults = 0

-----------------------------------------------------------------------------

\* An upload appends a document.  Nothing touches the cached schema.
AppendDocument ==
    /\ docs < MaxDocs /\ docs' = docs + 1
    /\ UNCHANGED <<cache, lock, call, expiries, faults>>

\* The caller comes with the documents as it read them.
Call(c) ==
    /\ At(c, "idle") \/ At(c, "returned")
    /\ call' = [call EXCEPT ![c] = [Idle EXCEPT !.pc = "look", !.given = docs]]
    /\ UNCHANGED <<docs, cache, lock, expiries, faults>>

LookUp(c) ==
    /\ At(c, "look")
    /\ IF cache # None THEN Returned(c, cache) ELSE Go(c, "lock")
    /\ UNCHANGED <<docs, cache, lock, expiries, faults>>

\* The read fails: it is as if the schema were not there.
LookUpFails(c) ==
    /\ At(c, "look") /\ Fault /\ Go(c, "lock")
    /\ UNCHANGED <<docs, cache, lock, expiries>>

\* SET NX with a time to live: one caller computes, the others poll.
TryLock(c) ==
    /\ At(c, "lock")
    /\ lock' = TRUE
    /\ Go(c, IF lock THEN "poll" ELSE "compute")
    /\ UNCHANGED <<docs, cache, expiries, faults>>

\* The SET fails, applied or not: the caller gives up.
TryLockFails(c) ==
    /\ At(c, "lock") /\ Fault
    /\ lock' \in {lock, TRUE}
    /\ Returned(c, None)
    /\ UNCHANGED <<docs, cache, expiries>>

Compute(c) ==
    /\ At(c, "compute")
    /\ call' = [call EXCEPT ![c].pc = "write", ![c].result = call[c].given]
    /\ UNCHANGED <<docs, cache, lock, expiries, faults>>

\* The model fails, or finds nothing to describe; the lock is freed all the same.
ComputeFails(c) ==
    /\ At(c, "compute") /\ Fault /\ Go(c, "unlock")
    /\ UNCHANGED <<docs, cache, lock, expiries>>

\* SETEX; a failure is logged and the caller has its schema.
Write(c) ==
    /\ At(c, "write")
    /\ \/ cache' = call[c].result /\ faults' = faults
       \/ cache' = cache /\ Fault
    /\ Go(c, "unlock")
    /\ UNCHANGED <<docs, lock, expiries>>

\* The lock is deleted without a look at who set it.
Unlock(c) ==
    /\ At(c, "unlock")
    /\ lock' = FALSE
    /\ Returned(c, call[c].result)
    /\ UNCHANGED <<docs, cache, expiries, faults>>

\* The delete fails: the lock stays until it expires.
UnlockFails(c) ==
    /\ At(c, "unlock") /\ Fault
    /\ Returned(c, call[c].result)
    /\ UNCHANGED <<docs, cache, lock, expiries>>

\* A caller that polled in vain has no schema.
GivesUp(c) == Returned(c, None)

\* One look at the cache; a failed one counts like one that found nothing.
Poll(c) ==
    /\ At(c, "poll")
    /\ IF cache # None THEN Returned(c, cache)
       ELSE IF call[c].polls < MaxPolls
       THEN call' = [call EXCEPT ![c].polls = @ + 1]
       ELSE GivesUp(c)
    /\ UNCHANGED <<docs, cache, lock, expiries, faults>>

\* Thirty seconds are over, or whoever held the lock died before.
Expire ==
    /\ lock /\ Fault
    /\ lock' = FALSE
    /\ expiries' = expiries + 1
    /\ UNCHANGED <<docs, cache, call>>

\* The time to live of the schema is over.
Evict ==
    /\ cache # None /\ Fault
    /\ cache' = None
    /\ UNCHANGED <<docs, lock, call, expiries>>

Next ==
    \/ AppendDocument \/ Expire \/ Evict
    \/ \E c \in Callers :
         \/ Call(c) \/ LookUp(c) \/ LookUpFails(c) \/ TryLock(c) \/ TryLockFails(c)
         \/ Compute(c) \/ ComputeFails(c) \/ Write(c) \/ Unlock(c) \/ UnlockFails(c)
         \/ Poll(c)

Spec == Init /\ [][Next]_cacheVars

-----------------------------------------------------------------------------
(* What must hold. *)

TypeOK ==
    /\ docs \in 1..MaxDocs
    /\ cache \in 0..MaxDocs
    /\ lock \in BOOLEAN
    /\ call \in [Callers -> [pc : {"idle", "look", "lock", "compute", "write", "unlock",
                                   "poll", "returned"},
                             given : 0..MaxDocs, polls : 0..MaxPolls, result : 0..MaxDocs]]
    /\ expiries \in 0..MaxFaults
    /\ faults \in 0..MaxFaults

Computing == {c \in Callers : call[c].pc \in {"compute", "write", "unlock"}}

\* "Distributed lock prevents duplicate LLM calls for concurrent uploads": the
\* callers between taking and freeing the lock are one more than the locks that
\* ran out under their holders, at most.  The delete frees whatever lock is there,
\* and still one expiry never lets in more than one caller too many.
OverlapIsBounded == Cardinality(Computing) <= 1 + expiries
=============================================================================
