---------------------------- MODULE ConnectionPool ----------------------------
(***************************************************************************)
(* The database connections of one process (app/db/_pool.py) and the       *)
(* cached secret they are opened with (app/secrets.py).  The coroutines    *)
(* of the process interleave where the code awaits.  When the password is  *)
(* rotated, connections that are open stay open, new ones are refused; the *)
(* secrets manager publishes the new password some time after the database *)
(* took it.  Passwords are numbered in the order of their rotation.        *)
(***************************************************************************)
EXTENDS Naturals, Sequences

CONSTANTS
    Callers,       \* coroutines that use the database
    Nested,        \* those that acquire again while they hold a connection
    NoCaller,      \* the lock is free
    MaxRotations,  \* a bound: rotations of the password
    MaxPools,      \* a bound: pools a process opens
    MaxFaults      \* a bound: refused connections for other reasons

VARIABLES
    password,   \* what the database accepts
    published,  \* what the secrets manager answers
    secret,     \* _cached_db_secret
    pool,       \* _pool, an index into pools
    pools,      \* every pool ever opened: its password and whether it is open
    lock,       \* who holds _pool_lock
    call,       \* what each coroutine is doing
    faults

poolVars == <<password, published, secret, pool, pools, lock, call, faults>>
database == <<password, published>>

None == 0

\* mine is the pool a coroutine works with, old the one it tears down; tried
\* says that it has been through a reset, held lists the pools it has a
\* connection of, the last one acquired at the end.
Idle == [pc |-> "idle", mine |-> None, old |-> None, tried |-> FALSE, held |-> <<>>]
Go(c, pc) == call' = [call EXCEPT ![c].pc = pc]
Holds(c, i) == \E k \in 1..Len(call[c].held) : call[c].held[k] = i

Init ==
    /\ password = 1 /\ published = 1 /\ secret = None
    /\ pool = None /\ pools = <<>>
    /\ lock = NoCaller
    /\ call = [c \in Callers |-> Idle]
    /\ faults = 0

-----------------------------------------------------------------------------
(* The database and the secrets manager. *)

Rotate ==
    /\ password < 1 + MaxRotations /\ password' = password + 1
    /\ UNCHANGED <<published, secret, pool, pools, lock, call, faults>>

Publish ==
    /\ published < password /\ published' = password
    /\ UNCHANGED <<password, secret, pool, pools, lock, call, faults>>

-----------------------------------------------------------------------------
(* A coroutine. *)

\* An exception leaves the block, and the connections it holds go back.
Fails(c) == call' = [call EXCEPT ![c] = Idle]
Uses(c, i) == call' = [call EXCEPT ![c].pc = "acquire", ![c].mine = i]

\* get_pool: the pool there is, or else the lock.
GetPool(c) ==
    /\ \/ call[c].pc \in {"idle", "again"}
       \/ call[c].pc = "use" /\ c \in Nested /\ Len(call[c].held) = 1
    /\ IF pool # None THEN Uses(c, pool) ELSE Go(c, "wait")
    /\ UNCHANGED <<database, secret, pool, pools, lock, faults>>

\* "another coroutine beat us here"
SomebodyElseDid == pool # None

\* get_db_secret: cached until it is evicted.
DbSecret == IF secret = None THEN published ELSE secret

\* Under the lock: the pool somebody else has made, or a new one with the cached
\* secret, which is fetched when there is none.
EnterLock(c) ==
    /\ call[c].pc = "wait" /\ lock = NoCaller
    /\ IF SomebodyElseDid
       THEN Uses(c, pool) /\ UNCHANGED <<lock, secret>>
       ELSE /\ Go(c, "create") /\ lock' = c
            /\ secret' = DbSecret
    /\ UNCHANGED <<database, pool, pools, faults>>

CreatePool(c) ==
    /\ call[c].pc = "create" /\ secret = password /\ Len(pools) < MaxPools
    /\ pools' = Append(pools, [secret |-> secret, state |-> "open"])
    /\ pool' = Len(pools) + 1
    /\ Uses(c, Len(pools) + 1)
    /\ lock' = NoCaller
    /\ UNCHANGED <<database, secret, faults>>

\* get_pool is called outside the try: a refused password fails the caller, and
\* the secret stays cached.
CreateFails(c) ==
    /\ call[c].pc = "create"
    /\ \/ secret # password /\ faults' = faults
       \/ faults < MaxFaults /\ faults' = faults + 1
    /\ Fails(c) /\ lock' = NoCaller
    /\ UNCHANGED <<database, secret, pool, pools>>

\* A connection of the pool, one that is open or a new one.
Acquire(c) ==
    /\ call[c].pc = "acquire" /\ pools[call[c].mine].state = "open"
    /\ call' = [call EXCEPT ![c].pc = "use", ![c].tried = FALSE,
                            ![c].held = Append(@, call[c].mine)]
    /\ UNCHANGED <<database, secret, pool, pools, lock, faults>>

\* A new connection is refused: the first time the pool is reset.
Refused(c) ==
    /\ call[c].pc = "acquire" /\ pools[call[c].mine].state = "open"
    /\ \/ pools[call[c].mine].secret # password /\ faults' = faults
       \/ faults < MaxFaults /\ faults' = faults + 1
    /\ IF call[c].tried THEN Fails(c) ELSE Go(c, "reset")
    /\ UNCHANGED <<database, secret, pool, pools, lock>>

\* The pool was torn down since: an InterfaceError, which is not retried.
PoolIsClosed(c) ==
    /\ call[c].pc = "acquire" /\ pools[call[c].mine].state # "open"
    /\ Fails(c)
    /\ UNCHANGED <<database, secret, pool, pools, lock, faults>>

\* _reset_pool takes whatever pool there is by now, not the one that refused,
\* and forgets the secret; close() waits for the pool's connections.
ResetPool(c) ==
    /\ call[c].pc = "reset" /\ lock = NoCaller
    /\ call' = [call EXCEPT ![c].pc = "closing", ![c].old = pool]
    /\ pools' = [i \in 1..Len(pools) |->
                   IF i = pool THEN [pools[i] EXCEPT !.state = "closing"] ELSE pools[i]]
    /\ pool' = None /\ secret' = None
    /\ UNCHANGED <<database, lock, faults>>

Closed(c) ==
    /\ call[c].pc = "closing"
    /\ \A d \in Callers : ~Holds(d, call[c].old)
    /\ pools' = [i \in 1..Len(pools) |->
                   IF i = call[c].old THEN [pools[i] EXCEPT !.state = "closed"] ELSE pools[i]]
    /\ call' = [call EXCEPT ![c].pc = "again", ![c].old = None, ![c].tried = TRUE]
    /\ UNCHANGED <<database, secret, pool, lock, faults>>

\* The block ends, or fails, and its connection goes back.
Release(c) ==
    /\ call[c].pc = "use"
    /\ LET n == Len(call[c].held) IN
       call' = [call EXCEPT ![c] = IF n = 1 THEN Idle
                                   ELSE [Idle EXCEPT !.pc = "use", !.held = SubSeq(call[c].held, 1, n - 1)]]
    /\ UNCHANGED <<database, secret, pool, pools, lock, faults>>

Next ==
    \/ Rotate \/ Publish
    \/ \E c \in Callers :
         \/ GetPool(c) \/ EnterLock(c) \/ CreatePool(c) \/ CreateFails(c)
         \/ Acquire(c) \/ Refused(c) \/ PoolIsClosed(c)
         \/ ResetPool(c) \/ Closed(c) \/ Release(c)

Spec == Init /\ [][Next]_poolVars

-----------------------------------------------------------------------------
(* What must hold. *)

TypeOK ==
    /\ password \in 1..(1 + MaxRotations) /\ published \in 1..password
    /\ secret \in 0..published
    /\ pool \in 0..Len(pools) /\ Len(pools) <= MaxPools
    /\ \A i \in 1..Len(pools) : pools[i].state \in {"open", "closing", "closed"}
    /\ lock \in Callers \cup {NoCaller}
    /\ \A c \in Callers : call[c].mine \in 0..Len(pools) /\ call[c].old \in 0..Len(pools)
    /\ faults \in 0..MaxFaults

\* However calls, rotations and resets overlap, the process has one open pool and
\* it is the one new calls get; a pool with a connection out is not closed.
NoPoolLeaks ==
    /\ \A i \in 1..Len(pools) : pools[i].state = "open" => i = pool
    /\ \A c \in Callers, i \in 1..Len(pools) : Holds(c, i) => pools[i].state # "closed"
=============================================================================
