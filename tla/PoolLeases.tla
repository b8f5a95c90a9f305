----------------------------- MODULE PoolLeases -----------------------------
(***************************************************************************)
(* Postgres backends of one process and the connection pool they share.    *)
(* A registry, under its lock, keeps the live pool and counts the leases   *)
(* on it; the last lease to go closes the pool.  A lease goes when its     *)
(* backend is closed, or when the garbage collector finds the backend      *)
(* unreachable: then the finalizer runs in any thread, and the lock is one *)
(* that its owner may take again.                                          *)
(*                                                                         *)
(* One key stands for all: two keys share nothing but the lock.            *)
(***************************************************************************)
EXTENDS Naturals, Sequences, FiniteSets

CONSTANTS
    Backends,
    Threads,
    PoolSize,
    MaxPools    \* bound

VARIABLES
    pools,      \* every pool there was: refs, open, and free connections
    registry,   \* the index of the registered pool, or 0
    lease,      \* lease[b]: the pool that b leases, or 0
    registrar,  \* the thread that has the registry lock, or NoThread
    owner,      \* owner[b]: the thread that has b's lock, or NoThread
    thread,     \* thread[t]: pc, its backend, the connections it holds, and
                \* the pool found in the registry
    unlucky     \* history: pools that were collected between being found in
                \* the registry and being counted

poolVars == <<pools, registry, lease, registrar, owner, thread, unlucky>>

NoThread == "none"
NoBackend == "none"

PoolAssumption ==
    /\ NoThread \notin Threads /\ NoBackend \notin Backends
    /\ PoolSize \in Nat \ {0} /\ MaxPools \in Nat

Idle == [pc |-> "idle", backend |-> NoBackend, held |-> 0, found |-> 0]

Init ==
    /\ pools = <<>>
    /\ registry = 0
    /\ lease = [b \in Backends |-> 0]
    /\ registrar = NoThread
    /\ owner = [b \in Backends |-> NoThread]
    /\ thread = [t \in Threads |-> Idle]
    /\ unlucky = {}

At(t, pc) == thread[t].pc = pc
Used(b) == \E t \in Threads : thread[t].backend = b

-----------------------------------------------------------------------------

(* acquire_pool, up to the entry; a new pool is made and registered.       *)
Find(t, b) ==
    /\ At(t, "idle") /\ lease[b] = 0 /\ ~Used(b) /\ registrar = NoThread
    /\ registrar' = t
    /\ IF registry # 0
       THEN UNCHANGED <<pools, registry>>
       ELSE /\ Len(pools) < MaxPools
            /\ pools' = Append(pools, [refs |-> 0, open |-> TRUE, free |-> PoolSize])
            /\ registry' = Len(pools) + 1
    /\ thread' = [thread EXCEPT ![t] = [Idle EXCEPT !.pc = "found", !.backend = b,
                                                    !.found = registry']]
    /\ UNCHANGED <<lease, owner, unlucky>>

Count(t) ==
    /\ At(t, "found")
    /\ pools' = [pools EXCEPT ![thread[t].found].refs = @ + 1]
    /\ lease' = [lease EXCEPT ![thread[t].backend] = thread[t].found]
    /\ thread' = [thread EXCEPT ![t] = Idle]
    /\ registrar' = NoThread
    /\ UNCHANGED <<registry, owner, unlucky>>

(* Defect: the pool is closed by any lease that goes.                      *)
ReleaseClosing(b) ==
    LET p == lease[b]
    IN  /\ lease' = [lease EXCEPT ![b] = 0]
        /\ pools' = [pools EXCEPT ![p].refs = @ - 1, ![p].open = FALSE]
        /\ registry' = IF registry = p THEN 0 ELSE registry

Release(b) ==
    LET p == lease[b]
        last == pools[p].refs = 1
    IN  /\ lease' = [lease EXCEPT ![b] = 0]
        /\ pools' = [pools EXCEPT ![p].refs = @ - 1, ![p].open = @ /\ ~last]
        /\ registry' = IF last THEN 0 ELSE registry

(* The finalizer, wherever thread t is: also between Find and Count.       *)
Collect(t, b) ==
    /\ lease[b] # 0 /\ ~Used(b) /\ registrar \in {NoThread, t}
    /\ Release(b)
    /\ unlucky' = IF At(t, "found") /\ thread[t].found = lease[b] /\ registry' = 0
                  THEN unlucky \cup {lease[b]} ELSE unlucky
    /\ UNCHANGED <<registrar, owner, thread>>

(* close() waits for the operation of another thread.  Its lock would let  *)
(* the thread of the operation itself through; no thread of this program   *)
(* closes a backend inside an operation of its own: At(t, "idle").         *)
Close(t, b) ==
    /\ lease[b] # 0 /\ owner[b] = NoThread /\ At(t, "idle") /\ registrar = NoThread
    /\ Release(b)
    /\ UNCHANGED <<registrar, owner, thread, unlucky>>

-----------------------------------------------------------------------------
(* Operations: the backend's lock, then a connection of the pool, which    *)
(* serves its waiters in order.                                            *)

Enter(t, b) ==
    /\ At(t, "idle") /\ lease[b] # 0 /\ owner[b] = NoThread
    /\ owner' = [owner EXCEPT ![b] = t]
    /\ thread' = [thread EXCEPT ![t] = [Idle EXCEPT !.pc = "borrow", !.backend = b]]
    /\ UNCHANGED <<pools, registry, lease, registrar, unlucky>>

PoolOf(t) == lease[thread[t].backend]

Borrow(t) ==
    /\ At(t, "borrow") /\ pools[PoolOf(t)].open /\ pools[PoolOf(t)].free > 0
    /\ pools' = [pools EXCEPT ![PoolOf(t)].free = @ - 1]
    /\ thread' = [thread EXCEPT ![t].pc = "work", ![t].held = @ + 1]
    /\ UNCHANGED <<registry, lease, registrar, owner, unlucky>>

(* Defect: a nested call borrows a connection of its own.                  *)
NestBorrowing(t) ==
    /\ At(t, "work") /\ thread[t].held < 2
    /\ thread' = [thread EXCEPT ![t].pc = "borrow"]
    /\ UNCHANGED <<pools, registry, lease, registrar, owner, unlucky>>

(* A nested call keeps the connection, and the transaction on it.          *)
Nest(t) ==
    /\ At(t, "work")
    /\ thread' = [thread EXCEPT ![t].pc = "nested"]
    /\ UNCHANGED <<pools, registry, lease, registrar, owner, unlucky>>

Finish(t) ==
    /\ thread[t].pc \in {"work", "nested"}
    /\ pools' = [pools EXCEPT ![PoolOf(t)].free = @ + thread[t].held]
    /\ owner' = [owner EXCEPT ![thread[t].backend] = NoThread]
    /\ thread' = [thread EXCEPT ![t] = Idle]
    /\ UNCHANGED <<registry, lease, registrar, unlucky>>

(* The pool is closed already: the operation fails.                        *)
Refused(t) ==
    /\ At(t, "borrow") /\ ~pools[PoolOf(t)].open
    /\ owner' = [owner EXCEPT ![thread[t].backend] = NoThread]
    /\ thread' = [thread EXCEPT ![t] = Idle]
    /\ UNCHANGED <<pools, registry, lease, registrar, unlucky>>

(* The pool is used up: the operation fails, since it has waited too long  *)
(* (PoolTimeout) or too many wait already (TooManyRequests).               *)
GivesUp(t) ==
    /\ At(t, "borrow") /\ pools[PoolOf(t)].open /\ pools[PoolOf(t)].free = 0
    /\ pools' = [pools EXCEPT ![PoolOf(t)].free = @ + thread[t].held]
    /\ owner' = [owner EXCEPT ![thread[t].backend] = NoThread]
    /\ thread' = [thread EXCEPT ![t] = Idle]
    /\ UNCHANGED <<registry, lease, registrar, unlucky>>

Next ==
    \E t \in Threads :
        \/ Count(t) \/ Borrow(t) \/ Nest(t) \/ Finish(t) \/ Refused(t) \/ GivesUp(t)
        \/ \E b \in Backends : Find(t, b) \/ Collect(t, b) \/ Close(t, b) \/ Enter(t, b)

(* Threads go on; a waiter of the pool is served in its turn, however      *)
(* often others come and go.  None need be turned away: GivesUp is not     *)
(* fair, so that an operation ends because it got its connection.          *)
Fairness ==
    \A t \in Threads :
        /\ WF_poolVars(Count(t) \/ Nest(t) \/ Finish(t) \/ Refused(t))
        /\ SF_poolVars(Borrow(t))

Spec == Init /\ [][Next]_poolVars /\ Fairness

-----------------------------------------------------------------------------
(* Properties.                                                             *)

(* Closing one backend never closes the pool under another, and no pool is *)
(* left behind without a lease: all leases are on the registered pool, it  *)
(* is the only open one, and somebody has a lease on it.  (After an unlucky*)
(* collection a lease is on a closed pool, and its end takes the next pool *)
(* out of the registry.)                                                   *)
LeasesShareOnePool ==
    unlucky = {} =>
        /\ \A b \in Backends : lease[b] # 0 =>
              lease[b] = registry /\ pools[lease[b]].open
        /\ \A p \in DOMAIN pools : pools[p].open => p = registry
        /\ registrar = NoThread /\ registry # 0 => pools[registry].refs > 0

(* Every operation ends, and not only because a limit turns it away: the   *)
(* operations that have connections never wait for one another.            *)
EveryOperationEnds == \A t \in Threads : At(t, "borrow") ~> At(t, "idle")

=============================================================================
