---------------------------- MODULE UpkeepProofs ----------------------------
(***************************************************************************)
(* What background work may never do, for any number of threads, backends, *)
(* rows, reviewers and callers, and any sizes.                             *)
(***************************************************************************)
EXTENDS Upkeep, SequenceTheorems, FiniteSetTheorems, TLAPS

-----------------------------------------------------------------------------
(***************************************************************************)
(* PoolLeases.  A pool counts exactly the backends that lease it.  The     *)
(* count is what decides when a pool is closed, so that all leases are on  *)
(* the registered pool follows from it, unless a collection hits the gap   *)
(* between finding a pool and counting the lease.                          *)
(***************************************************************************)

PoolRow == [refs : Int, open : BOOLEAN, free : Int]

PoolThread ==
    [pc : {"idle", "found", "borrow", "work", "nested"},
     backend : Backends \cup {Pool!NoBackend}, held : Nat, found : Nat]

PoolShape ==
    /\ pools \in Seq(PoolRow)
    /\ registry \in Nat /\ (registry # 0 => registry \in 1..Len(pools))
    /\ lease \in [Backends -> Nat]
    /\ \A b \in Backends : lease[b] # 0 => lease[b] \in 1..Len(pools)
    /\ owner \in [Backends -> Threads \cup {Pool!NoThread}]
    /\ thread \in [Threads -> PoolThread]

(* Who has found a pool has the registry, and its backend no lease yet.    *)
PoolFoundBy(t) ==
    thread[t].pc = "found" =>
        /\ registrar = t
        /\ thread[t].found \in 1..Len(pools)
        /\ thread[t].backend \in Backends /\ lease[thread[t].backend] = 0

(* Who is in an operation has the lock of its backend, which has a lease.  *)
PoolBusyIn(t) ==
    thread[t].pc \in {"borrow", "work", "nested"} =>
        /\ thread[t].backend \in Backends
        /\ owner[thread[t].backend] = t
        /\ lease[thread[t].backend] # 0

PoolHeld == \A t \in Threads : PoolFoundBy(t) /\ PoolBusyIn(t)

Leases(p) == {b \in Backends : lease[b] = p}

PoolCounts ==
    \A p \in 1..Len(pools) :
        IsFiniteSet(Leases(p)) /\ pools[p].refs = Cardinality(Leases(p))

PoolLucky ==
    unlucky = {} =>
        /\ \A b \in Backends : lease[b] # 0 => lease[b] = registry
        /\ registry # 0 => pools[registry].open
        /\ \A p \in 1..Len(pools) : pools[p].open => p = registry
        /\ registrar = Pool!NoThread /\ registry # 0 => pools[registry].refs > 0
        /\ \A t \in Threads : thread[t].pc = "found" => thread[t].found = registry

PoolInv == PoolShape /\ PoolHeld /\ PoolCounts /\ PoolLucky

LEMMA PoolInit == Init => PoolInv
<1> SUFFICES ASSUME Init PROVE PoolInv
  OBVIOUS
<1>1. pools \in Seq(PoolRow) /\ Len(pools) = 0
  BY EmptySeq DEF Init, Pool!Init
<1>2. thread \in [Threads -> PoolThread] /\ \A t \in Threads : thread[t].pc = "idle"
  BY DEF Init, Pool!Init, Pool!Idle, PoolThread
<1> QED
  BY <1>1, <1>2 DEF Init, Pool!Init, PoolInv, PoolShape, PoolHeld, PoolFoundBy, PoolBusyIn,
                    PoolCounts, PoolLucky

(* One row changes.                                                        *)
LEMMA PoolRowChanges ==
  ASSUME PoolShape, NEW p \in 1..Len(pools), NEW r \in PoolRow,
         pools' = [pools EXCEPT ![p] = r]
  PROVE  /\ pools' \in Seq(PoolRow)
         /\ Len(pools') = Len(pools)
         /\ \A q \in 1..Len(pools) : pools'[q] = IF q = p THEN r ELSE pools[q]
BY ExceptSeq DEF PoolShape

(* A step of t in an operation on b: t is in state x after it, the lock of  *)
(* b has owner o, and f connections are free.                              *)
PoolWork(t, b, x, o, f) ==
    /\ lease[b] # 0 /\ owner[b] \in {t, Pool!NoThread} /\ thread[t].pc # "found"
    /\ pools' = pools \/ pools' = [pools EXCEPT ![lease[b]].free = f]
    /\ thread' = [thread EXCEPT ![t] = x]
    /\ owner' = [owner EXCEPT ![b] = o]
    /\ \/ x.pc = "idle" /\ o = Pool!NoThread /\ thread[t].backend = b
       \/ x.pc \in {"borrow", "work", "nested"} /\ x.backend = b /\ o = t
    /\ registry' = registry /\ lease' = lease /\ registrar' = registrar
    /\ unlucky' = unlucky

LEMMA PoolWorkKeeps ==
  ASSUME PoolInv, NEW t \in Threads, NEW b \in Backends, NEW x \in PoolThread,
         NEW o \in Threads \cup {Pool!NoThread}, NEW f \in Int, PoolWork(t, b, x, o, f)
  PROVE  PoolInv'
<1>0. /\ lease[b] # 0 /\ owner[b] \in {t, Pool!NoThread} /\ thread[t].pc # "found"
      /\ pools' = pools \/ pools' = [pools EXCEPT ![lease[b]].free = f]
      /\ thread' = [thread EXCEPT ![t] = x]
      /\ owner' = [owner EXCEPT ![b] = o]
      /\ \/ x.pc = "idle" /\ o = Pool!NoThread /\ thread[t].backend = b
         \/ x.pc \in {"borrow", "work", "nested"} /\ x.backend = b /\ o = t
      /\ registry' = registry /\ lease' = lease /\ registrar' = registrar
      /\ unlucky' = unlucky
  BY DEF PoolWork
<1>1. PICK p \in 1..Len(pools) : p = lease[b]
  BY <1>0 DEF PoolInv, PoolShape
<1>2. PICK r \in PoolRow :
         /\ r = [pools[p] EXCEPT !.free = f]
         /\ r.refs = pools[p].refs /\ r.open = pools[p].open
  <2>1. PICK r0 \in PoolRow : r0 = pools[p]
    BY ElementOfSeq DEF PoolInv, PoolShape
  <2>2. /\ [r0 EXCEPT !.free = f] \in PoolRow
        /\ [r0 EXCEPT !.free = f].refs = r0.refs /\ [r0 EXCEPT !.free = f].open = r0.open
    BY DEF PoolRow
  <2> QED
    BY <2>1, <2>2
<1>3. pools' = pools \/ pools' = [pools EXCEPT ![p] = r]
  BY <1>0, <1>1, <1>2
<1>4. /\ pools' \in Seq(PoolRow) /\ Len(pools') = Len(pools)
      /\ \A q \in 1..Len(pools) : /\ pools'[q].refs = pools[q].refs
                                  /\ pools'[q].open = pools[q].open
  <2>1. CASE pools' = pools
    BY <2>1 DEF PoolInv, PoolShape
  <2>2. CASE pools' = [pools EXCEPT ![p] = r]
    <3>1. /\ pools' \in Seq(PoolRow) /\ Len(pools') = Len(pools)
          /\ \A q \in 1..Len(pools) : pools'[q] = IF q = p THEN r ELSE pools[q]
      BY <2>2, PoolRowChanges DEF PoolInv
    <3> QED
      BY <1>2, <3>1
  <2> QED
    BY <1>3, <2>1, <2>2
<1>5. PoolShape'
  <2>2. owner' \in [Backends -> Threads \cup {Pool!NoThread}]
    BY <1>0 DEF PoolInv, PoolShape
  <2>3. thread' \in [Threads -> PoolThread]
    BY <1>0 DEF PoolInv, PoolShape
  <2> QED
    BY <1>0, <1>4, <2>2, <2>3 DEF PoolInv, PoolShape
<1>6. \A s \in Threads : thread'[s] = IF s = t THEN x ELSE thread[s]
  BY <1>0 DEF PoolInv, PoolShape
<1>10. \A c \in Backends : owner'[c] = IF c = b THEN o ELSE owner[c]
  BY <1>0 DEF PoolInv, PoolShape
<1>7. PoolHeld'
  <2> SUFFICES ASSUME NEW s \in Threads
               PROVE  PoolFoundBy(s)' /\ PoolBusyIn(s)'
    BY DEF PoolHeld
  <2>1. PoolFoundBy(s) /\ PoolBusyIn(s)
    BY DEF PoolInv, PoolHeld
  <2>2. CASE s = t
    <3>1. thread'[s] = x /\ owner'[b] = o /\ lease'[b] # 0
      BY <1>0, <1>6, <1>10, <2>2
    <3>2. PoolFoundBy(s)'
      BY <1>0, <3>1 DEF PoolFoundBy
    <3>3. PoolBusyIn(s)'
      BY <1>0, <2>2, <3>1 DEF PoolBusyIn
    <3> QED
      BY <3>2, <3>3
  <2>3. CASE s # t
    <3>1. PoolFoundBy(s)'
      BY <1>0, <1>4, <1>6, <2>1, <2>3 DEF PoolFoundBy
    <3>2. thread[s].pc \in {"borrow", "work", "nested"} => thread[s].backend # b
      BY <1>0, <2>1, <2>3, PoolAssumed DEF PoolBusyIn, Pool!PoolAssumption
    <3>3. thread'[s] = thread[s] /\ lease' = lease
      BY <1>0, <1>6, <2>3
    <3>4. PoolBusyIn(s)'
      BY <1>10, <2>1, <3>2, <3>3 DEF PoolBusyIn
    <3> QED
      BY <3>1, <3>4
  <2> QED
    BY <2>2, <2>3
<1>8. PoolCounts'
  BY <1>0, <1>4 DEF PoolInv, PoolCounts, Leases
<1>9. PoolLucky'
  BY <1>0, <1>4, <1>6 DEF PoolInv, PoolLucky, PoolShape
<1> QED
  BY <1>5, <1>7, <1>8, <1>9 DEF PoolInv

(* The states of a thread in an operation.                                 *)
LEMMA PoolThreads ==
  ASSUME NEW x \in PoolThread, NEW b \in Backends
  PROVE  /\ Pool!Idle \in PoolThread /\ Pool!Idle.pc = "idle"
         /\ [Pool!Idle EXCEPT !.pc = "borrow", !.backend = b] \in PoolThread
         /\ [Pool!Idle EXCEPT !.pc = "borrow", !.backend = b].pc = "borrow"
         /\ [Pool!Idle EXCEPT !.pc = "borrow", !.backend = b].backend = b
         /\ [x EXCEPT !.pc = "work", !.held = @ + 1] \in PoolThread
         /\ [x EXCEPT !.pc = "work", !.held = @ + 1].pc = "work"
         /\ [x EXCEPT !.pc = "work", !.held = @ + 1].backend = x.backend
         /\ [x EXCEPT !.pc = "nested"] \in PoolThread
         /\ [x EXCEPT !.pc = "nested"].pc = "nested"
         /\ [x EXCEPT !.pc = "nested"].backend = x.backend
<1>1. Pool!Idle \in PoolThread /\ Pool!Idle.pc = "idle"
  BY DEF Pool!Idle, PoolThread
<1>2. /\ [Pool!Idle EXCEPT !.pc = "borrow", !.backend = b] \in PoolThread
      /\ [Pool!Idle EXCEPT !.pc = "borrow", !.backend = b].pc = "borrow"
      /\ [Pool!Idle EXCEPT !.pc = "borrow", !.backend = b].backend = b
  BY DEF Pool!Idle, PoolThread
<1>3. x.held + 1 \in Nat
  BY DEF PoolThread
<1>4. /\ [x EXCEPT !.pc = "work", !.held = @ + 1] \in PoolThread
      /\ [x EXCEPT !.pc = "work", !.held = @ + 1].pc = "work"
      /\ [x EXCEPT !.pc = "work", !.held = @ + 1].backend = x.backend
  BY <1>3 DEF PoolThread
<1>5. /\ [x EXCEPT !.pc = "nested"] \in PoolThread
      /\ [x EXCEPT !.pc = "nested"].pc = "nested"
      /\ [x EXCEPT !.pc = "nested"].backend = x.backend
  BY DEF PoolThread
<1> QED
  BY <1>1, <1>2, <1>4, <1>5

LEMMA PoolOperation ==
  ASSUME PoolInv, NEW t \in Threads,
         \/ \E b \in Backends : Pool!Enter(t, b)
         \/ Pool!Borrow(t) \/ Pool!Nest(t) \/ Pool!Finish(t) \/ Pool!Refused(t) \/ Pool!GivesUp(t)
  PROVE  PoolInv'
<1>0. thread[t] \in PoolThread
  BY DEF PoolInv, PoolShape
<1>1. ASSUME NEW b \in Backends, Pool!Enter(t, b)
      PROVE  PoolInv'
  <2>1. PICK x \in PoolThread :
           x = [Pool!Idle EXCEPT !.pc = "borrow", !.backend = b] /\ x.pc = "borrow" /\ x.backend = b
    BY <1>0, PoolThreads
  <2>2. /\ thread' = [thread EXCEPT ![t] = x]
        /\ thread[t].pc = "idle" /\ lease[b] # 0 /\ owner[b] = Pool!NoThread
        /\ owner' = [owner EXCEPT ![b] = t]
        /\ UNCHANGED <<pools, registry, lease, registrar, unlucky>>
    BY <1>1, <2>1 DEF Pool!Enter, Pool!At
  <2>3. 0 \in Int /\ t \in Threads \cup {Pool!NoThread} /\ thread[t].pc # "found"
    BY <2>2
  <2>4. PoolWork(t, b, x, t, 0)
    BY <2>1, <2>2 DEF PoolWork
  <2> QED
    BY <2>1, <2>3, <2>4, PoolWorkKeeps
<1>2. ASSUME Pool!Borrow(t) \/ Pool!Nest(t) \/ Pool!Finish(t) \/ Pool!Refused(t) \/ Pool!GivesUp(t)
      PROVE  PoolInv'
  <2>1. thread[t].pc \in {"borrow", "work", "nested"}
    BY <1>2 DEF Pool!Borrow, Pool!Nest, Pool!Finish, Pool!Refused, Pool!GivesUp, Pool!At
  <2>2. PICK b \in Backends : b = thread[t].backend /\ owner[b] = t /\ lease[b] # 0
    BY <2>1 DEF PoolInv, PoolHeld, PoolBusyIn
  <2>3. PICK p \in 1..Len(pools) : p = lease[b]
    BY <2>2 DEF PoolInv, PoolShape
  <2>4. pools[p].free \in Int /\ thread[t].held \in Int
    <3>1. pools[p] \in PoolRow
      BY ElementOfSeq DEF PoolInv, PoolShape
    <3> QED
      BY <1>0, <3>1 DEF PoolRow, PoolThread
  <2>5. Pool!PoolOf(t) = lease[b]
    BY <2>2 DEF Pool!PoolOf
  <2>6. CASE Pool!Borrow(t)
    <3>1. PICK x \in PoolThread :
             /\ x = [thread[t] EXCEPT !.pc = "work", !.held = @ + 1]
             /\ x.pc = "work" /\ x.backend = b
      BY <1>0, <2>2, PoolThreads
    <3>2. PICK f \in Int : f = pools[p].free - 1
      BY <2>4
    <3>3. /\ thread' = [thread EXCEPT ![t] = x]
          /\ pools' = [pools EXCEPT ![lease[b]].free = f]
          /\ UNCHANGED <<registry, lease, registrar, owner, unlucky>>
      BY <2>3, <2>5, <2>6, <3>1, <3>2 DEF Pool!Borrow
    <3>4. owner' = [owner EXCEPT ![b] = t] /\ t \in Threads \cup {Pool!NoThread}
      BY <2>2, <3>3 DEF PoolInv, PoolShape
    <3>5. PoolWork(t, b, x, t, f)
      BY <2>1, <2>2, <3>1, <3>3, <3>4 DEF PoolWork
    <3> QED
      BY <3>4, <3>5, PoolWorkKeeps
  <2>7. CASE Pool!Nest(t)
    <3>1. PICK x \in PoolThread :
             /\ x = [thread[t] EXCEPT !.pc = "nested"]
             /\ x.pc = "nested" /\ x.backend = b
      BY <1>0, <2>2, PoolThreads
    <3>2. /\ thread' = [thread EXCEPT ![t] = x]
          /\ UNCHANGED <<pools, registry, lease, registrar, owner, unlucky>>
      BY <2>7, <3>1 DEF Pool!Nest
    <3>3. owner' = [owner EXCEPT ![b] = t] /\ t \in Threads \cup {Pool!NoThread}
      BY <2>2, <3>2 DEF PoolInv, PoolShape
    <3>4. PoolWork(t, b, x, t, 0)
      BY <2>1, <2>2, <3>1, <3>2, <3>3 DEF PoolWork
    <3>5. 0 \in Int
      OBVIOUS
    <3> QED
      BY <3>3, <3>4, <3>5, PoolWorkKeeps
  <2>8. CASE Pool!Finish(t) \/ Pool!Refused(t) \/ Pool!GivesUp(t)
    <3>1. PICK x \in PoolThread : x = Pool!Idle /\ x.pc = "idle"
      BY <1>0, <2>2, PoolThreads
    <3>2. PICK f \in Int : f = pools[p].free + thread[t].held
      BY <2>4
    <3>3. /\ thread' = [thread EXCEPT ![t] = x]
          /\ pools' = pools \/ pools' = [pools EXCEPT ![lease[b]].free = f]
          /\ owner' = [owner EXCEPT ![b] = Pool!NoThread]
          /\ UNCHANGED <<registry, lease, registrar, unlucky>>
      BY <2>2, <2>3, <2>5, <2>8, <3>1, <3>2 DEF Pool!Finish, Pool!Refused, Pool!GivesUp
    <3>4. PoolWork(t, b, x, Pool!NoThread, f) /\ Pool!NoThread \in Threads \cup {Pool!NoThread}
      BY <2>1, <2>2, <3>1, <3>3 DEF PoolWork
    <3> QED
      BY <3>4, PoolWorkKeeps
  <2> QED
    BY <1>2, <2>6, <2>7, <2>8
<1> QED
  BY <1>1, <1>2

(* A lease goes; with the last one goes the pool.                          *)
LEMMA PoolReleased ==
  ASSUME PoolInv, NEW b \in Backends, lease[b] # 0, Pool!Release(b)
  PROVE  /\ pools' \in Seq(PoolRow) /\ Len(pools') = Len(pools)
         /\ lease' \in [Backends -> Nat]
         /\ \A c \in Backends : lease'[c] = IF c = b THEN 0 ELSE lease[c]
         /\ registry' = registry \/ registry' = 0
         /\ PoolCounts'
         /\ unlucky = {} =>
               /\ \A c \in Backends : lease'[c] # 0 => lease'[c] = registry'
               /\ registry' # 0 => registry' = registry /\ pools'[registry'].open
               /\ \A p \in 1..Len(pools') : pools'[p].open => p = registry'
               /\ registry' # 0 => pools'[registry'].refs > 0
<1>1. PICK p \in 1..Len(pools) : p = lease[b]
  BY DEF PoolInv, PoolShape
<1>2. PICK r0 \in PoolRow : r0 = pools[p]
  BY ElementOfSeq DEF PoolInv, PoolShape
<1>3. PICK r \in PoolRow :
         /\ r = [r0 EXCEPT !.refs = r0.refs - 1, !.open = r0.open /\ ~(r0.refs = 1)]
         /\ r.refs = r0.refs - 1
         /\ r.open <=> (r0.open /\ r0.refs # 1)
  <2>1. /\ r0.refs - 1 \in Int
        /\ (r0.open /\ ~(r0.refs = 1)) \in BOOLEAN
    BY DEF PoolRow
  <2>2. PICK n \in Int, o \in BOOLEAN :
           n = r0.refs - 1 /\ o = (r0.open /\ ~(r0.refs = 1))
    BY <2>1
  <2>3. /\ [r0 EXCEPT !.refs = n, !.open = o] \in PoolRow
        /\ [r0 EXCEPT !.refs = n, !.open = o].refs = n
        /\ [r0 EXCEPT !.refs = n, !.open = o].open = o
    BY DEF PoolRow
  <2> QED
    BY <2>2, <2>3
<1>4. /\ pools' = [pools EXCEPT ![p] = r]
      /\ lease' = [lease EXCEPT ![b] = 0]
      /\ registry' = IF r0.refs = 1 THEN 0 ELSE registry
  BY <1>1, <1>2, <1>3 DEF Pool!Release
<1>5. /\ pools' \in Seq(PoolRow) /\ Len(pools') = Len(pools)
      /\ \A q \in 1..Len(pools) : pools'[q] = IF q = p THEN r ELSE pools[q]
  BY <1>4, PoolRowChanges DEF PoolInv
<1>6. /\ lease' \in [Backends -> Nat]
      /\ \A c \in Backends : lease'[c] = IF c = b THEN 0 ELSE lease[c]
  BY <1>4 DEF PoolInv, PoolShape
<1>7. b \in Leases(p) /\ IsFiniteSet(Leases(p)) /\ r0.refs = Cardinality(Leases(p))
  BY <1>1, <1>2 DEF PoolInv, PoolCounts, Leases
<1>8. PoolCounts'
  <2> SUFFICES ASSUME NEW q \in 1..Len(pools)
               PROVE  /\ IsFiniteSet({c \in Backends : lease'[c] = q})
                      /\ pools'[q].refs = Cardinality({c \in Backends : lease'[c] = q})
    BY <1>5 DEF PoolCounts, Leases
  <2>0. pools'[q] = IF q = p THEN r ELSE pools[q]
    BY <1>5
  <2>1. CASE q = p
    <3>1. {c \in Backends : lease'[c] = q} = Leases(p) \ {b}
      BY <1>6, <2>1 DEF Leases
    <3>2. /\ IsFiniteSet(Leases(p) \ {b})
          /\ Cardinality(Leases(p) \ {b}) = Cardinality(Leases(p)) - 1
      BY <1>7, FS_RemoveElement
    <3>3. pools'[q].refs = r0.refs - 1
      BY <1>3, <2>0, <2>1
    <3> QED
      BY <1>7, <3>1, <3>2, <3>3
  <2>2. CASE q # p
    <3>1. {c \in Backends : lease'[c] = q} = Leases(q)
      BY <1>1, <1>6, <2>2 DEF Leases
    <3> QED
      BY <1>5, <2>2, <3>1 DEF PoolInv, PoolCounts
  <2> QED
    BY <2>1, <2>2
<1>9. ASSUME unlucky = {}
      PROVE  /\ \A c \in Backends : lease'[c] # 0 => lease'[c] = registry'
             /\ registry' # 0 => registry' = registry /\ pools'[registry'].open
             /\ \A q \in 1..Len(pools') : pools'[q].open => q = registry'
             /\ registry' # 0 => pools'[registry'].refs > 0
  <2>1. /\ p = registry
        /\ \A c \in Backends : lease[c] # 0 => lease[c] = p
        /\ \A q \in 1..Len(pools) : pools[q].open => q = p
        /\ r0.open
    BY <1>1, <1>2, <1>9 DEF PoolInv, PoolLucky
  <2>2. CASE r0.refs = 1
    <3>1. PICK x : Leases(p) = {x}
      BY <1>7, <2>2, FS_Singleton
    <3>2. \A c \in Backends : lease'[c] = 0
      BY <1>6, <1>7, <2>1, <3>1 DEF Leases
    <3>3. \A q \in 1..Len(pools) : ~pools'[q].open
      BY <1>3, <1>5, <2>1, <2>2
    <3> QED
      BY <1>4, <1>5, <2>2, <3>2, <3>3
  <2>3. CASE r0.refs # 1
    <3>1. r0.refs \in Nat /\ r0.refs > 0
      <4>1. Leases(p) # {}
        BY <1>7
      <4> QED
        BY <1>7, <4>1, FS_EmptySet, FS_CardinalityType
    <3>2. /\ registry' = p /\ pools'[p] = r
          /\ r.open
          /\ r.refs > 0
      <4>1. r.refs > 0
        BY <1>3, <2>3, <3>1
      <4>2. r.open
        BY <1>3, <2>1, <2>3
      <4> QED
        BY <1>4, <1>5, <2>1, <2>3, <4>1, <4>2
    <3>3. \A q \in 1..Len(pools) : pools'[q].open => q = p
      BY <1>5, <2>1
    <3> QED
      BY <1>1, <1>5, <1>6, <2>1, <3>2, <3>3
  <2> QED
    BY <2>2, <2>3
<1> QED
  BY <1>4, <1>5, <1>6, <1>8, <1>9

LEMMA PoolCollect ==
  ASSUME PoolInv, NEW t \in Threads, NEW b \in Backends,
         Pool!Collect(t, b) \/ Pool!Close(t, b)
  PROVE  PoolInv'
<1>1. /\ lease[b] # 0 /\ Pool!Release(b)
      /\ UNCHANGED <<registrar, owner, thread>>
  BY DEF Pool!Collect, Pool!Close
<1>2. \A s \in Threads : thread[s].pc \in {"borrow", "work", "nested"} => thread[s].backend # b
  <2> SUFFICES ASSUME NEW s \in Threads, thread[s].pc \in {"borrow", "work", "nested"},
                      thread[s].backend = b
               PROVE  FALSE
    OBVIOUS
  <2>1. owner[b] = s
    BY DEF PoolInv, PoolHeld, PoolBusyIn
  <2> QED
    BY <2>1, PoolAssumed DEF Pool!Collect, Pool!Close, Pool!Used, Pool!PoolAssumption
<1>3. \A s \in Threads : thread[s].pc = "found" => /\ thread[s].backend # b
                                                  /\ Pool!Collect(t, b) /\ s = t
  <2> SUFFICES ASSUME NEW s \in Threads, thread[s].pc = "found"
               PROVE  thread[s].backend # b /\ Pool!Collect(t, b) /\ s = t
    OBVIOUS
  <2>1. registrar = s /\ lease[thread[s].backend] = 0
    BY DEF PoolInv, PoolHeld, PoolFoundBy
  <2> QED
    BY <1>1, <2>1, PoolAssumed DEF Pool!Collect, Pool!Close, Pool!PoolAssumption
<1>4. /\ pools' \in Seq(PoolRow) /\ Len(pools') = Len(pools)
      /\ lease' \in [Backends -> Nat]
      /\ \A c \in Backends : lease'[c] = IF c = b THEN 0 ELSE lease[c]
      /\ registry' = registry \/ registry' = 0
      /\ PoolCounts'
      /\ unlucky = {} =>
            /\ \A c \in Backends : lease'[c] # 0 => lease'[c] = registry'
            /\ registry' # 0 => registry' = registry /\ pools'[registry'].open
            /\ \A p \in 1..Len(pools') : pools'[p].open => p = registry'
            /\ registry' # 0 => pools'[registry'].refs > 0
  BY <1>1, PoolReleased
<1>5. PoolShape'
  BY <1>1, <1>4 DEF PoolInv, PoolShape
<1>6. PoolHeld'
  <2> SUFFICES ASSUME NEW s \in Threads
               PROVE  PoolFoundBy(s)' /\ PoolBusyIn(s)'
    BY DEF PoolHeld
  <2>1. PoolFoundBy(s) /\ PoolBusyIn(s)
    BY DEF PoolInv, PoolHeld
  <2>2. PoolFoundBy(s)'
    BY <1>1, <1>3, <1>4, <2>1 DEF PoolFoundBy
  <2>3. PoolBusyIn(s)'
    BY <1>1, <1>2, <1>4, <2>1 DEF PoolBusyIn
  <2> QED
    BY <2>2, <2>3
<1>7. PoolLucky'
  <2> SUFFICES ASSUME unlucky' = {} PROVE PoolLucky'
    BY DEF PoolLucky
  <2>1. unlucky = {}
    BY DEF Pool!Collect, Pool!Close
  <2>2. ASSUME NEW s \in Threads, thread[s].pc = "found"
        PROVE  thread[s].found = registry'
    <3>1. Pool!Collect(t, b) /\ s = t
      BY <1>3, <2>2
    <3>2. thread[s].found = registry /\ lease[b] = registry
      BY <1>1, <2>1, <2>2 DEF PoolInv, PoolLucky
    <3>3. registry' # 0
      BY <2>2, <3>1, <3>2 DEF Pool!Collect, Pool!At
    <3> QED
      BY <1>4, <3>2, <3>3
  <2> QED
    BY <1>1, <1>4, <2>1, <2>2 DEF PoolLucky
<1> QED
  BY <1>4, <1>5, <1>6, <1>7 DEF PoolInv

LEMMA PoolFind ==
  ASSUME PoolInv, NEW t \in Threads, NEW b \in Backends, Pool!Find(t, b)
  PROVE  PoolInv'
<1>1. /\ thread[t].pc = "idle" /\ lease[b] = 0 /\ registrar = Pool!NoThread
      /\ \A s \in Threads : thread[s].backend # b
      /\ registrar' = t
      /\ UNCHANGED <<lease, owner, unlucky>>
  BY DEF Pool!Find, Pool!At, Pool!Used
<1>2. \A s \in Threads : thread[s].pc # "found"
  BY <1>1, PoolAssumed DEF PoolInv, PoolHeld, PoolFoundBy, Pool!PoolAssumption
<1>3. /\ pools' \in Seq(PoolRow) /\ Len(pools') \in Nat /\ Len(pools) \in Nat
      /\ Len(pools') >= Len(pools)
      /\ \A q \in 1..Len(pools) : pools'[q] = pools[q]
      /\ registry' \in 1..Len(pools')
      /\ \A q \in 1..Len(pools') : q \in 1..Len(pools) \/ (q = registry' /\ registry = 0)
      /\ registry # 0 => registry' = registry
      /\ registry = 0 => registry' \notin 1..Len(pools)
                         /\ pools'[registry'].refs = 0 /\ pools'[registry'].open
  <2>1. Len(pools) \in Nat
    BY LenProperties DEF PoolInv, PoolShape
  <2>2. CASE registry # 0
    BY <2>1, <2>2 DEF Pool!Find, PoolInv, PoolShape
  <2>3. CASE registry = 0
    <3>0. PoolSize \in Int
      BY PoolAssumed DEF Pool!PoolAssumption
    <3>1. PICK r : /\ r = [refs |-> 0, open |-> TRUE, free |-> PoolSize]
                   /\ r \in PoolRow /\ r.refs = 0 /\ r.open
      <4>1. [refs |-> 0, open |-> TRUE, free |-> PoolSize] \in PoolRow
        BY <3>0 DEF PoolRow
      <4>2. /\ [refs |-> 0, open |-> TRUE, free |-> PoolSize].refs = 0
            /\ [refs |-> 0, open |-> TRUE, free |-> PoolSize].open
        OBVIOUS
      <4> QED
        BY <4>1, <4>2
    <3>2. pools' = Append(pools, r) /\ registry' = Len(pools) + 1
      BY <2>3, <3>1 DEF Pool!Find
    <3>3. /\ pools' \in Seq(PoolRow) /\ Len(pools') = Len(pools) + 1
          /\ \A q \in 1..Len(pools) : pools'[q] = pools[q]
          /\ pools'[Len(pools) + 1] = r
      BY <3>1, <3>2, AppendProperties DEF PoolInv, PoolShape
    <3> QED
      BY <2>1, <2>3, <3>1, <3>2, <3>3
  <2> QED
    BY <2>2, <2>3
<1>4. PICK x \in PoolThread :
         /\ thread' = [thread EXCEPT ![t] = x]
         /\ x.pc = "found" /\ x.backend = b /\ x.found = registry'
  <2>1. PICK n \in Nat : n = registry'
    BY <1>3
  <2>2. PICK x : x = [Pool!Idle EXCEPT !.pc = "found", !.backend = b, !.found = n]
    OBVIOUS
  <2>3. x \in PoolThread /\ x.pc = "found" /\ x.backend = b /\ x.found = n
    BY <2>2 DEF Pool!Idle, PoolThread
  <2>4. thread' = [thread EXCEPT ![t] = x]
    BY <2>1, <2>2 DEF Pool!Find
  <2> QED
    BY <2>1, <2>3, <2>4
<1>5. \A s \in Threads : thread'[s] = IF s = t THEN x ELSE thread[s]
  BY <1>4 DEF PoolInv, PoolShape
<1>6. PoolShape'
  <2>1. thread' \in [Threads -> PoolThread]
    BY <1>4 DEF PoolInv, PoolShape
  <2>2. registry' \in Nat /\ registry' # 0
    BY <1>3
  <2>3. \A c \in Backends : lease[c] # 0 => lease[c] \in 1..Len(pools')
    BY <1>3 DEF PoolInv, PoolShape
  <2> QED
    BY <1>1, <1>3, <2>1, <2>2, <2>3 DEF PoolInv, PoolShape
<1>7. PoolHeld'
  <2> SUFFICES ASSUME NEW s \in Threads
               PROVE  PoolFoundBy(s)' /\ PoolBusyIn(s)'
    BY DEF PoolHeld
  <2>1. PoolFoundBy(s) /\ PoolBusyIn(s)
    BY DEF PoolInv, PoolHeld
  <2>2. PoolFoundBy(s)'
    BY <1>1, <1>2, <1>3, <1>4, <1>5, <2>1 DEF PoolFoundBy
  <2>3. PoolBusyIn(s)'
    BY <1>1, <1>4, <1>5, <2>1 DEF PoolBusyIn
  <2> QED
    BY <2>2, <2>3
<1>8. PoolCounts'
  <2> SUFFICES ASSUME NEW q \in 1..Len(pools')
               PROVE  IsFiniteSet(Leases(q)) /\ pools'[q].refs = Cardinality(Leases(q))
    BY <1>1 DEF PoolCounts, Leases
  <2>1. CASE q \in 1..Len(pools)
    BY <1>3, <2>1 DEF PoolInv, PoolCounts
  <2>2. CASE q \notin 1..Len(pools)
    <3>1. q = registry' /\ registry = 0 /\ pools'[q].refs = 0
      BY <1>3, <2>2
    <3>2. Leases(q) = {}
      BY <2>2, <1>3 DEF Leases, PoolInv, PoolShape
    <3> QED
      BY <3>1, <3>2, FS_EmptySet
  <2> QED
    BY <2>1, <2>2
<1>9. PoolLucky'
  <2> SUFFICES ASSUME unlucky = {}
               PROVE  /\ \A c \in Backends : lease[c] # 0 => lease[c] = registry'
                      /\ pools'[registry'].open
                      /\ \A q \in 1..Len(pools') : pools'[q].open => q = registry'
                      /\ \A s \in Threads : thread'[s].pc = "found" => thread'[s].found = registry'
    BY <1>1, <1>3, PoolAssumed DEF PoolLucky, Pool!PoolAssumption
  <2>1. /\ \A c \in Backends : lease[c] # 0 => lease[c] = registry
        /\ registry # 0 => pools[registry].open
        /\ \A q \in 1..Len(pools) : pools[q].open => q = registry
    BY DEF PoolInv, PoolLucky
  <2>2. \A s \in Threads : thread'[s].pc = "found" => thread'[s].found = registry'
    BY <1>2, <1>4, <1>5
  <2>3. CASE registry # 0
    BY <1>3, <2>1, <2>2, <2>3 DEF PoolInv, PoolShape
  <2>4. CASE registry = 0
    <3>1. \A q \in 1..Len(pools) : ~pools'[q].open
      BY <1>3, <2>1, <2>4
    <3> QED
      BY <1>3, <2>1, <2>2, <2>4, <3>1
  <2> QED
    BY <2>3, <2>4
<1> QED
  BY <1>6, <1>7, <1>8, <1>9 DEF PoolInv

LEMMA PoolCount ==
  ASSUME PoolInv, NEW t \in Threads, Pool!Count(t)
  PROVE  PoolInv'
<1>1. PICK p \in 1..Len(pools), b \in Backends :
         /\ p = thread[t].found /\ b = thread[t].backend
         /\ registrar = t /\ lease[b] = 0
  BY DEF Pool!Count, Pool!At, PoolInv, PoolHeld, PoolFoundBy
<1>2. PICK r0 \in PoolRow : r0 = pools[p]
  BY ElementOfSeq DEF PoolInv, PoolShape
<1>3. PICK r \in PoolRow :
         /\ r = [r0 EXCEPT !.refs = r0.refs + 1]
         /\ r.refs = r0.refs + 1 /\ r.open = r0.open
  <2>1. PICK n \in Int : n = r0.refs + 1
    BY DEF PoolRow
  <2>2. /\ [r0 EXCEPT !.refs = n] \in PoolRow
        /\ [r0 EXCEPT !.refs = n].refs = n /\ [r0 EXCEPT !.refs = n].open = r0.open
    BY DEF PoolRow
  <2> QED
    BY <2>1, <2>2
<1>4. /\ pools' = [pools EXCEPT ![p] = r]
      /\ lease' = [lease EXCEPT ![b] = p]
      /\ thread' = [thread EXCEPT ![t] = Pool!Idle]
      /\ registrar' = Pool!NoThread
      /\ UNCHANGED <<registry, owner, unlucky>>
  BY <1>1, <1>2, <1>3 DEF Pool!Count
<1>5. /\ pools' \in Seq(PoolRow) /\ Len(pools') = Len(pools) /\ Len(pools) \in Nat
      /\ \A q \in 1..Len(pools) : pools'[q] = IF q = p THEN r ELSE pools[q]
  BY <1>4, PoolRowChanges, LenProperties DEF PoolInv, PoolShape
<1>6. /\ lease' \in [Backends -> Nat]
      /\ \A c \in Backends : lease'[c] = IF c = b THEN p ELSE lease[c]
  BY <1>4, <1>5 DEF PoolInv, PoolShape
<1>7. /\ thread' \in [Threads -> PoolThread]
      /\ \A s \in Threads : thread'[s] = IF s = t THEN Pool!Idle ELSE thread[s]
      /\ Pool!Idle.pc = "idle"
  <2>1. Pool!Idle \in PoolThread /\ Pool!Idle.pc = "idle"
    BY DEF Pool!Idle, PoolThread
  <2> QED
    BY <1>4, <2>1 DEF PoolInv, PoolShape
<1>8. \A s \in Threads : thread'[s].pc # "found"
  BY <1>1, <1>7 DEF PoolInv, PoolHeld, PoolFoundBy
<1>9. PoolShape'
  BY <1>4, <1>5, <1>6, <1>7 DEF PoolInv, PoolShape
<1>10. PoolHeld'
  <2> SUFFICES ASSUME NEW s \in Threads
               PROVE  PoolFoundBy(s)' /\ PoolBusyIn(s)'
    BY DEF PoolHeld
  <2>1. PoolFoundBy(s)'
    BY <1>8 DEF PoolFoundBy
  <2>2. PoolBusyIn(s)
    BY DEF PoolInv, PoolHeld
  <2>3. p # 0
    BY <1>5
  <2>4. PoolBusyIn(s)'
    BY <1>4, <1>6, <1>7, <2>2, <2>3 DEF PoolBusyIn
  <2> QED
    BY <2>1, <2>4
<1>11. PoolCounts'
  <2> SUFFICES ASSUME NEW q \in 1..Len(pools)
               PROVE  /\ IsFiniteSet({c \in Backends : lease'[c] = q})
                      /\ pools'[q].refs = Cardinality({c \in Backends : lease'[c] = q})
    BY <1>5 DEF PoolCounts, Leases
  <2>0. /\ IsFiniteSet(Leases(q)) /\ pools[q].refs = Cardinality(Leases(q))
        /\ pools'[q] = IF q = p THEN r ELSE pools[q]
    BY <1>5 DEF PoolInv, PoolCounts
  <2>1. CASE q = p
    <3>1. /\ {c \in Backends : lease'[c] = q} = Leases(p) \cup {b}
          /\ b \notin Leases(p)
      BY <1>1, <1>5, <1>6, <2>1 DEF Leases
    <3>2. /\ IsFiniteSet(Leases(p) \cup {b})
          /\ Cardinality(Leases(p) \cup {b}) = Cardinality(Leases(p)) + 1
      BY <2>0, <2>1, <3>1, FS_AddElement
    <3>3. pools'[q].refs = r0.refs + 1
      BY <1>3, <2>0, <2>1
    <3> QED
      BY <1>2, <2>0, <2>1, <3>1, <3>2, <3>3
  <2>2. CASE q # p
    <3>1. {c \in Backends : lease'[c] = q} = Leases(q)
      BY <1>1, <1>5, <1>6, <2>2 DEF Leases
    <3> QED
      BY <2>0, <2>2, <3>1
  <2> QED
    BY <2>1, <2>2
<1>12. PoolLucky'
  <2> SUFFICES ASSUME unlucky = {}
               PROVE  /\ \A c \in Backends : lease'[c] # 0 => lease'[c] = registry
                      /\ registry # 0 => pools'[registry].open
                      /\ \A q \in 1..Len(pools) : pools'[q].open => q = registry
                      /\ registry # 0 => pools'[registry].refs > 0
    BY <1>4, <1>5, <1>8 DEF PoolLucky
  <2>1. /\ p = registry /\ r0.open
        /\ \A c \in Backends : lease[c] # 0 => lease[c] = registry
        /\ \A q \in 1..Len(pools) : pools[q].open => q = registry
    BY <1>1, <1>2, <1>5 DEF PoolInv, PoolLucky, Pool!Count, Pool!At
  <2>2. r.refs > 0
    <3>1. r0.refs \in Nat
      BY <1>2, FS_CardinalityType DEF PoolInv, PoolCounts
    <3> QED
      BY <1>3, <3>1
  <2> QED
    BY <1>3, <1>5, <1>6, <2>1, <2>2
<1> QED
  BY <1>9, <1>10, <1>11, <1>12 DEF PoolInv

LEMMA PoolStep == PoolInv /\ [Next]_upkeepVars => PoolInv'
<1> SUFFICES ASSUME PoolInv, [Next]_upkeepVars PROVE PoolInv'
  OBVIOUS
<1>1. CASE Pool!Next
  BY <1>1, PoolOperation, PoolCollect, PoolFind, PoolCount DEF Pool!Next
<1>2. CASE UNCHANGED poolVars
  BY <1>2 DEF poolVars, PoolInv, PoolShape, PoolHeld, PoolFoundBy, PoolBusyIn, PoolCounts,
              Leases, PoolLucky
<1> QED
  BY <1>1, <1>2 DEF Next, upkeepVars

-----------------------------------------------------------------------------
(***************************************************************************)
(* BridgeClient.  The one process that may live is the one the plugin      *)
(* keeps or waits for: a start is begun only when there is neither.        *)
(***************************************************************************)

BridgeInv ==
    /\ proc \in [Bridge!Clients -> {"none", "up", "killed", "dead"}]
    /\ cached \in Bridge!Clients \cup {0} /\ starting \in Bridge!Clients \cup {0}
    /\ cached = 0 \/ starting = 0
    /\ \A i \in Bridge!Clients : proc[i] = "up" => i \in {cached, starting}

LEMMA BridgeInit == Init => BridgeInv
BY DEF Init, Bridge!Init, BridgeInv

LEMMA BridgeStep == BridgeInv /\ [Next]_upkeepVars => BridgeInv'
<1> SUFFICES ASSUME BridgeInv, [Next]_upkeepVars PROVE BridgeInv'
  OBVIOUS
<1>0. 0 \notin Bridge!Clients
  BY DEF Bridge!Clients
<1>1. ASSUME NEW u \in Users, NEW i \in Bridge!Clients, Bridge!Start(u, i)
      PROVE  BridgeInv'
  BY <1>0, <1>1 DEF Bridge!Start, Bridge!SpawnFor, BridgeInv
<1>2. CASE Bridge!StartFails
  BY <1>0, <1>2 DEF Bridge!StartFails, BridgeInv
<1>3. ASSUME NEW i \in Bridge!Clients, Bridge!HandleLine(i)
      PROVE  BridgeInv'
  <2>1. CASE Head(outbox[i]) = Bridge!Handshake /\ starting = i
    <3>1. cached' = i /\ starting' = 0 /\ UNCHANGED proc
      BY <1>3, <2>1 DEF Bridge!HandleLine
    <3> QED
      BY <1>0, <2>1, <3>1 DEF BridgeInv
  <2>2. CASE ~(Head(outbox[i]) = Bridge!Handshake /\ starting = i)
    <3>1. UNCHANGED <<proc, cached, starting>>
      BY <1>3, <2>2 DEF Bridge!HandleLine
    <3> QED
      BY <3>1 DEF BridgeInv
  <2> QED
    BY <2>1, <2>2
<1>4. ASSUME NEW i \in Bridge!Clients, Bridge!HandleExit(i)
      PROVE  BridgeInv'
  <2>1. /\ UNCHANGED <<proc, cached>> /\ proc[i] = "dead"
        /\ starting' = IF starting = i THEN 0 ELSE starting
    BY <1>4 DEF Bridge!HandleExit
  <2> QED
    BY <1>0, <2>1 DEF BridgeInv
<1>5. ASSUME NEW i \in Bridge!Clients, Bridge!Dies(i)
      PROVE  BridgeInv'
  BY <1>5 DEF Bridge!Dies, BridgeInv
<1>6. CASE UNCHANGED <<proc, cached, starting>>
  BY <1>6 DEF BridgeInv
<1>7. CASE Bridge!Next
  <2>1. ASSUME NEW u \in Users,
               Bridge!CallCached(u) \/ Bridge!JoinStart(u) \/ Bridge!WriteFails(u)
        PROVE  BridgeInv'
    BY <1>6, <2>1 DEF Bridge!CallCached, Bridge!JoinStart, Bridge!WriteFails
  <2>2. ASSUME NEW i \in Bridge!Clients, Bridge!Serve(i)
        PROVE  BridgeInv'
    BY <1>6, <2>2 DEF Bridge!Serve
  <2> QED
    BY <1>1, <1>2, <1>3, <1>4, <1>5, <1>7, <2>1, <2>2 DEF Bridge!Next
<1>8. CASE UNCHANGED bridgeVars
  BY <1>6, <1>8 DEF bridgeVars
<1> QED
  BY <1>7, <1>8 DEF Next, upkeepVars

(* The instance counts as the library does.                                *)
LEMMA BridgeCardinality == \A S : Bridge!Cardinality(S) = Cardinality(S)
BY DEF Bridge!Cardinality, Cardinality

LEMMA BridgeIsOne == BridgeInv => Bridge!OneBridge
<1> SUFFICES ASSUME BridgeInv
             PROVE  Cardinality({i \in Bridge!Clients : proc[i] = "up"}) <= 1
  BY BridgeCardinality DEF Bridge!OneBridge
<1>1. PICK k : {i \in Bridge!Clients : proc[i] = "up"} \subseteq {k}
  <2>1. CASE cached = 0
    BY <2>1 DEF BridgeInv, Bridge!Clients
  <2>2. CASE starting = 0
    BY <2>2 DEF BridgeInv, Bridge!Clients
  <2> QED
    BY <2>1, <2>2 DEF BridgeInv
<1>2. IsFiniteSet({k}) /\ Cardinality({k}) = 1
  BY FS_Singleton
<1>3. Cardinality({i \in Bridge!Clients : proc[i] = "up"}) <= Cardinality({k})
  BY <1>1, <1>2, FS_Subset
<1> QED
  BY <1>2, <1>3

(* Leases are on one pool, which is open and closed with the last of them, *)
(* and callers have one bridge, for any number of backends, threads and    *)
(* callers (storage/backends/postgres_pool.py; bridge.ts).                 *)
THEOREM SharingIsSafe == Spec => []SharedByAll
<1>1. PoolInv => Pool!LeasesShareOnePool
  <2> SUFFICES ASSUME PoolInv, unlucky = {}
               PROVE  /\ \A b \in Backends : lease[b] # 0 =>
                            lease[b] = registry /\ pools[lease[b]].open
                      /\ \A p \in DOMAIN pools : pools[p].open => p = registry
                      /\ registrar = Pool!NoThread /\ registry # 0 => pools[registry].refs > 0
    BY DEF Pool!LeasesShareOnePool
  <2>1. DOMAIN pools = 1..Len(pools)
    BY DEF PoolInv, PoolShape
  <2> QED
    BY <2>1 DEF PoolInv, PoolLucky
<1>2. PoolInv /\ BridgeInv => SharedByAll
  BY <1>1, BridgeIsOne DEF SharedByAll
<1> QED
  BY <1>2, PoolInit, PoolStep, BridgeInit, BridgeStep, PTL DEF Spec

-----------------------------------------------------------------------------
(***************************************************************************)
(* RowGc.  Of the rows a pass holds to delete, each is still expired, or   *)
(* was touched after the pass had looked; of the events, none is cited     *)
(* except by who came later.  And an event that is cited is there.         *)
(***************************************************************************)

GcVictimsKnown ==
    /\ gc.pc \in {"candidates", "atoms"} =>
         \A h \in gc.victims \cap Gc!Holders : state[h] = "expired" \/ h \in raced
    /\ gc.pc = "raw" =>
         \A h \in Gc!Holders : Gc!Exists(h) => cites[h] \cap gc.victims \subseteq raced

GcCitedStored ==
    \A h \in Gc!Holders : Gc!Exists(h) => \A e \in cites[h] \ raced : Gc!Stored(e)

GcInv ==
    /\ state \in [Gc!Holders -> {"none", "live", "ended", "expired", "gone"}]
    /\ cites \in [Gc!Holders -> SUBSET Events]
    /\ event \in [Events -> {"none", "fresh", "old", "gone"}]
    /\ gc = [pc |-> gc.pc, victims |-> gc.victims]
    /\ GcVictimsKnown /\ GcCitedStored

LEMMA GcInit == Init => GcInv
BY DEF Init, Gc!Init, Gc!AtRest, GcInv, GcVictimsKnown, GcCitedStored, Gc!Exists

(* A pass drops one victim, and that is all that becomes of it.            *)
LEMMA GcVictimLeaves ==
  ASSUME gc = [pc |-> gc.pc, victims |-> gc.victims], NEW x,
         gc' = [gc EXCEPT !.victims = @ \ {x}]
  PROVE  /\ gc' = [pc |-> gc'.pc, victims |-> gc'.victims]
         /\ gc'.pc = gc.pc /\ gc'.victims = gc.victims \ {x}
<1>1. gc' = [pc |-> gc.pc, victims |-> gc.victims \ {x}]
  OBVIOUS
<1> QED
  BY <1>1

LEMMA GcPrograms ==
  ASSUME GcInv,
         \/ \E e \in Events : Gc!Capture(e) \/ Gc!EventAges(e)
         \/ \E h \in Gc!Holders, es \in SUBSET Events : Gc!Create(h, es)
         \/ \E es \in SUBSET Events : Gc!Tell(es)
         \/ \E h \in Gc!Holders : Gc!End(h) \/ Gc!Expire(h) \/ Gc!Reopen(h)
  PROVE  GcInv'
<1> USE DEF GcInv, GcVictimsKnown, GcCitedStored, Gc!Exists, Gc!Stored
<1>1. ASSUME NEW e \in Events, Gc!Capture(e) \/ Gc!EventAges(e)
      PROVE  GcInv'
  BY <1>1 DEF Gc!Capture, Gc!EventAges
<1>2. ASSUME NEW h \in Gc!Holders, NEW es \in SUBSET Events, Gc!Create(h, es)
      PROVE  GcInv'
  BY <1>2 DEF Gc!Create
<1>3. ASSUME NEW h \in Gc!Holders, Gc!End(h) \/ Gc!Expire(h)
      PROVE  GcInv'
  BY <1>3 DEF Gc!End, Gc!Expire
<1>4. ASSUME NEW h \in Gc!Holders, Gc!Reopen(h)
      PROVE  GcInv'
  BY <1>4 DEF Gc!Reopen
<1>5. ASSUME NEW es \in SUBSET Events, Gc!Tell(es)
      PROVE  GcInv'
  BY <1>5 DEF Gc!Tell
<1> QED
  BY <1>1, <1>2, <1>3, <1>4, <1>5

LEMMA GcPass ==
  ASSUME GcInv, Gc!PassStep \/ Gc!Crash
  PROVE  GcInv'
<1> USE DEF GcInv, GcVictimsKnown, GcCitedStored
<1>1. CASE Gc!ListCandidates \/ Gc!ListAtoms \/ Gc!EndPass \/ Gc!Crash
  BY <1>1 DEF Gc!ListCandidates, Gc!ListAtoms, Gc!EndPass, Gc!Crash, Gc!Pick, Gc!AtRest,
              Gc!Exists, Gc!Stored
<1>2. ASSUME NEW h \in Gc!Holders, Gc!DeleteRow(h)
      PROVE  GcInv'
  BY <1>2, GcVictimLeaves DEF Gc!DeleteRow, Gc!Exists, Gc!Stored
<1>3. ASSUME NEW include \in BOOLEAN, NEW es \in SUBSET Events, Gc!ListRaw(include, es)
      PROVE  GcInv'
  BY <1>3 DEF Gc!ListRaw, Gc!AtRest, Gc!Referenced, Gc!Exists, Gc!Stored
<1>4. ASSUME NEW e \in Events, Gc!DeleteRaw(e)
      PROVE  GcInv'
  BY <1>4, GcVictimLeaves DEF Gc!DeleteRaw, Gc!Exists, Gc!Stored
<1> QED
  BY <1>1, <1>2, <1>3, <1>4 DEF Gc!PassStep

LEMMA GcStep == GcInv /\ [Next]_upkeepVars => GcInv'
<1> SUFFICES ASSUME GcInv, [Next]_upkeepVars PROVE GcInv'
  OBVIOUS
<1>1. CASE Gc!Next
  BY <1>1, GcPrograms, GcPass DEF Gc!Next
<1>2. CASE UNCHANGED gcVars
  BY <1>2 DEF gcVars, GcInv, GcVictimsKnown, GcCitedStored, Gc!Exists, Gc!Stored
<1> QED
  BY <1>1, <1>2 DEF Next, upkeepVars

(* A pass deletes no live candidate or atom, and no event that a stored    *)
(* candidate or atom cites, unless it was reopened or newly cited after    *)
(* the pass had looked, for any number of rows and events and however      *)
(* programs and crashes interleave with it.  Events that only episodes     *)
(* cite are not spared (pipeline/lifecycle/gc.py).                         *)
THEOREM CollectionIsSafe == Spec => NothingUsedIsCollected
<1>1. ASSUME GcInv, [Next]_upkeepVars
      PROVE  [/\ \A h \in Gc!Holders \ raced : state[h] = "live" => state'[h] # "gone"
              /\ \A h \in Gc!Holders : Gc!Exists(h) =>
                    \A e \in cites[h] \ raced : event'[e] # "gone"]_gcVars
  <2> SUFFICES ASSUME Gc!Next
               PROVE  /\ \A h \in Gc!Holders \ raced : state[h] = "live" => state'[h] # "gone"
                      /\ \A h \in Gc!Holders : Gc!Exists(h) =>
                            \A e \in cites[h] \ raced : event'[e] # "gone"
    BY <1>1 DEF Next, upkeepVars, gcVars
  <2>1. ASSUME NEW h \in Gc!Holders \ raced, state[h] = "live"
        PROVE  state'[h] # "gone"
    <3>1. ASSUME NEW g \in Gc!Holders, Gc!DeleteRow(g)
          PROVE  state'[h] # "gone"
      BY <1>1, <2>1, <3>1 DEF Gc!DeleteRow, GcInv, GcVictimsKnown
    <3>2. CASE Gc!PassStep
      BY <1>1, <2>1, <3>1, <3>2 DEF Gc!PassStep, Gc!ListCandidates, Gc!ListAtoms, Gc!EndPass,
                                    Gc!ListRaw, Gc!DeleteRaw
    <3>3. CASE ~Gc!PassStep
      BY <1>1, <2>1, <3>3 DEF Gc!Next, Gc!Capture, Gc!EventAges, Gc!Create, Gc!Tell, Gc!End, Gc!Expire,
                              Gc!Reopen, Gc!Crash, GcInv
    <3> QED
      BY <3>2, <3>3
  <2>2. ASSUME NEW h \in Gc!Holders, Gc!Exists(h), NEW e \in cites[h] \ raced
        PROVE  event'[e] # "gone"
    <3>0. e \in Events /\ event[e] \in {"fresh", "old"}
      BY <1>1, <2>2 DEF GcInv, GcCitedStored, Gc!Stored
    <3>1. ASSUME NEW x \in Events, Gc!DeleteRaw(x)
          PROVE  event'[e] # "gone"
      BY <1>1, <2>2, <3>0, <3>1 DEF Gc!DeleteRaw, GcInv, GcVictimsKnown
    <3>2. CASE Gc!PassStep
      BY <1>1, <3>0, <3>1, <3>2 DEF Gc!PassStep, Gc!ListCandidates, Gc!ListAtoms, Gc!EndPass,
                                    Gc!ListRaw, Gc!DeleteRow
    <3>3. CASE ~Gc!PassStep
      BY <1>1, <3>0, <3>3 DEF Gc!Next, Gc!Capture, Gc!EventAges, Gc!Create, Gc!Tell, Gc!End, Gc!Expire,
                              Gc!Reopen, Gc!Crash, GcInv
    <3> QED
      BY <3>2, <3>3
  <2> QED
    BY <2>1, <2>2
<1> QED
  BY <1>1, GcInit, GcStep, PTL DEF Spec, NothingUsedIsCollected, Gc!NothingUsedIsCollected, gcVars,
     Gc!gcVars

-----------------------------------------------------------------------------
(***************************************************************************)
(* ManualReview.  Two facts carry the argument: an atom that is gone never *)
(* comes back, and of what the record says was compared, and is still      *)
(* live, whatever the documents contradict is reported as uncertain.       *)
(***************************************************************************)

Told == {"uncertain", "conflict", "duplicate", "unrelated"}
Verdicts == UNION {[S -> Told] : S \in SUBSET Facts}

ReviewRecord(r) ==
    r = [revision |-> r.revision, checked |-> r.checked, attempts |-> r.attempts,
         uncertain |-> r.uncertain, duplicates |-> r.duplicates, blocked |-> r.blocked,
         status |-> r.status]

(* Of the live facts among S, those that d contradicts are in U.           *)
Reported(S, d, U) == \A a \in live \cap S : a \in Contradicts[d] => a \in U

ReviewShape(v) ==
    /\ v = [at |-> v.at, rev |-> v.rev, observed |-> v.observed, prior |-> v.prior,
            atoms |-> v.atoms, selected |-> v.selected, failed |-> v.failed,
            status |-> v.status, matched |-> v.matched]
    /\ ReviewRecord(v.prior)
    /\ v.rev \in Docs /\ v.selected \subseteq Facts
    /\ v.matched \in Verdicts /\ DOMAIN v.matched \subseteq v.selected

(* What a review took over from the record.                                *)
ReviewCarries(v) ==
    /\ v.prior.blocked = v.observed.blocked
    /\ v.prior.checked \subseteq known
    /\ live \cap v.prior.checked \subseteq v.atoms
    /\ Reported(v.prior.checked, v.rev, v.prior.uncertain)
    /\ v.selected \subseteq known

(* Its verdicts are right, or uncertain.                                   *)
ReviewTells(v) ==
    \A a \in DOMAIN v.matched :
        a \in Contradicts[v.rev] => v.matched[a] \in {"uncertain", "conflict"}

ReviewHolds(v) ==
    v.at # "idle" => ReviewShape(v) /\ ReviewCarries(v) /\ ReviewTells(v)

ReviewInv ==
    /\ live \subseteq known /\ known \subseteq Facts
    /\ doc \in Docs
    /\ ReviewRecord(record) /\ record.checked \subseteq known
    /\ Reported(record.checked, record.revision, record.uncertain)
    /\ \A c \in cand : c[2] \in record.blocked /\ c[2] \in known \ live
    /\ DOMAIN review = Reviewers
    /\ \A r \in Reviewers : ReviewHolds(review[r])

LEMMA ReviewInit == Init => ReviewInv
<1> SUFFICES ASSUME Init PROVE ReviewInv
  OBVIOUS
<1>1. /\ live = {} /\ known = {} /\ doc \in Docs /\ cand = {}
      /\ DOMAIN review = Reviewers /\ \A r \in Reviewers : review[r].at = "idle"
  BY DEF Init, Review!Init, Review!Idle
<1>2. ReviewRecord(record) /\ record.checked = {}
  BY DEF Init, Review!Init, Review!NoRecord, ReviewRecord
<1> QED
  BY <1>1, <1>2 DEF ReviewInv, ReviewHolds, Reported

(* The rest of the system: no fact becomes live that was known.            *)
LEMMA ReviewElsewhere ==
  ASSUME ReviewInv, UNCHANGED <<record, cand, review>>, doc' \in Docs,
         known \subseteq known', known' \subseteq Facts, live' \subseteq known',
         live' \cap known \subseteq live
  PROVE  ReviewInv'
<1>1. ASSUME NEW r \in Reviewers
      PROVE  ReviewHolds(review[r])'
  <2>1. ReviewHolds(review[r]) /\ review'[r] = review[r]
    BY DEF ReviewInv
  <2> QED
    BY <2>1 DEF ReviewHolds, ReviewShape, ReviewRecord, ReviewCarries, ReviewTells, Reported
<1>2. \A c \in cand : c[2] \in record.blocked /\ c[2] \in known' \ live'
  BY DEF ReviewInv
<1>3. Reported(record.checked, record.revision, record.uncertain)'
  BY DEF ReviewInv, Reported
<1> QED
  BY <1>1, <1>2, <1>3 DEF ReviewInv, ReviewRecord

(* One review goes on, and nobody else notices.                            *)
LEMMA ReviewGoesOn ==
  ASSUME ReviewInv, NEW r \in Reviewers, NEW v, ReviewHolds(v),
         review' = [review EXCEPT ![r] = v],
         UNCHANGED <<live, known, doc, record, cand>>
  PROVE  ReviewInv'
<1>1. ASSUME NEW s \in Reviewers
      PROVE  ReviewHolds(review[s])'
  <2>1. ReviewHolds(review[s]) /\ review'[s] \in {v, review[s]}
    BY DEF ReviewInv
  <2> QED
    BY <2>1 DEF ReviewHolds, ReviewShape, ReviewRecord, ReviewCarries, ReviewTells, Reported
<1> QED
  BY <1>1 DEF ReviewInv, ReviewRecord, Reported

LEMMA ReviewStarts ==
  ASSUME ReviewInv, NEW r \in Reviewers, Review!Start(r)
  PROVE  ReviewInv'
<1> DEFINE prior == Review!Carried(doc)
<1>1. PICK selected \in SUBSET live :
         review' = [review EXCEPT ![r] =
            [at |-> IF Review!Asked(selected) = {} THEN "check" ELSE "compare", rev |-> doc,
             observed |-> record, prior |-> prior, atoms |-> live,
             selected |-> selected, failed |-> {}, status |-> "complete",
             matched |-> [a \in selected \ Review!Asked(selected) |->
                            IF doc = Blank THEN "unrelated" ELSE "duplicate"]]]
  BY DEF Review!Start, Review!kSubset
<1>2. PICK v : v = [at |-> IF Review!Asked(selected) = {} THEN "check" ELSE "compare", rev |-> doc,
             observed |-> record, prior |-> prior, atoms |-> live,
             selected |-> selected, failed |-> {}, status |-> "complete",
             matched |-> [a \in selected \ Review!Asked(selected) |->
                            IF doc = Blank THEN "unrelated" ELSE "duplicate"]]
  OBVIOUS
<1>3. /\ ReviewRecord(prior) /\ prior.blocked = record.blocked
      /\ prior.checked \subseteq known
      /\ Reported(prior.checked, doc, prior.uncertain)
  <2>1. CASE record.revision = doc
    BY <2>1 DEF ReviewInv, Review!Carried
  <2>2. CASE record.revision # doc
    <3>0. ReviewRecord(Review!NoRecord) /\ Review!NoRecord.checked = {}
      BY DEF Review!NoRecord, ReviewRecord
    <3>1. PICK n : n = Review!NoRecord /\ ReviewRecord(n) /\ n.checked = {}
      BY <3>0
    <3>2. prior = [n EXCEPT !.blocked = record.blocked]
      BY <2>2, <3>1 DEF Review!Carried
    <3>3. ReviewRecord(prior) /\ prior.blocked = record.blocked /\ prior.checked = {}
      BY <3>1, <3>2 DEF ReviewRecord
    <3> QED
      BY <3>3 DEF Reported
  <2> QED
    BY <2>1, <2>2
<1> HIDE DEF prior
<1>4. /\ v.matched = [a \in selected \ Review!Asked(selected) |->
                            IF doc = Blank THEN "unrelated" ELSE "duplicate"]
      /\ v.rev = doc /\ v.observed = record /\ v.prior = prior /\ v.atoms = live
      /\ v.selected = selected
  BY <1>2
<1>5. ReviewShape(v)
  <2>1. v.matched \in [selected \ Review!Asked(selected) -> Told]
    BY <1>4 DEF Told
  <2>2. selected \ Review!Asked(selected) \in SUBSET Facts
    BY DEF ReviewInv
  <2>3. v.matched \in Verdicts /\ DOMAIN v.matched \subseteq selected
    BY <2>1, <2>2 DEF Verdicts
  <2> QED
    BY <1>2, <1>3, <1>4, <2>3 DEF ReviewShape, ReviewInv
<1>6. ReviewCarries(v)
  BY <1>3, <1>4 DEF ReviewCarries, ReviewInv
<1>7. ReviewTells(v)
  <2> SUFFICES ASSUME NEW a \in selected \ Review!Asked(selected), a \in Contradicts[doc]
               PROVE  FALSE
    BY <1>4 DEF ReviewTells
  <2>1. CASE doc = Blank
    BY <2>1, ReviewAssumed DEF ReviewInv, Review!ReviewAssumption
  <2>2. CASE doc # Blank
    <3>1. a \in Repeats[doc]
      BY <2>2 DEF Review!Asked
    <3> QED
      BY <3>1, ReviewAssumed DEF ReviewInv, Review!ReviewAssumption
  <2> QED
    BY <2>1, <2>2
<1>8. /\ review' = [review EXCEPT ![r] = v]
      /\ UNCHANGED <<live, known, doc, record, cand>>
  BY <1>1, <1>2 DEF Review!Start
<1> QED
  BY <1>5, <1>6, <1>7, <1>8, ReviewGoesOn DEF ReviewHolds

(* The verdicts of one more batch.                                         *)
LEMMA ReviewWith ==
  ASSUME NEW v, ReviewShape(v), ReviewTells(v), NEW some \in SUBSET v.selected,
         NEW verdict \in [some -> Told],
         \A a \in some : a \in Contradicts[v.rev] => verdict[a] \in {"uncertain", "conflict"}
  PROVE  /\ Review!With(v, some, verdict) \in Verdicts
         /\ DOMAIN Review!With(v, some, verdict) \subseteq v.selected
         /\ \A a \in DOMAIN Review!With(v, some, verdict) :
               a \in Contradicts[v.rev] =>
                 Review!With(v, some, verdict)[a] \in {"uncertain", "conflict"}
<1>1. PICK S \in SUBSET Facts : v.matched \in [S -> Told] /\ S \subseteq v.selected
  BY DEF ReviewShape, Verdicts
<1>2. PICK m : m = [a \in S \cup some |-> IF a \in some THEN verdict[a] ELSE v.matched[a]]
  OBVIOUS
<1>3. Review!With(v, some, verdict) = m
  BY <1>1, <1>2 DEF Review!With
<1>4. m \in [S \cup some -> Told] /\ S \cup some \in SUBSET Facts
  BY <1>1, <1>2 DEF ReviewShape
<1>5. m \in Verdicts /\ DOMAIN m = S \cup some
  BY <1>4 DEF Verdicts
<1>6. \A a \in S \cup some : a \in Contradicts[v.rev] => m[a] \in {"uncertain", "conflict"}
  BY <1>1, <1>2 DEF ReviewTells
<1> QED
  BY <1>1, <1>3, <1>5, <1>6

LEMMA ReviewCompares ==
  ASSUME ReviewInv, NEW r \in Reviewers, Review!Compare(r)
  PROVE  ReviewInv'
<1>1. PICK v : v = review[r]
  OBVIOUS
<1>2. ReviewShape(v) /\ ReviewCarries(v) /\ ReviewTells(v)
  BY <1>1 DEF Review!Compare, ReviewInv, ReviewHolds
<1>3. PICK some \in Review!Batches(review[r]) :
         \E verdict \in [some -> Told] :
           /\ \A a \in some : verdict[a] \in Review!Verdicts(review[r].rev, a)
           /\ review' = [review EXCEPT
                ![r].matched = Review!With(review[r], some, verdict),
                ![r].at = IF some = Review!Pending(review[r]) THEN "check" ELSE @]
  BY DEF Review!Compare, Told
<1>4. PICK verdict \in [some -> Told] :
         /\ \A a \in some : verdict[a] \in Review!Verdicts(review[r].rev, a)
         /\ review' = [review EXCEPT
              ![r].matched = Review!With(review[r], some, verdict),
              ![r].at = IF some = Review!Pending(review[r]) THEN "check" ELSE @]
  BY <1>3
<1>5. some \in SUBSET v.selected
  <2>1. some \in Review!Batches(v)
    BY <1>1, <1>3
  <2> QED
    BY <2>1 DEF Review!Batches, Review!kSubset, Review!Pending
<1>6. \A a \in some : a \in Contradicts[v.rev] => verdict[a] \in {"uncertain", "conflict"}
  BY <1>1, <1>4 DEF Review!Verdicts
<1>7. /\ Review!With(v, some, verdict) \in Verdicts
      /\ DOMAIN Review!With(v, some, verdict) \subseteq v.selected
      /\ \A a \in DOMAIN Review!With(v, some, verdict) :
            a \in Contradicts[v.rev] =>
              Review!With(v, some, verdict)[a] \in {"uncertain", "conflict"}
  BY <1>2, <1>5, <1>6, ReviewWith
<1>8. PICK matched :
         /\ matched = Review!With(v, some, verdict)
         /\ matched \in Verdicts /\ DOMAIN matched \subseteq v.selected
         /\ \A a \in DOMAIN matched :
               a \in Contradicts[v.rev] => matched[a] \in {"uncertain", "conflict"}
  BY <1>7
<1>9. PICK at : at = IF some = Review!Pending(review[r]) THEN "check" ELSE v.at
  OBVIOUS
<1>10. PICK w : w = [v EXCEPT !.matched = matched, !.at = at]
  OBVIOUS
<1>11. review' = [review EXCEPT ![r] = w]
  BY <1>1, <1>4, <1>8, <1>9, <1>10 DEF ReviewInv, ReviewShape
<1>12. w = [at |-> at, rev |-> v.rev, observed |-> v.observed, prior |-> v.prior,
            atoms |-> v.atoms, selected |-> v.selected, failed |-> v.failed,
            status |-> v.status, matched |-> matched]
  BY <1>2, <1>10 DEF ReviewShape
<1>13. ReviewShape(w) /\ ReviewCarries(w) /\ ReviewTells(w)
  BY <1>2, <1>8, <1>12 DEF ReviewShape, ReviewCarries, ReviewTells
<1> QED
  BY <1>11, <1>13, ReviewGoesOn DEF Review!Compare, ReviewHolds

LEMMA ReviewCompareFails ==
  ASSUME ReviewInv, NEW r \in Reviewers, Review!CompareFails(r)
  PROVE  ReviewInv'
<1>1. PICK v : v = review[r]
  OBVIOUS
<1>2. ReviewShape(v) /\ ReviewCarries(v) /\ ReviewTells(v)
  BY <1>1 DEF Review!CompareFails, ReviewInv, ReviewHolds
<1>3. PICK some \in Review!Batches(review[r]) :
         LET attempts == Review!DeferredBatch(review[r], some)
             hopeless == {a \in some : attempts[a] >= MaxAttempts}
         IN review' = [review EXCEPT ![r] =
              [review[r] EXCEPT !.at = "check",
                        !.matched = Review!With(review[r], hopeless,
                                                [a \in hopeless |-> "uncertain"]),
                        !.prior.attempts = [a \in Facts |-> IF a \in hopeless THEN 0
                                                            ELSE attempts[a]],
                        !.failed = some,
                        !.status = IF hopeless = some THEN "uncertain" ELSE "failed"]]
  BY DEF Review!CompareFails
<1>4a. PICK hopeless : hopeless = {a \in some : Review!DeferredBatch(review[r], some)[a] >= MaxAttempts}
  OBVIOUS
<1>4b. PICK attempts : attempts = [a \in Facts |-> IF a \in hopeless THEN 0
                                                   ELSE Review!DeferredBatch(review[r], some)[a]]
  OBVIOUS
<1>4c. PICK status : status = IF hopeless = some THEN "uncertain" ELSE "failed"
  OBVIOUS
<1>4. /\ hopeless \in SUBSET some
      /\ review' = [review EXCEPT ![r] =
          [review[r] EXCEPT !.at = "check",
                    !.matched = Review!With(review[r], hopeless,
                                            [a \in hopeless |-> "uncertain"]),
                    !.prior.attempts = attempts,
                    !.failed = some, !.status = status]]
  BY <1>3, <1>4a, <1>4b, <1>4c
<1>5. /\ Review!With(v, hopeless, [a \in hopeless |-> "uncertain"]) \in Verdicts
      /\ DOMAIN Review!With(v, hopeless, [a \in hopeless |-> "uncertain"]) \subseteq v.selected
      /\ \A a \in DOMAIN Review!With(v, hopeless, [a \in hopeless |-> "uncertain"]) :
            a \in Contradicts[v.rev] =>
              Review!With(v, hopeless, [b \in hopeless |-> "uncertain"])[a]
                \in {"uncertain", "conflict"}
  <2>1. hopeless \in SUBSET v.selected
    <3>1. some \in Review!Batches(v)
      BY <1>1, <1>3
    <3> QED
      BY <1>4, <3>1 DEF Review!Batches, Review!kSubset, Review!Pending
  <2>2. [a \in hopeless |-> "uncertain"] \in [hopeless -> Told]
    BY DEF Told
  <2>3. PICK verdict \in [hopeless -> Told] : verdict = [a \in hopeless |-> "uncertain"]
    BY <2>2
  <2>4. \A a \in hopeless : a \in Contradicts[v.rev] => verdict[a] \in {"uncertain", "conflict"}
    BY <2>3
  <2>5. /\ Review!With(v, hopeless, verdict) \in Verdicts
        /\ DOMAIN Review!With(v, hopeless, verdict) \subseteq v.selected
        /\ \A a \in DOMAIN Review!With(v, hopeless, verdict) :
              a \in Contradicts[v.rev] =>
                Review!With(v, hopeless, verdict)[a] \in {"uncertain", "conflict"}
    BY <1>2, <2>1, <2>4, ReviewWith
  <2> QED
    BY <2>3, <2>5
<1>6. PICK matched :
         /\ matched = Review!With(v, hopeless, [a \in hopeless |-> "uncertain"])
         /\ matched \in Verdicts /\ DOMAIN matched \subseteq v.selected
         /\ \A a \in DOMAIN matched :
               a \in Contradicts[v.rev] => matched[a] \in {"uncertain", "conflict"}
  BY <1>5
<1>7. PICK w : w = [v EXCEPT !.at = "check", !.matched = matched, !.prior.attempts = attempts,
                             !.failed = some, !.status = status]
  OBVIOUS
<1>8. PICK prior : prior = [v.prior EXCEPT !.attempts = attempts]
  OBVIOUS
<1>9. /\ ReviewRecord(prior) /\ prior.checked = v.prior.checked
      /\ prior.uncertain = v.prior.uncertain /\ prior.blocked = v.prior.blocked
  BY <1>2, <1>8 DEF ReviewShape, ReviewRecord
<1>10. w = [at |-> "check", rev |-> v.rev, observed |-> v.observed, prior |-> prior,
            atoms |-> v.atoms, selected |-> v.selected, failed |-> some,
            status |-> status, matched |-> matched]
  BY <1>2, <1>7, <1>8 DEF ReviewShape
<1>11. ReviewShape(w) /\ ReviewCarries(w) /\ ReviewTells(w)
  BY <1>2, <1>6, <1>9, <1>10 DEF ReviewShape, ReviewCarries, ReviewTells
<1>12. review' = [review EXCEPT ![r] = w]
  BY <1>1, <1>4, <1>6, <1>7
<1> QED
  BY <1>11, <1>12, ReviewGoesOn DEF Review!CompareFails, ReviewHolds

LEMMA ReviewChecks ==
  ASSUME ReviewInv, NEW r \in Reviewers, Review!CheckCurrent(r)
  PROVE  ReviewInv'
<1>1. PICK v : v = review[r]
  OBVIOUS
<1>2. ReviewShape(v) /\ ReviewCarries(v) /\ ReviewTells(v)
  BY <1>1 DEF Review!CheckCurrent, ReviewInv, ReviewHolds
<1>3. PICK w : /\ w = IF doc = v.rev THEN [v EXCEPT !.at = "commit"] ELSE Review!Idle
               /\ review' = [review EXCEPT ![r] = w]
  BY <1>1 DEF Review!CheckCurrent
<1>4. ReviewHolds(w)
  <2>1. CASE doc = v.rev
    <3>1. w = [at |-> "commit", rev |-> v.rev, observed |-> v.observed, prior |-> v.prior,
               atoms |-> v.atoms, selected |-> v.selected, failed |-> v.failed,
               status |-> v.status, matched |-> v.matched]
      BY <1>2, <1>3, <2>1 DEF ReviewShape
    <3> QED
      BY <1>2, <3>1 DEF ReviewHolds, ReviewShape, ReviewCarries, ReviewTells
  <2>2. CASE doc # v.rev
    BY <1>3, <2>2 DEF ReviewHolds, Review!Idle
  <2> QED
    BY <2>1, <2>2
<1> QED
  BY <1>3, <1>4, ReviewGoesOn DEF Review!CheckCurrent

(* The record that a review writes: what it vouches for, it has compared,  *)
(* or took over from a record of the same revision.                        *)
LEMMA ReviewWrites ==
  ASSUME ReviewInv, NEW v, ReviewShape(v), ReviewCarries(v), ReviewTells(v), Review!Swaps(v),
         NEW n, n = Review!NewRecord(v)
  PROVE  /\ ReviewRecord(n) /\ n.revision = v.rev
         /\ n.checked = v.prior.checked \cup Review!ReRead(v)
         /\ n.blocked = record.blocked \cup Review!Refuted(v)
         /\ \A a \in (live \ Review!Refuted(v)) \cap n.checked :
               a \in Contradicts[v.rev] => a \in n.uncertain
<1>1. PICK attempts, duplicates, status, uncertain :
         /\ uncertain = {a \in v.prior.uncertain : /\ a \notin DOMAIN v.matched
                                                   /\ a \in (v.prior.checked \cup Review!ReRead(v)) \cap v.atoms}
                        \cup {a \in DOMAIN v.matched : /\ v.matched[a] = "uncertain"
                                                       /\ a \in v.prior.checked \cup Review!ReRead(v)}
         /\ n = [revision |-> v.rev, checked |-> v.prior.checked \cup Review!ReRead(v),
                 uncertain |-> uncertain, attempts |-> attempts, duplicates |-> duplicates,
                 blocked |-> v.prior.blocked \cup Review!Refuted(v), status |-> status]
  BY DEF Review!NewRecord
<1>2. /\ ReviewRecord(n) /\ n.revision = v.rev /\ n.uncertain = uncertain
      /\ n.checked = v.prior.checked \cup Review!ReRead(v)
      /\ n.blocked = v.prior.blocked \cup Review!Refuted(v)
  BY <1>1 DEF ReviewRecord
<1>3. v.prior.blocked = record.blocked
  BY DEF ReviewCarries, Review!Swaps
<1>4. ASSUME NEW a \in (live \ Review!Refuted(v)) \cap n.checked, a \in Contradicts[v.rev]
      PROVE  a \in n.uncertain
  <2>1. CASE a \in DOMAIN v.matched
    <3>1. a \in Review!ReRead(v) /\ v.matched[a] \in {"uncertain", "conflict"}
      BY <1>4, <2>1 DEF Review!ReRead, ReviewTells
    <3>2. v.matched[a] # "conflict"
      <4> SUFFICES ASSUME v.matched[a] = "conflict" PROVE FALSE
        OBVIOUS
      <4>1. <<v.rev, a>> \in cand
        BY <1>4, <3>1 DEF Review!Refuted
      <4> QED
        BY <1>4, <4>1 DEF ReviewInv
    <3> QED
      BY <1>1, <1>2, <2>1, <3>1, <3>2
  <2>2. CASE a \notin DOMAIN v.matched
    <3>1. a \in v.prior.checked
      BY <1>2, <1>4, <2>2 DEF Review!ReRead
    <3>2. a \in v.prior.uncertain /\ a \in v.atoms
      BY <1>4, <3>1 DEF ReviewCarries, Reported
    <3> QED
      BY <1>1, <1>2, <2>2, <3>1, <3>2
  <2> QED
    BY <2>1, <2>2
<1> QED
  BY <1>2, <1>3, <1>4

LEMMA ReviewCommits ==
  ASSUME ReviewInv, NEW r \in Reviewers, Review!Commit(r)
  PROVE  ReviewInv'
<1>1. PICK v : v = review[r]
  OBVIOUS
<1>2. ReviewShape(v) /\ ReviewCarries(v) /\ ReviewTells(v)
  BY <1>1 DEF Review!Commit, ReviewInv, ReviewHolds
<1>3. /\ review' = [review EXCEPT ![r] = Review!Idle]
      /\ UNCHANGED <<known, doc>>
  BY DEF Review!Commit
<1>4. ReviewHolds(Review!Idle)
  BY DEF ReviewHolds, Review!Idle
<1>5. CASE ~Review!Swaps(v)
  <2>1. UNCHANGED <<live, record, cand>>
    BY <1>1, <1>5 DEF Review!Commit
  <2> QED
    BY <1>3, <1>4, <2>1, ReviewGoesOn
<1>6. CASE Review!Swaps(v)
  <2>1. /\ live' = live \ Review!Refuted(v)
        /\ cand' = cand \cup {<<v.rev, a>> : a \in Review!Refuted(v)}
        /\ record' = Review!NewRecord(v)
    BY <1>1, <1>6 DEF Review!Commit
  <2>2. PICK n : n = Review!NewRecord(v)
    OBVIOUS
  <2>3. /\ ReviewRecord(n) /\ n.revision = v.rev
        /\ n.checked = v.prior.checked \cup Review!ReRead(v)
        /\ n.blocked = record.blocked \cup Review!Refuted(v)
        /\ \A a \in (live \ Review!Refuted(v)) \cap n.checked :
              a \in Contradicts[v.rev] => a \in n.uncertain
    BY <1>2, <1>6, <2>2, ReviewWrites
  <2>4. record' = n
    BY <2>1, <2>2
  <2>5. Review!Refuted(v) \subseteq Review!ReRead(v) /\ Review!ReRead(v) \subseteq live
    BY DEF Review!Refuted, Review!ReRead
  <2>6. n.checked \subseteq known
    BY <1>2, <2>3, <2>5 DEF ReviewCarries, ReviewInv
  <2>7. \A c \in cand' : c[2] \in record'.blocked /\ c[2] \in known \ live'
    BY <2>1, <2>3, <2>4, <2>5 DEF ReviewInv
  <2>8. Reported(record.checked, record.revision, record.uncertain)'
    BY <2>1, <2>3, <2>4 DEF Reported
  <2>9. ASSUME NEW s \in Reviewers
        PROVE  ReviewHolds(review[s])'
    <3>1. PICK u : u = review'[s]
      OBVIOUS
    <3>2. ReviewHolds(u)
      BY <1>3, <1>4, <3>1 DEF ReviewInv
    <3>3. ReviewHolds(u)'
      BY <1>3, <2>1, <3>2
         DEF ReviewHolds, ReviewShape, ReviewRecord, ReviewCarries, ReviewTells, Reported
    <3> QED
      BY <3>1, <3>3 DEF ReviewHolds, ReviewShape, ReviewRecord, ReviewCarries, ReviewTells, Reported
  <2>10. ReviewRecord(record)' /\ record'.checked \subseteq known'
    BY <1>3, <2>3, <2>4, <2>6 DEF ReviewRecord
  <2>11. live' \subseteq known' /\ known' \subseteq Facts /\ doc' \in Docs /\ DOMAIN review' = Reviewers
    BY <1>3, <2>1 DEF ReviewInv
  <2> QED
    BY <1>3, <2>7, <2>8, <2>9, <2>10, <2>11 DEF ReviewInv
<1> QED
  BY <1>5, <1>6

LEMMA ReviewStep == ReviewInv /\ [Next]_upkeepVars => ReviewInv'
<1> SUFFICES ASSUME ReviewInv, [Next]_upkeepVars PROVE ReviewInv'
  OBVIOUS
<1>1. ASSUME NEW a \in Facts, Review!Promote(a) \/ Review!Deprecate(a) \/ Review!Expire(a)
      PROVE  ReviewInv'
  BY <1>1, ReviewElsewhere DEF Review!Promote, Review!Deprecate, Review!Expire, ReviewInv
<1>2. ASSUME NEW d \in Docs, Review!EditDocuments(d)
      PROVE  ReviewInv'
  BY <1>2, ReviewElsewhere DEF Review!EditDocuments, ReviewInv
<1>3. ASSUME NEW r \in Reviewers, Review!ReviewStep(r)
      PROVE  ReviewInv'
  BY <1>3, ReviewStarts, ReviewCompares, ReviewCompareFails, ReviewChecks, ReviewCommits
     DEF Review!ReviewStep
<1>4. CASE UNCHANGED reviewVars
  BY <1>4, ReviewElsewhere DEF reviewVars, ReviewInv
<1> QED
  BY <1>1, <1>2, <1>3, <1>4 DEF Next, upkeepVars, Review!Next

(* However many reviews run at once over however many facts, what one of    *)
(* them refuted stays out of recall, and a review reported complete left no *)
(* active fact that contradicts the documents (operations/retention.py).    *)
THEOREM ReviewIsSafe == Spec => []ReviewIsTrue
<1>1. ReviewInv => ReviewIsTrue
  <2> SUFFICES ASSUME ReviewInv PROVE ReviewIsTrue
    OBVIOUS
  <2>1. Review!RefutedStaysBlocked
    BY DEF ReviewInv, Review!RefutedStaysBlocked
  <2>2. Review!CompleteIsTrue
    <3> SUFFICES ASSUME Review!ReviewStatus = "complete", NEW a \in live,
                        a \in Contradicts[doc]
                 PROVE  FALSE
      BY DEF Review!CompleteIsTrue
    <3>1. record.revision = doc
      BY DEF Review!ReviewStatus
    <3>2. a \in record.checked
      BY DEF Review!ReviewStatus
    <3>3. a \in record.uncertain
      BY <3>1, <3>2 DEF ReviewInv, Reported
    <3> QED
      BY <3>1, <3>2, <3>3 DEF Review!ReviewStatus
  <2> QED
    BY <2>1, <2>2 DEF ReviewIsTrue
<1> QED
  BY <1>1, ReviewInit, ReviewStep, PTL DEF Spec

=============================================================================
