------------------------------- MODULE Upkeep -------------------------------
(* Seven models of work that must get done in the background, one of which   *)
(* runs in each behaviour: `part' says which.  Each liveness property states  *)
(* the fairness of its own model; a behaviour of another part leaves that     *)
(* model's steps enabled for good, or has nothing for it to do.               *)
EXTENDS Integers, FiniteSets, Sequences

CONSTANTS
    Backends, Threads, PoolSize, MaxPools,               \* PoolLeases
    Atoms, Candidates, Events, MaxRows,                  \* RowGc
    MaxPages, Disk, Margin, SoftLimit, HardLimits, NoLimit, MinWal, Budget,
                                                         \* SpaceReclaim
    Pages, Hopeless, Limit, MaxMarks,                    \* DirtyQueue
    Facts, Docs, Blank, Reviewers, Contradicts, Repeats,
    MaxAtoms, BatchSize, MaxAttempts, MaxDocEdits,       \* ManualReview
    Users, MaxSpawns, MaxCalls,                          \* BridgeClient
    Paths, Pollers, Requests, Kinds, MaxFileEdits, MaxStops \* HostFiles

VARIABLES
    part,
    pools, registry, lease, registrar, owner, thread, unlucky,
    state, cites, order, told, event, gc, raced,
    disk, inTx, job, hardLimit, finished,
    dirty, byRegen, byUpdate, batch, working, stale, marks,
    live, known, doc, edits, record, cand, review, waiting,
    proc, exited, inbox, outbox, cached, starting, user,
    files, row, scan, clock, stops

poolVars == <<pools, registry, lease, registrar, owner, thread, unlucky>>
gcVars == <<state, cites, order, told, event, gc, raced>>
spaceVars == <<disk, inTx, job, hardLimit, finished>>
queueVars == <<dirty, byRegen, byUpdate, batch, working, stale, marks>>
reviewVars == <<live, known, doc, edits, record, cand, review, waiting>>
bridgeVars == <<proc, exited, inbox, outbox, cached, starting, user>>
fileVars == <<files, row, scan, clock, stops>>

Pool == INSTANCE PoolLeases
Gc == INSTANCE RowGc
Space == INSTANCE SpaceReclaim
Queue == INSTANCE DirtyQueue
Review == INSTANCE ManualReview WITH Atoms <- Facts, MaxEdits <- MaxDocEdits
Bridge == INSTANCE BridgeClient
Files == INSTANCE HostFiles WITH MaxEdits <- MaxFileEdits, disk <- files

ASSUME PoolAssumed == Pool!PoolAssumption
ASSUME SpaceAssumed == Space!SpaceAssumption
ASSUME QueueAssumed == Queue!QueueAssumption
ASSUME ReviewAssumed == Review!ReviewAssumption
ASSUME FilesAssumed == Files!FilesAssumption

Parts == {"pool", "gc", "space", "queue", "review", "bridge", "files"}

Init ==
    /\ part \in Parts
    /\ Pool!Init /\ Gc!Init /\ Space!Init /\ Queue!Init
    /\ Review!Init /\ Bridge!Init /\ Files!Init

Next ==
    /\ UNCHANGED part
    /\ \/ /\ part = "pool" /\ Pool!Next
          /\ UNCHANGED <<gcVars, spaceVars, queueVars, reviewVars, bridgeVars, fileVars>>
       \/ /\ part = "gc" /\ Gc!Next
          /\ UNCHANGED <<poolVars, spaceVars, queueVars, reviewVars, bridgeVars, fileVars>>
       \/ /\ part = "space" /\ Space!Next
          /\ UNCHANGED <<poolVars, gcVars, queueVars, reviewVars, bridgeVars, fileVars>>
       \/ /\ part = "queue" /\ Queue!Next
          /\ UNCHANGED <<poolVars, gcVars, spaceVars, reviewVars, bridgeVars, fileVars>>
       \/ /\ part = "review" /\ Review!Next
          /\ UNCHANGED <<poolVars, gcVars, spaceVars, queueVars, bridgeVars, fileVars>>
       \/ /\ part = "bridge" /\ Bridge!Next
          /\ UNCHANGED <<poolVars, gcVars, spaceVars, queueVars, reviewVars, fileVars>>
       \/ /\ part = "files" /\ Files!Next
          /\ UNCHANGED <<poolVars, gcVars, spaceVars, queueVars, reviewVars, bridgeVars>>

upkeepVars == <<part, poolVars, gcVars, spaceVars, queueVars, reviewVars, bridgeVars,
                fileVars>>

Spec == Init /\ [][Next]_upkeepVars

-----------------------------------------------------------------------------
(* All leases are on the registered pool, which is open, and the callers of  *)
(* one plugin share one bridge (storage/backends/postgres_pool.py;           *)
(* plugins/openclaw/octopmemory/src/index.ts, makeBridgeFactory).            *)
SharedByAll == Pool!LeasesShareOnePool /\ Bridge!OneBridge

(* Every operation that waits for a connection ends, and every call to the   *)
(* bridge settles, whatever dies (storage/backends/postgres_pool.py;         *)
(* plugins/openclaw/octopmemory/src/bridge.ts).                              *)
EveryOperationEnds ==
    /\ Pool!Fairness => Pool!EveryOperationEnds
    /\ Bridge!Fairness => Bridge!CallsSettle

(* A pass deletes no live candidate or atom and no event that a stored one   *)
(* cites, and deletes at last what it lists as expired                        *)
(* (pipeline/lifecycle/gc.py).                                                *)
NothingUsedIsCollected == Gc!NothingUsedIsCollected
ExpiredIsCollected == Gc!Fairness => Gc!ExpiredIsCollected

(* An old file comes to give its space back, whatever attempts failed        *)
(* (pipeline/lifecycle/maintenance.py, maybe_bootstrap_incremental).          *)
SpaceComesBack == Space!Fairness => Space!SpaceComesBack

(* A page that can be generated gets clean, and a new page is tried, whatever *)
(* pages fail; a readable file comes to be indexed, whatever was there before *)
(* it (pipeline/page/regenerator.py, regenerate_dirty;                        *)
(* application/host_files.py, start_polling).                                 *)
NothingIsLeftBehind ==
    /\ Queue!Fairness => Queue!HealthyPageGetsClean /\ Queue!NewPageIsAttempted
    /\ Files!Fairness => Files!IndexCatchesUp

(* What a manual document refuted is not recalled, and a review reported     *)
(* complete has compared every live atom (operations/retention.py).           *)
ReviewIsTrue == Review!RefutedStaysBlocked /\ Review!CompleteIsTrue

(* Reviews come to an end, whatever the model fails to answer                *)
(* (operations/retention.py, _defer_failed_batch).                            *)
ReviewEnds == Review!Fairness => Review!ReviewEnds
=============================================================================
