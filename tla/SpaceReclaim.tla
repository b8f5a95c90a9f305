---------------------------- MODULE SpaceReclaim ----------------------------
(***************************************************************************)
(* Giving the space of a SQLite file back.  Deleted rows leave free pages; *)
(* a nudge returns some of them, but only in a file in INCREMENTAL mode.   *)
(* An old file is in mode NONE, and one full VACUUM changes that.  What is *)
(* written goes to the write-ahead log, and reaches the main file when a   *)
(* checkpoint folds the log into it; a reader may be in the way of that.   *)
(* The host asks for a VACUUM in windows of rest until it is told to stop. *)
(*                                                                         *)
(* Sizes are in pages.  The host, and what PRAGMAs do, are external; the   *)
(* copy that a VACUUM makes is on the disk of the file.                    *)
(***************************************************************************)
EXTENDS Naturals

CONSTANTS
    MaxPages,    \* bound on used, on free and, above which it is not told
                 \* apart, on the log
    Disk,        \* the free disk space there may be
    Margin,      \* disk_margin_bytes
    SoftLimit,   \* soft_limit_bytes: the largest file for a short window
    HardLimits,  \* values of hard_limit_bytes; NoLimit for None
    NoLimit,
    MinWal,      \* min_wal_bytes
    Budget       \* pages that a nudge returns

SpaceAssumption ==
    /\ {MaxPages, Margin, SoftLimit, NoLimit, MinWal, Budget} \subseteq Nat
    /\ Disk \subseteq Nat /\ HardLimits \subseteq Nat

VARIABLES
    disk,        \* mode, used, free: the database; file, wal: what main file
                 \* and log take on the disk; room: free disk space
    inTx,        \* a transaction is open on the connection
    job,         \* "rest" or "fits": the check has found room enough
    hardLimit,
    finished     \* the host was told to stop asking

reclaimVars == <<disk, inTx, job, hardLimit, finished>>

Init ==
    /\ \E mode \in {"none", "incremental"}, free \in 0..MaxPages, room \in Disk :
           disk = [mode |-> mode, used |-> 1, free |-> free, file |-> 1 + free, wal |-> 0,
                   room |-> room]
    /\ inTx = FALSE /\ job = "rest" /\ finished = FALSE
    /\ hardLimit \in HardLimits

Size == disk.file + disk.wal
LogOf(n) == IF n > MaxPages THEN MaxPages ELSE n

-----------------------------------------------------------------------------
(* Programs that use the file, and others that use the disk.  The log gets *)
(* longer, or starts over where all of it was folded; SQLite may fold it.  *)

Write(used, free) ==
    \E wal \in {disk.wal, LogOf(disk.wal + 1)}, file \in {disk.file, used + free} :
        disk' = [disk EXCEPT !.used = used, !.free = free, !.wal = wal, !.file = file]

Grow ==
    /\ disk.used < MaxPages
    /\ Write(disk.used + 1, IF disk.free > 0 THEN disk.free - 1 ELSE 0)
    /\ UNCHANGED <<inTx, job, hardLimit, finished>>

Erase ==
    /\ disk.used > 1 /\ disk.free < MaxPages
    /\ Write(disk.used - 1, disk.free + 1)
    /\ UNCHANGED <<inTx, job, hardLimit, finished>>

BeginTx ==
    /\ ~inTx /\ inTx' = TRUE
    /\ UNCHANGED <<disk, job, hardLimit, finished>>

EndTx ==
    /\ inTx /\ inTx' = FALSE
    /\ UNCHANGED <<disk, job, hardLimit, finished>>

OthersUseDisk(room) ==
    /\ room \in Disk /\ room # disk.room
    /\ disk' = [disk EXCEPT !.room = room]
    /\ UNCHANGED <<inTx, job, hardLimit, finished>>

-----------------------------------------------------------------------------
(* Maintenance.  All of it waits for, or declines, an open transaction.    *)

(* Defect: what was returned stays in the log.                             *)
NudgeUnfolded(folded) ==
    /\ ~inTx /\ disk.mode = "incremental"
    /\ LET left == IF disk.free > Budget THEN disk.free - Budget ELSE 0
       IN  disk' = [disk EXCEPT !.free = left, !.wal = LogOf(@ + disk.free - left)]
    /\ UNCHANGED <<inTx, job, hardLimit, finished>>

(* The pages returned are written to the log, which a PASSIVE checkpoint    *)
(* folds into the main file, as far as readers let it; the log keeps its    *)
(* size.  The checkpoint runs also when there is nothing to return.         *)
Nudge(folded) ==
    /\ ~inTx /\ disk.mode = "incremental"
    /\ LET left == IF disk.free > Budget THEN disk.free - Budget ELSE 0
       IN  \E wal \in {disk.wal, LogOf(disk.wal + disk.free - left)} :
               disk' = [disk EXCEPT !.free = left, !.wal = wal,
                                    !.file = IF folded THEN disk.used + left ELSE @]
    /\ UNCHANGED <<inTx, job, hardLimit, finished>>

(* maybe_truncate_wal, without a reader in the way.                         *)
TruncateWal ==
    /\ ~inTx /\ disk.wal >= MinWal
    /\ disk' = [disk EXCEPT !.wal = 0, !.file = disk.used + disk.free]
    /\ UNCHANGED <<inTx, job, hardLimit, finished>>

OverHardLimit == hardLimit # NoLimit /\ Size > hardLimit

(* maybe_bootstrap_incremental, up to the VACUUM, called by a host at rest.*)
(* A call that finds too little room, or too large a file for its window,  *)
(* may be made again.                                                      *)
Skip ==
    /\ ~finished /\ job = "rest"
    /\ disk.mode = "incremental" \/ OverHardLimit
    /\ finished' = TRUE
    /\ UNCHANGED <<disk, inTx, job, hardLimit>>

WindowAllows(window) == window \in {"startup", "long_idle"} \/ Size <= SoftLimit

RoomForCopy == Size + Margin <= disk.room

Check(window) ==
    /\ ~finished /\ job = "rest" /\ ~inTx
    /\ disk.mode = "none" /\ ~OverHardLimit /\ WindowAllows(window)
    /\ RoomForCopy
    /\ job' = "fits"
    /\ UNCHANGED <<disk, inTx, hardLimit, finished>>

(* VACUUM makes a copy of the pages in use and then writes them all to the  *)
(* log, at its end or over what was folded, and the pragma set before it    *)
(* counts only when it succeeds.  The TRUNCATE checkpoint after it may find *)
(* a reader in the way, which is not looked at: file and log keep the size. *)
Rewrite ==
    \E more \in {disk.used, IF disk.used > disk.wal THEN disk.used - disk.wal ELSE 0} :
        /\ disk.used + more <= disk.room
        /\ \/ disk' = [disk EXCEPT !.mode = "incremental", !.free = 0, !.wal = 0, !.file = disk.used]
           \/ disk' = [disk EXCEPT !.mode = "incremental", !.free = 0, !.wal = LogOf(@ + more)]

Vacuum ==
    /\ job = "fits" /\ ~inTx /\ Rewrite
    /\ finished' = TRUE /\ job' = "rest"
    /\ UNCHANGED <<inTx, hardLimit>>

(* Defect: a failure counts as done.                                       *)
VacuumFailsForGood ==
    /\ job = "fits" /\ job' = "rest" /\ finished' = TRUE
    /\ UNCHANGED <<disk, inTx, hardLimit>>

(* Another program has the file, or there is no room.                      *)
VacuumFails ==
    /\ job = "fits" /\ job' = "rest"
    /\ UNCHANGED <<disk, inTx, hardLimit, finished>>

(* compact by hand, whatever the size.                                     *)
CompactByHand ==
    /\ ~inTx /\ job = "rest" /\ Rewrite
    /\ UNCHANGED <<inTx, job, hardLimit, finished>>

Next ==
    \/ Grow \/ Erase \/ BeginTx \/ EndTx \/ CompactByHand
    \/ \E room \in Disk : OthersUseDisk(room)
    \/ \E folded \in BOOLEAN : Nudge(folded)
    \/ TruncateWal \/ Skip \/ Vacuum \/ VacuumFails
    \/ \E window \in {"idle", "long_idle", "startup"} : Check(window)

(* Ticks and strong windows come again and again, transactions end, readers *)
(* are not always in the way, and an attempt that can be made again and     *)
(* again succeeds at last.                                                  *)
Fairness ==
    /\ WF_reclaimVars(EndTx) /\ SF_reclaimVars(Nudge(TRUE))
    /\ SF_reclaimVars(Check("startup")) /\ SF_reclaimVars(Vacuum)

Spec == Init /\ [][Next]_reclaimVars /\ Fairness

-----------------------------------------------------------------------------
(* Properties.                                                             *)

(* An old file comes to give its space back: when no limit is set and the  *)
(* disk has room at last both for the check and for a copy and a log of    *)
(* all pages in use, the mode is right at last, and again and again no     *)
(* page is free and the main file is no larger than the database, however  *)
(* often attempts failed and readers were in the way before.               *)
SpaceComesBack ==
    hardLimit = NoLimit /\ <>[](RoomForCopy /\ 2 * disk.used <= disk.room) =>
        /\ <>(disk.mode = "incremental")
        /\ []<>(disk.free = 0)
        /\ []<>(disk.file = disk.used + disk.free)

=============================================================================
