--------------------------- MODULE SqliteSession ---------------------------
(***************************************************************************)
(* The one connection of a SQLite backend and the threads that share it.   *)
(* A lock covers a whole operation or transaction.  The driver begins a    *)
(* transaction at the first write: an operation that fails after one must  *)
(* undo it, or the next thread's commit takes it along.                    *)
(*                                                                         *)
(* A call writes under its own name; a transaction makes two calls, either *)
(* of which may fail, and then fails itself.                               *)
(***************************************************************************)
EXTENDS Naturals, FiniteSets

CONSTANTS
    Calls,      \* standalone operations, each made once
    Blocks,     \* transactions, each run once
    LiveSweep   \* whether rows are collected while threads use the connection

VARIABLES
    holder,     \* who has the lock: a call, a block, or NoOne
    explicit,   \* _in_transaction
    written,    \* what the open transaction has written
    durable,    \* what is committed
    fate,       \* fate[c]: "new", "running", "done" or "failed"
    expired,    \* a row waits to be collected
    shut        \* the backend is closed

sessionVars == <<holder, explicit, written, durable, fate, expired, shut>>

NoOne == "none"

(* No two of the names mean the same.                                      *)
SessionAssumption ==
    /\ Calls \cap Blocks = {} /\ NoOne \notin Calls \cup Blocks
    /\ \A k \in Blocks, i \in {1, 2} : <<k, i>> \notin Calls

Init ==
    /\ holder = NoOne /\ explicit = FALSE
    /\ written = {} /\ durable = {}
    /\ fate = [c \in Calls \cup Blocks |-> "new"]
    /\ expired = TRUE
    /\ shut = FALSE

Ends(c, outcome) == fate' = [fate EXCEPT ![c] = outcome] /\ holder' = NoOne

-----------------------------------------------------------------------------

(* A guarded operation outside any transaction.                            *)
Begin(c) ==
    /\ c \in Calls /\ fate[c] = "new" /\ holder = NoOne /\ ~shut
    /\ holder' = c /\ fate' = [fate EXCEPT ![c] = "running"]
    /\ UNCHANGED <<explicit, written, durable, shut, expired>>

Write(c) ==
    /\ c \in Calls /\ holder = c /\ c \notin written \cup durable
    /\ written' = written \cup {c}
    /\ UNCHANGED <<holder, explicit, durable, fate, shut, expired>>

Commit(c) ==
    /\ c \in Calls /\ holder = c /\ c \in written \cup durable
    /\ durable' = durable \cup written /\ written' = {}
    /\ Ends(c, "done")
    /\ UNCHANGED <<explicit, shut, expired>>

(* Defect: the driver's transaction is left open.                          *)
FailAbandoning(c) ==
    /\ c \in Calls /\ holder = c
    /\ Ends(c, "failed")
    /\ UNCHANGED <<explicit, written, durable, shut, expired>>

Fail(c) ==
    /\ c \in Calls /\ holder = c
    /\ written' = {}
    /\ Ends(c, "failed")
    /\ UNCHANGED <<explicit, durable, shut, expired>>

-----------------------------------------------------------------------------
(* transaction(): BEGIN, the calls of its body, COMMIT or ROLLBACK.  A     *)
(* call inside neither commits nor rolls back.                             *)

BeginBlock(k) ==
    /\ k \in Blocks /\ fate[k] = "new" /\ holder = NoOne /\ ~shut
    /\ holder' = k /\ explicit' = TRUE
    /\ fate' = [fate EXCEPT ![k] = "running"]
    /\ UNCHANGED <<written, durable, shut, expired>>

BlockWrites(k) ==
    /\ holder = k /\ explicit /\ <<k, 2>> \notin written \cup durable
    /\ written' = written \cup {<<k, IF <<k, 1>> \in written \cup durable THEN 2 ELSE 1>>}
    /\ UNCHANGED <<holder, explicit, durable, fate, shut, expired>>

CommitBlock(k) ==
    /\ holder = k /\ explicit /\ <<k, 2>> \in written
    /\ durable' = durable \cup written /\ written' = {} /\ explicit' = FALSE
    /\ Ends(k, "done")
    /\ UNCHANGED <<shut, expired>>

FailBlock(k) ==
    /\ holder = k /\ explicit
    /\ written' = {} /\ explicit' = FALSE
    /\ Ends(k, "failed")
    /\ UNCHANGED <<durable, shut, expired>>

(* close() waits for the lock; closing the connection undoes what is open. *)
Shut ==
    /\ holder = NoOne /\ ~shut
    /\ shut' = TRUE /\ written' = {}
    /\ UNCHANGED <<holder, explicit, durable, fate, expired>>

(* The collector of rows deletes and commits on the connection itself,     *)
(* without the lock.                                                       *)
Sweep ==
    /\ LiveSweep \/ holder = NoOne
    /\ ~shut /\ expired /\ expired' = FALSE
    /\ durable' = durable \cup written /\ written' = {}
    /\ UNCHANGED <<holder, explicit, fate, shut>>

Next ==
    \/ \E c \in Calls : Begin(c) \/ Write(c) \/ Commit(c) \/ Fail(c)
    \/ \E k \in Blocks : BeginBlock(k) \/ BlockWrites(k) \/ CommitBlock(k) \/ FailBlock(k)
    \/ Shut \/ Sweep

Spec == Init /\ [][Next]_sessionVars

-----------------------------------------------------------------------------
(* Properties.                                                             *)

(* What a caller was told is what the file keeps: all the writes of a call *)
(* or transaction that succeeded, none of one that failed, whichever       *)
(* threads used the connection in between.                                 *)
AllOrNothing ==
    /\ \A c \in Calls : /\ fate[c] = "done" => c \in durable
                        /\ c \in durable => fate[c] \in {"running", "done"}
    /\ \A k \in Blocks, i \in {1, 2} : <<k, i>> \in durable <=> fate[k] = "done"

=============================================================================
