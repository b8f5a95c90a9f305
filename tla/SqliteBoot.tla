----------------------------- MODULE SqliteBoot -----------------------------
(***************************************************************************)
(* Opening a SQLite store: tables, triggers and indexes are created when   *)
(* missing, old files are migrated.  Each statement commits by itself,     *)
(* except the page column and the rebuild of the text index.  Several      *)
(* programs may open one file, and any may crash in the middle.            *)
(*                                                                         *)
(* One searchable table stands for the five.  Rows are inserted, never     *)
(* changed, and an entry of the index is raw text or segmented text.       *)
(***************************************************************************)
EXTENDS Naturals, FiniteSets

CONSTANTS
    Openers,
    Rows,
    Files,      \* the files there may be at first
    MaxCrashes  \* bound

VARIABLES
    db,         \* cols: columns; trig, twin: triggers by their two names;
                \* index: entries; rows; ver: text version; jidx; stamped
    opener,     \* opener[o]: pc, and missing: the columns it saw missing
    torn,       \* history: a crash between dropping triggers and rebuilding,
                \* while another program had or would have a current index
    bootCrashes

bootVars == <<db, opener, torn, bootCrashes>>

Columns == {"metadata", "atom_id", "mutation_version"}
NoEntry == [raw |-> 0, seg |-> 0]
(* A file is stamped with the text version when its index is rebuilt.      *)
IndexedWhole(f) ==
    /\ f.trig = "seg" /\ f.twin = "none"
    /\ \A r \in f.rows : f.index[r] = [raw |-> 0, seg |-> 1]

FileType ==
    [cols : SUBSET Columns, trig : {"none", "raw", "seg"}, twin : {"none", "raw"},
     index : [Rows -> [raw : Nat, seg : Nat]], rows : SUBSET Rows, ver : Nat,
     jidx : {"none", "plain", "partial"}, stamped : BOOLEAN, tables : BOOLEAN]
FilesAssumption ==
    Files \subseteq FileType /\ \A f \in Files : f.ver = 2 => IndexedWhole(f)

Closed == [pc |-> "closed", missing |-> {}, alone |-> TRUE]

Init ==
    /\ db \in Files
    /\ opener = [o \in Openers |-> Closed]
    /\ torn = FALSE
    /\ bootCrashes = 0

Booting(o) == opener[o].pc \notin {"closed", "open", "failed"}
Rebuilding(o) == opener[o].pc \in {"create", "rebuild"}

At(o, pc) == opener[o].pc = pc
Goes(o, pc) == opener' = [opener EXCEPT ![o].pc = pc]

-----------------------------------------------------------------------------

Open(o) ==
    /\ opener[o].pc \in {"closed", "failed"}
    /\ opener' = [p \in Openers |->
         IF p = o THEN [Closed EXCEPT !.pc = "tables",
                                      !.alone = \A q \in Openers : ~Booting(q)]
         ELSE IF Booting(p) THEN [opener[p] EXCEPT !.alone = FALSE]
         ELSE opener[p]]
    /\ UNCHANGED <<db, torn, bootCrashes>>

(* CREATE TABLE, INDEX and TRIGGER IF NOT EXISTS: what is there stays.     *)
WithTables(file) ==
    [file EXCEPT !.tables = TRUE, !.cols = IF file.tables THEN @ ELSE Columns]

WithIndexes(file) ==
    [file EXCEPT !.jidx = IF @ = "none" THEN "plain" ELSE @,
                 !.trig = IF @ = "none" THEN "seg" ELSE @]

CreateTables(o) ==
    /\ At(o, "tables")
    /\ db' = WithIndexes(WithTables(db))
    /\ Goes(o, "look")
    /\ UNCHANGED <<torn, bootCrashes>>

(* Defect: the stamp is asked, not the columns.                            *)
LookAtStamp(o) ==
    /\ At(o, "look")
    /\ opener' = [opener EXCEPT ![o].pc = "alter",
                    ![o].missing = IF db.stamped THEN {} ELSE {"metadata", "atom_id"}]
    /\ UNCHANGED <<db, torn, bootCrashes>>

LookAtNodes(o) ==
    /\ At(o, "look")
    /\ opener' = [opener EXCEPT ![o].pc = "alter",
                    ![o].missing = {"metadata", "atom_id"} \ db.cols]
    /\ UNCHANGED <<db, torn, bootCrashes>>

(* ALTER TABLE ADD COLUMN fails when another opener was first.             *)
AddColumn(o) ==
    /\ At(o, "alter")
    /\ IF opener[o].missing = {}
       THEN Goes(o, "page") /\ UNCHANGED db
       ELSE LET col == IF "metadata" \in opener[o].missing THEN "metadata"
                                                          ELSE "atom_id"
            IN  IF col \in db.cols
                THEN Goes(o, "failed") /\ UNCHANGED db
                ELSE /\ db' = [db EXCEPT !.cols = @ \cup {col}]
                     /\ opener' = [opener EXCEPT ![o].missing = @ \ {col}]
    /\ UNCHANGED <<torn, bootCrashes>>

(* BEGIN IMMEDIATE: looking and altering are one step.                     *)
AddPageColumn(o) ==
    /\ At(o, "page")
    /\ db' = [db EXCEPT !.cols = @ \cup {"mutation_version"}]
    /\ Goes(o, "version")
    /\ UNCHANGED <<torn, bootCrashes>>

ReadTextVersion(o) ==
    /\ At(o, "version")
    /\ Goes(o, IF db.ver = 2 THEN "journal" ELSE "drop")
    /\ UNCHANGED <<db, torn, bootCrashes>>

(* Defect: only the names that _init_schema uses are dropped.              *)
DropNamed(o) ==
    /\ At(o, "drop")
    /\ db' = [db EXCEPT !.trig = "none"]
    /\ Goes(o, "create")
    /\ UNCHANGED <<torn, bootCrashes>>

DropTriggers(o) ==
    /\ At(o, "drop")
    /\ db' = [db EXCEPT !.trig = "none", !.twin = "none"]
    /\ Goes(o, "create")
    /\ UNCHANGED <<torn, bootCrashes>>

CreateTriggers(o) ==
    /\ At(o, "create")
    /\ db' = [db EXCEPT !.trig = IF @ = "none" THEN "seg" ELSE @]
    /\ Goes(o, "rebuild")
    /\ UNCHANGED <<torn, bootCrashes>>

(* One transaction: 'delete-all', every row again, the version.            *)
Rebuild(o) ==
    /\ At(o, "rebuild")
    /\ db' = [db EXCEPT !.ver = 2,
                        !.index = [r \in Rows |->
                            IF r \in db.rows THEN [raw |-> 0, seg |-> 1] ELSE NoEntry]]
    /\ Goes(o, "journal")
    /\ UNCHANGED <<torn, bootCrashes>>

DropJournalIndex(o) ==
    /\ At(o, "journal")
    /\ IF db.jidx = "partial" THEN Goes(o, "stamp") /\ UNCHANGED db
       ELSE Goes(o, "index") /\ db' = [db EXCEPT !.jidx = "none"]
    /\ UNCHANGED <<torn, bootCrashes>>

(* CREATE INDEX fails when another opener was first.                       *)
CreateJournalIndex(o) ==
    /\ At(o, "index")
    /\ IF db.jidx = "none" THEN Goes(o, "stamp") /\ db' = [db EXCEPT !.jidx = "partial"]
                           ELSE Goes(o, "failed") /\ UNCHANGED db
    /\ UNCHANGED <<torn, bootCrashes>>

StampSchema(o) ==
    /\ At(o, "stamp")
    /\ db' = [db EXCEPT !.stamped = TRUE]
    /\ Goes(o, "open")
    /\ UNCHANGED <<torn, bootCrashes>>

-----------------------------------------------------------------------------

(* A row written through an open backend; the triggers index it.           *)
Insert(o, r) ==
    LET raw == (IF db.trig = "raw" THEN 1 ELSE 0) + (IF db.twin = "raw" THEN 1 ELSE 0)
        seg == IF db.trig = "seg" THEN 1 ELSE 0
    IN  /\ At(o, "open") /\ r \notin db.rows
        /\ db' = [db EXCEPT !.rows = @ \cup {r},
                            !.index[r] = [raw |-> raw, seg |-> seg]]
        /\ UNCHANGED <<opener, torn, bootCrashes>>

Close(o) == At(o, "open") /\ Goes(o, "closed") /\ UNCHANGED <<db, torn, bootCrashes>>

Crash(o) ==
    /\ Booting(o) /\ bootCrashes < MaxCrashes
    /\ bootCrashes' = bootCrashes + 1
    /\ opener' = [opener EXCEPT ![o] = Closed]
    /\ torn' = (torn \/ (Rebuilding(o) /\ (db.ver = 2 \/ \E p \in Openers \ {o} : Booting(p))))
    /\ UNCHANGED db

Next ==
    \E o \in Openers :
        \/ Open(o) \/ CreateTables(o) \/ LookAtNodes(o) \/ AddColumn(o)
        \/ AddPageColumn(o) \/ ReadTextVersion(o) \/ DropTriggers(o)
        \/ CreateTriggers(o) \/ Rebuild(o) \/ DropJournalIndex(o)
        \/ CreateJournalIndex(o) \/ StampSchema(o)
        \/ Close(o) \/ Crash(o)
        \/ \E r \in Rows : Insert(o, r)

Spec == Init /\ [][Next]_bootVars

-----------------------------------------------------------------------------
(* Properties.                                                             *)

(* While a program has the store open and none rebuilds the index, every   *)
(* row is in the text index once, segmented: whatever version, triggers or *)
(* half-done migration the file had, and however openers interleaved.      *)
IndexedOnce ==
    (/\ \E o \in Openers : At(o, "open")
     /\ \A o \in Openers : ~Rebuilding(o)
     /\ ~torn)
    => \A r \in db.rows : db.index[r] = [raw |-> 0, seg |-> 1]

(* Opening fails only against another opener at work: no crash leaves a    *)
(* file that a later open chokes on.                                       *)
SoleOpenerSucceeds ==
    \A o \in Openers : At(o, "failed") => ~opener[o].alone

=============================================================================
