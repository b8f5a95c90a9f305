----------------------------- MODULE HostFiles -----------------------------
(***************************************************************************)
(* The index of the files a host or a user writes beside the memory.  A    *)
(* scan looks at the size and time of each file, reads what the index has, *)
(* reads and stores the files that differ, and deletes the rows of those   *)
(* that are gone.  Files change meanwhile, and scans overlap: a thread     *)
(* polls, a request scans, and another process has its own thread.         *)
(*                                                                         *)
(* A version stands for the size and time of a file, and for its text: a   *)
(* change of a file gives it the next number.                              *)
(***************************************************************************)
EXTENDS Naturals

CONSTANTS
    Paths,
    Pollers,    \* the polling threads, one in each process
    Requests,   \* requests that scan at once
    Kinds,      \* what a file can be: "text", "binary" or "locked", unreadable
    MaxEdits,   \* bound on the changes of files
    MaxStops    \* bound on scans cut short

FilesAssumption ==
    MaxEdits \in Nat /\ MaxStops \in Nat /\ Kinds \subseteq {"text", "binary", "locked"}

VARIABLES
    disk,       \* disk[p]: kind (or "none"), ver
    row,        \* row[p]: ver, the size and time stored; body; 0 for no row
    scan,       \* scan[s]: pc; todo, paths; seen, the versions found (0 for
                \* none); gone, rows to delete; file and body, while written
    clock,      \* the number of changes so far
    stops

fileVars == <<disk, row, scan, clock, stops>>

Scanners == Pollers \cup Requests

NoRow == [ver |-> 0, body |-> 0]
AtRest(some) == [pc |-> "rest", todo |-> {}, seen |-> [p \in Paths |-> 0], gone |-> {},
                 file |-> some, body |-> 0]
Idle == AtRest(CHOOSE p \in Paths : TRUE)

Init ==
    /\ disk = [p \in Paths |-> [kind |-> "none", ver |-> 0]]
    /\ row = [p \in Paths |-> NoRow]
    /\ scan = [s \in Scanners |-> Idle]
    /\ clock = 0 /\ stops = 0

Goes(s, next) == scan' = [scan EXCEPT ![s] = next]

-----------------------------------------------------------------------------
(* The host and its user.                                                  *)

Edit(p, kind) ==
    /\ clock < MaxEdits /\ clock' = clock + 1
    /\ disk' = [disk EXCEPT ![p] = [kind |-> kind, ver |-> clock']]
    /\ UNCHANGED <<row, scan, stops>>

Remove(p) ==
    /\ disk[p].kind # "none"
    /\ disk' = [disk EXCEPT ![p].kind = "none"]
    /\ UNCHANGED <<row, scan, clock, stops>>

-----------------------------------------------------------------------------
(* scan_once.                                                              *)

Begin(s) ==
    /\ scan[s].pc = "rest"
    /\ Goes(s, [Idle EXCEPT !.pc = "stat", !.todo = Paths])
    /\ UNCHANGED <<disk, row, clock, stops>>

Stat(s, p) ==
    /\ scan[s].pc = "stat" /\ p \in scan[s].todo
    /\ Goes(s, [scan[s] EXCEPT !.todo = @ \ {p},
                  !.seen[p] = IF disk[p].kind = "none" THEN 0 ELSE disk[p].ver])
    /\ UNCHANGED <<disk, row, clock, stops>>

ReadIndex(s) ==
    /\ scan[s].pc = "stat" /\ scan[s].todo = {}
    /\ LET seen == scan[s].seen
       IN  Goes(s, [scan[s] EXCEPT !.pc = "sync",
                      !.todo = {p \in Paths : seen[p] # 0 /\ row[p].ver # seen[p]},
                      !.gone = {p \in Paths : seen[p] = 0 /\ row[p].ver # 0}])
    /\ UNCHANGED <<disk, row, clock, stops>>

(* Defect: a file that is no text ends the scan.                           *)
ReadStrict(s, p) ==
    /\ scan[s].pc = "sync" /\ p \in scan[s].todo
    /\ Goes(s, IF disk[p].kind = "text"
               THEN [scan[s] EXCEPT !.pc = "write", !.file = p, !.body = disk[p].ver]
               ELSE Idle)
    /\ UNCHANGED <<disk, row, clock, stops>>

(* A file that is no text is passed over, its row left as it is; one that  *)
(* is gone or cannot be read raises, which ends the scan.                  *)
Read(s, p) ==
    /\ scan[s].pc = "sync" /\ p \in scan[s].todo
    /\ Goes(s, CASE disk[p].kind = "text" ->
                      [scan[s] EXCEPT !.pc = "write", !.file = p, !.body = disk[p].ver]
                 [] disk[p].kind = "binary" -> [scan[s] EXCEPT !.todo = @ \ {p}]
                 [] OTHER -> Idle)
    /\ UNCHANGED <<disk, row, clock, stops>>

(* Defect: size and time are those of the moment of the write.             *)
WriteRestated(s) ==
    /\ scan[s].pc = "write"
    /\ row' = [row EXCEPT ![scan[s].file] =
                 [ver |-> disk[scan[s].file].ver, body |-> scan[s].body]]
    /\ Goes(s, [scan[s] EXCEPT !.pc = "sync", !.todo = @ \ {scan[s].file}])
    /\ UNCHANGED <<disk, clock, stops>>

(* The row gets the size and time seen before the text was read.           *)
Write(s) ==
    /\ scan[s].pc = "write"
    /\ row' = [row EXCEPT ![scan[s].file] =
                 [ver |-> scan[s].seen[scan[s].file], body |-> scan[s].body]]
    /\ Goes(s, [scan[s] EXCEPT !.pc = "sync", !.todo = @ \ {scan[s].file}])
    /\ UNCHANGED <<disk, clock, stops>>

Purge(s) ==
    /\ scan[s].pc = "sync" /\ scan[s].todo = {}
    /\ row' = [p \in Paths |-> IF p \in scan[s].gone THEN NoRow ELSE row[p]]
    /\ Goes(s, Idle)
    /\ UNCHANGED <<disk, clock, stops>>

(* The index is closed under a running scan, or the process ends; a later  *)
(* process scans again.                                                    *)
Stop(s) ==
    /\ scan[s].pc # "rest" /\ stops < MaxStops
    /\ stops' = stops + 1
    /\ Goes(s, Idle)
    /\ UNCHANGED <<disk, row, clock>>

ScanStep(s) ==
    \/ Begin(s) \/ ReadIndex(s) \/ Write(s) \/ Purge(s)
    \/ \E p \in Paths : Stat(s, p) \/ Read(s, p)

Next ==
    \/ \E p \in Paths : Remove(p) \/ \E kind \in Kinds : Edit(p, kind)
    \/ \E s \in Scanners : ScanStep(s) \/ Stop(s)

(* A thread polls for as long as its process lives.                        *)
Fairness == \A s \in Pollers : WF_fileVars(ScanStep(s))

Spec == Init /\ [][Next]_fileVars /\ Fairness

-----------------------------------------------------------------------------
(* Properties.                                                             *)

(* A row that the next scan would leave alone has the text of its file:    *)
(* no order of edits and overlapping scans makes an old text stay.         *)
UnchangedIsCurrent ==
    \A p \in Paths :
        disk[p].kind # "none" /\ row[p].ver # 0 /\ row[p].ver = disk[p].ver
            => row[p].body = disk[p].ver

(* Once the files are left alone, and all can be read, the index comes to  *)
(* hold the texts and no others, save the old text of a file that became   *)
(* binary.                                                                 *)
Shows(p) ==
    CASE disk[p].kind = "text" -> row[p].body = disk[p].ver
      [] disk[p].kind = "none" -> row[p] = NoRow
      [] OTHER -> TRUE
IndexCatchesUp ==
    <>[](\A p \in Paths : disk[p].kind # "locked") => <>[](\A p \in Paths : Shows(p))

(* One file that cannot be read does not keep the others out.  Not so: it  *)
(* ends every scan, before or after the others had their turn.             *)
OthersCatchUp ==
    <>[](\A p \in Paths : disk[p].kind \in {"text", "locked"} => Shows(p))

=============================================================================
