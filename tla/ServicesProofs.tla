--------------------------- MODULE ServicesProofs ---------------------------
(***************************************************************************)
(* What hosts and users are promised, for every number of rows, files,     *)
(* packages, queries and events.  The models share no variable, so each    *)
(* has an invariant of its own, which the steps of the others leave alone. *)
(***************************************************************************)
EXTENDS Services, FiniteSetTheorems, WellFoundedInduction, TLAPS

-----------------------------------------------------------------------------
(***************************************************************************)
(* HostFiles.  The argument is one of order: what a scan saw of a file is  *)
(* no newer than what it read, which is no newer than the file.  So        *)
(* neither is a row; and a row whose time is that of the file holds the    *)
(* file's text.                                                            *)
(***************************************************************************)

(* The local state of a scan.                                              *)
FileScan ==
    [pc : {"rest", "stat", "sync", "write"}, todo : SUBSET Paths, seen : [Paths -> Nat],
     gone : SUBSET Paths, file : Paths \cup {Files!Idle.file}, body : Nat]

(* Files, rows and scans keep their shape.                                 *)
FilesShape ==
    /\ files \in [Paths -> [kind : Kinds \cup {"none"}, ver : Nat]]
    /\ row \in [Paths -> [ver : Nat, body : Nat]]
    /\ scan \in [Files!Scanners -> FileScan]
    /\ clock \in Nat

(* Every change of a file is counted.                                      *)
FilesCounted == \A p \in Paths : files[p].ver <= clock

(* The time of a row is no newer than its text, nor that than the file.    *)
RowsOrdered == \A p \in Paths : row[p].ver <= row[p].body /\ row[p].body <= files[p].ver

(* Nor is what a scan saw newer than the file, or than the text it read.   *)
ScansOrdered ==
    \A s \in Files!Scanners :
        /\ \A p \in Paths : scan[s].seen[p] <= files[p].ver
        /\ scan[s].pc = "write" =>
             /\ scan[s].file \in Paths
             /\ scan[s].seen[scan[s].file] <= scan[s].body
             /\ scan[s].body <= files[scan[s].file].ver

FilesInv == FilesShape /\ FilesCounted /\ RowsOrdered /\ ScansOrdered

(* A scanner at rest has seen nothing.                                     *)
LEMMA FilesIdle == Files!Idle \in FileScan /\ Files!Idle.pc = "rest" /\ \A p \in Paths : Files!Idle.seen[p] = 0
BY DEF Files!Idle, Files!AtRest, FileScan

(* The first state: no file, no row, no scan.                              *)
LEMMA FilesInit == Init => FilesInv
<1> SUFFICES ASSUME Init PROVE FilesInv
  OBVIOUS
<1>1. FilesShape
  BY FilesIdle DEF Init, Files!Init, FilesShape, Files!NoRow
<1>2. FilesCounted /\ RowsOrdered
  BY DEF Init, Files!Init, FilesCounted, RowsOrdered, Files!NoRow
<1>3. ScansOrdered
  BY FilesIdle DEF Init, Files!Init, ScansOrdered
<1> QED
  BY <1>1, <1>2, <1>3 DEF FilesInv

(* A step of one scan that leaves files and rows alone keeps the invariant *)
(* when what the scan now holds is in order.                               *)
LEMMA ScanMoves ==
  ASSUME FilesInv, NEW s \in Files!Scanners, NEW next \in FileScan, Files!Goes(s, next),
         UNCHANGED <<files, row, clock>>,
         \A p \in Paths : next.seen[p] <= files[p].ver,
         next.pc = "write" => /\ next.file \in Paths
                              /\ next.seen[next.file] <= next.body
                              /\ next.body <= files[next.file].ver
  PROVE  FilesInv'
<1>1. FilesShape'
  BY DEF FilesInv, FilesShape, Files!Goes
<1>2. FilesCounted' /\ RowsOrdered'
  BY DEF FilesInv, FilesCounted, RowsOrdered
<1>3. ScansOrdered'
  <2> SUFFICES ASSUME NEW t \in Files!Scanners
               PROVE  /\ \A p \in Paths : scan'[t].seen[p] <= files[p].ver
                      /\ scan'[t].pc = "write" =>
                           /\ scan'[t].file \in Paths
                           /\ scan'[t].seen[scan'[t].file] <= scan'[t].body
                           /\ scan'[t].body <= files[scan'[t].file].ver
    BY DEF ScansOrdered
  <2>1. scan'[t] = IF t = s THEN next ELSE scan[t]
    BY DEF FilesInv, FilesShape, Files!Goes
  <2>2. CASE t = s
    BY <2>1, <2>2
  <2>3. CASE t # s
    BY <2>1, <2>3 DEF FilesInv, ScansOrdered
  <2> QED
    BY <2>2, <2>3
<1> QED
  BY <1>1, <1>2, <1>3 DEF FilesInv

(* Giving up a scan leaves nothing out of order.                           *)
LEMMA ScanEnds ==
  ASSUME FilesInv, NEW s \in Files!Scanners, Files!Goes(s, Files!Idle), UNCHANGED <<files, row, clock>>
  PROVE  FilesInv'
<1>1. \A p \in Paths : Files!Idle.seen[p] <= files[p].ver
  BY FilesIdle DEF FilesInv, FilesShape
<1> QED
  BY <1>1, ScanMoves, FilesIdle

(* A change of a file makes it newer than all that was seen of it.         *)
LEMMA EditInv ==
  ASSUME FilesInv, NEW p \in Paths, NEW kind \in Kinds, Files!Edit(p, kind)
  PROVE  FilesInv'
<1>1. clock \in Nat /\ clock' = clock + 1 /\ clock' \in Nat
  BY DEF Files!Edit, FilesInv, FilesShape
<1>2. \A q \in Paths : files'[q] = IF q = p THEN [kind |-> kind, ver |-> clock'] ELSE files[q]
  BY DEF Files!Edit, FilesInv, FilesShape
<1>3. \A q \in Paths : files[q].ver \in Nat /\ files[q].ver <= clock
  BY DEF FilesInv, FilesShape, FilesCounted
<1>4. \A q \in Paths : /\ files'[q].ver \in Nat
                       /\ files[q].ver <= files'[q].ver
                       /\ files'[q].ver <= clock'
  BY <1>1, <1>2, <1>3
<1>5. FilesShape'
  BY <1>1 DEF Files!Edit, FilesInv, FilesShape
<1>6. FilesCounted'
  BY <1>4 DEF FilesCounted
<1>7. RowsOrdered'
  BY <1>3, <1>4 DEF Files!Edit, FilesInv, FilesShape, RowsOrdered
<1>8. ScansOrdered'
  <2> SUFFICES ASSUME NEW t \in Files!Scanners
               PROVE  /\ \A q \in Paths : scan[t].seen[q] <= files'[q].ver
                      /\ scan[t].pc = "write" =>
                           /\ scan[t].file \in Paths
                           /\ scan[t].seen[scan[t].file] <= scan[t].body
                           /\ scan[t].body <= files'[scan[t].file].ver
    BY DEF ScansOrdered, Files!Edit
  <2>1. scan[t].seen \in [Paths -> Nat] /\ scan[t].body \in Nat
    BY DEF FilesInv, FilesShape, FileScan
  <2>2. \A q \in Paths : scan[t].seen[q] <= files[q].ver
    BY DEF FilesInv, ScansOrdered
  <2>3. ASSUME scan[t].pc = "write"
        PROVE  /\ scan[t].file \in Paths
               /\ scan[t].seen[scan[t].file] <= scan[t].body
               /\ scan[t].body <= files[scan[t].file].ver
    BY <2>3 DEF FilesInv, ScansOrdered
  <2> QED
    BY <1>3, <1>4, <2>1, <2>2, <2>3
<1> QED
  BY <1>5, <1>6, <1>7, <1>8 DEF FilesInv

(* Deleting a file leaves its number as it was.                            *)
LEMMA RemoveInv ==
  ASSUME FilesInv, NEW p \in Paths, Files!Remove(p)
  PROVE  FilesInv'
<1>1. \A q \in Paths : files'[q].ver = files[q].ver
  BY DEF Files!Remove, FilesInv, FilesShape
<1>2. files' \in [Paths -> [kind : Kinds \cup {"none"}, ver : Nat]]
  BY DEF Files!Remove, FilesInv, FilesShape
<1>3. FilesShape' /\ FilesCounted' /\ RowsOrdered'
  BY <1>1, <1>2 DEF Files!Remove, FilesInv, FilesShape, FilesCounted, RowsOrdered
<1>4. ScansOrdered'
  BY <1>1 DEF Files!Remove, FilesInv, ScansOrdered
<1> QED
  BY <1>3, <1>4 DEF FilesInv

(* What stat finds is the number of the file at that moment.               *)
LEMMA StatInv ==
  ASSUME FilesInv, NEW s \in Files!Scanners, NEW p \in Paths, Files!Stat(s, p)
  PROVE  FilesInv'
<1> DEFINE found == IF files[p].kind = "none" THEN 0 ELSE files[p].ver
           next == [scan[s] EXCEPT !.todo = @ \ {p}, !.seen[p] = found]
<1>1. Files!Goes(s, next) /\ UNCHANGED <<files, row, clock>> /\ scan[s].pc = "stat"
  BY DEF Files!Stat
<1>2. scan[s] \in FileScan /\ files[p].ver \in Nat /\ found \in Nat /\ found <= files[p].ver
  BY DEF FilesInv, FilesShape
<1>3. next \in FileScan /\ next.pc = "stat"
  BY <1>1, <1>2 DEF FileScan
<1>4. \A q \in Paths : next.seen[q] = IF q = p THEN found ELSE scan[s].seen[q]
  BY <1>2 DEF FileScan
<1> HIDE DEF next, found
<1>5. \A q \in Paths : next.seen[q] <= files[q].ver
  BY <1>2, <1>4 DEF FilesInv, ScansOrdered
<1> QED
  BY <1>1, <1>3, <1>5, ScanMoves

(* A text read after the stat is that of the file, or of a newer one.      *)
LEMMA ReadInv ==
  ASSUME FilesInv, NEW s \in Files!Scanners, NEW p \in Paths, Files!Read(s, p)
  PROVE  FilesInv'
<1> DEFINE reads == [scan[s] EXCEPT !.pc = "write", !.file = p, !.body = files[p].ver]
           skips == [scan[s] EXCEPT !.todo = @ \ {p}]
<1>1. UNCHANGED <<files, row, clock>> /\ scan[s].pc = "sync"
  BY DEF Files!Read
<1>2. /\ scan[s] \in FileScan
      /\ files[p].ver \in Nat
      /\ \A q \in Paths : scan[s].seen[q] <= files[q].ver
  BY DEF FilesInv, FilesShape, ScansOrdered
<1>3. Files!Goes(s, reads) \/ Files!Goes(s, skips) \/ Files!Goes(s, Files!Idle)
  BY DEF Files!Read
<1>4. CASE Files!Goes(s, reads)
  <2>1. /\ reads \in FileScan
        /\ reads.seen = scan[s].seen /\ reads.file = p /\ reads.body = files[p].ver
    BY <1>2 DEF FileScan
  <2>2. reads.seen[reads.file] <= reads.body /\ reads.body <= files[reads.file].ver
    BY <1>2, <2>1
  <2> HIDE DEF reads
  <2> QED
    BY <1>1, <1>2, <1>4, <2>1, <2>2, ScanMoves
<1>5. CASE Files!Goes(s, skips)
  <2>1. skips \in FileScan /\ skips.seen = scan[s].seen /\ skips.pc = "sync"
    BY <1>1, <1>2 DEF FileScan
  <2> HIDE DEF skips
  <2> QED
    BY <1>1, <1>2, <1>5, <2>1, ScanMoves
<1>6. CASE Files!Goes(s, Files!Idle)
  BY <1>1, <1>6, ScanEnds
<1> QED
  BY <1>3, <1>4, <1>5, <1>6

(* Reading the index changes only what the scan means to do.               *)
LEMMA ReadIndexInv ==
  ASSUME FilesInv, NEW s \in Files!Scanners, Files!ReadIndex(s)
  PROVE  FilesInv'
<1> DEFINE todo == {p \in Paths : scan[s].seen[p] # 0 /\ row[p].ver # scan[s].seen[p]}
           left == {p \in Paths : scan[s].seen[p] = 0 /\ row[p].ver # 0}
           next == [scan[s] EXCEPT !.pc = "sync", !.todo = todo, !.gone = left]
<1>1. Files!Goes(s, next) /\ UNCHANGED <<files, row, clock>>
  BY DEF Files!ReadIndex
<1>2. scan[s] \in FileScan /\ \A q \in Paths : scan[s].seen[q] <= files[q].ver
  BY DEF FilesInv, FilesShape, ScansOrdered
<1>3. next \in FileScan /\ next.seen = scan[s].seen /\ next.pc = "sync"
  BY <1>2 DEF FileScan
<1> HIDE DEF next
<1> QED
  BY <1>1, <1>2, <1>3, ScanMoves

(* A scan begins having seen nothing.                                      *)
LEMMA BeginInv ==
  ASSUME FilesInv, NEW s \in Files!Scanners, Files!Begin(s)
  PROVE  FilesInv'
<1> DEFINE next == [Files!Idle EXCEPT !.pc = "stat", !.todo = Paths]
<1>1. Files!Goes(s, next) /\ UNCHANGED <<files, row, clock>>
  BY DEF Files!Begin
<1>2. next \in FileScan /\ next.seen = Files!Idle.seen /\ next.pc = "stat"
  BY DEF Files!Idle, Files!AtRest, FileScan
<1>3. \A q \in Paths : next.seen[q] <= files[q].ver
  BY <1>2, FilesIdle DEF FilesInv, FilesShape
<1> HIDE DEF next
<1> QED
  BY <1>1, <1>2, <1>3, ScanMoves

(* The rows may change under scans that stay as they are, while they are   *)
(* in order.                                                               *)
LEMMA RowsMove ==
  ASSUME FilesInv, NEW s \in Files!Scanners, NEW next \in FileScan, Files!Goes(s, next),
         UNCHANGED <<files, clock>>, next.seen = scan[s].seen \/ next = Files!Idle, next.pc # "write",
         row' \in [Paths -> [ver : Nat, body : Nat]], RowsOrdered'
  PROVE  FilesInv'
<1>1. FilesShape' /\ FilesCounted'
  BY DEF FilesInv, FilesShape, FilesCounted, Files!Goes
<1>2. ScansOrdered'
  <2> SUFFICES ASSUME NEW t \in Files!Scanners
               PROVE  /\ \A p \in Paths : scan'[t].seen[p] <= files[p].ver
                      /\ scan'[t].pc = "write" =>
                           /\ scan'[t].file \in Paths
                           /\ scan'[t].seen[scan'[t].file] <= scan'[t].body
                           /\ scan'[t].body <= files[scan'[t].file].ver
    BY DEF ScansOrdered
  <2>1. scan'[t] = IF t = s THEN next ELSE scan[t]
    BY DEF FilesInv, FilesShape, Files!Goes
  <2>2. \A p \in Paths : next.seen[p] <= files[p].ver
    BY FilesIdle DEF FilesInv, FilesShape, ScansOrdered
  <2>3. CASE t = s
    BY <2>1, <2>2, <2>3
  <2>4. CASE t # s
    BY <2>1, <2>4 DEF FilesInv, ScansOrdered
  <2> QED
    BY <2>3, <2>4
<1> QED
  BY <1>1, <1>2 DEF FilesInv

(* A row is written with what was seen first and what was read after.      *)
LEMMA WriteInv ==
  ASSUME FilesInv, NEW s \in Files!Scanners, Files!Write(s)
  PROVE  FilesInv'
<1> DEFINE f == scan[s].file
           next == [scan[s] EXCEPT !.pc = "sync", !.todo = @ \ {f}]
<1>1. /\ Files!Goes(s, next) /\ UNCHANGED <<files, clock>>
      /\ row' = [row EXCEPT ![f] = [ver |-> scan[s].seen[f], body |-> scan[s].body]]
  BY DEF Files!Write
<1>2. /\ scan[s] \in FileScan
      /\ f \in Paths /\ scan[s].seen[f] <= scan[s].body /\ scan[s].body <= files[f].ver
  BY DEF Files!Write, FilesInv, FilesShape, ScansOrdered
<1>3. next \in FileScan /\ next.seen = scan[s].seen /\ next.pc = "sync"
  BY <1>2 DEF FileScan
<1>4. scan[s].seen[f] \in Nat /\ scan[s].body \in Nat
  BY <1>2 DEF FileScan
<1>5. row' \in [Paths -> [ver : Nat, body : Nat]]
  BY <1>1, <1>2, <1>4 DEF FilesInv, FilesShape
<1>6. \A p \in Paths : row'[p] = IF p = f THEN [ver |-> scan[s].seen[f], body |-> scan[s].body]
                                          ELSE row[p]
  BY <1>1 DEF FilesInv, FilesShape
<1>7. RowsOrdered'
  BY <1>1, <1>2, <1>6 DEF FilesInv, RowsOrdered
<1> HIDE DEF next
<1> QED
  BY <1>1, <1>3, <1>5, <1>7, RowsMove

(* A deleted row is in order with any file.                                *)
LEMMA PurgeInv ==
  ASSUME FilesInv, NEW s \in Files!Scanners, Files!Purge(s)
  PROVE  FilesInv'
<1>1. /\ Files!Goes(s, Files!Idle) /\ UNCHANGED <<files, clock>>
      /\ row' = [p \in Paths |-> IF p \in scan[s].gone THEN Files!NoRow ELSE row[p]]
  BY DEF Files!Purge
<1>2. row' \in [Paths -> [ver : Nat, body : Nat]]
  BY <1>1 DEF FilesInv, FilesShape, Files!NoRow
<1>3. RowsOrdered'
  BY <1>1 DEF FilesInv, FilesShape, RowsOrdered, Files!NoRow
<1> QED
  BY <1>1, <1>2, <1>3, FilesIdle, RowsMove

(* Every step keeps the invariant.                                         *)
LEMMA FilesStep == FilesInv /\ [Next]_serviceVars => FilesInv'
<1> SUFFICES ASSUME FilesInv, [Next]_serviceVars PROVE FilesInv'
  OBVIOUS
<1>1. ASSUME NEW p \in Paths, Files!Remove(p) PROVE FilesInv'
  BY <1>1, RemoveInv
<1>2. ASSUME NEW p \in Paths, NEW kind \in Kinds, Files!Edit(p, kind) PROVE FilesInv'
  BY <1>2, EditInv
<1>3. ASSUME NEW s \in Files!Scanners, Files!ScanStep(s) PROVE FilesInv'
  BY <1>3, BeginInv, ReadIndexInv, WriteInv, PurgeInv, StatInv, ReadInv DEF Files!ScanStep
<1>4. ASSUME NEW s \in Files!Scanners, Files!Stop(s) PROVE FilesInv'
  BY <1>4, ScanEnds DEF Files!Stop
<1>5. CASE UNCHANGED fileVars
  BY <1>5 DEF fileVars, FilesInv, FilesShape, FilesCounted, RowsOrdered, ScansOrdered
<1> QED
  BY <1>1, <1>2, <1>3, <1>4, <1>5 DEF Next, serviceVars, Files!Next

(* A row that the next scan would leave alone has the text of its file,    *)
(* however edits, polls and requests overlap (host_files.py, scan_once).   *)
THEOREM FilesAreCurrent == Spec => []UnchangedIsCurrent
<1>1. FilesInv => UnchangedIsCurrent
  <2> SUFFICES ASSUME FilesInv, NEW p \in Paths, row[p].ver = files[p].ver
               PROVE  row[p].body = files[p].ver
    BY DEF UnchangedIsCurrent, Files!UnchangedIsCurrent
  <2>1. row[p].body \in Nat /\ files[p].ver \in Nat
    BY DEF FilesInv, FilesShape
  <2>2. row[p].ver <= row[p].body /\ row[p].body <= files[p].ver
    BY DEF FilesInv, RowsOrdered
  <2> QED
    BY <2>1, <2>2
<1> QED
  BY FilesInit, FilesStep, <1>1, PTL DEF Spec

-----------------------------------------------------------------------------
(***************************************************************************)
(* BundleTransfer.  The rows an adoption on record claims are there or      *)
(* purged, in what is read and in the main file alone, as the log holds     *)
(* both or neither; the same is so of the running import's backup, and      *)
(* until the log moves the main file is that backup.  So a restore takes a   *)
(* record with its rows.                                                    *)
(***************************************************************************)

Claimed(J, S) == \A j \in J : j.rows \ j.failed \subseteq S

\* A namespace: what is read, its journal, its main file, what it purged.
Sound(S, J, M, G) ==
    /\ Claimed(J, S \cup G) /\ Claimed(M.journal, M.rows \cup G)
    /\ M.rows \ S \subseteq G /\ M.journal \subseteq J

\* An import into such a namespace.
Imports(v, S, J, M, G) ==
    /\ v = [at |-> v.at, into |-> v.into, pack |-> v.pack, todo |-> v.todo, failed |-> v.failed,
            backup |-> v.backup]
    /\ (v.pack.rows \ v.todo) \ v.failed \subseteq S \cup G
    /\ v.at = "import" => /\ Claimed(v.backup.journal, v.backup.rows \cup G)
                          /\ J \subseteq M.journal \/ M = v.backup
    /\ v.at = "done" => v.todo = {}

Functions(s, j, m, g) == /\ s = [n \in Names |-> s[n]] /\ j = [n \in Names |-> j[n]]
                         /\ m = [n \in Names |-> m[n]] /\ g = [n \in Names |-> g[n]]

Importer == adopter.at \in {"import", "done"}

BundleInv ==
    /\ Functions(store, journal, main, purged)
    /\ \A n \in Names : Sound(store[n], journal[n], main[n], purged[n])
    /\ Importer => /\ adopter.into \in Names
                   /\ Imports(adopter, store[adopter.into], journal[adopter.into],
                              main[adopter.into], purged[adopter.into])

LEMMA BundleInit == Init => BundleInv
<1> SUFFICES ASSUME Init PROVE BundleInv
  OBVIOUS
<1>1. adopter.at = "idle"
  BY DEF Init, Bundle!Init, Bundle!Idle
<1>2. /\ store = [n \in Names |-> {}] /\ journal = [n \in Names |-> {}]
      /\ main = [n \in Names |-> [rows |-> {}, journal |-> {}]] /\ purged = [n \in Names |-> {}]
  BY DEF Init, Bundle!Init, Bundle!Empty
<1>3. \A n \in Names : Sound(store[n], journal[n], main[n], purged[n])
  BY <1>2 DEF Sound, Claimed
<1> QED
  BY <1>1, <1>2, <1>3 DEF BundleInv, Importer, Functions

(* One namespace changes, and the import with it or not at all.             *)
LEMMA BundleChanges ==
  ASSUME BundleInv, NEW n \in Names, NEW S, NEW J, NEW M, NEW G, NEW v,
         store' = [store EXCEPT ![n] = S], journal' = [journal EXCEPT ![n] = J],
         main' = [main EXCEPT ![n] = M], purged' = [purged EXCEPT ![n] = G], adopter' = v,
         Sound(S, J, M, G),
         v.at \in {"import", "done"} =>
            IF v = adopter
            THEN v.into = n => Imports(v, S, J, M, G)
            ELSE v.into = n /\ Imports(v, S, J, M, G)
  PROVE  BundleInv'
<1>1. Functions(store', journal', main', purged')
  BY DEF BundleInv, Functions
<1>2. /\ store'[n] = S /\ journal'[n] = J /\ main'[n] = M /\ purged'[n] = G
      /\ \A m \in Names \ {n} : /\ store'[m] = store[m] /\ journal'[m] = journal[m]
                                /\ main'[m] = main[m] /\ purged'[m] = purged[m]
  BY DEF BundleInv, Functions
<1>3. \A m \in Names : Sound(store'[m], journal'[m], main'[m], purged'[m])
  BY <1>2 DEF BundleInv
<1>4. ASSUME v.at \in {"import", "done"}
      PROVE  /\ v.into \in Names
             /\ Imports(v, store'[v.into], journal'[v.into], main'[v.into], purged'[v.into])
  BY <1>2, <1>4 DEF BundleInv, Importer
<1>5. Importer' => /\ adopter'.into \in Names
                   /\ Imports(adopter', store'[adopter'.into], journal'[adopter'.into],
                              main'[adopter'.into], purged'[adopter'.into])
  BY <1>4 DEF Importer
<1> QED
  BY <1>1, <1>3, <1>5 DEF BundleInv, Sound, Imports, Claimed, Functions

LEMMA BundleHosts ==
  ASSUME BundleInv, NEW n \in Names,
         \/ \E r \in Bundle!Rows : Bundle!Promote(n, r)
         \/ \E a \in PackedAtoms : Bundle!Purge(n, a)
         \/ Bundle!MoveLog(n)
  PROVE  BundleInv'
<1>0. PICK S, J, M, G : /\ S = store[n] /\ J = journal[n] /\ M = main[n] /\ G = purged[n]
                        /\ Sound(S, J, M, G)
  BY DEF BundleInv
<1>1. Importer /\ adopter.into = n => Imports(adopter, S, J, M, G)
  BY <1>0 DEF BundleInv
<1>2. /\ store = [store EXCEPT ![n] = S] /\ journal = [journal EXCEPT ![n] = J]
      /\ main = [main EXCEPT ![n] = M] /\ purged = [purged EXCEPT ![n] = G]
  BY <1>0 DEF BundleInv, Functions
<1>3. ASSUME NEW r \in Bundle!Rows, Bundle!Promote(n, r)
      PROVE  BundleInv'
  <2>1. PICK T : T = S \cup {r, Owner[r]}
    OBVIOUS
  <2>2. /\ store' = [store EXCEPT ![n] = T] /\ UNCHANGED <<journal, main, purged, adopter>>
    BY <1>0, <1>3, <2>1 DEF Bundle!Promote
  <2>3. Sound(T, J, M, G)
    BY <1>0, <2>1 DEF Sound, Claimed
  <2>4. Importer /\ adopter.into = n => Imports(adopter, T, J, M, G)
    BY <1>1, <2>1 DEF Imports
  <2> QED
    BY <1>2, <2>2, <2>3, <2>4, BundleChanges DEF Importer
<1>4. ASSUME NEW a \in PackedAtoms, Bundle!Purge(n, a)
      PROVE  BundleInv'
  <2>1. PICK T, H : T = S \ {a} /\ H = G \cup {a}
    OBVIOUS
  <2>2. /\ store' = [store EXCEPT ![n] = T] /\ purged' = [purged EXCEPT ![n] = H]
        /\ UNCHANGED <<journal, main, adopter>>
    BY <1>0, <1>4, <2>1 DEF Bundle!Purge
  <2>3. Sound(T, J, M, H)
    BY <1>0, <2>1 DEF Sound, Claimed
  <2>4. Importer /\ adopter.into = n => Imports(adopter, T, J, M, H)
    BY <1>1, <2>1 DEF Imports, Claimed
  <2> QED
    BY <1>2, <2>2, <2>3, <2>4, BundleChanges DEF Importer
<1>5. CASE Bundle!MoveLog(n)
  <2>1. PICK N : N = [rows |-> S, journal |-> J]
    OBVIOUS
  <2>2. main' = [main EXCEPT ![n] = N] /\ UNCHANGED <<store, journal, purged, adopter>>
    BY <1>0, <1>5, <2>1 DEF Bundle!MoveLog
  <2>3. Sound(S, J, N, G)
    BY <1>0, <2>1 DEF Sound, Claimed
  <2>4. Importer /\ adopter.into = n => Imports(adopter, S, J, N, G)
    BY <1>1, <2>1 DEF Imports
  <2> QED
    BY <1>2, <2>2, <2>3, <2>4, BundleChanges DEF Importer
<1> QED
  BY <1>3, <1>4, <1>5

(* A package is taken up: all is still to do, and the backup is the main     *)
(* file.                                                                     *)
LEMMA BundleAdopts ==
  ASSUME BundleInv, NEW n \in Names, NEW p \in packs, Bundle!Adopt(n, p)
  PROVE  BundleInv'
<1>0. PICK S, J, M, G : /\ S = store[n] /\ J = journal[n] /\ M = main[n] /\ G = purged[n]
                        /\ Sound(S, J, M, G)
  BY DEF BundleInv
<1>2. /\ store = [store EXCEPT ![n] = S] /\ journal = [journal EXCEPT ![n] = J]
      /\ main = [main EXCEPT ![n] = M] /\ purged = [purged EXCEPT ![n] = G]
  BY <1>0 DEF BundleInv, Functions
<1>3. PICK v : v = Bundle!Importing(n, p)
  OBVIOUS
<1>4. adopter' = v /\ UNCHANGED <<store, journal, main, purged>>
  BY <1>3 DEF Bundle!Adopt
<1>5. v.into = n /\ Imports(v, S, J, M, G)
  BY <1>0, <1>3 DEF Bundle!Importing, Imports, Sound
<1> QED
  BY <1>0, <1>2, <1>4, <1>5, BundleChanges

(* A row more is dealt with, stored or reported.                            *)
LEMMA BundleImportsRow ==
  ASSUME BundleInv, NEW r \in Bundle!Rows, Bundle!ImportRow(r) \/ Bundle!ReportRow(r)
  PROVE  BundleInv'
<1>1. PICK n \in Names : n = adopter.into /\ adopter.at = "import"
  BY DEF BundleInv, Importer, Bundle!ImportRow, Bundle!ReportRow
<1>2. PICK S, J, M, G, v : /\ S = store[n] /\ J = journal[n] /\ M = main[n] /\ G = purged[n]
                           /\ Sound(S, J, M, G) /\ v = adopter /\ Imports(v, S, J, M, G)
  BY <1>1 DEF BundleInv, Importer
<1>3. /\ store = [store EXCEPT ![n] = S] /\ journal = [journal EXCEPT ![n] = J]
      /\ main = [main EXCEPT ![n] = M] /\ purged = [purged EXCEPT ![n] = G]
  BY <1>2 DEF BundleInv, Functions
<1>4. CASE Bundle!ImportRow(r)
  <2>1. PICK T, w : T = S \cup {r} /\ w = [v EXCEPT !.todo = @ \ {r}]
    OBVIOUS
  <2>2. /\ store' = [store EXCEPT ![n] = T] /\ adopter' = w /\ UNCHANGED <<journal, main, purged>>
    BY <1>1, <1>2, <1>4, <2>1 DEF Bundle!ImportRow
  <2>3. Sound(T, J, M, G)
    BY <1>2, <2>1 DEF Sound, Claimed
  <2>4. w = [at |-> v.at, into |-> v.into, pack |-> v.pack, todo |-> v.todo \ {r},
             failed |-> v.failed, backup |-> v.backup]
    BY <1>2, <2>1 DEF Imports
  <2>5. (v.pack.rows \ (v.todo \ {r})) \ v.failed \subseteq (S \cup G) \cup {r}
    BY <1>2 DEF Imports
  <2>6. (w.pack.rows \ w.todo) \ w.failed \subseteq T \cup G
    BY <2>1, <2>4, <2>5
  <2>7. w.at = v.at /\ w.into = n /\ w.backup = v.backup /\ (w.at = "done" => w.todo = {})
    BY <1>1, <1>2, <2>4
  <2>8. Imports(w, T, J, M, G)
    BY <1>2, <2>4, <2>6, <2>7 DEF Imports
  <2>9. w.into = n /\ Imports(w, T, J, M, G)
    BY <2>7, <2>8
  <2> QED
    BY <1>3, <2>2, <2>3, <2>9, BundleChanges
<1>5. CASE Bundle!ReportRow(r)
  <2>1. PICK w : w = [v EXCEPT !.todo = @ \ {r}, !.failed = @ \cup {r}]
    OBVIOUS
  <2>2. adopter' = w /\ UNCHANGED <<store, journal, main, purged>>
    BY <1>1, <1>2, <1>5, <2>1 DEF Bundle!ReportRow
  <2>4. w = [at |-> v.at, into |-> v.into, pack |-> v.pack, todo |-> v.todo \ {r},
             failed |-> v.failed \cup {r}, backup |-> v.backup]
    BY <1>2, <2>1 DEF Imports
  <2>3. (v.pack.rows \ (v.todo \ {r})) \ (v.failed \cup {r}) \subseteq (v.pack.rows \ v.todo) \ v.failed
    OBVIOUS
  <2>5. (w.pack.rows \ w.todo) \ w.failed \subseteq S \cup G
    BY <1>2, <2>3, <2>4 DEF Imports
  <2>6. w.at = v.at /\ w.into = n /\ w.backup = v.backup /\ (w.at = "done" => w.todo = {})
    BY <1>1, <1>2, <2>4
  <2>7. Imports(w, S, J, M, G)
    BY <1>2, <2>4, <2>5, <2>6 DEF Imports
  <2> QED
    BY <1>2, <1>3, <2>2, <2>6, <2>7, BundleChanges
<1> QED
  BY <1>4, <1>5

(* All rows are dealt with: the journal's come along, and the adoption may   *)
(* go on record.                                                             *)
LEMMA BundleEnds ==
  ASSUME BundleInv, Bundle!ImportJournal \/ Bundle!Finish \/ Bundle!Crash
  PROVE  BundleInv'
<1>1. PICK n \in Names : n = adopter.into /\ adopter.at \in {"import", "done"}
  BY DEF BundleInv, Importer, Bundle!ImportJournal, Bundle!Finish, Bundle!Crash
<1>2. PICK S, J, M, G, v : /\ S = store[n] /\ J = journal[n] /\ M = main[n] /\ G = purged[n]
                           /\ Sound(S, J, M, G) /\ v = adopter /\ Imports(v, S, J, M, G)
  BY <1>1 DEF BundleInv, Importer
<1>3. /\ store = [store EXCEPT ![n] = S] /\ journal = [journal EXCEPT ![n] = J]
      /\ main = [main EXCEPT ![n] = M] /\ purged = [purged EXCEPT ![n] = G]
  BY <1>2 DEF BundleInv, Functions
<1>4. CASE Bundle!ImportJournal
  <2>1. PICK K, w : /\ K = J \cup {[id |-> i, rows |-> {}, failed |-> {}] : i \in v.pack.journal}
                    /\ w = [v EXCEPT !.at = "done"]
    OBVIOUS
  <2>2. /\ journal' = [journal EXCEPT ![n] = K] /\ adopter' = w /\ UNCHANGED <<store, main, purged>>
    BY <1>1, <1>2, <1>4, <2>1 DEF Bundle!ImportJournal
  <2>3. Sound(S, K, M, G)
    BY <1>2, <2>1 DEF Sound, Claimed
  <2>4. w = [at |-> "done", into |-> v.into, pack |-> v.pack, todo |-> v.todo,
             failed |-> v.failed, backup |-> v.backup]
    BY <1>2, <2>1 DEF Imports
  <2>6. v.todo = {}
    BY <1>2, <1>4 DEF Bundle!ImportJournal
  <2>7. w.into = n /\ w.at = "done" /\ w.todo = {} /\ w.pack = v.pack /\ w.failed = v.failed
    BY <1>1, <1>2, <2>4, <2>6
  <2>8. (w.pack.rows \ w.todo) \ w.failed \subseteq S \cup G
    BY <1>2, <2>6, <2>7 DEF Imports
  <2>5. w.into = n /\ Imports(w, S, K, M, G)
    BY <2>4, <2>7, <2>8 DEF Imports
  <2> QED
    BY <1>3, <2>2, <2>3, <2>5, BundleChanges
<1>5. CASE Bundle!Finish
  <2>1. PICK K : /\ K = J \/ K = J \cup {Bundle!Record(v.pack, v.failed)}
                 /\ journal' = [journal EXCEPT ![n] = K]
    BY <1>1, <1>2, <1>3, <1>5 DEF Bundle!Finish
  <2>2. adopter' = Bundle!Idle /\ UNCHANGED <<store, main, purged>>
    BY <1>5 DEF Bundle!Finish
  <2>3. Sound(S, K, M, G)
    BY <1>1, <1>2, <1>5, <2>1 DEF Sound, Claimed, Imports, Bundle!Record, Bundle!Finish
  <2>4. Bundle!Idle.at \notin {"import", "done"}
    BY DEF Bundle!Idle
  <2> QED
    BY <1>3, <2>1, <2>2, <2>3, <2>4, BundleChanges
<1>6. CASE Bundle!Crash
  <2>1. adopter' = Bundle!Idle /\ UNCHANGED <<store, journal, main, purged>>
    BY <1>6 DEF Bundle!Crash
  <2>2. Bundle!Idle.at \notin {"import", "done"}
    BY DEF Bundle!Idle
  <2> QED
    BY <1>2, <1>3, <2>1, <2>2, BundleChanges
<1> QED
  BY <1>4, <1>5, <1>6

(* The backup is restored under the log.                                    *)
LEMMA BundleFails ==
  ASSUME BundleInv, Bundle!Fail
  PROVE  BundleInv'
<1>1. PICK n \in Names : n = adopter.into /\ adopter.at = "import"
  BY DEF BundleInv, Importer, Bundle!Fail
<1>2. PICK S, J, M, G, v : /\ S = store[n] /\ J = journal[n] /\ M = main[n] /\ G = purged[n]
                           /\ Sound(S, J, M, G) /\ v = adopter /\ Imports(v, S, J, M, G)
  BY <1>1 DEF BundleInv, Importer
<1>3. PICK B : B = v.backup
  OBVIOUS
<1>4. Claimed(B.journal, B.rows \cup G) /\ (J \subseteq M.journal \/ M = B)
  BY <1>1, <1>2, <1>3 DEF Imports
<1>5. PICK T, K : /\ T = Bundle!Restored(S, M.rows, B.rows)
                  /\ K = Bundle!Restored(J, M.journal, B.journal)
  OBVIOUS
<1>6. /\ store' = [store EXCEPT ![n] = T] /\ journal' = [journal EXCEPT ![n] = K]
      /\ main' = [main EXCEPT ![n] = B] /\ adopter' = Bundle!Idle /\ purged' = purged
  BY <1>1, <1>2, <1>3, <1>5 DEF Bundle!Fail
<1>7. \A r : r \in T <=> IF r \in S <=> r \in M.rows THEN r \in B.rows ELSE r \in S
  BY <1>5 DEF Bundle!Restored, Bundle!Differs
<1>8. \A j : j \in K <=> IF j \in J <=> j \in M.journal THEN j \in B.journal ELSE j \in J
  BY <1>5 DEF Bundle!Restored, Bundle!Differs
<1>9. B.rows \ T \subseteq G
  BY <1>2, <1>7 DEF Sound
<1>10. B.journal \subseteq K
  BY <1>2, <1>8 DEF Sound
<1>11. Claimed(K, T \cup G)
  <2> SUFFICES ASSUME NEW j \in K, NEW r \in j.rows \ j.failed, r \notin G
               PROVE  r \in T
    BY DEF Claimed
  <2>1. CASE j \in B.journal
    BY <1>4, <1>9, <2>1 DEF Claimed
  <2>2. CASE j \notin B.journal
    <3>1. j \in J /\ j \notin M.journal
      BY <1>2, <1>8, <2>2 DEF Sound
    <3>2. M = B /\ r \in S
      BY <1>2, <1>4, <3>1 DEF Sound, Claimed
    <3> QED
      BY <1>7, <3>2
  <2> QED
    BY <2>1, <2>2
<1>12. Sound(T, K, B, G)
  BY <1>4, <1>9, <1>10, <1>11 DEF Sound
<1>13. purged = [purged EXCEPT ![n] = G]
  BY <1>2 DEF BundleInv, Functions
<1>14. Bundle!Idle.at \notin {"import", "done"}
  BY DEF Bundle!Idle
<1> QED
  BY <1>6, <1>12, <1>13, <1>14, BundleChanges

LEMMA BundleStep == BundleInv /\ [Next]_serviceVars => BundleInv'
<1> SUFFICES ASSUME BundleInv, [Next]_serviceVars PROVE BundleInv'
  OBVIOUS
<1>1. ASSUME UNCHANGED <<store, journal, main, purged, adopter>>
      PROVE  BundleInv'
  BY <1>1 DEF BundleInv, Importer, Sound, Imports, Claimed, Functions
<1>2. ASSUME NEW n \in Names, Bundle!BeginPack(n)
      PROVE  BundleInv'
  BY <1>1, <1>2 DEF Bundle!BeginPack
<1>3. CASE Bundle!ReadTable \/ Bundle!EndPack
  BY <1>1, <1>3 DEF Bundle!ReadTable, Bundle!EndPack
<1>4. CASE Bundle!Next
  BY <1>2, <1>3, <1>4, BundleHosts, BundleAdopts, BundleImportsRow, BundleEnds, BundleFails
     DEF Bundle!Next
<1>5. CASE UNCHANGED moveVars
  BY <1>1, <1>5 DEF moveVars
<1> QED
  BY <1>4, <1>5 DEF Next, serviceVars

(* Of a package that a namespace has on record as adopted, every row but    *)
(* those the adoption reported was brought and is there until it is purged,   *)
(* however many imports failed or died before or after, whichever backups     *)
(* they restored, and whatever the hosts did meanwhile                        *)
(* (operations/migration/portable/adopter.py).                                *)
THEOREM AdoptionIsWhole == Spec => []AdoptedMeansImported
<1>1. BundleInv => AdoptedMeansImported
  BY DEF BundleInv, Sound, Claimed, AdoptedMeansImported, Bundle!AdoptedMeansImported, Bundle!Ever
<1> QED
  BY <1>1, BundleInit, BundleStep, PTL DEF Spec

-----------------------------------------------------------------------------
(***************************************************************************)
(* Recall.  A snippet is fit for an answer to a question asked under the    *)
(* policy D when it is not evidence that D refutes, and fresh from time t    *)
(* when its atom was not retracted before t.  What a recall has gathered is *)
(* fresh from now, as no time passes meanwhile; an entry of the cache from  *)
(* when it was stored; an answer from one TTL before it was given.          *)
(***************************************************************************)

Snips == {Find!Snip("atom", a) : a \in Atoms} \cup {Find!Snip("page", e) : e \in Entities}
         \cup {Find!Snip("raw", e) : e \in Events}
Layers == {"atom", "page", "raw"}

Fresh(a, t) == a \in vec \/ gone[a] = Find!Never \/ gone[a] >= t

Suits(S, D, t) ==
    /\ S \subseteq Snips
    /\ \A c \in S : c.layer = "raw" => c.id \notin Find!DemotedRaw(D)
    /\ \A c \in S : c.layer = "atom" => Fresh(c.id, t)

Priced(S) ==
    rawPolicy # "always" =>
        Find!Spent(S, "atom") + Find!Spent(S, "page") + Find!Spent(S, "raw") <= Total

FindStore ==
    /\ live \subseteq Atoms /\ vec \subseteq Atoms
    /\ now \in Nat /\ gone \in [Atoms -> Nat \cup {Find!Never}]
    /\ \A a \in Atoms : gone[a] <= now
    /\ \A a \in live : gone[a] = Find!Never
    /\ rawPolicy \in RawPolicies

Gathering == {"atom", "page", "raw", "vector", "rank"}

ReaderFits(v) ==
    /\ v.at \in {"route"} \cup Gathering =>
         v.q \in Queries /\ v.key = <<v.q, v.began>> /\ v.began \subseteq demoted
    /\ v.at \in Gathering =>
         /\ v = [at |-> v.at, q |-> v.q, key |-> v.key, began |-> v.began, top |-> v.top,
                 about |-> v.about, seen |-> v.seen, out |-> v.out]
         /\ v.about \subseteq Entities
         /\ Find!DemotedRaw(v.began) \subseteq v.seen
         /\ Suits(v.out, v.began, now)

EntryFits(h) ==
    /\ h.expires \in Int /\ h.expires <= now + Ttl
    /\ Suits(h.value.snippets, h.key[2], h.expires - Ttl)
    /\ Priced(h.value.snippets)

AnswerFits(a) ==
    a.q # "none" =>
        /\ a.at \in Nat /\ a.at <= now
        /\ Suits(a.snippets, a.began, a.at - Ttl + 1)
        /\ Priced(a.snippets)

FindInv ==
    /\ FindStore
    /\ ReaderFits(reader)
    /\ \A h \in cache : EntryFits(h)
    /\ AnswerFits(shown)

(* Counting means the same in both modules.                                *)
LEMMA FindCounts ==
  \A S : Find!Cardinality(S) = Cardinality(S) /\ (Find!IsFiniteSet(S) <=> IsFiniteSet(S))
BY DEF Find!Cardinality, Cardinality, Find!IsFiniteSet, IsFiniteSet

LEMMA FindAssumed ==
  /\ IsFiniteSet(Atoms) /\ IsFiniteSet(Entities) /\ IsFiniteSet(Events)
  /\ Cost \in [Layers -> Nat] /\ Total \in Nat /\ Ttl \in Nat \ {0}
  /\ RawPolicies \subseteq {"fallback", "never", "always"}
  /\ Named \in [Queries -> SUBSET Entities]
BY RecallAssumed, FindCounts DEF Find!RecallAssumption, Layers

LEMMA LeastNatural ==
  ASSUME NEW S \in SUBSET Nat, S # {}
  PROVE  \E n \in S : \A m \in S : n <= m
<1> DEFINE R == {ss \in Nat \X Nat : ss[1] < ss[2]}
<1>1. IsWellFoundedOn(R, Nat)
  BY NatLessThanWellFounded DEF OpToRel
<1> HIDE DEF R
<1>2. \E n \in S : \A m \in S : ~ (<<m, n>> \in R)
  BY <1>1, WFMin
<1>3. \A m, n \in Nat : <<m, n>> \notin R => n <= m
  BY DEF R
<1> QED
  BY <1>2, <1>3

LEMMA SnipsFinite == IsFiniteSet(Snips)
<1>1. ASSUME NEW S, IsFiniteSet(S), NEW layer
      PROVE  IsFiniteSet({Find!Snip(layer, x) : x \in S})
  <2>1. [x \in S |-> Find!Snip(layer, x)] \in Surjection(S, {Find!Snip(layer, x) : x \in S})
    BY DEF Surjection
  <2> QED
    BY <1>1, <2>1, FS_Surjection
<1>2. PICK A, P, R : /\ A = {Find!Snip("atom", a) : a \in Atoms}
                     /\ P = {Find!Snip("page", e) : e \in Entities}
                     /\ R = {Find!Snip("raw", e) : e \in Events}
  OBVIOUS
<1>3. IsFiniteSet(A) /\ IsFiniteSet(P) /\ IsFiniteSet(R)
  BY <1>1, <1>2, FindAssumed
<1>4. IsFiniteSet(A \cup P)
  BY <1>3, FS_Union
<1>5. IsFiniteSet((A \cup P) \cup R)
  BY <1>3, <1>4, FS_Union
<1>6. Snips = (A \cup P) \cup R
  BY <1>2 DEF Snips
<1> QED
  BY <1>5, <1>6

(* Of what is ranked, something comes last.                                *)
RanksFrom(rank, S, n) ==
    n \in Nat /\ rank \in [S -> 1 .. n] /\ \A c, d \in S : rank[c] = rank[d] => c = d

LEMMA LastRanked ==
  ASSUME NEW S, NEW n, NEW rank, RanksFrom(rank, S, n), NEW kept, kept \subseteq S, kept # {}
  PROVE  \E c \in kept : Find!Before(c, kept, rank) = kept \ {c}
<1> DEFINE T == {n - rank[d] : d \in kept}
<1>0. n \in Nat /\ \A d \in kept : rank[d] \in 1 .. n
  BY DEF RanksFrom
<1>1. T \in SUBSET Nat /\ T # {}
  BY <1>0
<1>2. PICK m \in T : \A k \in T : m <= k
  BY <1>1, LeastNatural
<1>3. PICK c \in kept : m = n - rank[c]
  OBVIOUS
<1>4. \A d \in kept : n - rank[c] <= n - rank[d]
  BY <1>2, <1>3
<1>5. \A d \in kept : rank[d] <= rank[c]
  BY <1>0, <1>3, <1>4
<1>6. \A d \in kept \ {c} : rank[d] < rank[c]
  BY <1>0, <1>3, <1>5 DEF RanksFrom
<1> QED
  BY <1>0, <1>3, <1>6 DEF Find!Before

LEMMA SpentAdds ==
  ASSUME NEW kept, IsFiniteSet(kept), NEW c \in kept, NEW l \in Layers
  PROVE  /\ Find!Spent(kept, l) \in Nat /\ Find!Spent(kept \ {c}, l) \in Nat
         /\ Find!Spent(kept, l) = Find!Spent(kept \ {c}, l) + (IF c.layer = l THEN Cost[l] ELSE 0)
<1> DEFINE A == {x \in kept : x.layer = l}
           B == {x \in kept \ {c} : x.layer = l}
<1>1. Find!Spent(kept, l) = Cost[l] * Cardinality(A)
  BY FindCounts DEF Find!Spent
<1>2. Find!Spent(kept \ {c}, l) = Cost[l] * Cardinality(B)
  BY FindCounts DEF Find!Spent
<1>3. A \in SUBSET kept /\ B \in SUBSET kept
  OBVIOUS
<1>4. IsFiniteSet(A) /\ IsFiniteSet(B)
  BY <1>3, FS_Subset
<1>5. A = (IF c.layer = l THEN B \cup {c} ELSE B) /\ c \notin B
  OBVIOUS
<1> HIDE DEF A, B
<1>6. Cardinality(B) \in Nat /\ Cardinality(A) = Cardinality(B) + (IF c.layer = l THEN 1 ELSE 0)
  BY <1>4, <1>5, FS_CardinalityType, FS_AddElement
<1>7. Cost[l] \in Nat
  BY FindAssumed
<1>8. \A x, y \in Nat : x * y \in Nat /\ x * (y + 1) = x * y + x
  OBVIOUS
<1> QED
  BY <1>1, <1>2, <1>6, <1>7, <1>8

(* A layer nothing is of costs nothing.                                    *)
LEMMA SpentNothing ==
  ASSUME NEW kept, NEW l \in Layers, \A c \in kept : c.layer # l
  PROVE  Find!Spent(kept, l) = 0
<1>1. {c \in kept : c.layer = l} = {}
  OBVIOUS
<1>2. Cost[l] \in Nat
  BY FindAssumed
<1>3. Find!Spent(kept, l) = Cost[l] * 0
  BY <1>1, FindCounts, FS_EmptySet DEF Find!Spent
<1> QED
  BY <1>2, <1>3

(* A prompt is cut out of what was gathered.                               *)
LEMMA PromptIsCut ==
  ASSUME NEW out, NEW rank, NEW kept \in Find!Prompts(out, rank)
  PROVE  /\ kept \subseteq out
         /\ \E from \in SUBSET out : kept \in Find!Charged(from, rank)
<1>1. PICK from \in Find!Distinct(Find!Diversified(out, rank), rank) :
         kept \in Find!Charged(from, rank)
  BY DEF Find!Prompts
<1>2. from \in SUBSET out
  BY DEF Find!Distinct, Find!Diversified
<1> QED
  BY <1>1, <1>2 DEF Find!Charged

(* Where raw events and durable snippets do not mix, the slice that both   *)
(* share is enough.                                                        *)
LEMMA PromptIsPriced ==
  ASSUME rawPolicy \in RawPolicies, NEW out, out \subseteq Snips,
         NEW rank \in Find!Injection(Find!PromptRaw(out), 1 .. Find!Cardinality(Find!PromptRaw(out))),
         NEW kept \in Find!Prompts(Find!PromptRaw(out), rank)
  PROVE  Priced(kept)
<1> SUFFICES ASSUME rawPolicy # "always"
             PROVE  Find!Spent(kept, "atom") + Find!Spent(kept, "page") + Find!Spent(kept, "raw") <= Total
  BY DEF Priced
<1>1. PICK S : S = Find!PromptRaw(out)
  OBVIOUS
<1>2. S \subseteq out
  BY <1>1 DEF Find!PromptRaw
<1>3. IsFiniteSet(S)
  BY <1>2, SnipsFinite, FS_Subset
<1>4. PICK from \in SUBSET S : kept \in Find!Charged(from, rank)
  BY <1>1, PromptIsCut
<1>5. kept \in SUBSET S /\ kept \in SUBSET from
  BY <1>4 DEF Find!Charged
<1>6. IsFiniteSet(kept) /\ \A c \in kept : c.layer \in Layers
  BY <1>2, <1>3, <1>5, FS_Subset DEF Snips, Find!Snip, Layers
<1>7. (\A c \in kept : c.layer # "raw") \/ (\A c \in kept : c.layer = "raw")
  BY <1>1, <1>2, <1>5, FindAssumed DEF Find!PromptRaw
<1>8. CASE kept = {}
  <2>1. Find!Spent(kept, "atom") = 0 /\ Find!Spent(kept, "page") = 0 /\ Find!Spent(kept, "raw") = 0
    BY <1>8, SpentNothing DEF Layers
  <2> QED
    BY <2>1, FindAssumed
<1>9. CASE kept # {}
  <2>1. PICK n \in Nat : n = Cardinality(S) /\ rank \in [S -> 1 .. n]
    BY <1>1, <1>3, FindCounts, FS_CardinalityType DEF Find!Injection
  <2>2. \A c, d \in S : rank[c] = rank[d] => c = d
    BY <1>1 DEF Find!Injection, Find!IsInjective
  <2>2a. kept \subseteq S /\ kept # {}
    BY <1>5, <1>9
  <2>2b. RanksFrom(rank, S, n)
    BY <2>1, <2>2 DEF RanksFrom
  <2>3. PICK c \in kept : Find!Before(c, kept, rank) = kept \ {c}
    BY <2>2a, <2>2b, LastRanked
  <2>4. Find!Fits(kept \ {c}, c)
    <3>1. c \in from
      BY <1>5
    <3> QED
      BY <1>4, <2>3, <3>1 DEF Find!Charged
  <2>5. c.layer \in Layers /\ Cost[c.layer] \in Nat
    BY <1>6, FindAssumed
  <2>6. Find!Used(kept \ {c}) + Cost[c.layer] <= Total
    BY <2>4 DEF Find!Fits
  <2>7. \A l \in Layers :
          /\ Find!Spent(kept, l) \in Nat /\ Find!Spent(kept \ {c}, l) \in Nat
          /\ Find!Spent(kept, l) = Find!Spent(kept \ {c}, l) + (IF c.layer = l THEN Cost[l] ELSE 0)
    BY <1>6, SpentAdds
  <2>8. CASE \A d \in kept : d.layer # "raw"
    <3>1. Find!Spent(kept, "raw") = 0 /\ Find!Spent(kept \ {c}, "raw") = 0
      BY <2>8, SpentNothing DEF Layers
    <3>2. c.layer \in {"atom", "page"}
      BY <2>5, <2>8 DEF Layers
    <3>3. Find!Used(kept \ {c}) = Find!Spent(kept \ {c}, "atom") + Find!Spent(kept \ {c}, "page")
      BY <2>7, <3>1 DEF Find!Used, Layers
    <3> QED
      BY <2>5, <2>6, <2>7, <3>1, <3>2, <3>3, FindAssumed DEF Layers
  <2>9. CASE \A d \in kept : d.layer = "raw"
    <3>1. /\ Find!Spent(kept, "atom") = 0 /\ Find!Spent(kept \ {c}, "atom") = 0
          /\ Find!Spent(kept, "page") = 0 /\ Find!Spent(kept \ {c}, "page") = 0
      BY <2>9, SpentNothing DEF Layers
    <3>2. c.layer = "raw"
      BY <2>9
    <3>3. Find!Used(kept \ {c}) = Find!Spent(kept \ {c}, "raw")
      BY <2>7, <3>1 DEF Find!Used, Layers
    <3> QED
      BY <2>5, <2>6, <2>7, <3>1, <3>2, <3>3, FindAssumed DEF Layers
  <2> QED
    BY <1>7, <2>8, <2>9
<1> QED
  BY <1>8, <1>9

LEMMA FindInit == Init => FindInv
<1> SUFFICES ASSUME Init PROVE FindInv
  OBVIOUS
<1>1. FindStore
  BY DEF Init, Find!Init, FindStore, Find!Never
<1>2. reader.at = "idle" /\ cache = {} /\ shown.q = "none"
  BY DEF Init, Find!Init
<1> QED
  BY <1>1, <1>2 DEF FindInv, ReaderFits, AnswerFits, Gathering

(* What suits a question that waited less suits one that waited more.      *)
LEMMA SuitsLonger ==
  ASSUME FindStore, NEW S, NEW D, NEW t \in Int, NEW u \in Int, u <= t, Suits(S, D, t)
  PROVE  Suits(S, D, u)
<1>1. ASSUME NEW c \in S, c.layer = "atom"
      PROVE  Fresh(c.id, u)
  <2>1. c.id \in Atoms
    BY <1>1 DEF Suits, Snips, Find!Snip
  <2>2. gone[c.id] \in Int
    BY <2>1 DEF FindStore, Find!Never
  <2> QED
    BY <1>1, <2>2 DEF Suits, Fresh
<1> QED
  BY <1>1 DEF Suits

(* The other callers: what they retract they retract now, and only what    *)
(* was live loses its vector.                                              *)
StoreMoves ==
    /\ FindStore' /\ demoted \subseteq demoted'
    /\ UNCHANGED <<now, cache, rawPolicy, reader, shown>>
    /\ \A a \in Atoms : gone'[a] = gone[a] \/ gone'[a] = now
    /\ \A a \in vec \ vec' : gone'[a] = now

LEMMA SuitsStill ==
  ASSUME FindStore, StoreMoves, NEW S, NEW D, NEW t \in Int, t <= now, Suits(S, D, t)
  PROVE  Suits(S, D, t)'
<1>1. ASSUME NEW c \in S, c.layer = "atom"
      PROVE  c.id \in vec' \/ gone'[c.id] = Find!Never \/ gone'[c.id] >= t
  <2>1. c.id \in Atoms /\ Fresh(c.id, t)
    BY <1>1 DEF Suits, Snips, Find!Snip
  <2>2. now \in Nat
    BY DEF FindStore
  <2> QED
    BY <2>1, <2>2 DEF Fresh, StoreMoves
<1> QED
  BY <1>1 DEF Suits, Fresh, Snips, Find!Snip, Find!DemotedRaw, Find!Never

LEMMA FindElsewhere ==
  ASSUME FindInv, StoreMoves
  PROVE  FindInv'
<1>0. FindStore /\ now \in Nat /\ Ttl \in Nat \ {0}
  BY FindAssumed DEF FindInv, FindStore
<1>1. ReaderFits(reader)'
  <2>1. reader.at \in Gathering => Suits(reader.out, reader.began, now)'
    <3> SUFFICES ASSUME reader.at \in Gathering
                 PROVE  Suits(reader.out, reader.began, now)'
      BY DEF StoreMoves
    <3>1. PICK v, n : v = reader /\ n = now
      OBVIOUS
    <3>2. Suits(v.out, v.began, n) /\ n \in Int /\ n <= now
      BY <1>0, <3>1 DEF FindInv, ReaderFits
    <3>3. Suits(v.out, v.began, n)'
      BY <1>0, <3>2, SuitsStill
    <3> QED
      BY <3>1, <3>3 DEF StoreMoves, Suits, Fresh, Snips, Find!Snip, Find!DemotedRaw
  <2> QED
    BY <2>1 DEF FindInv, StoreMoves, ReaderFits, Find!DemotedRaw
<1>2. ASSUME NEW h \in cache
      PROVE  EntryFits(h)'
  <2>1. EntryFits(h)
    BY DEF FindInv
  <2>2. h.expires - Ttl \in Int /\ h.expires - Ttl <= now
    BY <1>0, <2>1 DEF EntryFits
  <2>3. Suits(h.value.snippets, h.key[2], h.expires - Ttl)'
    BY <1>0, <2>1, <2>2, SuitsStill DEF EntryFits
  <2> QED
    BY <2>1, <2>3 DEF EntryFits, StoreMoves, Priced, Find!Spent
<1>3. AnswerFits(shown)'
  <2>1. PICK s : s = shown
    OBVIOUS
  <2>2. AnswerFits(s)
    BY <2>1 DEF FindInv
  <2>3. s.q # "none" => Suits(s.snippets, s.began, s.at - Ttl + 1)'
    <3> SUFFICES ASSUME s.q # "none" PROVE Suits(s.snippets, s.began, s.at - Ttl + 1)'
      OBVIOUS
    <3>1. s.at - Ttl + 1 \in Int /\ s.at - Ttl + 1 <= now
      BY <1>0, <2>2 DEF AnswerFits
    <3> QED
      BY <1>0, <2>2, <3>1, SuitsStill DEF AnswerFits
  <2>4. AnswerFits(s)'
    BY <2>2, <2>3 DEF AnswerFits, StoreMoves, Priced, Find!Spent
  <2> QED
    BY <2>1, <2>4 DEF StoreMoves, AnswerFits, Suits, Fresh, Snips, Find!Snip, Find!DemotedRaw,
                      Priced, Find!Spent
<1> QED
  BY <1>1, <1>2, <1>3 DEF FindInv, StoreMoves

LEMMA FindCallers ==
  ASSUME FindInv,
         \/ \E a \in Atoms : Find!Promote(a) \/ Find!Deprecate(a) \/ Find!Demote(a)
         \/ \E a, b \in Atoms : Find!Supersede(a, b)
         \/ \E e \in Entities : Find!Regenerate(e)
  PROVE  FindInv'
<1>0. FindStore
  BY DEF FindInv
<1>1. ASSUME NEW a \in Atoms, Find!Promote(a)
      PROVE  StoreMoves
  BY <1>0, <1>1 DEF Find!Promote, Find!Indexed, StoreMoves, FindStore
<1>2. ASSUME NEW a \in Atoms, Find!Deprecate(a) \/ Find!Demote(a)
      PROVE  StoreMoves
  <2>1. /\ live' = live \ {a} /\ gone' = [gone EXCEPT ![a] = now]
        /\ UNCHANGED <<vec, now, cache, rawPolicy, reader, shown>>
        /\ demoted \subseteq demoted'
    BY <1>2 DEF Find!Deprecate, Find!Demote, Find!Retract
  <2>2. \A b \in Atoms : gone'[b] = IF b = a THEN now ELSE gone[b]
    BY <1>0, <2>1 DEF FindStore
  <2>3. gone' \in [Atoms -> Nat \cup {Find!Never}]
    BY <1>0, <2>1 DEF FindStore
  <2>4. now <= now
    BY <1>0 DEF FindStore
  <2>5. (\A b \in Atoms : gone[b] <= now)'
    BY <1>0, <2>1, <2>2, <2>4 DEF FindStore
  <2>6. FindStore'
    BY <1>0, <2>1, <2>2, <2>3, <2>5 DEF FindStore
  <2> QED
    BY <2>1, <2>2, <2>6 DEF StoreMoves
<1>3. ASSUME NEW a \in Atoms, NEW b \in Atoms, Find!Supersede(a, b)
      PROVE  StoreMoves
  <2>1. /\ live' = (live \ {a}) \cup {b} /\ gone' = [gone EXCEPT ![a] = now]
        /\ a \in live /\ b \notin live /\ gone[b] = Find!Never
        /\ UNCHANGED <<now, cache, rawPolicy, reader, shown, demoted>>
        /\ \E v \in Find!Indexed(b) : vec' \in {v, v \ {a}}
    BY <1>3 DEF Find!Supersede
  <2>2. \A c \in Atoms : gone'[c] = IF c = a THEN now ELSE gone[c]
    BY <1>0, <2>1 DEF FindStore
  <2>3. gone' \in [Atoms -> Nat \cup {Find!Never}]
    BY <1>0, <2>1 DEF FindStore
  <2>4. now <= now
    BY <1>0 DEF FindStore
  <2>5. (\A c \in Atoms : gone[c] <= now)'
    BY <1>0, <2>1, <2>2, <2>4 DEF FindStore
  <2>6. vec' \subseteq Atoms /\ vec \ {a} \subseteq vec'
    BY <1>0, <2>1 DEF Find!Indexed, FindStore
  <2>7. FindStore'
    BY <1>0, <2>1, <2>2, <2>3, <2>5, <2>6 DEF FindStore
  <2> QED
    BY <2>1, <2>2, <2>6, <2>7 DEF StoreMoves
<1>4. ASSUME NEW e \in Entities, Find!Regenerate(e)
      PROVE  StoreMoves
  BY <1>0, <1>4 DEF Find!Regenerate, StoreMoves, FindStore
<1> QED
  BY <1>1, <1>2, <1>3, <1>4, FindElsewhere

(* The steps of a recall leave the store alone.                            *)
LEMMA FindReads ==
  ASSUME FindInv, UNCHANGED <<live, gone, vec, demoted, now, rawPolicy>>,
         NEW v, reader' = v, ReaderFits(v),
         \A h \in cache' : EntryFits(h),
         NEW s, shown' = s, AnswerFits(s)
  PROVE  FindInv'
<1>1. ReaderFits(reader)'
  BY DEF ReaderFits, Find!DemotedRaw, Suits, Fresh, Snips, Find!Snip
<1>2. (\A h \in cache : EntryFits(h))'
  BY DEF EntryFits, Priced, Find!Spent, Suits, Fresh, Snips, Find!Snip, Find!DemotedRaw
<1>3. AnswerFits(shown)'
  BY DEF AnswerFits, Priced, Find!Spent, Suits, Fresh, Snips, Find!Snip, Find!DemotedRaw
<1> QED
  BY <1>1, <1>2, <1>3 DEF FindInv, FindStore

(* An answer given now.                                                    *)
LEMMA FindAnswers ==
  ASSUME FindInv, NEW q, NEW about, NEW snippets, NEW began, NEW top,
         Find!Answer(q, about, snippets, began, top),
         UNCHANGED <<live, gone, vec, demoted, now, rawPolicy>>,
         Suits(snippets, began, now - Ttl + 1), Priced(snippets),
         \A h \in cache' : EntryFits(h)
  PROVE  FindInv'
<1>1. PICK s : s = [q |-> q, about |-> about, snippets |-> snippets,
                    began |-> began, top |-> top, at |-> now]
  OBVIOUS
<1>2. now \in Nat /\ now <= now
  BY DEF FindInv, FindStore
<1>3. AnswerFits(s)
  BY <1>1, <1>2 DEF AnswerFits
<1>4. ReaderFits([at |-> "idle"])
  BY DEF ReaderFits, Gathering
<1>5. shown' = s /\ reader' = [at |-> "idle"]
  BY <1>1 DEF Find!Answer
<1> QED
  BY <1>3, <1>4, <1>5, FindReads

LEMMA FindAsks ==
  ASSUME FindInv, NEW q \in Queries, Find!Ask(q)
  PROVE  FindInv'
<1>0. FindStore /\ now \in Nat /\ Ttl \in Nat \ {0} /\ AnswerFits(shown)
  BY FindAssumed DEF FindInv, FindStore
<1>1. UNCHANGED <<live, gone, vec, demoted, now, rawPolicy>>
  BY DEF Find!Ask, Find!storeVars
<1>2. ASSUME NEW h \in Find!Hit(q),
             Find!Answer(q, h.value.about, h.value.snippets, demoted, Find!Newest(active)),
             UNCHANGED cache
      PROVE  FindInv'
  <2>1. h \in cache /\ h.key[2] = demoted /\ h.expires > now /\ EntryFits(h)
    BY <1>2 DEF Find!Hit, Find!Key, FindInv
  <2>2. h.expires - Ttl \in Int /\ now - Ttl + 1 \in Int /\ now - Ttl + 1 <= h.expires - Ttl
    BY <1>0, <2>1 DEF EntryFits
  <2>3. Suits(h.value.snippets, demoted, now - Ttl + 1)
    <3>1. Suits(h.value.snippets, demoted, h.expires - Ttl)
      BY <2>1 DEF EntryFits
    <3> QED
      BY <1>0, <2>2, <3>1, SuitsLonger
  <2>4. Priced(h.value.snippets) /\ \A g \in cache' : EntryFits(g)
    BY <1>2, <2>1 DEF EntryFits, FindInv
  <2> QED
    BY <1>1, <1>2, <2>3, <2>4, FindAnswers
<1>3. ASSUME cache' = {h \in cache : h.key # Find!Key(q)}, UNCHANGED shown,
             reader' = [at |-> "route", q |-> q, key |-> Find!Key(q), began |-> demoted,
                        top |-> Find!Newest(active)]
      PROVE  FindInv'
  <2>1. PICK v : v = [at |-> "route", q |-> q, key |-> Find!Key(q), began |-> demoted,
                      top |-> Find!Newest(active)]
    OBVIOUS
  <2>2. ReaderFits(v)
    BY <2>1 DEF ReaderFits, Gathering, Find!Key
  <2>3. reader' = v /\ \A h \in cache' : EntryFits(h)
    BY <1>3, <2>1 DEF FindInv
  <2> QED
    BY <1>0, <1>1, <1>3, <2>2, <2>3, FindReads
<1> QED
  BY <1>2, <1>3 DEF Find!Ask

LEMMA FindRoutes ==
  ASSUME FindInv, Find!Route
  PROVE  FindInv'
<1>1. UNCHANGED <<live, gone, vec, demoted, now, rawPolicy, cache, shown>>
  BY DEF Find!Route, Find!storeVars
<1>2. PICK v : v = reader /\ v.at = "route" /\ ReaderFits(v)
  BY DEF Find!Route, FindInv
<1>3. PICK about \in Find!Anchors(v.q) :
         reader' = [at |-> "atom", q |-> v.q, key |-> v.key, began |-> v.began, top |-> v.top,
                    about |-> about, seen |-> Find!DemotedRaw(demoted), out |-> {}]
  BY <1>2 DEF Find!Route
<1>4. about \subseteq Entities
  BY <1>2, FindAssumed DEF Find!Anchors, Find!Newest, ReaderFits
<1>5. PICK w : w = [at |-> "atom", q |-> v.q, key |-> v.key, began |-> v.began, top |-> v.top,
                    about |-> about, seen |-> Find!DemotedRaw(demoted), out |-> {}]
  OBVIOUS
<1>6. Find!DemotedRaw(v.began) \subseteq Find!DemotedRaw(demoted)
  BY <1>2 DEF ReaderFits, Find!DemotedRaw
<1>7. Suits({}, v.began, now)
  BY DEF Suits
<1>8. ReaderFits(w)
  BY <1>2, <1>4, <1>5, <1>6, <1>7 DEF ReaderFits, Gathering
<1>9. reader' = w /\ AnswerFits(shown) /\ \A h \in cache' : EntryFits(h)
  BY <1>1, <1>3, <1>5 DEF FindInv
<1> QED
  BY <1>1, <1>8, <1>9, FindReads

(* What a source adds suits the question.                                  *)
LEMMA SourcesSuit ==
  ASSUME FindStore, reader.at \in Gathering, ReaderFits(reader),
         NEW source \in {"atom", "page", "raw", "vector"}
  PROVE  Suits(Find!Candidates(source), reader.began, now)
<1>1. CASE source = "atom"
  <2>1. Find!Candidates(source) = {Find!Snip("atom", a) : a \in Find!FoundAtoms}
    BY <1>1 DEF Find!Candidates
  <2>2. Find!FoundAtoms \subseteq live
    BY DEF Find!FoundAtoms
  <2> QED
    BY <2>1, <2>2 DEF Suits, Snips, Find!Snip, Fresh, FindStore
<1>2. CASE source = "page"
  <2>1. Find!Candidates(source) = {Find!Snip("page", e) : e \in Find!FreshPages}
    BY <1>2 DEF Find!Candidates
  <2>2. Find!FreshPages \subseteq Entities
    BY DEF Find!FreshPages, ReaderFits
  <2> QED
    BY <2>1, <2>2 DEF Suits, Snips, Find!Snip
<1>3. CASE source = "raw"
  <2>1. Find!Candidates(source) = {Find!Snip("raw", e) : e \in Find!FoundRaw}
    BY <1>3 DEF Find!Candidates
  <2>2. /\ Find!FoundRaw \subseteq Events
        /\ \A e \in Find!FoundRaw : e \notin Find!DemotedRaw(reader.began)
    BY DEF Find!FoundRaw, ReaderFits
  <2> QED
    BY <2>1, <2>2 DEF Suits, Snips, Find!Snip
<1>4. CASE source = "vector"
  <2>1. Find!Candidates(source) = {Find!Snip("atom", a) : a \in Find!NearAtoms}
    BY <1>4 DEF Find!Candidates
  <2>2. Find!NearAtoms \subseteq vec
    BY DEF Find!NearAtoms
  <2> QED
    BY <2>1, <2>2 DEF Suits, Snips, Find!Snip, Fresh, FindStore
<1> QED
  BY <1>1, <1>2, <1>3, <1>4

LEMMA AfterSource ==
  ASSUME NEW source \in {"atom", "page", "raw", "vector"}
  PROVE  Find!After(source) \in Gathering
<1>1. CASE source = "vector"
  BY <1>1 DEF Find!After, Gathering
<1>2. CASE source # "vector"
  <2>1. PICK i : i = CHOOSE j \in 1 .. 3 : Find!Source[j] = source
    OBVIOUS
  <2>2. \E j \in 1 .. 3 : Find!Source[j] = source
    <3>1. /\ Find!Source[1] = "atom" /\ Find!Source[2] = "page" /\ Find!Source[3] = "raw"
          /\ 1 \in 1 .. 3 /\ 2 \in 1 .. 3 /\ 3 \in 1 .. 3
      BY DEF Find!Source
    <3> QED
      BY <1>2, <3>1
  <2>3. i \in 1 .. 3
    BY <2>1, <2>2
  <2>4. Find!After(source) = Find!Source[1 + i]
    BY <1>2, <2>1 DEF Find!After
  <2>5. i = 1 \/ i = 2 \/ i = 3
    BY <2>3
  <2> QED
    BY <2>4, <2>5 DEF Find!Source, Gathering
<1> QED
  BY <1>1, <1>2

LEMMA FindGathers ==
  ASSUME FindInv, NEW i \in 1 .. 4, Find!Gather(Find!Source[i])
  PROVE  FindInv'
<1>1. UNCHANGED <<live, gone, vec, demoted, now, rawPolicy, cache, shown>>
  BY DEF Find!Gather, Find!storeVars
<1>2. PICK source \in {"atom", "page", "raw", "vector"} : source = Find!Source[i]
  <2>1. i = 1 \/ i = 2 \/ i = 3 \/ i = 4
    OBVIOUS
  <2> QED
    BY <2>1 DEF Find!Source
<1>3. PICK v : v = reader /\ v.at = source /\ v.at \in Gathering /\ ReaderFits(v)
  BY <1>2 DEF Find!Gather, FindInv, Gathering
<1>4. PICK found \in {{}, Find!Candidates(source)} :
         reader' = [v EXCEPT !.at = Find!After(source), !.out = @ \cup found,
                             !.seen = @ \cup Find!DemotedRaw(Find!AtomsIn(found))]
  BY <1>2, <1>3 DEF Find!Gather
<1>5. PICK at, seen : /\ at = Find!After(source) /\ at \in Gathering
                      /\ seen = v.seen \cup Find!DemotedRaw(Find!AtomsIn(found))
  BY AfterSource
<1>6. PICK w : w = [v EXCEPT !.at = at, !.out = v.out \cup found, !.seen = seen]
  OBVIOUS
<1>7. reader' = w
  BY <1>3, <1>4, <1>5, <1>6
<1>8. w = [at |-> at, q |-> v.q, key |-> v.key, began |-> v.began, top |-> v.top,
           about |-> v.about, seen |-> seen, out |-> v.out \cup found]
  BY <1>3, <1>6 DEF ReaderFits
<1>9. Suits(v.out \cup found, v.began, now)
  <2>1. Suits(Find!Candidates(source), v.began, now)
    BY <1>3, SourcesSuit DEF FindInv
  <2>2. Suits(v.out, v.began, now)
    BY <1>3 DEF ReaderFits
  <2> QED
    BY <1>4, <2>1, <2>2 DEF Suits
<1>10. ReaderFits(w)
  BY <1>3, <1>5, <1>8, <1>9 DEF ReaderFits, Gathering
<1>11. AnswerFits(shown) /\ \A h \in cache' : EntryFits(h)
  BY <1>1 DEF FindInv
<1> QED
  BY <1>1, <1>7, <1>10, <1>11, FindReads

(* Storing in the cache brings one entry and may cost others.              *)
LEMMA PutAdds ==
  ASSUME NEW key, NEW value, NEW new, new \in Find!Put(key, value)
  PROVE  new \subseteq cache \cup {[key |-> key, value |-> value, expires |-> now + Ttl]}
BY DEF Find!Put

LEMMA FindRanks ==
  ASSUME FindInv, Find!Rank
  PROVE  FindInv'
<1>0. FindStore /\ now \in Nat /\ Ttl \in Nat \ {0}
  BY FindAssumed DEF FindInv, FindStore
<1>1. UNCHANGED <<live, gone, vec, demoted, now, rawPolicy>>
  BY DEF Find!Rank, Find!storeVars
<1>2. PICK v : v = reader /\ v.at = "rank" /\ ReaderFits(v)
  BY DEF Find!Rank, FindInv
<1>3a. PICK rank \in Find!Injection(Find!PromptRaw(v.out), 1 .. Find!Cardinality(Find!PromptRaw(v.out))) :
         \E kept \in Find!Prompts(Find!PromptRaw(v.out), rank) :
            /\ Find!Answer(v.q, v.about, kept, v.began, v.top)
            /\ cache' \in IF kept = {} THEN {cache}
                          ELSE Find!Put(v.key, [about |-> v.about, snippets |-> kept])
  BY <1>2 DEF Find!Rank
<1>3. PICK kept \in Find!Prompts(Find!PromptRaw(v.out), rank) :
         /\ Find!Answer(v.q, v.about, kept, v.began, v.top)
         /\ cache' \in IF kept = {} THEN {cache}
                       ELSE Find!Put(v.key, [about |-> v.about, snippets |-> kept])
  BY <1>3a
<1>4. Suits(v.out, v.began, now) /\ v.key[2] = v.began
  BY <1>2 DEF ReaderFits, Gathering
<1>5. kept \subseteq v.out
  BY <1>3, PromptIsCut DEF Find!PromptRaw
<1>6. Priced(kept)
  BY <1>0, <1>3, <1>4, PromptIsPriced DEF FindStore, Suits
<1>7. Suits(kept, v.began, now)
  BY <1>4, <1>5 DEF Suits
<1>8. Suits(kept, v.began, now - Ttl + 1)
  <2>1. now \in Int /\ now - Ttl + 1 \in Int /\ now - Ttl + 1 <= now
    BY <1>0
  <2> QED
    BY <1>0, <1>7, <2>1, SuitsLonger
<1>9. \A h \in cache' : EntryFits(h)
  <2>1. PICK e : e = [key |-> v.key, value |-> [about |-> v.about, snippets |-> kept],
                      expires |-> now + Ttl]
    OBVIOUS
  <2>2. EntryFits(e)
    <3>1. /\ e.expires = now + Ttl /\ e.key[2] = v.began /\ e.value.snippets = kept
      BY <1>4, <2>1
    <3>2. e.expires \in Int /\ e.expires <= now + Ttl /\ e.expires - Ttl = now
      BY <1>0, <3>1
    <3> QED
      BY <1>6, <1>7, <3>1, <3>2 DEF EntryFits
  <2>3. cache' \subseteq cache \cup {e}
    BY <1>3, <2>1, PutAdds
  <2> QED
    BY <2>2, <2>3 DEF FindInv
<1> QED
  BY <1>1, <1>3, <1>6, <1>8, <1>9, FindAnswers

LEMMA FindTicks ==
  ASSUME FindInv, Find!Tick
  PROVE  FindInv'
<1>0. FindStore /\ now \in Nat /\ Ttl \in Nat \ {0}
  BY FindAssumed DEF FindInv, FindStore
<1>1. /\ UNCHANGED <<live, gone, vec, demoted, cache, rawPolicy, reader, shown>>
      /\ now' = now + 1 /\ reader.at = "idle"
  BY DEF Find!Tick, Find!storeVars
<1>2. FindStore'
  <2>1. \A a \in Atoms : gone[a] <= now + 1
    BY <1>0 DEF FindStore, Find!Never
  <2> QED
    BY <1>0, <1>1, <2>1 DEF FindStore, Find!Never
<1>3. ReaderFits(reader)'
  BY <1>1 DEF ReaderFits, Gathering
<1>4. ASSUME NEW h \in cache
      PROVE  EntryFits(h)'
  <2>1. EntryFits(h)
    BY DEF FindInv
  <2>2. h.expires <= now' + Ttl
    BY <1>0, <1>1, <2>1 DEF EntryFits
  <2> QED
    BY <1>1, <2>1, <2>2 DEF EntryFits, Priced, Find!Spent, Suits, Fresh, Snips, Find!Snip,
                            Find!DemotedRaw
<1>5. AnswerFits(shown)'
  <2>1. AnswerFits(shown)
    BY DEF FindInv
  <2>2. shown.q # "none" => shown.at <= now'
    BY <1>0, <1>1, <2>1 DEF AnswerFits
  <2> QED
    BY <1>1, <2>1, <2>2 DEF AnswerFits, Priced, Find!Spent, Suits, Fresh, Snips, Find!Snip,
                            Find!DemotedRaw
<1> QED
  BY <1>1, <1>2, <1>3, <1>4, <1>5 DEF FindInv

LEMMA FindStep == FindInv /\ [Next]_serviceVars => FindInv'
<1> SUFFICES ASSUME FindInv, [Next]_serviceVars PROVE FindInv'
  OBVIOUS
<1>1. CASE Find!Next
  BY <1>1, FindCallers, FindAsks, FindRoutes, FindGathers, FindRanks, FindTicks DEF Find!Next
<1>2. CASE UNCHANGED recallVars
  <2>1. StoreMoves
    BY <1>2 DEF recallVars, StoreMoves, FindInv, FindStore
  <2> QED
    BY <2>1, FindElsewhere
<1> QED
  BY <1>1, <1>2 DEF Next, serviceVars

LEMMA FindImplies == FindInv => RefutedStaysOut /\ AnswerIsFit
<1> SUFFICES ASSUME FindInv PROVE RefutedStaysOut /\ AnswerIsFit
  OBVIOUS
<1>0. FindStore /\ now \in Nat /\ Ttl \in Nat \ {0} /\ AnswerFits(shown)
  BY FindAssumed DEF FindInv, FindStore
<1>1. Find!DemotedStaysOut
  BY <1>0 DEF Find!DemotedStaysOut, Find!Answered, Find!ShownRaw, AnswerFits, Suits
<1>2. Find!StaleIsBrief
  <2> SUFFICES ASSUME Find!Answered, NEW a \in Find!ShownAtoms \ vec, gone[a] # Find!Never
               PROVE  shown.at - gone[a] < Ttl
    BY DEF Find!StaleIsBrief
  <2>1. PICK c \in shown.snippets : c.layer = "atom" /\ c.id = a
    BY DEF Find!ShownAtoms, Find!AtomsIn
  <2>2. Suits(shown.snippets, shown.began, shown.at - Ttl + 1) /\ shown.at \in Nat
    BY <1>0 DEF AnswerFits, Find!Answered
  <2>3. gone[a] >= shown.at - Ttl + 1
    BY <2>1, <2>2 DEF Suits, Fresh
  <2>4. a \in Atoms
    BY <2>1, <2>2 DEF Suits, Snips, Find!Snip
  <2>5. gone[a] \in Int
    BY <1>0, <2>4 DEF FindStore, Find!Never
  <2> QED
    BY <1>0, <2>2, <2>3, <2>5
<1>3. Find!BudgetHolds
  BY <1>0 DEF Find!BudgetHolds, Find!Answered, AnswerFits, Priced
<1> QED
  BY <1>1, <1>2, <1>3 DEF RefutedStaysOut, AnswerIsFit

(* No evidence that a review refuted before the question is in an answer,   *)
(* for any number of callers that write meanwhile and whatever the cache    *)
(* holds (pipeline/recall/suppress.py; pipeline/recall/cache.py).           *)
THEOREM RefutedIsUnseen == Spec => []RefutedStaysOut
BY FindInit, FindStep, FindImplies, PTL DEF Spec

(* Nor is an atom whose vector is gone shown one TTL after its retraction,   *)
(* and no prompt outgrows its budget, though atoms and raw events share a    *)
(* slice of it (pipeline/recall/cache.py; pipeline/recall/budget.py).        *)
THEOREM AnswersAreFit == Spec => []AnswerIsFit
BY FindInit, FindStep, FindImplies, PTL DEF Spec

-----------------------------------------------------------------------------
(***************************************************************************)
(* AtomStore, for merges and for the curation of an entity.  Its theorem   *)
(* about successors is used in the two instances that run here, whose      *)
(* actions are those of Merge and of Curate.                               *)
(***************************************************************************)

MergeP == INSTANCE AtomStoreProofs WITH Entities <- MergedEntities,
              Ranks <- MergedRanks, MaxAtoms <- MaxMerged, Creators <- {},
              Workers <- {}, Approvers <- {}, Retirers <- {}, Consolidators <- {}
CurateP == INSTANCE AtomStoreProofs WITH Entities <- CuratedEntities,
               Ranks <- CuratedRanks, MaxAtoms <- MaxCurated, Workers <- {},
               Replacers <- {}, Mergers <- {}, Fallbacks <- {}

(* At most one merge, and at most one consolidation, is under way.         *)
OnePlanner ==
    /\ \A s, t \in Mergers : s = t
    /\ \A s, t \in Consolidators : s = t

SuccessorInv == IF part = "merge" THEN MergeP!EndsInv ELSE CurateP!EndsInv

LEMMA MergeIsAssumed == MergeP!AtomStoreAssumption
BY MergeAssumed DEF Merge!AtomStoreAssumption, MergeP!AtomStoreAssumption

LEMMA CurateIsAssumed == CurateP!AtomStoreAssumption
BY CurateAssumed DEF Curate!AtomStoreAssumption, CurateP!AtomStoreAssumption

LEMMA MergeSteps == Merge!Next => MergeP!Next
<1> USE DEF Merge!Ids, MergeP!Ids, Merge!Idle, MergeP!Idle, Merge!Goto, MergeP!Goto,
           Merge!None, MergeP!None, Merge!Supersedable, MergeP!Supersedable
<1>1. ASSUME NEW s, NEW e, NEW t, NEW k, Merge!FallbackSave(s, e, t, k) PROVE MergeP!FallbackSave(s, e, t, k)
  BY <1>1 DEF Merge!FallbackSave, MergeP!FallbackSave, Merge!Row, MergeP!Row,
       Merge!Superseded, MergeP!Superseded, Merge!HasRoom, MergeP!HasRoom
<1>2. ASSUME NEW s, Merge!FallbackLink(s) PROVE MergeP!FallbackLink(s)
  BY <1>2 DEF Merge!FallbackLink, MergeP!FallbackLink
<1>3. ASSUME NEW s, Merge!Bump(s) PROVE MergeP!Bump(s)
  BY <1>3 DEF Merge!Bump, MergeP!Bump
<1>4. ASSUME NEW s, NEW a, NEW t, Merge!StartReplace(s, a, t) PROVE MergeP!StartReplace(s, a, t)
  BY <1>4 DEF Merge!StartReplace, MergeP!StartReplace, Merge!HasRoom, MergeP!HasRoom,
       Merge!Live, MergeP!Live
<1>5. ASSUME NEW s, Merge!Replace(s) PROVE MergeP!Replace(s)
  BY <1>5 DEF Merge!Replace, MergeP!Replace, Merge!Row, MergeP!Row, Merge!Superseded,
       MergeP!Superseded, Merge!HasRoom, MergeP!HasRoom
<1>6. ASSUME NEW s, Merge!RollBack(s) PROVE MergeP!RollBack(s)
  BY <1>6 DEF Merge!RollBack, MergeP!RollBack
<1>7. ASSUME NEW s, NEW e, NEW f, Merge!ReadMerge(s, e, f) PROVE MergeP!ReadMerge(s, e, f)
  BY <1>7 DEF Merge!ReadMerge, MergeP!ReadMerge, Merge!Live, MergeP!Live,
       Merge!MergeKeeper, MergeP!MergeKeeper
<1>8. ASSUME NEW s, Merge!Merge(s) PROVE MergeP!Merge(s)
  BY <1>8 DEF Merge!Merge, MergeP!Merge, Merge!Migrated, MergeP!Migrated,
       Merge!Cardinality, MergeP!Cardinality, Merge!IsFiniteSet, MergeP!IsFiniteSet
<1>9. ASSUME NEW s, Merge!GrowTarget(s) PROVE MergeP!GrowTarget(s)
  BY <1>9 DEF Merge!GrowTarget, MergeP!GrowTarget
<1>10. ASSUME NEW s, Merge!ReadSource(s) PROVE MergeP!ReadSource(s)
  BY <1>10 DEF Merge!ReadSource, MergeP!ReadSource
<1>11. ASSUME NEW s, Merge!Crash(s) PROVE MergeP!Crash(s)
  BY <1>11 DEF Merge!Crash, MergeP!Crash
<1> QED
  BY <1>1, <1>2, <1>3, <1>4, <1>5, <1>6, <1>7, <1>8, <1>9, <1>10, <1>11
     DEF Merge!Next, MergeP!Next, Merge!PromoterStep, MergeP!PromoterStep,
         Merge!UserStep, MergeP!UserStep, Merge!CleanupStep, MergeP!CleanupStep,
         Merge!Sessions, MergeP!Sessions

LEMMA CurateSteps == Curate!Next => CurateP!Next
<1> USE DEF Curate!Ids, CurateP!Ids, Curate!Idle, CurateP!Idle, Curate!Goto,
           CurateP!Goto, Curate!None, CurateP!None, Curate!Supersedable,
           CurateP!Supersedable
<1>1. ASSUME NEW e, NEW t, NEW k, Curate!Create(e, t, k) PROVE CurateP!Create(e, t, k)
  BY <1>1 DEF Curate!Create, CurateP!Create, Curate!Live, CurateP!Live, Curate!Row,
       CurateP!Row, Curate!Superseded, CurateP!Superseded, Curate!HasRoom,
       CurateP!HasRoom
<1>2. ASSUME NEW s, NEW e, NEW t, NEW k, Curate!CheckDuplicate(s, e, t, k) PROVE CurateP!CheckDuplicate(s, e, t, k)
  BY <1>2 DEF Curate!CheckDuplicate, CurateP!CheckDuplicate, Curate!Live, CurateP!Live,
       Curate!HasRoom, CurateP!HasRoom
<1>3. ASSUME NEW s, Curate!CheckConflict(s) PROVE CurateP!CheckConflict(s)
  BY <1>3 DEF Curate!CheckConflict, CurateP!CheckConflict, Curate!Live, CurateP!Live,
       Curate!Conflicting, CurateP!Conflicting
<1>4. ASSUME NEW s, Curate!Write(s) PROVE CurateP!Write(s)
  BY <1>4 DEF Curate!Write, CurateP!Write, Curate!Row, CurateP!Row, Curate!Superseded,
       CurateP!Superseded, Curate!HasRoom, CurateP!HasRoom
<1>5. ASSUME NEW s, Curate!RollBack(s) PROVE CurateP!RollBack(s)
  BY <1>5 DEF Curate!RollBack, CurateP!RollBack
<1>6. ASSUME NEW s, NEW a, Curate!StartDeprecate(s, a) PROVE CurateP!StartDeprecate(s, a)
  BY <1>6 DEF Curate!StartDeprecate, CurateP!StartDeprecate
<1>7. ASSUME NEW s, NEW a, Curate!DeleteLeaf(s, a) PROVE CurateP!DeleteLeaf(s, a)
  BY <1>7 DEF Curate!DeleteLeaf, CurateP!DeleteLeaf
<1>8. ASSUME NEW s, Curate!ReadDeleted(s) PROVE CurateP!ReadDeleted(s)
  BY <1>8 DEF Curate!ReadDeleted, CurateP!ReadDeleted
<1>9. ASSUME NEW s, Curate!Deprecate(s) PROVE CurateP!Deprecate(s)
  BY <1>9 DEF Curate!Deprecate, CurateP!Deprecate
<1>10. ASSUME NEW s, Curate!Bump(s) PROVE CurateP!Bump(s)
  BY <1>10 DEF Curate!Bump, CurateP!Bump
<1>11. ASSUME NEW s, NEW e, Curate!ReadCluster(s, e) PROVE CurateP!ReadCluster(s, e)
  BY <1>11 DEF Curate!ReadCluster, CurateP!ReadCluster, Curate!Live, CurateP!Live,
       Curate!Clusters, CurateP!Clusters, Curate!Connected, CurateP!Connected,
       Curate!IsKeeper, CurateP!IsKeeper, Curate!Outranks, CurateP!Outranks,
       Curate!Cardinality, CurateP!Cardinality, Curate!IsFiniteSet,
       CurateP!IsFiniteSet
<1>12. ASSUME NEW s, NEW a, Curate!SupersedeLoser(s, a) PROVE CurateP!SupersedeLoser(s, a)
  BY <1>12 DEF Curate!SupersedeLoser, CurateP!SupersedeLoser, Curate!Superseded,
       CurateP!Superseded, Curate!NextLoser, CurateP!NextLoser
<1>13. ASSUME NEW s, Curate!UnfileLoser(s) PROVE CurateP!UnfileLoser(s)
  BY <1>13 DEF Curate!UnfileLoser, CurateP!UnfileLoser, Curate!NextLoser, CurateP!NextLoser
<1>14. ASSUME NEW s, Curate!Crash(s) PROVE CurateP!Crash(s)
  BY <1>14 DEF Curate!Crash, CurateP!Crash
<1> QED
  BY <1>1, <1>2, <1>3, <1>4, <1>5, <1>6, <1>7, <1>8, <1>9, <1>10, <1>11, <1>12,
     <1>13, <1>14
     DEF Curate!Next, CurateP!Next, Curate!PromoterStep, CurateP!PromoterStep,
         Curate!UserStep, CurateP!UserStep, Curate!CleanupStep, CurateP!CleanupStep,
         Curate!Sessions, CurateP!Sessions

LEMMA SuccessorInit == Init => SuccessorInv
<1> SUFFICES ASSUME Init PROVE SuccessorInv
  OBVIOUS
<1>1. CASE part = "merge"
  <2>1. MergeP!Init
    BY <1>1 DEF Init, Merge!Init, MergeP!Init, Merge!Sessions, MergeP!Sessions,
                Merge!Idle, MergeP!Idle
  <2> QED
    BY <1>1, <2>1, MergeIsAssumed, MergeP!EndsStart DEF SuccessorInv
<1>2. CASE part # "merge"
  <2>1. CurateP!Init
    BY <1>2 DEF Init, Curate!Init, CurateP!Init, Curate!Sessions, CurateP!Sessions,
                Curate!Idle, CurateP!Idle
  <2> QED
    BY <1>2, <2>1, CurateIsAssumed, CurateP!EndsStart DEF SuccessorInv
<1> QED
  BY <1>1, <1>2

LEMMA SuccessorStep == OnePlanner /\ SuccessorInv /\ [Next]_serviceVars => SuccessorInv'
<1> SUFFICES ASSUME OnePlanner, SuccessorInv, [Next]_serviceVars PROVE SuccessorInv'
  OBVIOUS
<1>1. part' = part
  BY DEF Next, serviceVars
<1>2. CASE part = "merge"
  <2>1. MergeP!OnePlanner
    BY DEF OnePlanner, MergeP!OnePlanner, MergeP!Planners
  <2>2. Merge!Next \/ UNCHANGED atomVars
    BY <1>2 DEF Next, serviceVars
  <2>3. [MergeP!Next]_MergeP!vars
    BY <2>2, MergeSteps DEF MergeP!vars, atomVars
  <2> QED
    BY <1>1, <1>2, <2>1, <2>3, MergeIsAssumed, MergeP!EndsStep DEF SuccessorInv
<1>3. CASE part # "merge"
  <2>1. CurateP!OnePlanner
    BY DEF OnePlanner, CurateP!OnePlanner, CurateP!Planners
  <2>2. Curate!Next \/ UNCHANGED atomVars
    BY <1>3 DEF Next, serviceVars
  <2>3. [CurateP!Next]_CurateP!vars
    BY <2>2, CurateSteps DEF CurateP!vars, atomVars
  <2> QED
    BY <1>1, <1>3, <2>1, <2>3, CurateIsAssumed, CurateP!EndsStep DEF SuccessorInv
<1> QED
  BY <1>2, <1>3

(* Following the successors of an atom ends, when one merge runs among any *)
(* number of corrections and fallback passes, and when one consolidation   *)
(* runs among any number of creations, approvals and deprecations          *)
(* (core.py, merge_entity; pipeline/lifecycle/consolidate.py).             *)
THEOREM SuccessionIsSound == OnePlanner => (Spec => []SupersessionEnds)
<1> SUFFICES ASSUME OnePlanner PROVE Spec => []SupersessionEnds
  OBVIOUS
<1>1. SuccessorInv => SupersessionEnds
  BY DEF SuccessorInv, SupersessionEnds, MergeP!EndsInv, CurateP!EndsInv,
         Merge!SupersessionEnds, MergeP!SupersessionEnds, Merge!Ids, MergeP!Ids,
         Curate!SupersessionEnds, CurateP!SupersessionEnds, Curate!Ids, CurateP!Ids
<1> QED
  BY <1>1, SuccessorInit, SuccessorStep, PTL DEF Spec
=============================================================================
