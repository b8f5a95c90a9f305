--------------------------- MODULE BundleTransfer ---------------------------
(* Moving memory between hosts: `portable pack` exports a namespace into a   *)
(* package, `portable adopt` imports it into another one.  The export reads   *)
(* one table after the other while the host goes on writing; the import       *)
(* commits row by row, passes over rows that it reports, and may meet an      *)
(* unreadable record or die at any point; then it is run again.  A namespace  *)
(* is a database file with a write-ahead log.                                 *)
(* An atom's row stands for its raw events and its candidate too.  A row is   *)
(* there or not: that an import leaves an atom as it is and replaces a page   *)
(* makes no difference here.  Named bounds: MaxPacks, no package is taken     *)
(* back into the namespace it came from, and a row shares no page of the      *)
(* file with another.                                                         *)
EXTENDS Integers, FiniteSets, Sequences

CONSTANTS Names, Entities, Atoms, Pages,
          Owner,         \* [Atoms \cup Pages -> Entities]
          MaxPacks

Rows == Entities \cup Atoms \cup Pages
TransferAssumption ==
    /\ Owner \in [Atoms \cup Pages -> Entities] /\ MaxPacks \in Nat
    /\ Atoms \cap Pages = {} /\ (Atoms \cup Pages) \cap Entities = {}

VARIABLES store,    \* [Names -> the rows a reader finds]
          journal,  \* [Names -> migration_in rows: id, package adopted; what it
                    \* held and which rows were reported (history, empty for a
                    \* row that came with another package)]
          main,     \* [Names -> [rows, journal] of the main file, without its log]
          packs,    \* the package files
          packer,   \* the running export
          adopter,  \* the running import
          gone      \* [Names -> rows the namespace has purged] (history)

transferVars == <<store, journal, main, packs, packer, adopter, gone>>
Idle == [at |-> "idle"]
Empty == [rows |-> {}, journal |-> {}]

Init == /\ store = [n \in Names |-> {}] /\ journal = [n \in Names |-> {}]
        /\ main = [n \in Names |-> Empty] /\ gone = [n \in Names |-> {}]
        /\ packs = {} /\ packer = Idle /\ adopter = Idle

Recorded(n) == {j.id : j \in journal[n]}
Ever(n) == store[n] \cup gone[n]
----------------------------------------------------------------------------
(* The hosts.  An identifier is made once. *)
Promote(n, r) ==
    /\ r \in Atoms \cup Pages /\ \A m \in Names : r \notin Ever(m)
    /\ store' = [store EXCEPT ![n] = @ \cup {r, Owner[r]}]
    /\ UNCHANGED <<journal, main, packs, packer, adopter, gone>>

(* An atom is retracted and, after its time, deleted.                       *)
Purge(n, a) == /\ a \in store[n]
               /\ store' = [store EXCEPT ![n] = @ \ {a}]
               /\ gone' = [gone EXCEPT ![n] = @ \cup {a}]
               /\ UNCHANGED <<journal, main, packs, packer, adopter>>

(* SQLite moves the log into the main file, by itself.                      *)
MoveLog(n) == /\ main' = [main EXCEPT ![n] = [rows |-> store[n], journal |-> journal[n]]]
              /\ main' # main
              /\ UNCHANGED <<store, journal, packs, packer, adopter, gone>>
----------------------------------------------------------------------------
(* pack: the tables in EXPORT_TABLES order, the journal last. *)
Tables == <<Entities, Atoms, Pages>>

BeginPack(n) == /\ packer.at = "idle" /\ Cardinality(packs) < MaxPacks /\ store[n] # {}
                /\ packer' = [at |-> "table", table |-> 1, from |-> n, rows |-> {}]
                /\ UNCHANGED <<store, journal, main, packs, adopter, gone>>

ReadTable ==
    /\ packer.at = "table" /\ packer.table <= Len(Tables)
    /\ packer' = [packer EXCEPT !.table = @ + 1,
                                !.rows = @ \cup (Tables[packer.table] \cap store[packer.from])]
    /\ UNCHANGED <<store, journal, main, packs, adopter, gone>>

EndPack == /\ packer.at = "table" /\ packer.table > Len(Tables)
           /\ packs' = packs \cup {[id |-> Cardinality(packs) + 1, from |-> packer.from,
                                    rows |-> packer.rows, journal |-> Recorded(packer.from)]}
           /\ packer' = Idle
           /\ UNCHANGED <<store, journal, main, adopter, gone>>
----------------------------------------------------------------------------
(* adopt.  The backup is a copy of the main file.                           *)
Importing(n, p) == [at |-> "import", into |-> n, pack |-> p, todo |-> p.rows, failed |-> {},
                    backup |-> main[n]]
Record(p, failed) == [id |-> p.id, rows |-> p.rows, failed |-> failed]

AdoptJournalled(n, p) ==
    /\ adopter.at = "idle" /\ p.id \notin Recorded(n)
    /\ adopter' = Importing(n, p)
    /\ journal' = [journal EXCEPT ![n] = @ \cup {Record(p, {})}]
    /\ UNCHANGED <<store, main, packs, packer, gone>>
Adopt(n, p) ==
    /\ adopter.at = "idle" /\ p.id \notin Recorded(n)
    /\ adopter' = Importing(n, p)
    /\ UNCHANGED <<store, journal, main, packs, packer, gone>>

InOrder(r) == \A i, j \in 1 .. Len(Tables) :
                  i < j /\ r \in Tables[j] => adopter.todo \cap Tables[i] = {}

(* A row is stored, or was there already.                                   *)
ImportRow(r) ==
    /\ adopter.at = "import" /\ r \in adopter.todo /\ InOrder(r)
    /\ store' = [store EXCEPT ![adopter.into] = @ \cup {r}]
    /\ adopter' = [adopter EXCEPT !.todo = @ \ {r}]
    /\ UNCHANGED <<journal, main, packs, packer, gone>>

(* A row with a field missing or malformed is not stored; the import reports *)
(* it and goes on.                                                           *)
ReportRow(r) ==
    /\ adopter.at = "import" /\ r \in adopter.todo /\ InOrder(r)
    /\ adopter' = [adopter EXCEPT !.todo = @ \ {r}, !.failed = @ \cup {r}]
    /\ UNCHANGED <<store, journal, main, packs, packer, gone>>

(* The journal is a table like the others: its migration_in rows come along. *)
ImportJournal ==
    /\ adopter.at = "import" /\ adopter.todo = {}
    /\ journal' = [journal EXCEPT ![adopter.into] =
                      @ \cup {[id |-> i, rows |-> {}, failed |-> {}] : i \in adopter.pack.journal}]
    /\ adopter' = [adopter EXCEPT !.at = "done"]
    /\ UNCHANGED <<store, main, packs, packer, gone>>

(* _write_migration_journal: whatever was reported, and best effort.        *)
Finish ==
    /\ adopter.at = "done" /\ adopter' = Idle
    /\ \/ journal' = [journal EXCEPT ![adopter.into] = @ \cup {Record(adopter.pack, adopter.failed)}]
       \/ UNCHANGED journal
    /\ UNCHANGED <<store, main, packs, packer, gone>>

(* An unreadable record: the backup is copied over the main file, under open *)
(* connections and beside the log.  What the log holds is read as before,    *)
(* the rest is as in the backup.                                             *)
Differs(here, there) == (here \ there) \cup (there \ here)
Restored(here, file, backup) == (here \cap Differs(here, file)) \cup (backup \ Differs(here, file))

Fail ==
    /\ adopter.at = "import" /\ adopter' = Idle
    /\ LET n == adopter.into
       IN  /\ store' = [store EXCEPT ![n] = Restored(@, main[n].rows, adopter.backup.rows)]
           /\ journal' = [journal EXCEPT ![n] = Restored(@, main[n].journal, adopter.backup.journal)]
           /\ main' = [main EXCEPT ![n] = adopter.backup]
    /\ UNCHANGED <<packs, packer, gone>>

Crash == /\ adopter.at \in {"import", "done"} /\ adopter' = Idle
         /\ UNCHANGED <<store, journal, main, packs, packer, gone>>

Next == \/ \E n \in Names : \/ \E r \in Rows : Promote(n, r)
                            \/ \E a \in Atoms : Purge(n, a)
                            \/ MoveLog(n) \/ BeginPack(n)
                            \/ \E p \in packs : p.from # n /\ Adopt(n, p)
        \/ ReadTable \/ EndPack
        \/ \E r \in Rows : ImportRow(r) \/ ReportRow(r)
        \/ ImportJournal \/ Finish \/ Fail \/ Crash

Spec == Init /\ [][Next]_transferVars
----------------------------------------------------------------------------
(* An adoption that is on record brought every row of its package but those *)
(* it reported, also if it took several attempts and a backup was restored   *)
(* between them: a package is not taken for adopted because an import of it  *)
(* was begun, and no restored backup takes rows away and leaves the record.  *)
AdoptedMeansImported ==
    \A n \in Names : \A j \in journal[n] : j.rows \ j.failed \subseteq Ever(n)

(* After a failed import the target is as it was before                      *)
(* (operations/migration/portable/adopter.py:411).                            *)
RestoreUndoes ==
    [][adopter.at = "import" /\ Fail => store'[adopter.into] \subseteq adopter.backup.rows]_transferVars

(* In a package every atom and page comes with its entity                    *)
(* (operations/migration/__init__.py:30).                                     *)
PackIsClosed == \A p \in packs : \A r \in (Atoms \cup Pages) \cap p.rows : Owner[r] \in p.rows

(* A package refused as adopted before has been in the namespace.            *)
RefusedWasAdopted == \A n \in Names, p \in packs :
    p.id \in Recorded(n) => \E j \in journal[n] : j.id = p.id /\ j.rows = p.rows

(* What a person retracted, and the namespace has deleted, does not come back *)
(* with a package.                                                            *)
PurgedStaysGone == \A n \in Names : store[n] \cap gone[n] = {}
============================================================================
