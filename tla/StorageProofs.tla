--------------------------- MODULE StorageProofs ---------------------------
EXTENDS Storage, SequenceTheorems, FiniteSetTheorems, TLAPS

-----------------------------------------------------------------------------
(* SqliteSession: a call or transaction is durable whole, or not at all.   *)

SessShape ==
    /\ fate \in [Calls \cup Blocks -> {"new", "running", "done", "failed"}]
    /\ holder \in Calls \cup Blocks \cup {Sess!NoOne}

(* Whoever runs has the lock, and only a block runs in a transaction.      *)
SessLocked ==
    /\ \A c \in Calls \cup Blocks : fate[c] = "running" <=> holder = c
    /\ explicit => holder \in Blocks

(* What is not yet committed was written by the one that has the lock.     *)
SessOwnWrites ==
    /\ holder \in Calls => written \subseteq {holder}
    /\ holder \in Blocks => /\ written \subseteq {<<holder, 1>>, <<holder, 2>>}
                            /\ <<holder, 2>> \in written => <<holder, 1>> \in written
    /\ holder = Sess!NoOne => written = {}

(* What is durable is what succeeded.                                      *)
SessKept ==
    /\ \A c \in Calls : c \in durable <=> fate[c] = "done"
    /\ \A k \in Blocks, i \in {1, 2} : <<k, i>> \in durable <=> fate[k] = "done"

SessInv == SessShape /\ SessLocked /\ SessOwnWrites /\ SessKept

LEMMA SessInit == Init => SessInv
BY SessionAssumed DEF Init, Sess!Init, Sess!NoOne, Sess!SessionAssumption, SessInv,
   SessShape, SessLocked, SessOwnWrites, SessKept

(* Names of calls and blocks, and writes of blocks, are told apart.        *)
LEMMA SessNames ==
  /\ \A c \in Calls, k \in Blocks : c # k
  /\ \A c \in Calls \cup Blocks : c # Sess!NoOne
  /\ \A c \in Calls, k \in Blocks, i \in {1, 2} : c # <<k, i>>
BY SessionAssumed DEF Sess!SessionAssumption

(* A step that takes the lock, or writes under it, keeps what is durable.  *)
LEMMA SessCallInv ==
  ASSUME SessInv, NEW c \in Calls,
         Sess!Begin(c) \/ Sess!Write(c) \/ Sess!Commit(c) \/ Sess!Fail(c)
  PROVE  SessInv'
<1> USE SessNames DEF SessInv, SessShape, SessLocked, SessOwnWrites, SessKept
<1>1. CASE Sess!Begin(c)
  BY <1>1 DEF Sess!Begin
<1>2. CASE Sess!Write(c)
  BY <1>2 DEF Sess!Write
<1>3. CASE Sess!Commit(c)
  BY <1>3 DEF Sess!Commit, Sess!Ends
<1>4. CASE Sess!Fail(c)
  BY <1>4 DEF Sess!Fail, Sess!Ends
<1> QED
  BY <1>1, <1>2, <1>3, <1>4

LEMMA SessBlockInv ==
  ASSUME SessInv, NEW k \in Blocks,
         Sess!BeginBlock(k) \/ Sess!BlockWrites(k) \/ Sess!CommitBlock(k) \/ Sess!FailBlock(k)
  PROVE  SessInv'
<1> USE SessNames DEF SessInv, SessShape, SessLocked, SessOwnWrites, SessKept
<1>1. CASE Sess!BeginBlock(k)
  BY <1>1 DEF Sess!BeginBlock
<1>2. CASE Sess!BlockWrites(k)
  BY <1>2 DEF Sess!BlockWrites
<1>3. CASE Sess!CommitBlock(k)
  BY <1>3 DEF Sess!CommitBlock, Sess!Ends
<1>4. CASE Sess!FailBlock(k)
  BY <1>4 DEF Sess!FailBlock, Sess!Ends
<1> QED
  BY <1>1, <1>2, <1>3, <1>4

LEMMA SessStep == SessInv /\ [Next]_storageVars => SessInv'
<1> SUFFICES ASSUME SessInv, [Next]_storageVars PROVE SessInv'
  OBVIOUS
<1>1. CASE Sess!Next
  <2>1. CASE Sess!Shut
    BY <2>1 DEF Sess!Shut, SessInv, SessShape, SessLocked, SessOwnWrites, SessKept
  <2>2. CASE Sess!Sweep
    BY <2>2, SessNames DEF Sess!Sweep, SessInv, SessShape, SessLocked, SessOwnWrites, SessKept
  <2> QED
    BY <1>1, <2>1, <2>2, SessCallInv, SessBlockInv DEF Sess!Next
<1>2. CASE UNCHANGED sessVars
  BY <1>2 DEF sessVars, SessInv, SessShape, SessLocked, SessOwnWrites, SessKept
<1> QED
  BY <1>1, <1>2 DEF Next, storageVars

(* What a caller of SQLite was told is what the file keeps, for any number *)
(* of threads and transactions (storage/backends/sqlite.py, transaction).  *)
THEOREM CallsAreWhole == Spec => []AllOrNothing
<1>1. SessInv => AllOrNothing
  BY DEF SessInv, SessKept, AllOrNothing, Sess!AllOrNothing
<1> QED
  BY <1>1, SessInit, SessStep, PTL DEF Spec

-----------------------------------------------------------------------------
(* PostgresBoot: no row of an old schema is lost, and a namespace that has *)
(* been opened can be opened again.                                        *)

PostShape ==
    /\ legacy \in [Tenants -> Legacies \cup {Post!NoSchema}]
    /\ DOMAIN shared = Tenants /\ DOMAIN boot = Tenants /\ DOMAIN firstRows = Tenants
    /\ DOMAIN backups = {Backup[ns] : ns \in Tenants}
    /\ \A b \in DOMAIN backups : ~backups[b].exists => backups[b].rows = {}

(* An old row that is in the shared tables, and that no program wrote      *)
(* there, came with all the others.                                        *)
CopiedWholeOf(ns) ==
    (\E row \in Post!Copied(ns) \cap shared[ns] : row[1] \notin {"raw", "node"})
        => Post!Copied(ns) \subseteq shared[ns]
CopiedWhole == \A ns \in Tenants : CopiedWholeOf(ns)

PostInv == PostShape /\ Post!LegacyKept /\ CopiedWhole /\ Post!BootsAgain

LEMMA PostInit == Init => PostInv
BY DEF Init, Post!Init, PostInv, PostShape, CopiedWhole, CopiedWholeOf, Post!Copied, Post!LegacyKept,
   Post!BootsAgain, Post!NoSchema

(* Putting the old schema away under its backup name loses nothing.        *)
LEMMA RenamedKeeps ==
  ASSUME PostShape, NEW ns \in Tenants, legacy[ns].exists, Post!Renamed(ns)
  PROVE  /\ legacy' \in [Tenants -> Legacies \cup {Post!NoSchema}]
         /\ DOMAIN backups' = DOMAIN backups
         /\ \A b \in DOMAIN backups : ~backups'[b].exists => backups'[b].rows = {}
         /\ \A m \in Tenants : legacy'[m] # legacy[m] => m = ns /\ legacy'[m] = Post!NoSchema
         /\ \A m \in Tenants : legacy[m].rows \cup backups[Backup[m]].rows
                               \subseteq legacy'[m].rows \cup backups'[Backup[m]].rows
<1>1. CASE backups[Backup[ns]].exists
  BY <1>1 DEF PostShape, Post!Renamed
<1>2. CASE ~backups[Backup[ns]].exists
  <2>1. /\ backups' = [backups EXCEPT ![Backup[ns]] = legacy[ns]]
        /\ legacy' = [legacy EXCEPT ![ns] = Post!NoSchema]
        /\ backups[Backup[ns]].rows = {} /\ Backup[ns] \in DOMAIN backups
    BY <1>2 DEF PostShape, Post!Renamed
  <2>2. /\ legacy' \in [Tenants -> Legacies \cup {Post!NoSchema}]
        /\ \A m \in Tenants : legacy'[m] = IF m = ns THEN Post!NoSchema ELSE legacy[m]
    BY <2>1 DEF PostShape
  <2>3. /\ DOMAIN backups' = DOMAIN backups
        /\ \A b \in DOMAIN backups :
              backups'[b] = IF b = Backup[ns] THEN legacy[ns] ELSE backups[b]
    BY <2>1
  <2>4. \A m \in Tenants : Backup[m] \in DOMAIN backups
    BY DEF PostShape
  <2> QED
    BY <2>1, <2>2, <2>3, <2>4 DEF PostShape
<1> QED
  BY <1>1, <1>2

LEMMA MigrateInv ==
  ASSUME PostInv, NEW ns \in Tenants, Post!Migrate(ns)
  PROVE  PostInv'
<1>1. CASE legacy[ns].uuid
  <2>1. /\ Post!Renamed(ns) /\ boot' = [boot EXCEPT ![ns] = "up"] /\ legacy[ns].exists
        /\ UNCHANGED <<shared, firstRows>>
    BY <1>1 DEF Post!Migrate
  <2>2. PostShape' /\ Post!LegacyKept' /\ Post!BootsAgain'
    BY <2>1, RenamedKeeps DEF PostInv, PostShape, Post!LegacyKept, Post!BootsAgain, Post!NoSchema
  <2>3. CopiedWhole'
    <3> SUFFICES ASSUME NEW m \in Tenants PROVE CopiedWholeOf(m)'
      BY DEF CopiedWhole
    <3>1. CASE legacy'[m] = legacy[m]
      BY <2>1, <3>1 DEF PostInv, CopiedWhole, CopiedWholeOf, Post!Copied
    <3>2. CASE legacy'[m] = Post!NoSchema
      BY <3>2 DEF CopiedWholeOf, Post!Copied, Post!NoSchema
    <3> QED
      BY <2>1, <3>1, <3>2, RenamedKeeps DEF PostInv
  <2> QED
    BY <2>2, <2>3 DEF PostInv
<1>2. CASE ~legacy[ns].uuid /\ Post!InUse(ns)
  BY <1>2 DEF Post!Migrate, PostInv, PostShape, CopiedWhole, CopiedWholeOf, Post!Copied,
     Post!LegacyKept, Post!BootsAgain
<1>3. CASE ~legacy[ns].uuid /\ ~Post!InUse(ns) /\ Post!Copied(ns) \cap shared[ns] # {}
  <2>1. Post!Copied(ns) \subseteq shared[ns]
    BY <1>3 DEF PostInv, CopiedWhole, CopiedWholeOf, Post!InUse
  <2>2. \A row \in legacy[ns].rows : row[1] \notin {"raw", "node"}
    BY <1>3, <2>1 DEF Post!InUse, Post!Copied
  <2> QED
    BY <1>3, <2>2 DEF Post!Migrate, PostInv, PostShape, CopiedWhole, CopiedWholeOf, Post!Copied,
       Post!LegacyKept, Post!BootsAgain
<1>4. CASE ~legacy[ns].uuid /\ ~Post!InUse(ns) /\ Post!Copied(ns) \cap shared[ns] = {}
  <2>1. /\ Post!Renamed(ns) /\ boot' = [boot EXCEPT ![ns] = "up"]
        /\ shared' = [shared EXCEPT ![ns] = @ \cup Post!Copied(ns)]
        /\ legacy[ns].exists /\ UNCHANGED firstRows
    BY <1>4 DEF Post!Migrate
  <2>2. PostShape' /\ Post!LegacyKept' /\ Post!BootsAgain'
    BY <2>1, RenamedKeeps DEF PostInv, PostShape, Post!LegacyKept, Post!BootsAgain, Post!NoSchema
  <2>3. CopiedWhole'
    <3> SUFFICES ASSUME NEW m \in Tenants PROVE CopiedWholeOf(m)'
      BY DEF CopiedWhole
    <3>1. CASE legacy'[m] = Post!NoSchema
      BY <3>1 DEF CopiedWholeOf, Post!Copied, Post!NoSchema
    <3>2. CASE legacy'[m] = legacy[m] /\ m = ns
      BY <2>1, <3>2 DEF PostInv, PostShape, CopiedWholeOf, Post!Copied
    <3>3. CASE legacy'[m] = legacy[m] /\ m # ns
      BY <2>1, <3>3 DEF PostInv, PostShape, CopiedWhole, CopiedWholeOf, Post!Copied
    <3> QED
      BY <2>1, <3>1, <3>2, <3>3, RenamedKeeps DEF PostInv
  <2> QED
    BY <2>2, <2>3 DEF PostInv
<1> QED
  BY <1>1, <1>2, <1>3, <1>4

(* A row that a program writes is new, unless it is raw, a node or meta.   *)
LEMMA WriteInv ==
  ASSUME PostInv, NEW ns \in Tenants, NEW tab \in OldTabs, NEW id \in OldIds,
         Post!Write(ns, <<tab, id>>)
  PROVE  PostInv'
<1>1. \A row \in Post!Copied(ns) : row[1] \in {"raw", "node"} \/ row # <<tab, id>>
  BY BootAssumed DEF Post!BootAssumption, PostInv, PostShape, Post!Copied, Post!NoSchema
<1> QED
  BY <1>1 DEF Post!Write, PostInv, PostShape, CopiedWhole, CopiedWholeOf, Post!Copied, Post!LegacyKept,
     Post!BootsAgain

LEMMA PurgeInv ==
  ASSUME PostInv, NEW ns \in Tenants, Post!Purge(ns)
  PROVE  PostInv'
BY DEF Post!Purge, PostInv, PostShape, CopiedWhole, CopiedWholeOf, Post!Copied, Post!LegacyKept,
   Post!BootsAgain

LEMMA PostStep == PostInv /\ [Next]_storageVars => PostInv'
<1> SUFFICES ASSUME PostInv, [Next]_storageVars PROVE PostInv'
  OBVIOUS
<1>1. ASSUME NEW ns \in Tenants, Post!InitSchema(ns) \/ Post!NoLegacy(ns) \/ Post!Down(ns)
      PROVE  PostInv'
  BY <1>1 DEF Post!InitSchema, Post!NoLegacy, Post!Down, PostInv, PostShape, CopiedWhole, CopiedWholeOf,
     Post!Copied, Post!LegacyKept, Post!BootsAgain
<1>2. CASE Post!Grant
  BY <1>2 DEF Post!Grant, PostInv, PostShape, CopiedWhole, CopiedWholeOf, Post!Copied, Post!LegacyKept,
     Post!BootsAgain
<1>3. CASE Post!Next
  BY <1>1, <1>2, <1>3, MigrateInv, WriteInv, PurgeInv DEF Post!Next
<1>4. CASE UNCHANGED postVars
  BY <1>4 DEF postVars, PostInv, PostShape, CopiedWhole, CopiedWholeOf, Post!Copied, Post!LegacyKept,
     Post!BootsAgain
<1> QED
  BY <1>3, <1>4 DEF Next, storageVars

(* Whatever tenants share a backup name, and whoever boots, writes, purges *)
(* and crashes, old rows are kept and boots go on to succeed               *)
(* (storage/backends/postgres.py, the migration).                          *)
THEOREM MigrationIsSafe == Spec => []PostgresOpensWhole
<1>1. PostInv => PostgresOpensWhole
  BY DEF PostInv, PostgresOpensWhole
<1> QED
  BY <1>1, PostInit, PostStep, PTL DEF Spec

-----------------------------------------------------------------------------
(* SqliteBoot: the text index is whole, and a lone opener succeeds.        *)

OpenerState ==
    [pc : {"closed", "tables", "look", "alter", "page", "version", "drop", "create",
           "rebuild", "journal", "index", "stamp", "open", "failed"},
     missing : SUBSET {"metadata", "atom_id"}, alone : BOOLEAN]

LiteShape ==
    /\ db \in Lite!FileType /\ torn \in BOOLEAN
    /\ opener \in [Openers -> OpenerState]

(* What an opener that is alone found missing is missing still.            *)
LiteAlone ==
    \A o \in Openers : opener[o].alone =>
        /\ Lite!Booting(o) => \A q \in Openers \ {o} : ~Lite!Booting(q)
        /\ Lite!At(o, "alter") => opener[o].missing \cap db.cols = {}
        /\ Lite!At(o, "index") => db.jidx = "none"
        /\ ~Lite!At(o, "failed")

(* Nobody gets past the rebuild but with a current file.                   *)
LiteCurrent ==
    \A o \in Openers : opener[o].pc \in {"journal", "index", "stamp", "open"} => db.ver = 2

(* The index of a current file that nobody rebuilds is whole.  Those who   *)
(* rebuild it have dropped the old triggers, and once the last of them has *)
(* made the new ones they are there.                                       *)
LiteIndex ==
    ~torn =>
    /\ db.ver = 2 /\ (\A o \in Openers : ~Lite!Rebuilding(o)) => Lite!IndexedWhole(db)
    /\ \A o \in Openers : Lite!Rebuilding(o) =>
          /\ db.trig \in {"none", "seg"} /\ db.twin = "none"
          /\ (\A q \in Openers : ~Lite!At(q, "create")) => db.trig = "seg"

LiteInv == LiteShape /\ LiteAlone /\ LiteCurrent /\ LiteIndex

LEMMA LiteInit == Init => LiteInv
<1> SUFFICES ASSUME Init PROVE LiteInv
  OBVIOUS
<1>1. db \in Files /\ torn = FALSE /\ opener = [o \in Openers |-> Lite!Closed]
  BY DEF Init, Lite!Init
<1>2. \A o \in Openers : opener[o] = [pc |-> "closed", missing |-> {}, alone |-> TRUE]
  BY <1>1 DEF Lite!Closed
<1>3. LiteShape
  BY <1>1, FilesAssumed DEF LiteShape, Lite!FilesAssumption, Lite!Closed, OpenerState
<1>4. LiteAlone /\ LiteCurrent
  BY <1>2 DEF LiteAlone, LiteCurrent, Lite!Booting, Lite!At
<1>5. LiteIndex
  BY <1>1, <1>2, FilesAssumed DEF LiteIndex, Lite!FilesAssumption, Lite!Rebuilding
<1> QED
  BY <1>3, <1>4, <1>5 DEF LiteInv

(* An opener that starts is alone or not, and those at work no longer are. *)
LEMMA OpenMoves ==
  ASSUME LiteShape, NEW o \in Openers, Lite!Open(o)
  PROVE  \A p \in Openers :
           /\ opener'[p].pc = IF p = o THEN "tables" ELSE opener[p].pc
           /\ opener'[p].missing = IF p = o THEN {} ELSE opener[p].missing
           /\ opener'[p].alone = IF p = o THEN \A q \in Openers : ~Lite!Booting(q)
                                ELSE opener[p].alone /\ ~Lite!Booting(p)
BY DEF LiteShape, OpenerState, Lite!Open, Lite!Closed

(* A step that changes nothing of the triggers and the index, nor who      *)
(* rebuilds it, keeps the index as it should be.                           *)
LEMMA IndexKept ==
  ASSUME LiteIndex, torn' = torn,
         db'.trig = db.trig, db'.twin = db.twin, db'.ver = db.ver,
         db'.rows = db.rows, db'.index = db.index,
         \A q \in Openers : /\ Lite!At(q, "create")' <=> Lite!At(q, "create")
                            /\ Lite!Rebuilding(q)' <=> Lite!Rebuilding(q)
  PROVE  LiteIndex'
BY DEF LiteIndex, Lite!IndexedWhole

(* What each step makes of the file has the shape of one.                  *)
LEMMA FileShapes ==
  ASSUME NEW f \in Lite!FileType
  PROVE  /\ \A trig \in {"none", "raw", "seg"}, twin \in {"none", "raw"} :
               [f EXCEPT !.trig = trig, !.twin = twin] \in Lite!FileType
         /\ \A trig \in {"none", "raw", "seg"}, jidx \in {"none", "plain", "partial"} :
               [f EXCEPT !.jidx = jidx, !.trig = trig] \in Lite!FileType
         /\ \A cols \in SUBSET Lite!Columns, tables \in BOOLEAN :
               [f EXCEPT !.tables = tables, !.cols = cols] \in Lite!FileType
         /\ \A stamped \in BOOLEAN : [f EXCEPT !.stamped = stamped] \in Lite!FileType
         /\ \A index \in [Rows -> [raw : Nat, seg : Nat]] :
               [f EXCEPT !.ver = 2, !.index = index] \in Lite!FileType
         /\ \A r \in Rows, entry \in [raw : Nat, seg : Nat] :
               [f EXCEPT !.rows = @ \cup {r}, !.index[r] = entry] \in Lite!FileType
<1> USE DEF Lite!FileType
<1>1. \A index \in [Rows -> [raw : Nat, seg : Nat]] :
        [f EXCEPT !.ver = 2, !.index = index] \in Lite!FileType
  OBVIOUS
<1>2. ASSUME NEW r \in Rows, NEW entry \in [raw : Nat, seg : Nat]
      PROVE  [f EXCEPT !.rows = @ \cup {r}, !.index[r] = entry] \in Lite!FileType
  <2>1. [f.index EXCEPT ![r] = entry] \in [Rows -> [raw : Nat, seg : Nat]]
    OBVIOUS
  <2>2. f.rows \cup {r} \in SUBSET Rows
    OBVIOUS
  <2> QED
    BY <2>1, <2>2
<1> QED
  BY <1>1, <1>2

(* A row that the right triggers see gets the right entry.                 *)
LEMMA InsertMoves ==
  ASSUME LiteShape, NEW o \in Openers, NEW r \in Rows, Lite!Insert(o, r)
  PROVE  \E entry \in [raw : Nat, seg : Nat] :
           /\ db' = [db EXCEPT !.rows = @ \cup {r}, !.index[r] = entry]
           /\ db.trig = "seg" /\ db.twin = "none" => entry = [raw |-> 0, seg |-> 1]
<1> DEFINE raw == (IF db.trig = "raw" THEN 1 ELSE 0) + (IF db.twin = "raw" THEN 1 ELSE 0)
           seg == IF db.trig = "seg" THEN 1 ELSE 0
           entry == [raw |-> raw, seg |-> seg]
<1>1. db' = [db EXCEPT !.rows = @ \cup {r}, !.index[r] = entry]
  BY DEF Lite!Insert
<1>2. raw \in Nat /\ seg \in Nat
  OBVIOUS
<1>3. db.trig = "seg" /\ db.twin = "none" => raw = 0 /\ seg = 1
  OBVIOUS
<1> HIDE DEF raw, seg
<1>4. entry \in [raw : Nat, seg : Nat]
  BY <1>2
<1>5. db.trig = "seg" /\ db.twin = "none" => entry = [raw |-> 0, seg |-> 1]
  BY <1>3
<1> HIDE DEF entry
<1> QED
  BY <1>1, <1>4, <1>5

LEMMA LiteShapeStep ==
  ASSUME LiteInv, NEW o \in Openers,
         Lite!Open(o) \/ Lite!CreateTables(o) \/ Lite!LookAtNodes(o) \/
         Lite!AddColumn(o) \/ Lite!AddPageColumn(o) \/ Lite!ReadTextVersion(o) \/
         Lite!DropTriggers(o) \/ Lite!CreateTriggers(o) \/ Lite!Rebuild(o) \/
         Lite!DropJournalIndex(o) \/ Lite!CreateJournalIndex(o) \/
         Lite!StampSchema(o) \/ Lite!Close(o) \/ Lite!Crash(o) \/
         \E r \in Rows : Lite!Insert(o, r)
  PROVE  LiteShape'
<1> USE DEF LiteInv, LiteShape, Lite!Goes
<1>1. CASE Lite!Open(o)
  <2>1. \A p \in Openers : opener'[p] \in OpenerState
    BY <1>1 DEF Lite!Open, Lite!Closed, OpenerState
  <2> QED
    BY <1>1, <2>1 DEF Lite!Open
<1>2. CASE Lite!CreateTables(o)
  <2>1. Lite!WithTables(db) \in Lite!FileType
    <3> DEFINE cols == IF db.tables THEN db.cols ELSE Lite!Columns
    <3>1. cols \in SUBSET Lite!Columns
      BY DEF Lite!FileType
    <3>2. Lite!WithTables(db) = [db EXCEPT !.tables = TRUE, !.cols = cols]
      BY DEF Lite!WithTables
    <3> HIDE DEF cols
    <3>3. [db EXCEPT !.tables = TRUE, !.cols = cols] \in Lite!FileType
      BY <3>1, FileShapes
    <3> QED
      BY <3>2, <3>3
  <2>2. Lite!WithIndexes(Lite!WithTables(db)) \in Lite!FileType
    <3> DEFINE f == Lite!WithTables(db)
               jidx == IF f.jidx = "none" THEN "plain" ELSE f.jidx
               trig == IF f.trig = "none" THEN "seg" ELSE f.trig
    <3> HIDE DEF f
    <3>1. jidx \in {"none", "plain", "partial"} /\ trig \in {"none", "raw", "seg"}
      BY <2>1 DEF f, Lite!FileType
    <3>2. Lite!WithIndexes(f) = [f EXCEPT !.jidx = jidx, !.trig = trig]
      BY DEF Lite!WithIndexes
    <3> HIDE DEF jidx, trig
    <3>3. f \in Lite!FileType
      BY <2>1 DEF f
    <3>4. [f EXCEPT !.jidx = jidx, !.trig = trig] \in Lite!FileType
      BY <3>1, <3>3, FileShapes
    <3> QED
      BY <3>2, <3>4 DEF f
  <2> QED
    BY <1>2, <2>2 DEF Lite!CreateTables, OpenerState
<1>3. CASE Lite!LookAtNodes(o)
  <2>1. [opener[o] EXCEPT !.pc = "alter", !.missing = {"metadata", "atom_id"} \ db.cols]
          \in OpenerState
    BY DEF OpenerState
  <2> QED
    BY <1>3, <2>1 DEF Lite!LookAtNodes
<1>4. CASE Lite!AddColumn(o)
  BY <1>4 DEF Lite!AddColumn, Lite!FileType, Lite!Columns, OpenerState
<1>5. CASE Lite!AddPageColumn(o)
  <2>1. [db EXCEPT !.cols = @ \cup {"mutation_version"}] \in Lite!FileType
    BY DEF Lite!FileType, Lite!Columns
  <2> QED
    BY <1>5, <2>1 DEF Lite!AddPageColumn, OpenerState
<1>6. CASE Lite!ReadTextVersion(o)
  BY <1>6 DEF Lite!ReadTextVersion, OpenerState
<1>7. CASE Lite!DropTriggers(o)
  BY <1>7, FileShapes DEF Lite!DropTriggers, OpenerState
<1>8. CASE Lite!CreateTriggers(o)
  BY <1>8 DEF Lite!CreateTriggers, Lite!FileType, OpenerState
<1>9. CASE Lite!Rebuild(o)
  BY <1>9, FileShapes DEF Lite!Rebuild, Lite!NoEntry, OpenerState
<1>10. CASE Lite!DropJournalIndex(o)
  BY <1>10 DEF Lite!DropJournalIndex, Lite!FileType, OpenerState
<1>11. CASE Lite!CreateJournalIndex(o)
  BY <1>11 DEF Lite!CreateJournalIndex, Lite!FileType, OpenerState
<1>12. CASE Lite!StampSchema(o)
  BY <1>12, FileShapes DEF Lite!StampSchema, OpenerState
<1>13. CASE Lite!Close(o)
  BY <1>13 DEF Lite!Close, OpenerState
<1>14. CASE Lite!Crash(o)
  BY <1>14 DEF Lite!Crash, Lite!Closed, OpenerState
<1>15. ASSUME NEW r \in Rows, Lite!Insert(o, r) PROVE LiteShape'
  <2>1. PICK entry \in [raw : Nat, seg : Nat] :
          db' = [db EXCEPT !.rows = @ \cup {r}, !.index[r] = entry]
    BY <1>15, InsertMoves
  <2>2. [db EXCEPT !.rows = @ \cup {r}, !.index[r] = entry] \in Lite!FileType
    BY FileShapes
  <2> QED
    BY <1>15, <2>1, <2>2 DEF Lite!Insert
<1> QED
  BY <1>1, <1>2, <1>3, <1>4, <1>5, <1>6, <1>7, <1>8, <1>9, <1>10, <1>11, <1>12, <1>13, <1>14, <1>15

LEMMA LiteAloneStep ==
  ASSUME LiteInv, NEW o \in Openers,
         Lite!Open(o) \/ Lite!CreateTables(o) \/ Lite!LookAtNodes(o) \/ Lite!AddColumn(o) \/
         Lite!AddPageColumn(o) \/ Lite!ReadTextVersion(o) \/
         Lite!DropTriggers(o) \/ Lite!CreateTriggers(o) \/
         Lite!Rebuild(o) \/ Lite!DropJournalIndex(o) \/
         Lite!CreateJournalIndex(o) \/ Lite!StampSchema(o) \/
         Lite!Close(o) \/ Lite!Crash(o) \/
         \E r \in Rows : Lite!Insert(o, r)
  PROVE  LiteAlone'
<1> USE DEF LiteInv, LiteShape, OpenerState, LiteAlone, Lite!At, Lite!Goes, Lite!Booting, Lite!Rebuilding,
           Lite!FileType
<1>1. CASE Lite!Open(o)
  BY <1>1 DEF Lite!Open, Lite!Closed
<1>2. CASE Lite!CreateTables(o)
  BY <1>2 DEF Lite!CreateTables, Lite!WithTables, Lite!WithIndexes, Lite!Columns
<1>3. CASE Lite!LookAtNodes(o)
  BY <1>3 DEF Lite!LookAtNodes
<1>4. CASE Lite!AddColumn(o)
  BY <1>4 DEF Lite!AddColumn
<1>5. CASE Lite!AddPageColumn(o)
  BY <1>5 DEF Lite!AddPageColumn
<1>6. CASE Lite!ReadTextVersion(o)
  BY <1>6 DEF Lite!ReadTextVersion
<1>7. CASE Lite!DropTriggers(o)
  BY <1>7 DEF Lite!DropTriggers
<1>8. CASE Lite!CreateTriggers(o)
  BY <1>8 DEF Lite!CreateTriggers
<1>9. CASE Lite!Rebuild(o)
  BY <1>9 DEF Lite!Rebuild, Lite!NoEntry
<1>10. CASE Lite!DropJournalIndex(o)
  BY <1>10 DEF Lite!DropJournalIndex
<1>11. CASE Lite!CreateJournalIndex(o)
  BY <1>11 DEF Lite!CreateJournalIndex
<1>12. CASE Lite!StampSchema(o)
  BY <1>12 DEF Lite!StampSchema
<1>13. CASE Lite!Close(o)
  BY <1>13 DEF Lite!Close
<1>14. CASE Lite!Crash(o)
  BY <1>14 DEF Lite!Crash, Lite!Closed
<1>15. ASSUME NEW r \in Rows, Lite!Insert(o, r) PROVE LiteAlone'
  BY <1>15 DEF Lite!Insert
<1> QED
  BY <1>1, <1>2, <1>3, <1>4, <1>5, <1>6, <1>7, <1>8, <1>9, <1>10, <1>11, <1>12, <1>13, <1>14, <1>15

LEMMA LiteCurrentStep ==
  ASSUME LiteInv, NEW o \in Openers,
         Lite!Open(o) \/ Lite!CreateTables(o) \/ Lite!LookAtNodes(o) \/ Lite!AddColumn(o) \/
         Lite!AddPageColumn(o) \/ Lite!ReadTextVersion(o) \/
         Lite!DropTriggers(o) \/ Lite!CreateTriggers(o) \/
         Lite!Rebuild(o) \/ Lite!DropJournalIndex(o) \/
         Lite!CreateJournalIndex(o) \/ Lite!StampSchema(o) \/
         Lite!Close(o) \/ Lite!Crash(o) \/
         \E r \in Rows : Lite!Insert(o, r)
  PROVE  LiteCurrent'
<1> USE DEF LiteInv, LiteShape, OpenerState, LiteCurrent, Lite!At, Lite!Goes, Lite!Booting, Lite!Rebuilding,
           Lite!FileType
<1>1. CASE Lite!Open(o)
  <2>1. db' = db
    BY <1>1 DEF Lite!Open
  <2>2. \A p \in Openers : opener'[p].pc \in {"tables", opener[p].pc}
    BY <1>1, OpenMoves
  <2> QED
    BY <2>1, <2>2
<1>2. CASE Lite!CreateTables(o)
  BY <1>2 DEF Lite!CreateTables, Lite!WithTables, Lite!WithIndexes, Lite!Columns
<1>3. CASE Lite!LookAtNodes(o)
  BY <1>3 DEF Lite!LookAtNodes
<1>4. CASE Lite!AddColumn(o)
  BY <1>4 DEF Lite!AddColumn
<1>5. CASE Lite!AddPageColumn(o)
  BY <1>5 DEF Lite!AddPageColumn
<1>6. CASE Lite!ReadTextVersion(o)
  BY <1>6 DEF Lite!ReadTextVersion
<1>7. CASE Lite!DropTriggers(o)
  BY <1>7 DEF Lite!DropTriggers
<1>8. CASE Lite!CreateTriggers(o)
  BY <1>8 DEF Lite!CreateTriggers
<1>9. CASE Lite!Rebuild(o)
  BY <1>9 DEF Lite!Rebuild, Lite!NoEntry
<1>10. CASE Lite!DropJournalIndex(o)
  BY <1>10 DEF Lite!DropJournalIndex
<1>11. CASE Lite!CreateJournalIndex(o)
  BY <1>11 DEF Lite!CreateJournalIndex
<1>12. CASE Lite!StampSchema(o)
  BY <1>12 DEF Lite!StampSchema
<1>13. CASE Lite!Close(o)
  BY <1>13 DEF Lite!Close
<1>14. CASE Lite!Crash(o)
  BY <1>14 DEF Lite!Crash, Lite!Closed
<1>15. ASSUME NEW r \in Rows, Lite!Insert(o, r) PROVE LiteCurrent'
  BY <1>15 DEF Lite!Insert
<1> QED
  BY <1>1, <1>2, <1>3, <1>4, <1>5, <1>6, <1>7, <1>8, <1>9, <1>10, <1>11, <1>12, <1>13, <1>14, <1>15

LEMMA LiteIndexStep ==
  ASSUME LiteInv, NEW o \in Openers,
         Lite!Open(o) \/ Lite!CreateTables(o) \/ Lite!LookAtNodes(o) \/ Lite!AddColumn(o) \/
         Lite!AddPageColumn(o) \/ Lite!ReadTextVersion(o) \/
         Lite!DropTriggers(o) \/ Lite!CreateTriggers(o) \/
         Lite!Rebuild(o) \/ Lite!DropJournalIndex(o) \/
         Lite!CreateJournalIndex(o) \/ Lite!StampSchema(o) \/
         Lite!Close(o) \/ Lite!Crash(o) \/
         \E r \in Rows : Lite!Insert(o, r)
  PROVE  LiteIndex'
<1>0. Lite!Open(o) =>
        \A q \in Openers : opener'[q].pc = IF q = o THEN "tables" ELSE opener[q].pc
  BY OpenMoves DEF LiteInv
<1> USE DEF LiteInv, LiteShape, OpenerState, LiteIndex, Lite!At, Lite!Goes, Lite!Booting, Lite!Rebuilding,
           Lite!FileType, Lite!IndexedWhole
<1>1. CASE Lite!Open(o)
  <2>1. db' = db /\ torn' = torn
    BY <1>1 DEF Lite!Open
  <2>2. \A q \in Openers : opener'[q].pc = IF q = o THEN "tables" ELSE opener[q].pc
    BY <1>0, <1>1
  <2>3. opener[o].pc \in {"closed", "failed"}
    BY <1>1 DEF Lite!Open
  <2>4. \A q \in Openers : /\ Lite!At(q, "create")' <=> Lite!At(q, "create")
                           /\ Lite!Rebuilding(q)' <=> Lite!Rebuilding(q)
    BY <2>2, <2>3
  <2> QED
    BY <2>1, <2>4, IndexKept
<1>2. CASE Lite!CreateTables(o)
  BY <1>2 DEF Lite!CreateTables, Lite!WithTables, Lite!WithIndexes, Lite!Columns
<1>3. CASE Lite!LookAtNodes(o)
  BY <1>3 DEF Lite!LookAtNodes
<1>4. CASE Lite!AddColumn(o)
  BY <1>4 DEF Lite!AddColumn
<1>5. CASE Lite!AddPageColumn(o)
  BY <1>5 DEF Lite!AddPageColumn
<1>6. CASE Lite!ReadTextVersion(o)
  BY <1>6 DEF Lite!ReadTextVersion
<1>7. CASE Lite!DropTriggers(o)
  BY <1>7 DEF Lite!DropTriggers
<1>8. CASE Lite!CreateTriggers(o)
  BY <1>8 DEF Lite!CreateTriggers
<1>9. CASE Lite!Rebuild(o)
  BY <1>9 DEF Lite!Rebuild, Lite!NoEntry
<1>10. CASE Lite!DropJournalIndex(o)
  BY <1>10 DEF Lite!DropJournalIndex
<1>11. CASE Lite!CreateJournalIndex(o)
  <2>1. \A q \in Openers : /\ Lite!At(q, "create")' <=> Lite!At(q, "create")
                           /\ Lite!Rebuilding(q)' <=> Lite!Rebuilding(q)
    BY <1>11 DEF Lite!CreateJournalIndex
  <2>2. UNCHANGED <<torn, db.trig, db.twin, db.ver, db.rows, db.index>>
    BY <1>11 DEF Lite!CreateJournalIndex
  <2> QED
    BY <2>1, <2>2, IndexKept
<1>12. CASE Lite!StampSchema(o)
  BY <1>12 DEF Lite!StampSchema
<1>13. CASE Lite!Close(o)
  BY <1>13 DEF Lite!Close
<1>14. CASE Lite!Crash(o)
  BY <1>14 DEF Lite!Crash, Lite!Closed
<1>15. ASSUME NEW r \in Rows, Lite!Insert(o, r) PROVE LiteIndex'
  <2>1. PICK entry \in [raw : Nat, seg : Nat] :
          /\ db' = [db EXCEPT !.rows = @ \cup {r}, !.index[r] = entry]
          /\ db.trig = "seg" /\ db.twin = "none" => entry = [raw |-> 0, seg |-> 1]
    BY <1>15, InsertMoves
  <2>2. /\ db'.trig = db.trig /\ db'.twin = db.twin /\ db'.ver = db.ver
        /\ db'.rows = db.rows \cup {r}
    BY <2>1
  <2>3. db'.index = [db.index EXCEPT ![r] = entry] /\ db.index \in [Rows -> [raw : Nat, seg : Nat]]
    BY <2>1
  <2>4. opener' = opener /\ torn' = torn
    BY <1>15 DEF Lite!Insert
  <2>5. Lite!IndexedWhole(db) => Lite!IndexedWhole(db')
    BY <2>1, <2>2, <2>3
  <2> QED
    BY <2>2, <2>4, <2>5 DEF LiteIndex
<1> QED
  BY <1>1, <1>2, <1>3, <1>4, <1>5, <1>6, <1>7, <1>8, <1>9, <1>10, <1>11, <1>12, <1>13, <1>14, <1>15

LEMMA LiteStep == LiteInv /\ [Next]_storageVars => LiteInv'
<1> SUFFICES ASSUME LiteInv, [Next]_storageVars PROVE LiteInv'
  OBVIOUS
<1>1. CASE Lite!Next
  BY <1>1, LiteShapeStep, LiteAloneStep, LiteCurrentStep, LiteIndexStep DEF Lite!Next, LiteInv
<1>2. CASE UNCHANGED liteVars
  BY <1>2 DEF liteVars, LiteInv, LiteShape, LiteAlone, LiteCurrent, LiteIndex,
     Lite!Booting, Lite!At, Lite!Rebuilding
<1> QED
  BY <1>1, <1>2 DEF Next, storageVars

(* Whatever file is found, and however programs open, crash and write,     *)
(* every row is in the text index once, and a program that starts alone    *)
(* succeeds (storage/backends/sqlite.py, _init_schema).                    *)
THEOREM OpeningIsSafe == Spec => []SqliteOpensWhole
<1>1. LiteInv => SqliteOpensWhole
  BY DEF LiteInv, LiteAlone, LiteCurrent, LiteIndex, SqliteOpensWhole, Lite!IndexedOnce,
     Lite!SoleOpenerSucceeds, Lite!At, Lite!IndexedWhole
<1> QED
  BY <1>1, LiteInit, LiteStep, PTL DEF Spec

-----------------------------------------------------------------------------
(* NamespaceRename: names of tables are sequences of words, and a rename   *)
(* changes the beginning of some of them.                                  *)

TableNames == Seq(Words)

LEMMA WordsAre == "atoms" \in Words /\ "meta" \in Words
BY RenameAssumed DEF Move!RenameAssumption, Move!Tabs, Move!Indexed

LEMMA SameEnd ==
  ASSUME NEW s \in TableNames, NEW u \in TableNames, NEW v \in TableNames, s \o u = s \o v
  PROVE  u = v
<1>1. /\ Len(s) \in Nat /\ Len(u) \in Nat /\ Len(v) \in Nat
  BY LenProperties DEF TableNames
<1>2. Len(s \o u) = Len(s) + Len(u) /\ Len(s \o v) = Len(s) + Len(v)
  BY ConcatProperties DEF TableNames
<1>3. Len(u) = Len(v)
  BY <1>1, <1>2
<1>4. ASSUME NEW i \in 1 .. Len(u) PROVE u[i] = v[i]
  <2>1. Len(s) + i \in 1 .. Len(s) + Len(u) /\ Len(s) + i \in 1 .. Len(s) + Len(v)
    BY <1>1, <1>3
  <2>2. (s \o u)[Len(s) + i] = u[i]
    BY <1>1, <2>1, ConcatProperties DEF TableNames
  <2>3. (s \o v)[Len(s) + i] = v[i]
    BY <1>1, <2>1, ConcatProperties DEF TableNames
  <2> QED
    BY <2>2, <2>3
<1> QED
  BY <1>3, <1>4, SeqEqual DEF TableNames

(* What follows the namespace in the name of one of its tables.            *)
LEMMA NameEnds ==
  ASSUME NEW src \in TableNames, NEW n \in TableNames, Move!IsStrictPrefix(src, n)
  PROVE  \E u \in TableNames :
            /\ u # <<>> /\ n = src \o u
            /\ SubSeq(n, Len(src) + 1, Len(n)) = u
<1> DEFINE k == Len(src)
           u == SubSeq(n, k + 1, Len(n))
<1>1. /\ k \in Nat /\ Len(n) \in Nat /\ k <= Len(n)
      /\ SubSeq(src, 1, k) = SubSeq(n, 1, k) /\ src # n
  BY LenProperties DEF TableNames, Move!IsStrictPrefix, Move!IsPrefix
<1>2. SubSeq(src, 1, k) = src /\ SubSeq(n, 1, Len(n)) = n
  BY SubSeqFull DEF TableNames
<1>3. SubSeq(n, 1, k) \o u = n
  <2>1. /\ 1 \in 1 .. Len(n) + 1 /\ k \in 1 - 1 .. Len(n) /\ Len(n) \in k .. Len(n)
        /\ n \in Seq(Words)
    BY <1>1 DEF TableNames
  <2>2. SubSeq(n, 1, k) \o SubSeq(n, k + 1, Len(n)) = SubSeq(n, 1, Len(n))
    BY <2>1, ConcatAdjacentSubSeq
  <2> QED
    BY <1>2, <2>2
<1>4. u \in TableNames
  <2>1. \A i \in k + 1 .. Len(n) : n[i] \in Words
    BY <1>1, ElementOfSeq DEF TableNames
  <2> QED
    BY <1>1, <2>1, SubSeqProperties DEF TableNames
<1>5. n = src \o u
  BY <1>1, <1>2, <1>3
<1>6. u # <<>>
  BY <1>1, <1>5, ConcatEmptySeq DEF TableNames
<1> QED
  BY <1>4, <1>5, <1>6

LEMMA NameExtends ==
  ASSUME NEW src \in TableNames, NEW u \in TableNames, u # <<>>
  PROVE  src \o u \in TableNames /\ Move!IsStrictPrefix(src, src \o u)
<1> DEFINE n == src \o u
<1>1. n \in TableNames /\ Len(n) = Len(src) + Len(u) /\ Len(src) \in Nat /\ Len(u) \in Nat
  BY ConcatProperties, LenProperties DEF TableNames
<1>2. n # src
  BY ConcatEqualIffEmpty DEF TableNames
<1>3. SubSeq(n, 1, Len(src)) = SubSeq(src, 1, Len(src))
  <2>1. CASE Len(src) = 0
    BY <2>1, SubSeqEmpty
  <2>2. CASE Len(src) # 0
    <3>1. 1 \in 1..Len(src) /\ Len(src) \in 1..Len(src)
      BY <1>1, <2>2
    <3> QED
      BY <3>1, SubSeqOfConcat1 DEF TableNames
  <2> QED
    BY <2>1, <2>2
<1> QED
  BY <1>1, <1>2, <1>3 DEF Move!IsStrictPrefix, Move!IsPrefix

LEMMA NameMoves ==
  ASSUME NEW src \in TableNames, NEW u \in TableNames, u # <<>>, NEW dst
  PROVE  Move!Moved(src \o u, src, dst) = dst \o u
<1> DEFINE n == src \o u
<1>1. n \in TableNames /\ Move!IsStrictPrefix(src, n)
  BY NameExtends
<1>2. PICK v \in TableNames : n = src \o v /\ SubSeq(n, Len(src) + 1, Len(n)) = v
  BY <1>1, NameEnds
<1>3. u = v
  BY <1>2, SameEnd
<1> QED
  BY <1>2, <1>3 DEF Move!Moved

(* A table, and what becomes of its name.                                  *)
LEMMA NameJoins ==
  ASSUME NEW src \in TableNames, NEW v \in TableNames, NEW w \in Words
  PROVE  src \o Append(v, w) = Append(src \o v, w)
<1>1. src \o v \in TableNames /\ <<w>> \in TableNames
  BY ConcatProperties DEF TableNames
<1>2. Append(src \o v, w) = (src \o v) \o <<w>>
  BY <1>1, AppendIsConcat DEF TableNames
<1>3. Append(v, w) = v \o <<w>>
  BY AppendIsConcat DEF TableNames
<1>4. (src \o v) \o <<w>> = src \o (v \o <<w>>)
  BY <1>1, ConcatAssociative DEF TableNames
<1> QED
  BY <1>2, <1>3, <1>4

LEMMA IsTableName ==
  ASSUME NEW v \in TableNames, NEW w \in Words
  PROVE  Append(v, w) \in TableNames /\ Append(v, w) # <<>>
BY AppendProperties DEF TableNames

LEMMA IsJoinedName ==
  ASSUME NEW src \in TableNames, NEW v \in TableNames
  PROVE  src \o v \in TableNames
BY ConcatProperties DEF TableNames

LEMMA TableExtends ==
  ASSUME NEW src \in TableNames, NEW v \in TableNames, NEW w \in Words
  PROVE  Move!IsStrictPrefix(src, Append(src \o v, w))
<1>1. Move!IsStrictPrefix(src, src \o Append(v, w))
  BY IsTableName, NameExtends
<1> QED
  BY <1>1, NameJoins

LEMMA TableMoves ==
  ASSUME NEW src \in TableNames, NEW dst \in TableNames, NEW v \in TableNames, NEW w \in Words
  PROVE  Move!Moved(Append(src \o v, w), src, dst) = Append(dst \o v, w)
<1>1. Append(v, w) \in TableNames /\ Append(v, w) # <<>>
  BY IsTableName
<1>2. Move!Moved(src \o Append(v, w), src, dst) = dst \o Append(v, w)
  BY <1>1, NameMoves
<1> QED
  BY <1>2, NameJoins

LEMMA TableMoved ==
  ASSUME NEW src \in TableNames, NEW dst \in TableNames, NEW n \in TableNames,
         Move!IsStrictPrefix(src, n)
  PROVE  \E v \in TableNames, w \in Words :
            n = Append(src \o v, w) /\ Move!Moved(n, src, dst) = Append(dst \o v, w)
<1>1. PICK u \in TableNames : u # <<>> /\ n = src \o u
  BY NameEnds
<1>2. PICK v \in TableNames, w \in Words : u = Append(v, w)
  BY <1>1, SequenceEmptyOrAppend DEF TableNames
<1>3. src \o Append(v, w) = Append(src \o v, w)
  BY NameJoins
<1>4. Move!Moved(Append(src \o v, w), src, dst) = Append(dst \o v, w)
  BY TableMoves
<1> QED
  BY <1>1, <1>2, <1>3, <1>4

LEMMA SameTable ==
  ASSUME NEW p \in TableNames, NEW q \in TableNames, NEW w \in Words, NEW x \in Words
  PROVE  Append(p, w) = Append(q, x) <=> p = q /\ w = x
BY AppendInjective DEF TableNames

(* Two tables of one source do not meet at the destination.                *)
LEMMA MovedApart ==
  ASSUME NEW src \in TableNames, NEW dst \in TableNames, NEW n \in TableNames, NEW m \in TableNames,
         Move!IsStrictPrefix(src, n), Move!IsStrictPrefix(src, m),
         Move!Moved(n, src, dst) = Move!Moved(m, src, dst)
  PROVE  n = m
<1>1. PICK u \in TableNames : u # <<>> /\ n = src \o u
  BY NameEnds
<1>2. PICK v \in TableNames : v # <<>> /\ m = src \o v
  BY NameEnds
<1>3. dst \o u = dst \o v
  <2>1. Move!Moved(src \o u, src, dst) = dst \o u
    BY <1>1, NameMoves
  <2>2. Move!Moved(src \o v, src, dst) = dst \o v
    BY <1>2, NameMoves
  <2> QED
    BY <1>1, <1>2, <2>1, <2>2
<1>4. u = v
  BY <1>3, SameEnd
<1> QED
  BY <1>1, <1>2, <1>4

(* A namespace has its table of atoms when it has its meta table.          *)
Paired(S) == \A p \in TableNames : Append(p, "atoms") \in S <=> Append(p, "meta") \in S

LEMMA PairsMove ==
  ASSUME NEW src \in TableNames, NEW dst \in TableNames, NEW S \in SUBSET TableNames,
         \A n \in S : Move!IsStrictPrefix(src, n), Paired(S)
  PROVE  Paired({Move!Moved(n, src, dst) : n \in S})
<1> DEFINE T == {Move!Moved(n, src, dst) : n \in S}
<1>1. ASSUME NEW p \in TableNames, NEW x \in {"atoms", "meta"}, NEW y \in {"atoms", "meta"},
             Append(p, x) \in T
      PROVE  Append(p, y) \in T
  <2>1. PICK n \in S : Append(p, x) = Move!Moved(n, src, dst)
    BY <1>1
  <2>1a. n \in TableNames /\ Move!IsStrictPrefix(src, n)
    OBVIOUS
  <2>1b. \E v \in TableNames, w \in Words :
            n = Append(src \o v, w) /\ Move!Moved(n, src, dst) = Append(dst \o v, w)
    BY <2>1a, TableMoved
  <2>2. PICK v \in TableNames, w \in Words :
           n = Append(src \o v, w) /\ Append(p, x) = Append(dst \o v, w)
    BY <2>1, <2>1b
  <2>3. src \o v \in TableNames /\ dst \o v \in TableNames
    BY IsJoinedName
  <2>3a. x \in Words /\ y \in Words
    BY WordsAre
  <2>4. p = dst \o v /\ w = x
    <3> DEFINE q == dst \o v
    <3>1. q \in TableNames /\ Append(p, x) = Append(q, w)
      BY <2>2, <2>3
    <3> HIDE DEF q
    <3>2. p = q /\ w = x
      BY <2>3a, <3>1, SameTable
    <3> QED
      BY <3>2 DEF q
  <2>5. Append(src \o v, y) \in S
    BY <2>2, <2>3, <2>4 DEF Paired
  <2>6. Move!Moved(Append(src \o v, y), src, dst) = Append(p, y)
    <3>0. \A word \in Words : Move!Moved(Append(src \o v, word), src, dst) = Append(dst \o v, word)
      BY TableMoves
    <3>1. Move!Moved(Append(src \o v, y), src, dst) = Append(dst \o v, y)
      BY <2>3a, <3>0
    <3> QED
      BY <2>4, <3>1
  <2> QED
    BY <2>5, <2>6
<1> QED
  BY <1>1 DEF Paired

Held == {"version"} \cup RowIds
TableState == [rows : SUBSET Held, keyed : BOOLEAN, fts : BOOLEAN, index : SUBSET Held]

MoveShape ==
    /\ DOMAIN file \subseteq TableNames
    /\ \A n \in DOMAIN file : file[n] \in TableState
    /\ opened \subseteq Prefixes
    /\ plan.src \in TableNames /\ plan.dst \in TableNames
    /\ plan.steps \subseteq TableNames

MetaHoldsVersion ==
    \A p \in TableNames :
        Append(p, "meta") \in DOMAIN file => file[Append(p, "meta")].rows \subseteq {"version"}

(* A plan moves whole namespaces below its source, and what it would move  *)
(* onto a table it moves, or another, it found in conflict.                *)
PlanFits ==
    /\ \A n \in plan.steps : Move!IsStrictPrefix(plan.src, n)
    /\ Move!Targets \cap plan.steps \subseteq plan.conflicts
    /\ Paired(plan.steps) /\ Paired(plan.conflicts)

(* The atoms of a namespace that is open, or would be taken for current,   *)
(* are in the text index, and triggers keep them there.                    *)
Searched(p) ==
    LET atomTable == Append(p, "atoms")
        meta == Append(p, "meta")
    IN  /\ atomTable \in DOMAIN file \ swept
        /\ p \in opened \/ (meta \in DOMAIN file /\ "version" \in file[meta].rows)
        => file[atomTable].fts /\ file[atomTable].index = file[atomTable].rows

MoveInv ==
    /\ MoveShape /\ MetaHoldsVersion /\ Paired(DOMAIN file) /\ PlanFits
    /\ \A p \in TableNames : Searched(p)

LEMMA MoveInit == Init => MoveInv
<1> SUFFICES ASSUME Init PROVE MoveInv
  OBVIOUS
<1>1. /\ DOMAIN file = {} /\ opened = {} /\ plan = Move!NoPlan /\ swept = {}
  BY DEF Init, Move!Init
<1>2. plan.src = <<>> /\ plan.dst = <<>> /\ plan.steps = {} /\ plan.conflicts = {}
  BY <1>1 DEF Move!NoPlan
<1>3. <<>> \in TableNames
  BY EmptySeq DEF TableNames
<1>4. Move!Targets = {}
  BY <1>2 DEF Move!Targets
<1> QED
  BY <1>1, <1>2, <1>3, <1>4
     DEF MoveInv, MoveShape, MetaHoldsVersion, Paired, PlanFits, Searched

(* Namespaces that programs name, and their tables.                        *)
LEMMA SpaceTables ==
  ASSUME NEW ns \in Prefixes, NEW tab \in Move!Tabs
  PROVE  ns \in TableNames /\ tab \in Words /\ Append(ns, tab) \in TableNames
BY RenameAssumed, IsTableName DEF Move!RenameAssumption, TableNames

LEMMA LastWord ==
  ASSUME NEW p \in TableNames, NEW w \in Words PROVE Move!Last(Append(p, w)) = w
BY AppendProperties DEF TableNames, Move!Last

(* What opening does to the tables of the namespace, and to the others.    *)
LEMMA OpenRows ==
  ASSUME MoveInv, NEW ns \in Prefixes, Move!Open(ns)
  PROVE  /\ DOMAIN file' = DOMAIN file \cup {Append(ns, tab) : tab \in Move!Tabs}
         /\ \A n \in DOMAIN file : n \notin {Append(ns, tab) : tab \in Move!Tabs} => file'[n] = file[n]
         /\ file'[Append(ns, "meta")] \in TableState
         /\ file'[Append(ns, "meta")].rows = {"version"}
<1> DEFINE names == {Append(ns, tab) : tab \in Move!Tabs}
           meta == Append(ns, "meta")
<1>1. file' = Move!Opened(ns)
  BY DEF Move!Open
<1>2. "meta" \in Move!Tabs
  BY DEF Move!Tabs
<1>3. meta \in names
  BY <1>2
<1>4. file'[meta] = [Move!Fresh("meta") EXCEPT !.rows = {"version"}]
  BY <1>1, <1>3 DEF Move!Opened, Move!Table
<1>5. Move!Fresh("meta") \in TableState
  BY DEF Move!Fresh, TableState
<1>6. {"version"} \in SUBSET Held
  BY DEF Held
<1>7. file'[meta] \in TableState /\ file'[meta].rows = {"version"}
  BY <1>4, <1>5, <1>6 DEF TableState
<1>8. DOMAIN file' = DOMAIN file \cup names
  BY <1>1 DEF Move!Opened, Move!Table
<1>9. \A n \in DOMAIN file : n \notin names => file'[n] = file[n]
  BY <1>1 DEF Move!Opened, Move!Table
<1> QED
  BY <1>7, <1>8, <1>9

LEMMA OpenIndexes ==
  ASSUME MoveInv, NEW ns \in Prefixes, Move!Open(ns), NEW tab \in Move!Indexed,
         NEW n, n = Append(ns, tab), NEW meta, meta = Append(ns, "meta")
  PROVE  /\ file'[n] \in TableState /\ file'[n].fts
         /\ n \notin DOMAIN file => file'[n].index = file'[n].rows
         /\ n \in DOMAIN file =>
              /\ file'[n].rows = file[n].rows
              /\ file'[n].index = file[n].index \/ file'[n].index = file[n].rows
              /\ ~(meta \in DOMAIN file /\ "version" \in file[meta].rows)
                 => file'[n].index = file[n].rows
<1> DEFINE names == {Append(ns, x) : x \in Move!Tabs}
           current == meta \in DOMAIN file /\ "version" \in file[meta].rows
<1>1. "meta" \in Move!Tabs /\ tab \in Move!Tabs
  BY DEF Move!Tabs
<1>2. tab # "meta"
  BY DEF Move!Indexed
<1>3. ns \in TableNames /\ tab \in Words /\ "meta" \in Words
  BY <1>1, SpaceTables
<1>4. n # meta
  BY <1>2, <1>3, SameTable
<1>5. n \in names
  BY <1>1
<1>6. file' = Move!Opened(ns)
  BY DEF Move!Open
<1>7. file'[n] = IF n \notin DOMAIN file THEN Move!Fresh(Move!Last(n))
                 ELSE [file[n] EXCEPT !.fts = TRUE,
                                      !.index = IF current THEN @ ELSE file[n].rows]
  BY <1>4, <1>5, <1>6 DEF Move!Opened, Move!Table, Move!IsTable
<1>8. CASE n \notin DOMAIN file
  <2>1. Move!Last(n) = tab
    BY <1>3, LastWord
  <2>2. /\ Move!Fresh(tab) \in TableState /\ Move!Fresh(tab).fts
        /\ Move!Fresh(tab).index = Move!Fresh(tab).rows
    BY DEF Move!Fresh, TableState
  <2> QED
    BY <1>7, <1>8, <2>1, <2>2
<1>9. CASE n \in DOMAIN file
  <2>1. file[n] \in TableState
    BY <1>9 DEF MoveInv, MoveShape
  <2>2. CASE current
    <3>1. file'[n] = [file[n] EXCEPT !.fts = TRUE, !.index = @]
      BY <1>7, <1>9, <2>2
    <3> QED
      BY <1>9, <2>1, <2>2, <3>1 DEF TableState
  <2>3. CASE ~current
    <3>1. file'[n] = [file[n] EXCEPT !.fts = TRUE, !.index = file[n].rows]
      BY <1>7, <1>9, <2>3
    <3> QED
      BY <1>9, <2>1, <2>3, <3>1 DEF TableState
  <2> QED
    BY <2>2, <2>3
<1> QED
  BY <1>8, <1>9

LEMMA OpenInv ==
  ASSUME MoveInv, NEW ns \in Prefixes, Move!Open(ns)
  PROVE  MoveInv'
<1> DEFINE names == {Append(ns, tab) : tab \in Move!Tabs}
<1>1. ns \in TableNames /\ names \subseteq TableNames
  BY SpaceTables DEF Move!Tabs
<1>2. /\ Move!Tabs = {"atoms", "episodes", "meta"} /\ Move!Indexed = {"atoms", "episodes"}
      /\ \A tab \in Move!Tabs : tab \in Words
  BY SpaceTables DEF Move!Tabs, Move!Indexed
<1>3. /\ opened' = opened \cup {ns} /\ plan' = plan /\ swept' = swept
  BY DEF Move!Open
<1>4. ASSUME NEW p \in TableNames, p # ns, NEW w \in Words PROVE Append(p, w) \notin names
  BY <1>1, <1>2, <1>4, SameTable
<1>5. MoveShape'
  <2>1. ASSUME NEW n \in DOMAIN file' PROVE file'[n] \in TableState
    <3>1. CASE n \notin names
      BY <3>1, OpenRows DEF MoveInv, MoveShape
    <3>2. CASE n = Append(ns, "meta")
      BY <3>2, OpenRows
    <3>3. ASSUME NEW tab \in Move!Indexed, n = Append(ns, tab) PROVE file'[n] \in TableState
      BY <3>3, OpenIndexes
    <3> QED
      BY <1>2, <3>1, <3>2, <3>3
  <2>2. DOMAIN file' \subseteq TableNames
    BY <1>1, OpenRows DEF MoveInv, MoveShape
  <2> QED
    BY <1>3, <2>1, <2>2 DEF MoveInv, MoveShape
<1>6. MetaHoldsVersion'
  <2> SUFFICES ASSUME NEW p \in TableNames, Append(p, "meta") \in DOMAIN file'
               PROVE  file'[Append(p, "meta")].rows \subseteq {"version"}
    BY DEF MetaHoldsVersion
  <2>1. CASE p = ns
    <3>1. file'[Append(ns, "meta")].rows = {"version"}
      BY OpenRows
    <3> QED
      BY <2>1, <3>1
  <2>2. CASE p # ns
    <3>1. Append(p, "meta") \notin names
      BY <1>2, <1>4, <2>2
    <3> QED
      BY <3>1, OpenRows DEF MoveInv, MetaHoldsVersion
  <2> QED
    BY <2>1, <2>2
<1>7. Paired(DOMAIN file')
  <2> SUFFICES ASSUME NEW p \in TableNames
               PROVE  Append(p, "atoms") \in DOMAIN file' <=> Append(p, "meta") \in DOMAIN file'
    BY DEF Paired
  <2>1. CASE p = ns
    BY <1>2, <2>1, OpenRows
  <2>2. CASE p # ns
    <3>1. Append(p, "atoms") \notin names /\ Append(p, "meta") \notin names
      BY <1>2, <1>4, <2>2
    <3> QED
      BY <3>1, OpenRows DEF MoveInv, Paired
  <2> QED
    BY <2>1, <2>2
<1>8. ASSUME NEW p \in TableNames PROVE Searched(p)'
  <2>1. CASE p = ns
    <3> DEFINE n == Append(ns, "atoms")
               meta == Append(ns, "meta")
    <3>1. "atoms" \in Move!Indexed /\ n = Append(ns, "atoms") /\ meta = Append(ns, "meta")
      BY <1>2
    <3>2. /\ file'[n].fts
          /\ n \notin DOMAIN file => file'[n].index = file'[n].rows
          /\ n \in DOMAIN file =>
               /\ file'[n].rows = file[n].rows
               /\ file'[n].index = file[n].index \/ file'[n].index = file[n].rows
               /\ ~(meta \in DOMAIN file /\ "version" \in file[meta].rows)
                  => file'[n].index = file[n].rows
      <4> HIDE DEF n, meta
      <4> QED
        BY <3>1, OpenIndexes
    <3>3. /\ n \in DOMAIN file \ swept
          /\ meta \in DOMAIN file /\ "version" \in file[meta].rows
          => file[n].index = file[n].rows
      BY <1>1 DEF MoveInv, Searched
    <3> QED
      BY <1>3, <2>1, <3>2, <3>3 DEF Searched
  <2>2. CASE p # ns
    <3>1. Append(p, "atoms") \notin names /\ Append(p, "meta") \notin names
      BY <1>2, <1>4, <2>2
    <3> QED
      BY <1>3, <2>2, <3>1, OpenRows DEF MoveInv, Searched
  <2> QED
    BY <2>1, <2>2
<1>9. PlanFits'
  BY <1>3 DEF MoveInv, PlanFits, Move!Targets
<1> QED
  BY <1>5, <1>6, <1>7, <1>8, <1>9 DEF MoveInv

LEMMA InsertRows ==
  ASSUME MoveInv, NEW ns \in Prefixes, NEW tab \in Move!Indexed, NEW id \in RowIds,
         Move!Insert(ns, tab, id), NEW n, n = Append(ns, tab)
  PROVE  /\ DOMAIN file' = DOMAIN file /\ n \in DOMAIN file
         /\ \A m \in DOMAIN file : m # n => file'[m] = file[m]
         /\ file'[n] \in TableState /\ file'[n].rows = file[n].rows \cup {id}
         /\ file[n].fts => file'[n].fts /\ file'[n].index = file[n].index \cup {id}
<1>1. /\ n \in DOMAIN file
      /\ file' = [file EXCEPT ![n].rows = @ \cup {id},
                              ![n].index = IF file[n].fts THEN @ \cup {id} ELSE @]
  BY DEF Move!Insert, Move!Table, Move!IsTable
<1>2. file[n] \in TableState
  BY <1>1 DEF MoveInv, MoveShape
<1>3. DOMAIN file' = DOMAIN file /\ \A m \in DOMAIN file : m # n => file'[m] = file[m]
  BY <1>1
<1>4. file[n].rows \cup {id} \in SUBSET Held /\ file[n].index \cup {id} \in SUBSET Held
  BY <1>2 DEF TableState, Held
<1>5. CASE file[n].fts
  <2>1. file'[n] = [file[n] EXCEPT !.rows = file[n].rows \cup {id},
                                   !.index = file[n].index \cup {id}]
    BY <1>1, <1>2, <1>5 DEF TableState
  <2>2. /\ file'[n].rows = file[n].rows \cup {id} /\ file'[n].index = file[n].index \cup {id}
        /\ file'[n].fts
    BY <1>2, <1>5, <2>1 DEF TableState
  <2>3. file'[n] \in TableState
    BY <1>2, <1>4, <2>1 DEF TableState
  <2> QED
    BY <1>1, <1>3, <2>2, <2>3
<1>6. CASE ~file[n].fts
  <2>1. file'[n] = [file[n] EXCEPT !.rows = file[n].rows \cup {id}]
    BY <1>1, <1>2, <1>6 DEF TableState
  <2>2. file'[n].rows = file[n].rows \cup {id}
    BY <1>2, <2>1 DEF TableState
  <2>3. file'[n] \in TableState
    BY <1>2, <1>4, <2>1 DEF TableState
  <2> QED
    BY <1>1, <1>3, <1>6, <2>2, <2>3
<1> QED
  BY <1>5, <1>6

LEMMA InsertInv ==
  ASSUME MoveInv, NEW ns \in Prefixes, NEW tab \in Move!Indexed, NEW id \in RowIds,
         Move!Insert(ns, tab, id)
  PROVE  MoveInv'
<1>1. PICK n : n = Append(ns, tab)
  OBVIOUS
<1>2. /\ DOMAIN file' = DOMAIN file /\ n \in DOMAIN file
      /\ \A m \in DOMAIN file : m # n => file'[m] = file[m]
      /\ file'[n] \in TableState /\ file'[n].rows = file[n].rows \cup {id}
      /\ file[n].fts => file'[n].fts /\ file'[n].index = file[n].index \cup {id}
  <2>1. DOMAIN file' = DOMAIN file /\ n \in DOMAIN file
    BY <1>1, InsertRows
  <2>2. \A m \in DOMAIN file : m # n => file'[m] = file[m]
    BY <1>1, InsertRows
  <2>3. file'[n] \in TableState /\ file'[n].rows = file[n].rows \cup {id}
    BY <1>1, InsertRows
  <2>4. file[n].fts => file'[n].fts
    BY <1>1, InsertRows
  <2>5. file[n].fts => file'[n].index = file[n].index \cup {id}
    BY <1>1, InsertRows
  <2> QED
    BY <2>1, <2>2, <2>3, <2>4, <2>5
<1>3. /\ opened' = opened /\ plan' = plan /\ swept' = swept /\ ns \in opened
  BY DEF Move!Insert
<1>4. /\ tab \in Words /\ ns \in TableNames /\ tab # "meta"
      /\ "meta" \in Words /\ "atoms" \in Words
  BY SpaceTables, WordsAre DEF Move!Tabs, Move!Indexed
<1>5. ASSUME NEW p \in TableNames, Append(p, "meta") \in DOMAIN file
      PROVE  file'[Append(p, "meta")] = file[Append(p, "meta")]
  <2>1. Append(p, "meta") # n
    BY <1>1, <1>4, SameTable
  <2> QED
    BY <1>2, <1>5, <2>1
<1>6. MoveShape'
  BY <1>2, <1>3 DEF MoveInv, MoveShape
<1>7. MetaHoldsVersion'
  BY <1>2, <1>5 DEF MoveInv, MetaHoldsVersion
<1>8. Paired(DOMAIN file')
  BY <1>2 DEF MoveInv
<1>9. PlanFits'
  BY <1>3 DEF MoveInv, PlanFits, Move!Targets
<1>10. ASSUME NEW p \in TableNames PROVE Searched(p)'
  <2> DEFINE atomTable == Append(p, "atoms")
             meta == Append(p, "meta")
  <2>1. Searched(p)
    BY DEF MoveInv
  <2>2. (meta \in DOMAIN file' /\ "version" \in file'[meta].rows)
           => meta \in DOMAIN file /\ "version" \in file[meta].rows
    BY <1>2, <1>5
  <2>3. CASE atomTable = n
    <3>1. p = ns
      BY <1>1, <1>4, <2>3, SameTable
    <3>2. n \notin swept => file[n].fts /\ file[n].index = file[n].rows
      BY <1>2, <1>3, <2>1, <2>3, <3>1 DEF Searched
    <3> QED
      BY <1>2, <1>3, <2>3, <3>2 DEF Searched
  <2>4. CASE atomTable # n
    <3>1. atomTable \in DOMAIN file => file'[atomTable] = file[atomTable]
      BY <1>2, <2>4
    <3> QED
      BY <1>2, <1>3, <2>1, <2>2, <3>1 DEF Searched
  <2> QED
    BY <2>3, <2>4
<1> QED
  BY <1>6, <1>7, <1>8, <1>9, <1>10 DEF MoveInv

LEMMA CloseInv ==
  ASSUME MoveInv, NEW ns \in Prefixes, Move!Close(ns) PROVE MoveInv'
<1>1. /\ file' = file /\ opened' \subseteq opened /\ plan' = plan /\ swept' = swept
  BY DEF Move!Close
<1>2. MoveShape' /\ MetaHoldsVersion' /\ Paired(DOMAIN file')
  BY <1>1 DEF MoveInv, MoveShape, MetaHoldsVersion
<1>3. PlanFits'
  BY <1>1 DEF MoveInv, PlanFits, Move!Targets
<1>4. \A p \in TableNames : Searched(p)'
  BY <1>1 DEF MoveInv, Searched
<1> QED
  BY <1>2, <1>3, <1>4 DEF MoveInv

LEMMA PlanGone ==
  ASSUME plan' = Move!NoPlan
  PROVE  /\ plan'.src \in TableNames /\ plan'.dst \in TableNames
         /\ plan'.steps \subseteq TableNames /\ PlanFits'
<1>1. plan'.src = <<>> /\ plan'.dst = <<>> /\ plan'.steps = {} /\ plan'.conflicts = {}
  BY DEF Move!NoPlan
<1>2. <<>> \in TableNames
  BY EmptySeq DEF TableNames
<1> QED
  BY <1>1, <1>2 DEF PlanFits, Paired, Move!Targets

LEMMA CancelInv ==
  ASSUME MoveInv, Move!Cancel PROVE MoveInv'
<1>1. /\ file' = file /\ opened' = opened /\ plan' = Move!NoPlan /\ swept' = swept
  BY DEF Move!Cancel
<1>4. MoveShape' /\ MetaHoldsVersion' /\ Paired(DOMAIN file')
  BY <1>1, PlanGone DEF MoveInv, MoveShape, MetaHoldsVersion
<1>5. PlanFits'
  BY <1>1, PlanGone
<1>6. \A p \in TableNames : Searched(p)'
  BY <1>1 DEF MoveInv, Searched
<1> QED
  BY <1>4, <1>5, <1>6 DEF MoveInv

(* The tables of a source that the plan takes are paired.                   *)
LEMMA MatchingPaired ==
  ASSUME NEW S \in SUBSET TableNames, Paired(S), NEW src \in TableNames
  PROVE  Paired({n \in S : Move!IsStrictPrefix(src, n)})
<1> DEFINE M == {n \in S : Move!IsStrictPrefix(src, n)}
<1>1. ASSUME NEW p \in TableNames, NEW x \in {"atoms", "meta"}, NEW y \in {"atoms", "meta"},
             Append(p, x) \in M
      PROVE  Append(p, y) \in M
  <2>1. x \in Words /\ y \in Words
    BY WordsAre
  <2>2. PICK n \in S : n = Append(p, x) /\ Move!IsStrictPrefix(src, n) /\ n \in TableNames
    BY <1>1
  <2>3. \E v \in TableNames, w \in Words :
           n = Append(src \o v, w) /\ Move!Moved(n, src, src) = Append(src \o v, w)
    BY <2>2, TableMoved
  <2>4. PICK v \in TableNames, w \in Words : n = Append(src \o v, w)
    BY <2>3
  <2>5. p = src \o v
    <3> DEFINE q == src \o v
    <3>1. q \in TableNames /\ Append(p, x) = Append(q, w)
      BY <2>2, <2>4, IsJoinedName
    <3> HIDE DEF q
    <3>2. p = q
      BY <2>1, <3>1, SameTable
    <3> QED
      BY <3>2 DEF q
  <2>6. Move!IsStrictPrefix(src, Append(p, y))
    BY <2>1, <2>5, TableExtends
  <2>7. Append(p, y) \in S
    BY <1>1 DEF Paired
  <2> QED
    BY <2>6, <2>7
<1> QED
  BY <1>1 DEF Paired

LEMMA PlanInv ==
  ASSUME MoveInv, NEW src \in Prefixes, NEW dst \in Prefixes, NEW mode,
         Move!Plan(src, dst, mode)
  PROVE  MoveInv'
<1> DEFINE M == Move!Matching(src)
           T == {Move!Moved(n, src, dst) : n \in M}
<1>1. /\ file' = file /\ opened' = opened /\ swept' = swept
      /\ plan' = [src |-> src, dst |-> dst, mode |-> mode, steps |-> M,
                  conflicts |-> T \cap DOMAIN file]
  BY DEF Move!Plan
<1>2. /\ plan'.src = src /\ plan'.dst = dst /\ plan'.steps = M
      /\ plan'.conflicts = T \cap DOMAIN file
  BY <1>1
<1>3. src \in TableNames /\ dst \in TableNames
  BY SpaceTables DEF Move!Tabs
<1>4. /\ M \subseteq DOMAIN file /\ DOMAIN file \in SUBSET TableNames
      /\ \A n \in M : Move!IsStrictPrefix(src, n)
  BY DEF MoveInv, MoveShape, Move!Matching
<1>5. Paired(M)
  BY <1>3, <1>4, MatchingPaired DEF MoveInv, Move!Matching
<1>6. Paired(T)
  <2>1. M \in SUBSET TableNames
    BY <1>4
  <2> QED
    BY <1>3, <1>4, <1>5, <2>1, PairsMove
<1>7. Paired(T \cap DOMAIN file)
  BY <1>6 DEF MoveInv, Paired
<1>8. Move!Targets' = T
  BY <1>2 DEF Move!Targets
<1>9. PlanFits'
  BY <1>2, <1>4, <1>5, <1>7, <1>8 DEF PlanFits
<1>10. MoveShape' /\ MetaHoldsVersion' /\ Paired(DOMAIN file')
  BY <1>1, <1>2, <1>3, <1>4 DEF MoveInv, MoveShape, MetaHoldsVersion
<1>11. \A p \in TableNames : Searched(p)'
  BY <1>1 DEF MoveInv, Searched
<1> QED
  BY <1>9, <1>10, <1>11 DEF MoveInv

(* A plan that is applied keeps the tables that are neither moved nor in    *)
(* conflict, and puts what it moves where no other table is.                *)
Kept == IF plan.mode = "rename" THEN (DOMAIN file \ plan.conflicts) \ plan.steps
                                ELSE DOMAIN file \ plan.conflicts

LEMMA ApplyKeeps ==
  ASSUME MoveInv, NEW overwrite \in BOOLEAN, Move!Apply(overwrite)
  PROVE  /\ plan.steps \subseteq DOMAIN file \ plan.conflicts
         /\ Kept \cap Move!Targets = {} /\ DOMAIN file' = Kept \cup Move!Targets
         /\ \A n \in Kept : file'[n] = file[n]
<1>1. DOMAIN Move!Base = DOMAIN file \ plan.conflicts
  BY DEF Move!Base
<1>2. \A n \in DOMAIN file \ plan.conflicts : Move!Base[n] = file[n]
  BY DEF Move!Base
<1>3. /\ plan.steps \subseteq DOMAIN file \ plan.conflicts
      /\ Move!Targets \cap ((DOMAIN file \ plan.conflicts) \ plan.steps) = {}
  BY <1>1 DEF Move!Apply
<1>4. Move!Targets \cap plan.steps \subseteq plan.conflicts
  BY DEF MoveInv, PlanFits
<1>5. Move!Targets \cap (DOMAIN file \ plan.conflicts) = {}
  BY <1>3, <1>4
<1>6. file' = IF plan.mode = "rename" THEN Move!Renamed(Move!Base) ELSE Move!Copied(Move!Base)
  BY DEF Move!Apply, Move!Applied
<1>7. CASE plan.mode = "rename"
  <2>1. DOMAIN file' = ((DOMAIN file \ plan.conflicts) \ plan.steps) \cup Move!Targets
    BY <1>1, <1>6, <1>7 DEF Move!Renamed
  <2>2. \A n \in (DOMAIN file \ plan.conflicts) \ plan.steps :
           n \notin Move!Targets => file'[n] = Move!Base[n]
    BY <1>1, <1>6, <1>7 DEF Move!Renamed
  <2> QED
    BY <1>2, <1>3, <1>7, <2>1, <2>2 DEF Kept
<1>8. CASE plan.mode # "rename"
  <2>1. DOMAIN file' = (DOMAIN file \ plan.conflicts) \cup Move!Targets
    BY <1>1, <1>6, <1>8 DEF Move!Copied
  <2>2. \A n \in DOMAIN file \ plan.conflicts :
           n \notin Move!Targets => file'[n] = Move!Base[n]
    BY <1>1, <1>6, <1>8 DEF Move!Copied
  <2> QED
    BY <1>2, <1>3, <1>5, <1>8, <2>1, <2>2 DEF Kept
<1> QED
  BY <1>7, <1>8

(* What a table that is moved becomes.                                      *)
LEMMA ApplyMoves ==
  ASSUME MoveInv, NEW overwrite \in BOOLEAN, Move!Apply(overwrite),
         NEW n \in plan.steps, NEW t, t = Move!Moved(n, plan.src, plan.dst)
  PROVE  /\ t \in Move!Targets /\ file'[t] \in TableState
         /\ file'[t].rows \subseteq file[n].rows
         /\ file[n].rows \subseteq {"version"} \cup file'[t].rows
         /\ plan.mode = "rename" /\ t = Append(plan.dst, "atoms")
              => file'[t].fts /\ file'[t].index = file'[t].rows
         /\ plan.mode # "rename" /\ t = Append(plan.dst, "meta")
              => "version" \notin file'[t].rows
<1>1. t \in Move!Targets
  BY DEF Move!Targets
<1>2. /\ Move!Source(t) \in plan.steps
      /\ Move!Moved(Move!Source(t), plan.src, plan.dst) = t
  BY DEF Move!Source
<1>3. Move!Source(t) = n
  <2>1. PICK m : m = Move!Source(t)
    OBVIOUS
  <2>2. /\ m \in TableNames /\ n \in TableNames
        /\ plan.src \in TableNames /\ plan.dst \in TableNames
        /\ Move!IsStrictPrefix(plan.src, n) /\ Move!IsStrictPrefix(plan.src, m)
    BY <1>2, <2>1 DEF MoveInv, MoveShape, PlanFits
  <2>3. Move!Moved(n, plan.src, plan.dst) = Move!Moved(m, plan.src, plan.dst)
    BY <1>2, <2>1
  <2> QED
    BY <2>1, <2>2, <2>3, MovedApart
<1>4. n \in DOMAIN file /\ n \notin plan.conflicts
  BY ApplyKeeps
<1>5. file[n] \in TableState /\ Move!Base[n] = file[n]
  BY <1>4 DEF MoveInv, MoveShape, Move!Base
<1>6. file' = IF plan.mode = "rename" THEN Move!Renamed(Move!Base) ELSE Move!Copied(Move!Base)
  BY DEF Move!Apply, Move!Applied
<1>7. CASE plan.mode = "rename"
  <2>1. file'[t] = [file[n] EXCEPT
                      !.fts = (t \in Move!Respecified),
                      !.index = IF t \in Move!Respecified THEN file[n].rows ELSE {}]
    BY <1>1, <1>3, <1>5, <1>6, <1>7 DEF Move!Renamed
  <2>2. CASE t = Append(plan.dst, "atoms")
    <3>1. t \in Move!Respecified
      BY <2>2 DEF Move!Respecified, Move!Table
    <3>2. file'[t] = [file[n] EXCEPT !.fts = TRUE, !.index = file[n].rows]
      BY <2>1, <3>1
    <3> QED
      BY <1>1, <1>5, <1>7, <3>2 DEF TableState
  <2>3. CASE t # Append(plan.dst, "atoms")
    <3>1. t \notin Move!Respecified
      BY <2>3 DEF Move!Respecified, Move!Table
    <3>2. PICK indexed \in BOOLEAN : indexed <=> t \in Move!Respecified
      OBVIOUS
    <3>3. file'[t] = [file[n] EXCEPT !.fts = indexed, !.index = {}]
      BY <2>1, <3>1, <3>2
    <3> QED
      BY <1>1, <1>5, <1>7, <2>3, <3>3 DEF TableState
  <2> QED
    BY <2>2, <2>3
<1>8. CASE plan.mode # "rename"
  <2> DEFINE omitted == IF t = Append(plan.dst, "meta") THEN {"version"} ELSE {}
  <2>1. file'[t] = [rows |-> file[n].rows \ omitted, keyed |-> FALSE, fts |-> FALSE, index |-> {}]
    BY <1>1, <1>3, <1>5, <1>6, <1>8 DEF Move!Copied, Move!Table
  <2>2. omitted \subseteq {"version"} /\ (t = Append(plan.dst, "meta") => "version" \in omitted)
    OBVIOUS
  <2>3. file[n].rows \in SUBSET Held
    BY <1>5 DEF TableState
  <2> HIDE DEF omitted
  <2>4. file'[t] \in TableState /\ file'[t].rows = file[n].rows \ omitted
    BY <2>1, <2>3 DEF TableState
  <2> QED
    BY <1>1, <1>8, <2>2, <2>4
<1> QED
  BY <1>7, <1>8

LEMMA TargetTables ==
  ASSUME MoveInv, NEW t \in Move!Targets
  PROVE  \E n \in plan.steps, v \in TableNames, w \in Words :
            /\ t = Move!Moved(n, plan.src, plan.dst)
            /\ n = Append(plan.src \o v, w) /\ t = Append(plan.dst \o v, w)
            /\ plan.dst \o v \in TableNames /\ t \in TableNames
<1>1. PICK n \in plan.steps : t = Move!Moved(n, plan.src, plan.dst)
  BY DEF Move!Targets
<1>2. /\ n \in TableNames /\ plan.src \in TableNames /\ plan.dst \in TableNames
      /\ Move!IsStrictPrefix(plan.src, n)
  BY DEF MoveInv, MoveShape, PlanFits
<1>3. PICK v \in TableNames, w \in Words :
         n = Append(plan.src \o v, w) /\ Move!Moved(n, plan.src, plan.dst) = Append(plan.dst \o v, w)
  BY <1>2, TableMoved
<1>4. plan.dst \o v \in TableNames
  BY <1>2, IsJoinedName
<1>5. t \in TableNames
  <2> DEFINE q == plan.dst \o v
  <2>1. q \in TableNames /\ t = Append(q, w)
    BY <1>1, <1>3, <1>4
  <2> HIDE DEF q
  <2> QED
    BY <2>1, IsTableName
<1> QED
  BY <1>1, <1>3, <1>4, <1>5

LEMMA TargetsPaired == ASSUME MoveInv PROVE Paired(Move!Targets)
<1>1. /\ plan.src \in TableNames /\ plan.dst \in TableNames
      /\ plan.steps \in SUBSET TableNames /\ Paired(plan.steps)
      /\ \A n \in plan.steps : Move!IsStrictPrefix(plan.src, n)
  BY DEF MoveInv, MoveShape, PlanFits
<1>2. Paired({Move!Moved(n, plan.src, plan.dst) : n \in plan.steps})
  BY <1>1, PairsMove
<1> QED
  BY <1>2 DEF Move!Targets

LEMMA ApplyInv ==
  ASSUME MoveInv, NEW overwrite \in BOOLEAN, Move!Apply(overwrite)
  PROVE  MoveInv'
<1>1. /\ opened' = opened \ {plan.src, plan.dst} /\ plan' = Move!NoPlan
      /\ swept' = swept \cup {Move!Moved(n, plan.src, plan.dst) :
                               n \in {m \in plan.steps : Len(m) > Len(plan.src) + 1}}
  BY DEF Move!Apply, Move!Applied
<1>2. /\ Kept \cap Move!Targets = {} /\ DOMAIN file' = Kept \cup Move!Targets
      /\ \A n \in Kept : file'[n] = file[n]
      /\ plan.steps \subseteq DOMAIN file
  BY ApplyKeeps
<1>3. Kept \subseteq DOMAIN file
  BY DEF Kept
<1>4. Paired(Kept)
  BY DEF MoveInv, PlanFits, Paired, Kept
<1>5. Paired(Move!Targets)
  BY TargetsPaired
<1>6. ASSUME NEW t \in Move!Targets
      PROVE  \E n \in plan.steps :
                /\ t = Move!Moved(n, plan.src, plan.dst)
                /\ file'[t] \in TableState /\ file'[t].rows \subseteq file[n].rows
  <2>1. PICK n \in plan.steps : t = Move!Moved(n, plan.src, plan.dst)
    BY DEF Move!Targets
  <2>2. file'[t] \in TableState /\ file'[t].rows \subseteq file[n].rows
    BY <2>1, ApplyMoves
  <2> QED
    BY <2>1, <2>2
<1>7. MoveShape'
  <2>1. Move!Targets \subseteq TableNames
    BY TargetTables
  <2>2. DOMAIN file' \subseteq TableNames
    BY <1>2, <1>3, <2>1 DEF MoveInv, MoveShape
  <2>3. \A n \in DOMAIN file' : file'[n] \in TableState
    BY <1>2, <1>3, <1>6 DEF MoveInv, MoveShape
  <2>4. opened' \subseteq Prefixes
    BY <1>1 DEF MoveInv, MoveShape
  <2> QED
    BY <1>1, <2>2, <2>3, <2>4, PlanGone DEF MoveShape
<1>8. MetaHoldsVersion'
  <2> SUFFICES ASSUME NEW p \in TableNames, NEW t, t = Append(p, "meta"), t \in DOMAIN file'
               PROVE  file'[t].rows \subseteq {"version"}
    BY DEF MetaHoldsVersion
  <2>1. CASE t \in Kept
    BY <1>2, <1>3, <2>1 DEF MoveInv, MetaHoldsVersion
  <2>2. CASE t \in Move!Targets
    <3>1. PICK n \in plan.steps, v \in TableNames, w \in Words :
             /\ t = Move!Moved(n, plan.src, plan.dst)
             /\ n = Append(plan.src \o v, w) /\ t = Append(plan.dst \o v, w)
             /\ plan.dst \o v \in TableNames
      BY <2>2, TargetTables
    <3>2. w = "meta"
      <4> DEFINE q == plan.dst \o v
      <4>1. q \in TableNames /\ Append(p, "meta") = Append(q, w)
        BY <3>1
      <4> HIDE DEF q
      <4> QED
        BY <4>1, WordsAre, SameTable
    <3>3. plan.src \o v \in TableNames
      BY IsJoinedName DEF MoveInv, MoveShape
    <3>4. file[n].rows \subseteq {"version"}
      BY <1>2, <3>1, <3>2, <3>3 DEF MoveInv, MetaHoldsVersion
    <3>5. file'[t].rows \subseteq file[n].rows
      BY <3>1, ApplyMoves
    <3> QED
      BY <3>4, <3>5
  <2> QED
    BY <1>2, <2>1, <2>2
<1>9. Paired(DOMAIN file')
  BY <1>2, <1>4, <1>5 DEF Paired
<1>10. ASSUME NEW p \in TableNames PROVE Searched(p)'
  <2>1. PICK t : t = Append(p, "atoms")
    OBVIOUS
  <2>2. PICK meta : meta = Append(p, "meta")
    OBVIOUS
  <2>3. SUFFICES ASSUME t \in DOMAIN file' \ swept',
                        p \in opened' \/ (meta \in DOMAIN file' /\ "version" \in file'[meta].rows)
                 PROVE  file'[t].fts /\ file'[t].index = file'[t].rows
    BY <2>1, <2>2 DEF Searched
  <2>4. CASE t \in Kept
    <3>1. meta \in Kept
      BY <1>4, <2>1, <2>2, <2>4 DEF Paired
    <3>2. file'[t] = file[t] /\ file'[meta] = file[meta] /\ t \in DOMAIN file \ swept
      BY <1>1, <1>2, <1>3, <2>3, <2>4, <3>1
    <3>3. p \in opened \/ (meta \in DOMAIN file /\ "version" \in file[meta].rows)
      BY <1>1, <1>3, <2>3, <3>1, <3>2
    <3> QED
      BY <2>1, <2>2, <3>2, <3>3 DEF MoveInv, Searched
  <2>5. CASE t \in Move!Targets
    <3>1. PICK n \in plan.steps, v \in TableNames, w \in Words :
             /\ t = Move!Moved(n, plan.src, plan.dst)
             /\ n = Append(plan.src \o v, w) /\ t = Append(plan.dst \o v, w)
             /\ plan.dst \o v \in TableNames
      BY <2>5, TargetTables
    <3>2. p = plan.dst \o v
      <4> DEFINE q == plan.dst \o v
      <4>1. q \in TableNames /\ Append(p, "atoms") = Append(q, w)
        BY <2>1, <3>1
      <4> HIDE DEF q
      <4>2. p = q
        BY <4>1, WordsAre, SameTable
      <4> QED
        BY <4>2 DEF q
    <3>3. plan.src \in TableNames /\ plan.dst \in TableNames /\ n \in TableNames
      BY DEF MoveInv, MoveShape
    <3>4. CASE v # <<>>
      <4>1. Len(n) > Len(plan.src) + 1
        <5> DEFINE q == plan.src \o v
        <5>1. q \in TableNames /\ Len(q) = Len(plan.src) + Len(v)
          BY <3>3, ConcatProperties DEF TableNames
        <5>2. Len(v) \in Nat /\ Len(v) # 0 /\ Len(plan.src) \in Nat
          BY <3>3, <3>4, LenProperties, EmptySeq DEF TableNames
        <5>3. n = Append(q, w)
          BY <3>1
        <5> HIDE DEF q
        <5>4. Len(n) = Len(q) + 1
          BY <5>1, <5>3, AppendProperties DEF TableNames
        <5> QED
          BY <5>1, <5>2, <5>4
      <4>2. t \in swept'
        BY <1>1, <3>1, <4>1
      <4> QED
        BY <2>3, <4>2
    <3>5. CASE v = <<>>
      <4>1. p = plan.dst
        BY <3>2, <3>3, <3>5, ConcatEmptySeq DEF TableNames
      <4>2. CASE plan.mode = "rename"
        BY <2>1, <3>1, <4>1, <4>2, ApplyMoves
      <4>3. CASE plan.mode # "rename"
        <5>1. meta \in Move!Targets
          BY <1>5, <2>1, <2>2, <2>5 DEF Paired
        <5>2. PICK m \in plan.steps : meta = Move!Moved(m, plan.src, plan.dst)
          BY <5>1 DEF Move!Targets
        <5>3. "version" \notin file'[meta].rows
          BY <2>2, <4>1, <4>3, <5>2, ApplyMoves
        <5> QED
          BY <1>1, <2>3, <4>1, <5>3
      <4> QED
        BY <4>2, <4>3
    <3> QED
      BY <3>4, <3>5
  <2> QED
    BY <1>2, <2>3, <2>4, <2>5
<1>11. PlanFits'
  BY <1>1, PlanGone
<1> QED
  BY <1>7, <1>8, <1>9, <1>10, <1>11 DEF MoveInv

LEMMA MoveStep == MoveInv /\ [Next]_storageVars => MoveInv'
<1> SUFFICES ASSUME MoveInv, [Next]_storageVars PROVE MoveInv'
  OBVIOUS
<1>1. CASE UNCHANGED moveVars
  <2>1. /\ file' = file /\ opened' = opened /\ plan' = plan /\ swept' = swept
    BY <1>1 DEF moveVars
  <2>2. MoveShape' /\ MetaHoldsVersion' /\ Paired(DOMAIN file')
    BY <2>1 DEF MoveInv, MoveShape, MetaHoldsVersion
  <2>3. PlanFits'
    BY <2>1 DEF MoveInv, PlanFits, Move!Targets
  <2>4. \A p \in TableNames : Searched(p)'
    BY <2>1 DEF MoveInv, Searched
  <2> QED
    BY <2>2, <2>3, <2>4 DEF MoveInv
<1>2. CASE Move!Next
  <2>1. ASSUME NEW ns \in Prefixes, Move!Open(ns) PROVE MoveInv'
    BY <2>1, OpenInv
  <2>2. ASSUME NEW ns \in Prefixes, Move!Close(ns) PROVE MoveInv'
    BY <2>2, CloseInv
  <2>3. ASSUME NEW ns \in Prefixes, NEW tab \in Move!Indexed, NEW id \in RowIds,
               Move!Insert(ns, tab, id)
        PROVE  MoveInv'
    BY <2>3, InsertInv
  <2>4. ASSUME NEW src \in Prefixes, NEW dst \in Prefixes, NEW mode \in {"rename", "copy"},
               Move!Plan(src, dst, mode)
        PROVE  MoveInv'
    BY <2>4, PlanInv
  <2>5. ASSUME NEW overwrite \in BOOLEAN, Move!Apply(overwrite) PROVE MoveInv'
    BY <2>5, ApplyInv
  <2>6. CASE Move!Cancel
    BY <2>6, CancelInv
  <2> QED
    BY <1>2, <2>1, <2>2, <2>3, <2>4, <2>5, <2>6 DEF Move!Next
<1> QED
  BY <1>1, <1>2 DEF Next, storageVars

(* After any renames, however old their plans, every atom of an open        *)
(* namespace is found by text (operations/migration/rename.py).             *)
THEOREM RenameIsSearchable == Spec => []AtomsSearchable
<1>1. MoveInv => AtomsSearchable
  <2> SUFFICES ASSUME MoveInv, NEW ns \in opened, NEW n, n = Append(ns, "atoms"),
                      n \in DOMAIN file, n \notin swept
               PROVE  file[n].index = file[n].rows
    BY DEF AtomsSearchable, Move!AtomsSearchable, Move!Table, Move!IsTable
  <2>1. ns \in TableNames
    BY SpaceTables DEF MoveInv, MoveShape, Move!Tabs
  <2> QED
    BY <2>1 DEF MoveInv, Searched
<1> QED
  BY <1>1, MoveInit, MoveStep, PTL DEF Spec

LEMMA RowsKept ==
  ASSUME MoveInv, Move!Next, NEW n \in DOMAIN file, NEW r \in file[n].rows
  PROVE  \/ n \in plan.conflicts /\ Move!Apply(TRUE)
         \/ r = "version"
         \/ \E m \in DOMAIN file' : r \in file'[m].rows
<1> DEFINE Remains == \E m \in DOMAIN file' : r \in file'[m].rows
<1>1. ASSUME NEW ns \in Prefixes, Move!Open(ns) PROVE r = "version" \/ Remains
  <2> DEFINE names == {Append(ns, tab) : tab \in Move!Tabs}
  <2>1. /\ DOMAIN file' = DOMAIN file \cup names
        /\ n \notin names => file'[n] = file[n]
    BY <1>1, OpenRows
  <2>2. CASE n \notin names
    BY <2>1, <2>2
  <2>3. CASE n = Append(ns, "meta")
    <3>1. ns \in TableNames
      BY SpaceTables DEF Move!Tabs
    <3> QED
      BY <2>3, <3>1 DEF MoveInv, MetaHoldsVersion
  <2>4. ASSUME NEW tab \in Move!Indexed, n = Append(ns, tab) PROVE Remains
    <3>1. file'[n].rows = file[n].rows
      BY <1>1, <2>4, OpenIndexes
    <3> QED
      BY <2>1, <3>1
  <2> QED
    BY <2>2, <2>3, <2>4 DEF Move!Tabs
<1>2. ASSUME NEW ns \in Prefixes, NEW tab \in Move!Indexed, NEW id \in RowIds,
             Move!Insert(ns, tab, id)
      PROVE  Remains
  <2>1. PICK m : m = Append(ns, tab)
    OBVIOUS
  <2>2. DOMAIN file' = DOMAIN file /\ (n # m => file'[n] = file[n])
    BY <1>2, <2>1, InsertRows
  <2>3. file'[m].rows = file[m].rows \cup {id}
    BY <1>2, <2>1, InsertRows
  <2> QED
    BY <2>2, <2>3
<1>3. ASSUME file' = file PROVE Remains
  BY <1>3
<1>4. ASSUME NEW overwrite \in BOOLEAN, Move!Apply(overwrite), n \notin plan.conflicts
      PROVE  r = "version" \/ Remains
  <2>1. /\ DOMAIN file' = Kept \cup Move!Targets /\ \A m \in Kept : file'[m] = file[m]
    BY <1>4, ApplyKeeps
  <2>2. n \in Kept \/ n \in plan.steps
    BY <1>4 DEF Kept
  <2>3. CASE n \in Kept
    BY <2>1, <2>3
  <2>4. CASE n \in plan.steps
    <3>1. PICK t : t = Move!Moved(n, plan.src, plan.dst)
      OBVIOUS
    <3>2. t \in Move!Targets /\ file[n].rows \subseteq {"version"} \cup file'[t].rows
      BY <1>4, <2>4, <3>1, ApplyMoves
    <3> QED
      BY <2>1, <3>2
  <2> QED
    BY <2>2, <2>3, <2>4
<1>5. ASSUME NEW overwrite \in BOOLEAN, Move!Apply(overwrite) PROVE Move!Apply(TRUE)
  BY <1>5 DEF Move!Apply
<1> QED
  BY <1>1, <1>2, <1>3, <1>4, <1>5 DEF Move!Next, Move!Close, Move!Plan, Move!Cancel

RowsLeft ==
    LET agreed == {n \in plan.conflicts : Move!Apply(TRUE)}
    IN  Move!RowsOf(DOMAIN file \ agreed)
          \subseteq {"version"} \cup UNION {file'[n].rows : n \in DOMAIN file'}

(* Applying a plan loses no row but those of the tables that the user was   *)
(* shown in conflict and agreed to overwrite; nothing else loses one        *)
(* (operations/migration/rename.py).                                        *)
THEOREM RenameKeepsRows == Spec => RowsSurvive
<1>1. MoveInv /\ [Next]_storageVars => [RowsLeft]_moveVars
  <2> SUFFICES ASSUME MoveInv, [Next]_storageVars, moveVars' # moveVars PROVE RowsLeft
    OBVIOUS
  <2>1. Move!Next
    BY DEF Next, storageVars
  <2>2. ASSUME NEW n \in DOMAIN file \ {m \in plan.conflicts : Move!Apply(TRUE)}, NEW r \in file[n].rows
        PROVE  r = "version" \/ \E m \in DOMAIN file' : r \in file'[m].rows
    BY <2>1, RowsKept
  <2> QED
    BY <2>2 DEF RowsLeft, Move!RowsOf
<1>2. Spec => [][RowsLeft]_moveVars
  BY <1>1, MoveInit, MoveStep, PTL DEF Spec
<1>3. RowsSurvive <=> [][RowsLeft]_moveVars
  BY DEF RowsSurvive, Move!RowsSurvive, Move!renameVars, moveVars, RowsLeft
<1> QED
  BY <1>2, <1>3

-----------------------------------------------------------------------------
(* Checkpoints.  First what a walk along the parents meets.                 *)

LEMMA ReachedRoots ==
  ASSUME NEW universe, NEW roots \in SUBSET universe, NEW up
  PROVE  roots \subseteq Ckpt!Reached(universe, roots, up)
BY DEF Ckpt!Reached

LEMMA ReachedCloses ==
  ASSUME NEW universe, NEW roots, NEW up, \A c \in universe : up[c] \subseteq universe,
         NEW x \in Ckpt!Reached(universe, roots, up)
  PROVE  x \in universe /\ up[x] \subseteq Ckpt!Reached(universe, roots, up)
BY DEF Ckpt!Reached

LEMMA ReachedLeast ==
  ASSUME NEW universe, NEW roots, NEW up, NEW C \in SUBSET universe,
         roots \subseteq C, \A c \in C : up[c] \subseteq C
  PROVE  Ckpt!Reached(universe, roots, up) \subseteq C
BY DEF Ckpt!Reached

Up(rows) == [c \in DOMAIN rows |->
               IF rows[c].inline THEN {} ELSE {rows[c].parent} \cap DOMAIN rows]

Walk(rows, id) == Ckpt!Reached(DOMAIN rows, {id}, Up(rows))

Found(rows, writes, c) ==
    IF rows[c].inline THEN rows[c].msgs ELSE UNION {writes[p] : p \in Up(rows)[c]}

LEMMA WalkCloses ==
  ASSUME NEW rows, NEW id \in DOMAIN rows
  PROVE  /\ id \in Walk(rows, id) /\ Walk(rows, id) \subseteq DOMAIN rows
         /\ \A c \in Walk(rows, id) : Up(rows)[c] \subseteq Walk(rows, id)
<1>1. \A c \in DOMAIN rows : Up(rows)[c] \subseteq DOMAIN rows
  BY DEF Up
<1>2. {id} \subseteq Walk(rows, id)
  BY ReachedRoots DEF Walk
<1>3. ASSUME NEW c \in Walk(rows, id)
      PROVE  c \in DOMAIN rows /\ Up(rows)[c] \subseteq Walk(rows, id)
  <2> DEFINE universe == DOMAIN rows
             up == Up(rows)
  <2>1. c \in Ckpt!Reached(universe, {id}, up) /\ \A x \in universe : up[x] \subseteq universe
    BY <1>1, <1>3 DEF Walk
  <2> HIDE DEF universe, up
  <2>2. c \in universe /\ up[c] \subseteq Ckpt!Reached(universe, {id}, up)
    BY <2>1, ReachedCloses
  <2> QED
    BY <2>2 DEF universe, up, Walk
<1> QED
  BY <1>2, <1>3

LEMMA WalkLeast ==
  ASSUME NEW rows, NEW id, NEW C \in SUBSET DOMAIN rows, id \in C,
         \A c \in C : Up(rows)[c] \subseteq C
  PROVE  Walk(rows, id) \subseteq C
<1> DEFINE universe == DOMAIN rows
           up == Up(rows)
<1>1. C \in SUBSET universe /\ {id} \subseteq C /\ \A c \in C : up[c] \subseteq C
  OBVIOUS
<1> HIDE DEF universe, up
<1>2. Ckpt!Reached(universe, {id}, up) \subseteq C
  BY <1>1, ReachedLeast
<1> QED
  BY <1>2 DEF universe, up, Walk

(* The shortcut of Replay for a row that has its messages is one only.      *)
LEMMA ReplayWalks ==
  ASSUME NEW rows, NEW writes, NEW id \in DOMAIN rows
  PROVE  Ckpt!Replay(rows, writes, id) = UNION {Found(rows, writes, c) : c \in Walk(rows, id)}
<1>1. CASE rows[id].inline
  <2>1. Up(rows)[id] = {}
    BY <1>1 DEF Up
  <2>2. Walk(rows, id) \subseteq {id}
    <3>1. {id} \in SUBSET DOMAIN rows /\ \A c \in {id} : Up(rows)[c] \subseteq {id}
      BY <2>1
    <3> QED
      BY <3>1, WalkLeast
  <2>3. Walk(rows, id) = {id}
    BY <2>2, WalkCloses
  <2> QED
    BY <1>1, <2>3 DEF Ckpt!Replay, Found
<1>2. CASE ~rows[id].inline
  BY <1>2 DEF Ckpt!Replay, Found, Walk, Up
<1> QED
  BY <1>1, <1>2

LEMMA FoundIs ==
  ASSUME NEW rows, NEW writes, NEW c \in DOMAIN rows
  PROVE  Found(rows, writes, c) =
           IF rows[c].inline THEN rows[c].msgs
           ELSE IF rows[c].parent \in DOMAIN rows THEN writes[rows[c].parent] ELSE {}
BY DEF Found, Up

(* Rows that a walk meets unchanged lead it the same way.                   *)
LEMMA WalkSame ==
  ASSUME NEW rows, NEW res, NEW id \in DOMAIN rows, Walk(rows, id) \subseteq DOMAIN res,
         \A c \in Walk(rows, id) : Up(res)[c] = Up(rows)[c]
  PROVE  Walk(res, id) = Walk(rows, id)
<1>1. /\ id \in Walk(rows, id) /\ Walk(rows, id) \subseteq DOMAIN rows
      /\ \A c \in Walk(rows, id) : Up(rows)[c] \subseteq Walk(rows, id)
  BY WalkCloses
<1>2. Walk(res, id) \subseteq Walk(rows, id)
  <2>1. /\ Walk(rows, id) \in SUBSET DOMAIN res
        /\ \A c \in Walk(rows, id) : Up(res)[c] \subseteq Walk(rows, id)
    BY <1>1
  <2> QED
    BY <1>1, <2>1, WalkLeast
<1>3. /\ id \in Walk(res, id)
      /\ \A c \in Walk(res, id) : Up(res)[c] \subseteq Walk(res, id)
  BY <1>1, WalkCloses
<1>4. Walk(rows, id) \subseteq Walk(res, id)
  <2>1. /\ Walk(res, id) \in SUBSET DOMAIN rows
        /\ \A c \in Walk(res, id) : Up(rows)[c] \subseteq Walk(res, id)
    BY <1>1, <1>2, <1>3
  <2> QED
    BY <1>3, <2>1, WalkLeast
<1> QED
  BY <1>2, <1>4

LEMMA ReplaySame ==
  ASSUME NEW rows, NEW res, NEW writes, NEW later, NEW id \in DOMAIN rows,
         Walk(rows, id) \subseteq DOMAIN res,
         \A c \in Walk(rows, id) : /\ Up(res)[c] = Up(rows)[c]
                                   /\ Found(res, later, c) = Found(rows, writes, c)
  PROVE  Ckpt!Replay(res, later, id) = Ckpt!Replay(rows, writes, id)
<1>1. Walk(res, id) = Walk(rows, id)
  BY WalkSame
<1>2. id \in DOMAIN res
  BY WalkCloses
<1>3. Ckpt!Replay(res, later, id) = UNION {Found(res, later, c) : c \in Walk(rows, id)}
  BY <1>1, <1>2, ReplayWalks
<1>4. Ckpt!Replay(rows, writes, id) = UNION {Found(rows, writes, c) : c \in Walk(rows, id)}
  BY ReplayWalks
<1>5. {Found(res, later, c) : c \in Walk(rows, id)} = {Found(rows, writes, c) : c \in Walk(rows, id)}
  OBVIOUS
<1> QED
  BY <1>3, <1>4, <1>5

(* Messages written somewhere add no other messages anywhere, and none go.  *)
LEMMA ReplayGrows ==
  ASSUME NEW rows, NEW writes, NEW later, NEW new, NEW id \in DOMAIN rows,
         \A p \in DOMAIN rows : writes[p] \subseteq later[p] /\ later[p] \subseteq writes[p] \cup new
  PROVE  /\ Ckpt!Replay(rows, writes, id) \subseteq Ckpt!Replay(rows, later, id)
         /\ Ckpt!Replay(rows, later, id) \subseteq Ckpt!Replay(rows, writes, id) \cup new
<1>1. \A c \in Walk(rows, id) : /\ Found(rows, writes, c) \subseteq Found(rows, later, c)
                                /\ Found(rows, later, c) \subseteq Found(rows, writes, c) \cup new
  <2> SUFFICES ASSUME NEW c \in Walk(rows, id)
               PROVE  /\ Found(rows, writes, c) \subseteq Found(rows, later, c)
                      /\ Found(rows, later, c) \subseteq Found(rows, writes, c) \cup new
    OBVIOUS
  <2>1. c \in DOMAIN rows
    BY WalkCloses
  <2> QED
    BY <2>1, FoundIs
<1>2. /\ Ckpt!Replay(rows, writes, id) = UNION {Found(rows, writes, c) : c \in Walk(rows, id)}
      /\ Ckpt!Replay(rows, later, id) = UNION {Found(rows, later, c) : c \in Walk(rows, id)}
  BY ReplayWalks
<1> QED
  BY <1>1, <1>2

(* A row that leaves its messages out, below one that is there.             *)
LEMMA ReplayBelow ==
  ASSUME NEW rows, NEW writes, NEW id, id \notin DOMAIN rows, NEW row, ~row.inline,
         row.parent \in DOMAIN rows, \A c \in DOMAIN rows : rows[c].parent # id,
         NEW res, res = [c \in DOMAIN rows \cup {id} |-> IF c = id THEN row ELSE rows[c]]
  PROVE  Ckpt!Replay(res, writes, id)
            = Ckpt!Replay(rows, writes, row.parent) \cup writes[row.parent]
<1> DEFINE W == Walk(rows, row.parent)
<1>1. /\ row.parent \in W /\ W \subseteq DOMAIN rows
      /\ \A c \in W : Up(rows)[c] \subseteq W
  BY WalkCloses
<1>2. DOMAIN res = DOMAIN rows \cup {id} /\ res[id] = row /\ \A c \in DOMAIN rows : res[c] = rows[c]
  OBVIOUS
<1>3. Up(res)[id] = {row.parent} /\ \A c \in DOMAIN rows : Up(res)[c] = Up(rows)[c]
  BY <1>2 DEF Up
<1>4. Walk(res, id) \subseteq {id} \cup W
  <2> DEFINE C == {id} \cup W
  <2>1. C \in SUBSET DOMAIN res /\ id \in C /\ \A c \in C : Up(res)[c] \subseteq C
    BY <1>1, <1>2, <1>3
  <2> HIDE DEF C
  <2>2. Walk(res, id) \subseteq C
    BY <2>1, WalkLeast
  <2> QED
    BY <2>2 DEF C
<1>5. /\ id \in Walk(res, id) /\ \A c \in Walk(res, id) : Up(res)[c] \subseteq Walk(res, id)
  BY <1>2, WalkCloses
<1>6. W \subseteq Walk(res, id)
  <2> DEFINE C == Walk(res, id) \cap DOMAIN rows
  <2>1. C \in SUBSET DOMAIN rows /\ row.parent \in C
    BY <1>3, <1>5
  <2>2. \A c \in C : Up(rows)[c] \subseteq C
    BY <1>3, <1>5 DEF Up
  <2>3. Walk(rows, row.parent) \subseteq C
    <3> HIDE DEF C
    <3> QED
      BY <2>1, <2>2, WalkLeast
  <2> QED
    BY <2>3
<1>7. Walk(res, id) = {id} \cup W
  BY <1>4, <1>5, <1>6
<1>8. Found(res, writes, id) = writes[row.parent]
  BY <1>2, FoundIs
<1>9. \A c \in W : Found(res, writes, c) = Found(rows, writes, c)
  <2> SUFFICES ASSUME NEW c \in W PROVE Found(res, writes, c) = Found(rows, writes, c)
    OBVIOUS
  <2>1. c \in DOMAIN rows /\ c \in DOMAIN res /\ res[c] = rows[c] /\ rows[c].parent # id
    BY <1>1, <1>2
  <2>2. Up(res)[c] = Up(rows)[c]
    BY <1>3, <2>1
  <2> QED
    BY <2>1, <2>2 DEF Found
<1>10. Ckpt!Replay(res, writes, id) = UNION {Found(res, writes, c) : c \in {id} \cup W}
  BY <1>2, <1>7, ReplayWalks
<1>11. Ckpt!Replay(rows, writes, row.parent) = UNION {Found(rows, writes, c) : c \in W}
  BY ReplayWalks
<1>12. UNION {Found(res, writes, c) : c \in {id} \cup W}
         = Found(res, writes, id) \cup UNION {Found(rows, writes, c) : c \in W}
  <2> HIDE DEF W
  <2>1. ASSUME NEW m
        PROVE  m \in UNION {Found(res, writes, c) : c \in {id} \cup W}
                 <=> m \in Found(res, writes, id) \/ m \in UNION {Found(rows, writes, c) : c \in W}
    BY <1>9
  <2> QED
    BY <2>1
<1> QED
  BY <1>8, <1>10, <1>11, <1>12

(* The newest row is there while there are rows, and tells all that was     *)
(* said unless some of it is lost; a row that refers to a blob has it.      *)
CheckpointRow ==
    [parent : Nat, inline : BOOLEAN, msgs : SUBSET Nat, answered : BOOLEAN,
     field : Fields, ref : BOOLEAN]

CkptShape ==
    /\ lastId \in Nat /\ DOMAIN cps \subseteq Ckpt!Ids
    /\ \A id \in DOMAIN cps :
          id <= lastId /\ cps[id] \in CheckpointRow /\ cps[id].parent < id
    /\ cwrites \in [Ckpt!Ids -> SUBSET Nat]
    /\ \A id \in Ckpt!Ids : id > lastId => cwrites[id] = {}
    /\ said \in SUBSET Nat /\ IsFiniteSet(said) /\ lost \in BOOLEAN

Newest(m) == m \in DOMAIN cps /\ \A c \in DOMAIN cps : c <= m

Told ==
    /\ DOMAIN cps # {} => \E m : Newest(m)
    /\ DOMAIN cps = {} => said = {}
    /\ ~lost => \A m \in DOMAIN cps : Newest(m) => Ckpt!Known(m) = said

CkptRows == CkptShape /\ Told /\ Ckpt!EveryRowDecodes

(* Turns and prunes take turns; the seal repeats what the newest row tells; *)
(* what a prune deletes leaves a newest row that has its messages, or could *)
(* not be read; while a turn waits, the newest row does not end on an       *)
(* answer.                                                                  *)
Pruners == [pc : {"rest", "seal", "choose", "delete", "check", "drop"},
            victims : SUBSET Nat, drop : BOOLEAN, row : Nat, msgs : SUBSET Nat,
            answered : BOOLEAN, unread : BOOLEAN]

Pauses == turn.pc = "paused" => \A m \in DOMAIN cps : Newest(m) => ~cps[m].answered

CkptRoles ==
    /\ turn \in [pc : {"idle", "running", "paused"}, from : Nat]
    /\ pruner \in Pruners
    /\ pruner.pc # "rest" => turn.pc # "running" /\ DOMAIN cps # {}
    /\ turn.pc = "running" => Newest(turn.from)
    /\ pruner.pc = "seal" => /\ Newest(pruner.row) /\ (~lost => pruner.msgs = said)
                             /\ turn.pc = "paused" => ~pruner.answered
    /\ pruner.pc \in {"choose", "delete"} =>
          \A m \in DOMAIN cps : Newest(m) => cps[m].inline \/ pruner.unread
    /\ pruner.pc = "delete" => \A m \in DOMAIN cps : Newest(m) => m \notin pruner.victims
    /\ pruner.drop => pruner.pc = "drop" /\ turn.pc = "idle"
    /\ Pauses

CkptInv == CkptRows /\ CkptRoles

LEMMA CkptIds == Ckpt!Ids = 1 .. MaxId /\ MaxId \in Nat /\ Ckpt!None = 0
BY CheckpointsAssumed DEF Ckpt!CheckpointsAssumption, Ckpt!Ids, Ckpt!None

LEMMA NewestIsLatest ==
  ASSUME CkptShape, NEW m, Newest(m)
  PROVE  Ckpt!Latest = m /\ m \in Nat /\ m # 0
<1>1. DOMAIN cps \subseteq Nat \ {0} /\ DOMAIN cps # {}
  BY CkptIds DEF CkptShape, Newest
<1>2. \A x \in DOMAIN cps : (\A y \in DOMAIN cps : x >= y) <=> x = m
  BY <1>1 DEF Newest
<1>3. (CHOOSE x \in DOMAIN cps : \A y \in DOMAIN cps : x >= y) = m
  BY <1>2 DEF Newest
<1> QED
  BY <1>1, <1>3 DEF Newest, Ckpt!Latest, Ckpt!Max

LEMMA LatestIsNewest ==
  ASSUME CkptShape, Told
  PROVE  /\ Ckpt!Latest = Ckpt!None <=> DOMAIN cps = {}
         /\ DOMAIN cps # {} => Newest(Ckpt!Latest) /\ Ckpt!Latest \in Ckpt!Ids
<1>1. CASE DOMAIN cps = {}
  BY <1>1 DEF Ckpt!Latest
<1>2. CASE DOMAIN cps # {}
  <2>1. PICK m : Newest(m)
    BY <1>2 DEF Told
  <2>2. Ckpt!Latest = m /\ m # 0
    BY <2>1, NewestIsLatest
  <2> QED
    BY <1>2, <2>1, <2>2, CkptIds DEF CkptShape, Newest
<1> QED
  BY <1>1, <1>2

LEMMA CkptInit == Init => CkptInv
<1> SUFFICES ASSUME Init PROVE CkptInv
  OBVIOUS
<1>1. /\ DOMAIN cps = {} /\ cwrites = [id \in Ckpt!Ids |-> {}] /\ lastId = 0
      /\ turn = [pc |-> "idle", from |-> 0] /\ said = {} /\ lost = FALSE /\ pruner = Ckpt!AtRest
  BY CkptIds DEF Init, Ckpt!Init
<1>2. IsFiniteSet(said)
  BY <1>1, FS_EmptySet
<1>3. CkptShape
  BY <1>1, <1>2 DEF CkptShape
<1>4. Told /\ Ckpt!EveryRowDecodes
  BY <1>1 DEF Told, Ckpt!EveryRowDecodes
<1>5. CkptRoles
  BY <1>1, CkptIds DEF CkptRoles, Pauses, Pruners, Ckpt!AtRest
<1> QED
  BY <1>3, <1>4, <1>5 DEF CkptInv, CkptRows

LEMMA SameCardinality == \A S : Ckpt!Cardinality(S) = Cardinality(S)
BY DEF Ckpt!Cardinality, Cardinality

(* A message more.                                                          *)
LEMMA NewMessageIs ==
  ASSUME CkptShape
  PROVE  /\ Ckpt!NewMessage \in Nat /\ said \cup {Ckpt!NewMessage} \in SUBSET Nat
         /\ IsFiniteSet(said \cup {Ckpt!NewMessage})
<1>1. Cardinality(said) \in Nat
  BY FS_CardinalityType DEF CkptShape
<1>2. Ckpt!NewMessage \in Nat
  BY <1>1, SameCardinality DEF Ckpt!NewMessage
<1>3. IsFiniteSet(said \cup {Ckpt!NewMessage})
  BY FS_AddElement DEF CkptShape
<1> QED
  BY <1>2, <1>3 DEF CkptShape

(* A row more, with the next id, is the newest.                             *)
LEMMA NextRow ==
  ASSUME CkptShape, NEW row \in CheckpointRow, row.parent < lastId + 1, lastId < MaxId,
         lastId' = lastId + 1, cps' = Ckpt!With(lastId + 1, row),
         cwrites' \in [Ckpt!Ids -> SUBSET Nat],
         \A c \in Ckpt!Ids : c > lastId => cwrites'[c] = {},
         said' \in SUBSET Nat, IsFiniteSet(said'), lost' = lost
  PROVE  /\ CkptShape' /\ lastId + 1 \in Ckpt!Ids /\ lastId + 1 \notin DOMAIN cps
         /\ DOMAIN cps' = DOMAIN cps \cup {lastId + 1} /\ cps'[lastId + 1] = row
         /\ \A c \in DOMAIN cps : cps'[c] = cps[c]
         /\ \A m : Newest(m)' <=> m = lastId + 1
         /\ cwrites'[lastId + 1] = {}
<1> DEFINE id == lastId + 1
<1>1. lastId \in Nat /\ id \in 1 .. MaxId
  BY CkptIds DEF CkptShape
<1>2. DOMAIN cps \subseteq 1 .. MaxId /\ \A c \in DOMAIN cps : c <= lastId
  BY CkptIds DEF CkptShape
<1>3. id \notin DOMAIN cps
  BY <1>1, <1>2
<1>4. /\ DOMAIN cps' = DOMAIN cps \cup {id} /\ cps'[id] = row
      /\ \A c \in DOMAIN cps : cps'[c] = cps[c]
  BY <1>3 DEF Ckpt!With
<1>5. \A m : Newest(m)' <=> m = id
  BY <1>1, <1>2, <1>4 DEF Newest
<1>6. CkptShape'
  <2>1. DOMAIN cps' \subseteq Ckpt!Ids
    BY <1>1, <1>2, <1>4, CkptIds
  <2>2. ASSUME NEW c \in DOMAIN cps'
        PROVE  c <= lastId' /\ cps'[c] \in CheckpointRow /\ cps'[c].parent < c
    <3>1. CASE c = id
      BY <1>1, <1>4, <3>1
    <3>2. CASE c \in DOMAIN cps
      BY <1>1, <1>2, <1>4, <3>2 DEF CkptShape
    <3> QED
      BY <1>4, <3>1, <3>2
  <2>3. \A c \in Ckpt!Ids : c > lastId' => cwrites'[c] = {}
    BY <1>1, CkptIds
  <2>4. lastId' \in Nat
    BY <1>1
  <2> QED
    BY <2>1, <2>2, <2>3, <2>4 DEF CkptShape
<1>7. cwrites'[id] = {}
  BY <1>1, CkptIds
<1> QED
  BY <1>1, <1>3, <1>4, <1>5, <1>6, <1>7, CkptIds

LEMMA ReplayOwn ==
  ASSUME NEW rows, NEW writes, NEW id, rows[id].inline
  PROVE  Ckpt!Replay(rows, writes, id) = rows[id].msgs
BY DEF Ckpt!Replay

(* What a row tells is what it is replayed from, and messages are numbers.  *)
LEMMA KnownIs ==
  ASSUME CkptShape, NEW id \in DOMAIN cps
  PROVE  /\ Ckpt!Known(id) = Ckpt!Replay(cps, cwrites, id) \cup cwrites[id]
         /\ Ckpt!Replay(cps, cwrites, id) \in SUBSET Nat
         /\ Ckpt!Known(id) \in SUBSET Nat
<1>1. Ckpt!Known(id) = Ckpt!Replay(cps, cwrites, id) \cup cwrites[id]
  BY DEF Ckpt!Known
<1>2. ASSUME NEW c \in DOMAIN cps PROVE Found(cps, cwrites, c) \in SUBSET Nat
  <2>1. cps[c] \in CheckpointRow /\ \A p \in DOMAIN cps : cwrites[p] \in SUBSET Nat
    BY DEF CkptShape
  <2> QED
    BY <2>1, FoundIs DEF CheckpointRow
<1>3. Ckpt!Replay(cps, cwrites, id) = UNION {Found(cps, cwrites, c) : c \in Walk(cps, id)}
  BY ReplayWalks
<1>4. Walk(cps, id) \subseteq DOMAIN cps
  BY WalkCloses
<1>5. Ckpt!Replay(cps, cwrites, id) \in SUBSET Nat
  BY <1>2, <1>3, <1>4
<1>6. cwrites[id] \in SUBSET Nat
  BY DEF CkptShape
<1> QED
  BY <1>1, <1>5, <1>6

LEMMA StartRows ==
  ASSUME CkptInv, NEW f \in Fields, Ckpt!StartThread(f) PROVE CkptRows'
<1> DEFINE id == lastId + 1
           row == [parent |-> 0, inline |-> TRUE, msgs |-> {}, answered |-> FALSE,
                   field |-> f, ref |-> FALSE]
<1>1. /\ Ckpt!Latest = Ckpt!None /\ lastId < MaxId /\ lastId' = id /\ lost' = lost
      /\ cps' = Ckpt!With(id, row) /\ cwrites' = cwrites /\ blobs' = blobs /\ said' = said
  BY CkptIds DEF Ckpt!StartThread
<1>2. CkptShape /\ Told /\ lastId \in Nat
  BY DEF CkptInv, CkptRows, CkptShape
<1>3. DOMAIN cps = {} /\ said = {}
  BY <1>1, <1>2, LatestIsNewest DEF Told
<1>4. row \in CheckpointRow /\ row.parent < id /\ row.inline /\ row.msgs = {} /\ ~row.ref
  BY <1>2 DEF CheckpointRow
<1>5. /\ cwrites' \in [Ckpt!Ids -> SUBSET Nat] /\ said' \in SUBSET Nat /\ IsFiniteSet(said')
      /\ \A c \in Ckpt!Ids : c > lastId => cwrites'[c] = {}
  BY <1>1, <1>2 DEF CkptShape
<1> HIDE DEF row
<1>6. /\ CkptShape' /\ DOMAIN cps' = DOMAIN cps \cup {id} /\ cps'[id] = row
      /\ \A m : Newest(m)' <=> m = id
      /\ cwrites'[id] = {}
  BY <1>1, <1>2, <1>4, <1>5, NextRow
<1>7. Ckpt!Replay(cps', cwrites', id) = {}
  BY <1>4, <1>6, ReplayOwn
<1>8. Told'
  BY <1>1, <1>3, <1>6, <1>7 DEF Told, Ckpt!Known
<1>9. Ckpt!EveryRowDecodes'
  BY <1>3, <1>4, <1>6 DEF Ckpt!EveryRowDecodes
<1> QED
  BY <1>6, <1>8, <1>9 DEF CkptRows

LEMMA AskRows ==
  ASSUME CkptInv, Ckpt!Ask PROVE CkptRows'
<1> DEFINE new == {Ckpt!NewMessage}
           m == Ckpt!Latest
<1>1. /\ m # Ckpt!None /\ cps' = cps /\ blobs' = blobs /\ lastId' = lastId /\ lost' = lost
      /\ cwrites' = [cwrites EXCEPT ![m] = @ \cup new] /\ said' = said \cup new
  BY DEF Ckpt!Ask
<1>2. CkptShape /\ Told
  BY DEF CkptInv, CkptRows
<1>3. Newest(m) /\ m \in Ckpt!Ids /\ DOMAIN cps # {}
  BY <1>1, <1>2, LatestIsNewest
<1>4. new \in SUBSET Nat /\ said' \in SUBSET Nat /\ IsFiniteSet(said')
  BY <1>1, <1>2, NewMessageIs
<1>5. m \in DOMAIN cps /\ m <= lastId /\ lastId \in Nat /\ cwrites \in [Ckpt!Ids -> SUBSET Nat]
  BY <1>2, <1>3 DEF Newest, CkptShape
<1> HIDE DEF new, m
<1>6. /\ cwrites' \in [Ckpt!Ids -> SUBSET Nat] /\ cwrites'[m] = cwrites[m] \cup new
      /\ \A c \in Ckpt!Ids : c # m => cwrites'[c] = cwrites[c]
  BY <1>1, <1>3, <1>4, <1>5
<1>7. CkptShape'
  <2>1. \A c \in Ckpt!Ids : c > lastId' => cwrites'[c] = {}
    BY <1>1, <1>2, <1>5, <1>6, CkptIds DEF CkptShape
  <2> QED
    BY <1>1, <1>2, <1>4, <1>6, <2>1 DEF CkptShape
<1>8. \A x : Newest(x)' <=> x = m
  BY <1>1, <1>2, <1>3, NewestIsLatest DEF Newest, m
<1>9. ASSUME ~lost PROVE Ckpt!Replay(cps, cwrites', m) \cup cwrites'[m] = said'
  <2>1. \A p \in DOMAIN cps : cwrites[p] \subseteq cwrites'[p] /\ cwrites'[p] \subseteq cwrites[p] \cup new
    BY <1>2, <1>6 DEF CkptShape
  <2>2. /\ Ckpt!Replay(cps, cwrites, m) \subseteq Ckpt!Replay(cps, cwrites', m)
        /\ Ckpt!Replay(cps, cwrites', m) \subseteq Ckpt!Replay(cps, cwrites, m) \cup new
    BY <1>5, <2>1, ReplayGrows
  <2>3. Ckpt!Replay(cps, cwrites, m) \cup cwrites[m] = said
    BY <1>2, <1>3, <1>5, <1>9 DEF Told, Ckpt!Known
  <2> QED
    BY <1>1, <1>6, <2>2, <2>3
<1>10. Told'
  BY <1>1, <1>3, <1>5, <1>8, <1>9 DEF Told, Ckpt!Known
<1>11. Ckpt!EveryRowDecodes'
  BY <1>1 DEF CkptInv, CkptRows, Ckpt!EveryRowDecodes
<1> QED
  BY <1>7, <1>10, <1>11 DEF CkptRows

LEMMA PutRows ==
  ASSUME CkptInv, NEW f \in Fields, NEW compact \in BOOLEAN, NEW inline \in BOOLEAN,
         NEW pause \in BOOLEAN, Ckpt!Put(f, compact, inline, pause)
  PROVE  /\ CkptRows' /\ \A c \in DOMAIN cps : c # lastId + 1
         /\ \A m : Newest(m)' => cps'[m].answered = ~pause
<1> DEFINE id == lastId + 1
           from == turn.from
           new == {Ckpt!NewMessage}
           known == Ckpt!Known(from)
           row == [parent |-> from, inline |-> inline,
                   msgs |-> IF inline THEN known \cup new ELSE {},
                   answered |-> ~pause, field |-> f, ref |-> compact]
<1>1. /\ turn.pc = "running" /\ lastId < MaxId /\ lastId' = id /\ cps' = Ckpt!With(id, row)
      /\ cwrites' = [cwrites EXCEPT ![from] = @ \cup new] /\ said' = said \cup new
      /\ blobs' = (IF compact THEN blobs \cup {f} ELSE blobs) /\ lost' = lost
  BY DEF Ckpt!Put
<1>2. CkptShape /\ Told /\ lastId \in Nat
  BY DEF CkptInv, CkptRows, CkptShape
<1>3. new \in SUBSET Nat /\ said' \in SUBSET Nat /\ IsFiniteSet(said')
  BY <1>1, <1>2, NewMessageIs
<1>4. Newest(from) /\ from \in DOMAIN cps /\ from <= lastId /\ from \in Ckpt!Ids /\ from \in Nat
  BY <1>1, <1>2, CkptIds DEF CkptInv, CkptRoles, Newest, CkptShape
<1>4a. /\ known = Ckpt!Replay(cps, cwrites, from) \cup cwrites[from] /\ known \in SUBSET Nat
       /\ ~lost => known = said
  BY <1>2, <1>4, KnownIs DEF Told
<1> HIDE DEF known
<1>5. /\ row \in CheckpointRow /\ row.parent = from /\ row.parent < id /\ row.inline = inline
      /\ row.field = f /\ row.ref = compact /\ row.answered = ~pause
  BY <1>2, <1>3, <1>4, <1>4a DEF CheckpointRow
<1>5a. inline => row.inline /\ row.msgs = known \cup new
  OBVIOUS
<1>5b. ~inline => ~row.inline
  OBVIOUS
<1>5c. row.ref => f \in blobs'
  BY <1>1
<1> HIDE DEF row, new, from
<1>6. /\ cwrites' \in [Ckpt!Ids -> SUBSET Nat] /\ cwrites'[from] = cwrites[from] \cup new
      /\ \A c \in Ckpt!Ids : c # from => cwrites'[c] = cwrites[c]
  BY <1>1, <1>2, <1>3, <1>4 DEF CkptShape
<1>7. \A c \in Ckpt!Ids : c > lastId => cwrites'[c] = {}
  BY <1>2, <1>4, <1>6, CkptIds DEF CkptShape
<1>8. /\ CkptShape' /\ id \notin DOMAIN cps
      /\ DOMAIN cps' = DOMAIN cps \cup {id} /\ cps'[id] = row
      /\ \A c \in DOMAIN cps : cps'[c] = cps[c]
      /\ \A m : Newest(m)' <=> m = id
      /\ cwrites'[id] = {}
  BY <1>1, <1>2, <1>3, <1>5, <1>6, <1>7, NextRow
<1>9. ASSUME ~lost PROVE Ckpt!Replay(cps', cwrites', id) = said'
  <2>1. CASE inline
    BY <1>1, <1>4a, <1>5a, <1>8, <1>9, <2>1, ReplayOwn
  <2>2. CASE ~inline
    <3>1. /\ id \notin DOMAIN cps /\ ~row.inline /\ row.parent \in DOMAIN cps
          /\ cps' = [c \in DOMAIN cps \cup {id} |-> IF c = id THEN row ELSE cps[c]]
      BY <1>1, <1>4, <1>5, <1>5b, <1>8, <2>2 DEF Ckpt!With
    <3>2. \A c \in DOMAIN cps : cps[c].parent # id
      BY <1>2, CkptIds DEF CkptShape, CheckpointRow
    <3>3. Ckpt!Replay(cps', cwrites', id)
             = Ckpt!Replay(cps, cwrites', row.parent) \cup cwrites'[row.parent]
      <4> HIDE DEF id
      <4> QED
        BY <3>1, <3>2, ReplayBelow
    <3>4. \A p \in DOMAIN cps :
             cwrites[p] \subseteq cwrites'[p] /\ cwrites'[p] \subseteq cwrites[p] \cup new
      BY <1>2, <1>6 DEF CkptShape
    <3>5. /\ Ckpt!Replay(cps, cwrites, from) \subseteq Ckpt!Replay(cps, cwrites', from)
          /\ Ckpt!Replay(cps, cwrites', from) \subseteq Ckpt!Replay(cps, cwrites, from) \cup new
      BY <1>4, <3>4, ReplayGrows
    <3>6. Ckpt!Replay(cps, cwrites, from) \cup cwrites[from] = said
      BY <1>4a, <1>9
    <3> QED
      BY <1>1, <1>5, <1>6, <3>3, <3>5, <3>6
  <2> QED
    BY <2>1, <2>2
<1>10. Told'
  BY <1>1, <1>8, <1>9 DEF Told, Ckpt!Known
<1>11. Ckpt!EveryRowDecodes'
  <2>1. blobs \subseteq blobs'
    BY <1>1
  <2> QED
    BY <1>5, <1>5c, <1>8, <2>1 DEF CkptInv, CkptRows, Ckpt!EveryRowDecodes
<1> QED
  BY <1>5, <1>8, <1>10, <1>11 DEF CkptRows

LEMMA DeleteThreadRows ==
  ASSUME CkptInv, Ckpt!DeleteThread PROVE CkptRows'
<1>1. /\ DOMAIN cps' = {} /\ cwrites' = [id \in Ckpt!Ids |-> {}] /\ said' = {} /\ lost' = FALSE
      /\ lastId' = lastId
  BY DEF Ckpt!DeleteThread, Ckpt!Without
<1>2. CkptShape'
  BY <1>1, FS_EmptySet DEF CkptInv, CkptRows, CkptShape
<1>3. Told' /\ Ckpt!EveryRowDecodes'
  BY <1>1 DEF Told, Ckpt!EveryRowDecodes
<1> QED
  BY <1>2, <1>3 DEF CkptRows

LEMMA SealRows ==
  ASSUME CkptInv, Ckpt!Seal
  PROVE  /\ CkptRows' /\ DOMAIN cps' # {}
         /\ \A m \in DOMAIN cps' :
               Newest(m)' => cps'[m].inline /\ cps'[m].answered = pruner.answered
<1> DEFINE id == lastId + 1
           old == cps[pruner.row]
           row == [old EXCEPT !.parent = 0, !.inline = TRUE, !.msgs = pruner.msgs,
                              !.answered = pruner.answered, !.ref = TRUE]
<1>1. /\ pruner.pc = "seal" /\ lastId < MaxId /\ lastId' = id /\ pruner.row \in DOMAIN cps
      /\ cps' = Ckpt!With(id, row) /\ blobs' = blobs \cup {old.field}
      /\ cwrites' = cwrites /\ said' = said /\ lost' = lost
  BY CkptIds DEF Ckpt!Seal
<1>2. CkptShape /\ Told /\ lastId \in Nat
  BY DEF CkptInv, CkptRows, CkptShape
<1>3. /\ ~lost => pruner.msgs = said
      /\ said \in SUBSET Nat /\ old \in CheckpointRow
      /\ pruner.msgs \in SUBSET Nat /\ pruner.answered \in BOOLEAN
  BY <1>1 DEF CkptInv, CkptRows, CkptShape, CkptRoles, Pruners
<1>4. /\ row \in CheckpointRow /\ row.parent < id /\ row.inline /\ row.msgs = pruner.msgs
      /\ row.field = old.field /\ row.answered = pruner.answered
  <2> HIDE DEF old
  <2>0. old \in CheckpointRow /\ pruner.msgs \in SUBSET Nat /\ pruner.answered \in BOOLEAN
    BY <1>3
  <2>1. row \in CheckpointRow
    BY <2>0 DEF CheckpointRow
  <2>2. row.parent = 0 /\ row.field = old.field
    BY <2>0 DEF CheckpointRow
  <2>3. row.inline
    BY <2>0 DEF CheckpointRow
  <2>4. row.msgs = pruner.msgs /\ row.answered = pruner.answered
    BY <2>0 DEF CheckpointRow
  <2> HIDE DEF row
  <2> QED
    BY <1>2, <1>3, <2>1, <2>2, <2>3, <2>4
<1>5. /\ cwrites' \in [Ckpt!Ids -> SUBSET Nat] /\ said' \in SUBSET Nat /\ IsFiniteSet(said')
      /\ \A c \in Ckpt!Ids : c > lastId => cwrites'[c] = {}
  BY <1>1, <1>2 DEF CkptShape
<1> HIDE DEF row, old
<1>6. /\ CkptShape' /\ DOMAIN cps' = DOMAIN cps \cup {id} /\ cps'[id] = row
      /\ \A c \in DOMAIN cps : cps'[c] = cps[c]
      /\ \A m : Newest(m)' <=> m = id
      /\ cwrites'[id] = {}
  BY <1>1, <1>2, <1>4, <1>5, NextRow
<1>7. ~lost => Ckpt!Replay(cps', cwrites', id) = said
  BY <1>3, <1>4, <1>6, ReplayOwn
<1>8. Told'
  BY <1>1, <1>6, <1>7 DEF Told, Ckpt!Known
<1>9. Ckpt!EveryRowDecodes'
  BY <1>1, <1>4, <1>6 DEF CkptInv, CkptRows, Ckpt!EveryRowDecodes
<1> QED
  BY <1>4, <1>6, <1>8, <1>9 DEF CkptRows

(* What is lost is what a prune deletes above a newest row that could not   *)
(* be read.                                                                 *)
LEMMA VictimsRows ==
  ASSUME CkptInv, Ckpt!DeleteVictims
  PROVE  /\ CkptRows' /\ DOMAIN cps' # {}
         /\ \A x : Newest(x)' => Newest(x) /\ x \in DOMAIN cps /\ cps'[x] = cps[x]
<1> DEFINE gone == pruner.victims
<1>1. /\ pruner.pc = "delete" /\ lastId' = lastId /\ said' = said /\ blobs' = blobs
      /\ DOMAIN cps' = DOMAIN cps \ gone /\ \A c \in DOMAIN cps' : cps'[c] = cps[c]
      /\ cwrites' = [c \in Ckpt!Ids |-> IF c \in gone THEN {} ELSE cwrites[c]]
      /\ lost' = (lost \/ (pruner.unread /\ gone # {}))
  BY DEF Ckpt!DeleteVictims, Ckpt!Without, Ckpt!WithoutWrites
<1>2. CkptShape /\ Told /\ pruner.unread \in BOOLEAN
  BY DEF CkptInv, CkptRows, CkptRoles, Pruners
<1>3. PICK m : Newest(m)
  BY <1>1, <1>2 DEF CkptInv, CkptRoles, Told
<1>4. /\ m \in DOMAIN cps /\ m \notin gone /\ (cps[m].inline \/ pruner.unread)
      /\ m \in Ckpt!Ids /\ m \in Nat
      /\ m \in DOMAIN cps' /\ cps'[m] = cps[m] /\ cwrites'[m] = cwrites[m]
  BY <1>1, <1>2, <1>3, CkptIds DEF CkptInv, CkptRoles, Newest, CkptShape
<1>5. \A x : Newest(x)' <=> x = m
  BY <1>1, <1>2, <1>3, <1>4, CkptIds DEF Newest, CkptShape
<1>6. CkptShape'
  <2>1. cwrites' \in [Ckpt!Ids -> SUBSET Nat] /\ \A c \in Ckpt!Ids : c > lastId' => cwrites'[c] = {}
    BY <1>1, <1>2 DEF CkptShape
  <2> QED
    BY <1>1, <1>2, <2>1 DEF CkptShape
<1>7. ASSUME ~lost'
      PROVE  Ckpt!Replay(cps', cwrites', m) = Ckpt!Replay(cps, cwrites, m)
  <2>1. CASE cps[m].inline
    BY <1>4, <2>1, ReplayOwn
  <2>2. CASE gone = {}
    <3>1. DOMAIN cps' = DOMAIN cps /\ \A c \in DOMAIN cps : cps'[c] = cps[c]
      BY <1>1, <2>2
    <3>2. \A p \in DOMAIN cps : cwrites'[p] = cwrites[p]
      BY <1>1, <1>2, <2>2 DEF CkptShape
    <3>3. \A c \in DOMAIN cps : Up(cps')[c] = Up(cps)[c]
      BY <3>1 DEF Up
    <3>4. \A c \in DOMAIN cps : Found(cps', cwrites', c) = Found(cps, cwrites, c)
      BY <3>1, <3>2, FoundIs
    <3>5. Walk(cps, m) \subseteq DOMAIN cps
      BY <1>4, WalkCloses
    <3> QED
      BY <1>4, <3>1, <3>3, <3>4, <3>5, ReplaySame
  <2> QED
    BY <1>1, <1>4, <1>7, <2>1, <2>2
<1>8. Told'
  <2>1. ~lost' => ~lost
    BY <1>1
  <2>2. ~lost' => Ckpt!Known(m)' = said'
    BY <1>1, <1>2, <1>3, <1>4, <1>7, <2>1 DEF Told, Ckpt!Known
  <2> QED
    BY <1>4, <1>5, <2>2 DEF Told
<1>9. Ckpt!EveryRowDecodes'
  BY <1>1 DEF CkptInv, CkptRows, Ckpt!EveryRowDecodes
<1> QED
  BY <1>3, <1>4, <1>5, <1>6, <1>8, <1>9 DEF CkptRows

(* Rewriting rows to references, or back, changes none of their messages.   *)
LEMMA MigrateReplay ==
  ASSUME CkptShape, NEW ids \in SUBSET DOMAIN cps, NEW expand \in BOOLEAN, Ckpt!Migrate(ids, expand)
  PROVE  /\ CkptShape' /\ DOMAIN cps' = DOMAIN cps
         /\ \A id \in DOMAIN cps :
               /\ Ckpt!Replay(cps', cwrites', id) = Ckpt!Replay(cps, cwrites, id)
               /\ cps'[id].answered = cps[id].answered
<1>1. /\ lastId' = lastId /\ said' = said /\ cwrites' = cwrites /\ lost' = lost
      /\ cps' = [id \in DOMAIN cps |->
                   IF id \in ids THEN [cps[id] EXCEPT !.ref = ~expand] ELSE cps[id]]
  BY DEF Ckpt!Migrate
<1>2. \A c \in DOMAIN cps : cps[c] \in CheckpointRow
  BY DEF CkptShape
<1>3. ASSUME NEW c \in DOMAIN cps
      PROVE  /\ cps'[c] \in CheckpointRow /\ cps'[c].parent = cps[c].parent
             /\ cps'[c].inline = cps[c].inline /\ cps'[c].msgs = cps[c].msgs
             /\ cps'[c].answered = cps[c].answered
  BY <1>1, <1>2 DEF CheckpointRow
<1>4. CkptShape'
  BY <1>1, <1>3 DEF CkptShape
<1>5. ASSUME NEW c \in DOMAIN cps
      PROVE  Up(cps')[c] = Up(cps)[c] /\ Found(cps', cwrites', c) = Found(cps, cwrites, c)
  <2>1. DOMAIN cps' = DOMAIN cps
    BY <1>1
  <2>2. Up(cps')[c] = Up(cps)[c]
    BY <1>3, <2>1 DEF Up
  <2> QED
    BY <1>1, <1>3, <2>2 DEF Found
<1>6. ASSUME NEW id \in DOMAIN cps
      PROVE  Ckpt!Replay(cps', cwrites', id) = Ckpt!Replay(cps, cwrites, id)
  <2>1. Walk(cps, id) \subseteq DOMAIN cps /\ Walk(cps, id) \subseteq DOMAIN cps'
    BY <1>1, WalkCloses
  <2> QED
    BY <1>5, <2>1, ReplaySame
<1> QED
  BY <1>1, <1>3, <1>4, <1>6

LEMMA MigrateRows ==
  ASSUME CkptInv, NEW ids \in SUBSET DOMAIN cps, NEW expand \in BOOLEAN, Ckpt!Migrate(ids, expand)
  PROVE  CkptRows' /\ \A m : Newest(m)' => Newest(m) /\ cps'[m].answered = cps[m].answered
<1>1. CkptShape /\ Told
  BY DEF CkptInv, CkptRows
<1>2. /\ CkptShape' /\ DOMAIN cps' = DOMAIN cps
      /\ \A id \in DOMAIN cps :
            /\ Ckpt!Replay(cps', cwrites', id) = Ckpt!Replay(cps, cwrites, id)
            /\ cps'[id].answered = cps[id].answered
  BY <1>1, MigrateReplay
<1>3. said' = said /\ cwrites' = cwrites /\ lost' = lost
  BY DEF Ckpt!Migrate
<1>4. \A m : Newest(m)' <=> Newest(m)
  BY <1>2 DEF Newest
<1>5. Told'
  BY <1>1, <1>2, <1>3, <1>4 DEF Told, Ckpt!Known
<1>6. Ckpt!EveryRowDecodes'
  <2>1. ASSUME NEW c \in DOMAIN cps, cps'[c].ref PROVE cps'[c].field \in blobs'
    <3>1. cps[c] \in CheckpointRow
      BY <1>1 DEF CkptShape
    <3>2. CASE c \in ids
      <4>1. cps'[c] = [cps[c] EXCEPT !.ref = ~expand]
        BY <3>2 DEF Ckpt!Migrate
      <4>2. ~expand /\ cps'[c].field = cps[c].field
        BY <2>1, <3>1, <4>1 DEF CheckpointRow
      <4> QED
        BY <3>2, <4>2 DEF Ckpt!Migrate
    <3>3. CASE c \notin ids
      <4>1. cps'[c] = cps[c] /\ blobs \subseteq blobs'
        BY <3>3 DEF Ckpt!Migrate
      <4> QED
        BY <2>1, <4>1 DEF CkptInv, CkptRows, Ckpt!EveryRowDecodes
    <3> QED
      BY <3>2, <3>3
  <2> QED
    BY <1>2, <2>1 DEF Ckpt!EveryRowDecodes
<1> QED
  BY <1>2, <1>4, <1>5, <1>6 DEF CkptRows, Newest

(* What the offline prune keeps is closed under the walk of every row in    *)
(* it, so that each is replayed from what it was replayed from before.      *)
LEMMA PruneReplay ==
  ASSUME CkptShape, NEW keepLast \in 1..2, NEW protected \in SUBSET DOMAIN cps,
         Ckpt!PruneCompleted(keepLast, protected)
  PROVE  /\ CkptShape' /\ DOMAIN cps' \subseteq DOMAIN cps
         /\ \A id \in DOMAIN cps' : /\ Ckpt!Replay(cps', cwrites', id) = Ckpt!Replay(cps, cwrites, id)
                                    /\ cwrites'[id] = cwrites[id]
                                    /\ cps'[id].ref = cps[id].ref /\ cps'[id].field = cps[id].field
                                    /\ cps'[id].answered = cps[id].answered
         /\ \A m : Newest(m) => m \in DOMAIN cps'
<1> DEFINE newest == {id \in DOMAIN cps : Ckpt!Cardinality({c \in DOMAIN cps : c > id}) < keepLast}
           roots == newest \cup protected
           keep == Ckpt!Dependencies(roots)
           gone == DOMAIN cps \ keep
           named == DOMAIN cps \cup {cps[id].parent : id \in DOMAIN cps}
           go == [c \in named |-> IF c \in DOMAIN cps /\ ~Ckpt!FullSeed(c) THEN {cps[c].parent} ELSE {}]
<1>1. /\ keep \subseteq DOMAIN cps /\ lastId' = lastId /\ said' = said /\ lost' = lost
      /\ cps' = [id \in keep |->
                   IF Ckpt!FullSeed(id) /\ cps[id].parent \in gone
                   THEN [cps[id] EXCEPT !.parent = 0] ELSE cps[id]]
      /\ cwrites' = Ckpt!WithoutWrites(gone)
  BY CkptIds DEF Ckpt!PruneCompleted
<1>2. keep = Ckpt!Reached(named, roots, go)
  BY DEF Ckpt!Dependencies
<1>3. roots \in SUBSET named /\ \A c \in named : go[c] \subseteq named
  OBVIOUS
<1>4. roots \subseteq keep /\ \A c \in keep : go[c] \subseteq keep
  <2> HIDE DEF keep, named, roots, go
  <2>1. roots \subseteq keep
    BY <1>2, <1>3, ReachedRoots
  <2>2. ASSUME NEW c \in keep PROVE go[c] \subseteq keep
    BY <1>2, <1>3, ReachedCloses
  <2> QED
    BY <2>1, <2>2
<1>5. \A c \in keep : cps[c].inline \/ cps[c].parent \in keep
  <2> SUFFICES ASSUME NEW c \in keep, ~cps[c].inline PROVE cps[c].parent \in keep
    OBVIOUS
  <2>1. c \in DOMAIN cps /\ ~Ckpt!FullSeed(c)
    BY <1>1 DEF Ckpt!FullSeed
  <2>2. c \in named
    BY <2>1
  <2>3. go[c] = {cps[c].parent}
    <3> HIDE DEF named
    <3> QED
      BY <2>1, <2>2
  <2>4. go[c] \subseteq keep
    BY <1>4
  <2> HIDE DEF go, keep
  <2> QED
    BY <2>3, <2>4
<1>6. \A m : Newest(m) => m \in keep
  <2> SUFFICES ASSUME NEW m, Newest(m) PROVE m \in newest
    BY <1>4
  <2>1. {c \in DOMAIN cps : c > m} = {}
    BY CkptIds DEF Newest, CkptShape
  <2>2. Ckpt!Cardinality({}) = 0
    BY SameCardinality, FS_EmptySet
  <2> QED
    BY <2>1, <2>2 DEF Newest
<1> HIDE DEF keep, named, roots, newest, go
<1>7. \A c \in DOMAIN cps : c \in Ckpt!Ids /\ cps[c] \in CheckpointRow /\ cps[c].parent < c
  BY DEF CkptShape
<1>8. ASSUME NEW c \in keep
      PROVE  /\ cps'[c] \in CheckpointRow /\ cps'[c].parent < c
             /\ cps'[c].inline = cps[c].inline /\ cps'[c].msgs = cps[c].msgs
             /\ cps'[c].ref = cps[c].ref /\ cps'[c].field = cps[c].field
             /\ cps'[c].answered = cps[c].answered
             /\ cwrites'[c] = cwrites[c]
             /\ ~cps[c].inline => cps'[c] = cps[c]
  <2>1. c \in Ckpt!Ids /\ cps[c] \in CheckpointRow /\ cps[c].parent < c /\ c \in Nat /\ c > 0
    BY <1>1, <1>7, CkptIds
  <2>2. cwrites'[c] = cwrites[c]
    BY <1>1, <2>1 DEF Ckpt!WithoutWrites
  <2>3. cps'[c] = cps[c] \/ (cps[c].inline /\ cps'[c] = [cps[c] EXCEPT !.parent = 0])
    BY <1>1 DEF Ckpt!FullSeed
  <2>4. CASE cps'[c] = cps[c]
    BY <2>1, <2>2, <2>4
  <2>5. CASE cps[c].inline /\ cps'[c] = [cps[c] EXCEPT !.parent = 0]
    <3> DEFINE old == cps[c]
               new == [old EXCEPT !.parent = 0]
    <3>1. old \in CheckpointRow
      BY <2>1
    <3> HIDE DEF old
    <3>2. new \in CheckpointRow /\ new.parent = 0
      BY <3>1 DEF CheckpointRow
    <3>3. new.inline = old.inline
      BY <3>1 DEF CheckpointRow
    <3>4. new.msgs = old.msgs /\ new.field = old.field
      BY <3>1 DEF CheckpointRow
    <3>5. new.ref = old.ref /\ new.answered = old.answered
      BY <3>1 DEF CheckpointRow
    <3>6. cps'[c] = new /\ old = cps[c]
      BY <2>5 DEF old
    <3> HIDE DEF new
    <3> QED
      BY <2>1, <2>2, <2>5, <3>2, <3>3, <3>4, <3>5, <3>6
  <2> QED
    BY <2>3, <2>4, <2>5
<1>9. DOMAIN cps' = keep
  BY <1>1
<1>10. CkptShape'
  <2>1. cwrites' \in [Ckpt!Ids -> SUBSET Nat] /\ \A c \in Ckpt!Ids : c > lastId' => cwrites'[c] = {}
    BY <1>1 DEF CkptShape, Ckpt!WithoutWrites
  <2> QED
    BY <1>1, <1>8, <1>9, <2>1 DEF CkptShape
<1>11. ASSUME NEW c \in keep
       PROVE  Up(cps')[c] = Up(cps)[c] /\ Up(cps)[c] \subseteq keep
  <2>1. CASE cps[c].inline
    BY <1>1, <1>8, <1>9, <2>1 DEF Up
  <2>2. CASE ~cps[c].inline
    <3>1. cps[c].parent \in keep /\ cps'[c] = cps[c]
      BY <1>5, <1>8, <2>2
    <3> QED
      BY <1>1, <1>9, <2>2, <3>1 DEF Up
  <2> QED
    BY <2>1, <2>2
<1>12. ASSUME NEW c \in keep
       PROVE  Found(cps', cwrites', c) = Found(cps, cwrites, c)
  <2>1. CASE cps[c].inline
    BY <1>8, <2>1 DEF Found
  <2>2. CASE ~cps[c].inline
    <3>1. cps'[c] = cps[c] /\ Up(cps')[c] = Up(cps)[c] /\ \A p \in Up(cps)[c] : cwrites'[p] = cwrites[p]
      BY <1>8, <1>11, <2>2
    <3> QED
      BY <2>2, <3>1 DEF Found
  <2> QED
    BY <2>1, <2>2
<1>13. ASSUME NEW id \in keep
       PROVE  Ckpt!Replay(cps', cwrites', id) = Ckpt!Replay(cps, cwrites, id)
  <2>1. Walk(cps, id) \subseteq keep
    BY <1>1, <1>11, WalkLeast
  <2>2. /\ id \in DOMAIN cps /\ Walk(cps, id) \subseteq DOMAIN cps'
        /\ \A c \in Walk(cps, id) : /\ Up(cps')[c] = Up(cps)[c]
                                    /\ Found(cps', cwrites', c) = Found(cps, cwrites, c)
    BY <1>1, <1>9, <1>11, <1>12, <2>1
  <2> QED
    BY <2>2, ReplaySame
<1> QED
  BY <1>1, <1>6, <1>8, <1>9, <1>10, <1>13

LEMMA PruneRows ==
  ASSUME CkptInv, NEW keepLast \in 1..2, NEW protected \in SUBSET DOMAIN cps,
         Ckpt!PruneCompleted(keepLast, protected)
  PROVE  CkptRows'
<1>1. CkptShape /\ Told /\ DOMAIN cps # {} /\ said' = said /\ blobs' = blobs /\ lost' = lost
  BY DEF CkptInv, CkptRows, Ckpt!PruneCompleted
<1>2. /\ CkptShape' /\ DOMAIN cps' \subseteq DOMAIN cps
      /\ \A id \in DOMAIN cps' : /\ Ckpt!Replay(cps', cwrites', id) = Ckpt!Replay(cps, cwrites, id)
                                 /\ cwrites'[id] = cwrites[id]
                                 /\ cps'[id].ref = cps[id].ref /\ cps'[id].field = cps[id].field
                                 /\ cps'[id].answered = cps[id].answered
      /\ \A m : Newest(m) => m \in DOMAIN cps'
  BY <1>1, PruneReplay
<1>3. PICK m : Newest(m)
  BY <1>1 DEF Told
<1>4. \A x : Newest(x)' <=> x = m
  BY <1>1, <1>2, <1>3, CkptIds DEF Newest, CkptShape
<1>5. Told'
  BY <1>1, <1>2, <1>3, <1>4 DEF Told, Newest, Ckpt!Known
<1>6. Ckpt!EveryRowDecodes'
  BY <1>1, <1>2 DEF CkptInv, CkptRows, Ckpt!EveryRowDecodes
<1> QED
  BY <1>2, <1>5, <1>6 DEF CkptRows

LEMMA CollectRows ==
  ASSUME CkptInv, Ckpt!CollectBlobs PROVE CkptRows'
<1>1. /\ cps' = cps /\ cwrites' = cwrites /\ lastId' = lastId /\ said' = said /\ lost' = lost
      /\ blobs' = blobs \cap {cps[id].field : id \in {c \in DOMAIN cps : cps[c].ref}}
  BY DEF Ckpt!CollectBlobs
<1>2. CkptShape' /\ Told'
  BY <1>1 DEF CkptInv, CkptRows, CkptShape, Told, Newest, Ckpt!Known
<1>3. Ckpt!EveryRowDecodes'
  BY <1>1 DEF CkptInv, CkptRows, Ckpt!EveryRowDecodes
<1> QED
  BY <1>2, <1>3 DEF CkptRows

(* Where no prune is under way, only the row a turn starts from matters.    *)
LEMMA QuietRoles ==
  ASSUME CkptRoles, pruner.pc = "rest", pruner' = pruner,
         turn' \in [pc : {"idle", "running", "paused"}, from : Nat],
         turn'.pc = "running" => Newest(turn.from)', Pauses'
  PROVE  CkptRoles'
BY DEF CkptRoles

LEMMA GraphStep ==
  ASSUME CkptInv,
         \/ \E f \in Fields : Ckpt!StartThread(f)
         \/ Ckpt!Ask \/ Ckpt!SubgraphStep \/ Ckpt!Resume \/ Ckpt!DeleteThread
         \/ \E f \in Fields, compact, inline, pause \in BOOLEAN : Ckpt!Put(f, compact, inline, pause)
  PROVE  CkptInv'
<1>1. CkptShape /\ Told /\ CkptRows /\ CkptRoles
  BY DEF CkptInv, CkptRows
<1>2. ASSUME NEW f \in Fields, Ckpt!StartThread(f) PROVE CkptInv'
  <2>1. CkptRows'
    BY <1>2, StartRows
  <2>2. pruner.pc = "rest" /\ turn' = turn /\ pruner' = pruner /\ turn.pc = "idle"
    BY <1>2 DEF Ckpt!StartThread, Ckpt!Quiet
  <2>3. turn' \in [pc : {"idle", "running", "paused"}, from : Nat] /\ turn'.pc = "idle"
    BY <1>1, <2>2 DEF CkptRoles
  <2> QED
    BY <1>1, <2>1, <2>2, <2>3, QuietRoles DEF CkptInv, Pauses
<1>3. CASE Ckpt!Ask
  <2>1. CkptRows'
    BY <1>3, AskRows
  <2>2. /\ pruner.pc = "rest" /\ pruner' = pruner /\ cps' = cps /\ Ckpt!Latest # Ckpt!None
        /\ turn' = [pc |-> "running", from |-> Ckpt!Latest]
    BY <1>3 DEF Ckpt!Ask, Ckpt!Quiet
  <2>3. PICK m : m = Ckpt!Latest
    OBVIOUS
  <2>4. DOMAIN cps # {}
    BY <1>1, <2>2, LatestIsNewest
  <2>5. Newest(m) /\ m \in Nat
    BY <1>1, <2>3, <2>4, LatestIsNewest, CkptIds
  <2>6. turn' \in [pc : {"idle", "running", "paused"}, from : Nat] /\ turn'.from = m
    BY <2>2, <2>3, <2>5
  <2>7. Newest(turn.from)'
    BY <2>2, <2>5, <2>6 DEF Newest
  <2> QED
    BY <1>1, <2>1, <2>2, <2>6, <2>7, QuietRoles DEF CkptInv, Pauses
<1>4. CASE Ckpt!SubgraphStep
  <2>1. /\ cps' = cps /\ cwrites' = cwrites /\ said' = said /\ lost' = lost /\ blobs' = blobs
        /\ turn' = turn /\ pruner' = pruner /\ lastId' = lastId + 1
    BY <1>4 DEF Ckpt!SubgraphStep
  <2>2. CkptShape'
    BY <1>1, <2>1, CkptIds DEF CkptShape
  <2>3. Told' /\ Ckpt!EveryRowDecodes'
    BY <1>1, <2>1 DEF CkptRows, Told, Newest, Ckpt!EveryRowDecodes, Ckpt!Known
  <2>4. CkptRoles'
    BY <1>1, <2>1 DEF CkptRoles, Pauses, Newest
  <2> QED
    BY <2>2, <2>3, <2>4 DEF CkptInv, CkptRows
<1>5. CASE Ckpt!Resume
  <2>1. /\ cps' = cps /\ cwrites' = cwrites /\ said' = said /\ blobs' = blobs /\ lastId' = lastId
        /\ lost' = lost /\ pruner.pc = "rest" /\ pruner' = pruner /\ Ckpt!Latest # Ckpt!None
        /\ turn' = [pc |-> "running", from |-> Ckpt!Latest]
    BY <1>5 DEF Ckpt!Resume, Ckpt!Quiet
  <2>2. CkptRows'
    BY <1>1, <2>1 DEF CkptRows, CkptShape, Told, Newest, Ckpt!EveryRowDecodes, Ckpt!Known
  <2>3. PICK m : m = Ckpt!Latest
    OBVIOUS
  <2>4. DOMAIN cps # {}
    BY <1>1, <2>1, LatestIsNewest
  <2>5. Newest(m) /\ m \in Nat
    BY <1>1, <2>3, <2>4, LatestIsNewest, CkptIds
  <2>6. turn' \in [pc : {"idle", "running", "paused"}, from : Nat] /\ turn'.from = m
    BY <2>1, <2>3, <2>5
  <2>7. Newest(turn.from)'
    BY <2>1, <2>5, <2>6 DEF Newest
  <2> QED
    BY <1>1, <2>1, <2>2, <2>6, <2>7, QuietRoles DEF CkptInv, Pauses
<1>6. CASE Ckpt!DeleteThread
  <2>1. CkptRows'
    BY <1>6, DeleteThreadRows
  <2>2. pruner.pc = "rest" /\ turn' = turn /\ pruner' = pruner /\ turn.pc = "idle"
    BY <1>6 DEF Ckpt!DeleteThread, Ckpt!Quiet
  <2>3. turn' \in [pc : {"idle", "running", "paused"}, from : Nat] /\ turn'.pc = "idle"
    BY <1>1, <2>2 DEF CkptRoles
  <2> QED
    BY <1>1, <2>1, <2>2, <2>3, QuietRoles DEF CkptInv, Pauses
<1>7. ASSUME NEW f \in Fields, NEW compact \in BOOLEAN, NEW inline \in BOOLEAN,
             NEW pause \in BOOLEAN, Ckpt!Put(f, compact, inline, pause)
      PROVE  CkptInv'
  <2>1. CkptRows' /\ \A m : Newest(m)' => cps'[m].answered = ~pause
    BY <1>7, PutRows
  <2>2. /\ turn.pc = "running" /\ pruner' = pruner
        /\ turn' = [pc |-> IF pause THEN "paused" ELSE "idle", from |-> 0]
    BY <1>7, CkptIds DEF Ckpt!Put
  <2>3. pruner.pc = "rest"
    BY <1>1, <2>2 DEF CkptRoles
  <2>4. turn' \in [pc : {"idle", "running", "paused"}, from : Nat] /\ turn'.pc # "running"
    BY <2>2
  <2>5. Pauses'
    BY <2>1, <2>2 DEF Pauses
  <2> QED
    BY <1>1, <2>1, <2>2, <2>3, <2>4, <2>5, QuietRoles DEF CkptInv
<1> QED
  BY <1>2, <1>3, <1>4, <1>5, <1>6, <1>7

LEMMA PrunerStep ==
  ASSUME CkptInv,
         \/ Ckpt!ReadNewest \/ Ckpt!ReadFails \/ Ckpt!Seal \/ Ckpt!SealFails
         \/ Ckpt!CheckSubgraphs \/ Ckpt!DropSubgraphs \/ Ckpt!DeleteVictims \/ Ckpt!PruneDies
         \/ \E keepLast \in 1..2, cutoff \in {MaxId + 1, lastId} : Ckpt!ChooseVictims(keepLast, cutoff)
  PROVE  CkptInv'
<1>1. CkptShape /\ Told /\ CkptRows /\ CkptRoles
  BY DEF CkptInv, CkptRows
<1> DEFINE same == /\ cps' = cps /\ cwrites' = cwrites /\ said' = said /\ blobs' = blobs
                   /\ lastId' = lastId /\ turn' = turn /\ lost' = lost
<1>2. ASSUME cps' = cps, cwrites' = cwrites, said' = said, blobs' = blobs, lastId' = lastId,
             lost' = lost
      PROVE  CkptRows'
  BY <1>1, <1>2 DEF CkptRows, CkptShape, Told, Newest, Ckpt!EveryRowDecodes, Ckpt!Known
<1>2a. ASSUME same PROVE Pauses'
  BY <1>1, <1>2a DEF CkptRoles, Pauses, Newest
<1>3. ASSUME same PROVE \A m : Newest(m)' <=> Newest(m)
  BY <1>3 DEF Newest
<1>4. CASE Ckpt!ReadNewest
  <2>1. PICK m, msgs :
           m = Ckpt!Latest /\ msgs = Ckpt!Known(m)
    OBVIOUS
  <2>1a. PICK answered : answered = (cps[m].answered /\ cwrites[m] = {})
    OBVIOUS
  <2>2. /\ same /\ pruner.pc = "rest" /\ turn.pc # "running" /\ DOMAIN cps # {}
        /\ \/ cps[m].inline /\ pruner' = [Ckpt!AtRest EXCEPT !.pc = "choose"]
           \/ pruner' = [Ckpt!AtRest EXCEPT !.pc = "check"]
           \/ pruner' = [Ckpt!AtRest EXCEPT !.pc = "seal", !.row = m, !.msgs = msgs,
                             !.answered = answered]
    BY <1>4, <2>1, <2>1a DEF Ckpt!ReadNewest, Ckpt!PruneAllowed
  <2>3. Newest(m) /\ m \in Nat /\ m \in DOMAIN cps
    BY <1>1, <2>1, <2>2, LatestIsNewest, CkptIds DEF Newest
  <2>4. /\ ~lost => msgs = said
        /\ msgs \in SUBSET Nat
        /\ answered \in BOOLEAN /\ (turn.pc = "paused" => ~answered)
    BY <1>1, <2>1, <2>1a, <2>3, KnownIs DEF Told, CkptShape, CkptRoles, Pauses, CheckpointRow
  <2>5. \A x : Newest(x)' => x = m
    BY <1>1, <1>3, <2>2, <2>3, NewestIsLatest
  <2>6. CASE cps[m].inline /\ pruner' = [Ckpt!AtRest EXCEPT !.pc = "choose"]
    <3>1. /\ pruner'.pc = "choose" /\ ~pruner'.drop
          /\ pruner' \in Pruners
      BY <2>6, CkptIds DEF Ckpt!AtRest, Pruners
    <3>2. \A x \in DOMAIN cps' : Newest(x)' => cps'[x].inline
      BY <2>2, <2>5, <2>6
    <3> QED
      BY <1>1, <1>2, <1>2a, <2>2, <3>1, <3>2 DEF CkptInv, CkptRoles
  <2>7. CASE pruner' = [Ckpt!AtRest EXCEPT !.pc = "check"]
    <3>1. CkptRoles'
      BY <1>1, <1>2a, <2>2, <2>7, CkptIds DEF CkptRoles, Pruners, Ckpt!AtRest
    <3> QED
      BY <1>2, <2>2, <3>1 DEF CkptInv
  <2>8. CASE pruner' = [Ckpt!AtRest EXCEPT !.pc = "seal", !.row = m, !.msgs = msgs,
                           !.answered = answered]
    <3>1. /\ pruner'.pc = "seal" /\ pruner'.row = m /\ pruner'.msgs = msgs /\ ~pruner'.drop
          /\ pruner'.answered = answered
          /\ pruner' \in Pruners
      BY <2>2, <2>3, <2>4, <2>8, CkptIds DEF Ckpt!AtRest, Pruners
    <3>2. Newest(pruner.row)'
      BY <2>2, <2>3, <3>1 DEF Newest
    <3> QED
      BY <1>1, <1>2, <1>2a, <2>2, <2>4, <3>1, <3>2 DEF CkptInv, CkptRoles
  <2> QED
    BY <2>2, <2>6, <2>7, <2>8
<1>4a. CASE Ckpt!ReadFails
  <2>1. PICK m : m = Ckpt!Latest
    OBVIOUS
  <2>2. /\ same /\ pruner.pc = "rest" /\ turn.pc # "running" /\ DOMAIN cps # {}
        /\ pruner' = [Ckpt!AtRest EXCEPT !.pc = "choose", !.unread = ~cps[m].inline]
    BY <1>4a, <2>1 DEF Ckpt!ReadFails, Ckpt!PruneAllowed
  <2>3. Newest(m) /\ m \in DOMAIN cps
    BY <1>1, <2>1, <2>2, LatestIsNewest DEF Newest
  <2>4. \A x : Newest(x)' => x = m
    BY <1>1, <1>3, <2>2, <2>3, NewestIsLatest
  <2>5. /\ pruner'.pc = "choose" /\ ~pruner'.drop /\ pruner'.unread = ~cps[m].inline
        /\ pruner' \in Pruners
    BY <2>2, CkptIds DEF Ckpt!AtRest, Pruners
  <2>6. \A x \in DOMAIN cps' : Newest(x)' => cps'[x].inline \/ pruner'.unread
    BY <2>2, <2>4, <2>5
  <2> QED
    BY <1>1, <1>2, <1>2a, <2>2, <2>5, <2>6 DEF CkptInv, CkptRoles
<1>4b. CASE Ckpt!PruneDies
  <2>1. same /\ pruner' = Ckpt!AtRest
    BY <1>4b DEF Ckpt!PruneDies
  <2>2. CkptRoles'
    BY <1>1, <1>2a, <2>1, CkptIds DEF CkptRoles, Pruners, Ckpt!AtRest, Newest
  <2> QED
    BY <1>2, <2>1, <2>2 DEF CkptInv
<1>5. CASE Ckpt!Seal
  <2>1. /\ CkptRows' /\ DOMAIN cps' # {}
        /\ \A m \in DOMAIN cps' :
              Newest(m)' => cps'[m].inline /\ cps'[m].answered = pruner.answered
    BY <1>5, SealRows
  <2>2. /\ pruner.pc = "seal" /\ pruner' = [Ckpt!AtRest EXCEPT !.pc = "choose"] /\ turn' = turn
    BY <1>5 DEF Ckpt!Seal
  <2>3. turn.pc # "running" /\ turn \in [pc : {"idle", "running", "paused"}, from : Nat]
    BY <1>1, <2>2 DEF CkptRoles
  <2>4. Pauses'
    BY <1>1, <2>1, <2>2 DEF Pauses, CkptRoles
  <2>5. /\ pruner'.pc = "choose" /\ ~pruner'.drop /\ pruner' \in Pruners
    BY <2>2, CkptIds DEF Ckpt!AtRest, Pruners
  <2>6. CkptRoles'
    BY <2>1, <2>2, <2>3, <2>4, <2>5 DEF CkptRoles
  <2> QED
    BY <2>1, <2>6 DEF CkptInv
<1>6. CASE Ckpt!SealFails
  <2>1. same /\ pruner.pc = "seal" /\ pruner' = [Ckpt!AtRest EXCEPT !.pc = "check"]
    BY <1>6 DEF Ckpt!SealFails
  <2>2. CkptRoles'
    BY <1>1, <1>2a, <2>1, CkptIds DEF CkptRoles, Pruners, Ckpt!AtRest
  <2> QED
    BY <1>2, <2>1, <2>2 DEF CkptInv
<1>7. CASE Ckpt!CheckSubgraphs
  <2>1. PICK drop \in {FALSE, Ckpt!TurnFinished /\ \A s \in subs : s < Ckpt!Latest} :
           /\ same /\ pruner.pc = "check"
           /\ pruner' = [Ckpt!AtRest EXCEPT !.pc = "drop", !.drop = drop]
    BY <1>7 DEF Ckpt!CheckSubgraphs
  <2>2. drop \in BOOLEAN /\ (drop => turn.pc = "idle")
    <3>1. drop \in BOOLEAN
      BY <2>1 DEF Ckpt!TurnFinished
    <3>2. ASSUME drop PROVE turn.pc = "idle"
      <4>1. Ckpt!Latest # Ckpt!None /\ cps[Ckpt!Latest].answered
        BY <2>1, <3>2 DEF Ckpt!TurnFinished
      <4>2. Newest(Ckpt!Latest)
        BY <1>1, <4>1, LatestIsNewest
      <4>3. turn.pc # "paused"
        BY <1>1, <4>1, <4>2 DEF CkptRoles, Pauses, Newest
      <4> QED
        BY <1>1, <2>1, <4>3 DEF CkptRoles
    <3> QED
      BY <3>1, <3>2
  <2>3. /\ pruner'.pc = "drop" /\ pruner'.drop = drop
        /\ pruner' \in Pruners
    BY <2>1, <2>2, CkptIds DEF Ckpt!AtRest, Pruners
  <2>4. pruner'.drop => turn'.pc = "idle"
    BY <2>1, <2>2, <2>3
  <2>5. CkptRoles'
    BY <1>1, <1>2a, <2>1, <2>3, <2>4 DEF CkptRoles
  <2> QED
    BY <1>2, <2>1, <2>5 DEF CkptInv
<1>8. CASE Ckpt!DropSubgraphs
  <2>1. same /\ pruner.pc = "drop" /\ pruner' = Ckpt!AtRest
    BY <1>8 DEF Ckpt!DropSubgraphs
  <2>2. CkptRoles'
    BY <1>1, <1>2a, <2>1, CkptIds DEF CkptRoles, Pruners, Ckpt!AtRest, Newest
  <2> QED
    BY <1>2, <2>1, <2>2 DEF CkptInv
<1>9. CASE Ckpt!DeleteVictims
  <2>1. /\ CkptRows' /\ DOMAIN cps' # {}
        /\ \A x : Newest(x)' => Newest(x) /\ x \in DOMAIN cps /\ cps'[x] = cps[x]
    BY <1>9, VictimsRows
  <2>2. pruner.pc = "delete" /\ pruner' = [Ckpt!AtRest EXCEPT !.pc = "check"] /\ turn' = turn
    BY <1>9 DEF Ckpt!DeleteVictims
  <2>2a. Pauses'
    BY <1>1, <2>1, <2>2 DEF Pauses, CkptRoles
  <2>3. CkptRoles'
    BY <1>1, <2>1, <2>2, <2>2a, CkptIds DEF CkptRoles, Pruners, Ckpt!AtRest
  <2> QED
    BY <2>1, <2>3 DEF CkptInv
<1>10. ASSUME NEW keepLast \in 1..2, NEW cutoff \in {MaxId + 1, lastId},
              Ckpt!ChooseVictims(keepLast, cutoff)
       PROVE  CkptInv'
  <2> DEFINE newest == {id \in DOMAIN cps : Ckpt!Cardinality({c \in DOMAIN cps : c > id}) < keepLast}
             victims == {id \in DOMAIN cps \ newest : id < cutoff}
  <2>1. /\ same /\ pruner.pc = "choose"
        /\ pruner' = [pruner EXCEPT !.pc = "delete", !.victims = victims]
    BY <1>10 DEF Ckpt!ChooseVictims
  <2>2. victims \in SUBSET Nat
    BY <1>1, CkptIds DEF CkptShape
  <2>3. \A m : Newest(m) => m \notin victims
    <3> SUFFICES ASSUME NEW m, Newest(m) PROVE m \in newest
      OBVIOUS
    <3>1. {c \in DOMAIN cps : c > m} = {}
      BY <1>1, CkptIds DEF Newest, CkptShape
    <3>2. Ckpt!Cardinality({}) = 0
      BY SameCardinality, FS_EmptySet
    <3> QED
      BY <3>1, <3>2 DEF Newest
  <2> HIDE DEF newest, victims
  <2>4. /\ pruner'.pc = "delete" /\ pruner'.victims = victims /\ pruner'.drop = pruner.drop
        /\ pruner'.unread = pruner.unread /\ pruner' \in Pruners
    BY <1>1, <2>1, <2>2 DEF CkptRoles, Pruners
  <2>5. ~pruner.drop
    BY <1>1, <2>1 DEF CkptRoles
  <2>6. \A m \in DOMAIN cps' : Newest(m)' => (cps'[m].inline \/ pruner'.unread)
                                          /\ m \notin pruner'.victims
    BY <1>1, <1>3, <2>1, <2>3, <2>4 DEF CkptRoles
  <2>7. CkptRoles'
    BY <1>1, <1>2a, <2>1, <2>4, <2>5, <2>6 DEF CkptRoles
  <2> QED
    BY <1>2, <2>1, <2>7 DEF CkptInv
<1> QED
  BY <1>4, <1>4a, <1>4b, <1>5, <1>6, <1>7, <1>8, <1>9, <1>10

LEMMA OfflineStep ==
  ASSUME CkptInv,
         \/ \E ids \in SUBSET DOMAIN cps, expand \in BOOLEAN : Ckpt!Migrate(ids, expand)
         \/ \E keepLast \in 1..2, protected \in SUBSET DOMAIN cps :
               Ckpt!PruneCompleted(keepLast, protected)
         \/ Ckpt!CollectBlobs
  PROVE  CkptInv'
<1>1. CkptRows'
  BY MigrateRows, PruneRows, CollectRows
<1>2. /\ turn.pc # "running" /\ turn' = turn /\ pruner.pc = "rest" /\ pruner' = pruner
  BY DEF Ckpt!Migrate, Ckpt!PruneCompleted, Ckpt!CollectBlobs, Ckpt!Offline
<1>3. CkptRoles
  BY DEF CkptInv
<1>4. turn' \in [pc : {"idle", "running", "paused"}, from : Nat]
  BY <1>2, <1>3 DEF CkptRoles
<1>5. Pauses'
  <2>1. ASSUME NEW ids \in SUBSET DOMAIN cps, NEW expand \in BOOLEAN, Ckpt!Migrate(ids, expand)
        PROVE  Pauses'
    BY <1>2, <1>3, <2>1, MigrateRows DEF CkptRoles, Pauses, Newest
  <2>2. ASSUME NEW keepLast \in 1..2, NEW protected \in SUBSET DOMAIN cps,
               Ckpt!PruneCompleted(keepLast, protected)
        PROVE  Pauses'
    BY <2>2 DEF Ckpt!PruneCompleted, Pauses
  <2>3. CASE Ckpt!CollectBlobs
    BY <1>2, <1>3, <2>3 DEF CkptRoles, Pauses, Newest, Ckpt!CollectBlobs
  <2> QED
    BY <2>1, <2>2, <2>3
<1> QED
  BY <1>1, <1>2, <1>3, <1>4, <1>5, QuietRoles DEF CkptInv

LEMMA CkptStep == CkptInv /\ [Next]_storageVars => CkptInv'
<1> SUFFICES ASSUME CkptInv, [Next]_storageVars PROVE CkptInv'
  OBVIOUS
<1>1. CASE UNCHANGED ckptVars
  BY <1>1 DEF ckptVars, CkptInv, CkptRows, CkptShape, Told, Newest, CkptRoles, Pauses,
     Ckpt!EveryRowDecodes, Ckpt!Known
<1>2. CASE Ckpt!Next
  BY <1>2, GraphStep, PrunerStep, OfflineStep DEF Ckpt!Next
<1> QED
  BY <1>1, <1>2 DEF Next, storageVars

(* Whatever was pruned, sealed, rewritten or collected, and wherever a prune *)
(* failed or died, between turns the newest row yields the whole            *)
(* conversation unless rows were deleted above one that could not be read,  *)
(* and every row that refers to a blob has it                               *)
(* (pipeline/lifecycle/checkpoint_gc.py and                                 *)
(* storage/backends/sqlite_checkpoint_maintenance.py).                      *)
THEOREM CheckpointsStayReadable == Spec => []CheckpointsRead
<1>1. CkptInv => CheckpointsRead
  <2> SUFFICES ASSUME CkptInv PROVE CheckpointsRead
    OBVIOUS
  <2>1. CkptShape /\ Told /\ Ckpt!EveryRowDecodes
    BY DEF CkptInv, CkptRows
  <2>2. ASSUME Ckpt!Latest # Ckpt!None, ~lost
        PROVE  Ckpt!Known(Ckpt!Latest) = said
    <3>1. Newest(Ckpt!Latest)
      BY <2>1, <2>2, LatestIsNewest
    <3> QED
      BY <2>1, <2>2, <3>1 DEF Told, Newest
  <2> QED
    BY <2>1, <2>2 DEF CheckpointsRead, Ckpt!TranscriptKept
<1> QED
  BY <1>1, CkptInit, CkptStep, PTL DEF Spec

(* A subgraph is dropped whole only after its turn is over.                 *)
LEMMA SubgraphsLast ==
  ASSUME CkptInv, Ckpt!Next, turn.pc # "idle", subs # {} PROVE subs' # {}
<1>1. CASE Ckpt!DropSubgraphs
  BY <1>1 DEF CkptInv, CkptRoles, Ckpt!DropSubgraphs
<1>2. CASE ~Ckpt!DropSubgraphs
  BY <1>2 DEF Ckpt!Next, Ckpt!StartThread, Ckpt!Ask, Ckpt!SubgraphStep, Ckpt!Resume,
     Ckpt!DeleteThread, Ckpt!Put, Ckpt!ReadNewest, Ckpt!ReadFails, Ckpt!Seal,
     Ckpt!SealFails, Ckpt!PruneDies, Ckpt!CheckSubgraphs, Ckpt!DeleteVictims, Ckpt!ChooseVictims, Ckpt!Migrate,
     Ckpt!PruneCompleted, Ckpt!CollectBlobs
<1> QED
  BY <1>1, <1>2

(* A step of the file's own jobs, no turn and no prune, changes no row's    *)
(* messages.                                                                *)
LEMMA RowsReplay ==
  ASSUME CkptInv, Ckpt!Next, Ckpt!Offline, turn' = turn, pruner' = pruner,
         NEW id \in DOMAIN cps' \cap DOMAIN cps
  PROVE  Ckpt!Replay(cps', cwrites', id) = Ckpt!Replay(cps, cwrites, id)
<1>1. CkptShape /\ Told /\ CkptRoles
  BY DEF CkptInv, CkptRows
<1>2. ASSUME cps' = cps, cwrites' = cwrites
      PROVE  Ckpt!Replay(cps', cwrites', id) = Ckpt!Replay(cps, cwrites, id)
  BY <1>2
<1>3. ASSUME NEW f \in Fields, Ckpt!StartThread(f) PROVE FALSE
  BY <1>1, <1>3, LatestIsNewest DEF Ckpt!StartThread
<1>4. CASE Ckpt!Ask
  BY <1>4 DEF Ckpt!Ask, Ckpt!Offline
<1>5. CASE Ckpt!SubgraphStep \/ \E f \in Fields, compact, inline, pause \in BOOLEAN :
                                   Ckpt!Put(f, compact, inline, pause)
  BY <1>5 DEF Ckpt!SubgraphStep, Ckpt!Put, Ckpt!Offline
<1>6. CASE Ckpt!Resume
  BY <1>2, <1>6 DEF Ckpt!Resume
<1>7. CASE Ckpt!DeleteThread
  BY <1>7 DEF Ckpt!DeleteThread, Ckpt!Without
<1>8. CASE \/ Ckpt!Seal \/ Ckpt!SealFails \/ Ckpt!CheckSubgraphs \/ Ckpt!DropSubgraphs
           \/ Ckpt!DeleteVictims \/ Ckpt!PruneDies
           \/ \E keepLast \in 1..2, cutoff \in {MaxId + 1, lastId} :
                 Ckpt!ChooseVictims(keepLast, cutoff)
  BY <1>8 DEF Ckpt!Seal, Ckpt!SealFails, Ckpt!CheckSubgraphs, Ckpt!DropSubgraphs,
     Ckpt!DeleteVictims, Ckpt!PruneDies, Ckpt!ChooseVictims, Ckpt!Offline
<1>9. CASE Ckpt!ReadNewest \/ Ckpt!ReadFails
  BY <1>2, <1>9 DEF Ckpt!ReadNewest, Ckpt!ReadFails
<1>10. ASSUME NEW ids \in SUBSET DOMAIN cps, NEW expand \in BOOLEAN, Ckpt!Migrate(ids, expand)
       PROVE  Ckpt!Replay(cps', cwrites', id) = Ckpt!Replay(cps, cwrites, id)
  BY <1>1, <1>10, MigrateReplay
<1>11. ASSUME NEW keepLast \in 1..2, NEW protected \in SUBSET DOMAIN cps,
              Ckpt!PruneCompleted(keepLast, protected)
       PROVE  Ckpt!Replay(cps', cwrites', id) = Ckpt!Replay(cps, cwrites, id)
  BY <1>1, <1>11, PruneReplay
<1>12. CASE Ckpt!CollectBlobs
  BY <1>2, <1>12 DEF Ckpt!CollectBlobs
<1> QED
  BY <1>3, <1>4, <1>5, <1>6, <1>7, <1>8, <1>9, <1>10, <1>11, <1>12 DEF Ckpt!Next

SubgraphsStay == turn.pc # "idle" /\ subs # {} => subs' # {}

RowsReplayAlike ==
    Ckpt!Offline /\ turn' = turn /\ pruner' = pruner =>
        \A id \in DOMAIN cps' \cap DOMAIN cps :
            Ckpt!Replay(cps', cwrites', id) = Ckpt!Replay(cps, cwrites, id)

(* A prune keeps the subgraphs of an unfinished turn, and what every row it *)
(* retains is replayed from (pipeline/lifecycle/checkpoint_gc.py).          *)
THEOREM PruningKeepsHistory == Spec => PruneKeepsHistory
<1>1. CkptInv /\ [Next]_storageVars => [SubgraphsStay]_ckptVars /\ [RowsReplayAlike]_ckptVars
  <2> SUFFICES ASSUME CkptInv, [Next]_storageVars, ckptVars' # ckptVars
               PROVE  SubgraphsStay /\ RowsReplayAlike
    OBVIOUS
  <2>1. Ckpt!Next
    BY DEF Next, storageVars
  <2>2. SubgraphsStay
    BY <2>1, SubgraphsLast DEF SubgraphsStay
  <2>3. RowsReplayAlike
    BY <2>1, RowsReplay DEF RowsReplayAlike
  <2> QED
    BY <2>2, <2>3
<1>2. Spec => [][SubgraphsStay]_ckptVars /\ [][RowsReplayAlike]_ckptVars
  BY <1>1, CkptInit, CkptStep, PTL DEF Spec
<1>3. PruneKeepsHistory <=> [][SubgraphsStay]_ckptVars /\ [][RowsReplayAlike]_ckptVars
  BY DEF PruneKeepsHistory, Ckpt!UnfinishedKeepsSubgraphs, Ckpt!RetainedRowsReplay,
     Ckpt!cpVars, ckptVars, SubgraphsStay, RowsReplayAlike
<1> QED
  BY <1>2, <1>3

-----------------------------------------------------------------------------
(***************************************************************************)
(* BackendParity.  Its theorems are in ParityProofs; the instance here has  *)
(* the actions and the queries of Same, whose names alone differ.           *)
(***************************************************************************)

SameP == INSTANCE ParityProofs WITH Ids <- PairedIds

LEMMA SameNodeCalls == ASSUME NEW ns, Same!NodeCalls(ns) PROVE SameP!NodeCalls(ns)
BY DEF Same!NodeCalls, SameP!NodeCalls, Same!AtomRow, SameP!AtomRow, Same!None,
   SameP!None, Same!Now, SameP!Now, Same!PgSaveAtom, SameP!PgSaveAtom, Same!Of,
   SameP!Of, Same!In, SameP!In, Same!Insert, SameP!Insert, Same!Refused, SameP!Refused,
   Same!LiteSaveAtom, SameP!LiteSaveAtom, Same!Call, SameP!Call, Same!PgDeleteNode,
   SameP!PgDeleteNode, Same!Delete, SameP!Delete, Same!Cardinality, SameP!Cardinality,
   Same!IsFiniteSet, SameP!IsFiniteSet, Same!PgKids, SameP!PgKids, Same!Reached,
   SameP!Reached, Same!LiteDeleteNode, SameP!LiteDeleteNode, Same!LiteKids,
   SameP!LiteKids, Same!PgUpdateNode, SameP!PgUpdateNode, Same!Update, SameP!Update,
   Same!LiteUpdateNode, SameP!LiteUpdateNode, Same!PgSaveNode, SameP!PgSaveNode,
   Same!LiteSaveNode, SameP!LiteSaveNode, Same!NodeRow, SameP!NodeRow

LEMMA SameRawCalls == ASSUME NEW ns, Same!RawCalls(ns) PROVE SameP!RawCalls(ns)
BY DEF Same!RawCalls, SameP!RawCalls, Same!PgDeleteRawBefore, SameP!PgDeleteRawBefore,
   Same!Of, SameP!Of, Same!Delete, SameP!Delete, Same!Cardinality, SameP!Cardinality,
   Same!IsFiniteSet, SameP!IsFiniteSet, Same!LiteDeleteRawBefore,
   SameP!LiteDeleteRawBefore, Same!Call, SameP!Call, Same!Now, SameP!Now, Same!Event,
   SameP!Event, Same!PgSaveBatch, SameP!PgSaveBatch, Same!Refused, SameP!Refused,
   Same!PgSaveRaw, SameP!PgSaveRaw, Same!In, SameP!In, Same!Insert, SameP!Insert,
   Same!LiteSaveBatch, SameP!LiteSaveBatch, Same!LiteSaveRaw, SameP!LiteSaveRaw

LEMMA SameCandidateCalls == ASSUME NEW ns, Same!CandidateCalls(ns) PROVE SameP!CandidateCalls(ns)
BY DEF Same!CandidateCalls, SameP!CandidateCalls, Same!PgUpdateStatus,
   SameP!PgUpdateStatus, Same!Any, SameP!Any, Same!None, SameP!None, Same!Of, SameP!Of,
   Same!Update, SameP!Update, Same!Cardinality, SameP!Cardinality, Same!IsFiniteSet,
   SameP!IsFiniteSet, Same!LiteUpdateStatus, SameP!LiteUpdateStatus, Same!Call,
   SameP!Call, Same!Now, SameP!Now, Same!PgSaveCandidate, SameP!PgSaveCandidate,
   Same!In, SameP!In, Same!Insert, SameP!Insert, Same!Refused, SameP!Refused,
   Same!LiteSaveCandidate, SameP!LiteSaveCandidate

LEMMA SameAtomCalls == ASSUME NEW ns, Same!AtomCalls(ns) PROVE SameP!AtomCalls(ns)
BY DEF Same!AtomCalls, SameP!AtomCalls, Same!Now, SameP!Now, Same!PgMigrate,
   SameP!PgMigrate, Same!Cardinality, SameP!Cardinality, Same!IsFiniteSet,
   SameP!IsFiniteSet, Same!Earliest, SameP!Earliest, Same!Of, SameP!Of,
   Same!LiteMigrate, SameP!LiteMigrate, Same!Call, SameP!Call, Same!PgDeprecate,
   SameP!PgDeprecate, Same!Update, SameP!Update, Same!LiteDeprecate,
   SameP!LiteDeprecate, Same!PgSupersede, SameP!PgSupersede, Same!LiteSupersede,
   SameP!LiteSupersede, Same!AtomRow, SameP!AtomRow, Same!None, SameP!None,
   Same!PgSaveAtom, SameP!PgSaveAtom, Same!In, SameP!In, Same!Insert, SameP!Insert,
   Same!Refused, SameP!Refused, Same!LiteSaveAtom, SameP!LiteSaveAtom

LEMMA SameEntityCalls == ASSUME NEW ns, Same!EntityCalls(ns) PROVE SameP!EntityCalls(ns)
BY DEF Same!EntityCalls, SameP!EntityCalls, Same!PgSaveAlias, SameP!PgSaveAlias,
   Same!In, SameP!In, Same!Of, SameP!Of, Same!LiteSaveAlias, SameP!LiteSaveAlias,
   Same!Call, SameP!Call, Same!Now, SameP!Now, Same!PgRename, SameP!PgRename,
   Same!Update, SameP!Update, Same!Cardinality, SameP!Cardinality, Same!IsFiniteSet,
   SameP!IsFiniteSet, Same!LiteRename, SameP!LiteRename, Same!PgBump, SameP!PgBump,
   Same!LiteBump, SameP!LiteBump, Same!PgSaveEntity, SameP!PgSaveEntity, Same!Insert,
   SameP!Insert, Same!Refused, SameP!Refused, Same!LiteSaveEntity, SameP!LiteSaveEntity

LEMMA SamePageCalls == ASSUME NEW ns, Same!PageCalls(ns) PROVE SameP!PageCalls(ns)
BY DEF Same!PageCalls, SameP!PageCalls, Same!Now, SameP!Now, Same!PgUserEdit,
   SameP!PgUserEdit, Same!Of, SameP!Of, Same!Update, SameP!Update, Same!Cardinality,
   SameP!Cardinality, Same!IsFiniteSet, SameP!IsFiniteSet, Same!LiteUserEdit,
   SameP!LiteUserEdit, Same!Call, SameP!Call, Same!PgRegenFailure, SameP!PgRegenFailure,
   Same!LiteRegenFailure, SameP!LiteRegenFailure, Same!PgRegen, SameP!PgRegen,
   Same!LiteRegen, SameP!LiteRegen, Same!Stub, SameP!Stub, Same!None, SameP!None,
   Same!PgMarkDirty, SameP!PgMarkDirty, Same!In, SameP!In, Same!Upsert, SameP!Upsert,
   Same!LiteMarkDirty, SameP!LiteMarkDirty, Same!PgUpsertPage, SameP!PgUpsertPage,
   Same!LiteUpsertPage, SameP!LiteUpsertPage

LEMMA SameActiveCalls == ASSUME NEW ns, Same!ActiveCalls(ns) PROVE SameP!ActiveCalls(ns)
BY DEF Same!ActiveCalls, SameP!ActiveCalls, Same!PgEvictActive, SameP!PgEvictActive,
   Same!Of, SameP!Of, Same!Delete, SameP!Delete, Same!Cardinality, SameP!Cardinality,
   Same!IsFiniteSet, SameP!IsFiniteSet, Same!PgListActive, SameP!PgListActive,
   Same!Latest, SameP!Latest, Same!LiteEvictActive, SameP!LiteEvictActive,
   Same!LiteListActive, SameP!LiteListActive, Same!Call, SameP!Call, Same!Now,
   SameP!Now, Same!PgUpsertActive, SameP!PgUpsertActive, Same!In, SameP!In, Same!Upsert,
   SameP!Upsert, Same!Update, SameP!Update, Same!LiteUpsertActive,
   SameP!LiteUpsertActive

LEMMA SameJournalCalls == ASSUME NEW ns, Same!JournalCalls(ns) PROVE SameP!JournalCalls(ns)
BY DEF Same!JournalCalls, SameP!JournalCalls, Same!Now, SameP!Now, Same!PgDeleteJournal,
   SameP!PgDeleteJournal, Same!Of, SameP!Of, Same!Delete, SameP!Delete,
   Same!Cardinality, SameP!Cardinality, Same!IsFiniteSet, SameP!IsFiniteSet,
   Same!Earliest, SameP!Earliest, Same!LiteDeleteJournal, SameP!LiteDeleteJournal,
   Same!Call, SameP!Call, Same!PgAppendJournal, SameP!PgAppendJournal, Same!In,
   SameP!In, Same!Insert, SameP!Insert, Same!Refused, SameP!Refused,
   Same!LiteAppendJournal, SameP!LiteAppendJournal

LEMMA SameMetaCalls == ASSUME NEW ns, Same!MetaCalls(ns) PROVE SameP!MetaCalls(ns)
BY DEF Same!MetaCalls, SameP!MetaCalls, Same!PgSetMeta, SameP!PgSetMeta, Same!PgMetaKey,
   SameP!PgMetaKey, Same!Upsert, SameP!Upsert, Same!Update, SameP!Update,
   Same!Cardinality, SameP!Cardinality, Same!IsFiniteSet, SameP!IsFiniteSet,
   Same!LiteSetMeta, SameP!LiteSetMeta, Same!Call, SameP!Call, Same!Now, SameP!Now

LEMMA SameEpisodeCalls == ASSUME NEW ns, Same!EpisodeCalls(ns) PROVE SameP!EpisodeCalls(ns)
BY DEF Same!EpisodeCalls, SameP!EpisodeCalls, Same!PgSaveEpisode, SameP!PgSaveEpisode,
   Same!Of, SameP!Of, Same!In, SameP!In, Same!Insert, SameP!Insert, Same!Refused,
   SameP!Refused, Same!LiteSaveEpisode, SameP!LiteSaveEpisode, Same!Call, SameP!Call,
   Same!Now, SameP!Now

LEMMA SameDigestCalls == ASSUME NEW ns, Same!DigestCalls(ns) PROVE SameP!DigestCalls(ns)
BY DEF Same!DigestCalls, SameP!DigestCalls, Same!PgUpsertDigest, SameP!PgUpsertDigest,
   Same!In, SameP!In, Same!Upsert, SameP!Upsert, Same!Update, SameP!Update,
   Same!Cardinality, SameP!Cardinality, Same!IsFiniteSet, SameP!IsFiniteSet,
   Same!Refused, SameP!Refused, Same!Of, SameP!Of, Same!LiteUpsertDigest,
   SameP!LiteUpsertDigest, Same!Insert, SameP!Insert, Same!Call, SameP!Call, Same!Now,
   SameP!Now

LEMMA SamePurge == ASSUME NEW ns, Same!Purge(ns) PROVE SameP!Purge(ns)
BY DEF Same!Purge, SameP!Purge, Same!PgPurge, SameP!PgPurge, Same!Call, SameP!Call,
   Same!Now, SameP!Now

LEMMA SameSteps == Same!Next => SameP!Next
BY SameNodeCalls, SameRawCalls, SameCandidateCalls, SameAtomCalls, SameEntityCalls,
   SamePageCalls, SameActiveCalls, SameJournalCalls, SameMetaCalls, SameEpisodeCalls,
   SameDigestCalls, SamePurge DEF Same!Next, SameP!Next

LEMMA ParityInit == Init => SameP!ParInv
<1>1. Init => SameP!Init
  BY DEF Init, Same!Init, SameP!Init
<1> QED
  BY <1>1, SameP!Begins

LEMMA ParityStep == SameP!ParInv /\ [Next]_storageVars => SameP!ParInv'
<1>1. [Next]_storageVars => SameP!Next \/ UNCHANGED sameVars
  BY SameSteps DEF Next, storageVars
<1>2. [Next]_storageVars => [SameP!Next]_SameP!vars
  BY <1>1 DEF sameVars, SameP!vars
<1> QED
  BY <1>2, SameP!StepPaired

LEMMA ParityRows == SameP!SameRows => Same!SameRows
BY DEF Same!SameRows, SameP!SameRows, Same!RowsOf, SameP!RowsOf, Same!BareRows,
   SameP!BareRows, Same!Bare, SameP!Bare

LEMMA ParityAnswers == SameP!SameAnswers => Same!SameAnswers
BY DEF Same!SameAnswers, SameP!SameAnswers, Same!LookupsAgree, SameP!LookupsAgree,
   Same!PgGetDigest, SameP!PgGetDigest, Same!Of, SameP!Of, Same!BareRows,
   SameP!BareRows, Same!Bare, SameP!Bare, Same!LiteGetDigest, SameP!LiteGetDigest,
   Same!PgGetMeta, SameP!PgGetMeta, Same!PgMetaKey, SameP!PgMetaKey, Same!LiteGetMeta,
   SameP!LiteGetMeta, Same!PgFindDuplicate, SameP!PgFindDuplicate,
   Same!LiteFindDuplicate, SameP!LiteFindDuplicate, Same!PgAtomBySignature,
   SameP!PgAtomBySignature, Same!Earliest, SameP!Earliest, Same!Cardinality,
   SameP!Cardinality, Same!IsFiniteSet, SameP!IsFiniteSet, Same!LiteAtomBySignature,
   SameP!LiteAtomBySignature, Same!PgFindByAlias, SameP!PgFindByAlias,
   Same!LiteFindByAlias, SameP!LiteFindByAlias, Same!Any, SameP!Any, Same!PgFindByName,
   SameP!PgFindByName, Same!Matches, SameP!Matches, Same!LiteFindByName,
   SameP!LiteFindByName, Same!PgTree, SameP!PgTree, Same!PgNodes, SameP!PgNodes,
   Same!PgContent, SameP!PgContent, Same!LiteTree, SameP!LiteTree, Same!LiteNodes,
   SameP!LiteNodes, Same!LiteContent, SameP!LiteContent, Same!PgChildren,
   SameP!PgChildren, Same!LiteChildren, SameP!LiteChildren, Same!PgGetNodeByAtom,
   SameP!PgGetNodeByAtom, Same!LiteGetNodeByAtom, SameP!LiteGetNodeByAtom,
   Same!PgGetNode, SameP!PgGetNode, Same!LiteGetNode, SameP!LiteGetNode,
   Same!ListsAgree, SameP!ListsAgree, Same!PgStats, SameP!PgStats, Same!LiteStats,
   SameP!LiteStats, Same!PgListDigests, SameP!PgListDigests, Same!Latest, SameP!Latest,
   Same!LiteListDigests, SameP!LiteListDigests, Same!PgListEntities,
   SameP!PgListEntities, Same!LiteListEntities, SameP!LiteListEntities,
   Same!PgListDirty, SameP!PgListDirty, Same!PgDirtyBefore, SameP!PgDirtyBefore,
   Same!LiteListDirty, SameP!LiteListDirty, Same!LiteDirtyBefore, SameP!LiteDirtyBefore,
   Same!PgListActive, SameP!PgListActive, Same!LiteListActive, SameP!LiteListActive,
   Same!PgListAliases, SameP!PgListAliases, Same!LiteListAliases, SameP!LiteListAliases,
   Same!PgListJournal, SameP!PgListJournal, Same!Within, SameP!Within,
   Same!LiteListJournal, SameP!LiteListJournal, Same!PgAtomsInRange,
   SameP!PgAtomsInRange, Same!LiteAtomsInRange, SameP!LiteAtomsInRange,
   Same!PgListAtoms, SameP!PgListAtoms, Same!LiteListAtoms, SameP!LiteListAtoms,
   Same!PgListCandidates, SameP!PgListCandidates, Same!LiteListCandidates,
   SameP!LiteListCandidates, Same!PgRawByIds, SameP!PgRawByIds, Same!LiteRawByIds,
   SameP!LiteRawByIds, Same!PgEpisodesInRange, SameP!PgEpisodesInRange,
   Same!LiteEpisodesInRange, SameP!LiteEpisodesInRange, Same!PgListEpisodes,
   SameP!PgListEpisodes, Same!LiteListEpisodes, SameP!LiteListEpisodes, Same!PgListRaw,
   SameP!PgListRaw, Same!LiteListRaw, SameP!LiteListRaw

(* For any agents, ids, texts and times and any number of calls, an agent's *)
(* rows in the shared tables of Postgres are those that SQLite keeps for it *)
(* (storage/backends/sqlite.py and postgres.py).                            *)
THEOREM BackendsKeepTheSame == Spec => []SameRows
<1>1. SameP!ParInv => SameRows
  BY SameP!RowsAgree, ParityRows DEF SameRows
<1> QED
  BY <1>1, ParityInit, ParityStep, PTL DEF Spec

(* So every call returns the same on both, and every list and lookup shows  *)
(* the same: migrated, evicted, upserted or cascading rows included         *)
(* (storage/backends/sqlite.py and postgres.py).                            *)
THEOREM BackendsAnswerTheSame == Spec => []SameAnswers
<1>1. SameP!ParInv => SameAnswers
  <2>1. SameP!ParInv => last[1] = last[2]
    BY DEF SameP!ParInv
  <2> QED
    BY <2>1, SameP!AnswersAgree, ParityAnswers DEF SameAnswers, Same!SameResult
<1> QED
  BY <1>1, ParityInit, ParityStep, PTL DEF Spec
=============================================================================
