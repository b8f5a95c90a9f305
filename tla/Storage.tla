------------------------------ MODULE Storage ------------------------------
(* Six models of the storage backends, one of which runs in each behaviour:  *)
(* `part' says which, and the variables of the others keep their first value. *)
(* The models share no variable and no step, so a step of one has nothing to  *)
(* interleave with in another, and one run serves them all.                   *)
EXTENDS Integers, FiniteSets, Sequences

CONSTANTS
    Openers, Rows, Files, MaxCrashes,                    \* SqliteBoot
    Tenants, OldTabs, OldIds, Backup, MaxPurges, Legacies,  \* PostgresBoot
    Words, Prefixes, RowIds, MaxPlans,                          \* NamespaceRename
    Calls, Blocks,                                       \* SqliteSession
    Fields, MaxId, MaxMessages,                          \* Checkpoints
    Tables, Namespaces, PairedIds, Texts, HostTimes, MaxCalls  \* BackendParity

VARIABLES
    part,
    db, opener, torn, bootCrashes,
    shared, legacy, backups, schema, boot, purges, firstRows,
    file, opened, plan, plans, swept,
    holder, explicit, written, durable, fate, expired, shut,
    cps, cwrites, subs, blobs, lastId, turn, said, lost, pruner,
    table, lite, pg, last, calls

liteVars == <<db, opener, torn, bootCrashes>>
postVars == <<shared, legacy, backups, schema, boot, purges, firstRows>>
moveVars == <<file, opened, plan, plans, swept>>
sessVars == <<holder, explicit, written, durable, fate, expired, shut>>
ckptVars == <<cps, cwrites, subs, blobs, lastId, turn, said, lost, pruner>>
sameVars == <<table, lite, pg, last, calls>>

Lite == INSTANCE SqliteBoot
Post == INSTANCE PostgresBoot WITH Spaces <- Tenants, Tabs <- OldTabs, Ids <- OldIds
Move == INSTANCE NamespaceRename WITH Spaces <- Prefixes, Ids <- RowIds
Sess == INSTANCE SqliteSession WITH LiveSweep <- FALSE
Ckpt == INSTANCE Checkpoints WITH LiveTraffic <- FALSE
Same == INSTANCE BackendParity WITH Ids <- PairedIds

ASSUME ParityAssumed == Same!ParityAssumption
ASSUME FilesAssumed == Lite!FilesAssumption
ASSUME BootAssumed == Post!BootAssumption
ASSUME RenameAssumed == Move!RenameAssumption
ASSUME SessionAssumed == Sess!SessionAssumption
ASSUME CheckpointsAssumed == Ckpt!CheckpointsAssumption

Parts == {"sqlite", "postgres", "rename", "session", "checkpoints", "parity"}

Init ==
    /\ part \in Parts
    /\ Lite!Init /\ (part # "sqlite" => db = CHOOSE f \in Files : TRUE)
    /\ Post!Init
    /\ part # "postgres" => /\ legacy = [ns \in Tenants |-> Post!NoSchema]
                            /\ schema = [indexes |-> {}, gin |-> TRUE]
    /\ Move!Init /\ Sess!Init /\ Ckpt!Init
    /\ Same!Init /\ (part # "parity" => table = CHOOSE t \in Tables : TRUE)

Next ==
    /\ UNCHANGED part
    /\ \/ /\ part = "sqlite" /\ Lite!Next
          /\ UNCHANGED <<postVars, moveVars, sessVars, ckptVars, sameVars>>
       \/ /\ part = "postgres" /\ Post!Next
          /\ UNCHANGED <<liteVars, moveVars, sessVars, ckptVars, sameVars>>
       \/ /\ part = "rename" /\ Move!Next
          /\ UNCHANGED <<liteVars, postVars, sessVars, ckptVars, sameVars>>
       \/ /\ part = "session" /\ Sess!Next
          /\ UNCHANGED <<liteVars, postVars, moveVars, ckptVars, sameVars>>
       \/ /\ part = "checkpoints" /\ Ckpt!Next
          /\ UNCHANGED <<liteVars, postVars, moveVars, sessVars, sameVars>>
       \/ /\ part = "parity" /\ Same!Next
          /\ UNCHANGED <<liteVars, postVars, moveVars, sessVars, ckptVars>>

storageVars == <<part, liteVars, postVars, moveVars, sessVars, ckptVars, sameVars>>

Spec == Init /\ [][Next]_storageVars

-----------------------------------------------------------------------------
(* Whatever file a program finds, and however two of them start and crash,   *)
(* each row is in the text index once, and one that starts alone succeeds    *)
(* (storage/backends/sqlite.py, _init_schema).                                *)
SqliteOpensWhole == Lite!IndexedOnce /\ Lite!SoleOpenerSucceeds

(* No row of an old schema is lost, and a namespace that could be opened     *)
(* once can be opened again (storage/backends/postgres.py, the migration).    *)
PostgresOpensWhole == Post!LegacyKept /\ Post!BootsAgain

(* After a rename, atoms are found by text under the new name, and no row is *)
(* lost on the way (operations/migration/rename.py).                          *)
AtomsSearchable == Move!AtomsSearchable
RowsSurvive == Move!RowsSurvive

(* A call or transaction that succeeded is in the file whole, and one that   *)
(* failed not at all (storage/backends/sqlite.py, transaction).               *)
AllOrNothing == Sess!AllOrNothing

(* Between turns the newest checkpoint yields the whole conversation, unless *)
(* rows were deleted above one that could not be read, and every row that is  *)
(* kept decodes (pipeline/lifecycle/checkpoint_gc.py).                        *)
CheckpointsRead == Ckpt!TranscriptKept /\ Ckpt!EveryRowDecodes

(* A prune keeps the subgraphs of an unfinished turn, and what every row it  *)
(* retains is replayed from (pipeline/lifecycle/checkpoint_gc.py).            *)
PruneKeepsHistory == Ckpt!UnfinishedKeepsSubgraphs /\ Ckpt!RetainedRowsReplay

(* The two backends hold the same rows, return the same from every call and  *)
(* show the same in every list and lookup (storage/backends).                 *)
SameRows == part = "parity" => Same!SameRows
SameAnswers == part = "parity" => Same!SameResult /\ Same!SameAnswers
=============================================================================
