---------------------------- MODULE PostgresBoot ----------------------------
(***************************************************************************)
(* Opening a namespace of the shared Postgres tables.  Creating the schema *)
(* and moving the rows of an old per-namespace schema into it are two      *)
(* transactions, each under the advisory lock, so each is one step here.   *)
(* The old schema is kept under a backup name, cut to 56 bytes: two        *)
(* namespaces may have the same one (Backup).                              *)
(*                                                                         *)
(* Rows are pairs of a table and an id.                                    *)
(***************************************************************************)
EXTENDS Naturals, FiniteSets

CONSTANTS
    Spaces,      \* namespaces
    Tabs,        \* tables, "raw" and "node" and "meta" among them
    Ids,
    Backup,      \* Backup[ns]: the name of its backup schema
    Legacies,    \* the old schemas there may be
    MaxPurges    \* bound

VARIABLES
    shared,      \* shared[ns]: the rows of ns in the shared tables
    legacy,      \* legacy[ns]: rows and uuid of the schema named ns, or NoSchema
    backups,     \* backup schemas, by name
    schema,      \* indexes: the text indexes of the shared schema; gin: whether
                 \* the extension is allowed
    boot,        \* boot[ns]: "down", "init", "up" or "failed"
    purges,
    firstRows    \* history: the rows of each old schema at first

pgVars == <<shared, legacy, backups, schema, boot, purges, firstRows>>

(* A program gives a new row a new id; raw, node and meta rows may collide. *)
BootAssumption ==
    \A old \in Legacies : \A row \in old.rows :
        row[1] \in {"raw", "node", "meta"} \/ row \notin Tabs \X Ids

NoSchema == [rows |-> {}, uuid |-> FALSE, exists |-> FALSE]

Init ==
    /\ legacy \in [Spaces -> Legacies \cup {NoSchema}]
    /\ firstRows = [ns \in Spaces |-> legacy[ns].rows]
    /\ shared = [ns \in Spaces |-> {}]
    /\ backups = [b \in {Backup[ns] : ns \in Spaces} |-> NoSchema]
    /\ schema \in [indexes : {{}, {"plain"}}, gin : BOOLEAN]
    /\ boot = [ns \in Spaces |-> "down"]
    /\ purges = 0

(* The swap of plain for scoped text indexes, when the extension can be    *)
(* had.  (A later boot creates the plain ones again and drops them again.) *)
Scoped(indexes) == IF schema.gin THEN {"scoped"} ELSE indexes

(* CREATE INDEX IF NOT EXISTS.                                             *)
Created(indexes) == indexes \cup {"plain"}

InitSchema(ns) ==
    /\ boot[ns] \in {"down", "failed"}
    /\ boot' = [boot EXCEPT ![ns] = "init"]
    /\ schema' = [schema EXCEPT !.indexes = Scoped(Created(@))]
    /\ UNCHANGED <<shared, legacy, backups, purges, firstRows>>

(* An administrator allows the extension.                                  *)
Grant ==
    /\ ~schema.gin
    /\ schema' = [schema EXCEPT !.gin = TRUE]
    /\ UNCHANGED <<shared, legacy, backups, boot, purges, firstRows>>

(* The rows that show that ns is in use already.                           *)
InUse(ns) == \E row \in shared[ns] : row[1] \in {"raw", "node"}

(* All tables but meta.                                                    *)
Copied(ns) == {row \in legacy[ns].rows : row[1] # "meta"}

Renamed(ns) ==
    IF backups[Backup[ns]].exists
    THEN UNCHANGED <<legacy, backups>>
    ELSE /\ backups' = [backups EXCEPT ![Backup[ns]] = legacy[ns]]
         /\ legacy' = [legacy EXCEPT ![ns] = NoSchema]

(* Defect: the old schema is dropped when its backup name is taken.        *)
MigrateDropping(ns) ==
    /\ boot[ns] = "init" /\ legacy[ns].exists /\ ~InUse(ns)
    /\ shared' = [shared EXCEPT ![ns] = @ \cup Copied(ns)]
    /\ legacy' = [legacy EXCEPT ![ns] = NoSchema]
    /\ boot' = [boot EXCEPT ![ns] = "up"]
    /\ UNCHANGED <<backups, schema, purges, firstRows>>

(* Defect: the check for rows of the namespace is left out.                *)
MigrateAnyway(ns) ==
    /\ boot[ns] = "init" /\ legacy[ns].exists
    /\ IF Copied(ns) \cap shared[ns] # {}
       THEN /\ boot' = [boot EXCEPT ![ns] = "failed"]
            /\ UNCHANGED <<shared, legacy, backups>>
       ELSE /\ shared' = [shared EXCEPT ![ns] = @ \cup Copied(ns)]
            /\ Renamed(ns)
            /\ boot' = [boot EXCEPT ![ns] = "up"]
    /\ UNCHANGED <<schema, purges, firstRows>>

(* An INSERT of a row that is there fails, and the boot with it.           *)
Migrate(ns) ==
    /\ boot[ns] = "init" /\ legacy[ns].exists
    /\ IF legacy[ns].uuid
       THEN Renamed(ns) /\ boot' = [boot EXCEPT ![ns] = "up"] /\ UNCHANGED shared
       ELSE IF InUse(ns)
       THEN boot' = [boot EXCEPT ![ns] = "up"] /\ UNCHANGED <<shared, legacy, backups>>
       ELSE IF Copied(ns) \cap shared[ns] # {}
       THEN boot' = [boot EXCEPT ![ns] = "failed"] /\ UNCHANGED <<shared, legacy, backups>>
       ELSE /\ shared' = [shared EXCEPT ![ns] = @ \cup Copied(ns)]
            /\ Renamed(ns)
            /\ boot' = [boot EXCEPT ![ns] = "up"]
    /\ UNCHANGED <<schema, purges, firstRows>>

NoLegacy(ns) ==
    /\ boot[ns] = "init" /\ ~legacy[ns].exists
    /\ boot' = [boot EXCEPT ![ns] = "up"]
    /\ UNCHANGED <<shared, legacy, backups, schema, purges, firstRows>>

Write(ns, row) ==
    /\ boot[ns] = "up"
    /\ shared' = [shared EXCEPT ![ns] = @ \cup {row}]
    /\ UNCHANGED <<legacy, backups, schema, boot, purges, firstRows>>

(* All tables but meta, in one transaction.                                *)
Purge(ns) ==
    /\ boot[ns] = "up" /\ purges < MaxPurges /\ purges' = purges + 1
    /\ shared' = [shared EXCEPT ![ns] = {row \in @ : row[1] = "meta"}]
    /\ firstRows' = [firstRows EXCEPT ![ns] = {}]
    /\ UNCHANGED <<legacy, backups, schema, boot>>

(* Closed, crashed or failed before the first transaction was done.        *)
Down(ns) ==
    /\ boot[ns] # "down"
    /\ boot' = [boot EXCEPT ![ns] = "down"]
    /\ UNCHANGED <<shared, legacy, backups, schema, purges, firstRows>>

Next ==
    \/ \E ns \in Spaces :
          \/ InitSchema(ns) \/ Migrate(ns) \/ NoLegacy(ns) \/ Purge(ns) \/ Down(ns)
          \/ \E tab \in Tabs, id \in Ids : Write(ns, <<tab, id>>)
    \/ Grant

Spec == Init /\ [][Next]_pgVars

-----------------------------------------------------------------------------
(* Properties.                                                             *)

(* No row of an old schema is ever lost: it is in the shared tables, in    *)
(* the schema, or in a backup, unless the user purged the namespace.       *)
LegacyKept ==
    \A ns \in Spaces : firstRows[ns] \subseteq
        shared[ns] \cup legacy[ns].rows \cup backups[Backup[ns]].rows

(* Rows are copied once.  When the old schema cannot be renamed away, the  *)
(* next boot recognises the namespace by its raw events or nodes and opens.*)
(* (A schema with neither is copied again, and no boot succeeds any more.) *)
BootsAgain ==
    \A ns \in Spaces : boot[ns] = "failed" =>
        \A row \in legacy[ns].rows : row[1] \notin {"raw", "node"}

=============================================================================
