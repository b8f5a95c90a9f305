-------------------------- MODULE NamespaceRename --------------------------
(***************************************************************************)
(* Renaming or copying a namespace inside a SQLite file.  A namespace is   *)
(* a prefix of table names: a namespace is a sequence of words, a table of *)
(* it that sequence and one more word.  The plan is made first, shown to   *)
(* the user, and applied later in one transaction.                         *)
(*                                                                         *)
(* A table's text index (its FTS table and triggers) is kept with it.      *)
(***************************************************************************)
EXTENDS Naturals, Sequences, SequencesExt, FiniteSets

CONSTANTS
    Words,      \* what the names of tables are made of
    Spaces,     \* namespaces a program may open or rename
    Ids,
    MaxPlans    \* bound

Indexed == {"atoms", "episodes"}
Tabs == Indexed \cup {"meta"}

RenameAssumption == Tabs \subseteq Words /\ Spaces \subseteq Seq(Words)

VARIABLES
    file,       \* tables by name: rows, keyed, fts, index
    opened,     \* namespaces a program has open
    plan,       \* the plan the user looks at, or NoPlan
    plans,
    swept       \* history: tables of longer namespaces that a rename took along

renameVars == <<file, opened, plan, plans, swept>>

NoPlan == [src |-> <<>>, dst |-> <<>>, mode |-> "none", steps |-> {},
           conflicts |-> {}]

Init ==
    /\ file = [n \in {} |-> 0]
    /\ opened = {}
    /\ plan = NoPlan
    /\ plans = 0
    /\ swept = {}

Table(ns, tab) == Append(ns, tab)
IsTable(n) == n \in DOMAIN file

-----------------------------------------------------------------------------
(* Opening: what is missing is created, and the text index rebuilt unless  *)
(* the version in meta is current.  The upsert of the version needs the    *)
(* primary key of meta; without it the open fails.                         *)

Fresh(tab) == [rows |-> {}, keyed |-> TRUE, fts |-> tab \in Indexed, index |-> {}]

Opened(ns) ==
    LET names == {Table(ns, tab) : tab \in Tabs}
        meta == Table(ns, "meta")
        current == IsTable(meta) /\ "version" \in file[meta].rows
    IN  [n \in DOMAIN file \cup names |->
           IF n \notin names THEN file[n]
           ELSE IF n = meta THEN [Fresh("meta") EXCEPT !.rows = {"version"}]
           ELSE IF ~IsTable(n) THEN Fresh(Last(n))
           ELSE [file[n] EXCEPT !.fts = TRUE,
                                !.index = IF current THEN @ ELSE file[n].rows]]

Open(ns) ==
    /\ ns \notin opened
    /\ IsTable(Table(ns, "meta")) => file[Table(ns, "meta")].keyed
    /\ file' = Opened(ns)
    /\ opened' = opened \cup {ns}
    /\ UNCHANGED <<plan, plans, swept>>

Close(ns) ==
    /\ ns \in opened /\ opened' = opened \ {ns}
    /\ UNCHANGED <<file, plan, plans, swept>>

Insert(ns, tab, id) ==
    LET n == Table(ns, tab)
    IN  /\ ns \in opened /\ IsTable(n)
        /\ \A o \in DOMAIN file : id \notin file[o].rows
        /\ file' = [file EXCEPT ![n].rows = @ \cup {id},
                                ![n].index = IF file[n].fts THEN @ \cup {id} ELSE @]
        /\ UNCHANGED <<opened, plan, plans, swept>>

-----------------------------------------------------------------------------
(* LIKE 'src\_%': every table whose name begins with src.                  *)

Matching(ns) == {n \in DOMAIN file : IsStrictPrefix(ns, n)}
Moved(n, src, dst) == dst \o SubSeq(n, Len(src) + 1, Len(n))

Plan(src, dst, mode) ==
    /\ plans < MaxPlans /\ plans' = plans + 1
    /\ src # dst
    /\ plan' = [src |-> src, dst |-> dst, mode |-> mode, steps |-> Matching(src),
                conflicts |-> {Moved(n, src, dst) : n \in Matching(src)} \cap DOMAIN file]
    /\ UNCHANGED <<file, opened, swept>>

Targets == {Moved(n, plan.src, plan.dst) : n \in plan.steps}
Source(t) == CHOOSE n \in plan.steps : Moved(n, plan.src, plan.dst) = t

(* What is left once the conflicts that the plan found are dropped.        *)
Base == [n \in DOMAIN file \ plan.conflicts |-> file[n]]

(* Only atoms get their index again, and only under dst itself.            *)
Respecified == {Table(plan.dst, "atoms")}

(* Defect: the index is created but not filled.                            *)
RenamedEmpty(base) ==
    [n \in (DOMAIN base \ plan.steps) \cup Targets |->
       IF n \notin Targets THEN base[n]
       ELSE [base[Source(n)] EXCEPT !.fts = (n \in Respecified), !.index = {}]]

Renamed(base) ==
    [n \in (DOMAIN base \ plan.steps) \cup Targets |->
       IF n \notin Targets THEN base[n]
       ELSE [base[Source(n)] EXCEPT
               !.fts = (n \in Respecified),
               !.index = IF n \in Respecified THEN base[Source(n)].rows ELSE {}]]

(* CREATE TABLE AS SELECT: rows, but no key; the version is cleared.       *)
Copied(base) ==
    [n \in DOMAIN base \cup Targets |->
       IF n \notin Targets THEN base[n]
       ELSE [rows |-> base[Source(n)].rows \ (IF n = Table(plan.dst, "meta")
                                              THEN {"version"} ELSE {}),
             keyed |-> FALSE, fts |-> FALSE, index |-> {}]]

(* A program that had one of the two open is expected to open it again.    *)
Applied(base) ==
    /\ file' = IF plan.mode = "rename" THEN Renamed(base) ELSE Copied(base)
    /\ swept' = swept \cup {Moved(n, plan.src, plan.dst) :
                              n \in {m \in plan.steps : Len(m) > Len(plan.src) + 1}}
    /\ plan' = NoPlan
    /\ opened' = opened \ {plan.src, plan.dst}
    /\ UNCHANGED plans

(* Defect: what is found at the destination by now is dropped, not what    *)
(* the user was shown.                                                     *)
ApplyForced(overwrite) ==
    /\ plan # NoPlan
    /\ plan.conflicts # {} => overwrite
    /\ plan.steps \subseteq DOMAIN file \ Targets
    /\ Applied([n \in DOMAIN file \ Targets |-> file[n]])

(* A table that vanished or appeared since the plan, and one that is both  *)
(* source and conflict, fails a statement and the transaction with it.     *)
Apply(overwrite) ==
    /\ plan # NoPlan
    /\ plan.conflicts # {} => overwrite
    /\ plan.steps \subseteq DOMAIN Base
    /\ Targets \cap (DOMAIN Base \ plan.steps) = {}
    /\ Applied(Base)

Cancel == /\ plan # NoPlan /\ plan' = NoPlan
          /\ UNCHANGED <<file, opened, plans, swept>>

Next ==
    \/ \E ns \in Spaces : Open(ns) \/ Close(ns)
    \/ \E ns \in Spaces, tab \in Indexed, id \in Ids : Insert(ns, tab, id)
    \/ \E src, dst \in Spaces, mode \in {"rename", "copy"} : Plan(src, dst, mode)
    \/ \E overwrite \in BOOLEAN : Apply(overwrite)
    \/ Cancel

Spec == Init /\ [][Next]_renameVars

-----------------------------------------------------------------------------
(* Properties.                                                             *)

RowsOf(tables) == UNION {file[n].rows : n \in tables}

(* Applying a plan, however old, loses no row but those of the tables that *)
(* the user saw in conflict and agreed to overwrite.                       *)
RowsSurvive ==
    [][LET agreed == {n \in plan.conflicts : Apply(TRUE)}
       IN  RowsOf(DOMAIN file \ agreed)
             \subseteq {"version"} \cup UNION {file'[n].rows : n \in DOMAIN file'}]_renameVars

(* In an open namespace every atom is in the text index, after any rename  *)
(* (of a table that was renamed as its own namespace's).                   *)
AtomsSearchable ==
    \A ns \in opened :
        LET n == Table(ns, "atoms")
        IN  IsTable(n) /\ n \notin swept => file[n].index = file[n].rows

(* The same of every indexed table.                                        *)
EverythingSearchable ==
    \A ns \in opened, tab \in Indexed :
        LET n == Table(ns, tab)
        IN  IsTable(n) /\ n \notin swept => file[n].index = file[n].rows

=============================================================================
