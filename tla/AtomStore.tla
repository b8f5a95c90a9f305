----------------------------- MODULE AtomStore -----------------------------
(***************************************************************************)
(* The atoms of a namespace, from their promotion to their deprecation,    *)
(* and everybody who retires or replaces one: promotion workers and the    *)
(* user who approves a candidate (pipeline/promotion), the Memory API that *)
(* creates, replaces, deprecates and deletes (core.py), the consolidation  *)
(* pass (pipeline/lifecycle/consolidate.py), the merge of two entities and *)
(* the weekly fallback pass.  Each decides from what it read and acts      *)
(* later; a backend transaction or a call outside one is an atomic step.   *)
(* The scan for a duplicate fact under another entity, made only for the   *)
(* User entity, is left out: it can only keep an atom from being written.  *)
(*                                                                         *)
(* Atoms are numbered by created_at.  `text' is a normalized assertion,    *)
(* `rank' the importance, confidence and occurred_at of an atom as one     *)
(* number.  Vectors, aliases, journals and pages are left out.             *)
(***************************************************************************)
EXTENDS Integers, Sequences, FiniteSets

CONSTANTS
    Entities,
    Texts,          \* assertions up to normalize_alias
    Near,           \* Near[t]: texts that Jaccard or the LLM calls the same
    Opposite,       \* Opposite[t]: texts of overlapping words, other polarity
    Ranks,
    MaxAtoms,       \* bound: how many atoms are ever created
    MaxCount,       \* bound: no merge once a count has drifted this far
    Creators,       \* callers of create_atom
    Workers,        \* promotion workers
    Approvers,      \* users approving a candidate on the dashboard
    Replacers,      \* users correcting an atom
    Retirers,       \* users deprecating an atom or deleting its leaf
    Consolidators,  \* consolidation passes
    Mergers,        \* workers that found two entities to be the same
    Fallbacks       \* fallback passes

Sessions == Workers \cup Approvers \cup Replacers \cup Retirers
            \cup Consolidators \cup Mergers \cup Fallbacks

ASSUME AtomStoreAssumption ==
    /\ Ranks \subseteq Nat /\ MaxAtoms \in Nat /\ MaxCount \in Nat
    /\ Near \in [Texts -> SUBSET Texts]
    /\ Opposite \in [Texts -> SUBSET Texts]

VARIABLES
    atoms,  \* the rows of the atom table, by id
    leaf,   \* the atoms that have a leaf in the memory tree
    count,  \* count[e]: the atom_count column of e
    sess    \* sess[s]: where s is, and what it has read

vars == <<atoms, leaf, count, sess>>

None == 0  \* superseded_by IS NULL

Ids == DOMAIN atoms

Atom == [ent : Entities, text : Texts, rank : Ranks, live : BOOLEAN, by : Nat]

Row(e, t, k) ==
    [ent |-> e, text |-> t, rank |-> k, live |-> TRUE, by |-> None]

Live(e) == {a \in Ids : atoms[a].live /\ atoms[a].ent = e}

(* _keeper_sort_key: the better of two atoms, the newer one in a tie.      *)
Outranks(a, b) ==
    \/ atoms[a].rank > atoms[b].rank
    \/ atoms[a].rank = atoms[b].rank /\ a > b

Idle == [pc |-> "idle"]

Goto(s, state) == sess' = [sess EXCEPT ![s] = state]

HasRoom == Len(atoms) < MaxAtoms

(* Mutant: the UPDATE of supersede_atom does not ask for a live row.       *)
SupersedableAnyway(rows, old) == old \in DOMAIN rows

(* The clause `deprecated_at IS NULL' of supersede_atom.                   *)
Supersedable(rows, old) == rows[old].live

Superseded(rows, old, new) ==
    IF Supersedable(rows, old)
    THEN [rows EXCEPT ![old].live = FALSE, ![old].by = new]
    ELSE rows

-----------------------------------------------------------------------------

Init ==
    /\ atoms = <<>>
    /\ leaf = {}
    /\ count = [e \in Entities |-> 0]
    /\ sess = [s \in Sessions |-> Idle]

(***************************************************************************)
(* New atoms.                                                              *)
(***************************************************************************)

(* The transaction of create_atom, its duplicate check included.           *)
Create(e, t, k) ==
    /\ HasRoom
    /\ \A a \in Live(e) : atoms[a].text # t
    /\ atoms' = Append(atoms, Row(e, t, k))
    /\ leaf' = leaf \cup {Len(atoms) + 1}
    /\ count' = [count EXCEPT ![e] = @ + 1]
    /\ UNCHANGED sess

(* check_duplicate finds nothing (or the candidate merges: no atom).       *)
CheckDuplicate(s, e, t, k) ==
    /\ sess[s].pc = "idle"
    /\ HasRoom
    /\ \A a \in Live(e) : atoms[a].text # t
    /\ Goto(s, [pc |-> "conflict", ent |-> e, text |-> t, rank |-> k])
    /\ UNCHANGED <<atoms, leaf, count>>

Conflicting(s) ==
    {a \in Live(sess[s].ent) : atoms[a].text \in Opposite[sess[s].text]}

(* check_conflict lists the newest atom first.  A worker parks a candidate *)
(* in conflict; an approval remembers which atom it supersedes.            *)
CheckConflict(s) ==
    LET c == sess[s]
        newest == {a \in Conflicting(s) : \A b \in Conflicting(s) : b <= a}
    IN  /\ c.pc = "conflict"
        /\ \E old \in IF Conflicting(s) = {} THEN {None} ELSE newest :
              Goto(s, IF old # None /\ s \in Workers THEN Idle
                      ELSE [pc |-> "write", ent |-> c.ent, text |-> c.text,
                            rank |-> c.rank, old |-> old])
        /\ UNCHANGED <<atoms, leaf, count>>

(* Mutant: every promotion adds one to the count, replacement or not.      *)
WriteRecounted(s) ==
    LET w == sess[s]
        new == Len(atoms) + 1
        rows == Append(atoms, Row(w.ent, w.text, w.rank))
    IN  /\ w.pc = "write"
        /\ HasRoom
        /\ w.old # None => Supersedable(atoms, w.old)
        /\ atoms' = IF w.old = None THEN rows ELSE Superseded(rows, w.old, new)
        /\ leaf' = (leaf \cup {new}) \ {w.old}
        /\ count' = [count EXCEPT ![w.ent] = @ + 1]
        /\ Goto(s, Idle)

(* The transaction of _apply_promote: the atom and its leaf, and either    *)
(* one more on the count or one atom superseded in its place.              *)
Write(s) ==
    LET w == sess[s]
        new == Len(atoms) + 1
        rows == Append(atoms, Row(w.ent, w.text, w.rank))
    IN  /\ w.pc = "write"
        /\ HasRoom
        /\ w.old # None => Supersedable(atoms, w.old)
        /\ atoms' = IF w.old = None THEN rows ELSE Superseded(rows, w.old, new)
        /\ leaf' = (leaf \cup {new}) \ {w.old}
        /\ count' = IF w.old = None THEN [count EXCEPT ![w.ent] = @ + 1] ELSE count
        /\ Goto(s, Idle)

(* "was replaced concurrently": the transaction rolls back.                *)
RollBack(s) ==
    /\ sess[s].pc \in {"write", "replace"}
    /\ sess[s].old # None
    /\ ~Supersedable(atoms, sess[s].old)
    /\ Goto(s, Idle)
    /\ UNCHANGED <<atoms, leaf, count>>

(* The fallback pass checks no duplicate, and makes three separate calls:  *)
(* save_atom, the leaf (without a parent), and the count.                  *)
FallbackSave(s, e, t, k) ==
    /\ sess[s].pc = "idle"
    /\ HasRoom
    /\ atoms' = Append(atoms, Row(e, t, k))
    /\ Goto(s, [pc |-> "link", atom |-> Len(atoms) + 1, ent |-> e])
    /\ UNCHANGED <<leaf, count>>

FallbackLink(s) ==
    /\ sess[s].pc = "link"
    /\ leaf' = leaf \cup {sess[s].atom}
    /\ Goto(s, [pc |-> "bump", ent |-> sess[s].ent, delta |-> 1])
    /\ UNCHANGED <<atoms, count>>

(* bump_entity_atom_count, called on its own.                              *)
Bump(s) ==
    /\ sess[s].pc = "bump"
    /\ count' = [count EXCEPT ![sess[s].ent] = @ + sess[s].delta]
    /\ Goto(s, Idle)
    /\ UNCHANGED <<atoms, leaf>>

(***************************************************************************)
(* replace_atom: what it read decides, the transaction checks once more    *)
(* that the old atom is live.                                              *)
(***************************************************************************)

StartReplace(s, a, t) ==
    /\ sess[s].pc = "idle"
    /\ HasRoom
    /\ atoms[a].live /\ atoms[a].text # t
    /\ \A b \in Live(atoms[a].ent) \ {a} : atoms[b].text # t
    /\ Goto(s, [pc |-> "replace", old |-> a, ent |-> atoms[a].ent, text |-> t])
    /\ UNCHANGED <<atoms, leaf, count>>

(* Mutant: the leaf of the replaced atom stays in the tree.                *)
ReplaceKeepsLeaf(s) ==
    LET w == sess[s]
        new == Len(atoms) + 1
        rows == Append(atoms, Row(w.ent, w.text, atoms[w.old].rank))
    IN  /\ w.pc = "replace"
        /\ HasRoom
        /\ Supersedable(atoms, w.old)
        /\ atoms' = Superseded(rows, w.old, new)
        /\ leaf' = leaf \cup {new}
        /\ Goto(s, Idle)
        /\ UNCHANGED count

(* The transaction of replace_atom; otherwise it rolls back (RollBack).       *)
Replace(s) ==
    LET w == sess[s]
        new == Len(atoms) + 1
        rows == Append(atoms, Row(w.ent, w.text, atoms[w.old].rank))
    IN  /\ w.pc = "replace"
        /\ HasRoom
        /\ Supersedable(atoms, w.old)
        /\ atoms' = Superseded(rows, w.old, new)
        /\ leaf' = (leaf \cup {new}) \ {w.old}
        /\ Goto(s, Idle)
        /\ UNCHANGED count

(***************************************************************************)
(* deprecate_atom and delete: separate calls, and an UPDATE that does not  *)
(* ask whether the row is still live.                                      *)
(***************************************************************************)

StartDeprecate(s, a) ==
    /\ sess[s].pc = "idle"
    /\ atoms[a].live
    /\ Goto(s, [pc |-> "deprecate", atom |-> a, ent |-> atoms[a].ent])
    /\ UNCHANGED <<atoms, leaf, count>>

(* delete removes the leaf, then reads the atom it pointed to.             *)
DeleteLeaf(s, a) ==
    /\ sess[s].pc = "idle"
    /\ a \in leaf
    /\ leaf' = leaf \ {a}
    /\ Goto(s, [pc |-> "read", atom |-> a])
    /\ UNCHANGED <<atoms, count>>

ReadDeleted(s) ==
    /\ sess[s].pc = "read"
    /\ Goto(s, [pc |-> "deprecate", atom |-> sess[s].atom,
                ent |-> atoms[sess[s].atom].ent])
    /\ UNCHANGED <<atoms, leaf, count>>

Deprecate(s) ==
    /\ sess[s].pc = "deprecate"
    /\ atoms' = [atoms EXCEPT ![sess[s].atom].live = FALSE]
    /\ Goto(s, [pc |-> "bump", ent |-> sess[s].ent, delta |-> -1])
    /\ UNCHANGED <<leaf, count>>

(***************************************************************************)
(* Consolidation.  A cluster is connected by confirmed pairs; the clusters *)
(* of one pass are handled like passes of their own that read earlier.     *)
(***************************************************************************)

Connected(C) ==
    \A D \in (SUBSET C) \ {{}, C} :
        \E a \in D, b \in C \ D :
            \/ atoms[b].text \in Near[atoms[a].text] \cup {atoms[a].text}
            \/ atoms[a].text \in Near[atoms[b].text]

(* Mutant: the keeper is the oldest atom of the cluster.                   *)
IsKeeperOldest(a, C) == \A b \in C : a <= b

IsKeeper(a, C) == \A b \in C \ {a} : Outranks(a, b)

Clusters(e) == {C \in SUBSET Live(e) : Cardinality(C) >= 2 /\ Connected(C)}

(* Mutant: the keeper is left among the losers.                            *)
ReadClusterWhole(s, e) ==
    /\ sess[s].pc = "idle"
    /\ count[e] >= 2
    /\ \E C \in Clusters(e) : \E k \in C :
          /\ IsKeeper(k, C)
          /\ Goto(s, [pc |-> "cluster", keeper |-> k, losers |-> C])
    /\ UNCHANGED <<atoms, leaf, count>>

ReadCluster(s, e) ==
    /\ sess[s].pc = "idle"
    /\ count[e] >= 2
    /\ \E C \in Clusters(e) : \E k \in C :
          /\ IsKeeper(k, C)
          /\ Goto(s, [pc |-> "cluster", keeper |-> k, losers |-> C \ {k}])
    /\ UNCHANGED <<atoms, leaf, count>>

NextLoser(s, keeper, losers) ==
    Goto(s, IF losers = {} THEN Idle
            ELSE [pc |-> "cluster", keeper |-> keeper, losers |-> losers])

(* Memory.supersede_atom outside a transaction: its result is ignored; the *)
(* leaf goes in a later call, and only if the row was live.                *)
SupersedeLoser(s, a) ==
    LET w == sess[s]
    IN  /\ w.pc = "cluster"
        /\ a \in w.losers
        /\ atoms' = Superseded(atoms, a, w.keeper)
        /\ IF Supersedable(atoms, a)
           THEN Goto(s, [pc |-> "unfile", atom |-> a, keeper |-> w.keeper,
                         losers |-> w.losers \ {a}])
           ELSE NextLoser(s, w.keeper, w.losers \ {a})
        /\ UNCHANGED <<leaf, count>>

UnfileLoser(s) ==
    /\ sess[s].pc = "unfile"
    /\ leaf' = leaf \ {sess[s].atom}
    /\ NextLoser(s, sess[s].keeper, sess[s].losers)
    /\ UNCHANGED <<atoms, count>>

(***************************************************************************)
(* merge_entity: migrate_atoms_to_entity, then both counts.  The rows are  *)
(* read first (in Postgres in a transaction of their own, in SQLite before *)
(* the write lock), and updated by id whatever became of them since.       *)
(***************************************************************************)

(* The row that keeps text t in the target: its own, or the first to come. *)
MergeKeeper(src, tgt, t) ==
    LET own == {a \in Live(tgt) : atoms[a].text = t}
        all == IF own # {} THEN own ELSE {a \in Live(src) : atoms[a].text = t}
    IN  CHOOSE a \in all : \A b \in all : a <= b

ReadMerge(s, src, tgt) ==
    /\ sess[s].pc = "idle"
    /\ src # tgt /\ Live(src) # {}
    /\ count[tgt] < MaxCount /\ count[src] > -MaxCount
    /\ Goto(s, [pc |-> "merge", src |-> src, ent |-> tgt,
                keeper |-> [a \in Live(src) |-> MergeKeeper(src, tgt, atoms[a].text)]])
    /\ UNCHANGED <<atoms, leaf, count>>

(* The rows that keep their own text move.                                 *)
Migrated(keeper) == {a \in DOMAIN keeper : keeper[a] = a}

(* Mutant: the map of keepers is seeded with the source's rows as well, so *)
(* that each row to migrate finds itself there.                            *)
MergeSeeded(s) ==
    LET w == sess[s]
    IN  /\ w.pc = "merge"
        /\ atoms' = [a \in Ids |->
              IF a \notin DOMAIN w.keeper THEN atoms[a]
              ELSE [atoms[a] EXCEPT !.live = FALSE, !.by = w.keeper[a]]]
        /\ Goto(s, Idle)
        /\ UNCHANGED <<leaf, count>>

Merge(s) ==
    LET w == sess[s]
        n == Cardinality(Migrated(w.keeper))
    IN  /\ w.pc = "merge"
        /\ atoms' = [a \in Ids |->
              IF a \notin DOMAIN w.keeper THEN atoms[a]
              ELSE IF w.keeper[a] = a THEN [atoms[a] EXCEPT !.ent = w.ent]
              ELSE [atoms[a] EXCEPT !.live = FALSE, !.by = w.keeper[a]]]
        /\ Goto(s, IF n = 0 THEN Idle
                   ELSE [pc |-> "grow", src |-> w.src, ent |-> w.ent, delta |-> n])
        /\ UNCHANGED <<leaf, count>>

GrowTarget(s) ==
    /\ sess[s].pc = "grow"
    /\ count' = [count EXCEPT ![sess[s].ent] = @ + sess[s].delta]
    /\ Goto(s, [pc |-> "source", ent |-> sess[s].src])
    /\ UNCHANGED <<atoms, leaf>>

(* The source is reset by subtracting the count that was read.             *)
ReadSource(s) ==
    LET n == count[sess[s].ent]
    IN  /\ sess[s].pc = "source"
        /\ Goto(s, IF n > 0 THEN [pc |-> "bump", ent |-> sess[s].ent, delta |-> -n]
                   ELSE Idle)
        /\ UNCHANGED <<atoms, leaf, count>>

(* The process of s dies, or s gives up.                                   *)
Crash(s) ==
    /\ sess[s].pc # "idle"
    /\ Goto(s, Idle)
    /\ UNCHANGED <<atoms, leaf, count>>

-----------------------------------------------------------------------------

PromoterStep ==
    \/ \E c \in Creators, e \in Entities, t \in Texts, k \in Ranks :
          Create(e, t, k)
    \/ \E s \in Workers \cup Approvers :
          \/ \E e \in Entities, t \in Texts, k \in Ranks :
                CheckDuplicate(s, e, t, k)
          \/ CheckConflict(s) \/ Write(s) \/ RollBack(s)
    \/ \E s \in Fallbacks :
          \/ \E e \in Entities, t \in Texts, k \in Ranks :
                FallbackSave(s, e, t, k)
          \/ FallbackLink(s) \/ Bump(s)

UserStep ==
    \/ \E s \in Replacers :
          \/ \E a \in Ids, t \in Texts : StartReplace(s, a, t)
          \/ Replace(s) \/ RollBack(s)
    \/ \E s \in Retirers :
          \/ \E a \in Ids : StartDeprecate(s, a) \/ DeleteLeaf(s, a)
          \/ ReadDeleted(s) \/ Deprecate(s) \/ Bump(s)

CleanupStep ==
    \/ \E s \in Consolidators :
          \/ \E e \in Entities : ReadCluster(s, e)
          \/ \E a \in Ids : SupersedeLoser(s, a)
          \/ UnfileLoser(s)
    \/ \E s \in Mergers :
          \/ \E e, f \in Entities : ReadMerge(s, e, f)
          \/ Merge(s) \/ GrowTarget(s) \/ ReadSource(s) \/ Bump(s)

Next ==
    \/ PromoterStep
    \/ UserStep
    \/ CleanupStep
    \/ \E s \in Sessions : Crash(s)

Spec == Init /\ [][Next]_vars

-----------------------------------------------------------------------------

(* The local states of a session that names atoms of I.                    *)
SessionState(I) ==
    [pc : {"idle"}]
    \cup [pc : {"conflict"}, ent : Entities, text : Texts, rank : Ranks]
    \cup [pc : {"write"}, ent : Entities, text : Texts, rank : Ranks,
          old : I \cup {None}]
    \cup [pc : {"link"}, atom : I, ent : Entities]
    \cup [pc : {"bump"}, ent : Entities, delta : Int]
    \cup [pc : {"replace"}, old : I, ent : Entities, text : Texts]
    \cup [pc : {"read"}, atom : I]
    \cup [pc : {"deprecate"}, atom : I, ent : Entities]
    \cup [pc : {"cluster"}, keeper : I, losers : SUBSET I]
    \cup [pc : {"unfile"}, atom : I, keeper : I, losers : SUBSET I]
    \cup [pc : {"merge"}, src : Entities, ent : Entities,
          keeper : UNION {[S -> I] : S \in SUBSET I}]
    \cup [pc : {"grow"}, src : Entities, ent : Entities, delta : Int]
    \cup [pc : {"source"}, ent : Entities]

RowsOK(rows) ==
    /\ rows \in Seq(Atom)
    /\ \A a \in DOMAIN rows : rows[a].by \in (DOMAIN rows) \cup {None}

(* Rows and local states have the right shape, and name only atoms that    *)
(* are there.                                                              *)
TypeOK ==
    /\ RowsOK(atoms)
    /\ leaf \subseteq Ids
    /\ count \in [Entities -> Int]
    /\ sess \in [Sessions -> SessionState(Ids)]

(* The successor of an atom is the one its first replacement gave it: no   *)
(* two of the approvals, corrections and consolidations that read it while *)
(* it was live both replace it, and none undoes the other.                 *)
SuccessorIsFinal ==
    [][\A a \in Ids : atoms[a].by # None => atoms'[a].by = atoms[a].by]_vars

(* atom_count is the number of live atoms.                                 *)
CountIsExact ==
    \A e \in Entities : count[e] = Cardinality(Live(e))

(* The tree has a leaf for each live atom and for no other.                *)
LeavesAreLive == leaf = {a \in Ids : atoms[a].live}

(* Whatever consolidations, corrections and crashes interleave, an atom is *)
(* only given up for a better one: a successor has at least its rank, and  *)
(* is newer if it has no more.  So no two passes give up their atoms for   *)
(* each other's, and a superseded fact leads to one that was not.          *)
SuccessorOutranks ==
    \A a \in Ids : atoms[a].by # None => Outranks(atoms[a].by, a)

(* A superseded atom leads to one that is not: no set of them is closed.   *)
SupersessionEnds ==
    \A S \in SUBSET Ids :
        S # {} => \E a \in S : atoms[a].by \notin S

(* "Batch-migrate every non-deprecated atom": no merge touches a row that  *)
(* was deprecated by then, and nobody else does.                           *)
DeprecatedRowsStay ==
    [][\A a \in Ids : ~atoms[a].live => atoms'[a] = atoms[a]]_vars

(* "no second identical row": an entity has no two live atoms of one text. *)
NoTwins ==
    \A e \in Entities : \A a, b \in Live(e) :
        atoms[a].text = atoms[b].text => a = b

=============================================================================
