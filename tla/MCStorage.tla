----------------------------- MODULE MCStorage -----------------------------
(* Small instances of the storage backends.                                  *)
EXTENDS Storage, TLC

CONSTANTS n1, n2, i1, i2, t1, t2  \* namespaces, ids and texts of BackendParity

(* A program finds no file, one from before the first migration whose row is *)
(* indexed whole, or one on which two versions put triggers of two names.     *)
NewFile  == [cols |-> {}, trig |-> "none", twin |-> "none", rows |-> {}, ver |-> 0,
             index |-> [r \in {1, 2} |-> [raw |-> 0, seg |-> 0]],
             jidx |-> "none", stamped |-> FALSE, tables |-> FALSE]
OldFile  == [NewFile EXCEPT !.tables = TRUE, !.trig = "raw", !.rows = {1},
                            !.index[1] = [raw |-> 1, seg |-> 0], !.jidx = "plain"]
TwinFile == [OldFile EXCEPT !.cols = {"metadata", "atom_id", "mutation_version"},
                            !.trig = "none", !.twin = "raw"]
MCFiles == {NewFile, OldFile, TwinFile}

(* Two tenants whose backups would have one name.                            *)
Old(rows, uuid) == [rows |-> rows, uuid |-> uuid, exists |-> TRUE]
MCBackup == [ns \in {"n1", "n2"} |-> "bak"]
MCLegacies == {Old({<<"raw", 1>>, <<"meta", 1>>}, FALSE),
               Old({<<"node", 1>>, <<"atom", 1>>}, FALSE),
               Old({<<"atom", 1>>}, FALSE), Old({}, TRUE)}

(* One of the prefixes is the beginning of another.                          *)
MCPrefixes == {<<"a">>, <<"a", "b">>, <<"x">>}

(* Nothing tells namespaces, ids or texts apart.                            *)
Symmetry == Permutations({n1, n2}) \cup Permutations({i1, i2}) \cup Permutations({t1, t2})
=============================================================================
