------------------------------ MODULE MCUpkeep ------------------------------
(* Small instances of the background work.                                   *)
EXTENDS Upkeep

(* The document at first says nothing of the fact, its edit contradicts it.  *)
MCContradicts == [d \in Docs |-> IF d = "d1" THEN {} ELSE Facts]
MCRepeats == [d \in Docs |-> {}]

(* A model that does not run in a behaviour has one first state.             *)
MCInit ==
    /\ Init
    /\ part # "space" => /\ hardLimit = NoLimit
                         /\ disk = [mode |-> "none", used |-> 1, free |-> 0, file |-> 1,
                                     wal |-> 0, room |-> 8]
    /\ part # "queue" => /\ byRegen = <<"p", "q", "r">> /\ byUpdate = byRegen
                         /\ \A p \in Pages : ~dirty[p]
    /\ doc = "d1"

MCSpec == MCInit /\ [][Next]_upkeepVars
=============================================================================
