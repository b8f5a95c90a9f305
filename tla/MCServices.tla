----------------------------- MODULE MCServices -----------------------------
(* Small instances of what hosts and users ask.                              *)
EXTENDS Services

(* Two entities with an atom each and one query by name for the first, one   *)
(* that says "that project"; e3 is evidence of no atom.                       *)
MCEntity == [a \in Atoms |-> IF a = "a1" THEN "p1" ELSE "p2"]
MCEvidence == [a \in Atoms |-> IF a = "a1" THEN {"e1"} ELSE {"e2"}]
MCNamed == [q \in Queries |-> IF q = "byName" THEN {"p1"} ELSE {}]
MCPronoun == [q \in Queries |-> q = "that"]
MCFound == [q \in Queries |-> IF q = "that" THEN {"e2", "e3"} ELSE {"a1", "e1"}]
MCCost == [atom |-> 6, page |-> 1, raw |-> 3]
MCSimilar(c, d) == FALSE

(* Texts are 1 (a fact) and 3 (its negation, in words close to it).         *)
MCNear == [t \in Texts |-> Texts \ {t}]

MCOwner == [r \in PackedAtoms \cup PackedPages |-> "e1"]

(* A model that does not run in a behaviour has one first state.             *)
MCInit == Init /\ (part # "recall" => rawPolicy = "fallback")
MCSpec == MCInit /\ [][Next]_serviceVars
=============================================================================
