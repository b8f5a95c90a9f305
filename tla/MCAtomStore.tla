--------------------------- MODULE MCAtomStore ---------------------------
(* The instances of AtomStore that TLC checks.  Texts are 1 (a fact), 2 (a *)
(* paraphrase of it) and 3 (its negation, in words close to both).         *)
EXTENDS AtomStore, TLC

CONSTANTS s1, s2

ParaphraseNear == [t \in Texts |-> {u \in Texts : u # t}]

NegationOpposite ==
    [t \in Texts |-> IF t = 3 THEN Texts \ {3} ELSE Texts \cap {3}]

Symmetry == Permutations({s1, s2})
=============================================================================
