--------------------------- MODULE MCEntityPage ---------------------------
(* The instance of EntityPage that TLC checks.                             *)
EXTENDS EntityPage, TLC

CONSTANTS r1, r2

Symmetry == Permutations({r1, r2})
=============================================================================
