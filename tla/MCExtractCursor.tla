-------------------------- MODULE MCExtractCursor --------------------------
(* Two processes on one store, with a thread each that extracts.           *)
EXTENDS ExtractCursor

CONSTANTS r1, r2, c1, c2

HomeOfCalls == [c \in {c1, c2} |-> IF c = c1 THEN r1 ELSE r2]
=============================================================================
