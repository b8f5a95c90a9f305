---------------------------- MODULE MCCheckpoints ----------------------------
(* Checkpoints by itself, for what the code does not keep: with turns that run *)
(* while old rows are pruned, and with a newest row that cannot be read.       *)
(* MCStorage has the instance whose properties hold.                           *)
EXTENDS Checkpoints
=============================================================================
