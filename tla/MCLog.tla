------------------------------- MODULE MCLog -------------------------------
(* Small instances of the log. *)
EXTENDS Log, TLC

Symmetry == Permutations(Proc) \cup Permutations(Block)
=============================================================================
