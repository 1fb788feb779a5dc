----------------------------- MODULE MCBufCache -----------------------------
(* BufCache with interchangeable processes, blocks and data. *)
EXTENDS BufCache, TLC

Symmetry == Permutations(Proc) \cup Permutations(Block) \cup Permutations(Data)
=============================================================================
