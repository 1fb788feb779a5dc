---------------------------- MODULE MCFileBlocks ----------------------------
(* Small instances of FileBlocks. *)
EXTENDS FileBlocks, TLC

Symmetry == Permutations(File) \cup Permutations(Byte)
=============================================================================
