---------------------------- MODULE MCVirtioDisk ----------------------------
(* Small instances of VirtioDisk. *)
EXTENDS VirtioDisk, TLC

Symmetry == Permutations(Proc) \cup Permutations(Buf)
=============================================================================
