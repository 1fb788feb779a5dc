------------------------------ MODULE MCSched ------------------------------
(* Sched with its harts interchangeable. *)
EXTENDS Sched, TLC

Symmetry == Permutations(Hart)
=============================================================================
