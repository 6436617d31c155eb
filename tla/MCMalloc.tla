------------------------------- MODULE MCMalloc -------------------------------
(* Two holders that differ in nothing but their name: see MCMalloc.cfg. *)
EXTENDS Malloc, TLC

MCSizes == {0, 1, 2, 3, Huge}
Symmetry == Permutations(Holders)
=============================================================================
