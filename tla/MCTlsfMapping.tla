---------------------------- MODULE MCTlsfMapping ----------------------------
(* The size classes of one profile: see MCTlsfMapping.cfg. *)
EXTENDS SizeClasses
=============================================================================
