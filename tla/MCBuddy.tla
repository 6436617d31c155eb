------------------------------ MODULE MCBuddy ------------------------------
(***************************************************************************)
(* Buddy pools small enough for TLC: see MCBuddy.cfg (no order cache) and  *)
(* MCBuddyCached.cfg (order cache, a pool that is no power of two, so that *)
(* the seed has two blocks and the last buddy pair is cut off by its end). *)
(***************************************************************************)
EXTENDS Buddy

MCOrderSize == [o \in 0 .. MaxOrder |-> 2 ^ o]
=============================================================================
