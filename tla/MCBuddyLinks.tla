---------------------------- MODULE MCBuddyLinks ----------------------------
(* A small pool with its lists linked: see MCBuddyLinks.cfg. *)
EXTENDS BuddyLinks

MCOrderSize == [o \in 0 .. MaxOrder |-> 2 ^ o]
=============================================================================
