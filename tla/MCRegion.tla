------------------------------ MODULE MCRegion ------------------------------
(* Five units, seeded as a block of four units and one of one, two sheets of
   two units in which blocks of two sizes can be cut, merged, shrunk and grown. *)
EXTENDS Region

MCOrderSize == [o \in 0 .. MaxOrder |-> 2 ^ o]
=============================================================================
