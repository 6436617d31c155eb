------------------------------- MODULE Layout --------------------------------
(***************************************************************************)
(* Walks every length from zero up, as that of the memory a pool is made   *)
(* of and as that of a request, at several addresses; every other input is *)
(* quantified over in the properties.                                      *)
(***************************************************************************)
EXTENDS Setup

CONSTANTS
  Starts,       (* addresses of the memory                                  *)
  MaxLen,       (* bound of the walk                                        *)
  TagArrays,    (* lengths of tag arrays, None for none                     *)
  Aligns        (* alignments asked for                                     *)

(* No memory is so long that its length and a block wrap around. *)
ASSUME LayoutAssumption ==
  /\ Starts \subseteq Nat \ {0} /\ MaxLen \in Nat
  /\ MaxLen + Min < Word /\ MaxLen + MaxAlign < Word
  /\ TagArrays \subseteq Nat \union {None} /\ Aligns \subseteq 0 .. SizeMax

VARIABLES mem, len

Start   == mem \in Starts /\ len = 0 /\ mem < Word
Longer  == len < MaxLen /\ mem + len + 1 < Word /\ len' = len + 1 /\ UNCHANGED mem
Lengths == Start /\ [][Longer]_<<mem, len>>

(* Whatever memory, tags and alignment a pool is set up with: there is a tag
   byte for every unit, the tags end before the data begin, the data lie inside
   the memory at the alignment that is recorded, no more than a unit is given
   away unless a cap bites, and the orders are as BuddyGeometry assumes them,
   and few enough for the arrays and the mask.  Memory is refused only if not
   even two units at the least alignment fit. *)
PoolLaidOut ==
  \A ext \in TagArrays, want \in Aligns :
    LET p    == SetUp(mem, len, ext, want)
        data == p.base + p.count * Min
    IN  IF p.ok
        THEN /\ p.tags = mem => mem + p.count <= p.base
             /\ ext # None => p.count <= ext
             /\ mem <= p.base /\ data <= mem + len
             /\ p.base % p.align = 0 /\ p.align >= Min
             /\ \/ mem + len - data < Min
                \/ p.count \in {ext, 2 ^ Mx - 1} \/ p.count = MaxTotal \div Min
             /\ OrderBytes(p.max_order - 1) <= p.count * Min
             /\ p.count * Min < OrderBytes(p.max_order) /\ p.max_order <= Mx
        ELSE \/ len < 4 * Min \/ ext = 0
             \/ LET first == mem + (IF ext = None THEN TagArea(len) ELSE 0)
                IN  ~ \E b \in first .. mem + len - 2 * Min : b % Min = 0

(* When the heap asks the system for memory and gets it, wherever that lies,
   the pool made of it serves the request the heap grew for, of either kind
   and at any alignment up to the largest supported. *)
GrowthSuffices ==
  \A al \in {a \in Aligns : IsPow2(a) /\ a <= MaxAlign} :
    LET n == GrowLength(GrowFor(len, al))
    IN  len # 0 /\ n # None /\ mem + n < Word => Servable(SetUp(mem, n, None, MaxAlign), len, al)

(* The length bb_allocator announces for a new chunk is at least what was
   asked for, at most what either tier grants for it, the same when asked for
   again, and no shorter than for a smaller request. *)
ExtentHonest ==
  \A al \in {a \in Aligns : IsPow2(a)} :
    LET e == AllocationExtent(len, al)
    IN  len # 0 /\ len + Rz <= SizeMax \div 2 =>
          /\ len <= e
          /\ \A g \in Grants(len + Rz, al) : e <= g - Rz
          /\ AllocationExtent(e, al) = e
          /\ AllocationExtent(len - 1, al) <= e
=============================================================================
