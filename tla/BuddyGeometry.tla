--------------------------- MODULE BuddyGeometry ---------------------------
(***************************************************************************)
(* The geometry of one buddy pool (src/src/free_list.hpp, __buddy_list).   *)
(*                                                                         *)
(* Offsets and sizes are counted in blocks of Min bytes, the unit in which *)
(* the pool keeps one tag byte.  A block of order o is OrderSize[o] units  *)
(* long and starts at a multiple of its own length.                        *)
(***************************************************************************)
EXTENDS Integers

CONSTANTS
  Total,      (* tag_count: units the pool manages                         *)
  MaxOrder,   (* max_order: one more than the largest order in the pool    *)
  OrderSize   (* order_size(o) / Min, tabulated for the orders 0..MaxOrder *)

Orders == 0 .. MaxOrder - 1
Units  == 0 .. Total - 1
Top    == MaxOrder - 1
Null   == -1  \* the null pointer, and a pointer outside the pool or off the Min grid

ASSUME TotalAssumption == Total \in Nat \ {0}

ASSUME OrderSizeAssumption ==
  /\ MaxOrder \in Nat \ {0}
  /\ OrderSize \in [0 .. MaxOrder -> Nat \ {0}]
  /\ OrderSize[0] = 1
  /\ \A o \in Orders : OrderSize[o + 1] = 2 * OrderSize[o]

(* max_order = fls(count) + 1: the pool holds a block of the top order, and
   no block of the next one fits. *)
ASSUME MaxOrderAssumption ==
  /\ OrderSize[Top] <= Total
  /\ Total < OrderSize[MaxOrder]

Span(off, o)    == off .. off + OrderSize[o] - 1
Aligned(off, o) == off % OrderSize[o] = 0
InPool(off, o)  == off + OrderSize[o] <= Total

(* off with the bits below OrderSize[k] cleared: where the merge loop stands
   once it has reached order k, each iteration having done off &= ~sz. *)
Level(off, k) == off - (off % OrderSize[k])

(* off ^ order_size(k), for off a multiple of order_size(k). *)
BuddyOf(off, k) ==
  IF (off \div OrderSize[k]) % 2 = 0 THEN off + OrderSize[k] ELSE off - OrderSize[k]

(* The binary decomposition __seed makes of the pool: one block for every bit
   of tag_count, the largest first, each right after the one before. *)
SeedBit(o) == (Total \div OrderSize[o]) % 2 = 1
SeedOff(o) == Level(Total, o + 1)

(* The blocks of a set of <<offset, order>> pairs lie on the grid of their
   order inside the pool, and every unit of the pool is in exactly one. *)
Tiles(S) ==
  /\ \A blk \in S : Aligned(blk[1], blk[2]) /\ InPool(blk[1], blk[2])
  /\ \A u \in Units : \E blk \in S : u \in Span(blk[1], blk[2])
  /\ \A u \in Units : \A x, y \in S :
       u \in Span(x[1], x[2]) /\ u \in Span(y[1], y[2]) => x = y
=============================================================================
