-------------------------------- MODULE Setup --------------------------------
(***************************************************************************)
(* How memory becomes a pool: __setup of src/src/free_list.hpp, with the   *)
(* helpers of metadata.hpp it rests on; how much memory the heap asks the  *)
(* system for when it grows (heap.hpp, pool.hpp); and the length that      *)
(* bb_allocator announces for a request (__bb.hpp), which repeats the      *)
(* rounding of both tiers in other words.  Pure arithmetic, in bytes, on   *)
(* machine words that wrap around.                                         *)
(***************************************************************************)
EXTENDS Integers

CONSTANTS
  WordBits,     (* width of usize                                           *)
  MaxTotal,     (* __max_total                                              *)
  Min,          (* __default_min_block                                      *)
  MaxAlign,     (* __default_max_alignment                                  *)
  SheetLen,     (* __default_tlsf_sheet                                     *)
  MaxRegion,    (* __default_max_region_bytes                               *)
  GrowMin,      (* __grow_bytes                                             *)
  Native,       (* native_alignment                                         *)
  ClassSmall,   (* __class_small                                            *)
  Rz            (* __rz                                                     *)

Word    == 2 ^ WordBits
SizeMax == Word - 1
Pow2s   == {2 ^ k : k \in 0 .. WordBits - 1}
None    == -1    \* no tag array: the tags are kept in the memory itself

(* The static_asserts of config.hpp and pool.hpp; the constants of
   metadata.hpp; and what every profile satisfies by far, that the cap of a
   region, and the largest alignment, can be doubled in a word. *)
ASSUME SetupAssumption ==
  /\ WordBits \in Nat \ {0}
  /\ {Min, MaxAlign, SheetLen, Native} \subseteq Pow2s
  /\ Min >= 4 /\ Min >= Native /\ SheetLen >= Min /\ MaxAlign >= Min
  /\ {MaxRegion, MaxTotal, GrowMin, ClassSmall, Rz} \subseteq Nat
  /\ MaxRegion >= 4 * SheetLen /\ MaxRegion <= SizeMax \div 2
  /\ 2 * MaxTotal >= MaxRegion /\ 2 * MaxAlign <= SizeMax
  /\ 4 * SheetLen <= GrowMin /\ GrowMin <= MaxRegion
  /\ ClassSmall % Native = 0 /\ Rz < ClassSmall /\ ClassSmall <= SheetLen

-----------------------------------------------------------------------------
(* metadata.hpp *)
IsPow2(v)       == v \in Pow2s
Fls(v)          == CHOOSE k \in 0 .. WordBits - 1 : 2 ^ k <= v /\ v < 2 ^ (k + 1)
AlignUp(v, a)   == LET w == (v + a - 1) % Word IN w - (w % a)
NextPow2(v)     == IF v <= 1 THEN 1
                   ELSE IF Fls(v - 1) + 1 >= WordBits THEN SizeMax ELSE 2 ^ (Fls(v - 1) + 1)
RoundUpSat(v, a) == IF AlignUp(v, a) < v THEN SizeMax ELSE AlignUp(v, a)

(* __max_orders: how many orders a region of the largest size has. *)
Mx == Fls(MaxRegion \div Min) + 1

(* order_size, order_for_size *)
OrderBytes(o) == Min * 2 ^ o

OrderForSize(n) ==
  LET x == (n - 1) \div Min
  IN  Fls(IF x % 2 = 0 THEN x + 1 ELSE x) + (IF x # 0 THEN 1 ELSE 0)

-----------------------------------------------------------------------------
NoPool == [ok |-> FALSE, base |-> 0, align |-> 0, tags |-> 0, count |-> 0, max_order |-> 0]

(* The alignment __setup starts from. *)
WantedAlign(want) ==
  LET align == IF want < Min THEN Min ELSE want
  IN  IF IsPow2(align) THEN align ELSE 2 ^ Fls(align)

(* Its loop: from there the alignment is halved, down to Min, until the data
   area has room for one aligned unit of it and for two blocks of the least
   size; the largest that fits, 0 if none does. *)
AlignFits(data, end, align) ==
  LET b == AlignUp(data, align)
  IN  b >= data /\ b <= end /\ end - b >= (IF align > 2 * Min THEN align ELSE 2 * Min)

FittingAlign(data, end, want) ==
  LET fit == {a \in Pow2s : Min <= a /\ a <= want /\ AlignFits(data, end, a)}
  IN  IF fit = {} THEN 0 ELSE CHOOSE a \in fit : \A c \in fit : c <= a

(* One tag byte for each Min bytes that follow the tags. *)
\* Mutant of TagArea: rounded down.
TagAreaShort(len) == len \div (Min + 1)

TagArea(len) == ((len + Min) % Word) \div (Min + 1)

AtMost(x, cap) == IF x > cap THEN cap ELSE x

(* __setup for len bytes at mem, with an array of ext tags or None. *)
SetUp(mem, len, ext, want) ==
  LET data  == mem + (IF ext = None THEN TagArea(len) ELSE 0)
      align == FittingAlign(data, mem + len, WantedAlign(want))
      base  == AlignUp(data, align)
      bytes == AtMost(AtMost(mem + len - base, (2 ^ Mx - 1) * Min), MaxTotal)
      count == IF ext = None THEN bytes \div Min ELSE AtMost(bytes \div Min, ext)
  IN  IF mem = 0 \/ len < 4 * Min \/ align = 0 \/ count = 0 THEN NoPool
      ELSE [ok |-> TRUE, base |-> base, align |-> align,
            tags |-> IF ext = None THEN mem ELSE None,
            count |-> count, max_order |-> Fls(count) + 1]

-----------------------------------------------------------------------------
(* What __alloc_slow and __alloc_aligned_slow hand to __grow. *)
GrowFor(n, al) ==
  IF al <= Native THEN n ELSE IF n > al THEN (n + al) % Word ELSE (al * 2) % Word

(* __grow_pool: the length asked of the system, None if it is not asked. *)
PoolLength(bytes) ==
  LET n == AtMost(IF bytes < GrowMin THEN GrowMin ELSE bytes, MaxRegion)
  IN  IF n < bytes THEN None ELSE n

(* __grow *)
\* Mutant of GrowLength: the next power of two is not doubled.
GrowLengthTight(bytes) == PoolLength(RoundUpSat(NextPow2(bytes), SheetLen))

GrowLength(bytes) ==
  LET pow == NextPow2(bytes)
  IN  PoolLength(RoundUpSat(IF pow <= SizeMax \div 2 THEN 2 * pow ELSE pow, SheetLen))

(* allocate and allocate_aligned find room in an empty pool: servable,
   servable_aligned. *)
Servable(p, n, al) ==
  /\ p.ok /\ n # 0
  /\ OrderForSize(n) < p.max_order
  /\ al > Native => IsPow2(al) /\ al <= p.align /\ OrderForSize(al) < p.max_order

-----------------------------------------------------------------------------
(* allocation_extent: its loop finds the power of two by shifting. *)
BitLength(t) == IF t = 0 THEN 0 ELSE Fls(t) + 1

\* Mutant of PowerExtent: the redzone is announced with the rest.
PowerExtentWhole(want, al) ==
  LET top == BitLength((IF want < Min THEN Min ELSE want) - 1)
  IN  IF top >= WordBits THEN SizeMax ELSE IF 2 ^ top < al THEN al ELSE 2 ^ top

PowerExtent(want, al) ==
  LET top == BitLength((IF want < Min THEN Min ELSE want) - 1)
  IN  IF top >= WordBits THEN SizeMax ELSE (IF 2 ^ top < al THEN al ELSE 2 ^ top) - Rz

AllocationExtent(bytes, al) ==
  LET want == bytes + Rz
  IN  IF bytes = 0 THEN 0
      ELSE IF SizeMax - Rz < bytes THEN SizeMax
      ELSE IF al <= Native /\ want <= ClassSmall THEN RoundUpSat(want, Native) - Rz
      ELSE PowerExtent(want, al)

(* The length of the blocks a request may be granted: the small tier's
   (adjusted, less the header), and the pool's. *)
Grants(want, al) ==
  LET order == IF al > Native /\ OrderForSize(al) > OrderForSize(want)
               THEN OrderForSize(al) ELSE OrderForSize(want)
  IN  {OrderBytes(order)} \union
      (IF al <= Native /\ want <= ClassSmall THEN {RoundUpSat(want, Native)} ELSE {})
=============================================================================
