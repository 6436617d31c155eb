----------------------------- MODULE TlsfMapping -----------------------------
(***************************************************************************)
(* The size classes of __tlsf_list (src/src/cache_list.hpp): which list a  *)
(* free block of a given size is kept in, and in which list the search for *)
(* a block of at least a given size begins.  Sizes are in bytes, as in the *)
(* code; block sizes are multiples of Granule.                             *)
(***************************************************************************)
EXTENDS Integers

CONSTANTS
  SlLog2,      (* log2 of the number of second-level classes               *)
  DataUnits,   (* __data_bytes / Granule: the data area of one sheet       *)
  SmallUnits   (* __class_small / Granule                                  *)

Granule  == 16   \* __block_align
MinBlock == 32   \* __min_block
FlShift  == 5    \* __fl_shift

ASSUME MappingAssumption ==
  /\ SlLog2 \in 1 .. 5
  /\ DataUnits \in Nat /\ SmallUnits \in Nat
  /\ 2 * (SmallUnits + 2) <= DataUnits   \* __table_max * 2 <= __data_bytes

DataBytes == Granule * DataUnits
SlCount   == 2 ^ SlLog2
BlockSizes == {Granule * k : k \in 2 .. DataUnits}

(* __log2, and __fls32 of the builtin. *)
Log2[v \in 1 .. 4 * DataBytes] == IF v = 1 THEN 0 ELSE 1 + Log2[v \div 2]

FlCount == Log2[DataBytes] - FlShift + 1
Classes == (0 .. FlCount - 1) \X (0 .. SlCount - 1)

(* The order in which find_free visits the classes. *)
Before(c, d) == c[1] < d[1] \/ (c[1] = d[1] /\ c[2] < d[2])

(* mapping_insert *)
MappingInsert(size) ==
  LET fl == Log2[size] - FlShift
  IN  <<fl, (size \div 2 ^ (fl + FlShift - SlLog2)) % SlCount>>

(* mapping_search: the size is first rounded up to the next class boundary;
   the rounding can carry into the next first level. *)
\* Mutant of MappingSearch: rounds by one class width, not one less.
MappingSearchOver(size) ==
  LET f  == Log2[size]
      r  == size + 2 ^ (f - SlLog2)
      f2 == f + r \div 2 ^ (f + 1)
  IN  <<f2 - FlShift, (r \div 2 ^ (f2 - SlLog2)) % SlCount>>

\* Mutant of MappingSearch: the size is not rounded up.
MappingSearchFloor(size) ==
  LET f == Log2[size]
  IN  <<f - FlShift, (size \div 2 ^ (f - SlLog2)) % SlCount>>

\* Mutant of MappingSearch: the carry into the next first level is dropped.
MappingSearchNoCarry(size) ==
  LET f  == Log2[size]
      r  == size + 2 ^ (f - SlLog2) - 1
  IN  <<f - FlShift, (r \div 2 ^ (f - SlLog2)) % SlCount>>

MappingSearch(size) ==
  LET f  == Log2[size]
      r  == size + 2 ^ (f - SlLog2) - 1
      f2 == f + r \div 2 ^ (f + 1)
  IN  <<f2 - FlShift, (r \div 2 ^ (f2 - SlLog2)) % SlCount>>

(* __make_table: the class of the search for each size up to __table_max,
   computed with __log2 of the rounded size instead of the carry; sizes
   below the minimum block share the first class. *)
TableMax == Granule * (SmallUnits + 2)
TableEntry(size) ==
  IF size < MinBlock THEN <<0, 0>>
  ELSE LET f  == Log2[size]
           r  == size + 2 ^ (f - SlLog2) - 1
           f2 == Log2[r]
       IN  <<f2 - FlShift, (r \div 2 ^ (f2 - SlLog2)) % SlCount>>

(* Where find_free begins. *)
SearchClass(size) == IF size <= TableMax THEN TableEntry(size) ELSE MappingSearch(size)
=============================================================================
