------------------------------- MODULE TlsfOps -------------------------------
(***************************************************************************)
(* The operations of __tlsf_list (src/src/cache_list.hpp) as functions of  *)
(* its state t, a record with one field per field of the struct:           *)
(*                                                                         *)
(*   hdr        the tlsf_hdr at the start of each block: its size, whether *)
(*              __tlsf_alloc is set, and prev_phys                         *)
(*   heads      the free lists, one sequence of blocks per class, the head *)
(*              of the list first                                          *)
(*   sl, fl     the bits set in sl_bitmap and fl_bitmap                    *)
(*   marks      the blocks whose bit is set in the bitmap of their sheet   *)
(*   count      sheets added                                               *)
(*   allocated  allocated_bytes                                            *)
(*                                                                         *)
(* Sizes and places in a sheet are counted in granules of 16 bytes, the    *)
(* size of a header.  A block is named <<sheet, unit>> by the place of its *)
(* header in the data area of its sheet, units 0 to DataUnits - 1; the two *)
(* sentinels lie at units -1 and DataUnits.  A header that a merge has     *)
(* turned into payload leaves the domain of hdr.                           *)
(***************************************************************************)
EXTENDS TlsfMapping, Sequences

CONSTANTS
  MaxSheets,   (* __max_tlsf_sheets                                        *)
  Sheets       (* the places where the buddy pool may put a sheet          *)

ASSUME MaxSheetsAssumption == MaxSheets \in Nat \ {0}

NullOff  == <<-1, -1>>                \* __null_off
MinUnits == MinBlock \div Granule
Places   == Sheets \X (0 .. DataUnits - 1)

Hdr(size, used, prev) == [size |-> size, used |-> used, prev |-> prev]

ClassOf == [s \in MinUnits .. DataUnits |-> MappingInsert(Granule * s)]
Search  == [s \in 1 .. DataUnits |-> SearchClass(Granule * s)]

(* reset *)
EmptyTlsf ==
  [hdr |-> <<>>, heads |-> [c \in Classes |-> <<>>], sl |-> {}, fl |-> {},
   marks |-> {}, count |-> 0, allocated |-> 0]

NextTo(x, size) == <<x[1], x[2] + size>>
BlockPrev(t, x) == <<x[1], t.hdr[x].prev>>

(* is_free: neither in use nor a sentinel. *)
IsFree(t, x) ==
  IF x[2] \in {-1, DataUnits} THEN FALSE ELSE ~ t.hdr[x].used

(* x->prev_phys = prev, for a block x; the sentinel's is never read. *)
SetPrev(hdr, x, prev) == IF x[2] = DataUnits THEN hdr ELSE [hdr EXCEPT ![x].prev = prev]

Drop(hdr, x) == [y \in DOMAIN hdr \ {x} |-> hdr[y]]

Resized(hdr, x, size) == [hdr EXCEPT ![x].size = size]

(* The header at x is written. *)
Put(hdr, x, e) == [y \in DOMAIN hdr \union {x} |-> IF y = x THEN e ELSE hdr[y]]

-----------------------------------------------------------------------------
(* __clear_if_empty(idx, head_now) *)
\* Mutant of ClearIfEmpty: the first-level bit is left set.
ClearIfEmptySlOnly(t, c) ==
  [t EXCEPT !.sl = IF t.heads[c] = <<>> THEN t.sl \ {c} ELSE t.sl]

ClearIfEmpty(t, c) ==
  LET sl == IF t.heads[c] = <<>> THEN t.sl \ {c} ELSE t.sl
  IN  [t EXCEPT !.sl = sl,
                !.fl = IF \E d \in sl : d[1] = c[1] THEN t.fl ELSE t.fl \ {c[1]}]

(* insert_free: pushed at the head of its list. *)
InsertFree(t, x, size) ==
  LET c == ClassOf[size]
  IN  [t EXCEPT !.heads = [t.heads EXCEPT ![c] = <<x>> \o @],
                !.sl = t.sl \union {c}, !.fl = t.fl \union {c[1]}]

(* remove_free: unlinked wherever it stands. *)
Unlinked(list, x) ==
  LET i == CHOOSE j \in DOMAIN list : list[j] = x
  IN  [j \in 1 .. Len(list) - 1 |-> IF j < i THEN list[j] ELSE list[j + 1]]

RemoveFree(t, x, size) ==
  LET c == ClassOf[size]
  IN  ClearIfEmpty([t EXCEPT !.heads = [t.heads EXCEPT ![c] = Unlinked(@, x)]], c)

\* Mutant of FindExact: the head is taken without looking at its size.
FindExactUnchecked(t, size) ==
  LET c == ClassOf[size] IN IF t.heads[c] # <<>> THEN Head(t.heads[c]) ELSE NullOff

(* __find_exact: only the head of the list of that class is looked at. *)
FindExact(t, size) ==
  LET c == ClassOf[size]
  IN  IF t.heads[c] # <<>> /\ t.hdr[Head(t.heads[c])].size >= size
      THEN Head(t.heads[c]) ELSE NullOff

(* The first list find_free sees at or after class c. *)
Lowest(S) == CHOOSE i \in S : \A j \in S : i <= j
\* Mutant of SeenFrom: the class where the search begins is masked out.
SeenFromNext(t, c) ==
  LET same  == {d[2] : d \in {e \in t.sl : e[1] = c[1] /\ c[2] < e[2]}}
      above == {f \in t.fl : c[1] < f}
  IN  IF same # {} THEN {<<c[1], Lowest(same)>>}
      ELSE IF above # {}
      THEN LET f == Lowest(above) IN {<<f, Lowest({d[2] : d \in {e \in t.sl : e[1] = f}})>>}
      ELSE {}

SeenFrom(t, c) ==
  LET same  == {d[2] : d \in {e \in t.sl : e[1] = c[1] /\ c[2] <= e[2]}}
      above == {f \in t.fl : c[1] < f}
  IN  IF same # {} THEN {<<c[1], Lowest(same)>>}
      ELSE IF above # {}
      THEN LET f == Lowest(above) IN {<<f, Lowest({d[2] : d \in {e \in t.sl : e[1] = f}})>>}
      ELSE {}

(* find_free *)
\* Mutant of FindFree: gives up where __find_exact would still look.
FindFreeNoExact(t, size) ==
  IF Search[size][1] >= FlCount \/ SeenFrom(t, Search[size]) = {} THEN NullOff
  ELSE LET c == CHOOSE d \in SeenFrom(t, Search[size]) : TRUE IN Head(t.heads[c])

FindFree(t, size) ==
  IF Search[size][1] >= FlCount \/ SeenFrom(t, Search[size]) = {} THEN FindExact(t, size)
  ELSE LET c == CHOOSE d \in SeenFrom(t, Search[size]) : TRUE IN Head(t.heads[c])

(* adjusted: a request of n granules of payload with its header, 0 if it
   cannot fit a sheet. *)
Adjusted(n) == IF n = 0 \/ n > DataUnits THEN 0 ELSE n + 1

(* Where allocate(n) takes its block: a request whose header does not fit is
   a size past the last class. *)
Fit(t, n) ==
  IF Adjusted(n) \notin 1 .. DataUnits THEN NullOff ELSE FindFree(t, Adjusted(n))

(* allocate, once it has found x: a block of bs granules, for which need are
   wanted, is split if the rest can be a block. *)
\* Mutant of SplitRest: the block after the rest keeps its old prev_phys.
SplitRestStalePrev(u, x, bs, take) ==
  LET rem == NextTo(x, take)
  IN  InsertFree([u EXCEPT !.hdr = Put(@, rem, Hdr(bs - take, FALSE, x[2]))], rem, bs - take)

SplitRest(u, x, bs, take) ==
  LET rem == NextTo(x, take)
  IN  InsertFree([u EXCEPT !.hdr = Put(SetPrev(@, NextTo(x, bs), rem[2]),
                                       rem, Hdr(bs - take, FALSE, x[2]))], rem, bs - take)

Claim(u, x, take) ==
  [u EXCEPT !.hdr = Put(@, x, Hdr(take, TRUE, @[x].prev)),
            !.marks = @ \union {x}, !.allocated = @ + take]

TakeFrom(t, x, bs, need) ==
  IF bs - need >= MinUnits
  THEN Claim(SplitRest(RemoveFree(t, x, bs), x, bs, need), x, need)
  ELSE Claim(RemoveFree(t, x, bs), x, bs)

TakeAt(t, x, need) == TakeFrom(t, x, t.hdr[x].size, need)
Allocate(t, n)     == TakeAt(t, Fit(t, n), Adjusted(n))

(* owns_len: x is the start of a block in use, by the bitmap of its sheet and
   by its header.  Where no block starts the header is somebody's payload,
   and may say anything: only the bitmap is left to refuse x. *)
Owns(t, x) ==
  /\ x \in t.marks
  /\ x \in DOMAIN t.hdr => /\ t.hdr[x].used /\ t.hdr[x].size >= MinUnits
                           /\ x[2] + t.hdr[x].size <= DataUnits

Payload(t, x) == t.hdr[x].size - 1

(* A free neighbour, taken out of its list, with the granules it gives. *)
Absorbed(t, x) ==
  IF IsFree(t, x)
  THEN [t |-> LET u == RemoveFree(t, x, t.hdr[x].size) IN [u EXCEPT !.hdr = Drop(u.hdr, x)],
        size |-> t.hdr[x].size]
  ELSE [t |-> t, size |-> 0]

(* deallocate: merges with the next block, then with the one before. *)
\* Mutant of Deallocate: the bit in the bitmap stays set.
DeallocateKeepMark(t, x) ==
  LET bs   == t.hdr[x].size
      next == Absorbed([t EXCEPT !.allocated = @ - bs], NextTo(x, bs))
      prev == Absorbed(next.t, BlockPrev(t, x))
      y    == IF prev.size > 0 THEN BlockPrev(t, x) ELSE x
      size == bs + next.size + prev.size
      hdr  == Put(Drop(prev.t.hdr, x), y, Hdr(size, FALSE, t.hdr[y].prev))
  IN  InsertFree([prev.t EXCEPT !.hdr = SetPrev(hdr, NextTo(y, size), y[2])], y, size)

Deallocate(t, x) ==
  LET bs   == t.hdr[x].size
      next == Absorbed([t EXCEPT !.marks = @ \ {x}, !.allocated = @ - bs], NextTo(x, bs))
      prev == Absorbed(next.t, BlockPrev(t, x))
      y    == IF prev.size > 0 THEN BlockPrev(t, x) ELSE x
      size == bs + next.size + prev.size
      hdr  == Put(Drop(prev.t.hdr, x), y, Hdr(size, FALSE, t.hdr[y].prev))
  IN  InsertFree([prev.t EXCEPT !.hdr = SetPrev(hdr, NextTo(y, size), y[2])], y, size)

(* shrink and grow: what they return, and the state they leave when they
   move the end of the block. *)
CanShrink(t, x, n) == Adjusted(n) # 0 /\ Adjusted(n) <= t.hdr[x].size

(* x, with the span granules up to its end or its neighbour's, gets the first
   take of them; the rest is free. *)
MoveEnd(u, x, span, take) ==
  LET w == [u EXCEPT !.hdr = Resized(@, x, take), !.allocated = @ + (take - u.hdr[x].size)]
  IN  IF take = span THEN [w EXCEPT !.hdr = SetPrev(@, NextTo(x, span), x[2])]
      ELSE SplitRest(w, x, span, take)

\* Mutant of Shrink: the rest is not merged with the free block after it.
ShrinkNoMerge(t, x, n) ==
  IF t.hdr[x].size - Adjusted(n) < MinUnits THEN t
  ELSE MoveEnd(t, x, t.hdr[x].size, Adjusted(n))

Shrink(t, x, n) ==
  LET bs   == t.hdr[x].size
      next == Absorbed(t, NextTo(x, bs))
  IN  IF bs - Adjusted(n) < MinUnits THEN t
      ELSE MoveEnd(next.t, x, bs + next.size, Adjusted(n))

CanGrow(t, x, n) ==
  LET next == NextTo(x, t.hdr[x].size)
  IN  /\ Adjusted(n) # 0
      /\ \/ Adjusted(n) <= t.hdr[x].size
         \/ IsFree(t, next) /\ t.hdr[x].size + t.hdr[next].size >= Adjusted(n)

Grow(t, x, n) ==
  LET bs   == t.hdr[x].size
      next == Absorbed(t, NextTo(x, bs))
      span == bs + next.size
  IN  IF Adjusted(n) <= bs THEN t
      ELSE MoveEnd(next.t, x, span,
                   IF span - Adjusted(n) >= MinUnits THEN Adjusted(n) ELSE span)

-----------------------------------------------------------------------------
(* sheet_empty, add_sheet, remove_sheet *)
SheetEmpty(t, s) == LET x == <<s, 0>> IN IsFree(t, x) /\ t.hdr[x].size = DataUnits

AddSheet(t, s) ==
  InsertFree([t EXCEPT !.hdr = Put(@, <<s, 0>>, Hdr(DataUnits, FALSE, -1)),
                       !.marks = {x \in @ : x[1] # s}, !.count = @ + 1],
             <<s, 0>>, DataUnits)

RemoveSheet(t, s) ==
  LET u == RemoveFree(t, <<s, 0>>, DataUnits)
  IN  [u EXCEPT !.hdr = Drop(u.hdr, <<s, 0>>), !.count = @ - 1]

(* largest_free: the head of the last list that is not empty. *)
Highest(S) == CHOOSE i \in S : \A j \in S : j <= i
LargestFree(t) ==
  IF t.fl = {} THEN 0
  ELSE LET f == Highest(t.fl)
           c == <<f, Highest({d[2] : d \in {e \in t.sl : e[1] = f}})>>
       IN  t.hdr[Head(t.heads[c])].size - 1

-----------------------------------------------------------------------------
(* The blocks of a state, and the conditions that make it well formed. *)
SheetsOf(t)   == {x[1] : x \in DOMAIN t.hdr}
UsedBlocks(t) == {x \in DOMAIN t.hdr : t.hdr[x].used}
FreeBlocks(t) == {x \in DOMAIN t.hdr : ~ t.hdr[x].used}

(* From the first unit of a sheet each block ends where the next one begins,
   up to the end sentinel, and prev_phys leads back the same way. *)
PhysicallyLinked(t) ==
  \A x \in DOMAIN t.hdr :
    LET next == NextTo(x, t.hdr[x].size)
        prev == BlockPrev(t, x)
    IN  /\ t.hdr[x].size >= MinUnits
        /\ next[2] = DataUnits \/ next \in DOMAIN t.hdr
        /\ IF x[2] = 0 THEN t.hdr[x].prev = -1
           ELSE prev \in DOMAIN t.hdr /\ NextTo(prev, t.hdr[prev].size) = x

FreeBlocksApart(t) ==
  \A x \in FreeBlocks(t) : ~ IsFree(t, NextTo(x, t.hdr[x].size))

(* Every free block is linked once, in the list of its class, and the two
   bitmaps name the lists that are not empty. *)
ListsHoldFreeBlocks(t) ==
  /\ \A c \in Classes :
       /\ \A i, j \in DOMAIN t.heads[c] : t.heads[c][i] = t.heads[c][j] => i = j
       /\ {t.heads[c][i] : i \in DOMAIN t.heads[c]} =
            {x \in FreeBlocks(t) : ClassOf[t.hdr[x].size] = c}
  /\ t.sl = {c \in Classes : t.heads[c] # <<>>}
  /\ t.fl = {c[1] : c \in t.sl}
=============================================================================
