------------------------------ MODULE BuddyOps ------------------------------
(***************************************************************************)
(* The operations of __buddy_list (src/src/free_list.hpp) as functions of  *)
(* the pool's state b, a record with one field per field of the struct:    *)
(*                                                                         *)
(*   tags         block_tags: what starts at each unit                     *)
(*   free         free_lists: per order, the blocks linked in its list     *)
(*   free_mask    the orders whose bit is set                              *)
(*   cache        cache.head: per order, the blocks linked in its cache    *)
(*   cache_count  cache.count                                              *)
(*   allocated    allocated_bytes, in units                                *)
(*                                                                         *)
(* A list is the set of the blocks linked in it: which one is at its head  *)
(* is left open, so what holds here holds for the code's LIFO lists.  The  *)
(* loops of the code (splitting, merging, growing) visit one block of each *)
(* order of a range, so each is written as one update over that range.     *)
(***************************************************************************)
EXTENDS BuddyGeometry, FiniteSets

CONSTANTS
  CacheCap,       (* __cache_cap: cached blocks per order, 0 for none      *)
  CacheMaxOrder   (* __cache_max_order: the largest order that is cached   *)

ASSUME CacheAssumption == CacheCap \in Nat /\ CacheMaxOrder \in Nat

NoTag    == [kind |-> "none",  order |-> 0]
Free(o)  == [kind |-> "free",  order |-> o]
Alloc(o) == [kind |-> "alloc", order |-> o]
Sheet(o) == [kind |-> "sheet", order |-> o]
Tags == [kind : {"none", "free", "alloc", "sheet"}, order : Orders]

(* What a call is given, and the record of a call and its result. *)
Pointers    == Units \union {Null}
OrderInputs == 0 .. MaxOrder

Result(op, order, off) == [op |-> op, order |-> order, off |-> off]
NoResult == Result("none", Null, Null)

PoolShapes ==
  [tags : [Units -> Tags], free : [Orders -> SUBSET Units], free_mask : SUBSET Orders,
   cache : [Orders -> SUBSET Units], cache_count : [Orders -> Int],
   allocated : Int]

-----------------------------------------------------------------------------
(* __setup: no block cached or allocated, the pool seeded with the binary
   decomposition of its size. *)
Fresh ==
  [tags |-> [u \in Units |->
     IF \E o \in Orders : SeedBit(o) /\ SeedOff(o) = u
     THEN Free(CHOOSE o \in Orders : SeedBit(o) /\ SeedOff(o) = u)
     ELSE NoTag],
   free        |-> [o \in Orders |-> IF SeedBit(o) THEN {SeedOff(o)} ELSE {}],
   free_mask   |-> {o \in Orders : SeedBit(o)},
   cache       |-> [o \in Orders |-> {}],
   cache_count |-> [o \in Orders |-> 0],
   allocated   |-> 0]

(* __order_at: the order of the block in use at p, Null (-1) if there is
   none.  The alloc bit is set in sheet tags too. *)
OrderAt(b, p) ==
  IF p \in Units /\ b.tags[p].kind \in {"alloc", "sheet"} /\ b.tags[p].order < MaxOrder
  THEN b.tags[p].order ELSE Null

(* find_free_order: the lowest order at or above o with its mask bit set. *)
FreeOrders(b, o) == {i \in b.free_mask : o <= i}
FindFreeOrder(b, o) ==
  IF FreeOrders(b, o) = {} THEN MaxOrder
  ELSE CHOOSE i \in FreeOrders(b, o) : \A j \in FreeOrders(b, o) : i <= j

(* __take_and_split: blk leaves the list of order from and the right half at
   each order below it, down to target, enters its list. *)
\* Mutant of TakeAndSplit: the loop stops one order above target.
TakeAndSplitShort(b, blk, from, target) ==
  LET halves == target + 1 .. from - 1
      emptied == IF b.free[from] = {blk} THEN {from} ELSE {}
  IN  [b EXCEPT
        !.tags = [u \in Units |->
           IF \E j \in halves : u = blk + OrderSize[j]
           THEN Free(CHOOSE j \in halves : u = blk + OrderSize[j]) ELSE b.tags[u]],
        !.free = [j \in Orders |->
           IF j \in halves THEN b.free[j] \union {blk + OrderSize[j]}
           ELSE IF j = from THEN b.free[j] \ {blk} ELSE b.free[j]],
        !.free_mask = (b.free_mask \ emptied) \union halves]

\* Mutant of TakeAndSplit: the size halved is read before the order drops.
TakeAndSplitHigh(b, blk, from, target) ==
  LET halves == target + 1 .. from
  IN  [b EXCEPT
        !.tags = [u \in Units |->
           IF \E j \in halves : u = blk + OrderSize[j]
           THEN Free(CHOOSE j \in halves : u = blk + OrderSize[j]) ELSE b.tags[u]],
        !.free = [j \in Orders |->
           IF j \in halves THEN (b.free[j] \ {blk}) \union {blk + OrderSize[j]}
           ELSE IF j = from THEN b.free[j] \ {blk} ELSE b.free[j]],
        !.free_mask = b.free_mask \union halves]

\* Mutant of TakeAndSplit: the mask is not cleared for the list it emptied.
TakeAndSplitKeepMask(b, blk, from, target) ==
  LET halves == target .. from - 1
  IN  [b EXCEPT
        !.tags = [u \in Units |->
           IF \E j \in halves : u = blk + OrderSize[j]
           THEN Free(CHOOSE j \in halves : u = blk + OrderSize[j]) ELSE b.tags[u]],
        !.free = [j \in Orders |->
           IF j \in halves THEN b.free[j] \union {blk + OrderSize[j]}
           ELSE IF j = from THEN b.free[j] \ {blk} ELSE b.free[j]],
        !.free_mask = b.free_mask \union halves]

TakeAndSplit(b, blk, from, target) ==
  LET halves == target .. from - 1
      emptied == IF b.free[from] = {blk} THEN {from} ELSE {}
  IN  [b EXCEPT
        !.tags = [u \in Units |->
           IF \E j \in halves : u = blk + OrderSize[j]
           THEN Free(CHOOSE j \in halves : u = blk + OrderSize[j]) ELSE b.tags[u]],
        !.free = [j \in Orders |->
           IF j \in halves THEN b.free[j] \union {blk + OrderSize[j]}
           ELSE IF j = from THEN b.free[j] \ {blk} ELSE b.free[j]],
        !.free_mask = (b.free_mask \ emptied) \union halves]

(* __grant *)
Grant(b, off, o) ==
  [b EXCEPT !.tags = [b.tags EXCEPT ![off] = Alloc(o)],
            !.allocated = b.allocated + OrderSize[o]]

(* The condition under which __merge_and_free's loop goes on at order k for
   a block that started at off. *)
\* Mutant of CanMerge: the loop stops one order below the top.
CanMergeBelowTop(b, off, k) ==
  LET buddy == BuddyOf(Level(off, k), k)
  IN  k < Top - 1 /\ buddy < Total /\ b.tags[buddy] = Free(k)

CanMerge(b, off, k) ==
  LET buddy == BuddyOf(Level(off, k), k)
  IN  k < Top /\ buddy < Total /\ b.tags[buddy] = Free(k)

(* The order at which that loop stops. *)
MergeOrder(b, off, o) ==
  CHOOSE m \in o .. Top :
    /\ ~ CanMerge(b, off, m)
    /\ \A k \in o .. m - 1 : CanMerge(b, off, k)

(* __merge_and_free: at each order passed the buddy leaves its list and the
   tag of the right half of the pair is cleared; the merged block is pushed. *)
MergeAndFree(b, off, o) ==
  LET m      == MergeOrder(b, off, o)
      final  == Level(off, m)
      passed == o .. m - 1
      buddy(k) == BuddyOf(Level(off, k), k)
      right(k) == Level(off, k + 1) + OrderSize[k]
      emptied  == {k \in passed : b.free[k] = {buddy(k)}}
  IN  [b EXCEPT
        !.tags = [u \in Units |->
           IF u = final THEN Free(m)
           ELSE IF \E k \in passed : u = right(k) THEN NoTag ELSE b.tags[u]],
        !.free = [k \in Orders |->
           IF k \in passed THEN b.free[k] \ {buddy(k)}
           ELSE IF k = m THEN b.free[k] \union {final} ELSE b.free[k]],
        !.free_mask = (b.free_mask \ emptied) \union {m}]

(* The order cache: deallocate_order's push, __allocate_order's pop. *)
CacheTakes(b, o) == CacheCap > 0 /\ o <= CacheMaxOrder /\ b.cache_count[o] < CacheCap

CachePush(b, off, o) ==
  [b EXCEPT !.cache = [b.cache EXCEPT ![o] = b.cache[o] \union {off}],
            !.cache_count = [b.cache_count EXCEPT ![o] = @ + 1],
            !.tags = [b.tags EXCEPT ![off] = NoTag]]

\* Mutant of CachePop: the count stays.
CachePopKeepCount(b, off, o) ==
  [b EXCEPT !.cache = [b.cache EXCEPT ![o] = b.cache[o] \ {off}]]

CachePop(b, off, o) ==
  LET rest == b.cache[o] \ {off}
  IN  [b EXCEPT !.cache = [b.cache EXCEPT ![o] = rest],
                !.cache_count = [b.cache_count EXCEPT ![o] =
                                   IF rest = {} THEN 0 ELSE @ - 1]]

(* deallocate_order *)
Discharge(b, o) == [b EXCEPT !.allocated = b.allocated - OrderSize[o]]

DeallocateOrder(b, off, o) ==
  IF CacheTakes(b, o) THEN CachePush(Discharge(b, o), off, o)
  ELSE MergeAndFree(Discharge(b, o), off, o)

(* One iteration of flush_cache: a block leaves the cache of order o and is
   merged; the count is zeroed once that cache is empty. *)
CachedOrders(b) == {o \in Orders : b.cache[o] # {}}

FlushOne(b, off, o) ==
  LET rest == b.cache[o] \ {off}
  IN  MergeAndFree(
        [b EXCEPT !.cache = [b.cache EXCEPT ![o] = rest],
                  !.cache_count = [b.cache_count EXCEPT ![o] = IF rest = {} THEN 0 ELSE @]],
        off, o)

(* grow: the block of order o at off may absorb its right buddies up to want
   when all of them are free; they leave their lists and lose their tags. *)
\* Mutant of CanGrow: the block need not be aligned to the order it grows to.
CanGrowUnaligned(b, off, o, want) ==
  /\ want < MaxOrder
  /\ \A j \in o .. want - 1 :
       off + OrderSize[j] < Total /\ b.tags[off + OrderSize[j]] = Free(j)

CanGrow(b, off, o, want) ==
  /\ want < MaxOrder
  /\ Aligned(off, want)
  /\ \A j \in o .. want - 1 :
       off + OrderSize[j] < Total /\ b.tags[off + OrderSize[j]] = Free(j)

\* Mutant of GrowTo: the units gained are not counted.
GrowToUncounted(b, off, o, want) ==
  LET absorbed == o .. want - 1
  IN  [b EXCEPT
        !.tags = [u \in Units |->
           IF u = off THEN Alloc(want)
           ELSE IF \E j \in absorbed : u = off + OrderSize[j] THEN NoTag ELSE b.tags[u]],
        !.free = [j \in Orders |->
           IF j \in absorbed THEN b.free[j] \ {off + OrderSize[j]} ELSE b.free[j]],
        !.free_mask = b.free_mask \ {j \in absorbed : b.free[j] = {off + OrderSize[j]}}]

GrowTo(b, off, o, want) ==
  LET absorbed == o .. want - 1
  IN  [b EXCEPT
        !.tags = [u \in Units |->
           IF u = off THEN Alloc(want)
           ELSE IF \E j \in absorbed : u = off + OrderSize[j] THEN NoTag ELSE b.tags[u]],
        !.free = [j \in Orders |->
           IF j \in absorbed THEN b.free[j] \ {off + OrderSize[j]} ELSE b.free[j]],
        !.free_mask = b.free_mask \ {j \in absorbed : b.free[j] = {off + OrderSize[j]}},
        !.allocated = b.allocated + (OrderSize[want] - OrderSize[o])]

(* mark_sheet, unmark_sheet: the kind changes, the order bits stay. *)
MarkSheet(b, off)   == [b EXCEPT !.tags = [b.tags EXCEPT ![off] = Sheet(@.order)]]
UnmarkSheet(b, off) == [b EXCEPT !.tags = [b.tags EXCEPT ![off] = Alloc(@.order)]]

(* available(), used() *)
Available(b) == Total - b.allocated

-----------------------------------------------------------------------------
(* The blocks a pool state describes, and the conditions that make it a
   well-formed one. *)
InUseBlocks(b) ==
  {<<u, b.tags[u].order>> : u \in {v \in Units : b.tags[v].kind \in {"alloc", "sheet"}}}
FreeBlocks(b)   == {blk \in Units \X Orders : blk[1] \in b.free[blk[2]]}
CachedBlocks(b) == {blk \in Units \X Orders : blk[1] \in b.cache[blk[2]]}
Blocks(b)       == InUseBlocks(b) \union FreeBlocks(b) \union CachedBlocks(b)
Covered(S)      == {u \in Units : \E blk \in S : u \in Span(blk[1], blk[2])}

(* A tag says free|o exactly at the blocks linked in list o. *)
FreeListsMatchTags(b) ==
  \A u \in Units, o \in Orders : u \in b.free[o] <=> b.tags[u] = Free(o)

(* A cached block bears no tag, and is cached under one order only. *)
CachedUntagged(b) ==
  \A o \in Orders : \A u \in b.cache[o] :
    b.tags[u] = NoTag /\ \A p \in Orders : u \in b.cache[p] => p = o

(* A mask bit is set exactly for the orders whose list is not empty. *)
MaskMatchesLists(b) == b.free_mask = {o \in Orders : b.free[o] # {}}

(* Two free buddies below the top order never stay apart. *)
FullyCoalesced(b) ==
  \A o \in Orders : \A u \in b.free[o] :
    o < Top => BuddyOf(u, o) \notin b.free[o]
=============================================================================
