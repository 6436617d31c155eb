------------------------------- MODULE Buddy -------------------------------
(***************************************************************************)
(* One buddy pool and the calls made on it (src/src/free_list.hpp).        *)
(*                                                                         *)
(* Every call is one action, except that flush_cache() returns its blocks  *)
(* one iteration at a time: while pending names the call that is flushing, *)
(* the only steps are the iterations of that loop and the end of the call. *)
(***************************************************************************)
EXTENDS BuddyOps

CONSTANT SheetOrder   (* order of the blocks a region marks as TLSF sheets *)

ASSUME SheetOrderAssumption == SheetOrder \in Orders

VARIABLES
  b,        (* the pool: see BuddyOps                                       *)
  pending,  (* the call that is inside flush_cache(), Idle if none is       *)
  ret       (* the call that returned last and its result                   *)

vars == <<b, pending, ret>>

Idle        == [op |-> "none", order |-> 0]
Calls       == {"none", "allocate", "largest_free"}

TypeOK ==
  /\ b \in PoolShapes
  /\ pending \in [op : Calls, order : Orders]
  /\ ret \in [op : {"none", "allocate", "deallocate", "grow", "largest_free"},
              order : OrderInputs \union {Null}, off : Pointers]

Init == b = Fresh /\ pending = Idle /\ ret = NoResult

-----------------------------------------------------------------------------
(* allocate, allocate_aligned: __allocate_order(o). *)
AllocateTooLarge(o) ==
  /\ o >= MaxOrder
  /\ ret' = Result("allocate", o, Null)
  /\ UNCHANGED <<b, pending>>

CacheHit(o) == CacheCap > 0 /\ o <= CacheMaxOrder /\ b.cache[o] # {}

AllocateCached(o) ==
  /\ o < MaxOrder /\ CacheHit(o)
  /\ \E blk \in b.cache[o] :
       /\ b'   = Grant(CachePop(b, blk, o), blk, o)
       /\ ret' = Result("allocate", o, blk)
  /\ UNCHANGED pending

SplitFrom(o) ==
  LET from == FindFreeOrder(b, o)
  IN  /\ from < MaxOrder
      /\ \E blk \in b.free[from] :
           /\ b'   = Grant(TakeAndSplit(b, blk, from, o), blk, o)
           /\ ret' = Result("allocate", o, blk)

AllocateSplit(o) ==
  /\ o < MaxOrder /\ ~ CacheHit(o)
  /\ SplitFrom(o)
  /\ UNCHANGED pending

\* Mutant of AllocateExhausted: gives up without flushing the cache.
AllocateExhaustedNoFlush(o) ==
  /\ o < MaxOrder /\ ~ CacheHit(o)
  /\ FindFreeOrder(b, o) >= MaxOrder
  /\ ret' = Result("allocate", o, Null)
  /\ UNCHANGED <<b, pending>>

AllocateExhausted(o) ==
  /\ o < MaxOrder /\ ~ CacheHit(o)
  /\ FindFreeOrder(b, o) >= MaxOrder
  /\ IF CacheCap > 0
     THEN pending' = [op |-> "allocate", order |-> o] /\ UNCHANGED ret
     ELSE ret' = Result("allocate", o, Null) /\ UNCHANGED pending
  /\ UNCHANGED b

Allocate(o) ==
  /\ pending = Idle
  /\ AllocateTooLarge(o) \/ AllocateCached(o) \/ AllocateSplit(o) \/ AllocateExhausted(o)

(* largest_free: flush, then read the top bit of the mask. *)
LargestFree ==
  /\ pending = Idle
  /\ pending' = [op |-> "largest_free", order |-> 0]
  /\ UNCHANGED <<b, ret>>

(* flush_cache: its loop goes up the orders. *)
FlushStep ==
  /\ pending # Idle
  /\ \E o \in CachedOrders(b) :
       /\ \A p \in CachedOrders(b) : o <= p
       /\ \E blk \in b.cache[o] : b' = FlushOne(b, blk, o)
  /\ UNCHANGED <<pending, ret>>

\* Mutant of AllocateRetry: flushes again instead of giving up.
AllocateRetryForever ==
  /\ pending.op = "allocate" /\ CachedOrders(b) = {}
  /\ SplitFrom(pending.order)
  /\ pending' = Idle

AllocateRetry ==
  /\ pending.op = "allocate" /\ CachedOrders(b) = {}
  /\ pending' = Idle
  /\ \/ SplitFrom(pending.order)
     \/ /\ FindFreeOrder(b, pending.order) >= MaxOrder
        /\ ret' = Result("allocate", pending.order, Null)
        /\ UNCHANGED b

LargestFreeAnswer ==
  /\ pending.op = "largest_free" /\ CachedOrders(b) = {}
  /\ pending' = Idle
  /\ ret' = Result("largest_free",
              IF b.free_mask = {} THEN Null
              ELSE CHOOSE o \in b.free_mask : \A p \in b.free_mask : p <= o, Null)
  /\ UNCHANGED b

(* deallocate: a pointer that is not the start of a block in use is refused. *)
Deallocate(p) ==
  LET o == OrderAt(b, p)
  IN  /\ pending = Idle
      /\ ret' = Result("deallocate", o, IF o = Null THEN Null ELSE p)
      /\ IF o = Null THEN UNCHANGED b ELSE b' = DeallocateOrder(b, p, o)
      /\ UNCHANGED pending

(* grow(p, n) with want = order_for_size(n). *)
Grow(p, want) ==
  LET o    == OrderAt(b, p)
      size == IF o = Null THEN Null
              ELSE IF want <= o THEN o
              ELSE IF CanGrow(b, p, o, want) THEN want ELSE Null
  IN  /\ pending = Idle
      /\ ret' = Result("grow", size, IF size = Null THEN Null ELSE p)
      /\ IF o # Null /\ size > o THEN b' = GrowTo(b, p, o, want) ELSE UNCHANGED b
      /\ UNCHANGED pending

(* The region marks a block it has just been granted, and unmarks it before
   it gives the block back. *)
Mark(p) ==
  /\ pending = Idle
  /\ b.tags[p] = Alloc(SheetOrder)
  /\ b' = MarkSheet(b, p)
  /\ UNCHANGED <<pending, ret>>

Unmark(p) ==
  /\ pending = Idle
  /\ b.tags[p] = Sheet(SheetOrder)
  /\ b' = UnmarkSheet(b, p)
  /\ UNCHANGED <<pending, ret>>

(* reset: __setup(false), whatever is still allocated. *)
Reset ==
  /\ pending = Idle
  /\ b' = Fresh /\ ret' = NoResult
  /\ UNCHANGED pending

Next ==
  \/ \E o \in OrderInputs : Allocate(o)
  \/ LargestFree
  \/ FlushStep
  \/ AllocateRetry
  \/ LargestFreeAnswer
  \/ \E p \in Pointers : Deallocate(p)
  \/ \E p \in Pointers, want \in OrderInputs : Grow(p, want)
  \/ \E p \in Units : Mark(p) \/ Unmark(p)
  \/ Reset

(* The thread that entered flush_cache() runs the loop to its end. *)
Fairness == WF_vars(FlushStep \/ AllocateRetry \/ LargestFreeAnswer)

Spec == Init /\ [][Next]_vars /\ Fairness

-----------------------------------------------------------------------------
(* The free, cached and used blocks cut the whole pool into aligned blocks
   that never overlap, after any mix of splits, merges, growth in place and
   cache traffic: no byte is lost, none is handed out twice. *)
BlocksTilePool == Tiles(Blocks(b))

(* What the tags, the lists, the caches and the mask say of a block agrees:
   merging and growing trust the tag to find a block in its list, allocation
   trusts the mask to find a list that is not empty. *)
ListsMatchTags == FreeListsMatchTags(b) /\ CachedUntagged(b) /\ MaskMatchesLists(b)

(* Two free buddies are always merged, also while the cache is half flushed:
   the premise of every "no block of that order is left". *)
Coalesced == FullyCoalesced(b)

(* allocated_bytes, on which available() and used() rest, counts the units in
   blocks in use, although it is only ever adjusted by differences; available()
   counts those in free and cached blocks. *)
BytesAccounted ==
  /\ b.allocated = Cardinality(Covered(InUseBlocks(b)))
  /\ Available(b) = Cardinality(Covered(FreeBlocks(b) \union CachedBlocks(b)))

(* cache.count is the number of blocks in the cache list whenever no flush is
   under way.  Between the iterations of a flush it lags behind: it is never
   less than the length of the list, and zero once the list is empty.  The cap
   is one on the list at all times. *)
CacheCounted ==
  \A o \in Orders :
    /\ Cardinality(b.cache[o]) <= b.cache_count[o]
    /\ b.cache_count[o] <= CacheCap
    /\ b.cache[o] = {} => b.cache_count[o] = 0
    /\ pending = Idle => b.cache_count[o] = Cardinality(b.cache[o])

(* The pool keeps the promise of BlockStore: blocks never overlap, only the
   block named by a call changes, no allocation fails while an aligned run of
   free or cached units is left, and largest_free() is exact. *)
Store == INSTANCE BlockStore WITH live <- InUseBlocks(b)
ImplementsBlockStore == Store!Init /\ [][Store!Next]_<<InUseBlocks(b), ret>>

(* A call that flushes the cache returns: the flush does not feed the cache
   it empties, and an allocation that fails after it gives up. *)
FlushReturns == pending # Idle ~> pending = Idle
=============================================================================
