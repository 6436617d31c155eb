----------------------------- MODULE BuddyProofs ------------------------------
(***************************************************************************)
(* The theorems about Buddy, for every pool size, cache capacity and sheet *)
(* order.  The inductive invariant is WellFormed (BuddyOpsProofs): no      *)
(* conjunct of it is inductive alone, because merging trusts the tags to   *)
(* find blocks in the lists, and the tiling to know that a merged block    *)
(* overlaps nothing.                                                       *)
(*                                                                         *)
(* The second part is about Layout: how memory becomes a pool, what is     *)
(* asked of the system when one is too small, and the length announced.    *)
(*                                                                         *)
(* The third part is about BuddyLinks: the doubly linked lists through the *)
(* free memory keep their links intact and implement Buddy.                *)
(***************************************************************************)
EXTENDS Buddy, Layout, BuddyLinks, BuddyOpsProofs

IInv ==
  /\ TypeOK
  /\ WellFormed(b)

LEMMA InitIInv == Init => IInv
<1>1. SUFFICES ASSUME Init PROVE IInv
  OBVIOUS
<1>2. WellFormed(b)
  BY <1>1, FreshPool DEF Init
<1>3. TypeOK
  BY <1>1, <1>2, OrderSizeFacts
     DEF Init, TypeOK, WellFormed, Idle, NoResult, Result, Calls, Pointers, Null
<1>4. QED BY <1>2, <1>3 DEF IInv

(* The order OrderAt reports is that of the block in use at p. *)
LEMMA OrderAtFacts ==
  ASSUME NEW c \in PoolShapes, NEW p \in Pointers
  PROVE  \/ OrderAt(c, p) = Null
         \/ /\ p \in Units /\ OrderAt(c, p) \in Orders
            /\ c.tags[p] \in {Alloc(OrderAt(c, p)), Sheet(OrderAt(c, p))}
<1>1. CASE p \in Units /\ c.tags[p].kind \in {"alloc", "sheet"} /\ c.tags[p].order < MaxOrder
  <2>1. OrderAt(c, p) = c.tags[p].order
    BY <1>1 DEF OrderAt
  <2>2. c.tags[p] \in Tags
    BY <1>1 DEF PoolShapes
  <2>3. QED BY <1>1, <2>1, <2>2 DEF Tags, Alloc, Sheet
<1>2. CASE ~ (p \in Units /\ c.tags[p].kind \in {"alloc", "sheet"} /\ c.tags[p].order < MaxOrder)
  <2>1. OrderAt(c, p) = Null
    BY <1>2 DEF OrderAt
  <2>2. QED BY <2>1
<1>3. QED BY <1>1, <1>2

(* What a call returns, in the terms of TypeOK. *)
Results == [op : {"none", "allocate", "deallocate", "grow", "largest_free"},
            order : OrderInputs \union {Null}, off : Pointers]

LEMMA SplitFromWell ==
  ASSUME WellFormed(b), NEW o \in Orders, SplitFrom(o)
  PROVE  /\ WellFormed(b') /\ ret' \in Results
         /\ FullyCoalesced(b) => FullyCoalesced(b')
<1> DEFINE from == FindFreeOrder(b, o)
<1>1. from < MaxOrder
  BY DEF SplitFrom
<1>2. from \in Orders /\ o <= from
  BY <1>1, FindFreeOrderFacts
<1>3. PICK blk \in b.free[from] :
        /\ b' = Grant(TakeAndSplit(b, blk, from, o), blk, o)
        /\ ret' = Result("allocate", o, blk)
  BY DEF SplitFrom
<1>4. WellFormed(b')
  BY <1>2, <1>3, SplitGrant
<1>5. FullyCoalesced(b) => FullyCoalesced(b')
  BY <1>1, <1>3, SplitCoalesced
<1>6. blk \in Units /\ o \in OrderInputs
  <2>1. blk \in Units
    BY <1>2, <1>3 DEF WellFormed, PoolShapes
  <2>2. o \in OrderInputs
    BY OrderSizeAssumption DEF OrderInputs, Orders
  <2>3. QED BY <2>1, <2>2
<1>7. QED BY <1>3, <1>4, <1>5, <1>6 DEF Result, Results, Pointers

-----------------------------------------------------------------------------
(* One lemma for all the calls: each keeps the pool well formed and
   coalesced, and leaves pending and ret in their types. *)
LEMMA StepIInv ==
  ASSUME IInv, [Next]_vars
  PROVE  IInv' /\ (FullyCoalesced(b) => FullyCoalesced(b'))
<1> DEFINE Kept == /\ WellFormed(b')
                   /\ pending' \in [op : Calls, order : Orders]
                   /\ ret' \in Results
                   /\ FullyCoalesced(b) => FullyCoalesced(b')
<1>1. /\ WellFormed(b) /\ b \in PoolShapes
      /\ pending \in [op : Calls, order : Orders] /\ ret \in Results
  BY DEF IInv, TypeOK, WellFormed, Results
<1>2. SUFFICES Kept
  BY DEF IInv, TypeOK, WellFormed, Results
<1>3. Idle \in [op : Calls, order : Orders]
  BY OrderSizeFacts DEF Idle, Calls
<1>4. Orders \subseteq OrderInputs /\ Orders \subseteq Nat /\ MaxOrder \in Nat
  BY OrderSizeAssumption DEF Orders, OrderInputs
<1>5. ASSUME NEW o \in OrderInputs, Allocate(o) PROVE Kept
  <2>1. ASSUME o < MaxOrder PROVE o \in Orders
    BY <1>4, <2>1 DEF OrderInputs, Orders
  <2>2. CASE AllocateTooLarge(o)
    BY <1>1, <2>2 DEF AllocateTooLarge, Result, Results, Pointers
  <2>3. CASE AllocateCached(o)
    <3>1. o \in Orders /\ pending' = pending
      BY <2>1, <2>3 DEF AllocateCached
    <3>2. PICK blk \in b.cache[o] :
            /\ b'   = Grant(CachePop(b, blk, o), blk, o)
            /\ ret' = Result("allocate", o, blk)
      BY <2>3 DEF AllocateCached
    <3>3. WellFormed(b') /\ (FullyCoalesced(b) => FullyCoalesced(b'))
      BY <1>1, <3>1, <3>2, PopGrant
    <3>4. blk \in Units
      BY <1>1, <3>1, <3>2 DEF PoolShapes
    <3>5. QED BY <1>1, <3>1, <3>2, <3>3, <3>4 DEF Result, Results, Pointers
  <2>4. CASE AllocateSplit(o)
    <3>1. o \in Orders /\ pending' = pending /\ SplitFrom(o)
      BY <2>1, <2>4 DEF AllocateSplit
    <3>2. QED BY <1>1, <3>1, SplitFromWell
  <2>5. CASE AllocateExhausted(o)
    <3>1. o \in Orders /\ b' = b
      BY <2>1, <2>5 DEF AllocateExhausted
    <3>2. /\ pending' \in {pending, [op |-> "allocate", order |-> o]}
          /\ ret' \in {ret, Result("allocate", o, Null)}
      BY <2>5 DEF AllocateExhausted
    <3>3. [op |-> "allocate", order |-> o] \in [op : Calls, order : Orders]
      BY <3>1 DEF Calls
    <3>4. Result("allocate", o, Null) \in Results
      BY DEF Result, Results, Pointers
    <3>5. QED BY <1>1, <3>1, <3>2, <3>3, <3>4
  <2>6. QED BY <1>5, <2>2, <2>3, <2>4, <2>5 DEF Allocate
<1>6. CASE LargestFree
  BY <1>1, <1>6, OrderSizeFacts DEF LargestFree, Calls
<1>7. CASE FlushStep
  <2>0. PICK o \in Orders : \E blk \in b.cache[o] : b' = FlushOne(b, blk, o)
    BY <1>7 DEF FlushStep, CachedOrders
  <2>1. PICK blk \in b.cache[o] : b' = FlushOne(b, blk, o)
    BY <2>0
  <2>2. WellFormed(b') /\ (FullyCoalesced(b) => FullyCoalesced(b'))
    BY <1>1, <2>1, FlushWell
  <2>3. pending' = pending /\ ret' = ret
    BY <1>7 DEF FlushStep
  <2>4. QED BY <1>1, <2>2, <2>3
<1>8. CASE AllocateRetry
  <2>1. pending' = Idle /\ pending.order \in Orders
    BY <1>1, <1>8 DEF AllocateRetry
  <2>2. CASE SplitFrom(pending.order)
    BY <1>1, <1>3, <2>1, <2>2, SplitFromWell
  <2>3. CASE b' = b /\ ret' = Result("allocate", pending.order, Null)
    BY <1>1, <1>3, <1>4, <2>1, <2>3 DEF Result, Results, Pointers
  <2>4. QED BY <1>8, <2>2, <2>3 DEF AllocateRetry
<1>9. CASE LargestFreeAnswer
  <2>1. b' = b /\ pending' = Idle
    BY <1>9 DEF LargestFreeAnswer
  <2>2. ret' \in Results
    <3>1. b.free_mask \subseteq Orders
      BY <1>1 DEF PoolShapes
    <3>2. CASE b.free_mask = {}
      BY <1>9, <3>2 DEF LargestFreeAnswer, Result, Results, Pointers
    <3>3. CASE b.free_mask # {}
      <4> DEFINE top == CHOOSE o \in b.free_mask : \A p \in b.free_mask : p <= o
      <4>2. \E o \in b.free_mask : \A p \in b.free_mask : p <= o
        <5> DEFINE T == {Top - p : p \in b.free_mask}
        <5>1. T \subseteq Nat /\ T # {}
          <6>1. \A p \in Orders : Top - p \in Nat
            BY OrderSizeAssumption DEF Orders, Top
          <6>2. QED BY <3>1, <3>3, <6>1
        <5>2. PICK t \in T : \A s \in T : t <= s
          BY <5>1, LeastElement
        <5>3. PICK o \in b.free_mask : t = Top - o
          BY <5>2
        <5>4. \A p \in b.free_mask : Top - o <= Top - p
          BY <5>2, <5>3
        <5>5. \A p \in b.free_mask : p \in Nat /\ o \in Nat /\ Top \in Int
          <6>1. Top \in Int
            BY OrderSizeAssumption DEF Top
          <6>2. b.free_mask \subseteq Nat
            BY <1>4, <3>1
          <6>3. QED BY <5>3, <6>1, <6>2
        <5>6. \A p \in b.free_mask : p <= o
          BY <5>4, <5>5
        <5>7. QED BY <5>3, <5>6
      <4>3. top \in Orders
        BY <3>1, <4>2
      <4>4. ret' = Result("largest_free", top, Null)
        BY <1>9, <3>3 DEF LargestFreeAnswer
      <4>5. QED BY <1>4, <4>3, <4>4 DEF Result, Results, Pointers
    <3>4. QED BY <3>2, <3>3
  <2>3. QED BY <1>1, <1>3, <2>1, <2>2
<1>10. ASSUME NEW p \in Pointers, Deallocate(p) PROVE Kept
  <2> DEFINE o == OrderAt(b, p)
  <2>1. /\ pending' = pending
        /\ ret' = Result("deallocate", o, IF o = Null THEN Null ELSE p)
        /\ o = Null => b' = b
        /\ o # Null => b' = DeallocateOrder(b, p, o)
    BY <1>10 DEF Deallocate
  <2>2. CASE o = Null
    BY <1>1, <2>1, <2>2 DEF Result, Results, Pointers
  <2>3. CASE o # Null
    <3>1. p \in Units /\ o \in Orders /\ b.tags[p] \in {Alloc(o), Sheet(o)}
      BY <1>1, <2>3, OrderAtFacts
    <3>2. WellFormed(b') /\ (FullyCoalesced(b) => FullyCoalesced(b'))
      BY <1>1, <2>1, <2>3, <3>1, DeallocateWell
    <3>3. ret' \in Results
      BY <1>4, <2>1, <2>3, <3>1 DEF Result, Results, Pointers
    <3>4. QED BY <1>1, <2>1, <3>2, <3>3
  <2>4. QED BY <2>2, <2>3
<1>11. ASSUME NEW p \in Pointers, NEW want \in OrderInputs, Grow(p, want) PROVE Kept
  <2> DEFINE o == OrderAt(b, p)
             size == IF o = Null THEN Null
                     ELSE IF want <= o THEN o
                     ELSE IF CanGrow(b, p, o, want) THEN want ELSE Null
  <2>1. /\ pending' = pending
        /\ ret' = Result("grow", size, IF size = Null THEN Null ELSE p)
        /\ o # Null /\ size > o => b' = GrowTo(b, p, o, want)
        /\ ~ (o # Null /\ size > o) => b' = b
    BY <1>11 DEF Grow
  <2>2. o = Null \/ (p \in Units /\ o \in Orders /\ b.tags[p] \in {Alloc(o), Sheet(o)})
    BY <1>1, OrderAtFacts
  <2>3. ret' \in Results
    BY <1>4, <2>1, <2>2 DEF Result, Results, Pointers
  <2>4. CASE o # Null /\ size > o
    <3>1. o \in Nat /\ want \in Int /\ Null = -1
      <4>1. o \in Orders
        BY <2>2, <2>4
      <4>2. o \in Nat
        BY <1>4, <4>1
      <4>3. want \in Int /\ Null = -1
        BY DEF OrderInputs, Null
      <4>4. QED BY <4>2, <4>3
    <3>2. CanGrow(b, p, o, want) /\ o < want
      BY <2>4, <3>1
    <3>3. want \in Orders
      BY <3>1, <3>2, <1>4 DEF CanGrow, Orders
    <3>4. WellFormed(b') /\ (FullyCoalesced(b) => FullyCoalesced(b'))
      BY <1>1, <2>1, <2>2, <2>4, <3>2, <3>3, GrowWell
    <3>5. QED BY <1>1, <2>1, <2>3, <3>4
  <2>5. CASE ~ (o # Null /\ size > o)
    BY <1>1, <2>1, <2>3, <2>5
  <2>6. QED BY <2>4, <2>5
<1>12. ASSUME NEW p \in Units, Mark(p) \/ Unmark(p) PROVE Kept
  <2>1. b.tags[p] \in {Alloc(SheetOrder), Sheet(SheetOrder)}
        /\ b' \in {MarkSheet(b, p), UnmarkSheet(b, p)} /\ pending' = pending /\ ret' = ret
    BY <1>12 DEF Mark, Unmark
  <2>2. WellFormed(b') /\ (FullyCoalesced(b) => FullyCoalesced(b'))
    BY <1>1, <2>1, SheetOrderAssumption, MarkWell
  <2>3. QED BY <1>1, <2>1, <2>2
<1>13. CASE Reset
  BY <1>1, <1>13, FreshPool DEF Reset, NoResult, Result, Results, Pointers
<1>14. CASE UNCHANGED vars
  BY <1>1, <1>14 DEF vars
<1>15. QED
  BY <1>5, <1>6, <1>7, <1>8, <1>9, <1>10, <1>11, <1>12, <1>13, <1>14 DEF Next

-----------------------------------------------------------------------------
(* Every reachable pool is well formed. *)
THEOREM Invariance == Spec => []IInv
<1>1. IInv /\ [Next]_vars => IInv'
  BY StepIInv
<1>2. QED BY InitIInv, <1>1, PTL DEF Spec

(* The state keeps its types: tags, lists and masks never name a unit or an
   order outside the pool. *)
THEOREM TypeCorrect == Spec => []TypeOK
<1>1. IInv => TypeOK
  BY DEF IInv
<1>2. QED BY Invariance, <1>1, PTL

(* The blocks always cut the whole pool: nothing is lost, nothing is handed
   out twice (allocate, deallocate, grow and flush_cache together). *)
THEOREM Tiling == Spec => []BlocksTilePool
<1>1. IInv => BlocksTilePool
  BY DEF IInv, WellFormed, BlocksTilePool
<1>2. QED BY Invariance, <1>1, PTL

(* Tags, lists, caches and mask always agree. *)
THEOREM Agreement == Spec => []ListsMatchTags
<1>1. IInv => ListsMatchTags
  BY DEF IInv, WellFormed, ListsMatchTags
<1>2. QED BY Invariance, <1>1, PTL

(* No two free buddies stay apart, not even while the cache is flushed. *)
THEOREM Coalescing == Spec => []Coalesced
<1>1. Init => Coalesced
  BY FreshPool DEF Init, Coalesced
<1>2. IInv /\ Coalesced /\ [Next]_vars => Coalesced'
  BY StepIInv DEF Coalesced
<1>3. QED BY Invariance, <1>1, <1>2, PTL DEF Spec

-----------------------------------------------------------------------------
(***************************************************************************)
(* The counts of the order cache, for every capacity.  The count is kept   *)
(* beside the list, and a flush zeroes it only when the list has become    *)
(* empty: while a flush is under way the two differ.  What survives the    *)
(* middle of a flush is CacheWell; equality is regained because the call   *)
(* returns only when every cache is empty.                                 *)
(***************************************************************************)
CacheWell(c) == \A o \in Orders :
  /\ IsFiniteSet(c.cache[o])
  /\ Cardinality(c.cache[o]) <= c.cache_count[o]
  /\ c.cache_count[o] \in 0 .. CacheCap
  /\ c.cache[o] = {} => c.cache_count[o] = 0

Counted(c) == \A o \in Orders : c.cache_count[o] = Cardinality(c.cache[o])

CInv ==
  /\ CacheWell(b)
  /\ pending = Idle => Counted(b)

(* Splitting, granting, merging, growing and marking leave the cache alone. *)
SameCacheIn(c, d) == d.cache = c.cache /\ d.cache_count = c.cache_count

LEMMA SplitLeavesCache ==
  ASSUME NEW c \in PoolShapes, NEW u, NEW o, NEW p
  PROVE  SameCacheIn(c, Grant(TakeAndSplit(c, u, p, o), u, o))
BY DEF SameCacheIn, Grant, TakeAndSplit, PoolShapes

LEMMA MergeLeavesCache ==
  ASSUME NEW c \in PoolShapes, NEW u, NEW o
  PROVE  SameCacheIn(c, MergeAndFree(c, u, o))
BY DEF SameCacheIn, MergeAndFree, PoolShapes

LEMMA GrowLeavesCache ==
  ASSUME NEW c \in PoolShapes, NEW u, NEW o, NEW p
  PROVE  SameCacheIn(c, GrowTo(c, u, o, p))
BY DEF SameCacheIn, GrowTo, PoolShapes

LEMMA MarkLeavesCache ==
  ASSUME NEW c \in PoolShapes, NEW u
  PROVE  SameCacheIn(c, MarkSheet(c, u)) /\ SameCacheIn(c, UnmarkSheet(c, u))
BY DEF SameCacheIn, MarkSheet, UnmarkSheet, PoolShapes

LEMMA SameCache ==
  ASSUME NEW c, NEW d, SameCacheIn(c, d)
  PROVE  (CacheWell(c) => CacheWell(d)) /\ (Counted(c) => Counted(d))
BY DEF CacheWell, Counted, SameCacheIn

(* A call that finds every cache empty finds every count zero. *)
LEMMA EmptyCounted ==
  ASSUME NEW c, CacheWell(c), CachedOrders(c) = {}
  PROVE  Counted(c)
<1>1. SUFFICES ASSUME NEW o \in Orders
               PROVE  c.cache_count[o] = Cardinality(c.cache[o])
  BY DEF Counted
<1>2. c.cache[o] = {}
  BY DEF CachedOrders
<1>3. QED BY <1>2, FS_EmptySet DEF CacheWell

LEMMA FreshCounted == CacheWell(Fresh) /\ Counted(Fresh)
<1>1. ASSUME NEW o \in Orders
      PROVE  Fresh.cache[o] = {} /\ Fresh.cache_count[o] = 0
  BY DEF Fresh
<1>2. 0 \in 0 .. CacheCap /\ IsFiniteSet({}) /\ Cardinality({}) = 0
  BY CacheAssumption, FS_EmptySet
<1>3. ASSUME NEW o \in Orders
      PROVE  /\ IsFiniteSet(Fresh.cache[o])
             /\ Cardinality(Fresh.cache[o]) = 0
             /\ Fresh.cache_count[o] = 0
  BY <1>1, <1>2
<1>4. CacheWell(Fresh)
  <2>1. SUFFICES ASSUME NEW o \in Orders
                 PROVE  /\ IsFiniteSet(Fresh.cache[o])
                        /\ Cardinality(Fresh.cache[o]) <= Fresh.cache_count[o]
                        /\ Fresh.cache_count[o] \in 0 .. CacheCap
                        /\ Fresh.cache[o] = {} => Fresh.cache_count[o] = 0
    BY DEF CacheWell
  <2>2. IsFiniteSet(Fresh.cache[o]) /\ Cardinality(Fresh.cache[o]) = 0 /\ Fresh.cache_count[o] = 0
    BY <1>3
  <2>3. QED BY <2>2, <1>2
<1>5. QED BY <1>3, <1>4 DEF Counted

-----------------------------------------------------------------------------
(* A push is made below the cap, of a block that is not in the cache. *)
LEMMA PushCounted ==
  ASSUME NEW c \in PoolShapes, CacheWell(c), Counted(c),
         NEW o \in Orders, CacheTakes(c, o), NEW off, off \notin c.cache[o]
  PROVE  CacheWell(CachePush(c, off, o)) /\ Counted(CachePush(c, off, o))
<1> DEFINE d == CachePush(c, off, o)
<1>1. /\ d.cache = [c.cache EXCEPT ![o] = c.cache[o] \union {off}]
      /\ d.cache_count = [c.cache_count EXCEPT ![o] = @ + 1]
  BY DEF CachePush, PoolShapes
<1>2. /\ DOMAIN c.cache = Orders /\ DOMAIN c.cache_count = Orders
  BY DEF PoolShapes
<1>3. /\ IsFiniteSet(c.cache[o]) /\ c.cache_count[o] \in 0 .. CacheCap
      /\ c.cache_count[o] = Cardinality(c.cache[o])
  BY DEF CacheWell, Counted
<1>4. /\ IsFiniteSet(c.cache[o] \union {off})
      /\ Cardinality(c.cache[o] \union {off}) = Cardinality(c.cache[o]) + 1
  BY <1>3, FS_AddElement
<1>5. c.cache_count[o] + 1 \in 0 .. CacheCap
  BY <1>3, CacheAssumption DEF CacheTakes
<1>6. ASSUME NEW p \in Orders
      PROVE  /\ IsFiniteSet(d.cache[p]) /\ Cardinality(d.cache[p]) <= d.cache_count[p]
             /\ d.cache_count[p] \in 0 .. CacheCap
             /\ d.cache[p] = {} => d.cache_count[p] = 0
             /\ d.cache_count[p] = Cardinality(d.cache[p])
  <2>1. CASE p = o
    <3>1. d.cache[p] = c.cache[o] \union {off} /\ d.cache_count[p] = c.cache_count[o] + 1
      BY <1>1, <1>2, <2>1
    <3>2. d.cache[p] # {}
      BY <3>1
    <3>3. QED BY <1>3, <1>4, <1>5, <3>1, <3>2
  <2>2. CASE p # o
    <3>1. d.cache[p] = c.cache[p] /\ d.cache_count[p] = c.cache_count[p]
      BY <1>1, <1>2, <2>2
    <3>2. QED BY <3>1 DEF CacheWell, Counted
  <2>3. QED BY <2>1, <2>2
<1>7. QED BY <1>6 DEF CacheWell, Counted

LEMMA PopCounted ==
  ASSUME NEW c \in PoolShapes, CacheWell(c), Counted(c),
         NEW o \in Orders, NEW off \in c.cache[o]
  PROVE  LET d == Grant(CachePop(c, off, o), off, o)
         IN  CacheWell(d) /\ Counted(d)
<1> DEFINE d == Grant(CachePop(c, off, o), off, o)
           rest == c.cache[o] \ {off}
<1>1. /\ d.cache = [c.cache EXCEPT ![o] = rest]
      /\ d.cache_count = [c.cache_count EXCEPT ![o] = IF rest = {} THEN 0 ELSE @ - 1]
  BY DEF Grant, CachePop, PoolShapes
<1>2. /\ DOMAIN c.cache = Orders /\ DOMAIN c.cache_count = Orders
  BY DEF PoolShapes
<1>3. /\ IsFiniteSet(c.cache[o]) /\ c.cache_count[o] \in 0 .. CacheCap
      /\ c.cache_count[o] = Cardinality(c.cache[o])
  BY DEF CacheWell, Counted
<1>4. /\ IsFiniteSet(rest) /\ Cardinality(rest) = Cardinality(c.cache[o]) - 1
      /\ Cardinality(rest) \in Nat
  BY <1>3, FS_RemoveElement, FS_CardinalityType
<1>5. rest = {} => Cardinality(rest) = 0
  BY FS_EmptySet
<1>6. ASSUME NEW p \in Orders
      PROVE  /\ IsFiniteSet(d.cache[p]) /\ Cardinality(d.cache[p]) <= d.cache_count[p]
             /\ d.cache_count[p] \in 0 .. CacheCap
             /\ d.cache[p] = {} => d.cache_count[p] = 0
             /\ d.cache_count[p] = Cardinality(d.cache[p])
  <2>1. CASE p = o
    <3>1. /\ d.cache[p] = rest
          /\ d.cache_count[p] = IF rest = {} THEN 0 ELSE c.cache_count[o] - 1
      BY <1>1, <1>2, <2>1
    <3>2. d.cache_count[p] = Cardinality(rest)
      BY <1>3, <1>4, <1>5, <3>1
    <3>3. Cardinality(rest) \in 0 .. CacheCap
      BY <1>3, <1>4, CacheAssumption
    <3>4. QED BY <1>4, <1>5, <3>1, <3>2, <3>3
  <2>2. CASE p # o
    <3>1. d.cache[p] = c.cache[p] /\ d.cache_count[p] = c.cache_count[p]
      BY <1>1, <1>2, <2>2
    <3>2. QED BY <3>1 DEF CacheWell, Counted
  <2>3. QED BY <2>1, <2>2
<1>7. QED BY <1>6 DEF CacheWell, Counted

(* An iteration of the flush need not keep the count equal to the length. *)
LEMMA FlushCounted ==
  ASSUME NEW c \in PoolShapes, CacheWell(c), NEW o \in Orders, NEW off \in c.cache[o]
  PROVE  CacheWell(FlushOne(c, off, o))
<1> DEFINE rest == c.cache[o] \ {off}
           e == [c EXCEPT !.cache = [c.cache EXCEPT ![o] = rest],
                          !.cache_count = [c.cache_count EXCEPT ![o] =
                                             IF rest = {} THEN 0 ELSE @]]
<1>1. DOMAIN c.cache = Orders /\ DOMAIN c.cache_count = Orders
  BY DEF PoolShapes
<1>2. /\ e.cache = [c.cache EXCEPT ![o] = rest]
      /\ e.cache_count = [c.cache_count EXCEPT ![o] = IF rest = {} THEN 0 ELSE @]
  BY DEF PoolShapes
<1>3. FlushOne(c, off, o) = MergeAndFree(e, off, o)
  BY DEF FlushOne
<1>4. e \in PoolShapes
  <2>1. /\ [c.cache EXCEPT ![o] = rest] \in [Orders -> SUBSET Units]
        /\ [c.cache_count EXCEPT ![o] = IF rest = {} THEN 0 ELSE @] \in [Orders -> Int]
    BY DEF PoolShapes
  <2>2. QED BY <2>1 DEF PoolShapes
<1>5. /\ IsFiniteSet(rest) /\ 0 \in 0 .. CacheCap /\ (rest = {} => Cardinality(rest) = 0)
      /\ Cardinality(rest) <= c.cache_count[o]
  <2>1. /\ IsFiniteSet(c.cache[o]) /\ Cardinality(c.cache[o]) <= c.cache_count[o]
        /\ c.cache_count[o] \in 0 .. CacheCap
    BY DEF CacheWell
  <2>2. IsFiniteSet(rest) /\ Cardinality(rest) = Cardinality(c.cache[o]) - 1
    BY <2>1, FS_RemoveElement
  <2>3. Cardinality(c.cache[o]) \in Nat
    BY <2>1, FS_CardinalityType
  <2> QED BY <2>1, <2>2, <2>3, FS_EmptySet, CacheAssumption
<1>6. ASSUME NEW p \in Orders
      PROVE  /\ IsFiniteSet(e.cache[p]) /\ Cardinality(e.cache[p]) <= e.cache_count[p]
             /\ e.cache_count[p] \in 0 .. CacheCap
             /\ e.cache[p] = {} => e.cache_count[p] = 0
  <2>1. CASE p = o
    <3>1. /\ e.cache[p] = rest
          /\ e.cache_count[p] = IF rest = {} THEN 0 ELSE c.cache_count[o]
      BY <1>1, <1>2, <2>1
    <3>2. QED BY <1>5, <3>1 DEF CacheWell
  <2>2. CASE p # o
    <3>1. e.cache[p] = c.cache[p] /\ e.cache_count[p] = c.cache_count[p]
      BY <1>1, <1>2, <2>2
    <3>2. QED BY <3>1 DEF CacheWell
  <2>3. QED BY <2>1, <2>2
<1>7. CacheWell(e)
  BY <1>6 DEF CacheWell
<1>8. SameCacheIn(e, MergeAndFree(e, off, o))
  BY <1>4, MergeLeavesCache
<1>9. QED BY <1>3, <1>7, <1>8, SameCache

LEMMA DeallocateCounted ==
  ASSUME NEW c, WellFormed(c), CacheWell(c), Counted(c), NEW off \in Units, NEW o \in Orders,
         c.tags[off] \in {Alloc(o), Sheet(o)}
  PROVE  CacheWell(DeallocateOrder(c, off, o)) /\ Counted(DeallocateOrder(c, off, o))
<1> DEFINE e == Discharge(c, o)
<1>1. c \in PoolShapes /\ off \notin c.cache[o]
  BY InUseAlone DEF WellFormed
<1>2. SameCacheIn(c, e)
  BY <1>1 DEF SameCacheIn, Discharge, PoolShapes
<1>3. e \in PoolShapes
  <2>1. c.allocated - OrderSize[o] \in Int
    BY <1>1, OrderSizeFacts DEF PoolShapes
  <2>2. QED BY <1>1, <2>1 DEF Discharge, PoolShapes
<1>4. CacheWell(e) /\ Counted(e)
  BY <1>2, SameCache
<1>5. CASE CacheTakes(c, o)
  <2>1. CacheTakes(e, o) /\ off \notin e.cache[o]
    BY <1>1, <1>2, <1>5 DEF CacheTakes, SameCacheIn
  <2>2. DeallocateOrder(c, off, o) = CachePush(e, off, o)
    BY <1>5 DEF DeallocateOrder
  <2>3. QED BY <1>3, <1>4, <2>1, <2>2, PushCounted
<1>6. CASE ~ CacheTakes(c, o)
  <2>1. DeallocateOrder(c, off, o) = MergeAndFree(e, off, o)
    BY <1>6 DEF DeallocateOrder
  <2>2. QED BY <1>3, <1>4, <2>1, MergeLeavesCache, SameCache
<1>7. QED BY <1>5, <1>6

-----------------------------------------------------------------------------
(* Every call keeps CInv; a call that leaves its flush finds EmptyCounted. *)
LEMMA StepCInv ==
  ASSUME IInv, CInv, [Next]_vars
  PROVE  CInv'
<1> DEFINE Kept == CacheWell(b') /\ (pending' = Idle => Counted(b'))
<1>1. WellFormed(b) /\ b \in PoolShapes /\ CacheWell(b)
  BY DEF IInv, WellFormed, CInv
<1>2. SUFFICES Kept
  BY DEF CInv
<1>3. ASSUME SameCacheIn(b, b'),
             pending' = pending \/ CachedOrders(b) = {} \/ pending = Idle
      PROVE  Kept
  <2>1. CacheWell(b') /\ (Counted(b) => Counted(b'))
    BY <1>1, <1>3, SameCache
  <2>2. pending' = Idle => Counted(b)
    BY <1>1, <1>3, EmptyCounted DEF CInv
  <2>3. QED BY <2>1, <2>2
<1>4. ASSUME NEW o, SplitFrom(o)
      PROVE  SameCacheIn(b, b')
  <2>1. PICK blk : b' = Grant(TakeAndSplit(b, blk, FindFreeOrder(b, o), o), blk, o)
    BY <1>4 DEF SplitFrom
  <2>2. QED BY <1>1, <2>1, SplitLeavesCache
<1>5. ASSUME NEW o \in OrderInputs, Allocate(o) PROVE Kept
  <2>1. pending = Idle /\ Counted(b)
    BY <1>5 DEF Allocate, CInv
  <2>2. CASE AllocateTooLarge(o) \/ AllocateExhausted(o)
    <3>1. b' = b
      BY <2>2 DEF AllocateTooLarge, AllocateExhausted
    <3>2. QED BY <1>3, <2>1, <3>1 DEF SameCacheIn
  <2>3. CASE AllocateCached(o)
    <3>1. o \in Orders
      BY <2>3, OrderSizeAssumption DEF AllocateCached, OrderInputs, Orders
    <3>2. PICK blk \in b.cache[o] : b' = Grant(CachePop(b, blk, o), blk, o)
      BY <2>3 DEF AllocateCached
    <3>3. QED BY <1>1, <2>1, <3>1, <3>2, PopCounted
  <2>4. CASE AllocateSplit(o)
    <3>1. SplitFrom(o)
      BY <2>4 DEF AllocateSplit
    <3>2. QED BY <1>3, <1>4, <2>1, <3>1
  <2>5. QED BY <1>5, <2>2, <2>3, <2>4 DEF Allocate
<1>6. CASE LargestFree
  BY <1>3, <1>6 DEF LargestFree, SameCacheIn
<1>7. CASE FlushStep
  <2>1. PICK o \in Orders : \E blk \in b.cache[o] : b' = FlushOne(b, blk, o)
    BY <1>7 DEF FlushStep, CachedOrders
  <2>2. PICK blk \in b.cache[o] : b' = FlushOne(b, blk, o)
    BY <2>1
  <2>3. pending' # Idle
    BY <1>7 DEF FlushStep
  <2>4. QED BY <1>1, <2>2, <2>3, FlushCounted
<1>8. CASE AllocateRetry
  <2>1. CachedOrders(b) = {}
    BY <1>8 DEF AllocateRetry
  <2>2. SameCacheIn(b, b')
    BY <1>4, <1>8 DEF AllocateRetry, SameCacheIn
  <2>3. QED BY <1>3, <2>1, <2>2
<1>9. CASE LargestFreeAnswer
  BY <1>3, <1>9 DEF LargestFreeAnswer, SameCacheIn
<1>10. ASSUME NEW p \in Pointers, Deallocate(p) PROVE Kept
  <2> DEFINE o == OrderAt(b, p)
  <2>1. /\ pending = Idle /\ pending' = pending
        /\ o = Null => b' = b
        /\ o # Null => b' = DeallocateOrder(b, p, o)
    BY <1>10 DEF Deallocate
  <2>2. CASE o = Null
    BY <1>3, <2>1, <2>2 DEF SameCacheIn
  <2>3. CASE o # Null
    <3>1. p \in Units /\ o \in Orders /\ b.tags[p] \in {Alloc(o), Sheet(o)}
      BY <1>1, <2>3, OrderAtFacts
    <3>2. Counted(b)
      BY <2>1 DEF CInv
    <3>3. QED BY <1>1, <2>1, <2>3, <3>1, <3>2, DeallocateCounted
  <2>4. QED BY <2>2, <2>3
<1>11. ASSUME NEW p \in Pointers, NEW want \in OrderInputs, Grow(p, want) PROVE Kept
  <2>1. b' = b \/ b' = GrowTo(b, p, OrderAt(b, p), want)
    BY <1>11 DEF Grow
  <2>2. pending' = pending
    BY <1>11 DEF Grow
  <2>3. SameCacheIn(b, b')
    BY <1>1, <2>1, GrowLeavesCache DEF SameCacheIn
  <2>4. QED BY <1>3, <2>2, <2>3
<1>12. ASSUME NEW p \in Units, Mark(p) \/ Unmark(p) PROVE Kept
  <2>1. b' \in {MarkSheet(b, p), UnmarkSheet(b, p)} /\ pending' = pending
    BY <1>12 DEF Mark, Unmark
  <2>2. SameCacheIn(b, b')
    BY <1>1, <2>1, MarkLeavesCache
  <2>3. QED BY <1>3, <2>1, <2>2
<1>13. CASE Reset
  BY <1>13, FreshCounted DEF Reset
<1>14. CASE UNCHANGED vars
  BY <1>3, <1>14 DEF vars, SameCacheIn
<1>15. QED
  BY <1>5, <1>6, <1>7, <1>8, <1>9, <1>10, <1>11, <1>12, <1>13, <1>14 DEF Next

LEMMA CacheInvariance == Spec => []CInv
<1>1. Init => CInv
  BY FreshCounted DEF Init, CInv
<1>2. IInv /\ CInv /\ [Next]_vars => CInv'
  BY StepCInv
<1>3. QED BY Invariance, <1>1, <1>2, PTL DEF Spec

(* cache.count is the length of the cache list whenever no flush is under
   way, whatever mix of allocate, deallocate and flush_cache came before.
   Between the iterations of a flush, too, it is at least that and zero when
   the list is empty; and neither it nor the list is ever above the cap. *)
THEOREM CacheCounting == Spec => []CacheCounted
<1>1. CInv => CacheCounted
  <2>1. SUFFICES ASSUME CInv, NEW o \in Orders
                 PROVE  /\ Cardinality(b.cache[o]) <= b.cache_count[o]
                        /\ b.cache_count[o] <= CacheCap
                        /\ b.cache[o] = {} => b.cache_count[o] = 0
                        /\ pending = Idle => b.cache_count[o] = Cardinality(b.cache[o])
    BY DEF CacheCounted
  <2>2. CacheWell(b) /\ (pending = Idle => Counted(b))
    BY <2>1 DEF CInv
  <2>3. QED BY <2>2, CacheAssumption DEF CacheWell, Counted
<1>2. QED BY <1>1, CacheInvariance, PTL

-----------------------------------------------------------------------------
(* One lemma for all the calls, again: the counter of the units in use is
   adjusted by what each call takes or gives back. *)
LEMMA StepCharged ==
  ASSUME IInv, Charged(b), [Next]_vars
  PROVE  Charged(b')
<1>1. WellFormed(b) /\ b \in PoolShapes /\ Orders \subseteq Nat
  BY OrderSizeFacts DEF IInv, WellFormed
<1>2. ASSUME NEW o \in Orders, SplitFrom(o) PROVE Charged(b')
  <2>1. /\ FindFreeOrder(b, o) \in Orders /\ o <= FindFreeOrder(b, o)
    BY <1>1, <1>2, FindFreeOrderFacts DEF SplitFrom
  <2>2. PICK blk \in b.free[FindFreeOrder(b, o)] :
          b' = Grant(TakeAndSplit(b, blk, FindFreeOrder(b, o), o), blk, o)
    BY <1>2 DEF SplitFrom
  <2>3. QED BY <1>1, <2>1, <2>2, SplitCharged
<1>3. ASSUME NEW o \in OrderInputs, Allocate(o) PROVE Charged(b')
  <2>1. o < MaxOrder => o \in Orders
    BY OrderSizeAssumption DEF OrderInputs, Orders
  <2>2. CASE AllocateCached(o)
    <3>1. o \in Orders
      BY <2>1, <2>2 DEF AllocateCached
    <3>2. PICK blk \in b.cache[o] : b' = Grant(CachePop(b, blk, o), blk, o)
      BY <2>2 DEF AllocateCached
    <3>3. QED BY <1>1, <3>1, <3>2, PopCharged
  <2>3. CASE AllocateSplit(o)
    BY <1>2, <2>1, <2>3 DEF AllocateSplit
  <2>4. CASE AllocateTooLarge(o) \/ AllocateExhausted(o)
    BY <2>4 DEF AllocateTooLarge, AllocateExhausted
  <2>5. QED BY <1>3, <2>2, <2>3, <2>4 DEF Allocate
<1>4. CASE FlushStep
  <2>1. PICK o \in Orders : \E blk \in b.cache[o] : b' = FlushOne(b, blk, o)
    BY <1>4 DEF FlushStep, CachedOrders
  <2>2. QED BY <1>1, <2>1, FlushCharged
<1>5. CASE AllocateRetry
  <2>1. pending.order \in Orders
    BY <1>5 DEF AllocateRetry, IInv, TypeOK
  <2>2. QED BY <1>2, <1>5, <2>1 DEF AllocateRetry
<1>6. CASE LargestFree \/ LargestFreeAnswer
  BY <1>6 DEF LargestFree, LargestFreeAnswer
<1>7. ASSUME NEW p \in Pointers, Deallocate(p) PROVE Charged(b')
  <2> DEFINE o == OrderAt(b, p)
  <2>1. (o = Null => b' = b) /\ (o # Null => b' = DeallocateOrder(b, p, o))
    BY <1>7 DEF Deallocate
  <2>2. o = Null \/ (p \in Units /\ o \in Orders /\ b.tags[p] \in {Alloc(o), Sheet(o)})
    BY <1>1, OrderAtFacts
  <2> HIDE DEF o
  <2>3. QED BY <1>1, <2>1, <2>2, DeallocateCharged
<1>8. ASSUME NEW p \in Pointers, NEW want \in OrderInputs, Grow(p, want) PROVE Charged(b')
  <2> DEFINE o == OrderAt(b, p)
             size == IF o = Null THEN Null
                     ELSE IF want <= o THEN o
                     ELSE IF CanGrow(b, p, o, want) THEN want ELSE Null
  <2>1. /\ o # Null /\ size > o => b' = GrowTo(b, p, o, want)
        /\ ~ (o # Null /\ size > o) => b' = b
    BY <1>8 DEF Grow
  <2>2. o = Null \/ (p \in Units /\ o \in Orders /\ b.tags[p] \in {Alloc(o), Sheet(o)})
    BY <1>1, OrderAtFacts
  <2>3. ASSUME o # Null, size > o
        PROVE  o \in Orders /\ want \in Orders /\ o < want /\ CanGrow(b, p, o, want)
    <3>1. o \in Orders
      BY <2>2, <2>3
    <3>0. o \in Nat /\ want \in 0 .. MaxOrder /\ want \in Int /\ Null = -1
      <4>1. want \in 0 .. MaxOrder
        BY DEF OrderInputs
      <4> HIDE DEF o
      <4>2. QED BY <1>1, <3>1, <4>1, OrderSizeAssumption DEF Null
    <3> HIDE DEF o
    <3>2. CanGrow(b, p, o, want) /\ o < want
      BY <2>3, <3>0, <3>1
    <3>3. want \in Orders
      BY <3>0, <3>2, OrderSizeAssumption DEF CanGrow, Orders
    <3>4. QED BY <3>1, <3>2, <3>3
  <2> HIDE DEF o, size
  <2>4. QED BY <1>1, <2>1, <2>2, <2>3, GrowCharged
<1>9. ASSUME NEW p \in Units, Mark(p) \/ Unmark(p) PROVE Charged(b')
  <2>1. b.tags[p] \in {Alloc(SheetOrder), Sheet(SheetOrder)}
        /\ b' \in {MarkSheet(b, p), UnmarkSheet(b, p)}
    BY <1>9 DEF Mark, Unmark
  <2>2. QED BY <1>1, <2>1, SheetOrderAssumption, MarkCharged
<1>10. CASE Reset
  BY <1>10, FreshCharged DEF Reset
<1>11. CASE UNCHANGED vars
  BY <1>11 DEF vars
<1>12. QED
  BY <1>3, <1>4, <1>5, <1>6, <1>7, <1>8, <1>9, <1>10, <1>11 DEF Next

(* BytesAccounted: allocated_bytes counts the units in use, and available()
   those that are free or cached, after every call and every iteration of a
   flush. *)
THEOREM Accounting == Spec => []BytesAccounted
<1>1. Init => IInv /\ Charged(b)
  BY InitIInv, FreshCharged DEF Init
<1>2. IInv /\ Charged(b) /\ [Next]_vars => (IInv /\ Charged(b))'
  <2>1. SUFFICES ASSUME IInv, Charged(b), [Next]_vars PROVE IInv' /\ Charged(b)'
    OBVIOUS
  <2>2. IInv' /\ Charged(b')
    BY <2>1, StepIInv, StepCharged
  <2>3. QED BY <2>2 DEF Charged
<1>3. IInv /\ Charged(b) => BytesAccounted
  BY FreeCovered DEF IInv, Charged, BytesAccounted, Available
<1>4. QED BY <1>1, <1>2, <1>3, PTL DEF Spec

-----------------------------------------------------------------------------
(***************************************************************************)
(* Buddy implements BlockStore, for every pool: the blocks whose tag says  *)
(* alloc or sheet behave as the live blocks of the abstract store.         *)
(*                                                                         *)
(* The part that is not bookkeeping, that a refusal is right, is NoRoom    *)
(* (BuddyOpsProofs).                                                       *)
(***************************************************************************)
Live == InUseBlocks(b)

LEMMA StoreVacant ==
  ASSUME NEW off, NEW o
  PROVE  Store!Vacant(off, o) <=> VacantIn(Live, off, o)
BY DEF Live, Store!Vacant, VacantIn, Store!Aligned, Aligned, Store!InPool, InPool,
       Store!Span, Span

LEMMA StoreRoom ==
  ASSUME NEW o
  PROVE  Store!HasRoom(o) <=> RoomIn(Live, o)
BY StoreVacant DEF Store!HasRoom, RoomIn, Store!Orders, Orders, Store!Units, Units

-----------------------------------------------------------------------------
(* The steps of the abstract store, in the words of this module. *)
LEMMA StoreGrants ==
  ASSUME NEW o \in Orders, NEW off \in Units, VacantIn(Live, off, o),
         Live' = Live \union {<<off, o>>}, ret' = Result("allocate", o, off)
  PROVE  Store!Next
<1>1. o \in 0 .. MaxOrder
  BY OrderSizeFacts
<1>2. Store!Allocate(o)
  BY StoreVacant DEF Live, Store!Allocate, Store!Result, Result, Store!Units, Units,
                     Store!Orders, Orders
<1>3. QED BY <1>1, <1>2 DEF Store!Next

LEMMA StoreRefuses ==
  ASSUME NEW o \in OrderInputs, ~ RoomIn(Live, o),
         Live' = Live, ret' = Result("allocate", o, Null)
  PROVE  Store!Next
<1>1. Store!Allocate(o)
  BY StoreRoom DEF Live, Store!Allocate, Store!Result, Result, Store!Null, Null
<1>2. QED BY <1>1 DEF Store!Next, OrderInputs

LEMMA SplitFromStore ==
  ASSUME WellFormed(b), NEW o \in Orders, SplitFrom(o)
  PROVE  Store!Next
<1>1. /\ FindFreeOrder(b, o) \in Orders /\ o <= FindFreeOrder(b, o)
  BY FindFreeOrderFacts DEF SplitFrom
<1>2. PICK blk \in b.free[FindFreeOrder(b, o)] :
        /\ b' = Grant(TakeAndSplit(b, blk, FindFreeOrder(b, o), o), blk, o)
        /\ ret' = Result("allocate", o, blk)
  BY DEF SplitFrom
<1>3. /\ InUseBlocks(b') = InUseBlocks(b) \union {<<blk, o>>}
      /\ VacantIn(InUseBlocks(b), blk, o) /\ blk \in Units
  BY <1>1, <1>2, SplitLive
<1>4. QED BY <1>2, <1>3, StoreGrants DEF Live

LEMMA ExhaustedStore ==
  ASSUME WellFormed(b), FullyCoalesced(b), CachedOrders(b) = {},
         NEW o \in Orders, FindFreeOrder(b, o) >= MaxOrder,
         b' = b, ret' = Result("allocate", o, Null)
  PROVE  Store!Next
<1>1. ~ RoomIn(Live, o)
  BY NoFreeOrder, NoRoom DEF Live
<1>2. o \in OrderInputs
  BY OrderSizeFacts DEF OrderInputs
<1>3. QED BY <1>1, <1>2, StoreRefuses DEF Live

(* Without a cache, nothing is ever cached. *)
LEMMA NothingCached ==
  ASSUME NEW c, CacheWell(c), Counted(c), ~ (CacheCap > 0)
  PROVE  CachedOrders(c) = {}
<1>1. ASSUME NEW o \in Orders PROVE c.cache[o] = {}
  <2>1. /\ IsFiniteSet(c.cache[o]) /\ c.cache_count[o] \in 0 .. CacheCap
        /\ c.cache_count[o] = Cardinality(c.cache[o])
    BY DEF CacheWell, Counted
  <2>2. Cardinality(c.cache[o]) = 0
    BY <2>1, CacheAssumption
  <2>3. QED BY <2>1, <2>2, FS_EmptySet
<1>2. QED BY <1>1 DEF CachedOrders

(* largest_free() answers with the top bit of the mask, which is the largest
   order with room, once nothing is cached. *)
LEMMA LargestStore ==
  ASSUME IInv, FullyCoalesced(b), LargestFreeAnswer
  PROVE  Store!Next
<1>1. /\ WellFormed(b) /\ b \in PoolShapes /\ CachedOrders(b) = {}
      /\ b.free_mask = {j \in Orders : b.free[j] # {}}
      /\ Orders \subseteq Nat
  BY OrderSizeFacts DEF IInv, WellFormed, MaskMatchesLists, LargestFreeAnswer
<1>2. Live' = Live
  BY DEF LargestFreeAnswer, Live
<1>3. CASE b.free_mask = {}
  <2>1. 0 \in Orders /\ \A j \in Orders : b.free[j] = {}
    BY <1>1, <1>3, OrderSizeFacts
  <2>2. ~ RoomIn(Live, 0)
    BY <1>1, <2>1, NoRoom DEF Live
  <2>3. ~ Store!HasRoom(0)
    BY <2>2, StoreRoom
  <2>4. ret' = Result("largest_free", Null, Null)
    BY <1>3 DEF LargestFreeAnswer
  <2>5. Store!LargestFree
    BY <1>2, <2>3, <2>4 DEF Live, Store!LargestFree, Store!Result, Result, Store!Null, Null
  <2>6. QED BY <2>5 DEF Store!Next
<1>4. CASE b.free_mask # {}
  <2> DEFINE top == CHOOSE o \in b.free_mask : \A p \in b.free_mask : p <= o
  <2>1. \E o \in b.free_mask : \A p \in b.free_mask : p <= o
    <3> DEFINE T == {Top - p : p \in b.free_mask}
    <3>1. \A p \in Orders : Top - p \in Nat
      BY OrderSizeAssumption DEF Orders, Top
    <3>2. T \subseteq Nat /\ T # {}
      BY <1>1, <1>4, <3>1
    <3>3. PICK t \in T : \A s \in T : t <= s
      BY <3>2, LeastElement
    <3>4. PICK o \in b.free_mask : t = Top - o
      BY <3>3
    <3>5. \A p \in b.free_mask : Top - o <= Top - p
      BY <3>3, <3>4
    <3>6. Top \in Int /\ \A p \in b.free_mask : p \in Int
      <4>1. Top \in Int
        BY OrderSizeAssumption DEF Top
      <4>2. b.free_mask \subseteq Nat
        BY <1>1
      <4>3. QED BY <4>1, <4>2
    <3>7. \A p \in b.free_mask : p <= o
      BY <3>4, <3>5, <3>6
    <3>8. QED BY <3>4, <3>7
  <2>2. top \in b.free_mask /\ \A p \in b.free_mask : p <= top
    BY <2>1
  <2> HIDE DEF top
  <2>3. top \in Orders /\ top \in Nat /\ b.free[top] # {}
    BY <1>1, <2>2
  <2>4. RoomIn(Live, top)
    <3>1. PICK u \in b.free[top] : TRUE
      BY <2>3
    <3>2. u \in Units /\ b.tags[u] = Free(top)
      BY <1>1, <2>3, <3>1 DEF WellFormed, FreeListsMatchTags, PoolShapes
    <3>3. <<u, top>> \in Blocks(b)
      BY <1>1, <2>3, <3>1, <3>2, BlocksMember
    <3>4. b.tags[u].kind \notin {"alloc", "sheet"}
      BY <3>2 DEF Free
    <3>5. VacantIn(Live, u, top)
      BY <1>1, <2>3, <3>2, <3>3, <3>4, TileVacant DEF Live
    <3>6. QED BY <2>3, <3>2, <3>5 DEF RoomIn
  <2>5. ~ RoomIn(Live, top + 1)
    <3>1. CASE top + 1 \in Orders
      <4>1. \A j \in Orders : top + 1 <= j => b.free[j] = {}
        BY <1>1, <2>2, <2>3
      <4>2. QED BY <1>1, <3>1, <4>1, NoRoom DEF Live
    <3>2. CASE top + 1 \notin Orders
      BY <3>2 DEF RoomIn
    <3>3. QED BY <3>1, <3>2
  <2>6. ret' = Result("largest_free", top, Null)
    BY <1>4 DEF LargestFreeAnswer, top
  <2>7. Store!HasRoom(top) /\ ~ Store!HasRoom(top + 1)
    BY <2>4, <2>5, StoreRoom
  <2>8. Store!LargestFree
    BY <1>2, <2>3, <2>6, <2>7
       DEF Live, Store!LargestFree, Store!Result, Result, Store!Null, Null, Store!Orders, Orders
  <2>9. QED BY <2>8 DEF Store!Next
<1>5. QED BY <1>3, <1>4

LEMMA DeallocateStore ==
  ASSUME WellFormed(b), NEW p \in Pointers, Deallocate(p)
  PROVE  Store!Next
<1> DEFINE o == OrderAt(b, p)
<1>1. /\ ret' = Result("deallocate", o, IF o = Null THEN Null ELSE p)
      /\ o = Null => b' = b
      /\ o # Null => b' = DeallocateOrder(b, p, o)
      /\ b \in PoolShapes
  BY DEF Deallocate, WellFormed
<1>2. CASE o = Null
  <2>1. ASSUME NEW blk \in Live, blk[1] = p PROVE FALSE
    <3>1. PICK u \in Units : blk = <<u, b.tags[u].order>> /\ b.tags[u].kind \in {"alloc", "sheet"}
      BY DEF Live, InUseBlocks
    <3>2. u = p
      BY <2>1, <3>1
    <3>3. b.tags[u] \in Tags
      BY <1>1 DEF PoolShapes
    <3>4. b.tags[u].order < MaxOrder /\ b.tags[u].order \in Nat
      BY <3>3, OrderSizeAssumption DEF Tags, Orders
    <3>5. OrderAt(b, p) = b.tags[u].order
      BY <3>1, <3>2, <3>4 DEF OrderAt
    <3>6. QED BY <1>2, <3>4, <3>5 DEF Null
  <2>2. Live' = Live /\ ret' = Result("deallocate", Null, Null)
    BY <1>1, <1>2 DEF Live
  <2>3. Store!Deallocate(p)
    BY <2>1, <2>2 DEF Live, Store!Deallocate, Store!Result, Result, Store!Null, Null
  <2>4. QED BY <2>3 DEF Store!Next, Pointers, Store!Units, Units, Store!Null, Null
<1>3. CASE o # Null
  <2>1. p \in Units /\ o \in Orders /\ b.tags[p] \in {Alloc(o), Sheet(o)}
    BY <1>1, <1>3, OrderAtFacts
  <2> HIDE DEF o
  <2>2. Live' = Live \ {<<p, o>>} /\ <<p, o>> \in Live
    BY <1>1, <1>3, <2>1, DeallocateLive, LiveMember DEF Live
  <2>3. ret' = Result("deallocate", o, p)
    BY <1>1, <1>3
  <2>4. \E blk \in Live : blk[1] = p /\ blk[2] = o /\ Live' = Live \ {blk}
    BY <2>2
  <2>5. Store!Deallocate(p)
    BY <2>3, <2>4 DEF Live, Store!Deallocate, Store!Result, Result
  <2>6. QED BY <2>5 DEF Store!Next, Pointers, Store!Units, Units, Store!Null, Null
<1>4. QED BY <1>2, <1>3

LEMMA GrowStore ==
  ASSUME WellFormed(b), NEW p \in Pointers, NEW want \in OrderInputs, Grow(p, want)
  PROVE  Store!Next
<1> DEFINE o == OrderAt(b, p)
           size == IF o = Null THEN Null
                   ELSE IF want <= o THEN o
                   ELSE IF CanGrow(b, p, o, want) THEN want ELSE Null
<1>1. /\ ret' = Result("grow", size, IF size = Null THEN Null ELSE p)
      /\ o # Null /\ size > o => b' = GrowTo(b, p, o, want)
      /\ ~ (o # Null /\ size > o) => b' = b
      /\ b \in PoolShapes /\ want \in Nat /\ want \in 0 .. MaxOrder
  BY OrderSizeAssumption DEF Grow, WellFormed, OrderInputs
<1>2. SUFFICES Store!Grow(p, want)
  BY <1>1 DEF Store!Next, Pointers, Store!Units, Units, Store!Null, Null
<1>3. o = Null \/ (/\ p \in Units /\ o \in Orders /\ o \in Nat
                    /\ b.tags[p] \in {Alloc(o), Sheet(o)})
  BY <1>1, OrderAtFacts, OrderSizeFacts
<1> HIDE DEF o
<1>4. ASSUME Live' = Live, ret' = Result("grow", Null, Null)
      PROVE  Store!Grow(p, want)
  BY <1>4 DEF Live, Store!Grow, Store!KeepSize, Store!Result, Result, Store!Null, Null
<1>5. CASE o = Null
  BY <1>1, <1>4, <1>5 DEF Live
<1>6. CASE o # Null /\ want <= o
  <2>1. size = o /\ o \in Nat /\ o # Null
    BY <1>3, <1>6
  <2>2. b' = b /\ ret' = Result("grow", o, p)
    BY <1>1, <1>6, <2>1
  <2>3. <<p, o>> \in Live
    BY <1>1, <1>3, <1>6, LiveMember DEF Live
  <2>4. Live' = Live
    BY <2>2 DEF Live
  <2>5. \E blk \in Live : blk[1] = p /\ blk[2] = o
    BY <2>3
  <2>6. QED BY <1>6, <2>2, <2>4, <2>5 DEF Live, Store!Grow, Store!KeepSize, Store!Result, Result
<1>7. CASE o # Null /\ ~ (want <= o) /\ ~ CanGrow(b, p, o, want)
  <2>1. size = Null /\ ~ (Null > o)
    BY <1>3, <1>7 DEF Null
  <2>2. b' = b
    BY <1>1, <2>1
  <2>3. Live' = Live /\ ret' = Result("grow", Null, Null)
    BY <1>1, <2>1, <2>2 DEF Live
  <2>4. QED BY <1>4, <2>3
<1>8. CASE o # Null /\ ~ (want <= o) /\ CanGrow(b, p, o, want)
  <2>1. size = want /\ o < want /\ want # Null /\ o \in Orders
    BY <1>1, <1>3, <1>8 DEF Null
  <2>2. want \in Orders
    BY <1>1, <1>8, OrderSizeAssumption DEF CanGrow, Orders
  <2>3. b' = GrowTo(b, p, o, want) /\ ret' = Result("grow", want, p)
    BY <1>1, <1>8, <2>1
  <2>4. /\ <<p, o>> \in Live
        /\ Live' = (Live \ {<<p, o>>}) \union {<<p, want>>}
        /\ Aligned(p, want) /\ InPool(p, want)
        /\ \A other \in Live \ {<<p, o>>} : Span(other[1], other[2]) \cap Span(p, want) = {}
    BY <1>3, <1>8, <2>1, <2>2, <2>3, GrowLive DEF Live
  <2>5. Store!Extend(p, want)
    <3>1. \E blk \in Live :
            /\ blk[1] = p /\ blk[2] < want
            /\ \A other \in Live \ {blk} : Span(other[1], other[2]) \cap Span(p, want) = {}
            /\ Live' = (Live \ {blk}) \union {<<p, want>>}
      BY <2>1, <2>4
    <3>2. QED
      BY <2>2, <2>3, <2>4, <3>1
         DEF Live, Store!Extend, Store!Result, Result, Store!Orders, Orders, Store!Aligned, Aligned,
             Store!InPool, InPool, Store!Span, Span
  <2>6. QED BY <2>5 DEF Store!Grow
<1>9. QED BY <1>5, <1>6, <1>7, <1>8

-----------------------------------------------------------------------------
(* Every step of the pool is a step of the store or leaves live and ret
   alone. *)
LEMMA StepStore ==
  ASSUME IInv, CInv, Coalesced, [Next]_vars
  PROVE  [Store!Next]_<<InUseBlocks(b), ret>>
<1> DEFINE Stutter == InUseBlocks(b') = InUseBlocks(b) /\ ret' = ret
<1>1. /\ WellFormed(b) /\ b \in PoolShapes /\ FullyCoalesced(b) /\ CacheWell(b)
      /\ pending \in [op : Calls, order : Orders]
  BY DEF IInv, TypeOK, WellFormed, CInv, Coalesced
<1>2. SUFFICES Store!Next \/ Stutter
  OBVIOUS
<1>3. ASSUME NEW o \in OrderInputs, Allocate(o) PROVE Store!Next \/ Stutter
  <2>1. pending = Idle /\ Counted(b)
    BY <1>3 DEF Allocate, CInv
  <2>2. ASSUME o < MaxOrder PROVE o \in Orders
    BY <2>2, OrderSizeAssumption DEF OrderInputs, Orders
  <2>3. CASE AllocateTooLarge(o)
    <3>1. o \notin Orders
      BY <2>3, OrderSizeAssumption DEF AllocateTooLarge, Orders
    <3>2. ~ RoomIn(Live, o)
      BY <3>1 DEF RoomIn
    <3>3. Live' = Live /\ ret' = Result("allocate", o, Null)
      BY <2>3 DEF AllocateTooLarge, Live
    <3>4. QED BY <3>2, <3>3, StoreRefuses
  <2>4. CASE AllocateCached(o)
    <3>1. o \in Orders
      BY <2>2, <2>4 DEF AllocateCached
    <3>2. PICK blk \in b.cache[o] :
            /\ b'   = Grant(CachePop(b, blk, o), blk, o)
            /\ ret' = Result("allocate", o, blk)
      BY <2>4 DEF AllocateCached
    <3>3. /\ Live' = Live \union {<<blk, o>>}
          /\ VacantIn(Live, blk, o) /\ blk \in Units
      BY <1>1, <3>1, <3>2, PopLive DEF Live
    <3>4. QED BY <3>1, <3>2, <3>3, StoreGrants
  <2>5. CASE AllocateSplit(o)
    <3>1. o \in Orders /\ SplitFrom(o)
      BY <2>2, <2>5 DEF AllocateSplit
    <3>2. QED BY <1>1, <3>1, SplitFromStore
  <2>6. CASE AllocateExhausted(o)
    <3>1. o \in Orders /\ FindFreeOrder(b, o) >= MaxOrder /\ b' = b
      BY <2>2, <2>6 DEF AllocateExhausted
    <3>2. CASE CacheCap > 0
      BY <2>6, <3>1, <3>2 DEF AllocateExhausted
    <3>3. CASE ~ (CacheCap > 0)
      <4>1. CachedOrders(b) = {}
        BY <1>1, <2>1, <3>3, NothingCached
      <4>2. ret' = Result("allocate", o, Null)
        BY <2>6, <3>3 DEF AllocateExhausted
      <4>3. QED BY <1>1, <3>1, <4>1, <4>2, ExhaustedStore
    <3>4. QED BY <3>2, <3>3
  <2>7. QED BY <1>3, <2>3, <2>4, <2>5, <2>6 DEF Allocate
<1>4. CASE LargestFree
  BY <1>4 DEF LargestFree
<1>5. CASE FlushStep
  <2>1. PICK o \in Orders : \E blk \in b.cache[o] : b' = FlushOne(b, blk, o)
    BY <1>5 DEF FlushStep, CachedOrders
  <2>2. PICK blk \in b.cache[o] : b' = FlushOne(b, blk, o)
    BY <2>1
  <2>3. InUseBlocks(b') = InUseBlocks(b)
    BY <1>1, <2>2, FlushLive
  <2>4. QED BY <1>5, <2>3 DEF FlushStep
<1>6. CASE AllocateRetry
  <2>1. pending.order \in Orders /\ CachedOrders(b) = {}
    BY <1>1, <1>6 DEF AllocateRetry
  <2>2. CASE SplitFrom(pending.order)
    BY <1>1, <2>1, <2>2, SplitFromStore
  <2>3. CASE /\ FindFreeOrder(b, pending.order) >= MaxOrder
             /\ ret' = Result("allocate", pending.order, Null) /\ b' = b
    BY <1>1, <2>1, <2>3, ExhaustedStore
  <2>4. QED BY <1>6, <2>2, <2>3 DEF AllocateRetry
<1>7. CASE LargestFreeAnswer
  BY <1>1, <1>7, LargestStore
<1>8. ASSUME NEW p \in Pointers, Deallocate(p) PROVE Store!Next
  BY <1>1, <1>8, DeallocateStore
<1>9. ASSUME NEW p \in Pointers, NEW want \in OrderInputs, Grow(p, want) PROVE Store!Next
  BY <1>1, <1>9, GrowStore
<1>10. ASSUME NEW p \in Units, Mark(p) \/ Unmark(p) PROVE Stutter
  <2>1. b.tags[p] \in {Alloc(SheetOrder), Sheet(SheetOrder)}
        /\ b' \in {MarkSheet(b, p), UnmarkSheet(b, p)} /\ ret' = ret
    BY <1>10 DEF Mark, Unmark
  <2>2. QED BY <1>1, <2>1, SheetOrderAssumption, MarkLive
<1>11. CASE Reset
  <2>1. Live' = {} /\ ret' = NoResult
    BY <1>11, FreshLive DEF Reset, Live
  <2>2. Store!Reset
    BY <2>1 DEF Live, Store!Reset, Store!NoResult, NoResult, Store!Result, Result, Store!Null, Null
  <2>3. QED BY <2>2 DEF Store!Next
<1>12. CASE UNCHANGED vars
  BY <1>12 DEF vars
<1>13. QED
  BY <1>3, <1>4, <1>5, <1>6, <1>7, <1>8, <1>9, <1>10, <1>11, <1>12 DEF Next

(* The pool keeps the promise of BlockStore: no call touches a block it was
   not given, an allocation is refused only when no aligned run of its order
   is vacant, and largest_free() is exact. *)
THEOREM Implementation == Spec => ImplementsBlockStore
<1>1. Init => Store!Init
  BY FreshLive DEF Init, Store!Init, Store!NoResult, NoResult, Store!Result, Result,
                   Store!Null, Null
<1>2. IInv /\ CInv /\ Coalesced /\ [Next]_vars => [Store!Next]_<<InUseBlocks(b), ret>>
  BY StepStore
<1>3. QED BY Invariance, CacheInvariance, Coalescing, <1>1, <1>2, PTL DEF Spec, ImplementsBlockStore

-----------------------------------------------------------------------------
(***************************************************************************)
(* How memory becomes a pool.  Words first: powers of two, their           *)
(* logarithms and rounding, on numbers that wrap around.                   *)
(***************************************************************************)
LEMMA WordNumbers ==
  /\ Word \in Nat /\ Word >= 2 /\ SizeMax \in Nat /\ SizeMax + 1 = Word
  /\ \A a \in Pow2s : a \in Nat \ {0} /\ a < Word
  /\ \A a \in Pow2s : \E k \in 0 .. WordBits - 1 : a = 2 ^ k
<1>1. WordBits \in Nat /\ WordBits >= 1
  BY SetupAssumption
<1>2. \A k \in 0 .. WordBits - 1 : 2 ^ k \in Nat \ {0} /\ 2 ^ k < Word
  <2> SUFFICES ASSUME NEW k \in 0 .. WordBits - 1 PROVE 2 ^ k \in Nat \ {0} /\ 2 ^ k < Word
    OBVIOUS
  <2>1. k \in Nat /\ k < WordBits
    BY <1>1
  <2> QED BY <1>1, <2>1, PowType, PowMonotone DEF Word
<1>3. Word \in Nat /\ Word > 1
  <2>1. Word \in Nat /\ Word > WordBits
    BY <1>1, PowType DEF Word
  <2> QED BY <1>1, <2>1
<1> QED BY <1>2, <1>3 DEF SizeMax, Pow2s

(* A larger power of two is a multiple of a smaller one, and at least its
   double. *)
LEMMA PowerRatio ==
  ASSUME NEW a \in Pow2s, NEW c \in Pow2s, a <= c
  PROVE  /\ \E q \in Nat \ {0} : c = a * q
         /\ a # c => 2 * a <= c
<1>1. PICK i \in 0 .. WordBits - 1 : a = 2 ^ i
  BY WordNumbers
<1>2. PICK j \in 0 .. WordBits - 1 : c = 2 ^ j
  BY WordNumbers
<1>3. i \in Nat /\ j \in Nat /\ a \in Nat /\ c \in Nat
  BY WordNumbers, SetupAssumption
<1>4. i <= j
  BY <1>1, <1>2, <1>3, PowMonotone
<1>5. PICK k \in Nat : j = i + k
  <2>1. j - i \in Nat /\ j = i + (j - i)
    BY <1>3, <1>4
  <2> QED BY <2>1
<1>6. PICK q \in Nat \ {0} : q = 2 ^ k
  BY PowType
<1>7. c = a * q
  BY <1>1, <1>2, <1>3, <1>5, <1>6, PowSum
<1>8. q = 1 \/ q >= 2
  OBVIOUS
<1>9. CASE q = 1
  BY <1>3, <1>7, <1>9
<1>10. CASE q >= 2
  <2>1. a * q >= a * 2
    BY <1>3, <1>10
  <2> QED BY <1>3, <1>7, <2>1
<1> QED BY <1>7, <1>8, <1>9, <1>10

LEMMA FlsFacts ==
  ASSUME NEW v \in 1 .. SizeMax
  PROVE  /\ Fls(v) \in 0 .. WordBits - 1 /\ 2 ^ Fls(v) <= v /\ v < 2 ^ (Fls(v) + 1)
         /\ 2 ^ Fls(v) \in Pow2s
         /\ \A k \in Nat : 2 ^ k <= v /\ v < 2 ^ (k + 1) => Fls(v) = k
<1>1. v \in Nat \ {0} /\ v < Word /\ WordBits \in Nat
  BY WordNumbers, SetupAssumption
<1>2. PICK k \in Nat : 2 ^ k <= v /\ v < 2 ^ (k + 1)
  BY <1>1, FloorLog
<1>3. k \in 0 .. WordBits - 1
  <2> SUFFICES ASSUME WordBits <= k PROVE FALSE
    BY <1>1
  <2>1. 2 ^ WordBits <= 2 ^ k /\ 2 ^ k \in Nat
    BY <1>1, PowMonotone, PowType
  <2> QED BY <1>1, <1>2, <2>1, WordNumbers DEF Word
<1>4. Fls(v) \in 0 .. WordBits - 1 /\ 2 ^ Fls(v) <= v /\ v < 2 ^ (Fls(v) + 1)
  BY <1>2, <1>3, Zenon DEF Fls
<1>5. Fls(v) \in Nat
  BY <1>1, <1>4
<1>6. ASSUME NEW j \in Nat, 2 ^ j <= v, v < 2 ^ (j + 1) PROVE Fls(v) = j
  BY <1>1, <1>4, <1>5, <1>6, FloorLogUnique
<1> QED BY <1>4, <1>6 DEF Pow2s

LEMMA MultipleOrder ==
  ASSUME NEW a \in Nat \ {0}, NEW p \in Nat, NEW q \in Nat, a * p < a * q + a
  PROVE  p <= q
<1> SUFFICES ASSUME p >= q + 1 PROVE FALSE
  OBVIOUS
<1>1. PICK d \in Nat : p = q + 1 + d
  <2>1. p - q - 1 \in Nat /\ p = q + 1 + (p - q - 1)
    OBVIOUS
  <2> QED BY <2>1
<1>2. a * p = a * q + a + a * d /\ a * d >= 0
  BY <1>1
<1> QED BY <1>2

LEMMA Multiple ==
  ASSUME NEW a \in Nat \ {0}, NEW m \in Nat, m % a = 0
  PROVE  \E k \in Nat : m = a * k
<1>1. PICK k \in Nat, r \in 0 .. a - 1 : m = a * k + r /\ m % a = r
  BY DivMod
<1>2. m = a * k
  <2>1. r = 0
    BY <1>1
  <2> QED BY <1>1, <2>1
<1> QED BY <1>2

(* __align_up: the least multiple from v up, unless the sum wraps around. *)
LEMMA AlignUpFacts ==
  ASSUME NEW v \in 0 .. SizeMax, NEW a \in Pow2s
  PROVE  LET u == AlignUp(v, a)
         IN  /\ u \in Nat /\ u % a = 0
             /\ v + (a - 1) < Word => v <= u /\ u < v + a
             /\ v + (a - 1) >= Word => u = 0 /\ ~ \E m \in v .. SizeMax : m % a = 0
             /\ \A m \in v .. SizeMax : m % a = 0 => u <= m
<1> DEFINE u == AlignUp(v, a)
           w == (v + a - 1) % Word
<1>1. /\ a \in Nat \ {0} /\ a < Word /\ Word \in Nat \ {0} /\ v \in Nat /\ v < Word
      /\ SizeMax \in Nat /\ SizeMax + 1 = Word
  BY WordNumbers
<1>2. PICK s \in Nat : s = v + a - 1 /\ s = v + (a - 1)
  BY <1>1
<1>3. CASE s < Word
  <2>1. w = s
    BY <1>1, <1>2, <1>3
  <2>2. u = s - (s % a)
    BY <2>1 DEF AlignUp
  <2>3. PICK q \in Nat, r \in 0 .. a - 1 : s = a * q + r /\ s % a = r
    BY <1>1, DivMod
  <2>4. u = a * q
    BY <1>1, <2>2, <2>3
  <2>5. u \in Nat /\ v <= u /\ u < v + a
    BY <1>1, <1>2, <2>3, <2>4
  <2>6. u % a = 0
    <3>1. u = a * q + 0
      BY <1>1, <2>3, <2>4
    <3> HIDE DEF u
    <3> QED BY <1>1, <2>5, <3>1, Remainder
  <2>7. ASSUME NEW m \in v .. SizeMax, m % a = 0 PROVE u <= m
    <3>1. m \in Nat /\ v <= m
      BY <1>1
    <3>2. PICK k \in Nat : m = a * k
      BY <1>1, <2>7, <3>1, Multiple
    <3>3. a * q < a * k + a
      BY <1>1, <2>3, <2>4, <2>5, <3>1, <3>2
    <3>4. q <= k
      BY <1>1, <2>3, <3>2, <3>3, MultipleOrder
    <3>5. a * q <= a * k
      BY <1>1, <2>3, <3>2, <3>4
    <3> QED BY <2>4, <3>2, <3>5
  <2> HIDE DEF u
  <2> QED BY <1>1, <1>2, <1>3, <2>5, <2>6, <2>7 DEF u
<1>4. CASE s >= Word
  <2>1. PICK r \in 0 .. a - 1 : s = Word * 1 + r /\ r < Word
    <3>1. s - Word \in 0 .. a - 1 /\ s = Word * 1 + (s - Word) /\ s - Word < Word
      BY <1>1, <1>2, <1>4
    <3> QED BY <3>1
  <2>2. w = r
    BY <1>1, <1>2, <2>1, Remainder
  <2>3. u = r - (r % a)
    BY <2>2 DEF AlignUp
  <2>4. r % a = r
    <3>1. r = a * 0 + r /\ r \in Nat
      BY <1>1, <2>1
    <3> QED BY <1>1, <2>1, <3>1, Remainder
  <2>5. u = 0
    BY <1>1, <2>1, <2>3, <2>4
  <2>6. 0 % a = 0
    BY <1>1
  <2>7. ASSUME NEW m \in v .. SizeMax, m % a = 0 PROVE FALSE
    <3>1. PICK k \in 0 .. WordBits - 1 : a = 2 ^ k
      BY WordNumbers
    <3>2. PICK q \in Nat : Word = a * q
      <4>1. k \in Nat /\ WordBits \in Nat /\ k < WordBits
        BY SetupAssumption
      <4>2. PICK j \in Nat : WordBits = k + j
        <5>1. WordBits - k \in Nat /\ WordBits = k + (WordBits - k)
          BY <4>1
        <5> QED BY <5>1
      <4>3. 2 ^ WordBits = 2 ^ k * 2 ^ j /\ 2 ^ j \in Nat
        BY <4>1, <4>2, PowSum, PowType
      <4> QED BY <3>1, <4>3 DEF Word
    <3>3. m \in Nat /\ v <= m /\ m < Word
      BY <1>1
    <3>4. PICK p \in Nat : m = a * p
      BY <1>1, <2>7, <3>3, Multiple
    <3>5. a * q < a * p + a
      BY <1>1, <1>2, <1>4, <3>2, <3>3, <3>4
    <3>6. q <= p
      BY <1>1, <3>2, <3>4, <3>5, MultipleOrder
    <3>7. a * q <= a * p
      BY <1>1, <3>2, <3>4, <3>6
    <3> QED BY <3>2, <3>3, <3>4, <3>7
  <2>8. u \in Nat /\ u % a = 0
    BY <2>5, <2>6
  <2> HIDE DEF u
  <2>9. ~ (v + (a - 1) < Word)
    BY <1>1, <1>2, <1>4
  <2> QED BY <2>5, <2>7, <2>8, <2>9 DEF u
<1> QED BY <1>1, <1>2, <1>3, <1>4

(* __next_pow2: the least power of two from v up, if a word can hold it. *)
LEMMA NextPow2Facts ==
  ASSUME NEW v \in 1 .. SizeMax
  PROVE  \/ /\ NextPow2(v) \in Pow2s /\ v <= NextPow2(v)
            /\ \A p \in Pow2s : v <= p => NextPow2(v) <= p
         \/ NextPow2(v) = SizeMax
<1>1. /\ SizeMax \in Nat /\ SizeMax >= 1 /\ WordBits \in Nat /\ WordBits >= 1 /\ v \in Nat
      /\ \A a \in Pow2s : a \in Nat \ {0}
  BY WordNumbers, SetupAssumption
<1>2. CASE v <= 1
  <2>1. NextPow2(v) = 1 /\ 1 \in Pow2s
    <3>1. 0 \in 0 .. WordBits - 1
      BY <1>1
    <3> QED BY <1>2, <3>1, PowZero DEF NextPow2, Pow2s
  <2> QED BY <1>1, <1>2, <2>1
<1>3. CASE v > 1
  <2>1. v - 1 \in 1 .. SizeMax
    BY <1>1, <1>3
  <2>2. PICK k \in 0 .. WordBits - 1 : k = Fls(v - 1) /\ 2 ^ k <= v - 1 /\ v - 1 < 2 ^ (k + 1)
    BY <2>1, FlsFacts
  <2>3. CASE k + 1 >= WordBits
    BY <1>3, <2>2, <2>3 DEF NextPow2
  <2>4. CASE k + 1 < WordBits
    <3>1. NextPow2(v) = 2 ^ (k + 1) /\ k + 1 \in 0 .. WordBits - 1
      BY <1>1, <1>3, <2>2, <2>4 DEF NextPow2
    <3>2. NextPow2(v) \in Pow2s
      BY <3>1 DEF Pow2s
    <3>3. v <= NextPow2(v)
      <4>1. NextPow2(v) \in Nat
        BY <1>1, <3>2
      <4> QED BY <1>1, <2>2, <3>1, <4>1
    <3>4. ASSUME NEW p \in Pow2s, v <= p PROVE NextPow2(v) <= p
      <4>1. 2 ^ k \in Pow2s /\ 2 ^ (k + 1) = 2 * 2 ^ k
        BY <1>1, <2>2, PowStep DEF Pow2s
      <4>2. PICK a \in Pow2s : a = 2 ^ k
        BY <4>1
      <4>3. a <= p /\ a # p /\ NextPow2(v) = 2 * a
        BY <1>1, <2>2, <3>1, <3>4, <4>1, <4>2
      <4> QED BY <4>3, PowerRatio
    <3> QED BY <3>2, <3>3, <3>4
  <2> QED BY <1>1, <2>2, <2>3, <2>4
<1> QED BY <1>1, <1>2, <1>3

(* order_for_size: the least order whose blocks hold n bytes. *)
LEMMA OrderForSizeFacts ==
  ASSUME NEW n \in 1 .. SizeMax
  PROVE  LET o == OrderForSize(n)
         IN  /\ o \in 0 .. WordBits /\ OrderBytes(o) \in Nat /\ n <= OrderBytes(o)
             /\ \A p \in Pow2s : Min <= p /\ n <= p => OrderBytes(o) <= p
<1> DEFINE o == OrderForSize(n)
           x == (n - 1) \div Min
           y == IF x % 2 = 0 THEN x + 1 ELSE x
<1>1. /\ Min \in Pow2s /\ Min \in Nat \ {0} /\ Min >= 4 /\ n \in Nat /\ n >= 1 /\ n - 1 \in Nat
      /\ SizeMax \in Nat /\ WordBits \in Nat /\ WordBits >= 1
      /\ \A p \in Pow2s : p \in Nat \ {0}
  BY WordNumbers, SetupAssumption
<1>2. PICK q \in Nat, r \in 0 .. Min - 1 : n - 1 = Min * q + r /\ x = q
  BY <1>1, DivMod
<1>3. o = Fls(y) + (IF x # 0 THEN 1 ELSE 0)
  BY DEF OrderForSize
<1>4. CASE q = 0
  <2>1. o = 0
    <3>1. y = 1
      BY <1>2, <1>4
    <3>2. Fls(1) = 0
      <4>1. 1 \in 1 .. SizeMax /\ 2 ^ 0 <= 1 /\ 1 < 2 ^ (0 + 1)
        BY <1>1, PowZero, PowStep
      <4> QED BY <4>1, FlsFacts
    <3> HIDE DEF y
    <3> QED BY <1>2, <1>3, <1>4, <3>1, <3>2
  <2>2. OrderBytes(o) = Min
    <3> HIDE DEF o
    <3> QED BY <1>1, <2>1, PowZero DEF OrderBytes
  <2>3. n <= Min
    BY <1>1, <1>2, <1>4
  <2> QED BY <1>1, <2>1, <2>2, <2>3
<1>5. CASE q >= 1
  <2>1. y \in 1 .. SizeMax
    <3>1. Min * q >= 4 * q
      BY <1>1
    <3>2. n - 1 >= 4 * q
      BY <1>1, <1>2, <3>1
    <3> QED BY <1>1, <1>2, <1>5, <3>2
  <2>2. PICK k \in 0 .. WordBits - 1 : k = Fls(y) /\ 2 ^ k <= y /\ y < 2 ^ (k + 1)
    BY <2>1, FlsFacts
  <2>3. k \in Nat /\ o = k + 1
    BY <1>1, <1>2, <1>3, <1>5, <2>2
  <2>4. PICK a \in Nat \ {0} : a = 2 ^ k /\ 2 ^ (k + 1) = 2 * a
    BY <2>3, PowStep, PowType
  <2>5. a <= q /\ q + 1 <= 2 * a
    <3>1. CASE q % 2 = 0
      <4>1. y = q + 1
        BY <1>2, <3>1
      <4>2. PICK j \in Nat : q = 2 * j
        BY <3>1, Multiple
      <4>3. a <= q + 1 /\ q + 1 < 2 * a
        <5> HIDE DEF y
        <5> QED BY <2>2, <2>4, <4>1
      <4>4. a # q + 1
        <5>1. CASE k = 0
          BY <1>5, <2>4, <5>1, PowZero
        <5>2. CASE k > 0
          <6>1. k - 1 \in Nat /\ k - 1 + 1 = k
            BY <2>3, <5>2
          <6>2. PICK e \in Nat : a = 2 * e
            BY <2>4, <6>1, PowStep
          <6> QED BY <4>2, <6>2
        <5> QED BY <2>3, <5>1, <5>2
      <4> QED BY <4>3, <4>4
    <3>2. CASE q % 2 # 0
      <4>1. y = q
        BY <1>2, <3>2
      <4> HIDE DEF y
      <4> QED BY <2>2, <2>4, <4>1
    <3> QED BY <3>1, <3>2
  <2>6. OrderBytes(o) = Min * (2 * a)
    <3> HIDE DEF o
    <3> QED BY <2>3, <2>4 DEF OrderBytes
  <2>7. n <= OrderBytes(o) /\ OrderBytes(o) \in Nat
    <3>1. n <= Min * (q + 1)
      BY <1>1, <1>2
    <3>2. Min * (q + 1) <= Min * (2 * a) /\ Min * (2 * a) \in Nat
      BY <1>1, <2>5
    <3>3. Min * (q + 1) \in Nat
      BY <1>1
    <3> HIDE DEF o
    <3> QED BY <1>1, <2>6, <3>1, <3>2, <3>3
  <2>8. ASSUME NEW p \in Pow2s, Min <= p, n <= p PROVE OrderBytes(o) <= p
    <3>1. PICK m \in 0 .. WordBits - 1 : Min = 2 ^ m
      BY <1>1, WordNumbers
    <3>2. PICK j \in 0 .. WordBits - 1 : p = 2 ^ j
      BY WordNumbers
    <3>3. m \in Nat /\ j \in Nat /\ m <= j
      <4>1. m \in Nat /\ j \in Nat /\ p \in Nat
        BY <1>1
      <4> QED BY <1>1, <2>8, <3>1, <3>2, <4>1, PowMonotone
    <3>4. PICK i \in Nat : j = m + i
      <4>1. j - m \in Nat /\ j = m + (j - m)
        BY <3>3
      <4> QED BY <4>1
    <3>5. PICK c \in Nat \ {0} : c = 2 ^ i
      BY PowType
    <3>6. p = Min * c
      BY <3>1, <3>2, <3>3, <3>4, <3>5, PowSum
    <3>7. Min * a < Min * c
      <4>1. Min * a <= Min * q
        BY <1>1, <2>5
      <4>2. Min * q < p
        BY <1>1, <1>2, <2>8
      <4> QED BY <1>1, <3>6, <4>1, <4>2
    <3>8. a < c
      <4> SUFFICES ASSUME c <= a PROVE FALSE
        BY <3>5
      <4>1. Min * c <= Min * a
        BY <1>1
      <4> QED BY <1>1, <3>7, <4>1
    <3>9. k + 1 <= i
      <4> SUFFICES ASSUME i <= k PROVE FALSE
        BY <2>3
      <4>1. i = k \/ 2 ^ i < 2 ^ k
        BY <2>3, PowMonotone
      <4> QED BY <2>4, <3>5, <3>8, <4>1
    <3>10. 2 * a <= c
      <4>1. i = k + 1 \/ 2 ^ (k + 1) < 2 ^ i
        BY <2>3, <3>9, PowMonotone
      <4> QED BY <2>4, <3>5, <4>1
    <3>11. Min * (2 * a) <= Min * c
      BY <1>1, <3>10
    <3> HIDE DEF o
    <3> QED BY <2>6, <3>6, <3>11
  <2>9. o \in 0 .. WordBits
    <3> HIDE DEF o
    <3> QED BY <1>1, <2>3
  <2> HIDE DEF o
  <2> QED BY <2>7, <2>8, <2>9 DEF o
<1> QED BY <1>2, <1>4, <1>5

(* The room for the tags: one byte for each unit of what is left. *)
LEMMA TagAreaFacts ==
  ASSUME NEW n \in Nat, n + Min < Word
  PROVE  LET t == TagArea(n)
         IN  /\ t \in Nat /\ t * (Min + 1) >= n /\ t * (Min + 1) <= n + Min
             /\ t <= n
             /\ 4 * Min <= n => 4 * t <= n
<1>1. Min \in Nat /\ Min >= 4 /\ Word \in Nat
  BY SetupAssumption, WordNumbers
<1>2. PICK c \in Nat \ {0} : c = Min + 1
  BY <1>1
<1>3. PICK s \in Nat : s = n + Min
  BY <1>1
<1>4. PICK t \in Nat, r \in 0 .. c - 1 : s = c * t + r /\ s \div c = t
  BY DivMod
<1>5. TagArea(n) = t
  <2>1. s % Word = s
    <3>1. s \in 0 .. Word - 1
      BY <1>1, <1>3
    <3> QED BY <1>1, <3>1
  <2> QED BY <1>2, <1>3, <1>4, <2>1 DEF TagArea
<1>6. c * t >= n /\ c * t <= n + Min
  BY <1>1, <1>2, <1>3, <1>4
<1>7. t * c = c * t /\ c * t >= 5 * t
  BY <1>1, <1>2
<1>8. t <= n
  <2>1. CASE n = 0
    <3>1. c * t < c * 0 + c
      BY <1>1, <1>2, <1>6, <2>1
    <3>2. t <= 0
      BY <3>1, MultipleOrder
    <3> QED BY <2>1, <3>2
  <2>2. CASE n >= 1
    <3> SUFFICES ASSUME t >= n + 1 PROVE FALSE
      OBVIOUS
    <3>1. c * t >= c * (n + 1) /\ c * (n + 1) = Min * n + n + Min + 1
      BY <1>1, <1>2
    <3>2. Min * n >= 0
      BY <1>1
    <3> QED BY <1>1, <1>6, <3>1, <3>2
  <2> QED BY <2>1, <2>2
<1>9. 4 * Min <= n => 4 * t <= n
  BY <1>1, <1>6, <1>7
<1> QED BY <1>2, <1>5, <1>6, <1>7, <1>8, <1>9

LEMMA MxFacts ==
  /\ Mx \in Nat \ {0} /\ Mx <= WordBits
  /\ \E half \in Nat \ {0} : 2 ^ Mx = 2 * half /\ MaxRegion < Min * (2 * half)
<1> DEFINE x == MaxRegion \div Min
<1>1. /\ Min \in Nat \ {0} /\ Min >= 4 /\ MaxRegion \in Nat /\ MaxRegion >= Min /\ MaxRegion <= SizeMax
      /\ SizeMax \in Nat /\ WordBits \in Nat
  <2>1. SheetLen \in Nat /\ Min \in Nat /\ Min \in Nat \ {0} /\ SizeMax \in Nat /\ MaxRegion \in Nat
    BY WordNumbers, SetupAssumption
  <2>2. MaxRegion >= 4 * SheetLen /\ SheetLen >= Min /\ MaxRegion <= SizeMax \div 2
    BY SetupAssumption
  <2>3. SizeMax \div 2 <= SizeMax
    BY <2>1
  <2> QED BY <2>1, <2>2, <2>3, SetupAssumption
<1>2. PICK q \in Nat, r \in 0 .. Min - 1 : MaxRegion = Min * q + r /\ x = q
  BY <1>1, DivMod
<1>3. q \in 1 .. SizeMax
  <2>1. q >= 1
    <3> SUFFICES ASSUME q = 0 PROVE FALSE
      BY <1>2
    <3> QED BY <1>1, <1>2
  <2>2. Min * q >= q
    BY <1>1
  <2> QED BY <1>1, <1>2, <2>1, <2>2
<1>4. PICK k \in 0 .. WordBits - 1 : k = Fls(q) /\ q < 2 ^ (k + 1)
  BY <1>3, FlsFacts
<1>5. Mx = k + 1 /\ k \in Nat
  BY <1>1, <1>2, <1>4 DEF Mx
<1>6. PICK half \in Nat \ {0} : half = 2 ^ k /\ 2 ^ Mx = 2 * half
  BY <1>5, PowStep, PowType
<1>7. MaxRegion < Min * (2 * half)
  <2>1. q + 1 <= 2 * half
    BY <1>4, <1>5, <1>6
  <2>2. Min * (q + 1) <= Min * (2 * half)
    BY <1>1, <2>1
  <2>3. MaxRegion < Min * (q + 1)
    BY <1>1, <1>2
  <2>4. Min * (q + 1) \in Nat /\ Min * (2 * half) \in Nat
    BY <1>1
  <2> QED BY <1>1, <2>2, <2>3, <2>4
<1> QED BY <1>1, <1>4, <1>5, <1>6, <1>7

LEMMA WantedAlignFacts ==
  ASSUME NEW want \in 0 .. SizeMax
  PROVE  WantedAlign(want) \in Pow2s /\ Min <= WantedAlign(want)
<1> DEFINE v == IF want < Min THEN Min ELSE want
<1>1. Min \in Pow2s /\ Min \in Nat \ {0} /\ Min <= SizeMax /\ SizeMax \in Nat /\ \A a \in Pow2s : a \in Nat
  BY WordNumbers, SetupAssumption
<1>2. v \in 1 .. SizeMax /\ Min <= v
  BY <1>1
<1>3. WantedAlign(want) = IF v \in Pow2s THEN v ELSE 2 ^ Fls(v)
  BY DEF WantedAlign, IsPow2
<1> HIDE DEF v
<1>4. CASE v \in Pow2s
  BY <1>2, <1>3, <1>4
<1>5. CASE v \notin Pow2s
  <2>1. PICK a \in Pow2s : a = 2 ^ Fls(v) /\ Fls(v) \in 0 .. WordBits - 1 /\ v < 2 ^ (Fls(v) + 1)
    BY <1>2, FlsFacts
  <2>2. 2 ^ (Fls(v) + 1) = 2 * a
    BY <2>1, PowStep, SetupAssumption
  <2>3. Min <= a
    <3> SUFFICES ASSUME a < Min PROVE FALSE
      BY <1>1
    <3>1. 2 * a <= Min
      BY <1>1, PowerRatio
    <3> QED BY <1>1, <1>2, <2>1, <2>2, <3>1
  <2> QED BY <1>3, <1>5, <2>1, <2>3
<1> QED BY <1>4, <1>5

(* The loop that halves the alignment stops at the largest that fits. *)
LEMMA FittingAlignFacts ==
  ASSUME NEW data, NEW end, NEW want
  PROVE  LET al == FittingAlign(data, end, want)
             fit == {a \in Pow2s : Min <= a /\ a <= want /\ AlignFits(data, end, a)}
         IN  \/ al = 0 /\ fit = {}
             \/ al \in fit /\ \A a \in fit : a <= al
<1> DEFINE fit == {a \in Pow2s : Min <= a /\ a <= want /\ AlignFits(data, end, a)}
<1>1. CASE fit = {}
  BY <1>1, Zenon DEF FittingAlign
<1>2. CASE fit # {}
  <2>1. fit \subseteq 0 .. SizeMax
    BY WordNumbers
  <2> HIDE DEF fit
  <2>2. \E a \in fit : \A c \in fit : c <= a
    <3> DEFINE co == {SizeMax - a : a \in fit}
    <3>1. co \subseteq Nat /\ co # {}
      <4>1. SizeMax \in Nat
        BY WordNumbers
      <4>2. \A a \in fit : SizeMax - a \in Nat
        BY <2>1, <4>1
      <4>3. co \subseteq Nat
        BY <4>2, Zenon
      <4>4. co # {}
        BY <1>2, Zenon
      <4> QED BY <4>3, <4>4
    <3>2. PICK x \in co : \A y \in co : x <= y
      <4> HIDE DEF co
      <4> QED BY <3>1, LeastElement
    <3>3. PICK a \in fit : x = SizeMax - a
      OBVIOUS
    <3>4. \A c \in fit : SizeMax - a <= SizeMax - c
      BY <3>2, <3>3
    <3> QED BY <2>1, <3>3, <3>4, WordNumbers
  <2>3. FittingAlign(data, end, want) = CHOOSE a \in fit : \A c \in fit : c <= a
    BY <1>2, Zenon DEF FittingAlign, fit
  <2>4. FittingAlign(data, end, want) \in fit /\ \A c \in fit : c <= FittingAlign(data, end, want)
    BY <2>2, <2>3, Zenon
  <2> QED BY <2>4 DEF fit
<1> QED BY <1>1, <1>2

LEMMA AtMostFacts ==
  ASSUME NEW x \in Nat, NEW cap \in Nat
  PROVE  AtMost(x, cap) \in {x, cap} /\ AtMost(x, cap) <= x /\ AtMost(x, cap) <= cap
BY DEF AtMost

(* Where the data begin and what is made of the memory. *)
First(m, n, ext) == m + (IF ext = None THEN TagArea(n) ELSE 0)

LEMMA SetUpFacts ==
  ASSUME NEW m \in Nat \ {0}, NEW n \in Nat, m + n < Word, n + Min < Word,
         NEW ext \in Nat \union {None}, NEW want \in 0 .. SizeMax
  PROVE  LET p == SetUp(m, n, ext, want)
             f == First(m, n, ext)
         IN  /\ f \in Nat /\ m <= f /\ f <= m + n
             /\ p.ok \in BOOLEAN
             /\ p.ok =>
                  /\ p.align \in Pow2s /\ Min <= p.align /\ AlignFits(f, m + n, p.align)
                  /\ p.base = AlignUp(f, p.align)
                  /\ \A a \in Pow2s : Min <= a /\ a <= WantedAlign(want) /\ AlignFits(f, m + n, a) => a <= p.align
                  /\ p.tags = IF ext = None THEN m ELSE None
                  /\ p.max_order = Fls(p.count) + 1
                  /\ \E bytes \in Nat :
                       /\ bytes = AtMost(AtMost(m + n - p.base, (2 ^ Mx - 1) * Min), MaxTotal)
                       /\ p.count = (IF ext = None THEN bytes \div Min ELSE AtMost(bytes \div Min, ext))
                  /\ p.count # 0
             /\ ~ p.ok => n < 4 * Min \/ ext = 0 \/ ~ AlignFits(f, m + n, Min)
<1> DEFINE f     == First(m, n, ext)
           p     == SetUp(m, n, ext, want)
           w     == WantedAlign(want)
           align == FittingAlign(f, m + n, w)
           base  == AlignUp(f, align)
           bytes == AtMost(AtMost(m + n - base, (2 ^ Mx - 1) * Min), MaxTotal)
           count == IF ext = None THEN bytes \div Min ELSE AtMost(bytes \div Min, ext)
<1>1. p = IF m = 0 \/ n < 4 * Min \/ align = 0 \/ count = 0 THEN NoPool
          ELSE [ok |-> TRUE, base |-> base, align |-> align,
                tags |-> IF ext = None THEN m ELSE None,
                count |-> count, max_order |-> Fls(count) + 1]
  BY Zenon DEF SetUp, First
<1>2. /\ Min \in Nat \ {0} /\ Min \in Pow2s /\ MaxTotal \in Nat /\ MaxTotal >= Min /\ Word \in Nat /\ SizeMax + 1 = Word
      /\ w \in Pow2s /\ Min <= w /\ \A a \in Pow2s : a \in Nat \ {0}
      /\ SizeMax \in Nat
  <2>1. MaxTotal >= Min
    <3>1. SheetLen \in Nat /\ Min \in Nat /\ MaxTotal \in Nat /\ MaxRegion \in Nat
      BY WordNumbers, SetupAssumption
    <3>2. 2 * MaxTotal >= MaxRegion /\ MaxRegion >= 4 * SheetLen /\ SheetLen >= Min
      BY SetupAssumption
    <3> QED BY <3>1, <3>2
  <2> QED BY <2>1, WordNumbers, SetupAssumption, WantedAlignFacts
<1>3. f \in Nat /\ m <= f /\ f <= m + n
  BY TagAreaFacts DEF First
<1>4. PICK cap \in Nat : cap = (2 ^ Mx - 1) * Min /\ cap >= Min
  <2>1. PICK half \in Nat \ {0} : 2 ^ Mx = 2 * half
    BY MxFacts
  <2>2. PICK c \in Nat \ {0} : c = 2 * half - 1
    <3>1. 2 * half - 1 \in Nat \ {0}
      OBVIOUS
    <3> QED BY <3>1
  <2>3. c * Min \in Nat /\ c * Min >= Min
    BY <1>2, <2>2
  <2> QED BY <2>1, <2>2, <2>3
<1> HIDE DEF f, p, w
<1>5. \/ align = 0 /\ ~ AlignFits(f, m + n, Min)
      \/ /\ align \in Pow2s /\ Min <= align /\ AlignFits(f, m + n, align)
         /\ \A a \in Pow2s : Min <= a /\ a <= w /\ AlignFits(f, m + n, a) => a <= align
  BY <1>2, FittingAlignFacts
<1> HIDE DEF align
<1>6. ASSUME align \in Pow2s, AlignFits(f, m + n, align)
      PROVE  /\ bytes \in Nat /\ bytes >= Min /\ count \in Nat /\ (count = 0 => ext = 0)
  <2>1. base \in Nat
    BY <1>2, <1>3, <1>6, AlignUpFacts
  <2>2. base <= m + n /\ m + n - base >= 2 * Min
    <3>1. base <= m + n /\ (m + n) - base >= (IF align > 2 * Min THEN align ELSE 2 * Min)
      BY <1>6, Zenon DEF AlignFits
    <3> HIDE DEF base
    <3> QED BY <1>2, <1>6, <2>1, <3>1
  <2> HIDE DEF base
  <2>3. PICK avail \in Nat : avail = m + n - base /\ avail >= Min
    <3>1. m + n - base \in Nat
      BY <2>1, <2>2
    <3> QED BY <1>2, <2>2, <3>1
  <2>4. bytes \in Nat /\ bytes >= Min
    <3>1. AtMost(avail, cap) \in Nat /\ AtMost(avail, cap) >= Min
      BY <1>2, <1>4, <2>3 DEF AtMost
    <3>2. bytes = AtMost(AtMost(avail, cap), MaxTotal)
      BY <1>4, <2>3
    <3> HIDE DEF bytes
    <3> QED BY <1>2, <3>1, <3>2 DEF AtMost
  <2> HIDE DEF bytes
  <2>5. bytes \div Min \in Nat /\ bytes \div Min >= 1
    <3>1. PICK q \in Nat, r \in 0 .. Min - 1 : bytes = Min * q + r /\ bytes \div Min = q
      BY <1>2, <2>4, DivMod
    <3>2. q # 0
      BY <1>2, <2>4, <3>1
    <3> QED BY <3>1, <3>2
  <2>6. count \in Nat /\ (count = 0 => ext = 0)
    BY <2>5 DEF AtMost
  <2> QED BY <2>4, <2>6
<1> HIDE DEF count
<1>7. CASE p = NoPool
  <2>1. ~ p.ok /\ p.ok \in BOOLEAN
    BY <1>7 DEF NoPool
  <2>2. n < 4 * Min \/ ext = 0 \/ ~ AlignFits(f, m + n, Min)
    <3> SUFFICES ASSUME ~ (n < 4 * Min), AlignFits(f, m + n, Min), ext # 0 PROVE FALSE
      OBVIOUS
    <3>1. align \in Pow2s /\ AlignFits(f, m + n, align) /\ align # 0
      BY <1>2, <1>5
    <3>2. count # 0
      BY <1>6, <3>1
    <3>3. p.ok
      BY <1>1, <3>1, <3>2
    <3> QED BY <2>1, <3>3
  <2> QED BY <1>3, <2>1, <2>2 DEF f, p
<1>8. CASE p # NoPool
  <2>1. /\ align # 0 /\ count # 0
        /\ p = [ok |-> TRUE, base |-> base, align |-> align,
                tags |-> IF ext = None THEN m ELSE None,
                count |-> count, max_order |-> Fls(count) + 1]
    BY <1>1, <1>8
  <2> HIDE DEF base
  <2>2. /\ p.ok /\ p.ok \in BOOLEAN /\ p.base = base /\ p.align = align
        /\ p.tags = (IF ext = None THEN m ELSE None)
        /\ p.count = count /\ p.max_order = Fls(count) + 1
    BY <2>1
  <2>3. align \in Pow2s /\ Min <= align /\ AlignFits(f, m + n, align)
        /\ \A a \in Pow2s : Min <= a /\ a <= w /\ AlignFits(f, m + n, a) => a <= align
    BY <1>5, <2>1
  <2>4. p.base = AlignUp(f, p.align)
    BY <2>2 DEF base
  <2>5. \E by \in Nat :
          /\ by = AtMost(AtMost(m + n - p.base, (2 ^ Mx - 1) * Min), MaxTotal)
          /\ p.count = (IF ext = None THEN by \div Min ELSE AtMost(by \div Min, ext))
    <3>1. bytes \in Nat
      BY <1>6, <2>3
    <3> WITNESS bytes \in Nat
    <3>2. bytes = AtMost(AtMost(m + n - p.base, (2 ^ Mx - 1) * Min), MaxTotal)
      BY <2>2
    <3> HIDE DEF bytes
    <3> QED BY <2>2, <3>2 DEF count
  <2> HIDE DEF bytes
  <2> QED BY <1>3, <2>1, <2>2, <2>3, <2>4, <2>5 DEF f, p, w
<1> QED BY <1>7, <1>8

(* Memory that is set up is laid out as the pool takes it to be. *)
LEMMA PoolFacts ==
  ASSUME NEW m \in Nat \ {0}, NEW n \in Nat, m + n < Word, n + Min < Word,
         NEW ext \in Nat \union {None}, NEW want \in 0 .. SizeMax
  PROVE  LET p    == SetUp(m, n, ext, want)
             data == p.base + p.count * Min
         IN  p.ok => /\ p.tags = m => m + p.count <= p.base
                     /\ ext # None => p.count <= ext
                     /\ m <= p.base /\ data <= m + n
                     /\ p.base % p.align = 0 /\ p.align >= Min
                     /\ \/ m + n - data < Min
                        \/ p.count \in {ext, 2 ^ Mx - 1} \/ p.count = MaxTotal \div Min
                     /\ OrderBytes(p.max_order - 1) <= p.count * Min
                     /\ p.count * Min < OrderBytes(p.max_order) /\ p.max_order <= Mx
<1> DEFINE p == SetUp(m, n, ext, want)
           f == First(m, n, ext)
<1> SUFFICES ASSUME p.ok
             PROVE  /\ p.tags = m => m + p.count <= p.base
                    /\ ext # None => p.count <= ext
                    /\ m <= p.base /\ p.base + p.count * Min <= m + n
                    /\ p.base % p.align = 0 /\ p.align >= Min
                    /\ \/ m + n - (p.base + p.count * Min) < Min
                       \/ p.count \in {ext, 2 ^ Mx - 1} \/ p.count = MaxTotal \div Min
                    /\ OrderBytes(p.max_order - 1) <= p.count * Min
                    /\ p.count * Min < OrderBytes(p.max_order) /\ p.max_order <= Mx
  OBVIOUS
<1>1. /\ Min \in Nat \ {0} /\ MaxTotal \in Nat /\ Word \in Nat /\ SizeMax + 1 = Word /\ SizeMax \in Nat
      /\ WordBits \in Nat
  BY WordNumbers, SetupAssumption
<1>2. /\ f \in Nat /\ m <= f /\ f <= m + n
      /\ p.align \in Pow2s /\ Min <= p.align /\ AlignFits(f, m + n, p.align)
      /\ p.base = AlignUp(f, p.align)
      /\ p.tags = (IF ext = None THEN m ELSE None)
      /\ p.max_order = Fls(p.count) + 1
      /\ p.count # 0
  BY SetUpFacts
<1>3. PICK bytes \in Nat :
        /\ bytes = AtMost(AtMost(m + n - p.base, (2 ^ Mx - 1) * Min), MaxTotal)
        /\ p.count = (IF ext = None THEN bytes \div Min ELSE AtMost(bytes \div Min, ext))
  BY SetUpFacts
<1>4. ext = None => f = m + TagArea(n)
  BY DEF First
<1>5. PICK A \in Pow2s : A = p.align
  BY <1>2
<1>6. PICK base : base = p.base
  OBVIOUS
<1>7. PICK count : count = p.count
  OBVIOUS
<1>8. p.tags = (IF ext = None THEN m ELSE None) /\ p.max_order = Fls(count) + 1
  BY <1>2, <1>7
<1> HIDE DEF f, p
<1>9. base \in Nat /\ base % A = 0 /\ f <= base /\ base <= m + n
  <2>1. base = AlignUp(f, A) /\ f \in 0 .. SizeMax
    BY <1>1, <1>2, <1>5, <1>6
  <2>2. base >= f /\ base <= m + n
    BY <1>2, <1>5, <2>1 DEF AlignFits
  <2>3. base \in Nat /\ base % A = 0
    BY <2>1, AlignUpFacts
  <2> QED BY <2>2, <2>3
<1>10. PICK avail \in Nat : avail = m + n - base
  BY <1>9
<1>11. PICK tops \in Nat : tops = 2 ^ Mx - 1
  BY MxFacts
<1>12. PICK cap \in Nat : cap = tops * Min
  BY <1>1
<1>13. /\ bytes \in {avail, cap, MaxTotal} /\ bytes <= avail /\ bytes <= cap
  <2>1. bytes = AtMost(AtMost(avail, cap), MaxTotal)
    BY <1>3, <1>6, <1>10, <1>11, <1>12
  <2>2. PICK x \in Nat : x = AtMost(avail, cap) /\ x \in {avail, cap} /\ x <= avail /\ x <= cap
    BY AtMostFacts
  <2>3. bytes \in {x, MaxTotal} /\ bytes <= x
    BY <1>1, <2>1, <2>2, AtMostFacts
  <2> QED BY <2>2, <2>3
<1>14. PICK q \in Nat, r \in 0 .. Min - 1 : bytes = Min * q + r /\ bytes \div Min = q
  BY <1>1, DivMod
<1>15. /\ count \in Nat \ {0} /\ count <= q /\ count \in {q, ext}
       /\ ext # None => count <= ext
       /\ ext = None => count = q
  <2>1. count = IF ext = None THEN q ELSE AtMost(q, ext)
    BY <1>3, <1>7, <1>14
  <2>2. CASE ext = None
    BY <1>2, <1>7, <2>1, <2>2
  <2>3. CASE ext # None
    <3>1. count \in {q, ext} /\ count <= q /\ count <= ext
      BY <2>1, <2>3, AtMostFacts
    <3> QED BY <1>2, <1>7, <2>3, <3>1
  <2> QED BY <2>2, <2>3
<1>16. PICK size \in Nat : size = count * Min /\ size = Min * count
  BY <1>1, <1>15
<1>17. size <= bytes
  <2>1. Min * count <= Min * q
    BY <1>1, <1>15
  <2> QED BY <1>1, <1>14, <1>16, <2>1
<1>18. base + size <= m + n
  BY <1>9, <1>10, <1>13, <1>17
<1>19. ext = None => m + count <= base
  <2> SUFFICES ASSUME ext = None PROVE m + count <= base
    OBVIOUS
  <2>1. PICK t \in Nat : t = TagArea(n) /\ t * (Min + 1) >= n
    BY TagAreaFacts
  <2>2. f = m + t
    BY <1>4, <2>1
  <2>3. size <= n - t
    BY <1>1, <1>9, <1>18, <2>2
  <2>4. Min * t >= n - t
    BY <1>1, <2>1
  <2>5. Min * count < Min * t + Min
    BY <1>1, <1>16, <2>3, <2>4
  <2>6. count <= t
    BY <1>1, <1>15, <2>5, MultipleOrder
  <2> QED BY <1>9, <1>15, <2>2, <2>6
<1>20. \/ m + n - (base + size) < Min
       \/ count \in {ext, tops} \/ count = MaxTotal \div Min
  <2>1. CASE count = q /\ bytes = avail
    <3>1. size = Min * q
      BY <1>16, <2>1
    <3> QED BY <1>1, <1>9, <1>10, <1>14, <2>1, <3>1
  <2>2. CASE count = q /\ bytes = cap
    <3>1. q = tops
      <4>1. Min * tops < Min * q + Min /\ Min * q < Min * tops + Min
        BY <1>1, <1>12, <1>14, <2>2
      <4>2. tops <= q /\ q <= tops
        BY <1>1, <4>1, MultipleOrder
      <4> QED BY <4>2
    <3> QED BY <2>2, <3>1
  <2>3. CASE count = q /\ bytes = MaxTotal
    BY <1>14, <2>3
  <2>4. CASE count = ext
    BY <2>4
  <2> QED BY <1>13, <1>15, <2>1, <2>2, <2>3, <2>4
<1>21. count <= tops
  <2>1. Min * count < Min * tops + Min
    BY <1>1, <1>12, <1>13, <1>16, <1>17
  <2> QED BY <1>1, <1>15, <2>1, MultipleOrder
<1>22. PICK k \in 0 .. WordBits - 1 : k = Fls(count) /\ 2 ^ k <= count /\ count < 2 ^ (k + 1)
  <2>1. count <= SizeMax
    <3>1. size >= count
      <4>1. PICK d \in Nat : Min = 1 + d
        <5>1. Min - 1 \in Nat /\ Min = 1 + (Min - 1)
          BY <1>1
        <5> QED BY <5>1
      <4>2. size = count + d * count /\ d * count >= 0
        BY <1>15, <1>16, <4>1
      <4> QED BY <1>15, <4>2
    <3> QED BY <1>1, <1>9, <1>15, <1>18, <3>1
  <2>2. count \in 1 .. SizeMax
    BY <1>15, <2>1
  <2> QED BY <2>2, FlsFacts
<1>23. PICK lo \in Nat, hi \in Nat : lo = 2 ^ k /\ hi = 2 ^ (k + 1) /\ lo <= count /\ count < hi
  <2>1. k \in Nat /\ k + 1 \in Nat
    BY <1>1
  <2> QED BY <1>22, <2>1, PowType
<1>24. OrderBytes(k) <= size /\ size < OrderBytes(k + 1)
  <2>1. OrderBytes(k) = Min * lo /\ OrderBytes(k + 1) = Min * hi
    BY <1>23 DEF OrderBytes
  <2>2. Min * lo <= Min * count
    BY <1>1, <1>15, <1>23
  <2>3. Min * (count + 1) <= Min * hi /\ Min * (count + 1) = Min * count + Min
    BY <1>1, <1>15, <1>23
  <2>4. Min * lo \in Nat /\ Min * hi \in Nat
    BY <1>1
  <2> QED BY <1>1, <1>16, <2>1, <2>2, <2>3, <2>4
<1>25. k + 1 <= Mx
  <2> SUFFICES ASSUME Mx <= k PROVE FALSE
    BY <1>1, MxFacts
  <2>1. Mx \in Nat /\ k \in Nat
    BY <1>1, MxFacts
  <2>2. Mx = k \/ 2 ^ Mx < 2 ^ k
    BY <2>1, PowMonotone
  <2>3. 2 ^ Mx \in Nat /\ 2 ^ k \in Nat /\ 2 ^ Mx = tops + 1
    BY <1>11, <2>1, PowType
  <2> QED BY <1>15, <1>21, <1>22, <2>2, <2>3
<1>26. p.max_order - 1 = k /\ p.max_order = k + 1
  BY <1>1, <1>8, <1>22
<1>27. p.tags = m => m + count <= base
  <2>1. m # None
    BY DEF None
  <2> QED BY <1>8, <1>19, <2>1
<1>28. m <= base /\ A >= Min
  BY <1>1, <1>2, <1>5, <1>9, WordNumbers
<1>29. p.align = A /\ p.base = base /\ p.count = count /\ count * Min = size /\ 2 ^ Mx - 1 = tops
  BY <1>5, <1>6, <1>7, <1>11, <1>16
<1> QED BY <1>9, <1>15, <1>18, <1>20, <1>24, <1>25, <1>26, <1>27, <1>28, <1>29

(* Memory that is refused holds no two units. *)
LEMMA RefusalFacts ==
  ASSUME NEW m \in Nat \ {0}, NEW n \in Nat, m + n < Word, n + Min < Word,
         NEW ext \in Nat \union {None}, NEW want \in 0 .. SizeMax,
         ~ SetUp(m, n, ext, want).ok
  PROVE  \/ n < 4 * Min \/ ext = 0
         \/ ~ \E x \in First(m, n, ext) .. m + n - 2 * Min : x % Min = 0
<1>1. Min \in Pow2s /\ Min \in Nat \ {0} /\ Word \in Nat /\ SizeMax + 1 = Word /\ SizeMax \in Nat
  BY WordNumbers, SetupAssumption
<1>2. PICK f \in Nat : f = First(m, n, ext) /\ m <= f /\ f <= m + n
  BY SetUpFacts
<1>3. n < 4 * Min \/ ext = 0 \/ ~ AlignFits(f, m + n, Min)
  BY <1>2, SetUpFacts
<1> SUFFICES ASSUME NEW x \in f .. m + n - 2 * Min, x % Min = 0
             PROVE  AlignFits(f, m + n, Min)
  BY <1>2, <1>3
<1>4. x \in f .. SizeMax /\ f \in 0 .. SizeMax /\ x \in Nat /\ x + 2 * Min <= m + n
  BY <1>1, <1>2
<1>5. PICK u : u = AlignUp(f, Min)
  OBVIOUS
<1>6. u \in Nat /\ u <= x /\ f <= u
  <2>1. u \in Nat /\ u <= x
    BY <1>1, <1>4, <1>5, AlignUpFacts
  <2>2. f + (Min - 1) < Word
    BY <1>1, <1>4, AlignUpFacts
  <2>3. f <= u
    BY <1>1, <1>4, <1>5, <2>2, AlignUpFacts
  <2> QED BY <2>1, <2>3
<1>7. u >= f /\ u <= m + n /\ (m + n) - u >= 2 * Min /\ ~ (Min > 2 * Min)
  BY <1>1, <1>2, <1>4, <1>6
<1> QED BY <1>5, <1>7, Zenon DEF AlignFits

LEMMA RoundUpSatFacts ==
  ASSUME NEW v \in 0 .. SizeMax, NEW a \in Pow2s
  PROVE  RoundUpSat(v, a) \in Nat /\ v <= RoundUpSat(v, a)
<1>1. AlignUp(v, a) \in Nat /\ SizeMax \in Nat
  BY AlignUpFacts, WordNumbers
<1> QED BY <1>1 DEF RoundUpSat

LEMMA OrderBytesOrder ==
  ASSUME NEW i \in Nat, NEW j \in Nat, OrderBytes(i) < OrderBytes(j)
  PROVE  i < j
<1> SUFFICES ASSUME j <= i PROVE FALSE
  OBVIOUS
<1>1. PICK lo \in Nat, hi \in Nat : lo = 2 ^ j /\ hi = 2 ^ i
  BY PowType
<1>2. lo <= hi
  BY <1>1, PowMonotone
<1>3. Min \in Nat
  BY WordNumbers, SetupAssumption
<1>4. Min * lo <= Min * hi /\ Min * lo \in Nat /\ Min * hi \in Nat
  BY <1>2, <1>3
<1> QED BY <1>1, <1>4 DEF OrderBytes

(* An alignment of a quarter of the memory fits, and at least half of the
   memory is data then. *)
LEMMA EasyFit ==
  ASSUME NEW m \in Nat \ {0}, NEW n \in Nat, m + n < Word, n + Min < Word, 4 * Min <= n,
         NEW a \in Pow2s, 4 * a <= n
  PROVE  LET u == AlignUp(First(m, n, None), a)
         IN  AlignFits(First(m, n, None), m + n, a) /\ u \in Nat /\ u <= m + n /\ 2 * ((m + n) - u) >= n
<1>1. Min \in Nat \ {0} /\ Min \in Pow2s /\ Word \in Nat /\ SizeMax + 1 = Word /\ SizeMax \in Nat /\ a \in Nat \ {0}
  BY WordNumbers, SetupAssumption
<1>2. PICK t \in Nat : t = TagArea(n) /\ 4 * t <= n
  BY TagAreaFacts
<1>3. PICK f \in Nat : f = m + t /\ f = First(m, n, None)
  BY <1>2 DEF First
<1>4. PICK u : u = AlignUp(f, a)
  OBVIOUS
<1>5. u \in Nat /\ f <= u /\ u < f + a
  <2>1. f \in 0 .. SizeMax /\ f + (a - 1) < Word
    BY <1>1, <1>2, <1>3
  <2> QED BY <1>4, <2>1, AlignUpFacts
<1>6. u <= m + n /\ 2 * ((m + n) - u) >= n
  BY <1>1, <1>2, <1>3, <1>5
<1>7. (m + n) - u >= (IF a > 2 * Min THEN a ELSE 2 * Min)
  BY <1>1, <1>5, <1>6
<1>8. AlignFits(f, m + n, a)
  BY <1>4, <1>5, <1>6, <1>7, Zenon DEF AlignFits
<1> QED BY <1>3, <1>4, <1>5, <1>6, <1>8

(* The pool of a long enough piece of memory holds an aligned block. *)
LEMMA RoomFacts ==
  ASSUME NEW m \in Nat \ {0}, NEW n \in Nat, m + n < Word, n + Min < Word,
         4 * Min <= n, n <= MaxRegion, NEW P \in Pow2s, Min <= P, 2 * P <= n
  PROVE  LET p == SetUp(m, n, None, MaxAlign)
         IN  /\ p.ok /\ p.max_order \in Nat /\ P < OrderBytes(p.max_order)
             /\ p.align \in Pow2s /\ p.align >= Min
             /\ \A a \in Pow2s : 4 * a <= n /\ a <= MaxAlign => a <= p.align
<1> DEFINE p == SetUp(m, n, None, MaxAlign)
           f == First(m, n, None)
<1>1. /\ Min \in Nat \ {0} /\ Min \in Pow2s /\ Word \in Nat /\ SizeMax + 1 = Word /\ SizeMax \in Nat
      /\ P \in Nat \ {0} /\ MaxAlign \in Pow2s /\ MaxAlign \in 0 .. SizeMax /\ MaxAlign >= Min
      /\ MaxTotal \in Nat /\ 2 * MaxTotal >= MaxRegion /\ MaxRegion \in Nat
      /\ None \in Nat \union {None} /\ \A a \in Pow2s : a \in Nat \ {0}
  BY WordNumbers, SetupAssumption
<1>2. WantedAlign(MaxAlign) = MaxAlign
  BY <1>1 DEF WantedAlign, IsPow2
<1>3. p.ok
  <2>1. AlignFits(f, m + n, Min)
    BY <1>1, EasyFit
  <2>2. p.ok \in BOOLEAN /\ (~ p.ok => n < 4 * Min \/ None = 0 \/ ~ AlignFits(f, m + n, Min))
    BY <1>1, SetUpFacts
  <2>3. ~ (n < 4 * Min) /\ None # 0
    BY <1>1 DEF None
  <2> QED BY <2>1, <2>2, <2>3
<1>4. /\ p.align \in Pow2s /\ Min <= p.align /\ AlignFits(f, m + n, p.align)
      /\ p.base = AlignUp(f, p.align)
      /\ \A a \in Pow2s : Min <= a /\ a <= MaxAlign /\ AlignFits(f, m + n, a) => a <= p.align
      /\ p.max_order = Fls(p.count) + 1 /\ p.count # 0
  BY <1>1, <1>2, <1>3, SetUpFacts
<1>5. PICK bytes \in Nat :
        /\ bytes = AtMost(AtMost(m + n - p.base, (2 ^ Mx - 1) * Min), MaxTotal)
        /\ p.count = bytes \div Min
  BY <1>1, <1>3, SetUpFacts
<1>6. p.count * Min < OrderBytes(p.max_order) /\ p.base + p.count * Min <= m + n
  BY <1>1, <1>3, PoolFacts
<1>7. PICK A \in Pow2s : A = p.align
  BY <1>4
<1>8. PICK base : base = p.base
  OBVIOUS
<1>9. PICK count : count = p.count
  OBVIOUS
<1>10. ASSUME NEW a \in Pow2s, 4 * a <= n, a <= MaxAlign PROVE a <= A
  <2>1. CASE a < Min
    BY <1>1, <1>4, <1>7, <2>1
  <2>2. CASE Min <= a
    <3>1. AlignFits(f, m + n, a)
      BY <1>10, EasyFit
    <3> QED BY <1>4, <1>7, <1>10, <2>2, <3>1
  <2> QED BY <1>1, <2>1, <2>2
<1>11. /\ base = AlignUp(f, A) /\ AlignFits(f, m + n, A) /\ A \in Nat \ {0} /\ Min <= A
       /\ bytes = AtMost(AtMost(m + n - base, (2 ^ Mx - 1) * Min), MaxTotal)
       /\ count = bytes \div Min /\ p.max_order = Fls(count) + 1 /\ count # 0
       /\ count * Min < OrderBytes(p.max_order)
  BY <1>1, <1>4, <1>5, <1>6, <1>7, <1>8, <1>9
<1>12. 4 * A <= n => base \in Nat /\ base <= m + n /\ 2 * ((m + n) - base) >= n
  BY <1>11, EasyFit
<1>13. f \in Nat /\ f <= m + n
  BY <1>1, SetUpFacts
<1> HIDE DEF f, p
<1>14. base \in Nat /\ base <= m + n /\ (m + n) - base >= (IF A > 2 * Min THEN A ELSE 2 * Min)
  <2>1. base <= m + n /\ (m + n) - base >= (IF A > 2 * Min THEN A ELSE 2 * Min)
    BY <1>11, Zenon DEF AlignFits
  <2>2. f \in 0 .. SizeMax
    BY <1>1, <1>13
  <2>3. base \in Nat
    BY <1>11, <2>2, AlignUpFacts
  <2> QED BY <2>1, <2>3
<1>15. PICK avail \in Nat : avail = (m + n) - base /\ avail = m + n - base
  BY <1>14
<1>16. avail >= P
  <2>1. CASE 4 * A <= n
    <3>1. 2 * avail >= n
      BY <1>12, <1>15, <2>1
    <3> QED BY <1>1, <3>1
  <2>2. CASE ~ (4 * A <= n)
    <3>1. P <= A
      <4> SUFFICES ASSUME A < P PROVE FALSE
        BY <1>1, <1>11
      <4>1. 2 * A <= P
        BY <1>1, <1>11, PowerRatio
      <4> QED BY <1>1, <1>11, <2>2, <4>1
    <3> QED BY <1>1, <1>11, <1>14, <1>15, <3>1
  <2> QED BY <2>1, <2>2
<1>17. PICK half \in Nat \ {0} : 2 ^ Mx = 2 * half /\ MaxRegion < Min * (2 * half)
  BY MxFacts
<1>18. PICK cap \in Nat : cap = (2 ^ Mx - 1) * Min /\ cap >= P
  <2>1. PICK h \in Nat : h = Min * half
    BY <1>1
  <2>2. Min * (2 * half) = 2 * h /\ h >= Min
    <3>1. PICK d \in Nat : half = 1 + d
      <4>1. half - 1 \in Nat /\ half = 1 + (half - 1)
        OBVIOUS
      <4> QED BY <4>1
    <3>2. h = Min + Min * d /\ Min * d >= 0
      BY <1>1, <2>1, <3>1
    <3> QED BY <1>1, <2>1, <3>2
  <2>3. (2 * half - 1) * Min = 2 * h - Min
    BY <1>1, <2>1
  <2>4. 2 * h - Min \in Nat /\ 2 * h - Min >= P
    BY <1>1, <1>17, <2>2
  <2> QED BY <1>17, <2>3, <2>4
<1>19. bytes >= P
  <2>1. bytes = AtMost(AtMost(avail, cap), MaxTotal)
    BY <1>11, <1>15, <1>18
  <2>2. MaxTotal >= P
    BY <1>1
  <2> QED BY <1>1, <1>16, <1>18, <2>1, <2>2 DEF AtMost
<1>20. PICK q \in Nat \ {0} : P = Min * q
  BY <1>1, PowerRatio
<1>21. PICK c \in Nat, r \in 0 .. Min - 1 : bytes = Min * c + r /\ count = c
  BY <1>1, <1>11, DivMod
<1>22. q <= c
  <2>1. Min * q < Min * c + Min
    BY <1>1, <1>19, <1>20, <1>21
  <2> QED BY <1>1, <2>1, MultipleOrder
<1>23. P <= count * Min /\ count * Min \in Nat
  <2>1. Min * q <= Min * c /\ Min * c = count * Min
    BY <1>1, <1>21, <1>22
  <2> QED BY <1>1, <1>20, <1>21, <2>1
<1>24. p.max_order \in Nat
  <2>1. count \in 1 .. SizeMax
    <3>1. count * Min >= count
      <4>1. PICK d \in Nat : Min = 1 + d
        <5>1. Min - 1 \in Nat /\ Min = 1 + (Min - 1)
          BY <1>1
        <5> QED BY <5>1
      <4>2. count * Min = count + c * d /\ c * d >= 0
        BY <1>21, <4>1
      <4> QED BY <1>21, <4>2
    <3>2. count * Min <= m + n
      <4>1. Min * c <= bytes /\ count * Min = Min * c
        BY <1>1, <1>21
      <4>2. bytes <= avail
        <5>1. PICK x \in Nat : x = AtMost(avail, cap) /\ x <= avail
          BY AtMostFacts
        <5>2. bytes = AtMost(x, MaxTotal)
          BY <1>11, <1>15, <1>18, <5>1
        <5>3. bytes <= x
          BY <1>1, <5>2, AtMostFacts
        <5> QED BY <5>1, <5>3
      <4> QED BY <1>1, <1>14, <1>15, <1>21, <4>1, <4>2
    <3> QED BY <1>1, <1>11, <1>21, <3>1, <3>2
  <2>2. Fls(count) \in Nat
    BY <2>1, FlsFacts, SetupAssumption
  <2> QED BY <1>11, <2>2
<1>25. P < OrderBytes(p.max_order)
  <2>1. OrderBytes(p.max_order) \in Nat
    BY <1>1, <1>24, PowType DEF OrderBytes
  <2> QED BY <1>1, <1>11, <1>23, <2>1
<1> QED BY <1>3, <1>7, <1>10, <1>11, <1>24, <1>25 DEF p

(* What the heap grows for: no less than the request, and for an aligned one
   at least twice its alignment. *)
LEMMA GrowForFacts ==
  ASSUME NEW n \in 1 .. MaxLen, NEW al \in Pow2s, al <= MaxAlign
  PROVE  /\ GrowFor(n, al) \in 1 .. SizeMax /\ n <= GrowFor(n, al)
         /\ al > Native => 2 * al <= GrowFor(n, al)
<1>1. /\ SizeMax \in Nat /\ Word \in Nat /\ SizeMax + 1 = Word /\ MaxLen \in Nat /\ MaxLen + MaxAlign < Word
      /\ MaxAlign \in Nat /\ al \in Nat \ {0} /\ Native \in Nat /\ 2 * MaxAlign <= SizeMax
  BY WordNumbers, SetupAssumption, LayoutAssumption
<1>2. CASE al <= Native
  BY <1>1, <1>2 DEF GrowFor
<1>3. CASE al > Native /\ n > al
  <2>1. n + al \in 0 .. Word - 1
    BY <1>1
  <2>2. (n + al) % Word = n + al
    BY <1>1, <2>1
  <2>3. GrowFor(n, al) = n + al
    BY <1>1, <1>3, <2>2 DEF GrowFor
  <2> QED BY <1>1, <1>3, <2>1, <2>3
<1>4. CASE al > Native /\ n <= al
  <2>1. al * 2 \in 0 .. Word - 1
    BY <1>1
  <2>2. (al * 2) % Word = al * 2
    BY <1>1, <2>1
  <2>3. GrowFor(n, al) = al * 2
    BY <1>1, <1>4, <2>2 DEF GrowFor
  <2> QED BY <1>1, <1>4, <2>1, <2>3
<1> QED BY <1>1, <1>2, <1>3, <1>4

(* What the system is asked for, when it is asked: twice a power of two that
   holds the request, no less than the heap grows by and no more than a
   region may have. *)
LEMMA GrowLengthFacts ==
  ASSUME NEW bytes \in 1 .. SizeMax, GrowLength(bytes) # None
  PROVE  /\ GrowLength(bytes) \in Nat /\ GrowMin <= GrowLength(bytes) /\ GrowLength(bytes) <= MaxRegion
         /\ \E pow \in Pow2s : bytes <= pow /\ 2 * pow <= GrowLength(bytes)
<1>1. /\ SizeMax \in Nat /\ SizeMax >= 1 /\ MaxRegion \in Nat /\ GrowMin \in Nat /\ GrowMin <= MaxRegion
      /\ SheetLen \in Pow2s /\ \A a \in Pow2s : a \in Nat \ {0}
  BY WordNumbers, SetupAssumption
<1>2. PICK top \in Nat : top = SizeMax \div 2 /\ 2 * top <= SizeMax /\ top < SizeMax /\ MaxRegion <= top
  <2>1. SizeMax \div 2 \in Nat /\ 2 * (SizeMax \div 2) <= SizeMax /\ SizeMax \div 2 < SizeMax
    BY <1>1
  <2>2. MaxRegion <= SizeMax \div 2
    BY SetupAssumption
  <2> QED BY <2>1, <2>2
<1>3. PICK pow : pow = NextPow2(bytes)
  OBVIOUS
<1>4. \/ pow \in Pow2s /\ bytes <= pow
      \/ pow = SizeMax
  BY <1>3, NextPow2Facts
<1>5. PICK v : v = IF pow <= top THEN 2 * pow ELSE pow
  OBVIOUS
<1>6. v \in 0 .. SizeMax /\ (v <= top => pow <= top)
  <2>1. pow \in Nat /\ pow <= SizeMax
    <3>1. \A a \in Pow2s : a <= SizeMax
      BY WordNumbers
    <3> QED BY <1>1, <1>4, <3>1
  <2> QED BY <1>1, <1>2, <1>5, <2>1
<1>7. PICK x \in Nat : x = RoundUpSat(v, SheetLen) /\ v <= x
  BY <1>1, <1>6, RoundUpSatFacts
<1>8. GrowLength(bytes) = PoolLength(x)
  BY <1>2, <1>3, <1>5, <1>7, Zenon DEF GrowLength
<1>9. PICK n \in Nat : n = AtMost(IF x < GrowMin THEN GrowMin ELSE x, MaxRegion)
  BY <1>1 DEF AtMost
<1>10. GrowLength(bytes) = n /\ ~ (n < x)
  BY <1>8, <1>9, Zenon DEF PoolLength
<1>11. n <= MaxRegion /\ GrowMin <= n /\ x <= n
  BY <1>1, <1>7, <1>9, <1>10 DEF AtMost
<1>12. pow <= top /\ pow \in Pow2s /\ bytes <= pow /\ v = 2 * pow
  <2>1. v <= top
    BY <1>1, <1>2, <1>6, <1>7, <1>11
  <2>2. pow <= top
    BY <1>6, <2>1
  <2> QED BY <1>1, <1>2, <1>4, <1>5, <2>2
<1> QED BY <1>1, <1>7, <1>10, <1>11, <1>12

(* The memory the heap grows by serves what it grew for. *)
LEMMA GrowthFacts ==
  ASSUME NEW m \in Nat \ {0}, NEW req \in 1 .. MaxLen, NEW al \in Pow2s, al <= MaxAlign,
         NEW n, n = GrowLength(GrowFor(req, al)), n # None, m + n < Word
  PROVE  Servable(SetUp(m, n, None, MaxAlign), req, al)
<1> DEFINE p == SetUp(m, n, None, MaxAlign)
<1>1. /\ Min \in Nat \ {0} /\ Min \in Pow2s /\ Word \in Nat /\ SizeMax + 1 = Word /\ SizeMax \in Nat
      /\ Native \in Nat \ {0} /\ Min >= Native /\ MaxLen \in Nat /\ MaxLen + Min < Word
      /\ MaxRegion \in Nat /\ SheetLen \in Nat /\ SheetLen >= Min /\ MaxRegion >= 4 * SheetLen
      /\ GrowMin \in Nat /\ GrowMin >= 4 * SheetLen
      /\ al \in 1 .. SizeMax /\ req \in 1 .. SizeMax /\ \A a \in Pow2s : a \in Nat \ {0}
  BY WordNumbers, SetupAssumption, LayoutAssumption
<1>2. PICK bytes \in 1 .. SizeMax : /\ bytes = GrowFor(req, al) /\ req <= bytes
                                    /\ al > Native => 2 * al <= bytes
  BY GrowForFacts
<1>3. n \in Nat /\ GrowMin <= n /\ n <= MaxRegion
  BY <1>2, GrowLengthFacts
<1>4. PICK pow \in Pow2s : bytes <= pow /\ 2 * pow <= n
  BY <1>2, GrowLengthFacts
<1>5. 4 * Min <= n /\ n + Min < Word
  <2>1. MaxRegion <= SizeMax \div 2
    BY SetupAssumption
  <2>2. 2 * MaxRegion <= SizeMax
    BY <1>1, <2>1
  <2> QED BY <1>1, <1>3, <2>2
<1>6. PICK P \in Pow2s : Min <= P /\ pow <= P /\ 2 * P <= n
  <2>1. CASE pow <= Min
    <3>1. Min <= Min /\ 2 * Min <= n
      BY <1>1, <1>3, <1>5
    <3> QED BY <1>1, <2>1, <3>1
  <2>2. CASE Min < pow
    <3>1. Min <= pow /\ pow <= pow
      BY <1>1, <2>2
    <3> QED BY <1>4, <3>1
  <2>3. pow \in Nat
    BY <1>1
  <2> QED BY <1>1, <2>1, <2>2, <2>3
<1>7. /\ p.ok /\ p.max_order \in Nat /\ P < OrderBytes(p.max_order)
      /\ p.align \in Pow2s /\ p.align >= Min
      /\ \A a \in Pow2s : 4 * a <= n /\ a <= MaxAlign => a <= p.align
  BY <1>3, <1>5, <1>6, RoomFacts
<1> HIDE DEF p
<1>8. P \in Nat /\ pow \in Nat /\ OrderBytes(p.max_order) \in Nat
  BY <1>1, <1>7, PowType DEF OrderBytes
<1>9. ASSUME NEW k \in 1 .. SizeMax, k <= bytes PROVE OrderForSize(k) < p.max_order
  <2>1. PICK o \in Nat : o = OrderForSize(k) /\ OrderBytes(o) \in Nat /\ OrderBytes(o) <= P
    <3>1. k <= P
      BY <1>1, <1>4, <1>6, <1>8, <1>9
    <3>2. OrderForSize(k) \in Nat
      BY OrderForSizeFacts, SetupAssumption
    <3> QED BY <1>6, <3>1, <3>2, OrderForSizeFacts
  <2>2. OrderBytes(o) < OrderBytes(p.max_order)
    BY <1>7, <1>8, <2>1
  <2> QED BY <1>7, <2>1, <2>2, OrderBytesOrder
<1>10. OrderForSize(req) < p.max_order
  BY <1>1, <1>2, <1>9
<1>11. ASSUME al > Native PROVE IsPow2(al) /\ al <= p.align /\ OrderForSize(al) < p.max_order
  <2>1. al <= bytes /\ 4 * al <= n
    BY <1>1, <1>2, <1>3, <1>4, <1>8, <1>11
  <2>2. OrderForSize(al) < p.max_order
    BY <1>1, <1>9, <2>1
  <2>3. al <= p.align
    BY <1>7, <2>1
  <2> QED BY <2>2, <2>3 DEF IsPow2
<1>12. req # 0
  OBVIOUS
<1> QED BY <1>7, <1>10, <1>11, <1>12 DEF Servable, p

(* The blocks of an order are a power of two long. *)
LEMMA OrderPower ==
  ASSUME NEW n \in 1 .. SizeMax, NEW Q \in Pow2s, n <= Q, Min <= Q
  PROVE  /\ OrderForSize(n) \in Nat
         /\ OrderBytes(OrderForSize(n)) \in Pow2s
         /\ n <= OrderBytes(OrderForSize(n)) /\ Min <= OrderBytes(OrderForSize(n))
<1>1. Min \in Pow2s /\ Min \in Nat \ {0} /\ WordBits \in Nat /\ Q \in Nat /\ Q < Word
  BY WordNumbers, SetupAssumption
<1>2. PICK o \in Nat : o = OrderForSize(n) /\ n <= OrderBytes(o) /\ OrderBytes(o) <= Q
  <2>1. OrderForSize(n) \in Nat
    BY OrderForSizeFacts, <1>1
  <2> QED BY <2>1, OrderForSizeFacts
<1>3. PICK i \in 0 .. WordBits - 1 : Min = 2 ^ i
  BY <1>1, WordNumbers
<1>4. i \in Nat
  BY <1>1
<1>5. PICK lo \in Nat \ {0} : lo = 2 ^ o
  BY PowType
<1>6. OrderBytes(o) = Min * lo
  BY <1>5 DEF OrderBytes
<1>7. Min * lo = 2 ^ (i + o)
  BY <1>3, <1>4, <1>5, PowSum
<1>8. i + o \in 0 .. WordBits - 1
  <2> SUFFICES ASSUME WordBits <= i + o PROVE FALSE
    BY <1>1, <1>4
  <2>1. PICK k \in Nat : k = i + o
    BY <1>4
  <2>2. PICK big \in Nat : big = 2 ^ k
    BY PowType
  <2>3. Word <= big
    <3>1. WordBits = k \/ 2 ^ WordBits < 2 ^ k
      BY <1>1, <2>1, PowMonotone
    <3>2. Word \in Nat
      BY WordNumbers
    <3> QED BY <2>2, <3>1, <3>2 DEF Word
  <2>4. big <= Q
    BY <1>2, <1>6, <1>7, <2>1, <2>2
  <2>5. Word \in Nat
    BY WordNumbers
  <2> QED BY <1>1, <2>2, <2>3, <2>4, <2>5
<1>9. Min * lo \in Pow2s
  BY <1>7, <1>8 DEF Pow2s
<1>10. Min <= Min * lo
  <2>1. PICK d \in Nat : lo = 1 + d
    <3>1. lo - 1 \in Nat /\ lo = 1 + (lo - 1)
      OBVIOUS
    <3> QED BY <3>1
  <2>2. Min * lo = Min + Min * d /\ Min * d >= 0
    BY <1>1, <2>1
  <2> QED BY <1>1, <2>2
<1> QED BY <1>2, <1>6, <1>9, <1>10

(* The power of two that allocation_extent finds is the least that holds the
   request, a block of the least size and the alignment. *)
LEMMA PowerExtentFacts ==
  ASSUME NEW want \in 1 .. SizeMax, NEW al \in Pow2s, NEW Q \in Pow2s, want <= Q
  PROVE  \E T \in Pow2s :
           /\ PowerExtent(want, al) = T - Rz
           /\ want <= T /\ Min <= T /\ al <= T
           /\ \A p \in Pow2s : want <= p /\ Min <= p /\ al <= p => T <= p
<1> DEFINE v == IF want < Min THEN Min ELSE want
<1>1. /\ Min \in Pow2s /\ Min \in Nat \ {0} /\ Min >= 4 /\ SizeMax \in Nat /\ WordBits \in Nat /\ Rz \in Nat
      /\ Word \in Nat /\ SizeMax + 1 = Word
      /\ \A a \in Pow2s : a \in Nat \ {0} /\ a < Word
  BY WordNumbers, SetupAssumption
<1>2. v \in Nat /\ v >= 4 /\ want <= v /\ Min <= v
  BY <1>1
<1>3. PICK R \in Pow2s : v <= R
  <2>1. CASE want < Min
    BY <1>1, <2>1
  <2>2. CASE ~ (want < Min)
    BY <2>2
  <2> QED BY <2>1, <2>2
<1>4. \A p \in Pow2s : want <= p /\ Min <= p => v <= p
  OBVIOUS
<1> HIDE DEF v
<1>5. v - 1 \in 1 .. SizeMax
  BY <1>1, <1>2, <1>3
<1>6. PICK k \in 0 .. WordBits - 1 : k = Fls(v - 1) /\ 2 ^ k <= v - 1 /\ v - 1 < 2 ^ (k + 1) /\ 2 ^ k \in Pow2s
  BY <1>5, FlsFacts
<1>7. k \in Nat
  BY <1>1
<1>8. PICK a \in Pow2s : a = 2 ^ k /\ 2 ^ (k + 1) = 2 * a
  BY <1>6, <1>7, PowStep
<1>9. \A p \in Pow2s : v <= p => 2 * a <= p
  <2> SUFFICES ASSUME NEW p \in Pow2s, v <= p PROVE 2 * a <= p
    OBVIOUS
  <2>1. a <= p /\ a # p
    BY <1>1, <1>2, <1>6, <1>8
  <2> QED BY <2>1, PowerRatio
<1>10. k + 1 < WordBits /\ 2 * a \in Pow2s
  <2>1. 2 * a <= R /\ R < Word
    BY <1>1, <1>3, <1>9
  <2>2. k + 1 < WordBits
    <3> SUFFICES ASSUME WordBits <= k + 1 PROVE FALSE
      BY <1>1, <1>7
    <3>1. WordBits = k + 1
      BY <1>1, <1>7
    <3>2. Word = 2 * a
      BY <1>8, <3>1 DEF Word
    <3> QED BY <1>1, <1>3, <2>1, <3>2
  <2>3. k + 1 \in 0 .. WordBits - 1
    BY <1>1, <1>7, <2>2
  <2>4. 2 ^ (k + 1) \in Pow2s
    BY <2>3 DEF Pow2s
  <2> QED BY <1>8, <2>2, <2>4
<1>11. BitLength(v - 1) = k + 1
  BY <1>5, <1>6 DEF BitLength
<1>12. PICK T \in Pow2s : T = IF 2 * a < al THEN al ELSE 2 * a
  BY <1>10
<1>13. PowerExtent(want, al) = T - Rz
  <2>1. ~ (k + 1 >= WordBits)
    BY <1>1, <1>7, <1>10
  <2>2. PowerExtent(want, al) = (IF BitLength(v - 1) >= WordBits THEN SizeMax
           ELSE (IF 2 ^ BitLength(v - 1) < al THEN al ELSE 2 ^ BitLength(v - 1)) - Rz)
    BY Zenon DEF PowerExtent, v
  <2>3. PowerExtent(want, al) = (IF 2 * a < al THEN al ELSE 2 * a) - Rz
    BY <1>8, <1>11, <2>1, <2>2, Zenon
  <2> QED BY <1>12, <2>3
<1>14. v <= 2 * a
  BY <1>1, <1>2, <1>6, <1>8
<1>15. want <= T /\ Min <= T /\ al <= T
  BY <1>1, <1>2, <1>12, <1>14
<1>16. \A p \in Pow2s : want <= p /\ Min <= p /\ al <= p => T <= p
  BY <1>4, <1>9, <1>12
<1> QED BY <1>13, <1>15, <1>16

(* What allocation_extent announces, by the tier that would serve it. *)
LEMMA ExtentFacts ==
  ASSUME NEW n \in 1 .. SizeMax, NEW al \in Pow2s, NEW Q \in Pow2s, n + Rz <= Q
  PROVE  \/ /\ al <= Native /\ n + Rz <= ClassSmall
            /\ \E s \in Nat :
                 /\ AllocationExtent(n, al) = s - Rz /\ s = RoundUpSat(n + Rz, Native)
                 /\ n + Rz <= s /\ s <= ClassSmall /\ s % Native = 0
                 /\ \A m \in n + Rz .. SizeMax : m % Native = 0 => s <= m
         \/ /\ ~ (al <= Native /\ n + Rz <= ClassSmall)
            /\ \E T \in Pow2s :
                 /\ AllocationExtent(n, al) = T - Rz
                 /\ n + Rz <= T /\ Min <= T /\ al <= T
                 /\ \A p \in Pow2s : n + Rz <= p /\ Min <= p /\ al <= p => T <= p
<1>1. /\ SizeMax \in Nat /\ Rz \in Nat /\ ClassSmall \in Nat /\ Word \in Nat /\ SizeMax + 1 = Word
      /\ Native \in Pow2s /\ \A a \in Pow2s : a \in Nat \ {0} /\ a < Word
      /\ ClassSmall % Native = 0
  BY WordNumbers, SetupAssumption
<1>2. PICK want \in 1 .. SizeMax : want = n + Rz
  BY <1>1
<1>3. AllocationExtent(n, al) = IF al <= Native /\ want <= ClassSmall THEN RoundUpSat(want, Native) - Rz
                                ELSE PowerExtent(want, al)
  <2>1. ~ (n = 0) /\ ~ (SizeMax - Rz < n)
    BY <1>1, <1>2
  <2> QED BY <1>2, <2>1, Zenon DEF AllocationExtent
<1>4. CASE al <= Native /\ want <= ClassSmall
  <2>1. want + (Native - 1) < Word /\ ClassSmall <= SizeMax
    <3>1. /\ SheetLen \in Nat /\ Min \in Nat /\ MaxRegion \in Nat /\ Native \in Nat /\ Min >= Native
          /\ MaxRegion >= 4 * SheetLen /\ SheetLen >= Min /\ ClassSmall <= SheetLen
      BY WordNumbers, SetupAssumption
    <3>2. MaxRegion <= SizeMax \div 2
      BY SetupAssumption
    <3>3. MaxRegion <= SizeMax
      BY <1>1, <3>1, <3>2
    <3> QED BY <1>1, <1>4, <3>1, <3>3
  <2>2. PICK s \in Nat : s = AlignUp(want, Native) /\ want <= s /\ s % Native = 0
                         /\ \A m \in want .. SizeMax : m % Native = 0 => s <= m
    BY <1>1, <2>1, AlignUpFacts
  <2>3. s = RoundUpSat(want, Native)
    BY <2>2 DEF RoundUpSat
  <2>4. s <= ClassSmall
    BY <1>1, <1>4, <2>1, <2>2
  <2>5. AllocationExtent(n, al) = s - Rz
    BY <1>3, <1>4, <2>3
  <2> QED BY <1>2, <1>4, <2>2, <2>3, <2>4, <2>5
<1>5. CASE ~ (al <= Native /\ want <= ClassSmall)
  <2>1. PICK T \in Pow2s :
           /\ PowerExtent(want, al) = T - Rz
           /\ want <= T /\ Min <= T /\ al <= T
           /\ \A p \in Pow2s : want <= p /\ Min <= p /\ al <= p => T <= p
    BY <1>2, PowerExtentFacts
  <2>2. AllocationExtent(n, al) = T - Rz
    BY <1>3, <1>5, <2>1
  <2> QED BY <1>2, <1>5, <2>1, <2>2
<1> QED BY <1>4, <1>5

(* The four claims about the length that is announced. *)
LEMMA HonestFacts ==
  ASSUME NEW n \in Nat \ {0}, n + Rz <= SizeMax \div 2, NEW al \in Pow2s
  PROVE  LET e == AllocationExtent(n, al)
         IN  /\ n <= e
             /\ \A g \in Grants(n + Rz, al) : e <= g - Rz
             /\ AllocationExtent(e, al) = e
             /\ AllocationExtent(n - 1, al) <= e
<1>1. /\ SizeMax \in Nat /\ Rz \in Nat /\ ClassSmall \in Nat /\ Word \in Nat /\ SizeMax + 1 = Word
      /\ WordBits \in Nat /\ WordBits >= 1
      /\ Native \in Pow2s /\ Min \in Pow2s /\ SheetLen \in Pow2s
      /\ \A a \in Pow2s : a \in Nat \ {0} /\ a < Word
      /\ Min >= Native /\ SheetLen >= Min /\ ClassSmall <= SheetLen
  BY WordNumbers, SetupAssumption
<1>2. PICK e : e = AllocationExtent(n, al)
  OBVIOUS
<1>3. PICK want \in 1 .. SizeMax : want = n + Rz /\ 2 * want <= SizeMax
  <2>1. 2 * (SizeMax \div 2) <= SizeMax /\ SizeMax \div 2 \in Nat
    BY <1>1
  <2>2. n + Rz \in 1 .. SizeMax /\ 2 * (n + Rz) <= SizeMax
    BY <1>1, <2>1
  <2> QED BY <2>2
<1>4. PICK Q \in Pow2s : want <= Q
  <2>1. WordBits - 1 \in 0 .. WordBits - 1 /\ WordBits - 1 \in Nat
    BY <1>1
  <2>2. PICK h \in Nat : h = WordBits - 1 /\ h + 1 = WordBits
    <3>1. WordBits - 1 \in Nat /\ WordBits - 1 = WordBits - 1 /\ (WordBits - 1) + 1 = WordBits
      BY <1>1
    <3> QED BY <3>1
  <2>3. PICK Q \in Pow2s : Q = 2 ^ h
    BY <2>1, <2>2 DEF Pow2s
  <2>4. Word = 2 * Q
    BY <2>2, <2>3, PowStep DEF Word
  <2>5. want <= Q
    BY <1>1, <1>3, <2>4
  <2> QED BY <2>5
<1>5. n \in 1 .. SizeMax
  BY <1>1, <1>3
<1>6. e \in Nat /\ e >= 1 => ~ (e = 0)
  OBVIOUS
<1>7. n - 1 = 0 => AllocationExtent(n - 1, al) = 0
  BY DEF AllocationExtent
<1>8. CASE al <= Native /\ want <= ClassSmall
  <2>1. PICK s \in Nat :
          /\ e = s - Rz /\ s = RoundUpSat(want, Native)
          /\ want <= s /\ s <= ClassSmall /\ s % Native = 0
          /\ \A m \in want .. SizeMax : m % Native = 0 => s <= m
    BY <1>2, <1>3, <1>4, <1>5, <1>8, ExtentFacts
  <2>2. SheetLen <= SizeMax /\ s <= SizeMax
    BY <1>1, <2>1
  <2>3. n <= e /\ e \in Nat
    BY <1>1, <1>3, <2>1
  <2>4. ASSUME NEW g \in Grants(want, al) PROVE s <= g
    <3>1. want \in 1 .. SizeMax /\ want <= SheetLen /\ Min <= SheetLen
      BY <1>1, <1>8
    <3>2. PICK c \in Pow2s : c = OrderBytes(OrderForSize(want)) /\ want <= c /\ Min <= c
      BY <1>1, <3>1, OrderPower
    <3>3. g = s \/ g = c
      <4>1. ~ (al > Native)
        BY <1>1, <1>8
      <4>2. g \in {OrderBytes(OrderForSize(want))} \union {RoundUpSat(want, Native)}
        BY <1>8, <4>1 DEF Grants
      <4> QED BY <2>1, <3>2, <4>2
    <3>4. s <= c
      <4>1. PICK q \in Nat \ {0} : c = Native * q
        <5>1. Native <= c
          BY <1>1, <3>2
        <5> QED BY <1>1, <5>1, PowerRatio
      <4>2. c % Native = 0
        <5>1. PICK u \in Nat, d \in Nat \ {0} : u = c /\ d = Native
          BY <1>1
        <5>2. PICK r \in 0 .. d - 1 : r = 0
          OBVIOUS
        <5>3. u = d * q + r
          BY <4>1, <5>1, <5>2
        <5>4. u % d = r
          BY <5>3, Remainder
        <5> QED BY <5>1, <5>2, <5>4
      <4>3. c \in want .. SizeMax
        BY <1>1, <3>2
      <4> QED BY <2>1, <4>2, <4>3
    <3> QED BY <2>1, <3>3, <3>4
  <2>5. \A g \in Grants(want, al) : e <= g - Rz
    <3> SUFFICES ASSUME NEW g \in Grants(want, al) PROVE e <= g - Rz
      OBVIOUS
    <3>1. s <= g
      BY <2>4
    <3>2. g \in Int
      <4>1. ~ (al > Native)
        BY <1>1, <1>8
      <4>2. g \in {OrderBytes(OrderForSize(want))} \union {RoundUpSat(want, Native)}
        BY <1>8, <4>1 DEF Grants
      <4>3. OrderBytes(OrderForSize(want)) \in Nat
        BY OrderForSizeFacts
      <4> QED BY <2>1, <4>2, <4>3
    <3> QED BY <1>1, <2>1, <3>1, <3>2
  <2>6. AllocationExtent(e, al) = e
    <3>1. e \in 1 .. SizeMax /\ e + Rz = s
      BY <1>1, <2>1, <2>2, <2>3
    <3>2. e + Rz <= SheetLen /\ e + Rz <= ClassSmall /\ al <= Native
      BY <1>1, <1>8, <2>1, <3>1
    <3>3. PICK z \in Nat : AllocationExtent(e, al) = z - Rz /\ e + Rz <= z
                           /\ \A m \in e + Rz .. SizeMax : m % Native = 0 => z <= m
      BY <1>1, <3>1, <3>2, ExtentFacts
    <3>4. z = s
      BY <1>1, <2>1, <2>2, <3>1, <3>3
    <3> QED BY <2>1, <3>3, <3>4
  <2>7. AllocationExtent(n - 1, al) <= e
    <3>1. CASE n - 1 = 0
      BY <1>7, <2>3, <3>1
    <3>2. CASE n - 1 # 0
      <4>1. PICK k \in 1 .. SizeMax : k = n - 1 /\ k + Rz = want - 1 /\ k + Rz <= SheetLen /\ k + Rz <= ClassSmall
        BY <1>1, <1>3, <1>5, <1>8, <3>2
      <4>2. PICK z \in Nat : AllocationExtent(k, al) = z - Rz
                             /\ \A m \in k + Rz .. SizeMax : m % Native = 0 => z <= m
        BY <1>1, <1>8, <4>1, ExtentFacts
      <4>3. s \in k + Rz .. SizeMax
        BY <1>1, <2>1, <2>2, <4>1
      <4>4. z <= s
        BY <2>1, <4>2, <4>3
      <4> QED BY <1>1, <2>1, <4>1, <4>2, <4>4
    <3> QED BY <3>1, <3>2
  <2> QED BY <1>2, <1>3, <2>3, <2>5, <2>6, <2>7
<1>9. CASE ~ (al <= Native /\ want <= ClassSmall)
  <2>1. PICK T \in Pow2s :
          /\ e = T - Rz /\ want <= T /\ Min <= T /\ al <= T
          /\ \A p \in Pow2s : want <= p /\ Min <= p /\ al <= p => T <= p
    BY <1>2, <1>3, <1>4, <1>5, <1>9, ExtentFacts
  <2>2. T \in Nat /\ T <= SizeMax /\ al \in Nat \ {0}
    BY <1>1
  <2>3. n <= e /\ e \in Nat
    BY <1>1, <1>3, <2>1, <2>2
  <2>4. \A g \in Grants(want, al) : e <= g - Rz
    <3> SUFFICES ASSUME NEW g \in Grants(want, al) PROVE e <= g - Rz
      OBVIOUS
    <3>1. PICK i \in Nat : i = OrderForSize(want) /\ OrderBytes(i) \in Pow2s
                           /\ want <= OrderBytes(i) /\ Min <= OrderBytes(i)
      <4>1. PICK R \in Pow2s : want <= R /\ Min <= R
        <5>1. CASE Min <= Q
          BY <1>4, <5>1
        <5>2. CASE Q < Min
          <6>1. want <= Min /\ Min <= Min
            BY <1>1, <1>4, <5>2
          <6> QED BY <1>1, <6>1
        <5> QED BY <1>1, <5>1, <5>2
      <4> QED BY <4>1, OrderPower
    <3>2. PICK j \in Nat : j = OrderForSize(al) /\ OrderBytes(j) \in Pow2s
                           /\ al <= OrderBytes(j) /\ Min <= OrderBytes(j)
      <4>1. PICK R \in Pow2s : al <= R /\ Min <= R
        <5>1. CASE Min <= al
          <6>1. al <= al
            BY <2>2
          <6> QED BY <5>1, <6>1
        <5>2. CASE al < Min
          <6>1. al <= Min /\ Min <= Min
            BY <1>1, <2>2, <5>2
          <6> QED BY <1>1, <6>1
        <5> QED BY <1>1, <2>2, <5>1, <5>2
      <4>2. al \in 1 .. SizeMax
        BY <1>1, <2>2
      <4> QED BY <4>1, <4>2, OrderPower
    <3>3. g = OrderBytes(IF al > Native /\ j > i THEN j ELSE i)
      <4>1. g \in {OrderBytes(IF al > Native /\ j > i THEN j ELSE i)}
        BY <1>9, <3>1, <3>2, Zenon DEF Grants
      <4> QED BY <4>1
    <3>4. PICK o \in Nat : /\ o = (IF al > Native /\ j > i THEN j ELSE i)
                           /\ g = OrderBytes(o) /\ OrderBytes(o) \in Pow2s /\ Min <= OrderBytes(o)
                           /\ (o = i \/ o = j)
      BY <3>1, <3>2, <3>3
    <3>5. OrderBytes(o) \in Nat /\ OrderBytes(i) \in Nat /\ OrderBytes(j) \in Nat
      BY <1>1, <3>1, <3>2, <3>4
    <3>6. want <= OrderBytes(o)
      <4>1. i <= o
        BY <3>4
      <4>2. ~ (OrderBytes(o) < OrderBytes(i))
        BY <4>1, OrderBytesOrder
      <4> QED BY <3>1, <3>5, <4>2
    <3>7. al <= OrderBytes(o)
      <4>1. CASE al > Native
        <5>1. j <= o
          BY <3>4, <4>1
        <5>2. ~ (OrderBytes(o) < OrderBytes(j))
          BY <5>1, OrderBytesOrder
        <5> QED BY <2>2, <3>2, <3>5, <5>2
      <4>2. CASE ~ (al > Native)
        BY <1>1, <2>2, <3>4, <3>5, <4>2
      <4> QED BY <4>1, <4>2
    <3>8. T <= OrderBytes(o)
      BY <2>1, <3>4, <3>6, <3>7
    <3> QED BY <1>1, <2>1, <2>2, <3>4, <3>5, <3>8
  <2>5. AllocationExtent(e, al) = e
    <3>1. e \in 1 .. SizeMax /\ e + Rz = T
      BY <1>1, <1>5, <2>1, <2>2, <2>3
    <3>2. ~ (al <= Native /\ e + Rz <= ClassSmall)
      BY <1>1, <1>9, <2>1, <2>2, <3>1
    <3>3. e + Rz <= T
      BY <2>2, <3>1
    <3>4. PICK U \in Pow2s : AllocationExtent(e, al) = U - Rz /\ e + Rz <= U
                             /\ \A p \in Pow2s : e + Rz <= p /\ Min <= p /\ al <= p => U <= p
      BY <3>1, <3>2, <3>3, ExtentFacts
    <3>5. U = T
      BY <1>1, <2>1, <2>2, <3>1, <3>3, <3>4
    <3> QED BY <2>1, <3>4, <3>5
  <2>6. AllocationExtent(n - 1, al) <= e
    <3>1. CASE n - 1 = 0
      BY <1>7, <2>3, <3>1
    <3>2. CASE n - 1 # 0
      <4>1. PICK k \in 1 .. SizeMax : k = n - 1 /\ k + Rz = want - 1 /\ k + Rz <= T /\ k + Rz <= Q
        BY <1>1, <1>3, <1>4, <1>5, <2>1, <2>2, <3>2
      <4>2. CASE al <= Native /\ k + Rz <= ClassSmall
        <5>1. PICK z \in Nat : AllocationExtent(k, al) = z - Rz /\ z <= ClassSmall
          BY <4>1, <4>2, ExtentFacts
        <5>2. z <= T
          BY <1>1, <1>9, <2>1, <2>2, <4>2, <5>1
        <5> QED BY <1>1, <2>1, <2>2, <4>1, <5>1, <5>2
      <4>3. CASE ~ (al <= Native /\ k + Rz <= ClassSmall)
        <5>1. PICK U \in Pow2s : AllocationExtent(k, al) = U - Rz
                                 /\ \A p \in Pow2s : k + Rz <= p /\ Min <= p /\ al <= p => U <= p
          BY <4>1, <4>3, ExtentFacts
        <5>2. U <= T
          BY <2>1, <4>1, <5>1
        <5> QED BY <1>1, <2>1, <2>2, <4>1, <5>1, <5>2
      <4> QED BY <4>2, <4>3
    <3> QED BY <3>1, <3>2
  <2> QED BY <1>2, <1>3, <2>3, <2>4, <2>5, <2>6
<1> QED BY <1>8, <1>9

(* The walk stays inside its bounds. *)
LInv == mem \in Nat \ {0} /\ len \in 0 .. MaxLen /\ mem + len < Word

LEMMA WalkBounded == Lengths => []LInv
<1>1. /\ WordBits \in Nat /\ Word \in Nat /\ MaxLen \in Nat /\ Starts \subseteq Nat \ {0}
  BY WordNumbers, SetupAssumption, LayoutAssumption
<1>2. Start => LInv
  BY <1>1 DEF Start, LInv
<1>3. LInv /\ [Longer]_<<mem, len>> => LInv'
  <2> SUFFICES ASSUME LInv, [Longer]_<<mem, len>> PROVE LInv'
    OBVIOUS
  <2>1. CASE Longer
    BY <1>1, <2>1 DEF LInv, Longer
  <2>2. CASE UNCHANGED <<mem, len>>
    BY <2>2 DEF LInv
  <2> QED BY <2>1, <2>2
<1> QED BY <1>2, <1>3, PTL DEF Lengths

(* Whatever the profile, whatever memory, tag array and alignment a pool is
   set up with, and wherever it lies, it is laid out as the buddy pool takes
   it to be, or refused for want of room. *)
THEOREM PoolsLaidOut == Lengths => []PoolLaidOut
<1>1. LInv => PoolLaidOut
  <2> SUFFICES ASSUME LInv, NEW ext \in TagArrays, NEW want \in Aligns
               PROVE  LET p    == SetUp(mem, len, ext, want)
                          data == p.base + p.count * Min
                      IN  IF p.ok
                          THEN /\ p.tags = mem => mem + p.count <= p.base
                               /\ ext # None => p.count <= ext
                               /\ mem <= p.base /\ data <= mem + len
                               /\ p.base % p.align = 0 /\ p.align >= Min
                               /\ \/ mem + len - data < Min
                                  \/ p.count \in {ext, 2 ^ Mx - 1} \/ p.count = MaxTotal \div Min
                               /\ OrderBytes(p.max_order - 1) <= p.count * Min
                               /\ p.count * Min < OrderBytes(p.max_order) /\ p.max_order <= Mx
                          ELSE \/ len < 4 * Min \/ ext = 0
                               \/ LET first == mem + (IF ext = None THEN TagArea(len) ELSE 0)
                                  IN  ~ \E x \in first .. mem + len - 2 * Min : x % Min = 0
    BY Zenon DEF PoolLaidOut
  <2>1. /\ mem \in Nat \ {0} /\ len \in Nat /\ mem + len < Word /\ len + Min < Word
        /\ ext \in Nat \union {None} /\ want \in 0 .. SizeMax
    <3>1. Min \in Nat /\ Word \in Nat
      BY WordNumbers, SetupAssumption
    <3>2. MaxLen \in Nat /\ MaxLen + Min < Word
      BY LayoutAssumption
    <3>3. ext \in Nat \union {None} /\ want \in 0 .. SizeMax
      BY LayoutAssumption
    <3> QED BY <3>1, <3>2, <3>3 DEF LInv
  <2>2. CASE SetUp(mem, len, ext, want).ok
    BY <2>1, <2>2, PoolFacts
  <2>3. CASE ~ SetUp(mem, len, ext, want).ok
    <3>1. \/ len < 4 * Min \/ ext = 0
          \/ ~ \E x \in First(mem, len, ext) .. mem + len - 2 * Min : x % Min = 0
      BY <2>1, <2>3, RefusalFacts
    <3>2. First(mem, len, ext) = mem + (IF ext = None THEN TagArea(len) ELSE 0)
      BY DEF First
    <3> QED BY <2>3, <3>1, <3>2
  <2> QED BY <2>2, <2>3
<1> QED BY <1>1, WalkBounded, PTL

(* The memory the heap grows by serves the request it grew for, whatever the
   length, the alignment and the address. *)
THEOREM GrowthIsEnough == Lengths => []GrowthSuffices
<1>1. LInv => GrowthSuffices
  <2> SUFFICES ASSUME LInv, NEW al \in {a \in Aligns : IsPow2(a) /\ a <= MaxAlign},
                      NEW n, n = GrowLength(GrowFor(len, al)), len # 0, n # None, mem + n < Word
               PROVE  Servable(SetUp(mem, n, None, MaxAlign), len, al)
    BY Zenon DEF GrowthSuffices
  <2>1. mem \in Nat \ {0} /\ len \in 1 .. MaxLen
    BY LayoutAssumption DEF LInv
  <2>2. al \in Pow2s /\ al <= MaxAlign
    BY DEF IsPow2
  <2> QED BY <2>1, <2>2, GrowthFacts
<1> QED BY <1>1, WalkBounded, PTL

(* The announced length is honest for every request up to half a word. *)
THEOREM ExtentsHonest == Lengths => []ExtentHonest
<1>1. LInv => ExtentHonest
  <2> SUFFICES ASSUME LInv, NEW al \in {a \in Aligns : IsPow2(a)}, len # 0, len + Rz <= SizeMax \div 2
               PROVE  LET e == AllocationExtent(len, al)
                      IN  /\ len <= e
                          /\ \A g \in Grants(len + Rz, al) : e <= g - Rz
                          /\ AllocationExtent(e, al) = e
                          /\ AllocationExtent(len - 1, al) <= e
    BY Zenon DEF ExtentHonest
  <2>1. len \in Nat \ {0} /\ al \in Pow2s
    BY LayoutAssumption DEF LInv, IsPow2
  <2> QED BY <2>1, HonestFacts
<1> QED BY <1>1, WalkBounded, PTL

-----------------------------------------------------------------------------
(* The blocks whose tag calls them free of order o, the lists these make, and
   the pool of Buddy with these lists and no cache. *)
Tagged(p, o) == {u \in Units : p.tags[u] = Free(o)}
Lists(p) == [o \in Orders |-> Tagged(p, o)]

Flat(p) ==
  [tags |-> p.tags, free |-> Lists(p), free_mask |-> p.free_mask,
   cache |-> [o \in Orders |-> {}], cache_count |-> [o \in Orders |-> 0],
   allocated |-> p.allocated]

(* The words of the blocks of the lists F thread them: a head is a block of its
   list, next leads to a block of the list that is not the head, entered
   earlier and points back, and every block but the head is the next of the
   block before it.  age tells which block entered later: it makes next end. *)
Threaded(p, F, age) ==
  \A o \in Orders :
    /\ p.heads[o] \in F[o] \/ (p.heads[o] = Null /\ F[o] = {})
    /\ \A u \in F[o] :
         /\ \/ p.next[u] = Null
            \/ /\ p.next[u] \in F[o] \ {p.heads[o]} /\ age[p.next[u]] < age[u]
               /\ p.prev[p.next[u]] = u
         /\ u = p.heads[o] \/ (p.prev[u] \in F[o] /\ p.next[p.prev[u]] = u)

Threads(p, F) ==
  \E age \in [Units -> Nat], clock \in Nat :
    Threaded(p, F, age) /\ \A u \in Units : age[u] < clock

(* No block is in two lists. *)
Apart(F) ==
  /\ F \in [Orders -> SUBSET Units]
  /\ \A o, k \in Orders : \A u \in F[o] : u \in F[k] => o = k

(* No block is at two orders. *)
Injective(at) == \A o, k \in DOMAIN at : at[o] = at[k] => o = k

(* Null and what the user may have written are no blocks. *)
LEMMA WordFacts == Units \subseteq Int /\ Null \notin Units /\ Junk \notin Units /\ Junk # Null
  /\ Units \subseteq Words /\ Null \in Words /\ Junk \in Words
BY TotalAssumption DEF Units, Null, Junk, Words, Pointers

(* What entering their lists changes of the pool. *)
LinksIn(p, q, at) ==
  /\ q \in LinkedShapes
  /\ \A o \in Orders : q.heads[o] = IF o \in DOMAIN at THEN at[o] ELSE p.heads[o]
  /\ \A o \in DOMAIN at : /\ q.next[at[o]] = p.heads[o] /\ q.prev[at[o]] = Null
                  /\ q.tags[at[o]] = Free(o)
  /\ \A u \in Units : (\A o \in DOMAIN at : at[o] # u) =>
       /\ q.next[u] = p.next[u] /\ q.tags[u] = p.tags[u]
       /\ (\A o \in DOMAIN at : p.heads[o] # u) => q.prev[u] = p.prev[u]
       /\ \A o \in DOMAIN at : p.heads[o] = u /\ (\A k \in DOMAIN at : p.heads[k] = u => k = o)
            => q.prev[u] = at[o]
  /\ q.free_mask = p.free_mask /\ q.allocated = p.allocated

(* LinkFront does that, word for word. *)
LEMMA LinkFields ==
  ASSUME NEW p \in LinkedShapes, NEW D \in SUBSET Orders, NEW at \in [D -> Units],
         Injective(at)
  PROVE  LinksIn(p, LinkFront(p, at), at)
<1>0. SUFFICES ASSUME NEW q, q = LinkFront(p, at) PROVE LinksIn(p, q, at)
  OBVIOUS
<1> DEFINE orderOf(u) == CHOOSE o \in D : at[o] = u
           entering(u) == \E o \in D : at[o] = u
           follows(o, u) == p.heads[o] = u
           heads == [o \in Orders |-> IF o \in D THEN at[o] ELSE p.heads[o]]
           next == [u \in Units |-> IF entering(u) THEN p.heads[orderOf(u)] ELSE p.next[u]]
           prev == [u \in Units |->
                 IF entering(u) THEN Null
                 ELSE IF \E o \in D : follows(o, u)
                 THEN at[CHOOSE o \in D : follows(o, u)] ELSE p.prev[u]]
           tags == [u \in Units |-> IF entering(u) THEN Free(orderOf(u)) ELSE p.tags[u]]
<1>1. q = [p EXCEPT !.heads = heads, !.next = next, !.prev = prev, !.tags = tags]
  BY <1>0 DEF LinkFront
<1>2. /\ p = [tags |-> p.tags, heads |-> p.heads, next |-> p.next, prev |-> p.prev,
              free_mask |-> p.free_mask, allocated |-> p.allocated]
      /\ p.tags \in [Units -> Tags] /\ p.heads \in [Orders -> Words]
      /\ p.next \in [Units -> Words] /\ p.prev \in [Units -> Words]
      /\ p.free_mask \in SUBSET Orders /\ p.allocated \in Int
  BY DEF LinkedShapes
<1>3. /\ q.heads = heads /\ q.next = next /\ q.prev = prev /\ q.tags = tags
      /\ q.free_mask = p.free_mask /\ q.allocated = p.allocated
      /\ q = [tags |-> tags, heads |-> heads, next |-> next, prev |-> prev,
              free_mask |-> p.free_mask, allocated |-> p.allocated]
  <2> HIDE DEF heads, next, prev, tags
  <2>1. QED BY <1>1, <1>2
<1>4. \A o \in D : orderOf(at[o]) = o /\ entering(at[o])
  BY DEF Injective
<1>5. \A u \in Units : entering(u) => orderOf(u) \in D /\ at[orderOf(u)] = u
  OBVIOUS
<1>6. /\ \A o \in D : next[at[o]] = p.heads[o] /\ prev[at[o]] = Null /\ tags[at[o]] = Free(o)
  <2>1. \A o \in D : at[o] \in Units
    OBVIOUS
  <2> HIDE DEF orderOf, entering
  <2>2. QED BY <1>4, <2>1
<1>7. \A u \in Units : ~ entering(u) =>
         /\ next[u] = p.next[u] /\ tags[u] = p.tags[u]
         /\ (\A o \in D : p.heads[o] # u) => prev[u] = p.prev[u]
  <2> HIDE DEF orderOf, entering
  <2>1. QED OBVIOUS
<1>8. \A u \in Units : ~ entering(u) => \A o \in D :
         p.heads[o] = u /\ (\A k \in D : p.heads[k] = u => k = o) => prev[u] = at[o]
  <2>1. SUFFICES ASSUME NEW u \in Units, ~ entering(u), NEW o \in D, p.heads[o] = u,
                        \A k \in D : p.heads[k] = u => k = o
                 PROVE  prev[u] = at[o]
    OBVIOUS
  <2>2. (CHOOSE k \in D : follows(k, u)) = o /\ \E k \in D : follows(k, u)
    BY <2>1
  <2> HIDE DEF entering, follows
  <2>3. QED BY <2>1, <2>2
<1>9. q \in LinkedShapes
  <2>1. heads \in [Orders -> Words]
    BY <1>2, WordFacts
  <2>2. next \in [Units -> Words]
    <3>1. \A u \in Units : entering(u) => p.heads[orderOf(u)] \in Words
      BY <1>2, <1>5
    <3> HIDE DEF entering, orderOf
    <3>2. QED BY <1>2, <3>1
  <2>3. prev \in [Units -> Words]
    <3>1. \A u \in Units : (\E o \in D : follows(o, u)) =>
              at[CHOOSE o \in D : follows(o, u)] \in Words
      BY WordFacts
    <3> HIDE DEF entering, follows
    <3>2. QED BY <1>2, <3>1, WordFacts
  <2>4. tags \in [Units -> Tags]
    <3>1. \A u \in Units : entering(u) => Free(orderOf(u)) \in Tags
      BY <1>5 DEF Free, Tags
    <3> HIDE DEF entering, orderOf
    <3>2. QED BY <1>2, <3>1
  <2> HIDE DEF heads, next, prev, tags
  <2>5. QED BY <1>2, <1>3, <2>1, <2>2, <2>3, <2>4 DEF LinkedShapes
<1>10. \A o \in Orders : q.heads[o] = IF o \in D THEN at[o] ELSE p.heads[o]
  BY <1>3
<1>11. \A u \in Units : (\A o \in D : at[o] # u) => ~ entering(u)
  OBVIOUS
<1> HIDE DEF next, prev, tags, heads, orderOf, follows, entering
<1>12. D = DOMAIN at
  OBVIOUS
<1>13. QED BY <1>3, <1>6, <1>7, <1>8, <1>9, <1>10, <1>11, <1>12 DEF LinksIn

(* The lists after blocks have entered at their heads. *)
More(F, at) == [o \in Orders |-> IF o \in DOMAIN at THEN F[o] \union {at[o]} ELSE F[o]]

(* Blocks that were in no list may enter at the heads: they are the youngest. *)
LEMMA LinkThreads ==
  ASSUME NEW p \in LinkedShapes, NEW D \in SUBSET Orders, NEW at \in [D -> Units],
         Injective(at), NEW F, Apart(F), Threads(p, F),
         \A o \in D : \A k \in Orders : at[o] \notin F[k]
  PROVE  Threads(LinkFront(p, at), More(F, at))
<1>0. SUFFICES ASSUME NEW q, q = LinkFront(p, at),
                      NEW G, G = [o \in Orders |-> IF o \in D THEN F[o] \union {at[o]} ELSE F[o]]
               PROVE  Threads(q, G)
  BY DEF More
<1>1. PICK age \in [Units -> Nat], clock \in Nat :
        Threaded(p, F, age) /\ \A u \in Units : age[u] < clock
  BY DEF Threads
<1>2. /\ q \in LinkedShapes
      /\ \A o \in Orders : q.heads[o] = IF o \in D THEN at[o] ELSE p.heads[o]
      /\ \A o \in D : /\ q.next[at[o]] = p.heads[o] /\ q.prev[at[o]] = Null
                      /\ q.tags[at[o]] = Free(o)
      /\ \A u \in Units : (\A o \in D : at[o] # u) =>
           /\ q.next[u] = p.next[u] /\ q.tags[u] = p.tags[u]
           /\ (\A o \in D : p.heads[o] # u) => q.prev[u] = p.prev[u]
           /\ \A o \in D : p.heads[o] = u /\ (\A k \in D : p.heads[k] = u => k = o)
                => q.prev[u] = at[o]
  <2>1. LinksIn(p, q, at) /\ D = DOMAIN at
    BY <1>0, LinkFields
  <2>2. QED BY <2>1 DEF LinksIn
<1> DEFINE entered == {at[o] : o \in D}
           newAge == [u \in Units |-> IF u \in entered THEN clock ELSE age[u]]
<1>3. /\ newAge \in [Units -> Nat] /\ clock + 1 \in Nat
      /\ \A u \in Units : newAge[u] < clock + 1
  BY <1>1
<1>4. SUFFICES ASSUME NEW o \in Orders
      PROVE  /\ q.heads[o] \in G[o] \/ (q.heads[o] = Null /\ G[o] = {})
             /\ \A u \in G[o] :
                  /\ \/ q.next[u] = Null
                     \/ /\ q.next[u] \in G[o] \ {q.heads[o]} /\ newAge[q.next[u]] < newAge[u]
                        /\ q.prev[q.next[u]] = u
                  /\ u = q.heads[o] \/ (q.prev[u] \in G[o] /\ q.next[q.prev[u]] = u)
  <2> HIDE DEF newAge
  <2>1. Threaded(q, G, newAge)
    BY <1>4 DEF Threaded
  <2>2. QED BY <1>3, <2>1 DEF Threads
(* How list o was threaded before. *)
<1>5. /\ p.heads[o] \in F[o] \/ (p.heads[o] = Null /\ F[o] = {})
      /\ \A u \in F[o] :
           /\ \/ p.next[u] = Null
              \/ /\ p.next[u] \in F[o] \ {p.heads[o]} /\ age[p.next[u]] < age[u]
               /\ p.prev[p.next[u]] = u
           /\ u = p.heads[o] \/ (p.prev[u] \in F[o] /\ p.next[p.prev[u]] = u)
  BY <1>1 DEF Threaded
<1>6. F[o] \subseteq Units /\ \A u \in F[o] : \A k \in D : at[k] # u
  BY DEF Apart
<1>7. \A u \in F[o] : \A k \in D : p.heads[k] = u => k = o
  <2>1. SUFFICES ASSUME NEW u \in F[o], NEW k \in D, p.heads[k] = u PROVE k = o
    OBVIOUS
  <2>2. k \in Orders /\ (p.heads[k] \in F[k] \/ p.heads[k] = Null)
    BY <1>1 DEF Threaded
  <2>3. u # Null
    BY <1>6, WordFacts
  <2>4. QED BY <2>1, <2>2, <2>3 DEF Apart
<1>8. \A u \in F[o] : /\ q.next[u] = p.next[u] /\ newAge[u] = age[u]
                      /\ (o \notin D \/ u # p.heads[o]) => q.prev[u] = p.prev[u]
                      /\ (o \in D /\ u = p.heads[o]) => q.prev[u] = at[o]
  <2>1. SUFFICES ASSUME NEW u \in F[o]
        PROVE /\ q.next[u] = p.next[u] /\ newAge[u] = age[u]
              /\ (o \notin D \/ u # p.heads[o]) => q.prev[u] = p.prev[u]
              /\ (o \in D /\ u = p.heads[o]) => q.prev[u] = at[o]
    OBVIOUS
  <2>2. u \in Units /\ u \notin entered /\ \A k \in D : at[k] # u
    BY <1>6
  <2>3. \A k \in D : p.heads[k] = u => k = o
    BY <1>7
  <2>4. newAge[u] = age[u]
    BY <2>2
  <2>5. QED BY <1>2, <2>2, <2>3, <2>4
<1>9. CASE o \notin D
  <2>1. G[o] = F[o] /\ q.heads[o] = p.heads[o]
    BY <1>0, <1>2, <1>9
  <2> HIDE DEF newAge
  <2>2. QED BY <1>5, <1>8, <1>9, <2>1
<1>10. CASE o \in D
  <2>1. PICK w \in Units : w = at[o]
    BY <1>10
  <2>2. /\ G[o] = F[o] \union {w} /\ q.heads[o] = w /\ q.next[w] = p.heads[o]
    BY <1>0, <1>2, <1>10, <2>1
  <2>3. newAge[w] = clock
    BY <1>10, <2>1
  <2>4. \A u \in F[o] : age[u] < clock
    BY <1>1, <1>6
  <2>5. \/ q.next[w] = Null
        \/ q.next[w] \in G[o] \ {q.heads[o]} /\ newAge[q.next[w]] < newAge[w] /\ q.prev[q.next[w]] = w
    <3> HIDE DEF newAge
    <3>1. QED BY <1>5, <1>8, <1>10, <2>1, <2>2, <2>3, <2>4
  <2>6. ASSUME NEW u \in F[o]
        PROVE  /\ \/ q.next[u] = Null
                  \/ q.next[u] \in G[o] \ {q.heads[o]} /\ newAge[q.next[u]] < newAge[u] /\ q.prev[q.next[u]] = u
               /\ q.prev[u] \in G[o] /\ q.next[q.prev[u]] = u
    <3>1. u = p.heads[o] => q.prev[u] \in G[o] /\ q.next[q.prev[u]] = u
      <4>1. u = p.heads[o] => q.prev[u] = w
        BY <1>8, <1>10, <2>1
      <4>2. QED BY <2>2, <4>1
    <3>2. u # p.heads[o] => q.prev[u] \in G[o] /\ q.next[q.prev[u]] = u
      <4>1. u # p.heads[o] =>
              q.prev[u] = p.prev[u] /\ p.prev[u] \in F[o] /\ p.next[p.prev[u]] = u
        BY <1>5, <1>8
      <4>2. u # p.heads[o] => q.next[p.prev[u]] = u
        BY <1>8, <4>1
      <4>3. QED BY <2>2, <4>1, <4>2
    <3>3. w \notin F[o] /\ q.heads[o] = w
      BY <1>6, <1>10, <2>1, <2>2
    <3>4. \/ p.next[u] = Null
          \/ /\ p.next[u] \in F[o] \ {p.heads[o]} /\ age[p.next[u]] < age[u]
             /\ p.prev[p.next[u]] = u
      BY <1>5
    <3>5. \A v \in F[o] \ {p.heads[o]} : /\ q.prev[v] = p.prev[v] /\ newAge[v] = age[v]
                                         /\ v \in G[o] \ {q.heads[o]}
      BY <1>8, <2>2, <3>3
    <3>6. q.next[u] = p.next[u] /\ newAge[u] = age[u]
      BY <1>8
    <3>7. \/ q.next[u] = Null
          \/ /\ q.next[u] \in G[o] \ {q.heads[o]} /\ newAge[q.next[u]] < newAge[u]
             /\ q.prev[q.next[u]] = u
      <4>1. PICK v : v = p.next[u]
        OBVIOUS
      <4>2. q.next[u] = v
        BY <3>6, <4>1
      <4>3. CASE v = Null
        BY <4>2, <4>3
      <4>4. CASE v \in F[o] \ {p.heads[o]} /\ age[v] < age[u] /\ p.prev[v] = u
        <5>1. q.prev[v] = u /\ newAge[v] < newAge[u] /\ v \in G[o] \ {q.heads[o]}
          BY <3>5, <3>6, <4>4
        <5>2. QED BY <4>2, <5>1
      <4>5. QED BY <3>4, <4>1, <4>3, <4>4
    <3>8. QED BY <3>1, <3>2, <3>7
  <2> HIDE DEF newAge
  <2>7. QED BY <2>2, <2>5, <2>6
<1>11. QED BY <1>9, <1>10

(* Threading is about the blocks of the lists only. *)
LEMMA SameLinks ==
  ASSUME NEW p, NEW q, NEW F, Apart(F), Threads(p, F), q.heads = p.heads,
         \A o \in Orders : \A u \in F[o] : q.next[u] = p.next[u] /\ q.prev[u] = p.prev[u]
  PROVE  Threads(q, F)
<1>1. PICK age \in [Units -> Nat], clock \in Nat :
        Threaded(p, F, age) /\ \A u \in Units : age[u] < clock
  BY DEF Threads
<1>2. Threaded(q, F, age)
  <2>1. SUFFICES ASSUME NEW o \in Orders
        PROVE  /\ q.heads[o] \in F[o] \/ (q.heads[o] = Null /\ F[o] = {})
               /\ \A u \in F[o] :
                    /\ \/ q.next[u] = Null
                       \/ /\ q.next[u] \in F[o] \ {q.heads[o]} /\ age[q.next[u]] < age[u]
                          /\ q.prev[q.next[u]] = u
                    /\ u = q.heads[o] \/ (q.prev[u] \in F[o] /\ q.next[q.prev[u]] = u)
    BY DEF Threaded
  <2>2. /\ p.heads[o] \in F[o] \/ (p.heads[o] = Null /\ F[o] = {})
        /\ \A u \in F[o] :
             /\ \/ p.next[u] = Null
                \/ /\ p.next[u] \in F[o] \ {p.heads[o]} /\ age[p.next[u]] < age[u]
                   /\ p.prev[p.next[u]] = u
             /\ u = p.heads[o] \/ (p.prev[u] \in F[o] /\ p.next[p.prev[u]] = u)
    BY <1>1 DEF Threaded
  <2>3. QED BY <2>2
<1>3. QED BY <1>1, <1>2 DEF Threads

(* From the head, next leads to every block of the list. *)
LEMMA AllMet ==
  ASSUME NEW p, NEW F, Apart(F), Threads(p, F), NEW o \in Orders, NEW S,
         p.heads[o] \in F[o] => p.heads[o] \in S,
         \A u \in F[o] : u \in S /\ p.next[u] \in F[o] => p.next[u] \in S
  PROVE  F[o] \subseteq S
<1>1. PICK age \in [Units -> Nat], clock \in Nat :
        Threaded(p, F, age) /\ \A u \in Units : age[u] < clock
  BY DEF Threads
<1>2. F[o] \subseteq Units
  BY DEF Apart
<1> DEFINE rank(u) == clock - age[u]
           T == {rank(u) : u \in F[o] \ S}
<1>3. SUFFICES ASSUME T # {} PROVE FALSE
  OBVIOUS
<1>4. \A u \in Units : rank(u) \in Nat
  BY <1>1
<1>5. T \subseteq Nat
  BY <1>2, <1>4
<1>6. PICK m \in T : \A n \in T : m <= n
  <2> HIDE DEF T
  <2>1. QED BY <1>3, <1>5, LeastElement
<1>7. PICK u \in F[o] \ S : m = rank(u)
  BY <1>6
<1>8. u # p.heads[o]
  BY <1>7
<1>9. p.prev[u] \in F[o] /\ p.next[p.prev[u]] = u
  BY <1>1, <1>7, <1>8 DEF Threaded
<1>10. PICK v \in F[o] : v = p.prev[u]
  BY <1>9
<1>11. p.next[v] = u /\ u # Null
  BY <1>2, <1>7, <1>9, <1>10, WordFacts
<1>12. age[u] < age[v]
  <2>1. \/ p.next[v] = Null
        \/ /\ p.next[v] \in F[o] \ {p.heads[o]} /\ age[p.next[v]] < age[v]
           /\ p.prev[p.next[v]] = v
    BY <1>1 DEF Threaded
  <2>2. QED BY <1>11, <2>1
<1>13. v \notin S
  BY <1>7, <1>11
<1>14. rank(v) \in T
  BY <1>13
<1>15. rank(v) < rank(u)
  <2>1. age[u] \in Nat /\ age[v] \in Nat
    BY <1>2, <1>7
  <2>2. QED BY <1>12, <2>1
<1>16. m <= rank(v) /\ rank(v) \in Nat /\ rank(u) \in Nat
  <2> HIDE DEF T, rank
  <2>1. QED BY <1>2, <1>4, <1>6, <1>7, <1>14
<1> HIDE DEF rank
<1>17. QED BY <1>7, <1>15, <1>16

(* What leaving their lists changes of the pool. *)
UnlinksFrom(p, q, at) ==
  /\ q \in LinkedShapes
  /\ \A o \in Orders :
       q.heads[o] = IF o \in DOMAIN at /\ p.heads[o] = at[o] THEN p.next[at[o]] ELSE p.heads[o]
  /\ \A u \in Units :
       /\ (\A o \in DOMAIN at : p.heads[o] = at[o] \/ p.prev[at[o]] # u) => q.next[u] = p.next[u]
       /\ (\A o \in DOMAIN at : p.heads[o] = at[o] \/ p.next[at[o]] # u) => q.prev[u] = p.prev[u]
       /\ \A o \in DOMAIN at :
            /\ /\ p.heads[o] # at[o] /\ p.prev[at[o]] = u
               /\ \A k \in DOMAIN at : p.heads[k] # at[k] /\ p.prev[at[k]] = u => k = o
               => q.next[u] = p.next[at[o]]
            /\ /\ p.heads[o] # at[o] /\ p.next[at[o]] = u
               /\ \A k \in DOMAIN at : p.heads[k] # at[k] /\ p.next[at[k]] = u => k = o
               => q.prev[u] = p.prev[at[o]]
  /\ q.tags = p.tags /\ q.allocated = p.allocated
  /\ q.free_mask = p.free_mask \
       {o \in DOMAIN at : p.heads[o] = at[o] /\ p.next[at[o]] = Null}

(* UnlinkDo does that, word for word. *)
LEMMA UnlinkFields ==
  ASSUME NEW p \in LinkedShapes, NEW D \in SUBSET Orders, NEW at \in [D -> Units]
  PROVE  UnlinksFrom(p, UnlinkDo(p, at), at)
<1>0. SUFFICES ASSUME NEW q, q = UnlinkDo(p, at) PROVE UnlinksFrom(p, q, at)
  OBVIOUS
<1> DEFINE isHead(o) == p.heads[o] = at[o]
           before(o, u) == ~ isHead(o) /\ p.prev[at[o]] = u
           after(o, u) == ~ isHead(o) /\ p.next[at[o]] = u
           heads == [o \in Orders |-> IF o \in D /\ isHead(o) THEN p.next[at[o]] ELSE p.heads[o]]
           next == [u \in Units |->
             IF \E o \in D : before(o, u)
             THEN p.next[at[CHOOSE o \in D : before(o, u)]] ELSE p.next[u]]
           prev == [u \in Units |->
             IF \E o \in D : after(o, u)
             THEN p.prev[at[CHOOSE o \in D : after(o, u)]] ELSE p.prev[u]]
           mask == p.free_mask \ {o \in D : isHead(o) /\ p.next[at[o]] = Null}
<1>1. q = [p EXCEPT !.heads = heads, !.next = next, !.prev = prev, !.free_mask = mask]
  BY <1>0 DEF UnlinkDo
<1>2. /\ p = [tags |-> p.tags, heads |-> p.heads, next |-> p.next, prev |-> p.prev,
              free_mask |-> p.free_mask, allocated |-> p.allocated]
      /\ p.tags \in [Units -> Tags] /\ p.heads \in [Orders -> Words]
      /\ p.next \in [Units -> Words] /\ p.prev \in [Units -> Words]
      /\ p.free_mask \in SUBSET Orders /\ p.allocated \in Int
  BY DEF LinkedShapes
<1>3. /\ q.heads = heads /\ q.next = next /\ q.prev = prev /\ q.free_mask = mask
      /\ q.tags = p.tags /\ q.allocated = p.allocated
      /\ q = [tags |-> p.tags, heads |-> heads, next |-> next, prev |-> prev,
              free_mask |-> mask, allocated |-> p.allocated]
  <2> HIDE DEF heads, next, prev, mask
  <2>1. QED BY <1>1, <1>2
<1>4. \A o \in Orders :
        q.heads[o] = IF o \in DOMAIN at /\ p.heads[o] = at[o] THEN p.next[at[o]] ELSE p.heads[o]
  BY <1>3
<1>5. ASSUME NEW u \in Units
      PROVE  /\ (\A o \in D : ~ before(o, u)) => next[u] = p.next[u]
             /\ (\A o \in D : ~ after(o, u)) => prev[u] = p.prev[u]
             /\ \A o \in D :
                  /\ before(o, u) /\ (\A k \in D : before(k, u) => k = o)
                       => next[u] = p.next[at[o]]
                  /\ after(o, u) /\ (\A k \in D : after(k, u) => k = o)
                       => prev[u] = p.prev[at[o]]
  <2>1. \A o \in D : before(o, u) /\ (\A k \in D : before(k, u) => k = o) =>
                       (CHOOSE k \in D : before(k, u)) = o
    <3> HIDE DEF before
    <3>1. QED OBVIOUS
  <2>2. \A o \in D : after(o, u) /\ (\A k \in D : after(k, u) => k = o) =>
                       (CHOOSE k \in D : after(k, u)) = o
    <3> HIDE DEF after
    <3>1. QED OBVIOUS
  <2> HIDE DEF before, after
  <2>3. QED BY <2>1, <2>2
<1>6. q \in LinkedShapes
  <2>1. heads \in [Orders -> Words] /\ mask \in SUBSET Orders
    BY <1>2
  <2>2. next \in [Units -> Words]
    <3>1. \A u \in Units : (\E o \in D : before(o, u)) =>
              p.next[at[CHOOSE o \in D : before(o, u)]] \in Words
      <4> HIDE DEF before
      <4>1. QED BY <1>2
    <3> HIDE DEF before
    <3>2. QED BY <1>2, <3>1
  <2>3. prev \in [Units -> Words]
    <3>1. \A u \in Units : (\E o \in D : after(o, u)) =>
              p.prev[at[CHOOSE o \in D : after(o, u)]] \in Words
      <4> HIDE DEF after
      <4>1. QED BY <1>2
    <3> HIDE DEF after
    <3>2. QED BY <1>2, <3>1
  <2> HIDE DEF heads, next, prev, mask
  <2>4. QED BY <1>2, <1>3, <2>1, <2>2, <2>3 DEF LinkedShapes
<1>7. D = DOMAIN at
  OBVIOUS
<1>8. \A u \in Units :
        /\ (\A o \in D : p.heads[o] = at[o] \/ p.prev[at[o]] # u) => q.next[u] = p.next[u]
        /\ (\A o \in D : p.heads[o] = at[o] \/ p.next[at[o]] # u) => q.prev[u] = p.prev[u]
        /\ \A o \in D :
             /\ /\ p.heads[o] # at[o] /\ p.prev[at[o]] = u
                /\ \A k \in D : p.heads[k] # at[k] /\ p.prev[at[k]] = u => k = o
                => q.next[u] = p.next[at[o]]
             /\ /\ p.heads[o] # at[o] /\ p.next[at[o]] = u
                /\ \A k \in D : p.heads[k] # at[k] /\ p.next[at[k]] = u => k = o
                => q.prev[u] = p.prev[at[o]]
  <2> HIDE DEF next, prev
  <2>1. QED BY <1>3, <1>5
<1>9. q.free_mask = p.free_mask \ {o \in D : p.heads[o] = at[o] /\ p.next[at[o]] = Null}
  BY <1>3
<1>10. q.tags = p.tags /\ q.allocated = p.allocated
  BY <1>3
<1> HIDE DEF isHead, before, after, heads, next, prev, mask
<1>11. QED BY <1>4, <1>6, <1>7, <1>8, <1>9, <1>10, Zenon DEF UnlinksFrom

(* In a threaded list the blocks before and after are of the same list. *)
WellLinked(p, F, o, u) ==
  /\ u \in Units /\ u # Null
  /\ p.heads[o] \in F[o]
  /\ p.next[u] # Null =>
       /\ p.next[u] \in F[o] /\ p.next[u] # p.heads[o] /\ p.next[u] # u
       /\ p.prev[p.next[u]] = u
  /\ u # p.heads[o] => /\ p.prev[u] \in F[o] /\ p.prev[u] # u /\ p.next[p.prev[u]] = u

LEMMA ListFacts ==
  ASSUME NEW p, NEW F, Apart(F), NEW age \in [Units -> Nat], Threaded(p, F, age),
         NEW o \in Orders, NEW u \in F[o]
  PROVE  WellLinked(p, F, o, u)
<1>1. u \in Units /\ u # Null
  BY WordFacts DEF Apart
<1>2. /\ p.heads[o] \in F[o] \/ (p.heads[o] = Null /\ F[o] = {})
      /\ \A v \in F[o] :
           /\ \/ p.next[v] = Null
              \/ /\ p.next[v] \in F[o] \ {p.heads[o]} /\ age[p.next[v]] < age[v]
                 /\ p.prev[p.next[v]] = v
           /\ v = p.heads[o] \/ (p.prev[v] \in F[o] /\ p.next[p.prev[v]] = v)
  BY DEF Threaded
<1>3. p.next[u] # u
  <2>1. SUFFICES ASSUME p.next[u] = u PROVE FALSE
    OBVIOUS
  <2>2. age[u] < age[u] /\ age[u] \in Nat
    BY <1>1, <1>2, <2>1
  <2>3. QED BY <2>2
<1>4. QED BY <1>1, <1>2, <1>3 DEF WellLinked

(* The lists after blocks have left. *)
Fewer(F, at) == [o \in Orders |-> IF o \in DOMAIN at THEN F[o] \ {at[o]} ELSE F[o]]

(* Wherever in its list a block stands, the rest is threaded once it has left,
   with the same ages. *)
LEMMA UnlinkThreads ==
  ASSUME NEW p \in LinkedShapes, NEW D \in SUBSET Orders, NEW at \in [D -> Units],
         NEW F, Apart(F), Threads(p, F), \A o \in D : at[o] \in F[o]
  PROVE  Threads(UnlinkDo(p, at), Fewer(F, at))
<1>0. SUFFICES ASSUME NEW q, q = UnlinkDo(p, at),
                      NEW G, G = [o \in Orders |-> IF o \in D THEN F[o] \ {at[o]} ELSE F[o]]
               PROVE  Threads(q, G)
  BY DEF Fewer
<1>1. PICK age \in [Units -> Nat], clock \in Nat :
        Threaded(p, F, age) /\ \A u \in Units : age[u] < clock
  BY DEF Threads
<1>2. /\ q \in LinkedShapes
      /\ \A o \in Orders :
           q.heads[o] = IF o \in D /\ p.heads[o] = at[o] THEN p.next[at[o]] ELSE p.heads[o]
      /\ \A u \in Units :
           /\ (\A o \in D : p.heads[o] = at[o] \/ p.prev[at[o]] # u) => q.next[u] = p.next[u]
           /\ (\A o \in D : p.heads[o] = at[o] \/ p.next[at[o]] # u) => q.prev[u] = p.prev[u]
           /\ \A o \in D :
                /\ /\ p.heads[o] # at[o] /\ p.prev[at[o]] = u
                   /\ \A k \in D : p.heads[k] # at[k] /\ p.prev[at[k]] = u => k = o
                   => q.next[u] = p.next[at[o]]
                /\ /\ p.heads[o] # at[o] /\ p.next[at[o]] = u
                   /\ \A k \in D : p.heads[k] # at[k] /\ p.next[at[k]] = u => k = o
                   => q.prev[u] = p.prev[at[o]]
  <2>1. UnlinksFrom(p, q, at) /\ D = DOMAIN at
    BY <1>0, UnlinkFields
  <2>2. QED BY <2>1 DEF UnlinksFrom
<1>3. SUFFICES ASSUME NEW o \in Orders
      PROVE  /\ q.heads[o] \in G[o] \/ (q.heads[o] = Null /\ G[o] = {})
             /\ \A u \in G[o] :
                  /\ \/ q.next[u] = Null
                     \/ /\ q.next[u] \in G[o] \ {q.heads[o]} /\ age[q.next[u]] < age[u]
                        /\ q.prev[q.next[u]] = u
                  /\ u = q.heads[o] \/ (q.prev[u] \in G[o] /\ q.next[q.prev[u]] = u)
  <2>1. Threaded(q, G, age)
    BY <1>3 DEF Threaded
  <2>2. QED BY <1>1, <2>1 DEF Threads
<1>4. /\ p.heads[o] \in F[o] \/ (p.heads[o] = Null /\ F[o] = {})
      /\ \A u \in F[o] :
           /\ p.next[u] # Null => age[p.next[u]] < age[u]
           /\ u \in Units /\ u # Null
           /\ p.next[u] # Null =>
                /\ p.next[u] \in F[o] /\ p.next[u] # p.heads[o] /\ p.next[u] # u
                /\ p.prev[p.next[u]] = u
           /\ u # p.heads[o] =>
                /\ p.prev[u] \in F[o] /\ p.prev[u] # u /\ p.next[p.prev[u]] = u
  <2>1. p.heads[o] \in F[o] \/ (p.heads[o] = Null /\ F[o] = {})
    BY <1>1 DEF Threaded
  <2>2. \A u \in F[o] : p.next[u] # Null => age[p.next[u]] < age[u]
    BY <1>1 DEF Threaded
  <2>3. \A u \in F[o] : WellLinked(p, F, o, u)
    BY <1>1, ListFacts
  <2>4. QED BY <2>1, <2>2, <2>3 DEF WellLinked
<1>5. \A u \in F[o] : \A k \in D :
        /\ p.heads[k] # at[k] /\ p.prev[at[k]] = u => k = o
        /\ p.next[at[k]] = u => k = o
  <2>1. SUFFICES ASSUME NEW u \in F[o], NEW k \in D
        PROVE  /\ p.heads[k] # at[k] /\ p.prev[at[k]] = u => k = o
               /\ p.next[at[k]] = u => k = o
    OBVIOUS
  <2>2. /\ p.next[at[k]] # Null => p.next[at[k]] \in F[k]
        /\ at[k] # p.heads[k] => p.prev[at[k]] \in F[k]
    <3>1. at[k] \in F[k] /\ k \in Orders
      OBVIOUS
    <3>2. WellLinked(p, F, k, at[k])
      BY <1>1, <3>1, ListFacts
    <3>3. QED BY <3>2 DEF WellLinked
  <2>3. u # Null /\ k \in Orders
    BY <1>4
  <2>4. QED BY <2>2, <2>3 DEF Apart
<1>6. CASE o \notin D
  <2>1. G[o] = F[o] /\ q.heads[o] = p.heads[o]
    BY <1>0, <1>2, <1>6
  <2>2. \A u \in F[o] : q.next[u] = p.next[u] /\ q.prev[u] = p.prev[u]
    BY <1>2, <1>4, <1>5, <1>6
  <2>3. QED BY <1>4, <2>1, <2>2
<1>7. CASE o \in D
  <2>1. PICK x \in F[o] : x = at[o]
    BY <1>7
  <2>2. /\ G[o] = F[o] \ {x}
        /\ q.heads[o] = IF p.heads[o] = x THEN p.next[x] ELSE p.heads[o]
    BY <1>0, <1>2, <1>7, <2>1
  <2>3. \A u \in F[o] :
          /\ (p.heads[o] # x /\ p.prev[x] = u) => q.next[u] = p.next[x]
          /\ ~ (p.heads[o] # x /\ p.prev[x] = u) => q.next[u] = p.next[u]
          /\ (p.heads[o] # x /\ p.next[x] = u) => q.prev[u] = p.prev[x]
          /\ ~ (p.heads[o] # x /\ p.next[x] = u) => q.prev[u] = p.prev[u]
    BY <1>2, <1>4, <1>5, <1>7, <2>1
  <2>4. q.heads[o] \in G[o] \/ (q.heads[o] = Null /\ G[o] = {})
    <3>1. CASE p.heads[o] # x
      BY <1>4, <2>2, <3>1
    <3>2. CASE p.heads[o] = x /\ p.next[x] # Null
      BY <1>4, <2>2, <3>2
    <3>3. CASE p.heads[o] = x /\ p.next[x] = Null
      <4>1. p.next[x] \notin F[o]
        BY <1>4, <3>3
      <4>2. F[o] \subseteq {x}
        BY <3>3, <4>1, AllMet
      <4>3. QED BY <2>2, <3>3, <4>2
    <3>4. QED BY <3>1, <3>2, <3>3
  <2>5. ASSUME NEW u \in G[o]
        PROVE  \/ q.next[u] = Null
               \/ /\ q.next[u] \in G[o] \ {q.heads[o]} /\ age[q.next[u]] < age[u]
                  /\ q.prev[q.next[u]] = u
    <3>1. u \in F[o] /\ u # x
      BY <2>2
    <3>2. CASE p.heads[o] # x /\ p.prev[x] = u
      <4>1. PICK n : n = p.next[x]
        OBVIOUS
      <4>2. q.next[u] = n
        BY <2>3, <3>1, <3>2, <4>1
      <4>3. ASSUME n # Null
            PROVE  n \in G[o] \ {q.heads[o]} /\ q.prev[n] = u /\ age[n] < age[x]
        <5>1. n \in F[o] /\ n # p.heads[o] /\ n # x /\ age[n] < age[x]
          BY <1>4, <4>1, <4>3
        <5>2. QED BY <2>2, <2>3, <3>2, <4>1, <5>1
      <4>4. p.next[u] = x /\ x # Null
        BY <1>4, <3>2
      <4>5. age[x] < age[u]
        BY <1>4, <3>1, <4>4
      <4>6. n # Null => age[n] < age[u]
        <5>1. n # Null => n \in Units
          BY <1>4, <2>2, <4>3
        <5>2. age[x] \in Nat /\ age[u] \in Nat /\ (n # Null => age[n] \in Nat)
          BY <1>4, <3>1, <5>1
        <5>3. QED BY <4>3, <4>5, <5>2
      <4>7. QED BY <4>2, <4>3, <4>6
    <3>3. CASE ~ (p.heads[o] # x /\ p.prev[x] = u)
      <4>1. PICK n : n = p.next[u]
        OBVIOUS
      <4>2. q.next[u] = n
        BY <2>3, <3>1, <3>3, <4>1
      <4>3. ASSUME n # Null
            PROVE  n \in G[o] \ {q.heads[o]} /\ q.prev[n] = u /\ age[n] < age[u]
        <5>1. n \in F[o] /\ n # p.heads[o] /\ p.prev[n] = u /\ age[n] < age[u]
          BY <1>4, <3>1, <4>1, <4>3
        <5>2. n # x
          BY <3>3, <5>1
        <5>3. p.next[x] # n
          BY <1>4, <3>1, <4>3, <5>1
        <5>4. q.prev[n] = u
          BY <2>3, <5>1, <5>3
        <5>5. n # q.heads[o]
          BY <2>2, <5>1, <5>3
        <5>6. QED BY <2>2, <5>1, <5>2, <5>4, <5>5
      <4>4. QED BY <4>2, <4>3
    <3>4. QED BY <3>2, <3>3
  <2>6. ASSUME NEW u \in G[o], u # q.heads[o]
        PROVE  q.prev[u] \in G[o] /\ q.next[q.prev[u]] = u
    <3>1. u \in F[o] /\ u # x
      BY <2>2
    <3>2. CASE p.heads[o] # x /\ p.next[x] = u
      <4>1. PICK v : v = p.prev[x]
        OBVIOUS
      <4>2. q.prev[u] = v
        BY <2>3, <3>1, <3>2, <4>1
      <4>3. v \in F[o] /\ v # x
        BY <1>4, <3>2, <4>1
      <4>4. q.next[v] = u
        BY <2>3, <3>2, <4>1, <4>3
      <4>5. QED BY <2>2, <4>2, <4>3, <4>4
    <3>3. CASE ~ (p.heads[o] # x /\ p.next[x] = u)
      <4>1. PICK v : v = p.prev[u]
        OBVIOUS
      <4>2. q.prev[u] = v
        BY <2>3, <3>1, <3>3, <4>1
      <4>3. u # p.heads[o]
        BY <2>2, <2>6, <3>1
      <4>4. v \in F[o] /\ p.next[v] = u
        BY <1>4, <3>1, <4>1, <4>3
      <4>5. v # x
        BY <2>2, <2>6, <3>3, <4>4
      <4>6. ~ (p.heads[o] # x /\ p.prev[x] = v)
        BY <1>4, <3>1, <4>4
      <4>7. q.next[v] = u
        BY <2>3, <4>4, <4>6
      <4>8. QED BY <2>2, <4>2, <4>4, <4>5, <4>7
    <3>4. QED BY <3>2, <3>3
  <2>7. QED BY <2>4, <2>5, <2>6
<1>8. QED BY <1>6, <1>7

-----------------------------------------------------------------------------
(* The pool of a linked pool, and what makes the links of it right. *)
LinkedWell(p) ==
  /\ p \in LinkedShapes
  /\ WellFormed(Flat(p))
  /\ Threads(p, Lists(p))

(* The fields of Flat(p). *)
LEMMA FlatFields ==
  ASSUME NEW p
  PROVE  /\ Flat(p).tags = p.tags /\ Flat(p).free = Lists(p)
         /\ Flat(p).free_mask = p.free_mask /\ Flat(p).allocated = p.allocated
         /\ \A o \in Orders : Flat(p).cache[o] = {} /\ Flat(p).cache_count[o] = 0
         /\ \A o \in Orders : Lists(p)[o] = Tagged(p, o)
         /\ \A o \in Orders, u \in Units : u \in Lists(p)[o] <=> p.tags[u] = Free(o)
BY DEF Flat, Lists, Tagged

(* A block bears one tag, so it is in one list. *)
LEMMA ListsApart == ASSUME NEW p PROVE Apart(Lists(p))
BY DEF Apart, Lists, Tagged, Free

(* A pool without a cache is known by its tags, mask and count. *)
LEMMA Concluded ==
  ASSUME NEW q \in LinkedShapes, NEW c, WellFormed(c), c.tags = q.tags,
         c.free_mask = q.free_mask, c.allocated = q.allocated,
         \A o \in Orders : c.cache[o] = {} /\ c.cache_count[o] = 0,
         Threads(q, c.free)
  PROVE  LinkedWell(q) /\ Flat(q) = c
<1>1. c \in PoolShapes /\ FreeListsMatchTags(c)
  BY DEF WellFormed
<1>2. c.free = Lists(q)
  <2>1. c.free \in [Orders -> SUBSET Units]
    BY <1>1 DEF PoolShapes
  <2>2. \A o \in Orders : c.free[o] = Tagged(q, o)
    <3>1. SUFFICES ASSUME NEW o \in Orders PROVE c.free[o] = Tagged(q, o)
      OBVIOUS
    <3>2. c.free[o] \subseteq Units
      BY <2>1
    <3>3. QED BY <1>1, <3>2 DEF FreeListsMatchTags, Tagged
  <2>3. QED BY <2>1, <2>2 DEF Lists
<1>3. c.cache = [o \in Orders |-> {}] /\ c.cache_count = [o \in Orders |-> 0]
  <2>1. c.cache \in [Orders -> SUBSET Units] /\ c.cache_count \in [Orders -> Int]
    BY <1>1 DEF PoolShapes
  <2>2. QED BY <2>1
<1>4. c = [tags |-> c.tags, free |-> c.free, free_mask |-> c.free_mask, cache |-> c.cache,
           cache_count |-> c.cache_count, allocated |-> c.allocated]
  BY <1>1 DEF PoolShapes
<1>5. Flat(q) = c
  BY <1>2, <1>3, <1>4 DEF Flat
<1>6. QED BY <1>2, <1>5 DEF LinkedWell

(* Every block of a list passes the check before it is unlinked. *)
LEMMA Checked ==
  ASSUME NEW p, LinkedWell(p), NEW o \in Orders, NEW u \in Units, p.tags[u] = Free(o)
  PROVE  UnlinkCheck(p, u, o)
<1>1. PICK age \in [Units -> Nat], clock \in Nat :
        Threaded(p, Lists(p), age) /\ \A v \in Units : age[v] < clock
  BY DEF LinkedWell, Threads
<1>2. u \in Lists(p)[o] /\ Apart(Lists(p)) /\ Lists(p)[o] \subseteq Units
  BY ListsApart, FlatFields DEF Apart
<1>3. /\ u \in Units /\ u # Null
      /\ p.next[u] # Null =>
           /\ p.next[u] \in Lists(p)[o] /\ p.next[u] # p.heads[o] /\ p.next[u] # u
           /\ p.prev[p.next[u]] = u
      /\ u # p.heads[o] => /\ p.prev[u] \in Lists(p)[o] /\ p.prev[u] # u
                           /\ p.next[p.prev[u]] = u
  <2>1. WellLinked(p, Lists(p), o, u)
    BY <1>1, <1>2, ListFacts
  <2>2. QED BY <2>1 DEF WellLinked
<1>4. p.prev[u] \in Units => p.prev[u] # Null
  BY WordFacts
<1>5. QED BY <1>2, <1>3, <1>4 DEF UnlinkCheck, PrevOf, LinkValid, Pointers

(* So the links never stop a merge that the tags allow. *)
LEMMA CanUnlinkSame ==
  ASSUME NEW p, LinkedWell(p), NEW u \in Nat, NEW k \in Orders
  PROVE  CanUnlink(p, u, k) <=> CanMerge(Flat(p), u, k)
<1>1. CanMerge(p, u, k) <=> CanMerge(Flat(p), u, k)
  BY FlatFields DEF CanMerge
<1>2. ASSUME CanMerge(p, u, k) PROVE UnlinkCheck(p, BuddyOf(Level(u, k), k), k)
  <2>1. PICK buddy : buddy = BuddyOf(Level(u, k), k)
    OBVIOUS
  <2>2. buddy \in Nat
    <3>1. Level(u, k) \in Nat /\ Level(u, k + 1) \in Nat
      BY LevelStep
    <3>2. OrderSize[k] \in Nat
      BY OrderSizeFacts
    <3>3. buddy = Level(u, k + 1) + OrderSize[k] \/ buddy = Level(u, k + 1)
      BY <2>1, LevelStep
    <3>4. QED BY <3>1, <3>2, <3>3
  <2>3. buddy < Total /\ p.tags[buddy] = Free(k)
    BY <1>2, <2>1 DEF CanMerge
  <2>4. buddy \in Units
    BY <2>2, <2>3, TotalAssumption DEF Units
  <2>5. UnlinkCheck(p, buddy, k)
    BY <2>3, <2>4, Checked
  <2>6. QED BY <2>1, <2>5
<1>3. QED BY <1>1, <1>2 DEF CanUnlink

(* A head is the block of its list at which next ends only when it is alone. *)
LEMMA AloneInList ==
  ASSUME NEW p, NEW F, Apart(F), Threads(p, F), NEW o \in Orders, NEW u \in F[o]
  PROVE  (p.heads[o] = u /\ p.next[u] = Null) <=> F[o] = {u}
<1>1. PICK age \in [Units -> Nat], clock \in Nat :
        Threaded(p, F, age) /\ \A v \in Units : age[v] < clock
  BY DEF Threads
<1>2. /\ u \in Units /\ u # Null /\ p.heads[o] \in F[o]
      /\ p.next[u] # Null => p.next[u] \in F[o] /\ p.next[u] # u
  <2>1. WellLinked(p, F, o, u)
    BY <1>1, ListFacts
  <2>2. QED BY <2>1 DEF WellLinked
<1>3. ASSUME p.heads[o] = u, p.next[u] = Null PROVE F[o] = {u}
  <2>1. Null \notin F[o]
    BY WordFacts DEF Apart
  <2>2. F[o] \subseteq {u}
    BY <1>3, <2>1, AllMet
  <2>3. QED BY <2>2
<1>4. ASSUME F[o] = {u} PROVE p.heads[o] = u /\ p.next[u] = Null
  BY <1>2, <1>4
<1>5. QED BY <1>3, <1>4

(* The same of the lists of a well-formed pool. *)
LEMMA WellApart ==
  ASSUME NEW c, WellFormed(c)
  PROVE  Apart(c.free)
<1>1. c \in PoolShapes /\ FreeListsMatchTags(c)
  BY DEF WellFormed
<1>2. c.free \in [Orders -> SUBSET Units]
  BY <1>1 DEF PoolShapes
<1>3. QED
  <2>1. \A j, k \in Orders : \A u \in c.free[j] : u \in c.free[k] => Free(j) = Free(k)
    <3>1. \A j \in Orders : \A u \in c.free[j] : u \in Units
      BY <1>2
    <3>2. QED BY <1>1, <3>1 DEF FreeListsMatchTags
  <2>2. QED BY <1>2, <2>1 DEF Apart, Free

(* The blocks of the lists lie outside a block in use. *)
LEMMA OutOfUse ==
  ASSUME NEW c, WellFormed(c), NEW v \in Units, NEW o \in Orders, c.tags[v] = Alloc(o)
  PROVE  /\ Apart(c.free)
         /\ \A k \in Orders : \A u \in c.free[k] : u \in Units /\ u \notin Span(v, o)
<1>1. c \in PoolShapes /\ FreeListsMatchTags(c)
  BY DEF WellFormed
<1>3. Apart(c.free)
  BY WellApart
<1>4. ASSUME NEW k \in Orders, NEW u \in c.free[k], u \in Units, u \in Span(v, o) PROVE FALSE
  <2>1. c.tags[u] = Free(k)
    BY <1>1, <1>4 DEF FreeListsMatchTags
  <2>2. <<u, k>> \in Blocks(c) /\ <<v, o>> \in Blocks(c)
    BY <1>1, <1>4, BlocksMember
  <2>3. Blocks(c) \in SUBSET (Units \X Orders) /\ Tiles(Blocks(c))
    BY <1>1, BlocksInPool DEF WellFormed
  <2>4. u \in Span(u, k)
    BY <1>4, SpanFacts
  <2>5. u = v
    BY <1>4, <2>2, <2>3, <2>4, TilesUnique
  <2>6. QED BY <2>1, <2>5 DEF Free, Alloc
<1>5. QED BY <1>3, <1>4 DEF Apart

(* What granting a block of its own, and forgetting its words, changes. *)
Granted(p, q, mask, u, o) ==
  /\ q \in LinkedShapes /\ q.heads = p.heads /\ q.free_mask = mask
  /\ q.tags = [p.tags EXCEPT ![u] = Alloc(o)]
  /\ q.allocated = p.allocated + OrderSize[o]
  /\ \A w \in Units : w \notin Span(u, o) =>
       q.next[w] = p.next[w] /\ q.prev[w] = p.prev[w]

(* Grant and Forget together do that. *)
LEMMA GrantForget ==
  ASSUME NEW p \in LinkedShapes, NEW mask \in SUBSET Orders, NEW u \in Units, NEW o \in Orders
  PROVE  Granted(p, Forget(Grant([p EXCEPT !.free_mask = mask], u, o), u, o), mask, u, o)
<1>0. SUFFICES ASSUME NEW q, q = Forget(Grant([p EXCEPT !.free_mask = mask], u, o), u, o)
               PROVE  Granted(p, q, mask, u, o)
  OBVIOUS
<1>1. /\ p = [tags |-> p.tags, heads |-> p.heads, next |-> p.next, prev |-> p.prev,
              free_mask |-> p.free_mask, allocated |-> p.allocated]
      /\ p.tags \in [Units -> Tags] /\ p.heads \in [Orders -> Words]
      /\ p.next \in [Units -> Words] /\ p.prev \in [Units -> Words]
      /\ p.free_mask \in SUBSET Orders /\ p.allocated \in Int
  BY DEF LinkedShapes
<1> DEFINE next == [w \in Units |-> IF w \in Span(u, o) THEN Junk ELSE p.next[w]]
           prev == [w \in Units |-> IF w \in Span(u, o) THEN Junk ELSE p.prev[w]]
           tags == [p.tags EXCEPT ![u] = Alloc(o)]
           count == p.allocated + OrderSize[o]
<1>2. q = [tags |-> tags, heads |-> p.heads, next |-> next, prev |-> prev,
           free_mask |-> mask, allocated |-> count]
  <2>1. PICK p1 : p1 = [p EXCEPT !.free_mask = mask]
    OBVIOUS
  <2>2. p1 = [tags |-> p.tags, heads |-> p.heads, next |-> p.next, prev |-> p.prev,
              free_mask |-> mask, allocated |-> p.allocated]
    BY <1>1, <2>1
  <2>3. p1.tags = p.tags /\ p1.allocated = p.allocated
    BY <2>2
  <2>4. PICK p2 : p2 = Grant(p1, u, o)
    OBVIOUS
  <2>5. p2 = [p1 EXCEPT !.tags = tags, !.allocated = count]
    BY <2>3, <2>4 DEF Grant
  <2> HIDE DEF tags, count
  <2>6. p2 = [tags |-> tags, heads |-> p.heads, next |-> p.next, prev |-> p.prev,
              free_mask |-> mask, allocated |-> count]
    BY <2>2, <2>5
  <2>7. q = Forget(p2, u, o) /\ p2.next = p.next /\ p2.prev = p.prev
    BY <1>0, <2>1, <2>4, <2>6
  <2>8. q = [p2 EXCEPT !.next = next, !.prev = prev]
    BY <2>7 DEF Forget
  <2> HIDE DEF next, prev
  <2>9. QED BY <2>6, <2>8
<1>3. next \in [Units -> Words] /\ prev \in [Units -> Words]
  BY <1>1, WordFacts
<1>4. tags \in [Units -> Tags] /\ count \in Int
  <2>1. Alloc(o) \in Tags
    BY DEF Alloc, Tags
  <2>2. OrderSize[o] \in Int
    BY OrderSizeFacts
  <2>3. QED BY <1>1, <2>1, <2>2
<1>5. \A w \in Units : w \notin Span(u, o) => next[w] = p.next[w] /\ prev[w] = p.prev[w]
  OBVIOUS
<1> HIDE DEF next, prev, tags, count
<1>6. /\ q \in LinkedShapes /\ q.heads = p.heads /\ q.free_mask = mask
      /\ q.tags = tags /\ q.allocated = count /\ q.next = next /\ q.prev = prev
  BY <1>1, <1>2, <1>3, <1>4 DEF LinkedShapes
<1>7. QED BY <1>5, <1>6 DEF Granted, tags, count

-----------------------------------------------------------------------------
(* The head leaves without a word written: its successor keeps a stale prev. *)
PopHead(p, o, u) == [p EXCEPT !.heads = [p.heads EXCEPT ![o] = p.next[u]]]
Less(F, o, u) == [k \in Orders |-> IF k = o THEN F[k] \ {u} ELSE F[k]]

(* The new head keeps a stale prev: the head's is never read. *)
LEMMA PopThreads ==
  ASSUME NEW p \in LinkedShapes, NEW F, Apart(F), Threads(p, F), NEW o \in Orders,
         NEW u \in F[o], p.heads[o] = u
  PROVE  /\ PopHead(p, o, u) \in LinkedShapes /\ PopHead(p, o, u).tags = p.tags
         /\ PopHead(p, o, u).allocated = p.allocated
         /\ Threads(PopHead(p, o, u), Less(F, o, u)) /\ Apart(Less(F, o, u))
<1>0. SUFFICES ASSUME NEW q, q = PopHead(p, o, u), NEW G, G = Less(F, o, u)
      PROVE  /\ q \in LinkedShapes /\ q.tags = p.tags /\ q.allocated = p.allocated
             /\ Threads(q, G) /\ Apart(G)
  OBVIOUS
<1>1. u \in Units
  BY DEF Apart
<1>2. /\ p = [tags |-> p.tags, heads |-> p.heads, next |-> p.next, prev |-> p.prev,
              free_mask |-> p.free_mask, allocated |-> p.allocated]
      /\ p.tags \in [Units -> Tags] /\ p.heads \in [Orders -> Words]
      /\ p.next \in [Units -> Words] /\ p.prev \in [Units -> Words]
      /\ p.free_mask \in SUBSET Orders /\ p.allocated \in Int
  BY DEF LinkedShapes
<1> DEFINE heads == [p.heads EXCEPT ![o] = p.next[u]]
<1>3. heads \in [Orders -> Words]
  BY <1>1, <1>2
<1>4. /\ q \in LinkedShapes /\ q.heads = heads
      /\ q.next = p.next /\ q.prev = p.prev /\ q.tags = p.tags
      /\ q.free_mask = p.free_mask /\ q.allocated = p.allocated
  <2>1. q = [p EXCEPT !.heads = heads]
    BY <1>0 DEF PopHead
  <2> HIDE DEF heads
  <2>2. q = [tags |-> p.tags, heads |-> heads, next |-> p.next, prev |-> p.prev,
             free_mask |-> p.free_mask, allocated |-> p.allocated]
    BY <1>2, <2>1
  <2>3. QED BY <1>2, <1>3, <2>2 DEF LinkedShapes
<1>5. PICK at : at = [k \in {o} |-> u]
  OBVIOUS
<1>6. at \in [{o} -> Units] /\ DOMAIN at = {o} /\ at[o] = u /\ {o} \in SUBSET Orders
  BY <1>1, <1>5
<1>7. PICK r : r = UnlinkDo(p, at)
  OBVIOUS
<1>8. UnlinksFrom(p, r, at)
  BY <1>6, <1>7, UnlinkFields
<1>9. G = Fewer(F, at)
  BY <1>0, <1>6 DEF Less, Fewer
<1>10. \A k \in {o} : at[k] \in F[k]
  BY <1>6
<1>11. Threads(r, G)
  <2>1. Threads(UnlinkDo(p, at), Fewer(F, at))
    BY <1>6, <1>10, UnlinkThreads
  <2>2. QED BY <1>7, <1>9, <2>1
<1>12. Apart(G)
  BY <1>0 DEF Apart, Less
<1>13. r.heads = heads
  <2>1. r.heads \in [Orders -> Words]
    BY <1>8 DEF UnlinksFrom, LinkedShapes
  <2>2. \A k \in Orders : r.heads[k] = IF k = o THEN p.next[u] ELSE p.heads[k]
    BY <1>6, <1>8 DEF UnlinksFrom
  <2>3. QED BY <1>2, <2>1, <2>2
<1>14. \A w \in Units : r.next[w] = p.next[w] /\ r.prev[w] = p.prev[w]
  BY <1>6, <1>8 DEF UnlinksFrom
<1>15. Threads(q, G)
  <2>1. q.heads = r.heads
    BY <1>4, <1>13
  <2>2. \A k \in Orders : \A w \in G[k] : q.next[w] = r.next[w] /\ q.prev[w] = r.prev[w]
    BY <1>4, <1>12, <1>14 DEF Apart
  <2> HIDE DEF heads
  <2>3. QED BY ONLY <1>11, <1>12, <2>1, <2>2, SameLinks
<1>16. QED BY <1>4, <1>12, <1>15

(* Allocation from the head of a list is Buddy's, for the block at the head. *)
LEMMA AllocateLinks ==
  ASSUME NEW p, LinkedWell(p), NEW o \in Orders, NEW from \in Orders, o <= from,
         p.heads[from] # Null, NEW blk, blk = p.heads[from],
         NEW q, q = Forget(Grant(SplitHead(p, from, o), blk, o), blk, o)
  PROVE  /\ blk \in Flat(p).free[from] /\ LinkedWell(q)
         /\ Flat(q) = Grant(TakeAndSplit(Flat(p), blk, from, o), blk, o)
<1>1. p \in LinkedShapes /\ WellFormed(Flat(p)) /\ Threads(p, Lists(p)) /\ Apart(Lists(p))
  BY ListsApart DEF LinkedWell
<1>2. PICK F : F = Lists(p) /\ F = Flat(p).free
  BY FlatFields
<1>3. blk \in F[from] /\ blk \in Units /\ blk # Null
  <2>1. blk \in F[from]
    BY <1>1, <1>2 DEF Threads, Threaded
  <2>2. QED BY <1>1, <1>2, <2>1, WordFacts DEF Apart
<1>4. LinkValid(p.next[blk])
  <2>1. PICK age \in [Units -> Nat], clock \in Nat :
          Threaded(p, F, age) /\ \A u \in Units : age[u] < clock
    BY <1>1, <1>2 DEF Threads
  <2>2. p.next[blk] # Null => p.next[blk] \in F[from]
    <3>1. WellLinked(p, F, from, blk)
      BY <1>1, <1>2, <1>3, <2>1, ListFacts
    <3>2. QED BY <3>1 DEF WellLinked
  <2>3. QED BY <1>1, <1>2, <2>2 DEF Apart, LinkValid, Pointers
<1> DEFINE halves == o .. from - 1
<1>5. PICK at : at = [j \in halves |-> blk + OrderSize[j]]
  OBVIOUS
<1>6. PICK p1 : p1 = PopHead(p, from, blk)
  OBVIOUS
<1>7. PICK p2 : p2 = LinkFront(p1, at)
  OBVIOUS
<1>8. PICK mask : mask = (IF p.next[blk] = Null THEN p.free_mask \ {from} ELSE p.free_mask)
                            \union o .. from - 1
  OBVIOUS
<1>9. q = Forget(Grant([p2 EXCEPT !.free_mask = mask], blk, o), blk, o)
  BY <1>4, <1>5, <1>6, <1>7, <1>8 DEF SplitHead, PopHead
<1>10. PICK F1 : F1 = Less(F, from, blk)
  OBVIOUS
<1>11. /\ p1 \in LinkedShapes /\ p1.tags = p.tags /\ p1.allocated = p.allocated
       /\ Threads(p1, F1) /\ Apart(F1)
  <2>1. p \in LinkedShapes /\ Threads(p, F) /\ Apart(F) /\ p.heads[from] = blk /\ from \in Orders
    BY <1>1, <1>2
  <2>2. /\ PopHead(p, from, blk) \in LinkedShapes /\ PopHead(p, from, blk).tags = p.tags
        /\ PopHead(p, from, blk).allocated = p.allocated
        /\ Threads(PopHead(p, from, blk), Less(F, from, blk)) /\ Apart(Less(F, from, blk))
    BY ONLY <1>3, <2>1, PopThreads
  <2>3. QED BY <1>6, <1>10, <2>2
(* What Buddy does, and that its halves are blocks of their own. *)
<1>12. PICK d : d = TakeAndSplit(Flat(p), blk, from, o)
  OBVIOUS
<1>13. PICK c : c = Grant(d, blk, o)
  OBVIOUS
<1>14. WellFormed(c) /\ c \in PoolShapes /\ FreeListsMatchTags(c)
  <2>1. WellFormed(c)
    BY <1>1, <1>2, <1>3, <1>12, <1>13, SplitGrant
  <2>2. QED BY <2>1 DEF WellFormed
<1>15. /\ halves \subseteq Orders /\ from \notin halves
  BY OrderSizeAssumption DEF Orders
<1> DEFINE dtags == [u \in Units |->
             IF \E j \in halves : u = blk + OrderSize[j]
             THEN Free(CHOOSE j \in halves : u = blk + OrderSize[j]) ELSE p.tags[u]]
           dfree == [j \in Orders |->
             IF j \in halves THEN F[j] \union {blk + OrderSize[j]}
             ELSE IF j = from THEN F[j] \ {blk} ELSE F[j]]
           dmask == (p.free_mask \ (IF F[from] = {blk} THEN {from} ELSE {})) \union halves
           none == [k \in Orders |-> {}]
           zero == [k \in Orders |-> 0]
<1>16. /\ c.tags = [dtags EXCEPT ![blk] = Alloc(o)] /\ c.free = dfree /\ c.free_mask = dmask
       /\ c.allocated = p.allocated + OrderSize[o]
       /\ c.cache = none /\ c.cache_count = zero
  <2>1. Flat(p) = [tags |-> p.tags, free |-> F, free_mask |-> p.free_mask,
                   cache |-> none, cache_count |-> zero, allocated |-> p.allocated]
    BY <1>2 DEF Flat
  <2>2. PICK f : f = Flat(p)
    OBVIOUS
  <2>3. f.tags = p.tags /\ f.free = F /\ f.free_mask = p.free_mask /\ f.allocated = p.allocated
    BY <1>2, <2>2, FlatFields
  <2>4. d = [f EXCEPT !.tags = dtags, !.free = dfree, !.free_mask = dmask]
    BY <1>12, <2>2, <2>3 DEF TakeAndSplit
  <2> HIDE DEF dtags, dfree, dmask, none, zero
  <2>5. d = [tags |-> dtags, free |-> dfree, free_mask |-> dmask,
             cache |-> none, cache_count |-> zero, allocated |-> p.allocated]
    <3>1. f = [tags |-> p.tags, free |-> F, free_mask |-> p.free_mask,
               cache |-> none, cache_count |-> zero, allocated |-> p.allocated]
      BY <2>1, <2>2
    <3>2. QED BY <2>4, <3>1
  <2>6. QED BY <1>13, <2>5 DEF Grant
(* The halves are new to their lists, and distinct. *)
<1>17. \A j \in halves : at[j] = blk + OrderSize[j] /\ at[j] \in c.free[j] /\ at[j] \in Units
                         /\ c.tags[at[j]] = Free(j) /\ at[j] # blk
  <2>1. SUFFICES ASSUME NEW j \in halves
        PROVE at[j] = blk + OrderSize[j] /\ at[j] \in c.free[j] /\ at[j] \in Units
              /\ c.tags[at[j]] = Free(j) /\ at[j] # blk
    OBVIOUS
  <2>2. j \in Orders /\ at[j] = blk + OrderSize[j]
    BY <1>5, <1>15
  <2>3. at[j] \in c.free[j]
    BY <1>16, <2>2
  <2>4. at[j] \in Units /\ c.tags[at[j]] = Free(j)
    BY <1>14, <2>2, <2>3 DEF PoolShapes, FreeListsMatchTags
  <2>5. at[j] # blk
    BY <1>3, <2>2, OrderSizeFacts, WordFacts
  <2>6. QED BY <2>2, <2>3, <2>4, <2>5
<1>18. at \in [halves -> Units] /\ Injective(at) /\ halves \in SUBSET Orders /\ DOMAIN at = halves
  <2>1. at \in [halves -> Units] /\ DOMAIN at = halves
    BY <1>5, <1>17
  <2>2. \A j, k \in halves : at[j] = at[k] => Free(j) = Free(k)
    BY <1>17
  <2>3. QED BY <1>15, <2>1, <2>2 DEF Injective, Free
<1>19. \A j \in halves : \A k \in Orders : at[j] \notin F1[k]
  <2>1. SUFFICES ASSUME NEW j \in halves, NEW k \in Orders, at[j] \in F[k] PROVE FALSE
    BY <1>10 DEF Less
  <2>2. Flat(p) \in PoolShapes /\ Tiles(Blocks(Flat(p)))
    BY <1>1 DEF WellFormed
  <2>3. PICK S : S = Blocks(Flat(p))
    OBVIOUS
  <2>4. S \in SUBSET (Units \X Orders) /\ Tiles(S)
    BY <2>2, <2>3, BlocksInPool
  <2>5. <<blk, from>> \in S /\ <<at[j], k>> \in S /\ at[j] \in Units
    BY <1>2, <1>3, <1>17, <2>1, <2>2, <2>3, BlocksMember
  <2>6. at[j] \in Span(at[j], k)
    BY <2>5, SpanFacts
  <2>7. at[j] \in Span(blk, from)
    <3>1. Aligned(blk, from) /\ blk \in Nat
      BY <1>3, <2>4, <2>5, TotalAssumption DEF Tiles, Units
    <3>2. o \in 0 .. from /\ j \in Orders
      BY <1>15 DEF Orders
    <3>3. at[j] \in Span(at[j], j) /\ at[j] \in Int
      BY <2>5, <3>2, SpanFacts
    <3>4. \A w \in Int : w \in Span(blk, from) <=>
              \/ w \in Span(blk, o)
              \/ \E i \in halves : w \in Span(blk + OrderSize[i], i)
      BY <3>1, <3>2, Halves
    <3>5. QED BY <1>17, <3>3, <3>4
  <2>8. at[j] = blk
    BY <1>3, <2>4, <2>5, <2>6, <2>7, TilesUnique
  <2>9. QED BY <1>17, <2>8
<1>20. LinksIn(p1, p2, at)
  BY <1>7, <1>11, <1>18, LinkFields
<1>22. Threads(p2, More(F1, at))
  <2> HIDE DEF halves
  <2>1. QED BY ONLY <1>7, <1>11, <1>18, <1>19, LinkThreads
<1>23. More(F1, at) = c.free
  <2>1. \A k \in Orders : F1[k] = IF k = from THEN F[k] \ {blk} ELSE F[k]
    BY <1>10 DEF Less
  <2>2. \A k \in Orders : dfree[k] = IF k \in DOMAIN at THEN F1[k] \union {at[k]} ELSE F1[k]
    BY <1>15, <1>17, <1>18, <2>1
  <2>3. QED BY <1>16, <2>2 DEF More
<1>24. mask = dmask
  <2>1. (p.next[blk] = Null) <=> F[from] = {blk}
    BY <1>1, <1>2, <1>3, AloneInList
  <2>2. QED BY <1>8, <2>1
<1>25. mask \in SUBSET Orders
  BY <1>14, <1>16, <1>24 DEF PoolShapes
<1>26. /\ q \in LinkedShapes /\ q.heads = p2.heads /\ q.free_mask = mask
       /\ q.tags = [p2.tags EXCEPT ![blk] = Alloc(o)]
       /\ q.allocated = p2.allocated + OrderSize[o]
       /\ \A w \in Units : w \notin Span(blk, o) =>
              q.next[w] = p2.next[w] /\ q.prev[w] = p2.prev[w]
  <2>1. p2 \in LinkedShapes
    BY <1>20 DEF LinksIn
  <2>2. Granted(p2, Forget(Grant([p2 EXCEPT !.free_mask = mask], blk, o), blk, o), mask, blk, o)
    BY <1>3, <1>25, <2>1, GrantForget
  <2>3. QED BY <1>9, <2>2 DEF Granted
<1>27. c.tags = q.tags
  <2>1. p2.tags \in [Units -> Tags]
    BY <1>20 DEF LinksIn, LinkedShapes
  <2>2. c.tags \in [Units -> Tags] /\ q.tags \in [Units -> Tags]
    BY <1>14, <1>26 DEF LinkedShapes, PoolShapes
  <2>3. q.tags[blk] = c.tags[blk]
    BY <1>3, <1>16, <1>26, <2>1
  <2>4. ASSUME NEW u \in Units, u # blk PROVE q.tags[u] = c.tags[u]
    <3>1. q.tags[u] = p2.tags[u]
      BY <1>26, <2>1, <2>4
    <3>2. CASE \E j \in halves : u = at[j]
      BY <1>17, <1>18, <1>20, <3>1, <3>2 DEF LinksIn
    <3>3. CASE ~ \E j \in halves : u = at[j]
      <4>1. p2.tags[u] = p.tags[u]
        BY <1>11, <1>18, <1>20, <3>3 DEF LinksIn
      <4>2. c.tags[u] = dtags[u]
        BY <1>16, <2>4
      <4>3. dtags[u] = p.tags[u]
        BY <1>17, <3>3
      <4>4. QED BY <3>1, <4>1, <4>2, <4>3
    <3>4. QED BY <3>2, <3>3
  <2>5. QED BY <2>2, <2>3, <2>4
<1>28. Threads(q, c.free)
  <2>1. c.tags[blk] = Alloc(o)
    BY <1>3, <1>14, <1>26, <1>27, <1>20 DEF LinksIn, LinkedShapes
  <2>2. Apart(c.free) /\ \A k \in Orders : \A u \in c.free[k] : u \in Units /\ u \notin Span(blk, o)
    BY <1>3, <1>14, <2>1, OutOfUse
  <2>3. \A k \in Orders : \A u \in c.free[k] : q.next[u] = p2.next[u] /\ q.prev[u] = p2.prev[u]
    BY <1>26, <2>2
  <2>4. Threads(p2, c.free)
    BY <1>22, <1>23
  <2>5. QED BY ONLY <1>26, <2>2, <2>3, <2>4, SameLinks
<1>29. c.free_mask = q.free_mask /\ c.allocated = q.allocated
  BY <1>11, <1>16, <1>20, <1>24, <1>26 DEF LinksIn
<1>30. \A k \in Orders : c.cache[k] = {} /\ c.cache_count[k] = 0
  BY <1>16
<1>31. LinkedWell(q) /\ Flat(q) = c
  BY ONLY <1>14, <1>26, <1>27, <1>28, <1>29, <1>30, Concluded
<1>32. QED BY <1>2, <1>3, <1>12, <1>13, <1>31

-----------------------------------------------------------------------------
(* What forgetting words and clearing tags changes. *)
Forgotten(p, q, u, o) ==
  /\ q \in LinkedShapes /\ q.heads = p.heads /\ q.tags = p.tags
  /\ q.free_mask = p.free_mask /\ q.allocated = p.allocated
  /\ \A w \in Units : w \notin Span(u, o) => q.next[w] = p.next[w] /\ q.prev[w] = p.prev[w]

(* Forget does that. *)
LEMMA ForgetFields ==
  ASSUME NEW p \in LinkedShapes, NEW u, NEW o
  PROVE  Forgotten(p, Forget(p, u, o), u, o)
<1> DEFINE next == [w \in Units |-> IF w \in Span(u, o) THEN Junk ELSE p.next[w]]
           prev == [w \in Units |-> IF w \in Span(u, o) THEN Junk ELSE p.prev[w]]
<1>1. /\ p = [tags |-> p.tags, heads |-> p.heads, next |-> p.next, prev |-> p.prev,
              free_mask |-> p.free_mask, allocated |-> p.allocated]
      /\ p.tags \in [Units -> Tags] /\ p.heads \in [Orders -> Words]
      /\ p.next \in [Units -> Words] /\ p.prev \in [Units -> Words]
      /\ p.free_mask \in SUBSET Orders /\ p.allocated \in Int
  BY DEF LinkedShapes
<1>2. PICK q : q = Forget(p, u, o)
  OBVIOUS
<1>3. q = [p EXCEPT !.next = next, !.prev = prev]
  BY <1>2 DEF Forget
<1>4. next \in [Units -> Words] /\ prev \in [Units -> Words]
  BY <1>1, WordFacts
<1>5. \A w \in Units : w \notin Span(u, o) => next[w] = p.next[w] /\ prev[w] = p.prev[w]
  OBVIOUS
<1> HIDE DEF next, prev
<1>6. q = [tags |-> p.tags, heads |-> p.heads, next |-> next, prev |-> prev,
           free_mask |-> p.free_mask, allocated |-> p.allocated]
  BY <1>1, <1>3
<1>7. /\ q \in LinkedShapes /\ q.heads = p.heads /\ q.tags = p.tags /\ q.next = next
      /\ q.prev = prev /\ q.free_mask = p.free_mask /\ q.allocated = p.allocated
  BY <1>1, <1>4, <1>6 DEF LinkedShapes
<1>8. Forgotten(p, q, u, o)
  BY <1>5, <1>7 DEF Forgotten
<1>9. QED BY <1>2, <1>8

(* A pool with other tags, mask and count but the same links. *)
Retagged(p, q, tags, mask, count) ==
  /\ q \in LinkedShapes /\ q.heads = p.heads /\ q.next = p.next /\ q.prev = p.prev
  /\ q.tags = tags /\ q.free_mask = mask /\ q.allocated = count

(* The tags without those of the blocks S. *)
Cleared(p, S) == [u \in Units |-> IF u \in S THEN NoTag ELSE p.tags[u]]

(* Untag retags so. *)
LEMMA UntagFields ==
  ASSUME NEW p \in LinkedShapes, NEW S
  PROVE  /\ Retagged(p, Untag(p, S), Cleared(p, S), p.free_mask, p.allocated)
         /\ \A u \in Units : Untag(p, S).tags[u] = IF u \in S THEN NoTag ELSE p.tags[u]
<1>1. NoTag \in Tags
  BY OrderSizeFacts DEF NoTag, Tags
<1>2. Cleared(p, S) \in [Units -> Tags]
  BY <1>1 DEF Cleared, LinkedShapes
<1>3. /\ p = [tags |-> p.tags, heads |-> p.heads, next |-> p.next, prev |-> p.prev,
              free_mask |-> p.free_mask, allocated |-> p.allocated]
      /\ p.heads \in [Orders -> Words] /\ p.free_mask \in SUBSET Orders /\ p.allocated \in Int
      /\ p.next \in [Units -> Words] /\ p.prev \in [Units -> Words]
  BY DEF LinkedShapes
<1>4. PICK q : q = Untag(p, S)
  OBVIOUS
<1>5. q = [p EXCEPT !.tags = Cleared(p, S)]
  BY <1>4 DEF Untag, Cleared
<1>6. q = [tags |-> Cleared(p, S), heads |-> p.heads, next |-> p.next, prev |-> p.prev,
           free_mask |-> p.free_mask, allocated |-> p.allocated]
  BY <1>3, <1>5
<1>7. Retagged(p, q, Cleared(p, S), p.free_mask, p.allocated)
  BY <1>2, <1>3, <1>6 DEF Retagged, LinkedShapes
<1>8. \A u \in Units : q.tags[u] = IF u \in S THEN NoTag ELSE p.tags[u]
  BY <1>6 DEF Cleared
<1>9. QED BY <1>4, <1>7, <1>8

(* Counting a block as given back touches no list. *)
LEMMA DischargeLinks ==
  ASSUME NEW p, LinkedWell(p), NEW o \in Orders
  PROVE  LinkedWell(Discharge(p, o)) /\ Flat(Discharge(p, o)) = Discharge(Flat(p), o)
<1>1. PICK count \in Int : count = p.allocated - OrderSize[o]
  <2>1. p.allocated \in Int /\ OrderSize[o] \in Int
    BY OrderSizeFacts DEF LinkedWell, LinkedShapes
  <2>2. QED BY <2>1
<1>2. PICK q : q = Discharge(p, o)
  OBVIOUS
<1>3. /\ p \in LinkedShapes /\ p.tags \in [Units -> Tags] /\ p.free_mask \in SUBSET Orders
      /\ p = [tags |-> p.tags, heads |-> p.heads, next |-> p.next, prev |-> p.prev,
              free_mask |-> p.free_mask, allocated |-> p.allocated]
      /\ p.heads \in [Orders -> Words]
      /\ p.next \in [Units -> Words] /\ p.prev \in [Units -> Words]
      /\ WellFormed(Flat(p)) /\ Threads(p, Lists(p)) /\ Apart(Lists(p))
  BY ListsApart DEF LinkedWell, LinkedShapes
<1>4. q = [p EXCEPT !.allocated = count]
  BY <1>1, <1>2 DEF Discharge
<1>5. q = [tags |-> p.tags, heads |-> p.heads, next |-> p.next, prev |-> p.prev,
           free_mask |-> p.free_mask, allocated |-> count]
  BY <1>3, <1>4
<1>6. /\ q \in LinkedShapes /\ q.tags = p.tags /\ q.free_mask = p.free_mask
      /\ q.heads = p.heads /\ q.next = p.next /\ q.prev = p.prev /\ q.allocated = count
  BY <1>3, <1>5 DEF LinkedShapes
<1>7. PICK c : c = Discharge(Flat(p), o)
  OBVIOUS
<1>8. PICK f : f = Flat(p)
  OBVIOUS
<1>9. c = [f EXCEPT !.allocated = count]
  BY <1>1, <1>7, <1>8, FlatFields DEF Discharge
<1>10. /\ f \in PoolShapes /\ f.tags = p.tags /\ f.free = Lists(p) /\ f.free_mask = p.free_mask
       /\ \A k \in Orders : f.cache[k] = {} /\ f.cache_count[k] = 0
  BY <1>3, <1>8, FlatFields DEF WellFormed
<1>11. /\ c \in PoolShapes /\ c.tags = f.tags /\ c.free = f.free /\ c.free_mask = f.free_mask
       /\ c.cache = f.cache /\ c.cache_count = f.cache_count /\ c.allocated = count
  BY <1>9, <1>10 DEF PoolShapes
<1>12. WellFormed(c)
  BY <1>3, <1>8, <1>11, SameShape
<1>13. Threads(q, c.free)
  <2>1. Threads(q, Lists(p))
    BY <1>3, <1>6, SameLinks
  <2>2. QED BY <1>10, <1>11, <2>1
<1>14. LinkedWell(q) /\ Flat(q) = c
  <2>1. \A k \in Orders : c.cache[k] = {} /\ c.cache_count[k] = 0
    BY <1>10, <1>11
  <2>2. c.tags = q.tags /\ c.free_mask = q.free_mask /\ c.allocated = q.allocated
    BY <1>6, <1>10, <1>11
  <2>3. QED BY ONLY <1>6, <1>12, <1>13, <2>1, <2>2, Concluded
<1>15. QED BY <1>2, <1>7, <1>14

(* Merging stops at the same order as Buddy's. *)
LEMMA UnlinkOrderSame ==
  ASSUME NEW p, LinkedWell(p), NEW u \in Nat, NEW o \in Orders
  PROVE  UnlinkOrder(p, u, o) = MergeOrder(Flat(p), u, o)
<1>1. \A k \in Orders : CanUnlink(p, u, k) <=> CanMerge(Flat(p), u, k)
  BY CanUnlinkSame
<1>2. \A m \in o .. Top : m \in Orders /\ \A k \in o .. m - 1 : k \in Orders
  BY OrderSizeAssumption DEF Orders, Top
<1> DEFINE P(m) == ~ CanUnlink(p, u, m) /\ \A k \in o .. m - 1 : CanUnlink(p, u, k)
           Q(m) == ~ CanMerge(Flat(p), u, m) /\ \A k \in o .. m - 1 : CanMerge(Flat(p), u, k)
<1>3. \A m \in o .. Top : P(m) <=> Q(m)
  BY <1>1, <1>2
<1>4. UnlinkOrder(p, u, o) = CHOOSE m \in o .. Top : P(m)
  BY DEF UnlinkOrder
<1>5. MergeOrder(Flat(p), u, o) = CHOOSE m \in o .. Top : Q(m)
  BY DEF MergeOrder
<1> HIDE DEF P, Q
<1>6. (CHOOSE m \in o .. Top : P(m)) = (CHOOSE m \in o .. Top : Q(m))
  BY <1>3
<1>7. QED BY <1>4, <1>5, <1>6

(* Merging unlinks the blocks Buddy takes from its lists, and pushes its block. *)
LEMMA MergeLinks ==
  ASSUME NEW p, LinkedWell(p), NEW u \in Units, NEW o \in Orders,
         p.tags[u] \in {Alloc(o), Sheet(o)},
         NEW q, q = MergeThenPush(p, u, o)
  PROVE  LinkedWell(q) /\ Flat(q) = MergeAndFree(Flat(p), u, o)
<1>1. p \in LinkedShapes /\ WellFormed(Flat(p)) /\ Threads(p, Lists(p)) /\ Apart(Lists(p))
  BY ListsApart DEF LinkedWell
<1>2. PICK F : F = Lists(p) /\ F = Flat(p).free
  BY FlatFields
<1>3. PICK f : f = Flat(p)
  OBVIOUS
<1>4. /\ f \in PoolShapes /\ WellFormed(f) /\ f.tags = p.tags /\ f.free = F
      /\ f.free_mask = p.free_mask /\ f.allocated = p.allocated
      /\ \A k \in Orders : f.cache[k] = {} /\ f.cache_count[k] = 0
      /\ \A k \in Orders, w \in Units : w \in F[k] <=> p.tags[w] = Free(k)
  BY <1>1, <1>2, <1>3, FlatFields DEF WellFormed
<1>5. u \in Nat
  BY TotalAssumption DEF Units
<1>6. PICK m : m = MergeOrder(f, u, o)
  OBVIOUS
<1>7. /\ m \in o .. Top /\ m \in Orders /\ m = UnlinkOrder(p, u, o)
      /\ \A k \in o .. m - 1 : CanMerge(f, u, k) /\ k \in Orders
  <2>1. /\ m \in o .. Top /\ m = UnlinkOrder(p, u, o)
        /\ \A k \in o .. m - 1 : CanMerge(f, u, k)
    BY <1>3, <1>5, <1>6, MergeOrderFacts, UnlinkOrderSame
  <2>2. \A n \in o .. Top : n \in Orders /\ \A k \in o .. n - 1 : k \in Orders
    BY OrderSizeAssumption DEF Orders, Top
  <2>3. QED BY <2>1, <2>2
<1> DEFINE passed == o .. m - 1
           buddy(k) == BuddyOf(Level(u, k), k)
           right(k) == Level(u, k + 1) + OrderSize[k]
<1>8. PICK final : final = Level(u, m)
  OBVIOUS
<1>9. PICK bud : bud = [k \in passed |-> buddy(k)]
  OBVIOUS
<1>10. PICK rights : rights = {right(k) : k \in passed}
  OBVIOUS
<1>11. PICK at : at = [k \in {m} |-> final]
  OBVIOUS
<1>12. PICK p1 : p1 = UnlinkDo(p, bud)
  OBVIOUS
<1>13. PICK p2 : p2 = Untag(p1, rights)
  OBVIOUS
<1>14. PICK p3 : p3 = Forget(p2, final, m)
  OBVIOUS
<1>15. q = PushFree(p3, at)
  BY <1>7, <1>8, <1>9, <1>10, <1>11, <1>12, <1>13, <1>14 DEF MergeThenPush
(* What Buddy does. *)
<1>16. PICK c : c = MergeAndFree(f, u, o)
  OBVIOUS
<1>17. <<u, o>> \in Blocks(f) /\ \A k \in Orders : u \notin f.free[k] /\ u \notin f.cache[k]
  BY <1>4, InUseAlone
<1>18. WellFormed(c) /\ c \in PoolShapes /\ FreeListsMatchTags(c)
  <2>1. /\ FreeListsMatchTags(f) /\ CachedUntagged(f) /\ MaskMatchesLists(f)
        /\ Tiles(Blocks(f) \union {<<u, o>>})
    <3>1. Blocks(f) \union {<<u, o>>} = Blocks(f)
      BY <1>17
    <3>2. QED BY <1>4, <3>1 DEF WellFormed
  <2>2. f.tags[u] \in {Alloc(o), Sheet(o), NoTag}
    BY <1>4
  <2>3. WellFormed(c)
    BY <1>4, <1>16, <1>17, <2>1, <2>2, MergeFree
  <2>4. QED BY <2>3 DEF WellFormed
<1> DEFINE ctags == [w \in Units |-> IF w = final THEN Free(m)
                       ELSE IF \E k \in passed : w = right(k) THEN NoTag ELSE f.tags[w]]
           cfree == [k \in Orders |->
                       IF k \in passed THEN f.free[k] \ {buddy(k)}
                       ELSE IF k = m THEN f.free[k] \union {final} ELSE f.free[k]]
           cmask == (f.free_mask \ {k \in passed : f.free[k] = {buddy(k)}}) \union {m}
<1>19. /\ c.tags = ctags /\ c.free = cfree /\ c.free_mask = cmask
       /\ c.cache = f.cache /\ c.cache_count = f.cache_count /\ c.allocated = f.allocated
  <2>1. c = [f EXCEPT !.tags = ctags, !.free = cfree, !.free_mask = cmask]
    BY <1>6, <1>8, <1>16 DEF MergeAndFree
  <2> HIDE DEF ctags, cfree, cmask
  <2>2. QED BY <1>4, <2>1 DEF PoolShapes
(* The buddies are in their lists. *)
<1>20. \A k \in passed : bud[k] = buddy(k) /\ bud[k] \in Units /\ bud[k] \in F[k]
  <2>1. SUFFICES ASSUME NEW k \in passed
                 PROVE bud[k] = buddy(k) /\ bud[k] \in Units /\ bud[k] \in F[k]
    OBVIOUS
  <2>2. k \in Orders /\ CanMerge(f, u, k)
    BY <1>7
  <2>3. bud[k] = buddy(k) /\ bud[k] < Total /\ f.tags[bud[k]] = Free(k)
    BY <1>9, <2>2 DEF CanMerge
  <2>4. bud[k] \in Nat
    <3>1. Level(u, k) \in Nat /\ Level(u, k + 1) \in Nat /\ OrderSize[k] \in Nat
      BY <1>5, <2>2, LevelStep, OrderSizeFacts
    <3>2. bud[k] = Level(u, k + 1) + OrderSize[k] \/ bud[k] = Level(u, k + 1)
      BY <1>5, <2>2, <2>3, LevelStep
    <3>3. QED BY <3>1, <3>2
  <2>5. bud[k] \in Units
    BY <2>3, <2>4, TotalAssumption DEF Units
  <2>6. QED BY <1>4, <2>2, <2>3, <2>5
<1>21. passed \in SUBSET Orders /\ bud \in [passed -> Units] /\ DOMAIN bud = passed /\ m \notin passed
  <2>1. m \in Int
    BY <1>7
  <2>2. QED BY <1>7, <1>9, <1>20, <2>1
<1>22. UnlinksFrom(p, p1, bud)
  BY <1>1, <1>12, <1>21, UnlinkFields
<1>23. PICK F1 : F1 = Fewer(F, bud)
  OBVIOUS
<1>24. Threads(p1, F1) /\ Apart(F1)
  <2>1. Threads(p, F) /\ Apart(F) /\ \A k \in passed : bud[k] \in F[k]
    BY <1>1, <1>2, <1>20
  <2>2. Threads(UnlinkDo(p, bud), Fewer(F, bud))
    <3> HIDE DEF passed
    <3>1. QED BY ONLY <1>1, <1>21, <2>1, UnlinkThreads
  <2>3. Apart(F1)
    BY <1>23, <2>1 DEF Apart, Fewer
  <2>4. QED BY <1>12, <1>23, <2>2, <2>3
(* No block left in a list lies in the merged one. *)
<1>25. ASSUME NEW k \in Orders, NEW w \in F1[k], w \in Span(final, m) PROVE FALSE
  <2>1. w \in F[k] /\ w \in Units /\ w \in Int /\ (k \in passed => w # bud[k])
    <3>1. w \in F[k] /\ (k \in passed => w # bud[k])
      BY <1>21, <1>23, <1>25 DEF Fewer
    <3>2. F[k] \subseteq Units
      BY <1>1, <1>2 DEF Apart
    <3>3. QED BY <3>1, <3>2, WordFacts
  <2>2. PICK S : S = Blocks(f)
    OBVIOUS
  <2>3. S \in SUBSET (Units \X Orders) /\ Tiles(S)
    BY <1>4, <2>2, BlocksInPool DEF WellFormed
  <2>4. <<w, k>> \in S /\ <<u, o>> \in S /\ w \in Span(w, k)
    BY <1>4, <1>17, <2>1, <2>2, BlocksMember, SpanFacts
  <2>5. \/ w \in Span(u, o)
        \/ \E j \in passed : w \in Span(buddy(j), j)
    <3>1. Aligned(u, o)
      BY <2>3, <2>4 DEF Tiles
    <3>2. m \in o .. MaxOrder
      BY <1>7, OrderSizeAssumption DEF Top
    <3>3. QED BY <1>5, <1>8, <1>25, <2>1, <3>1, <3>2, MergeCovers
  <2>6. CASE w \in Span(u, o)
    <3>1. w = u
      BY ONLY <2>1, <2>3, <2>4, <2>6, k \in Orders, o \in Orders, u \in Units, TilesUnique
    <3>2. QED BY <1>4, <1>17, <2>1, <3>1
  <2>7. CASE \E j \in passed : w \in Span(buddy(j), j)
    <3>1. PICK j \in passed : w \in Span(buddy(j), j)
      BY <2>7
    <3>2. PICK v \in Units : v = bud[j] /\ v = buddy(j)
      BY <1>20
    <3>3. j \in Orders /\ <<v, j>> \in S /\ w \in Span(v, j)
      BY <1>4, <1>7, <1>20, <2>2, <3>1, <3>2, BlocksMember
    <3>4. w = v /\ k = j
      BY ONLY <2>1, <2>3, <2>4, <3>3, v \in Units, k \in Orders, TilesUnique
    <3>5. QED BY <2>1, <3>2, <3>4
  <2>8. QED BY <2>5, <2>6, <2>7
<1>26. /\ final \in Units /\ final \in Span(final, m) /\ final \in c.free[m]
  <2>1. final \in c.free[m]
    BY <1>7, <1>19, <1>21
  <2>2. final \in Units
    BY <1>7, <1>18, <2>1 DEF PoolShapes
  <2>3. QED BY <1>7, <2>1, <2>2, SpanFacts
(* The links of the blocks left, and then of the merged one. *)
<1>27. /\ p2 \in LinkedShapes /\ p2.heads = p1.heads /\ p2.next = p1.next /\ p2.prev = p1.prev
       /\ p2.free_mask = p1.free_mask /\ p2.allocated = p1.allocated
       /\ \A w \in Units : p2.tags[w] = IF w \in rights THEN NoTag ELSE p1.tags[w]
  <2>1. p1 \in LinkedShapes
    BY <1>22 DEF UnlinksFrom
  <2>2. QED BY <1>13, <2>1, UntagFields DEF Retagged
<1>28. /\ p3 \in LinkedShapes /\ p3.heads = p1.heads
       /\ p3.free_mask = p1.free_mask /\ p3.allocated = p1.allocated
       /\ \A w \in Units : p3.tags[w] = IF w \in rights THEN NoTag ELSE p1.tags[w]
       /\ \A w \in Units : w \notin Span(final, m) =>
              p3.next[w] = p1.next[w] /\ p3.prev[w] = p1.prev[w]
  <2>1. Forgotten(p2, p3, final, m)
    BY <1>14, <1>27, ForgetFields
  <2>2. QED BY <1>27, <2>1 DEF Forgotten
<1>29. Threads(p3, F1)
  <2>1. \A k \in Orders : \A w \in F1[k] : p3.next[w] = p1.next[w] /\ p3.prev[w] = p1.prev[w]
    BY <1>24, <1>25, <1>28 DEF Apart
  <2>2. QED BY ONLY <1>24, <1>28, <2>1, SameLinks
<1>30. /\ at \in [{m} -> Units] /\ DOMAIN at = {m} /\ at[m] = final /\ Injective(at)
       /\ {m} \in SUBSET Orders
       /\ \A j \in {m} : \A k \in Orders : at[j] \notin F1[k]
  <2>1. at \in [{m} -> Units] /\ DOMAIN at = {m} /\ at[m] = final
    BY <1>11, <1>26
  <2>2. \A k \in Orders : final \notin F1[k]
    BY <1>25, <1>26
  <2>3. QED BY <1>7, <2>1, <2>2 DEF Injective
<1>31. PICK p4 : p4 = LinkFront(p3, at)
  OBVIOUS
<1>32. LinksIn(p3, p4, at) /\ Threads(p4, More(F1, at))
  <2>1. LinksIn(p3, LinkFront(p3, at), at)
    BY ONLY <1>28, <1>30, LinkFields
  <2>2. Threads(LinkFront(p3, at), More(F1, at))
    BY ONLY <1>24, <1>28, <1>29, <1>30, LinkThreads
  <2>3. QED BY <1>31, <2>1, <2>2
<1>33. More(F1, at) = c.free
  <2>1. \A k \in Orders : F1[k] = IF k \in passed THEN F[k] \ {bud[k]} ELSE F[k]
    BY <1>21, <1>23 DEF Fewer
  <2>2. \A k \in Orders : cfree[k] = IF k \in DOMAIN at THEN F1[k] \union {at[k]} ELSE F1[k]
    <3>1. \A k \in Orders : cfree[k] =
              IF k \in passed THEN F[k] \ {bud[k]}
              ELSE IF k = m THEN F[k] \union {final} ELSE F[k]
      BY <1>4, <1>20
    <3> HIDE DEF cfree, passed
    <3>2. QED BY <1>21, <1>30, <2>1, <3>1
  <2>3. QED BY <1>19, <2>2 DEF More
<1>34. PICK mask : mask = p4.free_mask \union {m}
  OBVIOUS
<1>35. mask = cmask
  <2>1. p4.free_mask = p1.free_mask
    BY <1>28, <1>32 DEF LinksIn
  <2>2. p1.free_mask = p.free_mask \ {k \in passed : p.heads[k] = bud[k] /\ p.next[bud[k]] = Null}
    BY <1>21, <1>22 DEF UnlinksFrom
  <2>3. \A k \in passed : (p.heads[k] = bud[k] /\ p.next[bud[k]] = Null) <=> F[k] = {buddy(k)}
    BY <1>1, <1>2, <1>7, <1>20, AloneInList
  <2>4. QED BY <1>4, <1>34, <2>1, <2>2, <2>3
<1>36. q.tags = p4.tags /\ q.heads = p4.heads /\ q.next = p4.next /\ q.prev = p4.prev
       /\ q.free_mask = mask /\ q.allocated = p4.allocated /\ q \in LinkedShapes
  <2>1. q = [p4 EXCEPT !.free_mask = mask]
    BY <1>15, <1>30, <1>31, <1>34 DEF PushFree
  <2>2. p4 \in LinkedShapes
    BY <1>32 DEF LinksIn
  <2>3. /\ p4 = [tags |-> p4.tags, heads |-> p4.heads, next |-> p4.next, prev |-> p4.prev,
               free_mask |-> p4.free_mask, allocated |-> p4.allocated]
        /\ mask \in SUBSET Orders
    BY <1>7, <1>34, <2>2 DEF LinkedShapes
  <2>4. q = [tags |-> p4.tags, heads |-> p4.heads, next |-> p4.next, prev |-> p4.prev,
             free_mask |-> mask, allocated |-> p4.allocated]
    BY <2>1, <2>3
  <2>5. QED BY <2>2, <2>3, <2>4 DEF LinkedShapes
<1>37. c.tags = q.tags
  <2>1. c.tags \in [Units -> Tags] /\ q.tags \in [Units -> Tags]
    BY <1>18, <1>36 DEF LinkedShapes, PoolShapes
  <2>2. \A w \in Units : w \in rights <=> \E k \in passed : w = right(k)
    BY <1>10
  <2>3. \A w \in Units : ctags[w] = IF w = final THEN Free(m)
                                   ELSE IF w \in rights THEN NoTag ELSE p.tags[w]
    <3> HIDE DEF right, passed
    <3>1. QED BY <1>4, <2>2
  <2>4. p4.tags[final] = Free(m)
    BY <1>30, <1>32 DEF LinksIn
  <2>5. \A w \in Units \ {final} : p4.tags[w] = IF w \in rights THEN NoTag ELSE p.tags[w]
    <3>1. \A w \in Units \ {final} : p4.tags[w] = p3.tags[w]
      BY <1>30, <1>32 DEF LinksIn
    <3>2. p1.tags = p.tags
      BY <1>22 DEF UnlinksFrom
    <3>3. QED BY <1>28, <3>1, <3>2
  <2> HIDE DEF ctags
  <2>6. \A w \in Units : c.tags[w] = q.tags[w]
    BY <1>19, <1>26, <1>36, <2>3, <2>4, <2>5
  <2>7. QED BY <2>1, <2>6
<1>38. c.free_mask = q.free_mask /\ c.allocated = q.allocated
       /\ \A k \in Orders : c.cache[k] = {} /\ c.cache_count[k] = 0
  <2>1. q.allocated = p.allocated
    BY <1>22, <1>28, <1>32, <1>36 DEF LinksIn, UnlinksFrom
  <2> HIDE DEF cmask
  <2>2. QED BY <1>4, <1>19, <1>35, <1>36, <2>1
<1>39. Threads(q, c.free)
  <2>1. Threads(p4, c.free) /\ Apart(c.free)
    <3>1. Apart(c.free)
      BY <1>18, WellApart
    <3>2. QED BY <1>32, <1>33, <3>1
  <2>2. QED BY ONLY <1>36, <2>1, SameLinks
<1>40. LinkedWell(q) /\ Flat(q) = c
  BY ONLY <1>18, <1>36, <1>37, <1>38, <1>39, Concluded
<1>41. QED BY <1>3, <1>16, <1>40

(* Growing unlinks the blocks Buddy takes from its lists. *)
LEMMA GrowLinks ==
  ASSUME NEW p, LinkedWell(p), NEW u \in Units, NEW o \in Orders,
         p.tags[u] \in {Alloc(o), Sheet(o)},
         NEW want \in Orders, o < want, CanGrow(p, u, o, want),
         NEW q, q = Forget(Absorb(p, u, o, want), u, want)
  PROVE  LinkedWell(q) /\ Flat(q) = GrowTo(Flat(p), u, o, want)
<1>1. p \in LinkedShapes /\ WellFormed(Flat(p)) /\ Threads(p, Lists(p)) /\ Apart(Lists(p))
  BY ListsApart DEF LinkedWell
<1>2. PICK F : F = Lists(p) /\ F = Flat(p).free
  BY FlatFields
<1>3. PICK f : f = Flat(p)
  OBVIOUS
<1>4. /\ f \in PoolShapes /\ WellFormed(f) /\ f.tags = p.tags /\ f.free = F
      /\ f.free_mask = p.free_mask /\ f.allocated = p.allocated
      /\ \A k \in Orders : f.cache[k] = {} /\ f.cache_count[k] = 0
      /\ \A k \in Orders, w \in Units : w \in F[k] <=> p.tags[w] = Free(k)
  BY <1>1, <1>2, <1>3, FlatFields DEF WellFormed
<1>5. CanGrow(f, u, o, want)
  BY <1>4 DEF CanGrow
<1> DEFINE absorbed == o .. want - 1
<1>6. absorbed \in SUBSET Orders /\ want \notin absorbed
  BY OrderSizeAssumption DEF Orders
<1>7. PICK bud : bud = [j \in absorbed |-> u + OrderSize[j]]
  OBVIOUS
<1>8. PICK rights : rights = {u + OrderSize[j] : j \in absorbed}
  OBVIOUS
<1>9. \A j \in absorbed : /\ bud[j] = u + OrderSize[j] /\ bud[j] \in Units /\ bud[j] \in F[j]
                          /\ bud[j] # u
  <2>1. SUFFICES ASSUME NEW j \in absorbed
                 PROVE  /\ bud[j] = u + OrderSize[j] /\ bud[j] \in Units /\ bud[j] \in F[j]
                        /\ bud[j] # u
    OBVIOUS
  <2>2. bud[j] = u + OrderSize[j] /\ bud[j] < Total /\ p.tags[bud[j]] = Free(j)
    BY <1>7 DEF CanGrow
  <2>3. OrderSize[j] \in Nat \ {0} /\ u \in Nat /\ j \in Orders
    BY <1>6, OrderSizeFacts, TotalAssumption DEF Units
  <2>4. bud[j] \in Units /\ bud[j] # u
    BY <2>2, <2>3, TotalAssumption DEF Units
  <2>5. QED BY <1>4, <2>2, <2>3, <2>4
<1>10. bud \in [absorbed -> Units] /\ DOMAIN bud = absorbed
  BY <1>7, <1>9
<1>11. PICK p1 : p1 = UnlinkDo(p, bud)
  OBVIOUS
<1>12. PICK p2 : p2 = Untag(p1, rights)
  OBVIOUS
<1>13. PICK tags : tags = [p2.tags EXCEPT ![u] = Alloc(want)]
  OBVIOUS
<1>14. PICK count : count = p2.allocated + (OrderSize[want] - OrderSize[o])
  OBVIOUS
<1>15. PICK p3 : p3 = [p2 EXCEPT !.tags = tags, !.allocated = count]
  OBVIOUS
<1>16. q = Forget(p3, u, want)
  BY <1>7, <1>8, <1>11, <1>12, <1>13, <1>14, <1>15 DEF Absorb
(* What Buddy does. *)
<1>17. PICK c : c = GrowTo(f, u, o, want)
  OBVIOUS
<1>18. WellFormed(c) /\ c \in PoolShapes
  <2>1. f.tags[u] \in {Alloc(o), Sheet(o)}
    BY <1>4
  <2>2. WellFormed(c)
    BY <1>4, <1>5, <1>17, <2>1, GrowWell
  <2>3. QED BY <2>2 DEF WellFormed
<1> DEFINE ctags == [w \in Units |-> IF w = u THEN Alloc(want)
                       ELSE IF \E j \in absorbed : w = u + OrderSize[j] THEN NoTag ELSE f.tags[w]]
           cfree == [j \in Orders |->
                       IF j \in absorbed THEN f.free[j] \ {u + OrderSize[j]} ELSE f.free[j]]
           cmask == f.free_mask \ {j \in absorbed : f.free[j] = {u + OrderSize[j]}}
           ccount == f.allocated + (OrderSize[want] - OrderSize[o])
<1>19. /\ c.tags = ctags /\ c.free = cfree /\ c.free_mask = cmask
       /\ c.cache = f.cache /\ c.cache_count = f.cache_count /\ c.allocated = ccount
  <2>1. c = [f EXCEPT !.tags = ctags, !.free = cfree, !.free_mask = cmask, !.allocated = ccount]
    BY <1>17 DEF GrowTo
  <2> HIDE DEF ctags, cfree, cmask, ccount
  <2>2. QED BY <1>4, <2>1 DEF PoolShapes
<1>20. UnlinksFrom(p, p1, bud)
  BY <1>1, <1>6, <1>10, <1>11, UnlinkFields
<1>21. PICK F1 : F1 = Fewer(F, bud)
  OBVIOUS
<1>22. Threads(p1, F1)
  <2>1. Threads(p, F) /\ Apart(F) /\ \A k \in absorbed : bud[k] \in F[k]
    BY <1>1, <1>2, <1>9
  <2>2. Threads(UnlinkDo(p, bud), Fewer(F, bud))
    <3> HIDE DEF absorbed
    <3>1. QED BY ONLY <1>1, <1>6, <1>10, <2>1, UnlinkThreads
  <2>3. QED BY <1>11, <1>21, <2>2
<1>23. F1 = c.free
  <2>1. \A k \in Orders : cfree[k] = IF k \in absorbed THEN F[k] \ {bud[k]} ELSE F[k]
    BY <1>4, <1>9
  <2>2. c.free \in [Orders -> SUBSET Units]
    BY <1>18 DEF PoolShapes
  <2>3. \A k \in Orders : c.free[k] = IF k \in DOMAIN bud THEN F[k] \ {bud[k]} ELSE F[k]
    <3> HIDE DEF cfree, absorbed
    <3>1. QED BY <1>10, <1>19, <2>1
  <2>4. QED BY <1>21, <2>2, <2>3 DEF Fewer
<1>24. /\ p2 \in LinkedShapes /\ p2.heads = p1.heads /\ p2.next = p1.next /\ p2.prev = p1.prev
       /\ p2.free_mask = p1.free_mask /\ p2.allocated = p1.allocated
       /\ \A w \in Units : p2.tags[w] = IF w \in rights THEN NoTag ELSE p1.tags[w]
  <2>1. p1 \in LinkedShapes
    BY <1>20 DEF UnlinksFrom
  <2>2. QED BY <1>12, <2>1, UntagFields DEF Retagged
<1>25. /\ p3 \in LinkedShapes /\ p3.heads = p1.heads /\ p3.next = p1.next /\ p3.prev = p1.prev
       /\ p3.free_mask = p1.free_mask /\ p3.allocated = count /\ p3.tags = tags
  <2>1. /\ p2 = [tags |-> p2.tags, heads |-> p2.heads, next |-> p2.next, prev |-> p2.prev,
                 free_mask |-> p2.free_mask, allocated |-> p2.allocated]
        /\ p2.tags \in [Units -> Tags] /\ p2.allocated \in Int
    BY <1>24 DEF LinkedShapes
  <2>2. p3 = [tags |-> tags, heads |-> p2.heads, next |-> p2.next, prev |-> p2.prev,
              free_mask |-> p2.free_mask, allocated |-> count]
    BY <1>15, <2>1
  <2>3. tags \in [Units -> Tags]
    <3>1. Alloc(want) \in Tags
      BY DEF Alloc, Tags
    <3>2. QED BY <1>13, <2>1, <3>1
  <2>4. count \in Int
    <3>1. OrderSize[want] \in Nat /\ OrderSize[o] \in Nat
      BY OrderSizeFacts
    <3>2. QED BY <1>14, <2>1, <3>1
  <2>5. QED BY <1>24, <2>2, <2>3, <2>4 DEF LinkedShapes
<1>26. /\ q \in LinkedShapes /\ q.heads = p1.heads /\ q.tags = tags
       /\ q.free_mask = p1.free_mask /\ q.allocated = count
       /\ \A w \in Units : w \notin Span(u, want) =>
              q.next[w] = p1.next[w] /\ q.prev[w] = p1.prev[w]
  <2>1. Forgotten(p3, q, u, want)
    BY <1>16, <1>25, ForgetFields
  <2>2. QED BY <1>25, <2>1 DEF Forgotten
<1>27. c.tags = q.tags
  <2>1. c.tags \in [Units -> Tags] /\ q.tags \in [Units -> Tags]
    BY <1>18, <1>26 DEF LinkedShapes, PoolShapes
  <2>2. \A w \in Units : w \in rights <=> \E j \in absorbed : w = u + OrderSize[j]
    BY <1>8
  <2>3. \A w \in Units : ctags[w] = IF w = u THEN Alloc(want)
                                   ELSE IF w \in rights THEN NoTag ELSE p.tags[w]
    <3> HIDE DEF absorbed
    <3>1. QED BY <1>4, <2>2
  <2>4. p2.tags \in [Units -> Tags] /\ p1.tags = p.tags
    BY <1>20, <1>24 DEF UnlinksFrom, LinkedShapes
  <2>5. \A w \in Units : tags[w] = IF w = u THEN Alloc(want)
                                   ELSE IF w \in rights THEN NoTag ELSE p.tags[w]
    BY <1>13, <1>24, <2>4
  <2> HIDE DEF ctags
  <2>6. \A w \in Units : c.tags[w] = q.tags[w]
    BY <1>19, <1>26, <2>3, <2>5
  <2>7. QED BY <2>1, <2>6
<1>28. c.free_mask = q.free_mask /\ c.allocated = q.allocated
       /\ \A k \in Orders : c.cache[k] = {} /\ c.cache_count[k] = 0
  <2>1. p1.free_mask = p.free_mask \
            {k \in absorbed : p.heads[k] = bud[k] /\ p.next[bud[k]] = Null}
    BY <1>10, <1>20 DEF UnlinksFrom
  <2>2. \A k \in absorbed : (p.heads[k] = bud[k] /\ p.next[bud[k]] = Null) <=> F[k] = {bud[k]}
    BY <1>1, <1>2, <1>6, <1>9, AloneInList
  <2>3. cmask = p.free_mask \ {k \in absorbed : F[k] = {bud[k]}}
    BY <1>4, <1>9
  <2>4. cmask = p1.free_mask
    <3> HIDE DEF cmask, absorbed
    <3>1. QED BY <2>1, <2>2, <2>3
  <2>5. ccount = count
    BY <1>4, <1>14, <1>20, <1>24 DEF UnlinksFrom
  <2> HIDE DEF cmask, ccount
  <2>6. QED BY <1>4, <1>19, <1>26, <2>4, <2>5
<1>29. Threads(q, c.free)
  <2>1. c.tags[u] = Alloc(want)
    BY <1>19
  <2>2. Apart(c.free) /\ \A k \in Orders : \A w \in c.free[k] : w \in Units /\ w \notin Span(u, want)
    BY <1>18, <2>1, OutOfUse
  <2>3. \A k \in Orders : \A w \in c.free[k] : q.next[w] = p1.next[w] /\ q.prev[w] = p1.prev[w]
    BY <1>26, <2>2
  <2>4. Threads(p1, c.free)
    BY <1>22, <1>23
  <2>5. QED BY ONLY <1>26, <2>2, <2>3, <2>4, SameLinks
<1>30. LinkedWell(q) /\ Flat(q) = c
  BY ONLY <1>18, <1>26, <1>27, <1>28, <1>29, Concluded
<1>31. QED BY <1>3, <1>17, <1>30

(* The lists __setup builds are those of a fresh pool. *)
LEMMA SeededLinks == LinkedWell(Seeded) /\ Flat(Seeded) = Fresh
<1>1. PICK D : D = {k \in Orders : SeedBit(k)}
  OBVIOUS
<1>2. PICK at : at = [o \in D |-> SeedOff(o)]
  OBVIOUS
<1>3. PICK c : c = Fresh
  OBVIOUS
<1>4. WellFormed(c) /\ c \in PoolShapes /\ FreeListsMatchTags(c)
  BY <1>3, FreshPool DEF WellFormed
<1>5. /\ c.free = [o \in Orders |-> IF SeedBit(o) THEN {SeedOff(o)} ELSE {}]
      /\ c.free_mask = D /\ c.allocated = 0
      /\ \A k \in Orders : c.cache[k] = {} /\ c.cache_count[k] = 0
      /\ \A u \in Units : (~ \E o \in Orders : SeedBit(o) /\ SeedOff(o) = u) => c.tags[u] = NoTag
  <2>1. c.free = [o \in Orders |-> IF SeedBit(o) THEN {SeedOff(o)} ELSE {}]
        /\ c.free_mask = D /\ c.allocated = 0
        /\ c.cache = [o \in Orders |-> {}] /\ c.cache_count = [o \in Orders |-> 0]
    BY <1>1, <1>3 DEF Fresh
  <2>2. \A u \in Units : (~ \E o \in Orders : SeedBit(o) /\ SeedOff(o) = u) => c.tags[u] = NoTag
    BY <1>3 DEF Fresh
  <2>3. QED BY <2>1, <2>2
<1>6. \A o \in D : /\ at[o] = SeedOff(o) /\ o \in Orders /\ at[o] \in c.free[o]
                   /\ at[o] \in Units /\ c.tags[at[o]] = Free(o)
  <2>1. SUFFICES ASSUME NEW o \in D
                 PROVE  /\ at[o] = SeedOff(o) /\ o \in Orders /\ at[o] \in c.free[o]
                        /\ at[o] \in Units /\ c.tags[at[o]] = Free(o)
    OBVIOUS
  <2>2. at[o] = SeedOff(o) /\ o \in Orders /\ SeedBit(o)
    BY <1>1, <1>2
  <2>3. at[o] \in c.free[o]
    BY <1>5, <2>2
  <2>4. QED BY <1>4, <2>2, <2>3 DEF PoolShapes, FreeListsMatchTags
<1>7. /\ D \in SUBSET Orders /\ at \in [D -> Units] /\ DOMAIN at = D /\ Injective(at)
  <2>1. D \in SUBSET Orders /\ at \in [D -> Units] /\ DOMAIN at = D
    BY <1>1, <1>2, <1>6
  <2>2. \A o, k \in D : at[o] = at[k] => Free(o) = Free(k)
    BY <1>6
  <2>3. QED BY <2>1, <2>2 DEF Injective, Free
<1>8. PICK F : F = [o \in Orders |-> {}]
  OBVIOUS
<1>9. Bare \in LinkedShapes /\ Threads(Bare, F) /\ Apart(F)
  <2>1. Bare \in LinkedShapes
    <3>1. NoTag \in Tags
      BY OrderSizeFacts DEF NoTag, Tags
    <3>2. QED BY <3>1, WordFacts DEF Bare, LinkedShapes
  <2>2. Apart(F)
    BY <1>8 DEF Apart
  <2>3. Threads(Bare, F)
    <3>1. PICK age \in [Units -> Nat] : age = [u \in Units |-> 0]
      OBVIOUS
    <3>2. \A o \in Orders : Bare.heads[o] = Null /\ F[o] = {}
      BY <1>8 DEF Bare
    <3>3. Threaded(Bare, F, age)
      BY <3>2 DEF Threaded
    <3>4. \A u \in Units : age[u] < 1
      BY <3>1
    <3>5. QED BY <3>3, <3>4 DEF Threads
  <2>4. QED BY <2>1, <2>2, <2>3
<1>10. PICK p1 : p1 = LinkFront(Bare, at)
  OBVIOUS
<1>11. LinksIn(Bare, p1, at) /\ Threads(p1, More(F, at))
  <2>1. \A o \in D : \A k \in Orders : at[o] \notin F[k]
    BY <1>8
  <2>2. LinksIn(Bare, LinkFront(Bare, at), at)
    BY ONLY <1>7, <1>9, LinkFields
  <2>3. Threads(LinkFront(Bare, at), More(F, at))
    BY ONLY <1>7, <1>9, <2>1, LinkThreads
  <2>4. QED BY <1>10, <2>2, <2>3
<1>12. More(F, at) = c.free
  <2>1. \A o \in Orders : c.free[o] = IF o \in DOMAIN at THEN F[o] \union {at[o]} ELSE F[o]
    BY <1>1, <1>5, <1>6, <1>7, <1>8
  <2>2. c.free \in [Orders -> SUBSET Units]
    BY <1>4 DEF PoolShapes
  <2>3. QED BY <2>1, <2>2 DEF More
<1>13. PICK q : q = Seeded
  OBVIOUS
<1>14. q.tags = p1.tags /\ q.heads = p1.heads /\ q.next = p1.next /\ q.prev = p1.prev
       /\ q.free_mask = D /\ q.allocated = 0 /\ q \in LinkedShapes
  <2>1. q = [p1 EXCEPT !.free_mask = p1.free_mask \union D]
    BY <1>1, <1>2, <1>7, <1>10, <1>13 DEF Seeded, PushFree
  <2>2. p1 \in LinkedShapes /\ p1.free_mask = {} /\ p1.allocated = 0
    BY <1>11 DEF LinksIn, Bare
  <2>3. p1 = [tags |-> p1.tags, heads |-> p1.heads, next |-> p1.next, prev |-> p1.prev,
              free_mask |-> {}, allocated |-> 0]
    BY <2>2 DEF LinkedShapes
  <2>4. q = [tags |-> p1.tags, heads |-> p1.heads, next |-> p1.next, prev |-> p1.prev,
             free_mask |-> D, allocated |-> 0]
    BY <2>1, <2>2, <2>3
  <2>5. QED BY <1>7, <2>2, <2>4 DEF LinkedShapes
<1>15. c.tags = q.tags
  <2>1. c.tags \in [Units -> Tags] /\ q.tags \in [Units -> Tags]
    BY <1>4, <1>14 DEF LinkedShapes, PoolShapes
  <2>2. ASSUME NEW u \in Units PROVE c.tags[u] = q.tags[u]
    <3>1. CASE \E o \in D : at[o] = u
      BY <1>6, <1>7, <1>11, <1>14, <3>1 DEF LinksIn
    <3>2. CASE ~ \E o \in D : at[o] = u
      <4>1. q.tags[u] = Bare.tags[u]
        BY <1>7, <1>11, <1>14, <3>2 DEF LinksIn
      <4>2. ~ \E o \in Orders : SeedBit(o) /\ SeedOff(o) = u
        BY <1>1, <1>6, <3>2
      <4>3. QED BY <1>5, <4>1, <4>2 DEF Bare
    <3>3. QED BY <3>1, <3>2
  <2>3. QED BY <2>1, <2>2
<1>16. Threads(q, c.free)
  <2>1. Threads(p1, c.free) /\ Apart(c.free)
    BY <1>4, <1>11, <1>12, WellApart
  <2>2. QED BY ONLY <1>14, <2>1, SameLinks
<1>17. c.free_mask = q.free_mask /\ c.allocated = q.allocated
  BY <1>5, <1>14
<1>18. LinkedWell(q) /\ Flat(q) = c
  BY ONLY <1>4, <1>5, <1>14, <1>15, <1>16, <1>17, Concluded
<1>19. QED BY <1>3, <1>13, <1>18

(* What next meets from the head of a threaded list is the whole list. *)
LEMMA LinkedIsTagged ==
  ASSUME LinkedWell(l), NEW o \in Orders
  PROVE  Linked(o) = Tagged(l, o)
<1>1. PICK F : F = Lists(l)
  OBVIOUS
<1>2. PICK age \in [Units -> Nat], clock \in Nat :
        Threaded(l, F, age) /\ \A u \in Units : age[u] < clock
  BY <1>1 DEF LinkedWell, Threads
<1>3. Apart(F) /\ Threads(l, F) /\ F[o] = Tagged(l, o) /\ F[o] \subseteq Units
  BY <1>1, ListsApart, FlatFields DEF LinkedWell, Tagged
<1> DEFINE closed(S) == /\ l.heads[o] \in Units => l.heads[o] \in S
                        /\ \A u \in S : l.next[u] \in Units => l.next[u] \in S
<1>4. Linked(o) = {u \in Units : \A S \in SUBSET Units : closed(S) => u \in S}
  BY DEF Linked
<1>5. closed(F[o])
  <2>1. l.heads[o] \in F[o] \/ l.heads[o] = Null
    BY <1>2 DEF Threaded
  <2>2. \A u \in F[o] : l.next[u] # Null => l.next[u] \in F[o]
    BY <1>2, <1>3, ListFacts DEF WellLinked
  <2>3. QED BY <2>1, <2>2, WordFacts
<1>6. ASSUME NEW S \in SUBSET Units, closed(S) PROVE F[o] \subseteq S
  <2>1. /\ l.heads[o] \in F[o] => l.heads[o] \in S
        /\ \A u \in F[o] : u \in S /\ l.next[u] \in F[o] => l.next[u] \in S
    BY <1>3, <1>6
  <2> HIDE DEF closed
  <2>2. QED BY <1>3, <2>1, AllMet
<1> HIDE DEF closed
<1>7. QED BY <1>3, <1>4, <1>5, <1>6

(* The pool the refinement shows is the one given by the tags. *)
LEMMA AbstractFlat == LinkedWell(l) => Abstract = Flat(l)
BY LinkedIsTagged DEF Abstract, Flat, Lists

(* Every list ends: its oldest block has no next. *)
LEMMA ListEnds ==
  ASSUME NEW p, NEW F, Apart(F), Threads(p, F), NEW o \in Orders, F[o] # {}
  PROVE  \E u \in F[o] : p.next[u] = Null
<1>1. PICK age \in [Units -> Nat], clock \in Nat :
        Threaded(p, F, age) /\ \A u \in Units : age[u] < clock
  BY DEF Threads
<1>2. F[o] \subseteq Units
  BY DEF Apart
<1> DEFINE T == {age[u] : u \in F[o]}
<1>3. PICK m \in T : \A n \in T : m <= n
  <2>1. T \subseteq Nat /\ T # {}
    BY <1>2
  <2> HIDE DEF T
  <2>2. QED BY <2>1, LeastElement
<1>4. PICK u \in F[o] : m = age[u]
  BY <1>3
<1>5. \/ p.next[u] = Null
      \/ p.next[u] \in F[o] /\ age[p.next[u]] < age[u]
  BY <1>1, <1>4 DEF Threaded
<1>6. ASSUME NEW v \in F[o], age[v] < age[u] PROVE FALSE
  <2>1. age[v] \in T /\ age[u] \in Nat /\ age[v] \in Nat
    BY <1>2, <1>4
  <2>2. age[u] <= age[v]
    BY <1>3, <1>4, <2>1
  <2>3. QED BY <1>6, <2>1, <2>2
<1>7. QED BY <1>4, <1>5, <1>6

(* The links of threaded lists are intact. *)
LEMMA WellIntact == LinkedWell(l) => LinksIntact
<1>1. SUFFICES ASSUME LinkedWell(l), NEW o \in Orders
               PROVE  /\ l.heads[o] = Null \/ \E u \in Linked(o) : l.next[u] = Null
                      /\ \A u \in Linked(o) : l.next[u] \in Units => l.prev[l.next[u]] = u
                      /\ \A u \in Units : l.tags[u] = Free(o) => UnlinkCheck(l, u, o)
  BY DEF LinksIntact
<1>2. PICK F : F = Lists(l)
  OBVIOUS
<1>3. PICK age \in [Units -> Nat], clock \in Nat :
        Threaded(l, F, age) /\ \A u \in Units : age[u] < clock
  BY <1>1, <1>2 DEF LinkedWell, Threads
<1>4. Apart(F) /\ Threads(l, F) /\ Linked(o) = F[o]
  BY <1>1, <1>2, ListsApart, FlatFields, LinkedIsTagged DEF LinkedWell
<1>5. l.heads[o] \in F[o] \/ (l.heads[o] = Null /\ F[o] = {})
  BY <1>3 DEF Threaded
<1>6. l.heads[o] = Null \/ \E u \in F[o] : l.next[u] = Null
  BY <1>4, <1>5, ListEnds
<1>7. ASSUME NEW u \in F[o] PROVE l.next[u] # Null => l.prev[l.next[u]] = u
  <2>1. WellLinked(l, F, o, u)
    BY <1>3, <1>4, ListFacts
  <2>2. QED BY <2>1 DEF WellLinked
<1>8. \A u \in Units : l.tags[u] = Free(o) => UnlinkCheck(l, u, o)
  BY <1>1, Checked
<1>9. QED BY <1>4, <1>6, <1>7, <1>8, WordFacts

(* The searches of a call see the pool of the linked pool. *)
LEMMA SameSearch ==
  ASSUME NEW p, NEW o, NEW u
  PROVE  FindFreeOrder(p, o) = FindFreeOrder(Flat(p), o) /\ OrderAt(p, u) = OrderAt(Flat(p), u)
<1>1. PICK f : f = Flat(p) /\ f.free_mask = p.free_mask /\ f.tags = p.tags
  BY FlatFields
<1>2. FreeOrders(f, o) = FreeOrders(p, o)
  BY <1>1 DEF FreeOrders
<1>3. FindFreeOrder(f, o) = FindFreeOrder(p, o)
  BY <1>2 DEF FindFreeOrder
<1>4. OrderAt(f, u) = OrderAt(p, u)
  BY <1>1 DEF OrderAt
<1>5. QED BY <1>1, <1>3, <1>4

(* Each call does to the linked pool what it does to the pool. *)
LEMMA AllocateStep ==
  ASSUME LinkedWell(l), NEW o \in OrderInputs, AllocateLinked(o)
  PROVE  /\ LinkedWell(l')
         /\ \/ /\ o >= MaxOrder \/ FindFreeOrder(Flat(l), o) >= MaxOrder
               /\ answer' = Result("allocate", o, Null) /\ l' = l
            \/ /\ o < MaxOrder /\ FindFreeOrder(Flat(l), o) < MaxOrder
               /\ \E blk \in Flat(l).free[FindFreeOrder(Flat(l), o)] :
                    /\ Flat(l') = Grant(TakeAndSplit(Flat(l), blk, FindFreeOrder(Flat(l), o), o),
                                        blk, o)
                    /\ answer' = Result("allocate", o, blk)
<1>1. PICK from : from = FindFreeOrder(l, o) /\ from = FindFreeOrder(Flat(l), o)
  BY SameSearch
<1>2. WellFormed(Flat(l)) /\ Threads(l, Lists(l)) /\ Flat(l).free = Lists(l)
  BY FlatFields DEF LinkedWell
<1>3. CASE o >= MaxOrder \/ from >= MaxOrder
  BY <1>1, <1>3 DEF AllocateLinked
<1>4. CASE ~ (o >= MaxOrder \/ from >= MaxOrder)
  <2>1. o < MaxOrder /\ o \in Orders
    BY <1>4, OrderSizeAssumption DEF OrderInputs, Orders
  <2>2. from \in 0 .. MaxOrder
    BY <1>1, <1>2, <2>1, FoundOrder
  <2>3. from < MaxOrder
    BY <1>4, <2>2, OrderSizeAssumption
  <2>4. from \in Orders /\ o <= from /\ Lists(l)[from] # {}
    BY <1>1, <1>2, <2>1, <2>3, FindFreeOrderFacts
  <2>5. l.heads[from] # Null
    <3>1. l.heads[from] \in Lists(l)[from]
      BY <1>2, <2>4 DEF Threads, Threaded
    <3>2. QED BY <2>4, <3>1, ListsApart, WordFacts DEF Apart
  <2>6. PICK blk : blk = l.heads[from]
    OBVIOUS
  <2>7. /\ l' = Forget(Grant(SplitHead(l, from, o), blk, o), blk, o)
        /\ answer' = Result("allocate", o, blk)
    BY <1>1, <1>4, <2>5, <2>6 DEF AllocateLinked
  <2>8. /\ blk \in Flat(l).free[from] /\ LinkedWell(l')
        /\ Flat(l') = Grant(TakeAndSplit(Flat(l), blk, from, o), blk, o)
    BY ONLY LinkedWell(l), <2>1, <2>4, <2>5, <2>6, <2>7, AllocateLinks
  <2>9. QED BY <1>1, <2>1, <2>3, <2>7, <2>8
<1>5. QED BY <1>3, <1>4

LEMMA DeallocateStep ==
  ASSUME LinkedWell(l), NEW u \in Pointers, DeallocateLinked(u)
  PROVE  LET o == OrderAt(Flat(l), u)
         IN  /\ LinkedWell(l')
             /\ answer' = Result("deallocate", o, IF o = Null THEN Null ELSE u)
             /\ IF o = Null THEN l' = l
                ELSE o \in Orders /\ Flat(l') = MergeAndFree(Discharge(Flat(l), o), u, o)
<1>1. PICK o : o = OrderAt(l, u) /\ o = OrderAt(Flat(l), u)
  BY SameSearch
<1>2. answer' = Result("deallocate", o, IF o = Null THEN Null ELSE u)
  BY <1>1 DEF DeallocateLinked
<1>3. CASE o = Null
  BY <1>1, <1>2, <1>3 DEF DeallocateLinked
<1>4. CASE o # Null
  <2>1. u \in Units /\ o \in Orders /\ l.tags[u] \in {Alloc(o), Sheet(o)}
    <3>1. Flat(l) \in PoolShapes /\ Flat(l).tags = l.tags
      BY FlatFields DEF LinkedWell, WellFormed
    <3>2. QED BY <1>1, <1>4, <3>1, OrderAtFacts
  <2>2. PICK p : p = Discharge(l, o)
    OBVIOUS
  <2>3. LinkedWell(p) /\ Flat(p) = Discharge(Flat(l), o)
    BY <2>1, <2>2, DischargeLinks
  <2>4. p.tags = l.tags
    BY <2>2 DEF Discharge, LinkedWell, LinkedShapes
  <2>5. l' = MergeThenPush(p, u, o)
    BY <1>1, <1>4, <2>2 DEF DeallocateLinked
  <2>6. LinkedWell(l') /\ Flat(l') = MergeAndFree(Flat(p), u, o)
    BY ONLY <2>1, <2>3, <2>4, <2>5, MergeLinks
  <2>7. QED BY <1>1, <1>2, <1>4, <2>1, <2>3, <2>6
<1>5. QED BY <1>3, <1>4

(* Nor do the links ever refuse a growth that the tags allow. *)
LEMMA CanAbsorbSame ==
  ASSUME NEW p, LinkedWell(p), NEW u \in Units, NEW o \in Orders, NEW want \in OrderInputs
  PROVE  CanAbsorb(p, u, o, want) <=> CanGrow(Flat(p), u, o, want)
<1>1. CanGrow(p, u, o, want) <=> CanGrow(Flat(p), u, o, want)
  <2>1. PICK f : f = Flat(p) /\ f.tags = p.tags
    BY FlatFields
  <2>2. CanGrow(p, u, o, want) <=> CanGrow(f, u, o, want)
    BY <2>1 DEF CanGrow
  <2>3. QED BY <2>1, <2>2
<1>2. ASSUME CanGrow(p, u, o, want), NEW j \in o .. want - 1
      PROVE  UnlinkCheck(p, u + OrderSize[j], j)
  <2>1. j \in Orders
    BY <1>2, OrderSizeAssumption DEF Orders, OrderInputs
  <2>2. u + OrderSize[j] < Total /\ p.tags[u + OrderSize[j]] = Free(j)
    BY <1>2 DEF CanGrow
  <2>3. u + OrderSize[j] \in Units
    BY <2>1, <2>2, OrderSizeFacts, TotalAssumption DEF Units
  <2>4. QED BY <2>1, <2>2, <2>3, Checked
<1>3. QED BY <1>1, <1>2 DEF CanAbsorb

LEMMA GrowStep ==
  ASSUME LinkedWell(l), NEW u \in Pointers, NEW want \in OrderInputs, GrowLinked(u, want)
  PROVE  LET o    == OrderAt(Flat(l), u)
             size == IF o = Null THEN Null
                     ELSE IF want <= o THEN o
                     ELSE IF CanGrow(Flat(l), u, o, want) THEN want ELSE Null
         IN  /\ LinkedWell(l')
             /\ answer' = Result("grow", size, IF size = Null THEN Null ELSE u)
             /\ IF o # Null /\ size > o THEN Flat(l') = GrowTo(Flat(l), u, o, want) ELSE l' = l
<1>1. PICK o : o = OrderAt(l, u) /\ o = OrderAt(Flat(l), u)
  BY SameSearch
<1>2. CASE o = Null
  BY <1>1, <1>2 DEF GrowLinked
<1>3. CASE o # Null
  <2>1. u \in Units /\ o \in Orders /\ l.tags[u] \in {Alloc(o), Sheet(o)}
    <3>1. Flat(l) \in PoolShapes /\ Flat(l).tags = l.tags
      BY FlatFields DEF LinkedWell, WellFormed
    <3>2. QED BY <1>1, <1>3, <3>1, OrderAtFacts
  <2>2. CanAbsorb(l, u, o, want) <=> CanGrow(Flat(l), u, o, want)
    BY <2>1, CanAbsorbSame
  <2>3. PICK size : size = IF want <= o THEN o ELSE IF CanAbsorb(l, u, o, want) THEN want ELSE Null
    OBVIOUS
  <2>4. /\ answer' = Result("grow", size, IF size = Null THEN Null ELSE u)
        /\ IF size > o THEN l' = Forget(Absorb(l, u, o, want), u, want) ELSE l' = l
    BY <1>1, <1>3, <2>3 DEF GrowLinked
  <2>5. size = IF want <= o THEN o ELSE IF CanGrow(Flat(l), u, o, want) THEN want ELSE Null
    BY <2>2, <2>3
  <2>6. ASSUME size > o PROVE LinkedWell(l') /\ Flat(l') = GrowTo(Flat(l), u, o, want)
    <3>1. ~ (want <= o) /\ CanAbsorb(l, u, o, want)
      BY <2>1, <2>3, <2>6 DEF Null, Orders
    <3>2. CanGrow(l, u, o, want) /\ want \in Orders /\ o < want
      <4>1. CanGrow(l, u, o, want)
        BY ONLY <3>1, Zenon DEF CanAbsorb
      <4>2. want < MaxOrder
        BY ONLY <4>1, Zenon DEF CanGrow
      <4>3. want \in Nat /\ o \in Nat
        BY ONLY <2>1, want \in OrderInputs, OrderSizeAssumption DEF OrderInputs, Orders
      <4>4. want \in Orders /\ o < want
        BY ONLY <3>1, <4>2, <4>3, OrderSizeAssumption DEF Orders
      <4>5. QED BY <4>1, <4>4
    <3>3. l' = Forget(Absorb(l, u, o, want), u, want)
      BY <2>4, <2>6
    <3>4. QED BY ONLY LinkedWell(l), <2>1, <3>2, <3>3, GrowLinks
  <2>7. LinkedWell(l')
    BY <2>4, <2>6
  <2>8. QED BY <1>1, <1>3, <2>4, <2>5, <2>6, <2>7
<1>4. QED BY <1>2, <1>3

(* The inductive invariant: the lists are threaded, and hold a pool of Buddy. *)
LEMMA LinkedInit == InitLinked => LinkedWell(l) /\ Flat(l) = Fresh
BY SeededLinks DEF InitLinked

(* The inductive step: LinkedWell holds of the pool after every call. *)
LEMMA LinkedStep == LinkedWell(l) /\ [NextLinked]_linkedVars => LinkedWell(l')
<1>1. SUFFICES ASSUME LinkedWell(l), [NextLinked]_linkedVars PROVE LinkedWell(l')
  OBVIOUS
<1>2. ASSUME NEW o \in OrderInputs, AllocateLinked(o) PROVE LinkedWell(l')
  BY <1>1, <1>2, AllocateStep
<1>3. ASSUME NEW u \in Pointers, DeallocateLinked(u) PROVE LinkedWell(l')
  BY <1>1, <1>3, DeallocateStep
<1>4. ASSUME NEW u \in Pointers, NEW want \in OrderInputs, GrowLinked(u, want)
      PROVE  LinkedWell(l')
  BY <1>1, <1>4, GrowStep
<1>5. CASE ResetLinked
  BY <1>5, SeededLinks DEF ResetLinked
<1>6. CASE UNCHANGED linkedVars
  BY <1>1, <1>6 DEF linkedVars
<1>7. QED BY <1>1, <1>2, <1>3, <1>4, <1>5, <1>6 DEF NextLinked

(* Every block on the way from a head points back to the one before it, every
   list ends at null, and no merge is given up for a stale link. *)
THEOREM LinksAlwaysIntact == SpecLinked => []LinksIntact
<1>1. InitLinked => LinkedWell(l)
  BY LinkedInit
<1>2. LinkedWell(l) /\ [NextLinked]_linkedVars => LinkedWell(l)'
  BY LinkedStep
<1>3. LinkedWell(l) => LinksIntact
  BY WellIntact
<1>4. QED BY <1>1, <1>2, <1>3, PTL DEF SpecLinked

-----------------------------------------------------------------------------
(* The pool that the linked one implements is Buddy, without a cache. *)
LEMMA SameGeometry ==
  /\ Pool!Orders = Orders /\ Pool!Units = Units /\ Pool!Top = Top /\ Pool!Null = Null
  /\ Pool!Pointers = Pointers /\ Pool!OrderInputs = OrderInputs
  /\ Pool!NoTag = NoTag /\ Pool!NoResult = NoResult
  /\ \A o : Pool!Free(o) = Free(o) /\ Pool!Alloc(o) = Alloc(o)
  /\ \A x, y, z : Pool!Result(x, y, z) = Result(x, y, z)
  /\ \A u, k : /\ Pool!Level(u, k) = Level(u, k) /\ Pool!BuddyOf(u, k) = BuddyOf(u, k)
               /\ Pool!Aligned(u, k) <=> Aligned(u, k)
  /\ \A o : (Pool!SeedBit(o) <=> SeedBit(o)) /\ Pool!SeedOff(o) = SeedOff(o)
BY DEF Pool!Orders, Orders, Pool!Units, Units, Pool!Top, Top, Pool!Null, Null,
       Pool!Pointers, Pointers, Pool!OrderInputs, OrderInputs, Pool!NoTag, NoTag,
       Pool!NoResult, NoResult, Pool!Free, Free, Pool!Alloc, Alloc, Pool!Result, Result,
       Pool!Level, Level, Pool!BuddyOf, BuddyOf, Pool!Aligned, Aligned,
       Pool!SeedBit, SeedBit, Pool!SeedOff, SeedOff

(* The operators of Buddy's instance, cache capacity 0 put in, are Buddy's. *)
LEMMA SameFresh == Pool!Fresh = Fresh
BY SameGeometry DEF Pool!Fresh, Fresh

LEMMA SameFind ==
  ASSUME NEW c, NEW o
  PROVE  Pool!FindFreeOrder(c, o) = FindFreeOrder(c, o)
BY DEF Pool!FindFreeOrder, FindFreeOrder, Pool!FreeOrders, FreeOrders

LEMMA SameOrderAt ==
  ASSUME NEW c, NEW u
  PROVE  Pool!OrderAt(c, u) = OrderAt(c, u)
BY SameGeometry DEF Pool!OrderAt, OrderAt

LEMMA SameSplit ==
  ASSUME NEW c, NEW blk, NEW from, NEW target
  PROVE  Pool!TakeAndSplit(c, blk, from, target) = TakeAndSplit(c, blk, from, target)
BY SameGeometry DEF Pool!TakeAndSplit, TakeAndSplit

LEMMA SameGrant ==
  ASSUME NEW c, NEW u, NEW o
  PROVE  Pool!Grant(c, u, o) = Grant(c, u, o) /\ Pool!Discharge(c, o) = Discharge(c, o)
BY SameGeometry DEF Pool!Grant, Grant, Pool!Discharge, Discharge

LEMMA SameCanMerge ==
  ASSUME NEW c, NEW u, NEW k
  PROVE  Pool!CanMerge(c, u, k) <=> CanMerge(c, u, k)
BY SameGeometry DEF Pool!CanMerge, CanMerge

LEMMA SameMergeOrder ==
  ASSUME NEW c, NEW u, NEW o
  PROVE  Pool!MergeOrder(c, u, o) = MergeOrder(c, u, o)
BY SameGeometry, SameCanMerge DEF Pool!MergeOrder, MergeOrder

LEMMA SameMerge ==
  ASSUME NEW c, NEW u, NEW o
  PROVE  Pool!MergeAndFree(c, u, o) = MergeAndFree(c, u, o)
BY SameGeometry, SameMergeOrder DEF Pool!MergeAndFree, MergeAndFree

LEMMA SameGrow ==
  ASSUME NEW c, NEW u, NEW o, NEW want
  PROVE  /\ Pool!CanGrow(c, u, o, want) <=> CanGrow(c, u, o, want)
         /\ Pool!GrowTo(c, u, o, want) = GrowTo(c, u, o, want)
BY SameGeometry DEF Pool!CanGrow, CanGrow, Pool!GrowTo, GrowTo

(* One step of the linked pool is one of Buddy, or changes nothing of it. *)
LEMMA LinkedSimulates ==
  ASSUME LinkedWell(l), NEW f, f = Flat(l), Abstract = f, Abstract' = Flat(l'),
         [NextLinked]_linkedVars
  PROVE  [Pool!Next]_<<Abstract, answer>>
<1>1. Pool!Idle = [op |-> "none", order |-> 0]
  BY DEF Pool!Idle
<1>2. \A o \in Orders : ~ Pool!CacheHit(o) /\ ~ Pool!CacheTakes(f, o)
  BY DEF Pool!CacheHit, Pool!CacheTakes
<1>3. ASSUME NEW o \in OrderInputs, AllocateLinked(o) PROVE Pool!Next
  <2>1. PICK from : from = FindFreeOrder(f, o) /\ from = Pool!FindFreeOrder(f, o)
    BY SameFind
  <2>2. \/ /\ o >= MaxOrder \/ from >= MaxOrder
           /\ answer' = Result("allocate", o, Null) /\ l' = l
        \/ /\ o < MaxOrder /\ from < MaxOrder
           /\ \E blk \in f.free[from] :
                /\ Flat(l') = Grant(TakeAndSplit(f, blk, from, o), blk, o)
                /\ answer' = Result("allocate", o, blk)
    BY <1>3, <2>1, AllocateStep
  <2>3. CASE o >= MaxOrder /\ answer' = Result("allocate", o, Null) /\ l' = l
    <3>1. Pool!AllocateTooLarge(o)
      BY <2>3, SameGeometry DEF Pool!AllocateTooLarge
    <3>2. QED BY <1>1, <3>1, SameGeometry DEF Pool!Next, Pool!Allocate
  <2>4. CASE ~ (o >= MaxOrder) /\ from >= MaxOrder /\ answer' = Result("allocate", o, Null) /\ l' = l
    <3>1. o < MaxOrder /\ o \in Orders
      BY <2>4, OrderSizeAssumption DEF OrderInputs, Orders
    <3>2. Pool!AllocateExhausted(o)
      BY <1>2, <2>1, <2>4, <3>1, SameGeometry DEF Pool!AllocateExhausted
    <3>3. QED BY <1>1, <3>2, SameGeometry DEF Pool!Next, Pool!Allocate
  <2>5. ASSUME o < MaxOrder, from < MaxOrder, NEW blk \in f.free[from],
               Flat(l') = Grant(TakeAndSplit(f, blk, from, o), blk, o),
               answer' = Result("allocate", o, blk)
        PROVE  Pool!Next
    <3>1. o \in Orders
      BY <2>5, OrderSizeAssumption DEF OrderInputs, Orders
    <3>2. Abstract' = Pool!Grant(Pool!TakeAndSplit(f, blk, from, o), blk, o)
      BY <2>5, SameSplit, SameGrant
    <3>3. Pool!SplitFrom(o)
      BY <2>1, <2>5, <3>2, SameGeometry DEF Pool!SplitFrom
    <3>4. Pool!AllocateSplit(o)
      BY <1>2, <2>5, <3>1, <3>3 DEF Pool!AllocateSplit
    <3>5. QED BY <1>1, <3>4, SameGeometry DEF Pool!Next, Pool!Allocate
  <2>6. QED BY <2>2, <2>3, <2>4, <2>5
<1>4. ASSUME NEW u \in Pointers, DeallocateLinked(u) PROVE Pool!Next
  <2>1. PICK o : o = OrderAt(f, u) /\ o = Pool!OrderAt(f, u)
    BY SameOrderAt
  <2>2. /\ answer' = Result("deallocate", o, IF o = Null THEN Null ELSE u)
        /\ IF o = Null THEN l' = l
           ELSE o \in Orders /\ Flat(l') = MergeAndFree(Discharge(f, o), u, o)
    BY <1>4, <2>1, DeallocateStep
  <2>3. o # Null => Abstract' = Pool!DeallocateOrder(f, u, o)
    <3>1. SUFFICES ASSUME o # Null PROVE Abstract' = Pool!DeallocateOrder(f, u, o)
      OBVIOUS
    <3>2. ~ Pool!CacheTakes(f, o)
      BY <1>2, <2>2, <3>1
    <3>3. Abstract' = Pool!MergeAndFree(Pool!Discharge(f, o), u, o)
      BY <2>2, <3>1, SameMerge, SameGrant
    <3>4. QED BY <3>2, <3>3 DEF Pool!DeallocateOrder
  <2>4. o = Null => Abstract' = Abstract
    BY <2>2
  <2>5. Pool!Deallocate(u)
    BY <1>1, <2>1, <2>2, <2>3, <2>4, SameGeometry DEF Pool!Deallocate
  <2>6. QED BY <1>4, <2>5, SameGeometry DEF Pool!Next
<1>5. ASSUME NEW u \in Pointers, NEW want \in OrderInputs, GrowLinked(u, want) PROVE Pool!Next
  <2>1. PICK o : o = OrderAt(f, u) /\ o = Pool!OrderAt(f, u)
    BY SameOrderAt
  <2>2. PICK size : size = IF o = Null THEN Null
                           ELSE IF want <= o THEN o
                           ELSE IF CanGrow(f, u, o, want) THEN want ELSE Null
    OBVIOUS
  <2>3. /\ answer' = Result("grow", size, IF size = Null THEN Null ELSE u)
        /\ IF o # Null /\ size > o THEN Flat(l') = GrowTo(f, u, o, want) ELSE l' = l
    BY <1>5, <2>1, <2>2, GrowStep
  <2>4. size = IF o = Null THEN Null
               ELSE IF want <= o THEN o
               ELSE IF Pool!CanGrow(f, u, o, want) THEN want ELSE Null
    BY <2>2, SameGrow
  <2>5. IF o # Null /\ size > o THEN Abstract' = Pool!GrowTo(f, u, o, want)
        ELSE Abstract' = Abstract
    BY <2>3, SameGrow
  <2>6. Pool!Grow(u, want)
    BY <1>1, <2>1, <2>3, <2>4, <2>5, SameGeometry DEF Pool!Grow
  <2>7. QED BY <1>5, <2>6, SameGeometry DEF Pool!Next
<1>6. CASE ResetLinked
  <2>1. Abstract' = Pool!Fresh /\ answer' = Pool!NoResult
    BY <1>6, SeededLinks, SameFresh, SameGeometry DEF ResetLinked
  <2>2. Pool!Reset
    BY <1>1, <2>1 DEF Pool!Reset
  <2>3. QED BY <2>2 DEF Pool!Next
<1>7. CASE UNCHANGED linkedVars
  <2>1. l' = l /\ answer' = answer
    BY <1>7 DEF linkedVars
  <2>2. UNCHANGED <<Abstract, answer>>
    BY <2>1
  <2>3. QED BY <2>2
<1>8. QED BY <1>3, <1>4, <1>5, <1>6, <1>7 DEF NextLinked

(* Cut down to the sets of blocks in its lists, the linked pool is the pool of
   Buddy step for step, so all that is proved of Buddy without a cache holds of
   the pointers. *)
THEOREM LinkedImplementation == SpecLinked => ImplementsBuddy
<1>1. InitLinked => LinkedWell(l)
  BY LinkedInit
<1>2. LinkedWell(l) /\ [NextLinked]_linkedVars => LinkedWell(l)'
  BY LinkedStep
<1>3. LinkedWell(l) => Abstract = Flat(l)
  BY AbstractFlat
<1>4. InitLinked => Pool!Init
  <2>1. SUFFICES ASSUME InitLinked PROVE Pool!Init
    OBVIOUS
  <2>2. Abstract = Fresh /\ answer = NoResult
    BY <2>1, <1>3, LinkedInit DEF InitLinked
  <2>3. QED BY <2>2, SameFresh, SameGeometry DEF Pool!Init, Pool!Idle
<1>5. /\ LinkedWell(l) /\ Abstract = Flat(l) /\ (Abstract = Flat(l))'
      /\ [NextLinked]_linkedVars
      => [Pool!Next]_<<Abstract, answer>>
  BY LinkedSimulates
<1>6. QED BY <1>1, <1>2, <1>3, <1>4, <1>5, PTL DEF SpecLinked, ImplementsBuddy
=============================================================================
