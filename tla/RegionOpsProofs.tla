-------------------------- MODULE RegionOpsProofs --------------------------
(***************************************************************************)
(* What the operations of RegionOps do to a well-formed region, for every  *)
(* size of pool, sheet and request.  The two tiers are well formed by the  *)
(* lemmas of BuddyOpsProofs and TlsfProofs; what is proved here is what    *)
(* holds between them: which blocks of the pool are sheets, which sheet    *)
(* may be empty, and what that makes of the answers of the region.         *)
(***************************************************************************)
EXTENDS RegionOps, BuddyOpsProofs, Sequences

(***************************************************************************)
(* The pool, as a region uses it: without a cache.                         *)
(***************************************************************************)
InUse(c, u) == c.tags[u].kind \in {"alloc", "sheet"}

PoolWell(c) ==
  /\ WellFormed(c) /\ FullyCoalesced(c) /\ Charged(c)
  /\ \A o \in Orders : c.cache[o] = {} /\ c.cache_count[o] = 0
  /\ \A u \in Units : c.tags[u].kind = "none" => c.tags[u] = NoTag

(* But for u, what is in use before or after is the same block. *)
KeepsUse(c, d, u) ==
  \A v \in Units \ {u} : InUse(c, v) \/ InUse(d, v) => d.tags[v] = c.tags[v]

LEMMA TagKinds ==
  ASSUME NEW o \in Orders
  PROVE  /\ Alloc(o).kind = "alloc" /\ Alloc(o).order = o
         /\ Sheet(o).kind = "sheet" /\ Sheet(o).order = o
         /\ Free(o).kind = "free" /\ NoTag.kind = "none"
BY DEF Alloc, Sheet, Free, NoTag

LEMMA InUseTag ==
  ASSUME NEW c \in PoolShapes, NEW u \in Units, InUse(c, u)
  PROVE  c.tags[u].order \in Orders /\ c.tags[u] \in {Alloc(c.tags[u].order), Sheet(c.tags[u].order)}
BY DEF InUse, PoolShapes, Tags, Alloc, Sheet

(* Tags that change are not those of blocks in use afterwards, and no block
   in use but u's is lost. *)
LEMMA UseKept ==
  ASSUME NEW c \in PoolShapes, NEW d \in PoolShapes, NEW u \in Units,
         \A v \in Units \ {u} : d.tags[v] = c.tags[v] \/ ~ InUse(d, v),
         \A blk \in InUseBlocks(c) : blk[1] # u => blk \in InUseBlocks(d)
  PROVE  KeepsUse(c, d, u)
<1> SUFFICES ASSUME NEW v \in Units \ {u}, InUse(c, v), d.tags[v] # c.tags[v] PROVE FALSE
  BY DEF KeepsUse
<1>1. ~ InUse(d, v)
  OBVIOUS
<1>2. PICK o \in Orders : c.tags[v] \in {Alloc(o), Sheet(o)}
  BY InUseTag
<1> DEFINE blk == <<v, o>>
<1>3. blk[1] = v
  OBVIOUS
<1>4. blk \in InUseBlocks(c)
  BY <1>2, LiveMember
<1> HIDE DEF blk
<1>5. blk \in InUseBlocks(d)
  BY <1>3, <1>4
<1>6. d.tags[v] \in {Alloc(o), Sheet(o)}
  BY <1>5, LiveMember DEF blk
<1> QED BY <1>1, <1>6, TagKinds DEF InUse

LEMMA NotCaching ==
  ASSUME NEW c, NEW u, NEW o
  PROVE  DeallocateOrder(c, u, o) = MergeAndFree(Discharge(c, o), u, o)
BY RegionAssumption DEF DeallocateOrder, CacheTakes

LEMMA GrantPool ==
  ASSUME NEW c, PoolWell(c), NEW o \in Orders, NEW g \in BuddyGrants(c, o)
  PROVE  /\ PoolWell(g.pool) /\ g.off \in Units /\ g.pool.tags[g.off] = Alloc(o)
         /\ VacantIn(InUseBlocks(c), g.off, o) /\ ~ InUse(c, g.off)
         /\ KeepsUse(c, g.pool, g.off)
<1> DEFINE from == FindFreeOrder(c, o)
<1>1. /\ WellFormed(c) /\ FullyCoalesced(c) /\ Charged(c) /\ c \in PoolShapes
      /\ \A p \in Orders : c.cache[p] = {} /\ c.cache_count[p] = 0
      /\ \A u \in Units : c.tags[u].kind = "none" => c.tags[u] = NoTag
  BY DEF PoolWell, WellFormed
<1>2. /\ from < MaxOrder
      /\ \E blk \in c.free[from] :
           g = [off |-> blk, pool |-> Grant(TakeAndSplit(c, blk, from, o), blk, o)]
  BY DEF BuddyGrants
<1>3. from \in Orders /\ o <= from
  BY <1>1, <1>2, FindFreeOrderFacts
<1>4. PICK blk \in c.free[from] : g = [off |-> blk, pool |-> Grant(TakeAndSplit(c, blk, from, o), blk, o)]
  BY <1>2
<1> DEFINE e == TakeAndSplit(c, blk, from, o)
           d == Grant(e, blk, o)
<1>5. g.off = blk /\ g.pool = d
  BY <1>4
<1>6. FullyCoalesced(d)
  BY <1>1, <1>2, SplitCoalesced
<1> HIDE DEF from
<1>7. /\ WellFormed(d) /\ Charged(d) /\ blk \in Units /\ VacantIn(InUseBlocks(c), blk, o)
      /\ InUseBlocks(d) = InUseBlocks(c) \union {<<blk, o>>}
  BY <1>1, <1>3, SplitGrant, SplitCharged, SplitLive
<1>8. d.cache = c.cache /\ d.cache_count = c.cache_count
  BY <1>1 DEF Grant, TakeAndSplit, PoolShapes
<1>9. d.tags[blk] = Alloc(o) /\ \A v \in Units : v # blk => d.tags[v] = c.tags[v] \/ d.tags[v].kind = "free"
  <2> DEFINE ts == [u \in Units |->
                     IF \E j \in o .. from - 1 : u = blk + OrderSize[j]
                     THEN Free(CHOOSE j \in o .. from - 1 : u = blk + OrderSize[j]) ELSE c.tags[u]]
  <2>1. d.tags = [ts EXCEPT ![blk] = Alloc(o)]
    BY <1>1 DEF Grant, TakeAndSplit, PoolShapes
  <2>2. \A v \in Units : ts[v] = c.tags[v] \/ ts[v].kind = "free"
    BY DEF Free
  <2>3. DOMAIN ts = Units
    OBVIOUS
  <2> HIDE DEF ts, d
  <2> QED BY <1>7, <2>1, <2>2, <2>3
<1> HIDE DEF d
<1>10. \A v \in Units : d.tags[v].kind = "none" => d.tags[v] = NoTag
  <2>1. d.tags[blk].kind = "alloc"
    BY <1>9, TagKinds
  <2> QED BY <1>1, <1>9, <2>1
<1>11. PoolWell(d)
  BY <1>1, <1>6, <1>7, <1>8, <1>10 DEF PoolWell
<1>12. KeepsUse(c, d, blk)
  <2>1. \A v \in Units \ {blk} : d.tags[v] = c.tags[v] \/ ~ InUse(d, v)
    BY <1>9 DEF InUse
  <2> QED BY <1>1, <1>7, <2>1, UseKept DEF WellFormed
<1>13. ~ InUse(c, blk)
  <2>1. c.tags[blk] = Free(from)
    BY <1>1, <1>3, <1>7 DEF WellFormed, FreeListsMatchTags
  <2> QED BY <1>3, <2>1, TagKinds DEF InUse
<1> QED BY <1>5, <1>7, <1>9, <1>11, <1>12, <1>13

LEMMA ReleasePool ==
  ASSUME NEW c, PoolWell(c), NEW u \in Units, NEW o \in Orders, c.tags[u] \in {Alloc(o), Sheet(o)}
  PROVE  LET d == DeallocateOrder(c, u, o)
         IN  PoolWell(d) /\ ~ InUse(d, u) /\ KeepsUse(c, d, u)
<1> DEFINE d == DeallocateOrder(c, u, o)
           e == Discharge(c, o)
<1>1. /\ WellFormed(c) /\ FullyCoalesced(c) /\ Charged(c) /\ c \in PoolShapes
      /\ \A p \in Orders : c.cache[p] = {} /\ c.cache_count[p] = 0
      /\ \A v \in Units : c.tags[v].kind = "none" => c.tags[v] = NoTag
  BY DEF PoolWell, WellFormed
<1>2. WellFormed(d) /\ FullyCoalesced(d)
  BY <1>1, DeallocateWell
<1>3. Charged(d)
  BY <1>1, DeallocateCharged
<1>4. InUseBlocks(d) = InUseBlocks(c) \ {<<u, o>>}
  BY <1>1, DeallocateLive
<1>5. d = MergeAndFree(e, u, o)
  BY NotCaching
<1>6. e \in PoolShapes /\ e.tags = c.tags /\ e.cache = c.cache /\ e.cache_count = c.cache_count
  <2>1. c.allocated - OrderSize[o] \in Int
    BY <1>1, OrderSizeFacts DEF PoolShapes
  <2> QED BY <1>1, <2>1 DEF Discharge, PoolShapes
<1> HIDE DEF e
<1>7. d.cache = c.cache /\ d.cache_count = c.cache_count
  BY <1>5, <1>6 DEF MergeAndFree, PoolShapes
<1>8. \A v \in Units : d.tags[v] = c.tags[v] \/ d.tags[v] = NoTag \/ d.tags[v].kind = "free"
  <2>1. \A v \in Units : e.tags[v] = c.tags[v]
    BY <1>6
  <2> DEFINE m == MergeOrder(e, u, o)
             final == Level(u, m)
             right(k) == Level(u, k + 1) + OrderSize[k]
  <2>2. d.tags = [v \in Units |->
          IF v = final THEN Free(m)
          ELSE IF \E k \in o .. m - 1 : v = right(k) THEN NoTag ELSE e.tags[v]]
    BY <1>5, <1>6 DEF MergeAndFree, PoolShapes
  <2>3. Free(m).kind = "free"
    BY DEF Free
  <2> HIDE DEF m, final, right
  <2> QED BY <2>1, <2>2, <2>3
<1> HIDE DEF d
<1>9. d \in PoolShapes
  BY <1>2 DEF WellFormed
<1>10. ~ InUse(d, u)
  <2> SUFFICES ASSUME InUse(d, u) PROVE FALSE
    OBVIOUS
  <2>1. PICK q \in Orders : d.tags[u] \in {Alloc(q), Sheet(q)}
    BY <1>9, InUseTag
  <2>2. <<u, q>> \in InUseBlocks(c) /\ <<u, q>> # <<u, o>>
    BY <1>4, <1>9, <2>1, LiveMember
  <2>3. c.tags[u] \in {Alloc(q), Sheet(q)}
    BY <1>1, <2>2, LiveMember
  <2> QED BY <2>2, <2>3, TagKinds
<1>11. PoolWell(d)
  <2>1. \A v \in Units : d.tags[v].kind = "none" => d.tags[v] = NoTag
    BY <1>1, <1>8
  <2> QED BY <1>1, <1>2, <1>3, <1>7, <2>1 DEF PoolWell
<1>12. KeepsUse(c, d, u)
  <2>1. \A v \in Units \ {u} : d.tags[v] = c.tags[v] \/ ~ InUse(d, v)
    BY <1>8, TagKinds DEF InUse
  <2> QED BY <1>1, <1>4, <1>9, <2>1, UseKept
<1> QED BY <1>10, <1>11, <1>12 DEF d

LEMMA MarkPool ==
  ASSUME NEW c, PoolWell(c), NEW u \in Units, NEW o \in Orders, c.tags[u] \in {Alloc(o), Sheet(o)}
  PROVE  /\ PoolWell(MarkSheet(c, u)) /\ MarkSheet(c, u).tags[u] = Sheet(o)
         /\ PoolWell(UnmarkSheet(c, u)) /\ UnmarkSheet(c, u).tags[u] = Alloc(o)
         /\ \A v \in Units \ {u} : /\ MarkSheet(c, u).tags[v] = c.tags[v]
                                   /\ UnmarkSheet(c, u).tags[v] = c.tags[v]
<1>1. /\ WellFormed(c) /\ FullyCoalesced(c) /\ Charged(c) /\ c \in PoolShapes
      /\ \A p \in Orders : c.cache[p] = {} /\ c.cache_count[p] = 0
      /\ \A v \in Units : c.tags[v].kind = "none" => c.tags[v] = NoTag
  BY DEF PoolWell, WellFormed
<1>2. c.tags[u].order = o
  BY TagKinds
<1>3. ASSUME NEW d \in {MarkSheet(c, u), UnmarkSheet(c, u)}, NEW e \in {Alloc(o), Sheet(o)},
             d.tags = [c.tags EXCEPT ![u] = e], d.cache = c.cache, d.cache_count = c.cache_count
      PROVE  PoolWell(d) /\ d.tags[u] = e /\ \A v \in Units \ {u} : d.tags[v] = c.tags[v]
  <2>1. WellFormed(d) /\ FullyCoalesced(d) /\ Charged(d)
    BY <1>1, MarkWell, MarkCharged
  <2>2. d.tags[u] = e /\ \A v \in Units \ {u} : d.tags[v] = c.tags[v]
    BY <1>1, <1>3 DEF PoolShapes
  <2>3. e.kind # "none"
    BY TagKinds
  <2>4. \A v \in Units : d.tags[v].kind = "none" => d.tags[v] = NoTag
    BY <1>1, <2>2, <2>3
  <2> QED BY <1>1, <1>3, <2>1, <2>2, <2>4 DEF PoolWell
<1>4. /\ MarkSheet(c, u).tags = [c.tags EXCEPT ![u] = Sheet(o)]
      /\ MarkSheet(c, u).cache = c.cache /\ MarkSheet(c, u).cache_count = c.cache_count
  BY <1>1, <1>2 DEF MarkSheet, PoolShapes
<1>5. /\ UnmarkSheet(c, u).tags = [c.tags EXCEPT ![u] = Alloc(o)]
      /\ UnmarkSheet(c, u).cache = c.cache /\ UnmarkSheet(c, u).cache_count = c.cache_count
  BY <1>1, <1>2 DEF UnmarkSheet, PoolShapes
<1> QED BY <1>3, <1>4, <1>5

LEMMA GrowPool ==
  ASSUME NEW c, PoolWell(c), NEW u \in Units, NEW o \in Orders, c.tags[u] \in {Alloc(o), Sheet(o)},
         NEW want \in Orders, o < want, CanGrow(c, u, o, want)
  PROVE  LET d == GrowTo(c, u, o, want)
         IN  PoolWell(d) /\ d.tags[u] = Alloc(want) /\ KeepsUse(c, d, u)
<1> DEFINE d == GrowTo(c, u, o, want)
<1>1. /\ WellFormed(c) /\ FullyCoalesced(c) /\ Charged(c) /\ c \in PoolShapes
      /\ \A p \in Orders : c.cache[p] = {} /\ c.cache_count[p] = 0
      /\ \A v \in Units : c.tags[v].kind = "none" => c.tags[v] = NoTag
  BY DEF PoolWell, WellFormed
<1>2. WellFormed(d) /\ FullyCoalesced(d)
  BY <1>1, GrowWell
<1>3. Charged(d)
  BY <1>1, GrowCharged
<1>4. /\ <<u, o>> \in InUseBlocks(c)
      /\ InUseBlocks(d) = (InUseBlocks(c) \ {<<u, o>>}) \union {<<u, want>>}
      /\ Aligned(u, want) /\ InPool(u, want)
      /\ \A other \in InUseBlocks(c) \ {<<u, o>>} :
           Span(other[1], other[2]) \cap Span(u, want) = {}
  BY <1>1, GrowLive
<1>5. d.cache = c.cache /\ d.cache_count = c.cache_count
  BY <1>1 DEF GrowTo, PoolShapes
<1>6. /\ d.tags[u] = Alloc(want)
      /\ \A v \in Units \ {u} : d.tags[v] = c.tags[v] \/ d.tags[v] = NoTag
  BY <1>1 DEF GrowTo, PoolShapes
<1> HIDE DEF d
<1>7. PoolWell(d)
  <2>1. \A v \in Units : d.tags[v].kind = "none" => d.tags[v] = NoTag
    BY <1>1, <1>6, TagKinds
  <2> QED BY <1>1, <1>2, <1>3, <1>5, <2>1 DEF PoolWell
<1>8. KeepsUse(c, d, u)
  <2>1. \A v \in Units \ {u} : d.tags[v] = c.tags[v] \/ ~ InUse(d, v)
    BY <1>6, TagKinds, OrderSizeFacts DEF InUse
  <2>2. d \in PoolShapes
    BY <1>2 DEF WellFormed
  <2> QED BY <1>1, <1>4, <2>1, <2>2, UseKept
<1> QED BY <1>6, <1>7, <1>8 DEF d

LEMMA FreshPoolWell == PoolWell(Fresh) /\ \A u \in Units : ~ InUse(Fresh, u)
<1>1. WellFormed(Fresh) /\ FullyCoalesced(Fresh) /\ Charged(Fresh)
  BY FreshPool, FreshCharged
<1>2. \A o \in Orders : Fresh.cache[o] = {} /\ Fresh.cache_count[o] = 0
  BY DEF Fresh
<1>3. \A u \in Units : Fresh.tags[u] = NoTag \/ Fresh.tags[u].kind = "free"
  BY DEF Fresh, Free
<1> QED BY <1>1, <1>2, <1>3, TagKinds, OrderSizeFacts DEF PoolWell, InUse

(***************************************************************************)
(* The small-object tier.  Its proofs are about TlsfOps with the units of  *)
(* the pool for its sheets, the module that T names, operator by operator. *)
(***************************************************************************)
TP == INSTANCE TlsfProofs WITH Sheets <- Units, t <- T!EmptyTlsf, wanted <- 0, Requests <- {}

LEMMA SameTier ==
  /\ TP!NullOff = T!NullOff /\ TP!EmptyTlsf = T!EmptyTlsf /\ TP!Places = T!Places
  /\ \A u, n : TP!Fit(u, n) = T!Fit(u, n) /\ TP!Allocate(u, n) = T!Allocate(u, n)
  /\ \A u, x : TP!Deallocate(u, x) = T!Deallocate(u, x) /\ TP!Owns(u, x) = T!Owns(u, x)
  /\ \A u, x, n : TP!CanShrink(u, x, n) = T!CanShrink(u, x, n) /\ TP!Shrink(u, x, n) = T!Shrink(u, x, n)
  /\ \A u, x, n : TP!CanGrow(u, x, n) = T!CanGrow(u, x, n) /\ TP!Grow(u, x, n) = T!Grow(u, x, n)
  /\ \A u, s : TP!SheetEmpty(u, s) = T!SheetEmpty(u, s)
  /\ \A u, s : TP!AddSheet(u, s) = T!AddSheet(u, s) /\ TP!RemoveSheet(u, s) = T!RemoveSheet(u, s)
  /\ \A u : TP!SheetsOf(u) = T!SheetsOf(u) /\ TP!UsedBlocks(u) = T!UsedBlocks(u)
  /\ \A u : /\ TP!PhysicallyLinked(u) = T!PhysicallyLinked(u)
            /\ TP!FreeBlocksApart(u) = T!FreeBlocksApart(u)
            /\ TP!ListsHoldFreeBlocks(u) = T!ListsHoldFreeBlocks(u)
<1>1. TP!ClassOf = T!ClassOf
  BY Zenon DEF TP!ClassOf, T!ClassOf, TP!DataBytes, T!DataBytes, TP!FlShift, T!FlShift,
    TP!Granule, T!Granule, TP!Log2, T!Log2, TP!MappingInsert, T!MappingInsert, TP!MinBlock,
    T!MinBlock, TP!MinUnits, T!MinUnits, TP!SlCount, T!SlCount
<1>2. TP!Search = T!Search
  BY Zenon DEF TP!DataBytes, T!DataBytes, TP!FlShift, T!FlShift, TP!Granule, T!Granule,
    TP!Log2, T!Log2, TP!MappingSearch, T!MappingSearch, TP!MinBlock, T!MinBlock, TP!Search,
    T!Search, TP!SearchClass, T!SearchClass, TP!SlCount, T!SlCount, TP!TableEntry, T!TableEntry,
    TP!TableMax, T!TableMax
<1>3. TP!Classes = T!Classes
  BY Zenon DEF TP!Classes, T!Classes, TP!DataBytes, T!DataBytes, TP!FlCount, T!FlCount,
    TP!FlShift, T!FlShift, TP!Granule, T!Granule, TP!Log2, T!Log2, TP!SlCount, T!SlCount
<1>4. TP!FlCount = T!FlCount
  BY Zenon DEF TP!DataBytes, T!DataBytes, TP!FlCount, T!FlCount, TP!FlShift, T!FlShift,
    TP!Granule, T!Granule, TP!Log2, T!Log2
<1>5. TP!MinUnits = T!MinUnits
  BY Zenon DEF TP!Granule, T!Granule, TP!MinBlock, T!MinBlock, TP!MinUnits, T!MinUnits
<1>6. TP!NullOff = T!NullOff
  BY Zenon DEF TP!NullOff, T!NullOff
<1>7. \A n, b, p : TP!Hdr(n, b, p) = T!Hdr(n, b, p)
  BY Zenon DEF TP!Hdr, T!Hdr
<1>8. \A x, n : TP!NextTo(x, n) = T!NextTo(x, n)
  BY Zenon DEF TP!NextTo, T!NextTo
<1>9. \A u, x : TP!BlockPrev(u, x) = T!BlockPrev(u, x)
  BY Zenon DEF TP!BlockPrev, T!BlockPrev
<1>10. \A u, x : TP!IsFree(u, x) = T!IsFree(u, x)
  BY Zenon DEF TP!IsFree, T!IsFree
<1>11. \A h, x, p : TP!SetPrev(h, x, p) = T!SetPrev(h, x, p)
  BY Zenon DEF TP!SetPrev, T!SetPrev
<1>12. \A h, x : TP!Drop(h, x) = T!Drop(h, x)
  BY Zenon DEF TP!Drop, T!Drop
<1>13. \A h, x, n : TP!Resized(h, x, n) = T!Resized(h, x, n)
  BY Zenon DEF TP!Resized, T!Resized
<1>14. \A h, x, e : TP!Put(h, x, e) = T!Put(h, x, e)
  BY Zenon DEF TP!Put, T!Put
<1>15. \A u, c : TP!ClearIfEmpty(u, c) = T!ClearIfEmpty(u, c)
  BY Zenon DEF TP!ClearIfEmpty, T!ClearIfEmpty
<1>16. \A u, x, n : TP!InsertFree(u, x, n) = T!InsertFree(u, x, n)
  BY <1>1, Zenon DEF TP!InsertFree, T!InsertFree
<1>17. \A l, x : TP!Unlinked(l, x) = T!Unlinked(l, x)
  BY Zenon DEF TP!Unlinked, T!Unlinked
<1>18. \A u, x, n : TP!RemoveFree(u, x, n) = T!RemoveFree(u, x, n)
  BY <1>1, <1>15, <1>17, Zenon DEF TP!RemoveFree, T!RemoveFree
<1>19. \A u, n : TP!FindExact(u, n) = T!FindExact(u, n)
  BY <1>1, <1>6, Zenon DEF TP!FindExact, T!FindExact
<1>20. \A S : TP!Lowest(S) = T!Lowest(S)
  BY Zenon DEF TP!Lowest, T!Lowest
<1>21. \A u, c : TP!SeenFrom(u, c) = T!SeenFrom(u, c)
  BY <1>20, Zenon DEF TP!SeenFrom, T!SeenFrom
<1>22. \A u, n : TP!FindFree(u, n) = T!FindFree(u, n)
  <2> TAKE u, n
  <2>1. TP!SeenFrom(u, TP!Search[n]) = T!SeenFrom(u, T!Search[n])
    BY <1>2, <1>21, Zenon
  <2>2. TP!FindExact(u, n) = T!FindExact(u, n)
    BY <1>19
  <2> DEFINE First(S) == CHOOSE c \in S : TRUE
  <2>3. TP!FindFree(u, n) =
          IF TP!Search[n][1] >= TP!FlCount \/ TP!SeenFrom(u, TP!Search[n]) = {}
          THEN TP!FindExact(u, n) ELSE Head(u.heads[First(TP!SeenFrom(u, TP!Search[n]))])
    BY Zenon DEF TP!FindFree
  <2>4. T!FindFree(u, n) =
          IF T!Search[n][1] >= T!FlCount \/ T!SeenFrom(u, T!Search[n]) = {}
          THEN T!FindExact(u, n) ELSE Head(u.heads[First(T!SeenFrom(u, T!Search[n]))])
    BY Zenon DEF T!FindFree
  <2> HIDE DEF First
  <2> QED BY <1>2, <1>4, <2>1, <2>2, <2>3, <2>4, Zenon
<1>23. \A n : TP!Adjusted(n) = T!Adjusted(n)
  BY Zenon DEF TP!Adjusted, T!Adjusted
<1>24. \A u, n : TP!Fit(u, n) = T!Fit(u, n)
  BY <1>6, <1>22, <1>23, Zenon DEF TP!Fit, T!Fit
<1>25. \A u, x, m, n : TP!SplitRest(u, x, m, n) = T!SplitRest(u, x, m, n)
  BY <1>7, <1>8, <1>11, <1>14, <1>16, Zenon DEF TP!SplitRest, T!SplitRest
<1>26. \A u, x, n : TP!Claim(u, x, n) = T!Claim(u, x, n)
  BY <1>7, <1>14, Zenon DEF TP!Claim, T!Claim
<1>27. \A u, x, m, n : TP!TakeFrom(u, x, m, n) = T!TakeFrom(u, x, m, n)
  BY <1>5, <1>18, <1>25, <1>26, Zenon DEF TP!TakeFrom, T!TakeFrom
<1>28. \A u, x, n : TP!TakeAt(u, x, n) = T!TakeAt(u, x, n)
  BY <1>27, Zenon DEF TP!TakeAt, T!TakeAt
<1>29. \A u, n : TP!Allocate(u, n) = T!Allocate(u, n)
  BY <1>23, <1>24, <1>28, Zenon DEF TP!Allocate, T!Allocate
<1>30. \A u, x : TP!Absorbed(u, x) = T!Absorbed(u, x)
  BY <1>10, <1>12, <1>18, Zenon DEF TP!Absorbed, T!Absorbed
<1>31. \A u, x : TP!Deallocate(u, x) = T!Deallocate(u, x)
  <2> TAKE u, x
  <2> DEFINE bs   == u.hdr[x].size
             w    == [u EXCEPT !.marks = @ \ {x}, !.allocated = @ - bs]
             next == T!Absorbed(w, T!NextTo(x, bs))
             prev == T!Absorbed(next.t, T!BlockPrev(u, x))
             y    == IF prev.size > 0 THEN T!BlockPrev(u, x) ELSE x
             size == bs + next.size + prev.size
             hdr  == T!Put(T!Drop(prev.t.hdr, x), y, T!Hdr(size, FALSE, u.hdr[y].prev))
             e    == [prev.t EXCEPT !.hdr = T!SetPrev(hdr, T!NextTo(y, size), y[2])]
  <2>1. T!Deallocate(u, x) = T!InsertFree(e, y, size)
    BY Zenon DEF T!Deallocate
  <2>2. TP!Absorbed(w, TP!NextTo(x, bs)) = next
    BY <1>8, <1>30, Zenon
  <2>3. TP!Absorbed(next.t, TP!BlockPrev(u, x)) = prev
    BY <1>9, <1>30, Zenon
  <2>4. TP!BlockPrev(u, x) = T!BlockPrev(u, x)
    BY <1>9
  <2>5. TP!Put(TP!Drop(prev.t.hdr, x), y, TP!Hdr(size, FALSE, u.hdr[y].prev)) = hdr
    BY <1>7, <1>12, <1>14, Zenon
  <2>6. [prev.t EXCEPT !.hdr = TP!SetPrev(hdr, TP!NextTo(y, size), y[2])] = e
    BY <1>8, <1>11, Zenon
  <2>7. TP!Deallocate(u, x) = TP!InsertFree(e, y, size)
    BY <2>2, <2>3, <2>4, <2>5, <2>6, Zenon DEF TP!Deallocate
  <2> HIDE DEF e, y, size
  <2> QED BY <1>16, <2>1, <2>7, Zenon
<1>32. \A u, x, n : TP!CanShrink(u, x, n) = T!CanShrink(u, x, n)
  BY <1>23, Zenon DEF TP!CanShrink, T!CanShrink
<1>33. \A u, x, m, n : TP!MoveEnd(u, x, m, n) = T!MoveEnd(u, x, m, n)
  <2> TAKE u, x, m, n
  <2> DEFINE w == [u EXCEPT !.hdr = T!Resized(@, x, n), !.allocated = @ + (n - u.hdr[x].size)]
             v == [w EXCEPT !.hdr = T!SetPrev(@, T!NextTo(x, m), x[2])]
  <2>1. T!MoveEnd(u, x, m, n) = IF n = m THEN v ELSE T!SplitRest(w, x, m, n)
    BY Zenon DEF T!MoveEnd
  <2>2. [u EXCEPT !.hdr = TP!Resized(@, x, n), !.allocated = @ + (n - u.hdr[x].size)] = w
    BY <1>13, Zenon
  <2>3. [w EXCEPT !.hdr = TP!SetPrev(@, TP!NextTo(x, m), x[2])] = v
    BY <1>8, <1>11, Zenon
  <2>4. TP!MoveEnd(u, x, m, n) = IF n = m THEN v ELSE TP!SplitRest(w, x, m, n)
    BY <2>2, <2>3, Zenon DEF TP!MoveEnd
  <2> QED BY <1>25, <2>1, <2>4, Zenon
<1>34. \A u, x, n : TP!Shrink(u, x, n) = T!Shrink(u, x, n)
  BY <1>5, <1>8, <1>23, <1>30, <1>33, Zenon DEF TP!Shrink, T!Shrink
<1>35. \A u, x, n : TP!CanGrow(u, x, n) = T!CanGrow(u, x, n)
  BY <1>8, <1>10, <1>23, Zenon DEF TP!CanGrow, T!CanGrow
<1>36. \A u, x, n : TP!Grow(u, x, n) = T!Grow(u, x, n)
  <2> TAKE u, x, n
  <2>1. TP!Absorbed(u, TP!NextTo(x, u.hdr[x].size)) = T!Absorbed(u, T!NextTo(x, u.hdr[x].size))
    BY <1>8, <1>30, Zenon
  <2>2. TP!Adjusted(n) = T!Adjusted(n)
    BY <1>23
  <2> QED BY <1>5, <1>33, <2>1, <2>2, Zenon DEF TP!Grow, T!Grow
<1>37. \A u, s : TP!SheetEmpty(u, s) = T!SheetEmpty(u, s)
  BY <1>10, Zenon DEF TP!SheetEmpty, T!SheetEmpty
<1>38. \A u, s : TP!AddSheet(u, s) = T!AddSheet(u, s)
  BY <1>7, <1>14, <1>16, Zenon DEF TP!AddSheet, T!AddSheet
<1>39. \A u, s : TP!RemoveSheet(u, s) = T!RemoveSheet(u, s)
  BY <1>12, <1>18, Zenon DEF TP!RemoveSheet, T!RemoveSheet
<1>40. \A u : TP!SheetsOf(u) = T!SheetsOf(u)
  BY Zenon DEF TP!SheetsOf, T!SheetsOf
<1>41. \A u : TP!UsedBlocks(u) = T!UsedBlocks(u)
  BY Zenon DEF TP!UsedBlocks, T!UsedBlocks
<1>42. \A u : TP!FreeBlocks(u) = T!FreeBlocks(u)
  BY Zenon DEF TP!FreeBlocks, T!FreeBlocks
<1>43. \A u, x : TP!Owns(u, x) = T!Owns(u, x)
  BY <1>5, Zenon DEF TP!Owns, T!Owns
<1>44. \A u : TP!PhysicallyLinked(u) = T!PhysicallyLinked(u)
  BY <1>5, <1>8, <1>9, Zenon DEF TP!PhysicallyLinked, T!PhysicallyLinked
<1>45. \A u : TP!FreeBlocksApart(u) = T!FreeBlocksApart(u)
  BY <1>8, <1>10, <1>42, Zenon DEF TP!FreeBlocksApart, T!FreeBlocksApart
<1>46. \A u : TP!ListsHoldFreeBlocks(u) = T!ListsHoldFreeBlocks(u)
  <2> TAKE u
  <2>1. TP!FreeBlocks(u) = T!FreeBlocks(u)
    BY <1>42
  <2> QED BY <1>1, <1>3, <2>1, SMT DEF TP!ListsHoldFreeBlocks, T!ListsHoldFreeBlocks
<1>47. TP!EmptyTlsf = T!EmptyTlsf
  BY <1>3, Zenon DEF TP!EmptyTlsf, T!EmptyTlsf
<1>48. TP!Places = T!Places
  BY Zenon DEF TP!Places, T!Places
<1> QED BY <1>6, <1>24, <1>29, <1>31, <1>32, <1>34, <1>35, <1>36, <1>37, <1>38, <1>39, <1>40, <1>41,
            <1>43, <1>44, <1>45, <1>46, <1>47, <1>48, Zenon

(* The sizes are those the lemmas about the tier ask for. *)
LEMMA TierSizes ==
  /\ TP!MappingAssumption /\ TP!MaxSheetsAssumption
  /\ IsFiniteSet(Units) /\ TP!IsFiniteSet(Units)
  /\ \A S : TP!Cardinality(S) = Cardinality(S)
<1>1. IsFiniteSet(Units)
  BY FS_Interval, TotalAssumption DEF Units
<1>2. TP!IsFiniteSet(Units)
  BY <1>1, Zenon DEF IsFiniteSet, TP!IsFiniteSet
<1>3. \A S : TP!Cardinality(S) = Cardinality(S)
  BY Zenon DEF Cardinality, TP!Cardinality, IsFiniteSet, TP!IsFiniteSet
<1> QED BY <1>1, <1>2, <1>3, TierAssumption DEF TP!MappingAssumption, TP!MaxSheetsAssumption

TierWell(t) == TP!Whole(t) /\ TP!Exact(t) /\ TP!Table(t.hdr)

(* But for x, the blocks in use and the sheets are what they were. *)
TierKeeps(t, w, x) ==
  /\ T!SheetsOf(w) = T!SheetsOf(t) /\ w.count = t.count
  /\ T!UsedBlocks(w) \ {x} = T!UsedBlocks(t) \ {x}
  /\ \A y \in T!UsedBlocks(t) \ {x} : w.hdr[y].size = t.hdr[y].size

LEMMA TierNames ==
  /\ \A t : TP!UsedIn(t.hdr) = T!UsedBlocks(t)
  /\ \A t, w, x : TP!Keeps(t, w, x) <=> TierKeeps(t, w, x)
<1>1. \A t : TP!UsedIn(t.hdr) = T!UsedBlocks(t)
  BY DEF TP!UsedIn, T!UsedBlocks
<1> QED BY <1>1, SameTier DEF TP!Keeps, TierKeeps

LEMMA TierTyped ==
  ASSUME NEW t, TierWell(t)
  PROVE  /\ T!UsedBlocks(t) \subseteq DOMAIN t.hdr /\ DOMAIN t.hdr \subseteq Places
         /\ \A x \in T!UsedBlocks(t) : x[1] \in T!SheetsOf(t) /\ t.hdr[x].size \in Nat
         /\ t.marks = T!UsedBlocks(t) /\ t.count \in 0 .. MaxSheets
<1>1. TP!Linked(t.hdr) /\ t.marks = TP!UsedIn(t.hdr) /\ t.count \in 0 .. MaxSheets
  BY DEF TierWell, TP!Whole
<1>2. T!UsedBlocks(t) \subseteq DOMAIN t.hdr
  BY DEF T!UsedBlocks
<1>3. \A x \in DOMAIN t.hdr : x \in TP!Places /\ t.hdr[x].size \in Nat /\ x[1] \in T!SheetsOf(t)
  <2>1. TP!MinUnits \in Nat
    BY TP!Units16, TierSizes
  <2>2. \A x \in DOMAIN t.hdr : x \in TP!Places /\ t.hdr[x] \in TP!Headers
    BY <1>1 DEF TP!Linked
  <2> QED BY <2>1, <2>2, TierAssumption DEF TP!Headers, T!SheetsOf
<1> QED BY <1>1, <1>2, <1>3, TierNames DEF TP!Places, Places

LEMMA TierAllocate ==
  ASSUME NEW t, TierWell(t), NEW n \in Nat, T!Fit(t, n) # T!NullOff
  PROVE  LET x == T!Fit(t, n)
             w == T!Allocate(t, n)
         IN  /\ TierWell(w) /\ TierKeeps(t, w, x) /\ x[1] \in T!SheetsOf(t)
             /\ x \notin T!UsedBlocks(t) /\ x \in T!UsedBlocks(w)
<1> DEFINE x == T!Fit(t, n)
           w == T!Allocate(t, n)
<1>1. x = TP!Fit(t, n) /\ w = TP!Allocate(t, n) /\ TP!Fit(t, n) # TP!NullOff
  BY SameTier
<1>2. TP!Whole(t) /\ TP!Exact(t) /\ TP!IsState(t) /\ TP!Table(t.hdr)
  BY DEF TierWell, TP!Whole
<1>3. /\ x \in TP!FreeIn(t.hdr) /\ TP!Whole(w) /\ TP!Keeps(t, w, x)
      /\ \E size \in n + 1 .. n + 2 : TP!Uses(w, x, size)
  BY <1>1, <1>2, TP!AllocateWhole, TierSizes
<1>4. TP!Exact(w)
  BY <1>1, <1>2, TP!AllocateExact, TierSizes
<1>7. TP!Table(w.hdr)
  BY <1>1, <1>2, TP!AllocateTable, TierSizes
<1>5. x \in TP!UsedIn(w.hdr)
  BY <1>3 DEF TP!Uses
<1>6. x[1] \in T!SheetsOf(t) /\ x \notin T!UsedBlocks(t)
  BY <1>3 DEF TP!FreeIn, T!SheetsOf, T!UsedBlocks
<1> QED BY <1>3, <1>4, <1>5, <1>6, <1>7, TierNames DEF TierWell

LEMMA TierShrink ==
  ASSUME NEW t, TierWell(t), NEW x \in T!UsedBlocks(t), NEW n \in Nat, T!CanShrink(t, x, n)
  PROVE  LET w == T!Shrink(t, x, n)
         IN  TierWell(w) /\ TierKeeps(t, w, x) /\ x \in T!UsedBlocks(w)
<1> DEFINE w == T!Shrink(t, x, n)
<1>1. w = TP!Shrink(t, x, n) /\ TP!CanShrink(t, x, n) /\ x \in TP!UsedIn(t.hdr)
  BY SameTier, TierNames
<1>2. TP!Whole(t) /\ TP!Exact(t) /\ TP!IsState(t) /\ TP!Table(t.hdr)
  BY DEF TierWell, TP!Whole
<1>3. /\ TP!Whole(w) /\ TP!Keeps(t, w, x)
      /\ w = t \/ (TP!Uses(w, x, n + 1) /\ n >= 1 /\ n + 3 <= t.hdr[x].size)
  BY <1>1, <1>2, TP!ShrinkWhole, TierSizes
<1>4. TP!Exact(w)
  BY <1>1, <1>2, TP!ShrinkExact, TierSizes
<1>6. TP!Table(w.hdr)
  BY <1>1, <1>2, TP!ResizeTable, TierSizes
<1>5. x \in TP!UsedIn(w.hdr)
  BY <1>1, <1>3 DEF TP!Uses
<1> QED BY <1>3, <1>4, <1>5, <1>6, TierNames DEF TierWell

LEMMA TierGrow ==
  ASSUME NEW t, TierWell(t), NEW x \in T!UsedBlocks(t), NEW n \in Nat, T!CanGrow(t, x, n)
  PROVE  LET w == T!Grow(t, x, n)
         IN  TierWell(w) /\ TierKeeps(t, w, x) /\ x \in T!UsedBlocks(w)
<1> DEFINE w == T!Grow(t, x, n)
<1>1. w = TP!Grow(t, x, n) /\ TP!CanGrow(t, x, n) /\ x \in TP!UsedIn(t.hdr)
  BY SameTier, TierNames
<1>2. TP!Whole(t) /\ TP!Exact(t) /\ TP!IsState(t) /\ TP!Table(t.hdr)
  BY DEF TierWell, TP!Whole
<1>3. /\ TP!Whole(w) /\ TP!Keeps(t, w, x)
      /\ w = t \/ (/\ n >= 1 /\ t.hdr[x].size < n + 1
                   /\ \E size \in n + 1 .. n + 2 : TP!Uses(w, x, size))
  BY <1>1, <1>2, TP!GrowWhole, TierSizes
<1>4. TP!Exact(w)
  BY <1>1, <1>2, TP!GrowExact, TierSizes
<1>6. TP!Table(w.hdr)
  BY <1>1, <1>2, TP!ResizeTable, TierSizes
<1>5. x \in TP!UsedIn(w.hdr)
  BY <1>1, <1>3 DEF TP!Uses
<1> QED BY <1>3, <1>4, <1>5, <1>6, TierNames DEF TierWell

LEMMA TierDeallocate ==
  ASSUME NEW t, TierWell(t), NEW x \in T!UsedBlocks(t)
  PROVE  LET w == T!Deallocate(t, x)
         IN  TierWell(w) /\ TierKeeps(t, w, x) /\ x \notin T!UsedBlocks(w)
<1> DEFINE w == T!Deallocate(t, x)
<1>1. w = TP!Deallocate(t, x) /\ x \in TP!UsedIn(t.hdr)
  BY SameTier, TierNames
<1>2. TP!Whole(t) /\ TP!Exact(t) /\ TP!IsState(t) /\ TP!Table(t.hdr)
  BY DEF TierWell, TP!Whole
<1>3. TP!Whole(w) /\ TP!Keeps(t, w, x) /\ x \notin TP!UsedIn(w.hdr)
  BY <1>1, <1>2, TP!DeallocateWhole, TierSizes
<1>4. TP!Exact(w)
  BY <1>1, <1>2, TP!DeallocateExact, TierSizes
<1>5. TP!Table(w.hdr)
  BY <1>1, <1>2, TP!DeallocateTable, TierSizes
<1> QED BY <1>3, <1>4, <1>5, TierNames DEF TierWell

(* No block comes or goes with a sheet. *)
TierSame(t, w) ==
  /\ T!UsedBlocks(w) = T!UsedBlocks(t)
  /\ \A y \in T!UsedBlocks(t) : w.hdr[y].size = t.hdr[y].size

LEMMA TierSheet ==
  ASSUME NEW t, TierWell(t), NEW s
  PROVE  /\ s \in Units /\ s \notin T!SheetsOf(t) /\ t.count < MaxSheets =>
              LET w == T!AddSheet(t, s)
              IN  /\ TierWell(w) /\ TierSame(t, w)
                  /\ T!SheetsOf(w) = T!SheetsOf(t) \union {s} /\ w.count = t.count + 1
         /\ s \in T!SheetsOf(t) /\ T!SheetEmpty(t, s) /\ t.count > 0 =>
              LET w == T!RemoveSheet(t, s)
              IN  /\ TierWell(w) /\ TierSame(t, w)
                  /\ T!SheetsOf(w) = T!SheetsOf(t) \ {s} /\ w.count = t.count - 1
<1>1. TP!Whole(t) /\ TP!Exact(t) /\ TP!IsState(t)
  BY DEF TierWell, TP!Whole
<1>2. TP!SheetsOf(t) = T!SheetsOf(t) /\ TP!SheetEmpty(t, s) = T!SheetEmpty(t, s)
  BY SameTier
<1>3. ASSUME NEW w, TP!Whole(w), TP!SameUse(t, w), w.allocated = t.allocated, TP!Table(w.hdr)
      PROVE  TierWell(w) /\ TierSame(t, w) /\ TP!SheetsOf(w) = T!SheetsOf(w)
  <2>1. TP!Exact(w)
    BY <1>1, <1>3, TP!SameUseExact, TierSizes
  <2> QED BY <1>3, <2>1, SameTier, TierNames DEF TierWell, TierSame, TP!SameUse
<1>4. TP!AddSheet(t, s).allocated = t.allocated /\ TP!RemoveSheet(t, s).allocated = t.allocated
  BY <1>1, TP!SheetCounter, TierSizes
<1>7. TP!Table(TP!AddSheet(t, s).hdr) /\ TP!Table(TP!RemoveSheet(t, s).hdr)
  BY <1>1, TP!SheetTable, TierSizes
<1>5. ASSUME s \in Units, s \notin T!SheetsOf(t), t.count < MaxSheets
      PROVE  LET w == T!AddSheet(t, s)
             IN  /\ TierWell(w) /\ TierSame(t, w)
                 /\ T!SheetsOf(w) = T!SheetsOf(t) \union {s} /\ w.count = t.count + 1
  <2> DEFINE w == TP!AddSheet(t, s)
  <2>1. w = T!AddSheet(t, s)
    BY SameTier
  <2>2. /\ TP!Whole(w) /\ TP!SameUse(t, w)
        /\ TP!SheetsOf(w) = T!SheetsOf(t) \union {s} /\ w.count = t.count + 1
    BY <1>1, <1>2, <1>5, TP!AddSheetWhole, TierSizes
  <2> QED BY <1>3, <1>4, <1>7, <2>1, <2>2
<1>6. ASSUME s \in T!SheetsOf(t), T!SheetEmpty(t, s), t.count > 0
      PROVE  LET w == T!RemoveSheet(t, s)
             IN  /\ TierWell(w) /\ TierSame(t, w)
                 /\ T!SheetsOf(w) = T!SheetsOf(t) \ {s} /\ w.count = t.count - 1
  <2> DEFINE w == TP!RemoveSheet(t, s)
  <2>1. w = T!RemoveSheet(t, s)
    BY SameTier
  <2>2. /\ TP!Whole(w) /\ TP!SameUse(t, w)
        /\ TP!SheetsOf(w) = T!SheetsOf(t) \ {s} /\ w.count = t.count - 1
    BY <1>1, <1>2, <1>6, TP!RemoveSheetWhole, TierSizes
  <2> QED BY <1>3, <1>4, <1>7, <2>1, <2>2
<1> QED BY <1>5, <1>6

LEMMA TierEmptySheet ==
  ASSUME NEW t, TierWell(t), NEW s \in T!SheetsOf(t)
  PROVE  /\ T!SheetEmpty(t, s) <=> \A y \in T!UsedBlocks(t) : y[1] # s
         /\ T!SheetEmpty(t, s) => \A n \in 1 .. SmallUnits : T!Fit(t, n) # T!NullOff
<1>1. TP!Whole(t) /\ s \in TP!SheetsOf(t) /\ TP!SheetEmpty(t, s) = T!SheetEmpty(t, s)
  BY SameTier DEF TierWell
<1>2. TP!SheetEmpty(t, s) <=> \A y \in TP!UsedIn(t.hdr) : y[1] # s
  BY <1>1, TP!EmptySheet, TierSizes
<1>3. TP!SheetEmpty(t, s) => \A n \in 1 .. SmallUnits : TP!Fit(t, n) # TP!NullOff
  BY <1>1, TP!EmptyServes, TierSizes
<1> QED BY <1>1, <1>2, <1>3, SameTier, TierNames

LEMMA TierOwns ==
  ASSUME NEW t, TierWell(t), NEW x
  PROVE  T!Owns(t, x) <=> x \in T!UsedBlocks(t)
<1>1. TP!Whole(t)
  BY DEF TierWell
<1>2. TP!Owns(t, x) <=> x \in TP!UsedIn(t.hdr)
  BY <1>1, TP!OwnedInUse, TierSizes
<1> QED BY <1>2, SameTier, TierNames

LEMMA TierShape ==
  ASSUME NEW t, TierWell(t)
  PROVE  T!PhysicallyLinked(t) /\ T!FreeBlocksApart(t) /\ T!ListsHoldFreeBlocks(t)
<1>1. TP!Whole(t)
  BY DEF TierWell
<1>2. TP!PhysicallyLinked(t) /\ TP!FreeBlocksApart(t) /\ TP!ListsHoldFreeBlocks(t)
  BY <1>1, TP!WholeChained, TP!WholeApart, TP!WholeListed, TierSizes
<1> QED BY <1>2, SameTier

LEMMA TierFresh ==
  /\ TierWell(T!EmptyTlsf) /\ T!SheetsOf(T!EmptyTlsf) = {} /\ T!UsedBlocks(T!EmptyTlsf) = {}
  /\ T!EmptyTlsf.count = 0
<1>1. TP!Whole(TP!EmptyTlsf) /\ TP!Exact(TP!EmptyTlsf)
  BY TP!EmptyWhole, TP!EmptyExact, TierSizes
<1>2. T!EmptyTlsf.hdr = <<>> /\ T!EmptyTlsf.count = 0
  BY DEF T!EmptyTlsf
<1>3. TP!Table(<<>>)
  BY DEF TP!Table
<1> QED BY <1>1, <1>2, <1>3, SameTier DEF TierWell, T!SheetsOf, T!UsedBlocks

LEMMA TierNewSheet ==
  ASSUME NEW t, TierWell(t), NEW s \in Units, s \notin T!SheetsOf(t), t.count < MaxSheets,
         NEW n \in 1 .. SmallUnits, T!Fit(t, n) = T!NullOff
  PROVE  T!Fit(T!AddSheet(t, s), n) = <<s, 0>>
<1>1. TP!Whole(t) /\ s \notin TP!SheetsOf(t) /\ TP!Fit(t, n) = TP!NullOff
  BY SameTier DEF TierWell
<1>2. TP!Fit(TP!AddSheet(t, s), n) = <<s, 0>>
  BY <1>1, TP!NewSheetServes, TierSizes
<1> QED BY <1>2, SameTier

(***************************************************************************)
(* The two together.  Core is what every step of an operation keeps; that  *)
(* only the spare is empty holds between the operations.                   *)
(***************************************************************************)
Core(q) ==
  /\ q = [pool |-> q.pool, tlsf |-> q.tlsf, spare |-> q.spare]
  /\ q.spare \in Units \union {Null}
  /\ PoolWell(q.pool) /\ TierWell(q.tlsf) /\ SheetsMatch(q)

Sound(q) == Core(q) /\ OnlySpareEmpty(q)

(* Every block but the one at the place at is in use in both, or in none. *)
Kept(q, d, at) ==
  /\ \A u \in Units : <<u, Null>> # at /\ (u \in LargeIn(q) \/ u \in LargeIn(d)) =>
       u \in LargeIn(q) /\ u \in LargeIn(d) /\ d.pool.tags[u] = q.pool.tags[u]
  /\ \A x : x # at /\ (x \in SmallIn(q) \/ x \in SmallIn(d)) =>
       x \in SmallIn(q) /\ x \in SmallIn(d) /\ d.tlsf.hdr[x].size = q.tlsf.hdr[x].size

(* The same blocks, whatever becomes of the sheets. *)
SameBlocks(q, d) ==
  /\ LargeIn(d) = LargeIn(q) /\ SmallIn(d) = SmallIn(q)
  /\ \A u \in LargeIn(q) : d.pool.tags[u] = q.pool.tags[u]
  /\ \A x \in SmallIn(q) : d.tlsf.hdr[x].size = q.tlsf.hdr[x].size

LEMMA SameKept ==
  ASSUME NEW q, NEW d, SameBlocks(q, d), NEW e, NEW at
  PROVE  Kept(q, d, at) /\ (Kept(d, e, at) => Kept(q, e, at))
BY DEF SameBlocks, Kept

LEMMA NullOutside == Null \notin Units /\ Null = -1
BY DEF Null, Units

LEMMA CoreFacts ==
  ASSUME NEW q, Core(q)
  PROVE  /\ EmptySheets(q) = {s \in SheetsIn(q) : \A y \in SmallIn(q) : y[1] # s}
         /\ SheetsIn(q) = T!SheetsOf(q.tlsf) /\ SheetsIn(q) \subseteq Units /\ Null \notin SheetsIn(q)
         /\ \A x \in SmallIn(q) : x \in Places /\ x[1] \in SheetsIn(q)
         /\ SheetsIn(q) \cap LargeIn(q) = {}
         /\ \A u \in Units : InUse(q.pool, u) <=> u \in SheetsIn(q) \/ u \in LargeIn(q)
         /\ IsFiniteSet(SheetsIn(q)) /\ q.tlsf.count = Cardinality(SheetsIn(q))
         /\ q.tlsf.count \in Nat /\ q.pool \in PoolShapes
<1>1. TierWell(q.tlsf) /\ SheetsMatch(q) /\ q.pool \in PoolShapes
  BY DEF Core, PoolWell, WellFormed
<1>2. /\ SheetsIn(q) = T!SheetsOf(q.tlsf) /\ q.tlsf.count = Cardinality(SheetsIn(q))
      /\ SheetsIn(q) \subseteq Units
  BY <1>1 DEF SheetsMatch, SheetsIn
<1>3. EmptySheets(q) = {s \in SheetsIn(q) : \A y \in SmallIn(q) : y[1] # s}
  BY <1>1, <1>2, TierEmptySheet DEF EmptySheets, SmallIn
<1>4. /\ \A x \in SmallIn(q) : x \in Places /\ x[1] \in SheetsIn(q)
      /\ q.tlsf.count \in 0 .. MaxSheets
  BY <1>1, <1>2, TierTyped DEF SmallIn
<1>5. IsFiniteSet(SheetsIn(q))
  BY <1>2, TierSizes, FS_Subset
<1>6. \A u \in Units : InUse(q.pool, u) <=> u \in SheetsIn(q) \/ u \in LargeIn(q)
  BY DEF InUse, SheetsIn, LargeIn
<1>7. SheetsIn(q) \cap LargeIn(q) = {}
  BY DEF SheetsIn, LargeIn
<1> QED BY <1>1, <1>2, <1>3, <1>4, <1>5, <1>6, <1>7, NullOutside, TierAssumption

LEMMA FreshSound ==
  /\ Sound(FreshRegion)
  /\ SheetsIn(FreshRegion) = {} /\ LargeIn(FreshRegion) = {} /\ SmallIn(FreshRegion) = {}
<1> DEFINE q == FreshRegion
<1>1. q.pool = Fresh /\ q.tlsf = T!EmptyTlsf /\ q.spare = Null
      /\ q = [pool |-> q.pool, tlsf |-> q.tlsf, spare |-> q.spare]
  BY DEF FreshRegion
<1>2. PoolWell(Fresh) /\ \A u \in Units : ~ InUse(Fresh, u)
  BY FreshPoolWell
<1>3. /\ TierWell(T!EmptyTlsf) /\ T!SheetsOf(T!EmptyTlsf) = {} /\ T!UsedBlocks(T!EmptyTlsf) = {}
      /\ T!EmptyTlsf.count = 0
  BY TierFresh
<1> HIDE DEF q
<1>4. SheetsIn(q) = {} /\ LargeIn(q) = {} /\ SmallIn(q) = {}
  BY <1>1, <1>2, <1>3 DEF InUse, SheetsIn, LargeIn, SmallIn
<1>5. SheetsMatch(q)
  BY <1>1, <1>3, <1>4, FS_EmptySet, TierAssumption DEF SheetsMatch
<1>6. OnlySpareEmpty(q)
  BY <1>1, <1>4 DEF OnlySpareEmpty, EmptySheets
<1> QED BY <1>1, <1>2, <1>3, <1>4, <1>5, <1>6 DEF Sound, Core, q

(* A step of the small tier that neither adds nor removes a sheet. *)
LEMMA TierStep ==
  ASSUME NEW q, Core(q), NEW w, TierWell(w), NEW x, TierKeeps(q.tlsf, w, x),
         x[1] \in SheetsIn(q)
  PROVE  LET d == [q EXCEPT !.tlsf = w]
         IN  /\ Core(d) /\ Kept(q, d, x) /\ SheetsIn(d) = SheetsIn(q) /\ LargeIn(d) = LargeIn(q)
             /\ d.pool = q.pool /\ d.tlsf = w /\ d.spare = q.spare
             /\ EmptySheets(d) \subseteq EmptySheets(q) \union {x[1]}
             /\ x \in T!UsedBlocks(w) => EmptySheets(d) \subseteq EmptySheets(q) \ {x[1]}
<1> DEFINE d == [q EXCEPT !.tlsf = w]
<1>1. /\ q = [pool |-> q.pool, tlsf |-> q.tlsf, spare |-> q.spare]
      /\ q.spare \in Units \union {Null}
      /\ PoolWell(q.pool) /\ SheetsMatch(q)
  BY DEF Core
<1>2. /\ d.pool = q.pool /\ d.tlsf = w /\ d.spare = q.spare
      /\ d = [pool |-> d.pool, tlsf |-> d.tlsf, spare |-> d.spare]
  BY <1>1
<1> HIDE DEF d
<1>3. SheetsIn(d) = SheetsIn(q) /\ LargeIn(d) = LargeIn(q) /\ SmallIn(d) = T!UsedBlocks(w)
  BY <1>2 DEF SheetsIn, LargeIn, SmallIn
<1>4. SheetsMatch(d)
  BY <1>1, <1>2, <1>3 DEF SheetsMatch, TierKeeps
<1>5. Core(d)
  BY <1>1, <1>2, <1>4 DEF Core
<1>6. SmallIn(d) \ {x} = SmallIn(q) \ {x}
  BY <1>3 DEF TierKeeps, SmallIn
<1>7. Kept(q, d, x)
  <2>1. \A y \in SmallIn(q) \ {x} : d.tlsf.hdr[y].size = q.tlsf.hdr[y].size
    BY <1>2 DEF TierKeeps, SmallIn
  <2> QED BY <1>2, <1>3, <1>6, <2>1 DEF Kept
<1>8. /\ EmptySheets(q) = {s \in SheetsIn(q) : \A y \in SmallIn(q) : y[1] # s}
      /\ EmptySheets(d) = {s \in SheetsIn(d) : \A y \in SmallIn(d) : y[1] # s}
  BY <1>5, CoreFacts
<1>9. EmptySheets(d) \subseteq EmptySheets(q) \union {x[1]}
  BY <1>3, <1>6, <1>8
<1>10. x \in T!UsedBlocks(w) => EmptySheets(d) \subseteq EmptySheets(q) \ {x[1]}
  BY <1>3, <1>6, <1>8
<1> QED BY <1>2, <1>3, <1>5, <1>7, <1>9, <1>10 DEF d

(* release_sheet, of an empty sheet *)
LEMMA ReleaseEmpty ==
  ASSUME NEW q, Core(q), NEW s \in EmptySheets(q)
  PROVE  LET d == ReleaseSheet(q, s)
         IN  /\ Core(d) /\ SameBlocks(q, d)
             /\ SheetsIn(d) = SheetsIn(q) \ {s} /\ EmptySheets(d) = EmptySheets(q) \ {s}
             /\ d.spare = IF q.spare = s THEN Null ELSE q.spare
<1> DEFINE p1 == UnmarkSheet(q.pool, s)
           p2 == DeallocateOrder(p1, s, SheetOrder)
           w  == T!RemoveSheet(q.tlsf, s)
           d  == ReleaseSheet(q, s)
<1>1. /\ q = [pool |-> q.pool, tlsf |-> q.tlsf, spare |-> q.spare]
      /\ q.spare \in Units \union {Null}
      /\ PoolWell(q.pool) /\ TierWell(q.tlsf) /\ SheetsMatch(q)
  BY DEF Core
<1>2. /\ EmptySheets(q) = {e \in SheetsIn(q) : \A y \in SmallIn(q) : y[1] # e}
      /\ SheetsIn(q) = T!SheetsOf(q.tlsf) /\ SheetsIn(q) \subseteq Units /\ Null \notin SheetsIn(q)
      /\ IsFiniteSet(SheetsIn(q)) /\ q.tlsf.count = Cardinality(SheetsIn(q)) /\ q.tlsf.count \in Nat
      /\ q.pool \in PoolShapes
  BY CoreFacts
<1>3. s \in SheetsIn(q) /\ s \in Units /\ s # Null /\ T!SheetEmpty(q.tlsf, s) /\ IsSheetAt(q, s)
  BY <1>2 DEF EmptySheets, SheetsIn, IsSheetAt
<1>4. /\ q.tlsf.count > 0 /\ IsFiniteSet(SheetsIn(q) \ {s})
      /\ Cardinality(SheetsIn(q) \ {s}) = q.tlsf.count - 1
  <2>1. Cardinality(SheetsIn(q)) # 0
    BY <1>2, <1>3, FS_EmptySet
  <2>2. IsFiniteSet(SheetsIn(q) \ {s}) /\ Cardinality(SheetsIn(q) \ {s}) = Cardinality(SheetsIn(q)) - 1
    BY <1>2, <1>3, FS_RemoveElement
  <2> QED BY <1>2, <2>1, <2>2
<1>5. /\ d.pool = p2 /\ d.tlsf = w /\ d.spare = (IF q.spare = s THEN Null ELSE q.spare)
      /\ d = [pool |-> d.pool, tlsf |-> d.tlsf, spare |-> d.spare]
  BY <1>3, <1>4 DEF ReleaseSheet
<1>6. /\ TierWell(w) /\ TierSame(q.tlsf, w)
      /\ T!SheetsOf(w) = SheetsIn(q) \ {s} /\ w.count = q.tlsf.count - 1
  BY <1>1, <1>2, <1>3, <1>4, TierSheet
<1> HIDE DEF d, w
<1>7. SheetOrder \in Orders /\ q.pool.tags[s] = Sheet(SheetOrder)
  <2>1. q.pool.tags[s].kind = "sheet" /\ q.pool.tags[s].order = SheetOrder
    BY <1>1, <1>3 DEF SheetsMatch, IsSheetAt
  <2>2. q.pool.tags[s] = Sheet(q.pool.tags[s].order)
    BY <1>2, <1>3, <2>1 DEF PoolShapes, Tags, Sheet
  <2> QED BY <2>1, <2>2, RegionAssumption
<1>8. /\ PoolWell(p1) /\ p1.tags[s] = Alloc(SheetOrder)
      /\ \A v \in Units \ {s} : p1.tags[v] = q.pool.tags[v]
  BY <1>1, <1>3, <1>7, MarkPool
<1> HIDE DEF p1
<1>9. PoolWell(p2) /\ ~ InUse(p2, s) /\ KeepsUse(p1, p2, s)
  BY <1>3, <1>7, <1>8, ReleasePool
<1> HIDE DEF p2
<1>10. \A v \in Units \ {s} : InUse(q.pool, v) \/ InUse(p2, v) => p2.tags[v] = q.pool.tags[v]
  BY <1>8, <1>9 DEF KeepsUse, InUse
<1>11. /\ LargeIn(d) = LargeIn(q) /\ SheetsIn(d) = SheetsIn(q) \ {s}
       /\ \A v \in LargeIn(q) \union SheetsIn(d) : d.pool.tags[v] = q.pool.tags[v]
  BY <1>3, <1>5, <1>9, <1>10 DEF LargeIn, SheetsIn, InUse, IsSheetAt
<1>12. SmallIn(d) = SmallIn(q) /\ \A y \in SmallIn(q) : d.tlsf.hdr[y].size = q.tlsf.hdr[y].size
  BY <1>5, <1>6 DEF SmallIn, TierSame
<1>13. SameBlocks(q, d)
  BY <1>11, <1>12 DEF SameBlocks
<1>14. SheetsMatch(d)
  <2>1. \A v \in SheetsIn(d) : d.pool.tags[v].order = SheetOrder
    BY <1>1, <1>11 DEF SheetsMatch
  <2>2. d.tlsf.count <= MaxSheets
    BY <1>1, <1>2, <1>5, <1>6, TierAssumption DEF SheetsMatch
  <2> QED BY <1>4, <1>5, <1>6, <1>11, <2>1, <2>2 DEF SheetsMatch
<1>15. Core(d)
  BY <1>1, <1>5, <1>6, <1>9, <1>14 DEF Core
<1>16. EmptySheets(d) = EmptySheets(q) \ {s}
  <2>1. EmptySheets(d) = {e \in SheetsIn(d) : \A y \in SmallIn(d) : y[1] # e}
    BY <1>15, CoreFacts
  <2> QED BY <1>2, <1>11, <1>12, <2>1
<1> QED BY <1>5, <1>11, <1>13, <1>15, <1>16 DEF d

(* flush_spare *)
LEMMA FlushSound ==
  ASSUME NEW q, Sound(q)
  PROVE  LET d == FlushSpare(q)
         IN  /\ Sound(d) /\ SameBlocks(q, d) /\ d.spare = Null /\ EmptySheets(d) = {}
             /\ SheetsIn(d) = SheetsIn(q) \ EmptySheets(q)
<1> DEFINE p == [q EXCEPT !.spare = Null]
           d == FlushSpare(q)
<1>1. /\ q = [pool |-> q.pool, tlsf |-> q.tlsf, spare |-> q.spare]
      /\ q.spare \in Units \union {Null} /\ Core(q) /\ OnlySpareEmpty(q)
  BY DEF Sound, Core
<1>2. /\ p.pool = q.pool /\ p.tlsf = q.tlsf /\ p.spare = Null
      /\ p = [pool |-> p.pool, tlsf |-> p.tlsf, spare |-> p.spare]
  BY <1>1
<1>3. d = ReleaseSheet(p, q.spare)
  BY DEF FlushSpare
<1> HIDE DEF p, d
<1>4. /\ SheetsIn(p) = SheetsIn(q) /\ LargeIn(p) = LargeIn(q) /\ SmallIn(p) = SmallIn(q)
      /\ EmptySheets(p) = EmptySheets(q)
  BY <1>2 DEF SheetsIn, LargeIn, SmallIn, EmptySheets
<1>5. Core(p)
  BY <1>1, <1>2, <1>4 DEF Core, SheetsMatch
<1>6. SameBlocks(q, p)
  BY <1>2, <1>4 DEF SameBlocks
<1>7. CASE q.spare \in EmptySheets(q)
  <2>1. /\ Core(d) /\ SameBlocks(p, d) /\ SheetsIn(d) = SheetsIn(p) \ {q.spare}
        /\ EmptySheets(d) = EmptySheets(p) \ {q.spare} /\ d.spare = Null
    BY <1>2, <1>3, <1>4, <1>5, <1>7, ReleaseEmpty
  <2>2. EmptySheets(q) = {q.spare}
    BY <1>1, <1>7 DEF OnlySpareEmpty
  <2>3. SameBlocks(q, d)
    BY <1>6, <2>1 DEF SameBlocks
  <2>4. Sound(d)
    BY <1>4, <2>1, <2>2 DEF Sound, OnlySpareEmpty
  <2> QED BY <1>4, <2>1, <2>2, <2>3, <2>4 DEF d
<1>8. CASE q.spare \notin EmptySheets(q)
  <2>1. EmptySheets(q) = {}
    BY <1>1, <1>8 DEF OnlySpareEmpty
  <2>2. d = p
    BY <1>1, <1>2, <1>3, <1>8 DEF ReleaseSheet, OnlySpareEmpty, EmptySheets
  <2>3. Sound(d)
    BY <1>2, <1>4, <1>5, <2>1, <2>2 DEF Sound, OnlySpareEmpty
  <2> QED BY <1>2, <1>4, <1>6, <2>1, <2>2, <2>3 DEF d
<1> QED BY <1>7, <1>8

(* A step of the pool on a block that is not a sheet. *)
LEMMA PoolStep ==
  ASSUME NEW q, Sound(q), NEW c, PoolWell(c), NEW u \in Units, KeepsUse(q.pool, c, u),
         u \notin SheetsIn(q), c.tags[u].kind # "sheet"
  PROVE  LET d == [q EXCEPT !.pool = c]
         IN  Sound(d) /\ Kept(q, d, <<u, Null>>) /\ d.pool = c
<1> DEFINE d == [q EXCEPT !.pool = c]
<1>1. /\ q = [pool |-> q.pool, tlsf |-> q.tlsf, spare |-> q.spare]
      /\ q.spare \in Units \union {Null} /\ Core(q) /\ OnlySpareEmpty(q)
      /\ PoolWell(q.pool) /\ TierWell(q.tlsf) /\ SheetsMatch(q)
  BY DEF Sound, Core
<1>2. /\ d.pool = c /\ d.tlsf = q.tlsf /\ d.spare = q.spare
      /\ d = [pool |-> d.pool, tlsf |-> d.tlsf, spare |-> d.spare]
  BY <1>1
<1> HIDE DEF d
<1>3. /\ SheetsIn(d) = SheetsIn(q) /\ SmallIn(d) = SmallIn(q) /\ EmptySheets(d) = EmptySheets(q)
      /\ \A v \in SheetsIn(q) : d.pool.tags[v] = q.pool.tags[v]
      /\ LargeIn(d) \ {u} = LargeIn(q) \ {u}
      /\ \A v \in LargeIn(q) \ {u} : d.pool.tags[v] = q.pool.tags[v]
  BY <1>2 DEF SheetsIn, SmallIn, EmptySheets, LargeIn, KeepsUse, InUse
<1>4. SheetsMatch(d)
  BY <1>1, <1>2, <1>3 DEF SheetsMatch
<1>5. Sound(d)
  BY <1>1, <1>2, <1>3, <1>4 DEF Sound, Core, OnlySpareEmpty
<1>6. Kept(q, d, <<u, Null>>)
  BY <1>2, <1>3 DEF Kept
<1> QED BY <1>2, <1>5, <1>6 DEF d

(* __buddy_list::allocate for a large block *)
LEMMA LargeGrantSound ==
  ASSUME NEW q, Sound(q), NEW o \in Orders, NEW a \in LargeGrants(q, o)
  PROVE  Sound(a.r) /\ Kept(q, a.r, <<a.x, Null>>)
<1>1. PICK g \in BuddyGrants(q.pool, o) : a = [x |-> g.off, r |-> [q EXCEPT !.pool = g.pool]]
  BY DEF LargeGrants
<1>2. Core(q) /\ PoolWell(q.pool)
  BY DEF Sound, Core
<1>3. /\ PoolWell(g.pool) /\ g.off \in Units /\ g.pool.tags[g.off] = Alloc(o)
      /\ ~ InUse(q.pool, g.off) /\ KeepsUse(q.pool, g.pool, g.off)
  BY <1>2, GrantPool
<1>4. g.off \notin SheetsIn(q) /\ g.pool.tags[g.off].kind # "sheet"
  BY <1>3, TagKinds DEF SheetsIn, InUse
<1> QED BY <1>1, <1>3, <1>4, PoolStep

(* large_alloc *)
LEMMA LargeAllocSound ==
  ASSUME NEW q, Sound(q), NEW o \in Orders
  PROVE  /\ \A a \in LargeAlloc(q, o) : Sound(a.r) /\ Kept(q, a.r, <<a.x, Null>>)
         /\ Sound(LargeAllocFailed(q, o)) /\ \A at : Kept(q, LargeAllocFailed(q, o), at)
<1> DEFINE d == FlushSpare(q)
<1>1. Sound(d) /\ SameBlocks(q, d)
  BY FlushSound
<1>2. \A at : Kept(q, q, at) /\ Kept(q, d, at)
  BY <1>1, SameKept DEF Kept
<1> HIDE DEF d
<1>3. Sound(LargeAllocFailed(q, o)) /\ \A at : Kept(q, LargeAllocFailed(q, o), at)
  BY <1>1, <1>2 DEF LargeAllocFailed, d
<1>4. ASSUME NEW a \in LargeAlloc(q, o) PROVE Sound(a.r) /\ Kept(q, a.r, <<a.x, Null>>)
  <2>1. CASE a \in LargeGrants(q, o)
    BY <2>1, LargeGrantSound
  <2>2. CASE a \in LargeGrants(d, o)
    <3>1. Sound(a.r) /\ Kept(d, a.r, <<a.x, Null>>)
      BY <1>1, <2>2, LargeGrantSound
    <3> QED BY <1>1, <3>1, SameKept
  <2> QED BY <1>4, <2>1, <2>2 DEF LargeAlloc, LargeAllocSlow, d
<1> QED BY <1>3, <1>4

(* small_alloc_slow, before a block is taken from the new sheet *)
LEMMA AddSheetCore ==
  ASSUME NEW q, Core(q), q.tlsf.count < MaxSheets, NEW g \in BuddyGrants(q.pool, SheetOrder)
  PROVE  LET w == T!AddSheet(q.tlsf, g.off)
             d == [q EXCEPT !.pool = MarkSheet(g.pool, g.off), !.tlsf = w]
         IN  /\ Core(d) /\ SameBlocks(q, d) /\ g.off \in Units
             /\ g.off \notin SheetsIn(q) /\ SheetsIn(d) = SheetsIn(q) \union {g.off}
             /\ EmptySheets(d) = EmptySheets(q) \union {g.off}
             /\ TierWell(w) /\ d.tlsf = w /\ d.spare = q.spare
<1> DEFINE s == g.off
           p == MarkSheet(g.pool, s)
           w == T!AddSheet(q.tlsf, s)
           d == [q EXCEPT !.pool = p, !.tlsf = w]
<1>1. /\ q = [pool |-> q.pool, tlsf |-> q.tlsf, spare |-> q.spare]
      /\ q.spare \in Units \union {Null} /\ Core(q)
      /\ PoolWell(q.pool) /\ TierWell(q.tlsf) /\ SheetsMatch(q) /\ SheetOrder \in Orders
  BY RegionAssumption DEF Core
<1> HIDE DEF p, w
<1>2. /\ d.pool = p /\ d.tlsf = w /\ d.spare = q.spare
      /\ d = [pool |-> d.pool, tlsf |-> d.tlsf, spare |-> d.spare]
  <2> DEFINE e == [q EXCEPT !.pool = p]
  <2>1. e = [pool |-> p, tlsf |-> q.tlsf, spare |-> q.spare]
    BY <1>1
  <2>2. d = [e EXCEPT !.tlsf = w]
    OBVIOUS
  <2> HIDE DEF d, e
  <2>3. d = [pool |-> p, tlsf |-> w, spare |-> q.spare]
    BY <2>1, <2>2
  <2> QED BY <2>3
<1> HIDE DEF d
<1>3. /\ EmptySheets(q) = {e \in SheetsIn(q) : \A y \in SmallIn(q) : y[1] # e}
      /\ SheetsIn(q) = T!SheetsOf(q.tlsf) /\ SheetsIn(q) \subseteq Units
      /\ \A x \in SmallIn(q) : x \in Places /\ x[1] \in SheetsIn(q)
      /\ IsFiniteSet(SheetsIn(q)) /\ q.tlsf.count = Cardinality(SheetsIn(q)) /\ q.tlsf.count \in Nat
  BY <1>1, CoreFacts
<1>4. /\ PoolWell(g.pool) /\ s \in Units /\ g.pool.tags[s] = Alloc(SheetOrder)
      /\ ~ InUse(q.pool, s) /\ KeepsUse(q.pool, g.pool, s)
  BY <1>1, GrantPool
<1>5. /\ PoolWell(p) /\ p.tags[s] = Sheet(SheetOrder)
      /\ \A v \in Units \ {s} : p.tags[v] = g.pool.tags[v]
  BY <1>1, <1>4, MarkPool DEF p
<1>6. s \notin SheetsIn(q) /\ s \notin LargeIn(q)
  BY <1>4 DEF SheetsIn, LargeIn, InUse
<1>7. /\ TierWell(w) /\ TierSame(q.tlsf, w)
      /\ T!SheetsOf(w) = SheetsIn(q) \union {s} /\ w.count = q.tlsf.count + 1
  BY <1>1, <1>3, <1>4, <1>6, TierSheet DEF w
<1>8. \A v \in Units \ {s} : InUse(q.pool, v) \/ InUse(p, v) => p.tags[v] = q.pool.tags[v]
  BY <1>4, <1>5 DEF KeepsUse, InUse
<1>9. p.tags[s].kind = "sheet" /\ p.tags[s].order = SheetOrder
  BY <1>1, <1>5, TagKinds
<1> HIDE DEF s
<1>10. /\ LargeIn(d) = LargeIn(q) /\ SheetsIn(d) = SheetsIn(q) \union {s}
       /\ \A v \in LargeIn(q) \union SheetsIn(q) : d.pool.tags[v] = q.pool.tags[v]
  BY <1>2, <1>4, <1>6, <1>8, <1>9 DEF LargeIn, SheetsIn, InUse
<1>11. SmallIn(d) = SmallIn(q) /\ \A y \in SmallIn(q) : d.tlsf.hdr[y].size = q.tlsf.hdr[y].size
  BY <1>2, <1>7 DEF SmallIn, TierSame
<1>12. SameBlocks(q, d)
  BY <1>10, <1>11 DEF SameBlocks
<1>13. SheetsMatch(d)
  <2>1. \A v \in SheetsIn(d) : d.pool.tags[v].order = SheetOrder
    BY <1>1, <1>2, <1>9, <1>10 DEF SheetsMatch
  <2>2. Cardinality(SheetsIn(d)) = q.tlsf.count + 1
    <3>1. Cardinality(SheetsIn(q) \union {s}) = Cardinality(SheetsIn(q)) + 1
      BY <1>3, <1>6, FS_AddElement
    <3> QED BY <1>3, <1>10, <3>1
  <2>3. d.tlsf.count = q.tlsf.count + 1 /\ d.tlsf.count <= MaxSheets
    BY <1>2, <1>3, <1>7, TierAssumption
  <2> QED BY <1>2, <1>7, <1>10, <2>1, <2>2, <2>3 DEF SheetsMatch
<1>14. Core(d)
  BY <1>1, <1>2, <1>5, <1>7, <1>13 DEF Core
<1>15. EmptySheets(d) = EmptySheets(q) \union {s}
  <2>1. EmptySheets(d) = {e \in SheetsIn(d) : \A y \in SmallIn(d) : y[1] # e}
    BY <1>14, CoreFacts
  <2>2. \A y \in SmallIn(q) : y[1] # s
    BY <1>3, <1>6
  <2> QED BY <1>3, <1>10, <1>11, <2>1, <2>2
<1> QED BY <1>2, <1>4, <1>6, <1>7, <1>10, <1>12, <1>14, <1>15 DEF d, p, w, s

(* small_alloc: a sheet is added only if none is empty, and the block is
   taken from it. *)
LEMMA SmallAllocSound ==
  ASSUME NEW q, Sound(q), NEW n \in 1 .. SmallUnits, NEW a \in SmallAlloc(q, n)
  PROVE  Sound(a.r) /\ Kept(q, a.r, a.x)
<1>1. /\ Core(q) /\ OnlySpareEmpty(q) /\ TierWell(q.tlsf) /\ q.tlsf.count \in Nat
      /\ SheetsIn(q) = T!SheetsOf(q.tlsf) /\ n \in Nat
  BY CoreFacts, TierAssumption DEF Sound, Core
<1>2. CASE T!Fit(q.tlsf, n) # T!NullOff
  <2> DEFINE x == T!Fit(q.tlsf, n)
             w == T!Allocate(q.tlsf, n)
             d == [q EXCEPT !.tlsf = w]
  <2>1. /\ TierWell(w) /\ TierKeeps(q.tlsf, w, x) /\ x[1] \in SheetsIn(q) /\ x \in T!UsedBlocks(w)
    BY <1>1, <1>2, TierAllocate
  <2>2. a.x = x /\ a.r = d
    BY <1>2 DEF SmallAlloc
  <2> HIDE DEF x, w
  <2>3. /\ Core(d) /\ Kept(q, d, x) /\ SheetsIn(d) = SheetsIn(q) /\ d.spare = q.spare
        /\ EmptySheets(d) \subseteq EmptySheets(q) \ {x[1]}
    BY <1>1, <2>1, TierStep
  <2>4. Sound(d)
    BY <1>1, <2>3 DEF Sound, OnlySpareEmpty
  <2> QED BY <2>2, <2>3, <2>4
<1>3. CASE T!Fit(q.tlsf, n) = T!NullOff
  <2>1. a \in SmallAllocSlow(q, n) /\ q.tlsf.count < MaxSheets
    <3>1. a \in SmallAllocSlow(q, n)
      BY <1>3 DEF SmallAlloc
    <3>2. ~ (q.tlsf.count >= MaxSheets)
      BY <3>1 DEF SmallAllocSlow
    <3> QED BY <1>1, <3>1, <3>2, TierAssumption
  <2>2. EmptySheets(q) = {}
    <3>1. \A s \in SheetsIn(q) : ~ T!SheetEmpty(q.tlsf, s)
      BY <1>1, <1>3, TierEmptySheet
    <3> QED BY <3>1 DEF EmptySheets
  <2>3. PICK g \in BuddyGrants(q.pool, SheetOrder) :
          LET t     == T!AddSheet(q.tlsf, g.off)
              added == [q EXCEPT !.pool = MarkSheet(g.pool, g.off), !.tlsf = t]
          IN  a = IF T!Fit(t, n) = T!NullOff
                  THEN [x |-> T!NullOff, r |-> ReleaseSheet(added, g.off)]
                  ELSE [x |-> T!Fit(t, n), r |-> [added EXCEPT !.tlsf = T!Allocate(t, n)]]
    BY <2>1 DEF SmallAllocSlow
  <2> DEFINE t == T!AddSheet(q.tlsf, g.off)
             e == [q EXCEPT !.pool = MarkSheet(g.pool, g.off), !.tlsf = t]
             w == T!Allocate(t, n)
             d == [e EXCEPT !.tlsf = w]
             x == <<g.off, 0>>
  <2>4. /\ Core(e) /\ SameBlocks(q, e) /\ g.off \in Units
        /\ g.off \notin SheetsIn(q) /\ SheetsIn(e) = SheetsIn(q) \union {g.off}
        /\ EmptySheets(e) = EmptySheets(q) \union {g.off}
        /\ TierWell(t) /\ e.tlsf = t /\ e.spare = q.spare
    BY <1>1, <2>1, AddSheetCore
  <2>5. T!Fit(t, n) = x
    BY <1>1, <1>3, <2>1, <2>4, TierNewSheet
  <2>6. x # T!NullOff /\ x[1] = g.off
    <3>1. g.off # -1
      BY <2>4, NullOutside
    <3> QED BY <3>1 DEF T!NullOff
  <2> HIDE DEF x, e
  <2>7. a.x = x /\ a.r = d
    BY <2>3, <2>5, <2>6 DEF e
  <2>8. TierWell(w) /\ TierKeeps(t, w, x) /\ x \in T!UsedBlocks(w)
    BY <1>1, <2>4, <2>5, <2>6, TierAllocate
  <2> HIDE DEF w, t
  <2>9. /\ Core(d) /\ Kept(e, d, x) /\ SheetsIn(d) = SheetsIn(e) /\ d.spare = e.spare
        /\ EmptySheets(d) \subseteq EmptySheets(e) \ {x[1]}
    BY <2>4, <2>6, <2>8, TierStep
  <2>10. Sound(d)
    BY <1>1, <2>2, <2>4, <2>6, <2>9 DEF Sound, OnlySpareEmpty
  <2>11. Kept(q, d, x)
    BY <2>4, <2>9, SameKept
  <2> QED BY <2>7, <2>10, <2>11
<1> QED BY <1>2, <1>3

(* small_free *)
LEMMA SmallFreeSound ==
  ASSUME NEW q, Sound(q), NEW x \in SmallIn(q)
  PROVE  Sound(SmallFree(q, x)) /\ Kept(q, SmallFree(q, x), x)
<1> DEFINE w == T!Deallocate(q.tlsf, x)
           e == [q EXCEPT !.tlsf = w]
           s == x[1]
           d == SmallFree(q, x)
<1>1. /\ Core(q) /\ OnlySpareEmpty(q) /\ TierWell(q.tlsf) /\ x \in T!UsedBlocks(q.tlsf)
      /\ s \in SheetsIn(q) /\ SheetsIn(q) \subseteq Units /\ Null \notin SheetsIn(q)
  BY CoreFacts DEF Sound, Core, SmallIn
<1>2. TierWell(w) /\ TierKeeps(q.tlsf, w, x)
  BY <1>1, TierDeallocate
<1>3. /\ Core(e) /\ Kept(q, e, x) /\ SheetsIn(e) = SheetsIn(q)
      /\ e.spare = q.spare /\ EmptySheets(e) \subseteq EmptySheets(q) \union {s}
  BY <1>1, <1>2, TierStep
<1>4. d = IF T!SheetEmpty(e.tlsf, s) /\ s # q.spare THEN SheetEmptied(e, s) ELSE e
  BY DEF SmallFree
<1> HIDE DEF w, e, d, s
<1>5. CASE ~ (T!SheetEmpty(e.tlsf, s) /\ s # q.spare)
  <2>1. EmptySheets(e) \subseteq {q.spare}
    BY <1>1, <1>3, <1>5 DEF OnlySpareEmpty, EmptySheets
  <2>2. Sound(e)
    BY <1>1, <1>3, <2>1 DEF Sound, OnlySpareEmpty
  <2> QED BY <1>3, <1>4, <1>5, <2>2 DEF d
<1>6. CASE T!SheetEmpty(e.tlsf, s) /\ s # q.spare
  <2>1. s \in EmptySheets(e) /\ d = SheetEmptied(e, s)
    BY <1>1, <1>3, <1>4, <1>6 DEF EmptySheets
  <2>2. CASE e.spare = Null \/ ~ T!SheetEmpty(e.tlsf, e.spare)
    <3>1. d = [e EXCEPT !.spare = s]
      BY <2>1, <2>2 DEF SheetEmptied
    <3>2. EmptySheets(e) \subseteq {s}
      BY <1>1, <1>3, <2>2 DEF OnlySpareEmpty, EmptySheets
    <3>3. /\ d.pool = e.pool /\ d.tlsf = e.tlsf /\ d.spare = s
          /\ d = [pool |-> d.pool, tlsf |-> d.tlsf, spare |-> d.spare]
      BY <1>3, <3>1 DEF Core
    <3> HIDE DEF d
    <3>4. /\ SheetsIn(d) = SheetsIn(e) /\ LargeIn(d) = LargeIn(e) /\ SmallIn(d) = SmallIn(e)
          /\ EmptySheets(d) = EmptySheets(e)
      BY <3>3 DEF SheetsIn, LargeIn, SmallIn, EmptySheets
    <3>5. Core(d)
      BY <1>1, <1>3, <3>3, <3>4 DEF Core, SheetsMatch
    <3>6. Sound(d)
      BY <1>1, <1>3, <3>2, <3>3, <3>4, <3>5 DEF Sound, OnlySpareEmpty
    <3>7. Kept(q, d, x)
      BY <1>3, <3>3, <3>4 DEF Kept
    <3> QED BY <3>6, <3>7 DEF d
  <2>3. CASE ~ (e.spare = Null \/ ~ T!SheetEmpty(e.tlsf, e.spare))
    <3>1. d = ReleaseSheet(e, s)
      BY <2>1, <2>3 DEF SheetEmptied
    <3>2. /\ Core(d) /\ SameBlocks(e, d) /\ SheetsIn(d) = SheetsIn(e) \ {s}
          /\ EmptySheets(d) = EmptySheets(e) \ {s}
          /\ d.spare = IF e.spare = s THEN Null ELSE e.spare
      BY <1>3, <2>1, <3>1, ReleaseEmpty
    <3>3. Sound(d)
      BY <1>1, <1>3, <1>6, <3>2 DEF Sound, OnlySpareEmpty
    <3>4. Kept(q, d, x)
      BY <1>3, <3>2 DEF Kept, SameBlocks
    <3> QED BY <3>3, <3>4 DEF d
  <2> QED BY <2>2, <2>3
<1> QED BY <1>5, <1>6

-----------------------------------------------------------------------------
(***************************************************************************)
(* The dispatch of a pointer, and the steps.                               *)
(***************************************************************************)
LEMMA OwnsSmallUse ==
  ASSUME NEW q, Core(q), NEW x
  PROVE  OwnsSmall(q, x) <=> x \in SmallIn(q)
<1>1. TierWell(q.tlsf)
  BY DEF Core
<1>2. T!Owns(q.tlsf, x) <=> x \in SmallIn(q)
  BY <1>1, TierOwns DEF SmallIn
<1>3. x \in SmallIn(q) => IsSheetAt(q, x[1])
  <2>1. x \in SmallIn(q) => x[1] \in SheetsIn(q)
    BY CoreFacts
  <2> QED BY <2>1 DEF SheetsIn, IsSheetAt
<1> QED BY <1>2, <1>3 DEF OwnsSmall

LEMMA OwnsLargeUse ==
  ASSUME NEW q, Core(q), NEW u \in Units
  PROVE  OwnsLarge(q, u) <=> u \in LargeIn(q)
<1> DEFINE s == SheetStart(u)
           c == q.pool
<1>1. /\ c \in PoolShapes /\ SheetsMatch(q) /\ SheetOrder \in Orders
      /\ Tiles(Blocks(c)) /\ Blocks(c) \in SUBSET (Units \X Orders)
  BY RegionAssumption, BlocksInPool DEF Core, PoolWell, WellFormed
<1>2. u \in Nat /\ u \in Int /\ OrderSize[SheetOrder] \in Nat \ {0}
  BY <1>1, OrderSizeFacts DEF Units
<1>3. OrderAt(c, u) # Null <=> u \in LargeIn(q) \/ u \in SheetsIn(q)
  <2>1. c.tags[u] \in Tags
    BY <1>1 DEF PoolShapes
  <2>2. c.tags[u].order \in Orders
    BY <2>1 DEF Tags
  <2>3. PICK o \in Orders : o = c.tags[u].order
    BY <2>2
  <2>4. o < MaxOrder /\ o # Null
    BY NullOutside, OrderSizeAssumption DEF Orders
  <2> QED BY <2>3, <2>4 DEF OrderAt, LargeIn, SheetsIn
<1>4. ASSUME NEW v \in SheetsIn(q)
      PROVE  v \in Units /\ <<v, SheetOrder>> \in Blocks(c) /\ Aligned(v, SheetOrder)
  <2>1. v \in Units /\ c.tags[v].kind = "sheet" /\ c.tags[v].order = SheetOrder
    BY <1>1, <1>4 DEF SheetsIn, SheetsMatch
  <2>2. <<v, SheetOrder>> \in Blocks(c)
    BY <2>1 DEF Blocks, InUseBlocks
  <2> QED BY <1>1, <2>1, <2>2 DEF Tiles
<1>5. CASE u \in SheetsIn(q)
  <2>1. Level(u, SheetOrder) = u
    <3>1. Aligned(u, SheetOrder)
      BY <1>4, <1>5
    <3>2. u % OrderSize[SheetOrder] = 0
      BY <3>1 DEF Aligned
    <3> QED BY <1>2, <3>2 DEF Level
  <2> QED BY <1>5, <2>1 DEF OwnsLarge, SheetStart, IsSheetAt, SheetsIn, LargeIn
<1>6. CASE u \notin SheetsIn(q)
  <2> SUFFICES ASSUME u \in LargeIn(q) PROVE ~ IsSheetAt(q, s)
    BY <1>3, <1>6 DEF OwnsLarge
  <2> SUFFICES ASSUME IsSheetAt(q, s) PROVE FALSE
    OBVIOUS
  <2>1. s \in Nat /\ s <= u
    <3>1. Level(u, SheetOrder) \in Nat
      BY <1>1, <1>2, LevelStep
    <3>2. u % OrderSize[SheetOrder] \in 0 .. OrderSize[SheetOrder] - 1
      BY <1>2
    <3> QED BY <1>2, <3>1, <3>2 DEF SheetStart, Level
  <2>2. s \in Units
    BY <2>1, TotalAssumption DEF Units
  <2>3. s \in SheetsIn(q)
    BY <2>2 DEF SheetsIn, IsSheetAt
  <2>4. <<s, SheetOrder>> \in Blocks(c) /\ Aligned(s, SheetOrder)
    BY <1>4, <2>3
  <2>5. u \in Span(s, SheetOrder)
    BY <1>1, <1>2, <2>1, <2>4, InSpan DEF SheetStart
  <2>6. PICK o \in Orders : c.tags[u] \in {Alloc(o), Sheet(o)}
    <3>1. InUse(c, u)
      BY DEF InUse, LargeIn
    <3> QED BY <1>1, <3>1, InUseTag
  <2>7. <<u, o>> \in Blocks(c)
    BY <1>1, <2>6, BlocksMember
  <2>8. u \in Span(u, o)
    BY SpanFacts
  <2> DEFINE x == <<u, o>>
             y == <<s, SheetOrder>>
  <2>9. x \in Blocks(c) /\ y \in Blocks(c) /\ u \in Span(x[1], x[2]) /\ u \in Span(y[1], y[2])
    BY <2>4, <2>5, <2>7, <2>8
  <2> HIDE DEF x, y
  <2>10. x = y
    BY <1>1, <2>9 DEF Tiles
  <2>11. u = s
    BY <2>10 DEF x, y
  <2> QED BY <1>6, <2>3, <2>11
<1> QED BY <1>5, <1>6

LEMMA LargeOrder ==
  ASSUME NEW q, Core(q), NEW u \in LargeIn(q)
  PROVE  LET o == OrderAt(q.pool, u)
         IN  o \in Orders /\ q.pool.tags[u] \in {Alloc(o), Sheet(o)} /\ q.pool.tags[u].order = o
<1>1. u \in Units /\ InUse(q.pool, u) /\ q.pool \in PoolShapes
  BY DEF LargeIn, InUse, Core, PoolWell, WellFormed
<1>2. /\ q.pool.tags[u].order \in Orders
      /\ q.pool.tags[u] \in {Alloc(q.pool.tags[u].order), Sheet(q.pool.tags[u].order)}
  BY <1>1, InUseTag
<1>3. q.pool.tags[u].order < MaxOrder
  BY <1>2, OrderSizeAssumption DEF Orders
<1>4. OrderAt(q.pool, u) = q.pool.tags[u].order
  BY <1>1, <1>3 DEF OrderAt, InUse
<1> QED BY <1>2, <1>4

LEMMA FreeLargeSound ==
  ASSUME NEW q, Sound(q), NEW u \in LargeIn(q)
  PROVE  LET d == [q EXCEPT !.pool = DeallocateOrder(q.pool, u, OrderAt(q.pool, u))]
         IN  Sound(d) /\ Kept(q, d, <<u, Null>>)
<1> DEFINE o == OrderAt(q.pool, u)
           c == DeallocateOrder(q.pool, u, o)
<1>1. u \in Units /\ q.pool.tags[u].kind = "alloc" /\ PoolWell(q.pool)
  BY DEF LargeIn, Sound, Core
<1>2. o \in Orders /\ q.pool.tags[u] \in {Alloc(o), Sheet(o)}
  BY LargeOrder DEF Sound
<1> HIDE DEF o
<1>3. PoolWell(c) /\ ~ InUse(c, u) /\ KeepsUse(q.pool, c, u)
  BY <1>1, <1>2, ReleasePool
<1>4. u \notin SheetsIn(q) /\ c.tags[u].kind # "sheet"
  BY <1>1, <1>3 DEF SheetsIn, InUse
<1> HIDE DEF c
<1> QED BY <1>1, <1>3, <1>4, PoolStep DEF c, o

LEMMA GrowLargeSound ==
  ASSUME NEW q, Sound(q), NEW u \in LargeIn(q), NEW want \in Orders,
         OrderAt(q.pool, u) < want, CanGrow(q.pool, u, OrderAt(q.pool, u), want)
  PROVE  LET d == [q EXCEPT !.pool = GrowTo(q.pool, u, OrderAt(q.pool, u), want)]
         IN  Sound(d) /\ Kept(q, d, <<u, Null>>)
<1> DEFINE o == OrderAt(q.pool, u)
           c == GrowTo(q.pool, u, o, want)
<1>1. u \in Units /\ q.pool.tags[u].kind = "alloc" /\ PoolWell(q.pool)
  BY DEF LargeIn, Sound, Core
<1>2. o \in Orders /\ q.pool.tags[u] \in {Alloc(o), Sheet(o)}
  BY LargeOrder DEF Sound
<1>3. o < want /\ CanGrow(q.pool, u, o, want)
  OBVIOUS
<1> HIDE DEF o
<1>4. PoolWell(c) /\ c.tags[u] = Alloc(want) /\ KeepsUse(q.pool, c, u)
  BY <1>1, <1>2, <1>3, GrowPool
<1>5. u \notin SheetsIn(q) /\ c.tags[u].kind # "sheet"
  BY <1>1, <1>4, TagKinds DEF SheetsIn
<1> HIDE DEF c
<1> QED BY <1>1, <1>4, <1>5, PoolStep DEF c, o

LEMMA ResizeSmallSound ==
  ASSUME NEW q, Sound(q), NEW x \in SmallIn(q), NEW n \in Nat
  PROVE  /\ T!CanShrink(q.tlsf, x, n) =>
              LET d == [q EXCEPT !.tlsf = T!Shrink(q.tlsf, x, n)] IN Sound(d) /\ Kept(q, d, x)
         /\ T!CanGrow(q.tlsf, x, n) =>
              LET d == [q EXCEPT !.tlsf = T!Grow(q.tlsf, x, n)] IN Sound(d) /\ Kept(q, d, x)
<1>1. /\ Core(q) /\ OnlySpareEmpty(q) /\ TierWell(q.tlsf) /\ x \in T!UsedBlocks(q.tlsf)
      /\ x[1] \in SheetsIn(q)
  BY CoreFacts DEF Sound, Core, SmallIn
<1>2. ASSUME NEW w, TierWell(w), TierKeeps(q.tlsf, w, x), x \in T!UsedBlocks(w)
      PROVE  LET d == [q EXCEPT !.tlsf = w] IN Sound(d) /\ Kept(q, d, x)
  <2> DEFINE d == [q EXCEPT !.tlsf = w]
  <2>1. /\ Core(d) /\ Kept(q, d, x) /\ SheetsIn(d) = SheetsIn(q) /\ d.spare = q.spare
        /\ EmptySheets(d) \subseteq EmptySheets(q) \ {x[1]}
    BY <1>1, <1>2, TierStep
  <2> QED BY <1>1, <2>1 DEF Sound, OnlySpareEmpty
<1>3. ASSUME T!CanShrink(q.tlsf, x, n)
      PROVE  LET d == [q EXCEPT !.tlsf = T!Shrink(q.tlsf, x, n)] IN Sound(d) /\ Kept(q, d, x)
  <2> DEFINE w == T!Shrink(q.tlsf, x, n)
  <2>1. TierWell(w) /\ TierKeeps(q.tlsf, w, x) /\ x \in T!UsedBlocks(w)
    BY <1>1, <1>3, TierShrink
  <2> HIDE DEF w
  <2> QED BY <1>2, <2>1 DEF w
<1>4. ASSUME T!CanGrow(q.tlsf, x, n)
      PROVE  LET d == [q EXCEPT !.tlsf = T!Grow(q.tlsf, x, n)] IN Sound(d) /\ Kept(q, d, x)
  <2> DEFINE w == T!Grow(q.tlsf, x, n)
  <2>1. TierWell(w) /\ TierKeeps(q.tlsf, w, x) /\ x \in T!UsedBlocks(w)
    BY <1>1, <1>4, TierGrow
  <2> HIDE DEF w
  <2> QED BY <1>2, <2>1 DEF w
<1> QED BY <1>3, <1>4

-----------------------------------------------------------------------------
(***************************************************************************)
(* Refusals.  Once the spare is given back no sheet is empty, so the room  *)
(* left by large blocks and sheets in use is room in the pool.             *)
(***************************************************************************)
LEMMA RoomGranted ==
  ASSUME NEW q, Core(q), EmptySheets(q) = {}, NEW o \in Orders, RoomFor(q, o)
  PROVE  BuddyGrants(q.pool, o) # {}
<1> DEFINE c == q.pool
<1>1. /\ WellFormed(c) /\ FullyCoalesced(c) /\ c \in PoolShapes /\ CachedOrders(c) = {}
      /\ \A u \in Units : InUse(c, u) <=> u \in SheetsIn(q) \/ u \in LargeIn(q)
  BY CoreFacts DEF Core, PoolWell, WellFormed, CachedOrders
<1>2. PICK u \in Units :
        /\ Aligned(u, o) /\ InPool(u, o)
        /\ \A v \in LargeIn(q) \union (SheetsIn(q) \ EmptySheets(q)) :
             Span(u, o) \cap Span(v, c.tags[v].order) = {}
  BY DEF RoomFor
<1>3. ASSUME NEW blk \in InUseBlocks(c) PROVE Span(blk[1], blk[2]) \cap Span(u, o) = {}
  <2>1. PICK v \in Units : InUse(c, v) /\ blk = <<v, c.tags[v].order>>
    BY DEF InUseBlocks, InUse
  <2>2. v \in LargeIn(q) \union (SheetsIn(q) \ EmptySheets(q))
    BY <1>1, <2>1
  <2>3. blk[1] = v /\ blk[2] = c.tags[v].order
    BY <2>1
  <2> QED BY <1>2, <2>2, <2>3
<1>4. RoomIn(InUseBlocks(c), o)
  BY <1>2, <1>3 DEF RoomIn, VacantIn
<1>5. FindFreeOrder(c, o) < MaxOrder
  <2> SUFFICES ASSUME ~ (FindFreeOrder(c, o) < MaxOrder) PROVE FALSE
    OBVIOUS
  <2>1. FindFreeOrder(c, o) >= MaxOrder
    BY <1>1, FoundOrder, OrderSizeAssumption DEF Orders
  <2>2. \A j \in Orders : o <= j => c.free[j] = {}
    BY <1>1, <2>1, NoFreeOrder
  <2> QED BY <1>1, <1>4, <2>2, NoRoom
<1>6. c.free[FindFreeOrder(c, o)] # {}
  BY <1>1, <1>5, FindFreeOrderFacts
<1>7. o < MaxOrder
  BY OrderSizeAssumption DEF Orders
<1> QED BY <1>5, <1>6, <1>7 DEF BuddyGrants

LEMMA RoomStays ==
  ASSUME NEW q, Sound(q), NEW o \in Orders, RoomFor(q, o)
  PROVE  RoomFor(FlushSpare(q), o)
<1> DEFINE d == FlushSpare(q)
<1>1. /\ Sound(d) /\ SameBlocks(q, d) /\ EmptySheets(d) = {}
      /\ SheetsIn(d) = SheetsIn(q) \ EmptySheets(q)
  BY FlushSound
<1> HIDE DEF d
<1>2. \A v \in SheetsIn(d) : d.pool.tags[v].order = q.pool.tags[v].order
  BY <1>1 DEF Sound, Core, SheetsMatch
<1>3. LargeIn(d) = LargeIn(q) /\ \A v \in LargeIn(q) : d.pool.tags[v] = q.pool.tags[v]
  BY <1>1 DEF SameBlocks
<1>4. RoomFor(d, o)
  BY <1>1, <1>2, <1>3 DEF RoomFor
<1> QED BY <1>4 DEF d

LEMMA LargeServed ==
  ASSUME NEW q, Sound(q), NEW o \in Orders, RoomFor(q, o)
  PROVE  LargeAlloc(q, o) # {}
<1> DEFINE d == FlushSpare(q)
<1>1. Sound(d) /\ EmptySheets(d) = {} /\ RoomFor(d, o)
  BY FlushSound, RoomStays
<1>2. BuddyGrants(d.pool, o) # {}
  BY <1>1, RoomGranted DEF Sound
<1>3. LargeGrants(d, o) # {}
  BY <1>2 DEF LargeGrants
<1>4. ~ (o >= MaxOrder)
  BY OrderSizeAssumption DEF Orders
<1>5. CASE q.spare = Null
  <2>1. d = [q EXCEPT !.spare = Null]
    BY <1>5 DEF FlushSpare, ReleaseSheet
  <2>2. d.pool = q.pool
    BY <2>1 DEF Sound, Core
  <2>3. LargeGrants(q, o) # {}
    BY <1>2, <2>2 DEF LargeGrants
  <2> QED BY <2>3 DEF LargeAlloc
<1>6. CASE q.spare # Null
  <2>1. LargeAllocSlow(q, o) = LargeGrants(d, o)
    BY <1>4, <1>6 DEF LargeAllocSlow
  <2> QED BY <1>3, <2>1 DEF LargeAlloc
<1> QED BY <1>5, <1>6

LEMMA SmallServed ==
  ASSUME NEW q, Sound(q), NEW n \in 1 .. SmallUnits, RoomFor(q, SheetOrder), q.tlsf.count < MaxSheets
  PROVE  SmallAlloc(q, n) # {}
<1>1. /\ Core(q) /\ TierWell(q.tlsf) /\ q.tlsf.count \in Nat
      /\ SheetsIn(q) = T!SheetsOf(q.tlsf) /\ SheetOrder \in Orders
  BY CoreFacts, RegionAssumption DEF Sound, Core
<1>2. CASE T!Fit(q.tlsf, n) # T!NullOff
  BY <1>2 DEF SmallAlloc
<1>3. CASE T!Fit(q.tlsf, n) = T!NullOff
  <2>1. EmptySheets(q) = {}
    <3>1. \A s \in SheetsIn(q) : ~ T!SheetEmpty(q.tlsf, s)
      BY <1>1, <1>3, TierEmptySheet
    <3> QED BY <3>1 DEF EmptySheets
  <2>2. BuddyGrants(q.pool, SheetOrder) # {}
    BY <1>1, <2>1, RoomGranted
  <2>3. ~ (q.tlsf.count >= MaxSheets)
    BY <1>1, TierAssumption
  <2>4. SmallAllocSlow(q, n) # {}
    BY <2>2, <2>3, Zenon DEF SmallAllocSlow
  <2> QED BY <1>3, <2>4 DEF SmallAlloc
<1> QED BY <1>2, <1>3

-----------------------------------------------------------------------------
(***************************************************************************)
(* An empty region.  A coalesced pool is cut in one way only, and nothing  *)
(* else of a region is left when no block and no sheet is.                 *)
(***************************************************************************)
LEMMA EmptyPool ==
  ASSUME NEW c, PoolWell(c), \A u \in Units : ~ InUse(c, u)
  PROVE  c = Fresh
<1>1. /\ WellFormed(c) /\ FullyCoalesced(c) /\ Charged(c) /\ c \in PoolShapes
      /\ \A o \in Orders : c.cache[o] = {} /\ c.cache_count[o] = 0
      /\ \A u \in Units : c.tags[u].kind = "none" => c.tags[u] = NoTag
  BY DEF PoolWell, WellFormed
<1>2. /\ WellFormed(Fresh) /\ FullyCoalesced(Fresh) /\ Charged(Fresh) /\ Fresh \in PoolShapes
      /\ \A o \in Orders : Fresh.cache[o] = {} /\ Fresh.cache_count[o] = 0
      /\ \A u \in Units : Fresh.tags[u].kind = "none" => Fresh.tags[u] = NoTag
  BY FreshPoolWell DEF PoolWell, WellFormed
<1>3. InUseBlocks(c) = {} /\ InUseBlocks(Fresh) = {}
  BY FreshLive DEF InUseBlocks, InUse
<1>4. CachedOrders(c) = {} /\ CachedOrders(Fresh) = {}
  BY <1>1, <1>2 DEF CachedOrders
<1>5. \A o \in Orders : c.free[o] = Fresh.free[o]
  <2> TAKE o \in Orders
  <2>1. \A u \in c.free[o] : u \in Fresh.free[o]
    BY <1>1, <1>2, <1>3, <1>4, SameCut
  <2>2. \A u \in Fresh.free[o] : u \in c.free[o]
    BY <1>1, <1>2, <1>3, <1>4, SameCut
  <2> QED BY <2>1, <2>2
<1>6. \A u \in Units : c.tags[u] = Fresh.tags[u]
  <2> SUFFICES ASSUME NEW u \in Units PROVE c.tags[u] = Fresh.tags[u]
    OBVIOUS
  <2>1. ASSUME NEW d \in PoolShapes, ~ InUse(d, u), \A v \in Units : d.tags[v].kind = "none" => d.tags[v] = NoTag
        PROVE  d.tags[u] = NoTag \/ \E o \in Orders : d.tags[u] = Free(o)
    BY <2>1 DEF PoolShapes, Tags, InUse, Free
  <2>2. ~ InUse(Fresh, u)
    BY FreshPoolWell
  <2>3. \A o \in Orders : c.tags[u] = Free(o) <=> Fresh.tags[u] = Free(o)
    BY <1>1, <1>2, <1>5 DEF WellFormed, FreeListsMatchTags
  <2> QED BY <1>1, <1>2, <2>1, <2>2, <2>3
<1>7. c.free_mask = Fresh.free_mask
  BY <1>1, <1>2, <1>5 DEF WellFormed, MaskMatchesLists
<1>8. c.allocated = Fresh.allocated
  BY <1>1, <1>2, <1>3 DEF Charged
<1>9. /\ c.tags = Fresh.tags /\ c.free = Fresh.free
      /\ c.cache = Fresh.cache /\ c.cache_count = Fresh.cache_count
  <2>1. c.tags = Fresh.tags
    BY <1>1, <1>2, <1>6 DEF PoolShapes, Tags
  <2>2. c.free = Fresh.free
    BY <1>1, <1>2, <1>5 DEF PoolShapes
  <2>3. c.cache = Fresh.cache
    <3>1. c.cache \in [Orders -> SUBSET Units] /\ Fresh.cache \in [Orders -> SUBSET Units]
      BY <1>1, <1>2 DEF PoolShapes
    <3>2. \A o \in Orders : c.cache[o] = Fresh.cache[o]
      BY <1>1, <1>2
    <3> QED BY <3>1, <3>2
  <2>4. c.cache_count = Fresh.cache_count
    BY <1>1, <1>2 DEF PoolShapes
  <2> QED BY <2>1, <2>2, <2>3, <2>4
<1> QED BY <1>1, <1>2, <1>7, <1>8, <1>9 DEF PoolShapes

LEMMA EmptyTier ==
  ASSUME NEW t, TierWell(t), T!SheetsOf(t) = {}, t.count = 0
  PROVE  t = T!EmptyTlsf
<1>1. TP!Whole(t) /\ TP!Exact(t) /\ TP!Table(t.hdr) /\ TP!SheetsOf(t) = {}
  BY SameTier DEF TierWell
<1>2. t = TP!EmptyTlsf
  BY <1>1, TP!NoSheets, TierSizes
<1> QED BY <1>2, SameTier

LEMMA NothingLeft ==
  ASSUME NEW q, Core(q), q.spare = Null, SheetsIn(q) = {}, LargeIn(q) = {}
  PROVE  q = FreshRegion
<1>1. /\ q = [pool |-> q.pool, tlsf |-> q.tlsf, spare |-> q.spare]
      /\ PoolWell(q.pool) /\ TierWell(q.tlsf)
  BY DEF Core
<1>2. T!SheetsOf(q.tlsf) = {} /\ q.tlsf.count = 0
  BY CoreFacts, FS_EmptySet
<1>3. \A u \in Units : ~ InUse(q.pool, u)
  BY CoreFacts
<1>4. q.pool = Fresh /\ q.tlsf = T!EmptyTlsf
  BY <1>1, <1>2, <1>3, EmptyPool, EmptyTier
<1> QED BY <1>1, <1>4 DEF FreshRegion
-----------------------------------------------------------------------------
(***************************************************************************)
(* A region among others.  The heap goes through its regions with the      *)
(* parts of small_alloc and large_alloc, passes on the regions that failed *)
(* and comes back to them when it has grown.                               *)
(***************************************************************************)
Dry(q, n) == T!Fit(q.tlsf, n) = T!NullOff

LEMMA SlowSound ==
  ASSUME NEW q, Sound(q)
  PROVE  /\ \A n \in 1 .. SmallUnits : Dry(q, n) =>
              SmallAlloc(q, n) = SmallAllocSlow(q, n) /\ \A a \in SmallAllocSlow(q, n) : Sound(a.r)
         /\ \A o \in 0 .. MaxOrder :
              /\ \A a \in LargeGrants(q, o) \union LargeAllocSlow(q, o) \union LargeAlloc(q, o) : Sound(a.r)
              /\ Sound(LargeAllocFailed(q, o))
<1>1. ASSUME NEW n \in 1 .. SmallUnits, Dry(q, n)
      PROVE  SmallAlloc(q, n) = SmallAllocSlow(q, n) /\ \A a \in SmallAllocSlow(q, n) : Sound(a.r)
  <2>1. SmallAlloc(q, n) = SmallAllocSlow(q, n)
    BY <1>1 DEF SmallAlloc, Dry
  <2>2. \A a \in SmallAlloc(q, n) : Sound(a.r)
    BY SmallAllocSound
  <2> QED BY <2>1, <2>2
<1>2. ASSUME NEW o \in 0 .. MaxOrder
      PROVE  /\ \A a \in LargeGrants(q, o) \union LargeAllocSlow(q, o) \union LargeAlloc(q, o) : Sound(a.r)
             /\ Sound(LargeAllocFailed(q, o))
  <2> DEFINE d == FlushSpare(q)
  <2>1. Sound(d)
    BY FlushSound
  <2> HIDE DEF d
  <2>2. Sound(LargeAllocFailed(q, o))
    BY <2>1 DEF LargeAllocFailed, d
  <2>3. CASE o \in Orders
    <3>1. \A a \in LargeGrants(q, o) \union LargeGrants(d, o) : Sound(a.r)
      BY <2>1, <2>3, LargeGrantSound
    <3>2. LargeAllocSlow(q, o) \subseteq LargeGrants(d, o)
      BY DEF LargeAllocSlow, d
    <3>3. LargeAlloc(q, o) \subseteq LargeGrants(q, o) \union LargeAllocSlow(q, o)
      BY DEF LargeAlloc
    <3> QED BY <2>2, <3>1, <3>2, <3>3
  <2>4. CASE o = MaxOrder
    <3>1. \A c : BuddyGrants(c, o) = {}
      BY <2>4, OrderSizeAssumption DEF BuddyGrants
    <3>2. \A b : LargeGrants(b, o) = {}
      BY <3>1 DEF LargeGrants
    <3>3. LargeAllocSlow(q, o) = {} /\ LargeAlloc(q, o) = {}
      BY <3>2 DEF LargeAllocSlow, LargeAlloc
    <3> QED BY <2>2, <3>2, <3>3
  <2> QED BY <2>3, <2>4, OrderSizeAssumption DEF Orders
<1> QED BY <1>1, <1>2

(* What has refused before refuses again: a flush gives room to no request
   that has just been refused. *)
LEMMA RefusedAgain ==
  ASSUME NEW q, Sound(q), NEW o, LargeAlloc(q, o) = {}
  PROVE  LET d == LargeAllocFailed(q, o)
         IN  LargeAlloc(d, o) = {} /\ LargeAllocSlow(d, o) = {}
<1> DEFINE d == LargeAllocFailed(q, o)
<1>1. LargeGrants(q, o) = {} /\ LargeAllocSlow(q, o) = {}
  BY DEF LargeAlloc
<1>2. CASE q.spare = Null \/ o >= MaxOrder
  BY <1>1, <1>2 DEF LargeAllocFailed
<1>3. CASE ~ (q.spare = Null \/ o >= MaxOrder)
  <2>1. d = FlushSpare(q)
    BY <1>3 DEF LargeAllocFailed
  <2>2. LargeGrants(d, o) = {}
    BY <1>1, <1>3, <2>1 DEF LargeAllocSlow
  <2>3. d.spare = Null
    BY <2>1, FlushSound
  <2>4. LargeAllocSlow(d, o) = {}
    BY <2>3 DEF LargeAllocSlow
  <2> HIDE DEF d
  <2>5. LargeAlloc(d, o) = {}
    BY <2>2, <2>4 DEF LargeAlloc
  <2> QED BY <2>4, <2>5 DEF d
<1> QED BY <1>2, <1>3

(* A tier without a block for a request has no empty sheet, so there is
   nothing to flush. *)
LEMMA DryStays ==
  ASSUME NEW q, Sound(q), NEW n \in 1 .. SmallUnits, Dry(q, n), NEW o
  PROVE  LET d == LargeAllocFailed(q, o)
         IN  /\ d.tlsf = q.tlsf /\ d.pool = q.pool /\ Dry(d, n)
             /\ SmallAllocSlow(q, n) = {} => SmallAllocSlow(d, n) = {} /\ SmallAlloc(d, n) = {}
<1> DEFINE d == LargeAllocFailed(q, o)
<1>1. /\ Core(q) /\ TierWell(q.tlsf) /\ SheetsIn(q) = T!SheetsOf(q.tlsf)
      /\ q = [pool |-> q.pool, tlsf |-> q.tlsf, spare |-> q.spare]
      /\ q.spare \in Units \union {Null}
  BY CoreFacts DEF Sound, Core
<1>2. \A s \in SheetsIn(q) : ~ T!SheetEmpty(q.tlsf, s)
  BY <1>1, TierEmptySheet DEF Dry
<1>3. FlushSpare(q) = [q EXCEPT !.spare = Null]
  <2> DEFINE p == [q EXCEPT !.spare = Null]
             s == q.spare
  <2>1. p.pool = q.pool /\ p.tlsf = q.tlsf
    BY <1>1
  <2>2. s # Null /\ IsSheetAt(p, s) => ~ T!SheetEmpty(p.tlsf, s)
    BY <1>1, <1>2, <2>1 DEF IsSheetAt, SheetsIn
  <2> HIDE DEF p, s
  <2>3. ReleaseSheet(p, s) = p
    BY <2>2 DEF ReleaseSheet
  <2> QED BY <2>3 DEF FlushSpare, p, s
<1>4. d.tlsf = q.tlsf /\ d.pool = q.pool
  BY <1>1, <1>3 DEF LargeAllocFailed
<1> HIDE DEF d
<1>5. Dry(d, n)
  BY <1>4 DEF Dry
<1>6. ASSUME SmallAllocSlow(q, n) = {} PROVE SmallAllocSlow(d, n) = {} /\ SmallAlloc(d, n) = {}
  <2>1. q.tlsf.count >= MaxSheets \/ BuddyGrants(q.pool, SheetOrder) = {}
    BY <1>6, Zenon DEF SmallAllocSlow
  <2>2. SmallAllocSlow(d, n) = {}
    BY <1>4, <2>1, Zenon DEF SmallAllocSlow
  <2> QED BY <1>5, <2>2 DEF SmallAlloc, Dry
<1> QED BY <1>4, <1>5, <1>6 DEF d

(* A region as it is attached has room for every block and every small one. *)
LEMMA FreshServes ==
  /\ \A o \in Orders : LargeAlloc(FreshRegion, o) # {}
  /\ \A n \in 1 .. SmallUnits : SmallAlloc(FreshRegion, n) # {} /\ Dry(FreshRegion, n)
<1> DEFINE q == FreshRegion
<1>1. /\ Sound(q) /\ SheetsIn(q) = {} /\ LargeIn(q) = {} /\ SmallIn(q) = {}
      /\ q.tlsf = T!EmptyTlsf
  BY FreshSound DEF FreshRegion
<1> HIDE DEF q
<1>2. ASSUME NEW o \in Orders PROVE RoomFor(q, o)
  <2>1. 0 \in Units /\ Aligned(0, o) /\ InPool(0, o)
    <3>1. OrderSize[o] \in Nat \ {0} /\ OrderSize[Top] \in Nat \ {0} /\ Top \in Orders /\ o <= Top
      BY OrderSizeFacts, OrderSizeAssumption DEF Orders, Top
    <3>2. Aligned(0, o) /\ Aligned(0, Top)
      BY <3>1 DEF Aligned
    <3>3. PICK last \in Nat : last = OrderSize[o] - 1
      BY <3>1
    <3>4. 0 \in Span(0, o) /\ 0 \in Span(0, Top) /\ last \in Span(0, o)
      BY <3>1, <3>3 DEF Span
    <3>5. last \in Span(0, Top)
      BY <3>1, <3>2, <3>4, Nested
    <3>6. OrderSize[o] <= OrderSize[Top]
      BY <3>1, <3>3, <3>5 DEF Span
    <3> QED BY <3>1, <3>2, <3>6, MaxOrderAssumption, TotalAssumption DEF InPool, Units
  <2> QED BY <1>1, <1>2, <2>1 DEF RoomFor
<1>3. q.tlsf.count < MaxSheets
  BY <1>1, TierAssumption DEF T!EmptyTlsf
<1>4. ASSUME NEW n \in 1 .. SmallUnits PROVE Dry(q, n)
  <2>1. TierWell(q.tlsf) /\ T!SheetsOf(q.tlsf) = {}
    BY <1>1, CoreFacts DEF Sound, Core
  <2>2. ~ (T!Fit(q.tlsf, n) # T!NullOff)
    BY <1>4, <2>1, TierAllocate
  <2> QED BY <2>2 DEF Dry
<1> QED BY <1>1, <1>2, <1>3, <1>4, LargeServed, SmallServed, RegionAssumption DEF q
=============================================================================
