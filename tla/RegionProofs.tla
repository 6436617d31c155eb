---------------------------- MODULE RegionProofs ----------------------------
(***************************************************************************)
(* Proofs about Region, for every size of pool, sheet and request: one     *)
(* step of the invariant for each call, from the lemmas of                 *)
(* RegionOpsProofs, and what the invariant makes of the calls, of pointers *)
(* and of what is counted.                                                 *)
(***************************************************************************)
EXTENDS Region, RegionOpsProofs

LEMMA Step ==
  ASSUME Sound(r), [Next]_r
  PROVE  Sound(r') /\ (r' = FreshRegion \/ \E at : Kept(r, r', at))
<1>1. Core(r)
  BY DEF Sound
<1>2. Requests \subseteq 1 .. SmallUnits /\ Requests \subseteq Nat
  BY RequestsAssumption, TierAssumption
<1>3. ASSUME NEW n \in Requests, AllocSmall(n)
      PROVE  Sound(r') /\ \E at : Kept(r, r', at)
  BY <1>2, <1>3, SmallAllocSound DEF AllocSmall
<1>4. ASSUME NEW o \in Orders, AllocLarge(o)
      PROVE  Sound(r') /\ \E at : Kept(r, r', at)
  BY <1>4, LargeAllocSound DEF AllocLarge
<1>5. ASSUME NEW x \in Places, FreeSmall(x)
      PROVE  Sound(r') /\ \E at : Kept(r, r', at)
  BY <1>1, <1>5, OwnsSmallUse, SmallFreeSound DEF FreeSmall
<1>6. ASSUME NEW u \in Units, FreeLarge(u)
      PROVE  Sound(r') /\ \E at : Kept(r, r', at)
  <2>1. u \in LargeIn(r)
    BY <1>1, <1>6, OwnsLargeUse DEF FreeLarge
  <2> QED BY <1>6, <2>1, FreeLargeSound DEF FreeLarge
<1>7. ASSUME NEW x \in Places, NEW n \in Requests, ShrinkSmall(x, n)
      PROVE  Sound(r') /\ \E at : Kept(r, r', at)
  <2>1. x \in SmallIn(r) /\ n \in Nat
    BY <1>1, <1>2, <1>7, OwnsSmallUse DEF ShrinkSmall
  <2> QED BY <1>7, <2>1, ResizeSmallSound DEF ShrinkSmall
<1>8. ASSUME NEW x \in Places, NEW n \in Requests, GrowSmall(x, n)
      PROVE  Sound(r') /\ \E at : Kept(r, r', at)
  <2>1. x \in SmallIn(r) /\ n \in Nat
    BY <1>1, <1>2, <1>8, OwnsSmallUse DEF GrowSmall
  <2> QED BY <1>8, <2>1, ResizeSmallSound DEF GrowSmall
<1>9. ASSUME NEW u \in Units, NEW want \in Orders, GrowLarge(u, want)
      PROVE  Sound(r') /\ \E at : Kept(r, r', at)
  <2>1. u \in LargeIn(r)
    BY <1>1, <1>9, OwnsLargeUse DEF GrowLarge
  <2> QED BY <1>9, <2>1, GrowLargeSound DEF GrowLarge
<1>10. CASE LargestFree
  BY <1>10, FlushSound, SameKept DEF LargestFree
<1>11. CASE Reset
  BY <1>11, FreshSound DEF Reset
<1>12. CASE UNCHANGED r
  <2>1. \A at : Kept(r, r, at)
    BY DEF Kept
  <2> QED BY <1>12, <2>1
<1> QED BY <1>3, <1>4, <1>5, <1>6, <1>7, <1>8, <1>9, <1>10, <1>11, <1>12 DEF Next

-----------------------------------------------------------------------------
(* The invariant the properties rest on: both tiers are well formed, they
   agree on the sheets, and no sheet but the spare is empty. *)
THEOREM Invariance == Spec => []Sound(r)
<1>1. Init => Sound(r)
  BY FreshSound DEF Init
<1>2. Sound(r) /\ [Next]_r => Sound(r)'
  BY Step
<1> QED BY <1>1, <1>2, PTL DEF Spec

(* The pool and the small tier agree on which blocks are sheets
   (small_alloc_slow, release_sheet, reset). *)
THEOREM Agreement == Spec => []SheetsAgree
<1>1. Sound(r) => SheetsAgree
  BY DEF Sound, Core, SheetsAgree
<1> QED BY Invariance, <1>1, PTL

(* At most one sheet is empty, and it is the spare (__sheet_emptied,
   small_alloc_slow, flush_spare). *)
THEOREM OneSpare == Spec => []OneEmptySheet
<1>1. Sound(r) => OneEmptySheet
  BY DEF Sound, OneEmptySheet
<1> QED BY Invariance, <1>1, PTL

(* Types, tilings, lists, bitmaps and chains of both tiers stay well formed
   under the traffic of sheets between them. *)
THEOREM WellFormedTiers == Spec => []TiersWellFormed
<1>1. ASSUME Sound(r) PROVE TiersWellFormed
  <2>1. /\ WellFormed(r.pool) /\ FullyCoalesced(r.pool) /\ TierWell(r.tlsf)
        /\ r.spare \in Units \union {Null}
    BY <1>1 DEF Sound, Core, PoolWell
  <2>2. /\ T!UsedBlocks(r.tlsf) \subseteq DOMAIN r.tlsf.hdr /\ DOMAIN r.tlsf.hdr \subseteq Places
        /\ r.tlsf.marks = T!UsedBlocks(r.tlsf) /\ r.tlsf.count \in 0 .. MaxSheets
    BY <2>1, TierTyped
  <2>3. TypeOK
    BY <2>1, <2>2 DEF TypeOK, WellFormed
  <2>4. T!PhysicallyLinked(r.tlsf) /\ T!FreeBlocksApart(r.tlsf) /\ T!ListsHoldFreeBlocks(r.tlsf)
    BY <2>1, TierShape
  <2> QED BY <2>1, <2>3, <2>4 DEF TiersWellFormed, WellFormed
<1>2. Sound(r) => TiersWellFormed
  BY <1>1
<1> QED BY Invariance, <1>2, PTL

(* A pointer is taken for a block in use exactly if it is one (locate,
   owns_len, __order_at). *)
THEOREM ExactLocate == Spec => []LocateExact
<1>1. Sound(r) => LocateExact
  BY OwnsSmallUse, OwnsLargeUse DEF Sound, LocateExact
<1> QED BY Invariance, <1>1, PTL

(* A request is refused only when there is no room for it (large_alloc_slow,
   small_alloc_slow). *)
THEOREM Refusals == Spec => []NoFalseRefusal
<1>1. ASSUME Sound(r) PROVE NoFalseRefusal
  <2>1. \A o \in Orders : RoomFor(r, o) => LargeAlloc(r, o) # {}
    BY <1>1, LargeServed
  <2>2. \A n \in Requests :
          RoomFor(r, SheetOrder) /\ r.tlsf.count < MaxSheets => SmallAlloc(r, n) # {}
    BY <1>1, SmallServed, RequestsAssumption
  <2> QED BY <2>1, <2>2 DEF NoFalseRefusal
<1>2. Sound(r) => NoFalseRefusal
  BY <1>1
<1> QED BY Invariance, <1>2, PTL

(* Once the last live block is freed and the spare given back, the region is
   as it was attached (small_free, release, flush_spare). *)
THEOREM BackToFresh == Spec => []EmptyRegionIsFresh
<1>1. ASSUME Sound(r), LargeIn(r) = {}, SmallIn(r) = {} PROVE FlushSpare(r) = FreshRegion
  <2>1. EmptySheets(r) = SheetsIn(r)
    BY <1>1, CoreFacts DEF Sound
  <2> DEFINE d == FlushSpare(r)
  <2>2. Sound(d) /\ SameBlocks(r, d) /\ d.spare = Null /\ SheetsIn(d) = {}
    BY <1>1, <2>1, FlushSound
  <2>3. LargeIn(d) = {}
    BY <1>1, <2>2 DEF SameBlocks
  <2> HIDE DEF d
  <2>4. d = FreshRegion
    BY <2>2, <2>3, NothingLeft DEF Sound
  <2> QED BY <2>4 DEF d
<1>2. Sound(r) => EmptyRegionIsFresh
  BY <1>1 DEF EmptyRegionIsFresh
<1> QED BY Invariance, <1>2, PTL

-----------------------------------------------------------------------------
(***************************************************************************)
(* Steps.  The blocks of a region, each with its place and its size.       *)
(***************************************************************************)
Live(q) == {[at |-> <<u, Null>>, size |-> q.pool.tags[u].order] : u \in LargeIn(q)}
           \union {[at |-> x, size |-> q.tlsf.hdr[x].size] : x \in SmallIn(q)}

LEMMA LivePlaces ==
  ASSUME NEW q, Core(q)
  PROVE  \A b, c \in Live(q) : b.at = c.at => b = c
<1>1. \A x \in SmallIn(q) : x[2] # Null
  <2> SUFFICES ASSUME NEW x \in SmallIn(q) PROVE x[2] # Null
    OBVIOUS
  <2>1. x \in Places
    BY CoreFacts
  <2>2. x[2] \in 0 .. DataUnits - 1
    BY <2>1 DEF Places
  <2> QED BY <2>2, NullOutside, TierAssumption
<1> SUFFICES ASSUME NEW b \in Live(q), NEW c \in Live(q), b.at = c.at PROVE b = c
  OBVIOUS
<1>2. CASE \E u \in LargeIn(q) : b = [at |-> <<u, Null>>, size |-> q.pool.tags[u].order]
  <2>1. PICK u \in LargeIn(q) : b = [at |-> <<u, Null>>, size |-> q.pool.tags[u].order]
    BY <1>2
  <2>2. b.at = <<u, Null>> /\ b.at[1] = u /\ b.at[2] = Null
    BY <2>1
  <2>3. c.at \notin SmallIn(q)
    BY <1>1, <2>2
  <2>4. PICK v \in LargeIn(q) : c = [at |-> <<v, Null>>, size |-> q.pool.tags[v].order]
    BY <2>3 DEF Live
  <2>5. c.at[1] = v
    BY <2>4
  <2> QED BY <2>1, <2>2, <2>4, <2>5
<1>3. CASE \E x \in SmallIn(q) : b = [at |-> x, size |-> q.tlsf.hdr[x].size]
  <2>1. PICK x \in SmallIn(q) : b = [at |-> x, size |-> q.tlsf.hdr[x].size]
    BY <1>3
  <2>2. \A v \in LargeIn(q) : c # [at |-> <<v, Null>>, size |-> q.pool.tags[v].order]
    <3> SUFFICES ASSUME NEW v \in LargeIn(q), c = [at |-> <<v, Null>>, size |-> q.pool.tags[v].order]
                 PROVE  FALSE
      OBVIOUS
    <3>1. c.at[2] = Null /\ b.at = x
      BY <2>1
    <3> QED BY <1>1, <3>1
  <2>3. PICK y \in SmallIn(q) : c = [at |-> y, size |-> q.tlsf.hdr[y].size]
    BY <2>2 DEF Live
  <2> QED BY <2>1, <2>3
<1> QED BY <1>2, <1>3 DEF Live

LEMMA LiveKept ==
  ASSUME NEW q, NEW d, NEW at, Kept(q, d, at)
  PROVE  /\ \A b \in Live(q) : b.at # at => b \in Live(d)
         /\ \A b \in Live(d) : b.at # at => b \in Live(q)
<1>1. ASSUME NEW e, NEW f, NEW b \in Live(e), b.at # at, Kept(e, f, at)
      PROVE  b \in Live(f)
  <2>1. CASE \E u \in LargeIn(e) : b = [at |-> <<u, Null>>, size |-> e.pool.tags[u].order]
    <3>1. PICK u \in LargeIn(e) : b = [at |-> <<u, Null>>, size |-> e.pool.tags[u].order]
      BY <2>1
    <3>2. u \in Units /\ <<u, Null>> # at
      BY <1>1, <3>1 DEF LargeIn
    <3>3. u \in LargeIn(f) /\ f.pool.tags[u] = e.pool.tags[u]
      BY <1>1, <3>2 DEF Kept
    <3> QED BY <3>1, <3>3 DEF Live
  <2>2. CASE \E x \in SmallIn(e) : b = [at |-> x, size |-> e.tlsf.hdr[x].size]
    <3>1. PICK x \in SmallIn(e) : b = [at |-> x, size |-> e.tlsf.hdr[x].size]
      BY <2>2
    <3>2. x # at
      BY <1>1, <3>1
    <3>3. x \in SmallIn(f) /\ f.tlsf.hdr[x].size = e.tlsf.hdr[x].size
      BY <1>1, <3>2 DEF Kept
    <3> QED BY <3>1, <3>3 DEF Live
  <2> QED BY <1>1, <2>1, <2>2 DEF Live
<1>2. Kept(d, q, at)
  BY DEF Kept
<1>3. \A b \in Live(q) : b.at # at => b \in Live(d)
  BY <1>1
<1>4. \A b \in Live(d) : b.at # at => b \in Live(q)
  BY <1>1, <1>2
<1> QED BY <1>3, <1>4

LEMMA AtMostOne ==
  ASSUME NEW S, \A b, c \in S : b = c
  PROVE  Cardinality(S) <= 1
<1>1. CASE S = {}
  <2>1. Cardinality(S) = 0
    BY <1>1, FS_EmptySet
  <2> QED BY <2>1
<1>2. CASE S # {}
  <2>1. PICK b \in S : S = {b}
    BY <1>2
  <2>2. Cardinality({b}) = 1
    BY FS_Singleton
  <2> QED BY <2>1, <2>2
<1> QED BY <1>1, <1>2

(* A step never takes back, moves or cuts a block but the one it is about,
   and that one keeps its place (alloc, release, shrink_at, grow_at). *)
THEOREM OthersKept == Spec => OthersUndisturbed
<1>1. LiveBlocks = Live(r) /\ LiveBlocks' = Live(r')
  BY DEF LiveBlocks, Live
<1> DEFINE lost   == LiveBlocks \ LiveBlocks'
           gained == LiveBlocks' \ LiveBlocks
<1>2. ASSUME Sound(r), [Next]_r, r' # FreshRegion
      PROVE  /\ Cardinality(lost) <= 1 /\ Cardinality(gained) <= 1
             /\ \A a \in lost, g \in gained : a.at = g.at
  <2>1. Core(r) /\ Core(r')
    BY <1>2, Step DEF Sound
  <2>2. PICK at : Kept(r, r', at)
    BY <1>2, Step
  <2>3. /\ \A a \in lost : a \in Live(r) /\ a.at = at
        /\ \A g \in gained : g \in Live(r') /\ g.at = at
    BY <1>1, <2>2, LiveKept
  <2>4. \A a, b \in lost : a = b
    BY <2>1, <2>3, LivePlaces
  <2>5. \A a, b \in gained : a = b
    BY <2>1, <2>3, LivePlaces
  <2> HIDE DEF lost, gained
  <2> QED BY <2>3, <2>4, <2>5, AtMostOne
<1>3. Sound(r) /\ [Next]_r =>
        [r' # FreshRegion =>
           LET lost1 == LiveBlocks \ LiveBlocks'  gained1 == LiveBlocks' \ LiveBlocks
           IN  /\ Cardinality(lost1) <= 1 /\ Cardinality(gained1) <= 1
               /\ \A a \in lost1, g \in gained1 : a.at = g.at]_r
  BY <1>2
<1> QED BY Invariance, <1>3, PTL DEF Spec, OthersUndisturbed

-----------------------------------------------------------------------------
(***************************************************************************)
(* What is counted.  The units in use are those of large blocks and those  *)
(* of sheets, as many for each sheet; what the small tier counts is taken  *)
(* off again for the sheets.                                               *)
(***************************************************************************)
UnitsOfLarge(q)  == {u \in Units : \E v \in LargeIn(q) : u \in Span(v, q.pool.tags[v].order)}
UnitsOfSheets(q) == {u \in Units : \E s \in SheetsIn(q) : u \in Span(s, SheetOrder)}

LEMMA InUseUnits ==
  ASSUME NEW q, Core(q), NEW v \in Units, InUse(q.pool, v)
  PROVE  LET o == q.pool.tags[v].order
         IN  /\ o \in Orders /\ <<v, o>> \in Blocks(q.pool) /\ <<v, o>> \in InUseBlocks(q.pool)
             /\ Aligned(v, o) /\ InPool(v, o)
<1> DEFINE o == q.pool.tags[v].order
<1>1. q.pool \in PoolShapes /\ Tiles(Blocks(q.pool))
  BY DEF Core, PoolWell, WellFormed
<1>2. o \in Orders
  BY <1>1, InUseTag
<1>3. <<v, o>> \in InUseBlocks(q.pool)
  BY DEF InUseBlocks, InUse
<1>4. <<v, o>> \in Blocks(q.pool)
  BY <1>3 DEF Blocks
<1>5. Aligned(v, o) /\ InPool(v, o)
  BY <1>1, <1>4 DEF Tiles
<1> QED BY <1>2, <1>3, <1>4, <1>5

LEMMA SheetSpan ==
  ASSUME NEW q, Core(q), NEW s \in SheetsIn(q)
  PROVE  /\ s \in Units /\ InUse(q.pool, s) /\ q.pool.tags[s].order = SheetOrder
         /\ Aligned(s, SheetOrder) /\ InPool(s, SheetOrder)
<1>1. s \in Units /\ InUse(q.pool, s)
  BY CoreFacts
<1>2. q.pool.tags[s].order = SheetOrder
  BY DEF Core, SheetsMatch
<1> QED BY <1>1, <1>2, InUseUnits

(* The units of the sheets, counted sheet by sheet. *)
LEMMA SheetUnitsCounted ==
  ASSUME NEW q, Core(q)
  PROVE  Cardinality(UnitsOfSheets(q)) = q.tlsf.count * OrderSize[SheetOrder]
<1> DEFINE S == SheetsIn(q)
           D == 0 .. OrderSize[SheetOrder] - 1
           P == S \X D
           U == UnitsOfSheets(q)
           f == [x \in P |-> x[1] + x[2]]
<1>1. SheetOrder \in Orders /\ OrderSize[SheetOrder] \in Nat \ {0} /\ Units \subseteq Nat
  BY RegionAssumption, OrderSizeFacts, TotalAssumption DEF Units
<1>2. ASSUME NEW x \in P
      PROVE  /\ x = <<x[1], x[2]>> /\ x[1] \in S /\ x[1] \in Nat /\ x[2] \in Nat
             /\ Aligned(x[1], SheetOrder) /\ f[x] = x[1] + x[2]
             /\ f[x] \in Units /\ f[x] \in Nat /\ f[x] \in Span(x[1], SheetOrder)
  <2>1. x = <<x[1], x[2]>> /\ x[1] \in S /\ x[2] \in D
    OBVIOUS
  <2>2. x[1] \in Units /\ Aligned(x[1], SheetOrder) /\ InPool(x[1], SheetOrder)
    BY <2>1, SheetSpan
  <2>3. x[1] \in Nat /\ x[2] \in Nat /\ f[x] = x[1] + x[2]
    <3>1. x[1] \in Nat
      BY <1>1, <2>2
    <3>2. x[2] \in Nat
      BY <1>1, <2>1
    <3>3. f[x] = x[1] + x[2]
      <4> HIDE DEF P
      <4> QED OBVIOUS
    <3> QED BY <3>1, <3>2, <3>3
  <2> HIDE DEF f
  <2>4. f[x] \in Span(x[1], SheetOrder)
    BY <1>1, <2>1, <2>3 DEF Span
  <2>5. f[x] \in Units
    BY <1>1, <2>2, <2>4, SpanFacts
  <2> QED BY <1>1, <2>1, <2>2, <2>3, <2>4, <2>5
<1>3. f \in [P -> U]
  <2>1. \A x \in P : f[x] \in U
    BY <1>2 DEF UnitsOfSheets
  <2> HIDE DEF P, U
  <2> QED BY <2>1
<1>4. \A x, y \in P : f[x] = f[y] => x = y
  <2> SUFFICES ASSUME NEW x \in P, NEW y \in P, f[x] = f[y] PROVE x = y
    OBVIOUS
  <2>1. /\ x = <<x[1], x[2]>> /\ x[1] \in Nat /\ x[2] \in Nat /\ Aligned(x[1], SheetOrder)
        /\ f[x] = x[1] + x[2] /\ f[x] \in Nat /\ f[x] \in Span(x[1], SheetOrder)
    BY <1>2
  <2>2. /\ y = <<y[1], y[2]>> /\ y[1] \in Nat /\ y[2] \in Nat /\ Aligned(y[1], SheetOrder)
        /\ f[y] = y[1] + y[2] /\ f[y] \in Nat /\ f[y] \in Span(y[1], SheetOrder)
    BY <1>2
  <2> HIDE DEF f, P
  <2>3. Level(f[x], SheetOrder) = x[1]
    BY <1>1, <2>1, InSpan
  <2>4. Level(f[y], SheetOrder) = y[1]
    BY <1>1, <2>2, InSpan
  <2>5. x[1] = y[1]
    BY <2>3, <2>4
  <2>6. x[2] = y[2]
    <3>1. PICK a \in Nat, i \in Nat, j \in Nat : a = x[1] /\ i = x[2] /\ j = y[2]
      BY <2>1, <2>2
    <3>2. a + i = a + j
      BY <2>1, <2>2, <2>5, <3>1
    <3>3. i = j
      BY <3>2
    <3> QED BY <3>1, <3>3
  <2> QED BY <2>1, <2>2, <2>5, <2>6
<1>5. \A u \in U : \E x \in P : f[x] = u
  <2> SUFFICES ASSUME NEW u \in U PROVE \E x \in P : f[x] = u
    OBVIOUS
  <2>1. PICK s \in S : u \in Span(s, SheetOrder)
    BY DEF UnitsOfSheets
  <2>2. s \in Nat
    BY <1>1, SheetSpan
  <2>3. PICK i \in D : u = s + i
    <3>1. u - s \in D /\ u = s + (u - s)
      BY <1>1, <2>1, <2>2 DEF Span
    <3> QED BY <3>1
  <2>4. <<s, i>> \in P /\ f[<<s, i>>] = u
    BY <2>3
  <2> QED BY <2>4
<1>6. IsFiniteSet(S) /\ Cardinality(S) = q.tlsf.count
  BY CoreFacts
<1>7. IsFiniteSet(D) /\ Cardinality(D) = OrderSize[SheetOrder]
  <2>1. OrderSize[SheetOrder] - 1 \in Int /\ 0 \in Int
    BY <1>1
  <2>2. IsFiniteSet(D) /\ Cardinality(D) = IF 0 > OrderSize[SheetOrder] - 1 THEN 0
                                            ELSE (OrderSize[SheetOrder] - 1) - 0 + 1
    BY <2>1, FS_Interval
  <2> QED BY <1>1, <2>2
<1>8. IsFiniteSet(P) /\ Cardinality(P) = Cardinality(S) * Cardinality(D)
  BY <1>6, <1>7, FS_Product
<1>9. ExistsBijection(P, U)
  <2> HIDE DEF f, P, U
  <2>1. f \in Bijection(P, U)
    BY <1>3, <1>4, <1>5 DEF Bijection, Injection, IsInjective, Surjection
  <2> QED BY <2>1 DEF ExistsBijection
<1>10. Cardinality(U) = Cardinality(P)
  <2> HIDE DEF P, U
  <2> QED BY <1>8, <1>9, FS_Bijection
<1> QED BY <1>6, <1>7, <1>8, <1>10

(* The counter of the pool, by large blocks and sheets. *)
LEMMA PoolCounted ==
  ASSUME NEW q, Core(q)
  PROVE  /\ Cardinality(UnitsOfLarge(q)) \in Nat
         /\ q.pool.allocated = Cardinality(UnitsOfLarge(q)) + q.tlsf.count * OrderSize[SheetOrder]
<1> DEFINE L == UnitsOfLarge(q)
           S == UnitsOfSheets(q)
<1>1. Tiles(Blocks(q.pool)) /\ Charged(q.pool)
  BY DEF Core, PoolWell, WellFormed
<1>2. Covered(InUseBlocks(q.pool)) = L \union S
  <2>1. ASSUME NEW u \in Covered(InUseBlocks(q.pool)) PROVE u \in L \union S
    <3>1. PICK blk \in InUseBlocks(q.pool) : u \in Units /\ u \in Span(blk[1], blk[2])
      BY <2>1 DEF Covered
    <3>2. PICK v \in Units : InUse(q.pool, v) /\ blk = <<v, q.pool.tags[v].order>>
      BY <3>1 DEF InUseBlocks, InUse
    <3>3. u \in Span(v, q.pool.tags[v].order)
      BY <3>1, <3>2
    <3>4. v \in SheetsIn(q) \/ v \in LargeIn(q)
      BY <3>2, CoreFacts
    <3>5. v \in SheetsIn(q) => q.pool.tags[v].order = SheetOrder
      BY SheetSpan
    <3> QED BY <3>1, <3>3, <3>4, <3>5 DEF UnitsOfLarge, UnitsOfSheets
  <2>2. ASSUME NEW v \in Units, InUse(q.pool, v), NEW u \in Units, u \in Span(v, q.pool.tags[v].order)
        PROVE  u \in Covered(InUseBlocks(q.pool))
    <3> DEFINE blk == <<v, q.pool.tags[v].order>>
    <3>1. blk \in InUseBlocks(q.pool) /\ blk[1] = v /\ blk[2] = q.pool.tags[v].order
      BY <2>2, InUseUnits
    <3> HIDE DEF blk
    <3> QED BY <2>2, <3>1 DEF Covered
  <2>3. ASSUME NEW u \in L \union S PROVE u \in Covered(InUseBlocks(q.pool))
    <3>1. CASE u \in L
      <4>1. PICK v \in LargeIn(q) : u \in Units /\ u \in Span(v, q.pool.tags[v].order)
        BY <3>1 DEF UnitsOfLarge
      <4>2. v \in Units /\ InUse(q.pool, v)
        BY <4>1, CoreFacts DEF LargeIn
      <4> QED BY <2>2, <4>1, <4>2
    <3>2. CASE u \in S
      <4>1. PICK s \in SheetsIn(q) : u \in Units /\ u \in Span(s, SheetOrder)
        BY <3>2 DEF UnitsOfSheets
      <4>2. s \in Units /\ InUse(q.pool, s) /\ q.pool.tags[s].order = SheetOrder
        BY <4>1, SheetSpan
      <4>3. u \in Span(s, q.pool.tags[s].order)
        BY <4>1, <4>2
      <4> QED BY <2>2, <4>1, <4>2, <4>3
    <3> QED BY <2>3, <3>1, <3>2
  <2> QED BY <2>1, <2>3
<1>3. L \cap S = {}
  <2> SUFFICES ASSUME NEW u \in L, u \in S PROVE FALSE
    OBVIOUS
  <2>1. PICK v \in LargeIn(q) : u \in Units /\ u \in Span(v, q.pool.tags[v].order)
    BY DEF UnitsOfLarge
  <2>2. PICK s \in SheetsIn(q) : u \in Span(s, SheetOrder)
    BY DEF UnitsOfSheets
  <2> DEFINE x == <<v, q.pool.tags[v].order>>
             y == <<s, SheetOrder>>
  <2>3. x \in Blocks(q.pool) /\ x[1] = v /\ x[2] = q.pool.tags[v].order
    <3>1. v \in Units /\ InUse(q.pool, v)
      BY <2>1, CoreFacts DEF LargeIn
    <3> QED BY <3>1, InUseUnits
  <2>4. y \in Blocks(q.pool) /\ y[1] = s /\ y[2] = SheetOrder
    <3>1. s \in Units /\ InUse(q.pool, s) /\ q.pool.tags[s].order = SheetOrder
      BY <2>2, SheetSpan
    <3>2. <<s, q.pool.tags[s].order>> \in Blocks(q.pool)
      BY <3>1, InUseUnits
    <3> QED BY <3>1, <3>2
  <2>5. v # s
    BY <2>1, <2>2, CoreFacts
  <2> HIDE DEF x, y
  <2>6. x = y
    BY <1>1, <2>1, <2>2, <2>3, <2>4 DEF Tiles
  <2> QED BY <2>3, <2>4, <2>5, <2>6
<1>4. IsFiniteSet(Units)
  BY TierSizes
<1>5. /\ IsFiniteSet(L) /\ IsFiniteSet(S)
      /\ Cardinality(L) \in Nat /\ Cardinality(S) \in Nat
  <2>1. L \subseteq Units /\ S \subseteq Units
    BY DEF UnitsOfLarge, UnitsOfSheets
  <2>2. IsFiniteSet(L) /\ IsFiniteSet(S)
    BY <1>4, <2>1, FS_Subset
  <2> QED BY <2>2, FS_CardinalityType
<1>6. Cardinality(L \cap S) = 0
  BY <1>3, FS_EmptySet
<1> HIDE DEF L, S
<1>7. Cardinality(L \union S) = Cardinality(L) + Cardinality(S) - Cardinality(L \cap S)
  BY <1>5, FS_Union
<1>8. q.pool.allocated = Cardinality(L) + Cardinality(S)
  BY <1>1, <1>2, <1>5, <1>6, <1>7 DEF Charged
<1> QED BY <1>5, <1>8, SheetUnitsCounted DEF L, S

(* The counter of the small tier. *)
LEMMA TierCounted ==
  ASSUME NEW q, Core(q)
  PROVE  LET held == {g \in Places : \E x \in SmallIn(q) :
                        g[1] = x[1] /\ g[2] \in x[2] .. x[2] + q.tlsf.hdr[x].size - 1}
         IN  q.tlsf.allocated = Cardinality(held) /\ Cardinality(held) \in Nat
<1> DEFINE h == q.tlsf.hdr
           held == {g \in Places : \E x \in SmallIn(q) :
                      g[1] = x[1] /\ g[2] \in x[2] .. x[2] + h[x].size - 1}
<1>1. q.tlsf.allocated = TP!Cardinality(TP!Taken(h, TP!UsedIn(h)))
  BY DEF Core, TierWell, TP!Exact
<1>2. TP!UsedIn(h) = SmallIn(q)
  BY TierNames DEF SmallIn
<1>3. TP!Taken(h, SmallIn(q)) = held
  <2>1. TP!Taken(h, SmallIn(q)) =
          {g \in Places : \E x \in SmallIn(q) : g[1] = x[1] /\ g[2] \in x[2] .. (x[2] + h[x].size) - 1}
    BY Zenon DEF TP!Taken, TP!EndOf, TP!Places, Places
  <2>2. \A x \in SmallIn(q) : (x[2] + h[x].size) - 1 = x[2] + h[x].size - 1
    <3> SUFFICES ASSUME NEW x \in SmallIn(q) PROVE (x[2] + h[x].size) - 1 = x[2] + h[x].size - 1
      OBVIOUS
    <3>1. x \in Places /\ h[x].size \in Nat
      BY CoreFacts, TierTyped DEF Core, SmallIn
    <3>2. x[2] \in 0 .. DataUnits - 1
      BY <3>1 DEF Places
    <3> QED BY <3>1, <3>2, TierAssumption
  <2> QED BY <2>1, <2>2
<1>4. Cardinality(held) \in Nat
  <2>1. IsFiniteSet(0 .. DataUnits - 1)
    BY FS_Interval, TierAssumption
  <2>2. IsFiniteSet(Places)
    BY <2>1, TierSizes, FS_Product DEF Places
  <2>3. IsFiniteSet(held)
    <3>1. held \subseteq Places
      OBVIOUS
    <3> HIDE DEF held
    <3> QED BY <2>2, <3>1, FS_Subset
  <2> HIDE DEF held
  <2> QED BY <2>3, FS_CardinalityType
<1> QED BY <1>1, <1>2, <1>3, <1>4, TierSizes

(* used() is what the live blocks and the sheets in use cover (used). *)
THEOREM UsedCounts == Spec => []UsedExact
<1>1. ASSUME Sound(r) PROVE UsedExact
  <2>1. Core(r) /\ OnlySpareEmpty(r)
    BY <1>1 DEF Sound
  <2>2. PICK U \in Nat, B \in Nat, K \in Nat, D \in Nat, C \in Nat, L \in Nat :
          /\ U = UnitGranules /\ B = OrderSize[SheetOrder] /\ K = SheetGranules
          /\ D = DataUnits /\ C = r.tlsf.count /\ L = Cardinality(LargeUnits)
          /\ K = U * B /\ D < K
    <3>1. /\ UnitGranules \in Nat /\ OrderSize[SheetOrder] \in Nat /\ DataUnits \in Nat
          /\ r.tlsf.count \in Nat /\ DataUnits < UnitGranules * OrderSize[SheetOrder]
      BY <2>1, RegionAssumption, TierAssumption, OrderSizeFacts, CoreFacts
    <3>2. Cardinality(LargeUnits) \in Nat
      BY <2>1, PoolCounted DEF LargeUnits, UnitsOfLarge
    <3>3. SheetGranules \in Nat /\ SheetGranules = UnitGranules * OrderSize[SheetOrder]
      BY <3>1 DEF SheetGranules
    <3> QED BY <3>1, <3>2, <3>3
  <2>3. r.pool.allocated = L + C * B
    BY <2>1, <2>2, PoolCounted DEF LargeUnits, UnitsOfLarge
  <2> DEFINE E == EmptySheets(r)
             S == SheetsIn(r)
             Held == r.spare # Null /\ IsSheetAt(r, r.spare) /\ T!SheetEmpty(r.tlsf, r.spare)
  <2>4. /\ IsFiniteSet(S) /\ Cardinality(S) = C /\ E \subseteq S /\ E \subseteq {r.spare}
        /\ Null \notin S
    BY <2>1, <2>2, CoreFacts DEF OnlySpareEmpty, EmptySheets
  <2>5. Held <=> r.spare \in E
    BY <2>1, CoreFacts DEF EmptySheets, SheetsIn, IsSheetAt, OnlySpareEmpty
  <2>6. Used(r) = (IF U * (L + C * B) < C * D + (IF Held THEN K - D ELSE 0) THEN 0
                   ELSE U * (L + C * B) - (C * D + (IF Held THEN K - D ELSE 0)))
                  + r.tlsf.allocated
    BY <2>2, <2>3 DEF Used
  <2>7. PICK M \in Nat : M = Cardinality(SmallGranules) /\ r.tlsf.allocated = M
    BY <2>1, TierCounted DEF SmallGranules
  <2> HIDE DEF Held
  <2>11. Used(r) = U * L + (K - D) * Cardinality(S \ E) + r.tlsf.allocated => UsedExact
    <3>1. UsedExact <=> Used(r) = U * L + M + (K - D) * Cardinality(S \ E)
      BY <2>2, <2>7 DEF UsedExact
    <3>2. PICK z \in Nat : z = Cardinality(S \ E)
      <4>1. IsFiniteSet(S \ E)
        BY <2>4, FS_Subset
      <4> QED BY <4>1, FS_CardinalityType
    <3>3. U * L + M + (K - D) * z = U * L + (K - D) * z + M
      BY <2>2, <2>7
    <3> QED BY <2>7, <3>1, <3>2, <3>3
  <2>8. U * (L + C * B) = U * L + C * K
    BY <2>2
  <2>9. CASE Held
    <3>1. E = {r.spare} /\ r.spare \in S
      BY <2>4, <2>5, <2>9
    <3>2. Cardinality(S \ E) = C - 1 /\ C \in Nat \ {0}
      <4>1. IsFiniteSet(S \ {r.spare}) /\ Cardinality(S \ {r.spare}) = C - 1
        BY <2>4, <3>1, FS_RemoveElement
      <4>2. Cardinality(S \ {r.spare}) \in Nat
        BY <4>1, FS_CardinalityType
      <4> QED BY <3>1, <4>1, <4>2
    <3>3. PICK c \in Nat : C = c + 1
      <4>1. C - 1 \in Nat /\ C = (C - 1) + 1
        BY <3>2
      <4> QED BY <4>1
    <3>4. Cardinality(S \ E) = c
      BY <3>2, <3>3
    <3>5. U * L + C * K - (C * D + (K - D)) = U * L + (K - D) * c
      <4>1. C * K = c * K + K /\ C * D = c * D + D /\ (K - D) * c = c * K - c * D
        BY <2>2, <3>3
      <4>2. PICK p \in Nat, t \in Nat, w \in Nat : p = c * K /\ t = c * D /\ w = U * L
        <5>1. c * K \in Nat /\ c * D \in Nat /\ U * L \in Nat
          BY <2>2, <3>3
        <5> QED BY <5>1
      <4>3. w + (p + K) - ((t + D) + (K - D)) = w + (p - t)
        BY <2>2, <4>2
      <4> QED BY <4>1, <4>2, <4>3
    <3>6. U * L + (K - D) * c \in Nat
      BY <2>2
    <3>7. Used(r) = U * L + (K - D) * c + r.tlsf.allocated
      <4> DEFINE a == U * L + C * K
                 e == C * D + (K - D)
                 z == U * L + (K - D) * c
      <4>1. a \in Int /\ e \in Int /\ z \in Nat /\ a - e = z
        BY <2>2, <3>5, <3>6
      <4>2. Used(r) = (IF a < e THEN 0 ELSE a - e) + r.tlsf.allocated
        BY <2>6, <2>8, <2>9
      <4> HIDE DEF a, e, z
      <4>3. Used(r) = z + r.tlsf.allocated
        BY <4>1, <4>2
      <4> QED BY <4>3 DEF z
    <3> QED BY <2>11, <3>4, <3>7
  <2>10. CASE ~ Held
    <3>1. E = {}
      BY <2>4, <2>5, <2>10
    <3>2. Cardinality(S \ E) = C
      BY <2>4, <3>1
    <3>3. U * L + C * K - C * D = U * L + (K - D) * C
      <4>1. (K - D) * C = C * K - C * D
        BY <2>2
      <4>2. PICK p \in Nat, t \in Nat, w \in Nat : p = C * K /\ t = C * D /\ w = U * L
        <5>1. C * K \in Nat /\ C * D \in Nat /\ U * L \in Nat
          BY <2>2
        <5> QED BY <5>1
      <4>3. w + p - t = w + (p - t)
        OBVIOUS
      <4> QED BY <4>1, <4>2, <4>3
    <3>4. U * L + (K - D) * C \in Nat
      BY <2>2
    <3>5. Used(r) = U * L + (K - D) * C + r.tlsf.allocated
      <4> DEFINE a == U * L + C * K
                 e == C * D
                 z == U * L + (K - D) * C
      <4>1. a \in Int /\ e \in Int /\ z \in Nat /\ a - e = z
        BY <2>2, <3>3, <3>4
      <4>2. Used(r) = (IF a < e THEN 0 ELSE a - e) + r.tlsf.allocated
        BY <2>2, <2>6, <2>8, <2>10
      <4> HIDE DEF a, e, z
      <4>3. Used(r) = z + r.tlsf.allocated
        BY <4>1, <4>2
      <4> QED BY <4>3 DEF z
    <3> QED BY <2>11, <3>2, <3>5
  <2> QED BY <2>9, <2>10
<1>2. Sound(r) => UsedExact
  BY <1>1
<1> QED BY Invariance, <1>2, PTL
=============================================================================
