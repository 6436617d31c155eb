------------------------------- MODULE Region -------------------------------
(***************************************************************************)
(* The calls the heap makes on one region (src/src/region.hpp), one action *)
(* each, with the dispatch of a pointer between the two tiers              *)
(* (__heap::locate, src/src/heap.hpp).                                     *)
(***************************************************************************)
EXTENDS RegionOps

CONSTANT Requests   (* payload sizes of small requests, in granules *)

ASSUME RequestsAssumption == Requests \subseteq 1 .. SmallUnits

VARIABLE r   (* the region: see RegionOps *)

Init == r = FreshRegion

(* alloc, n <= __class_small *)
AllocSmall(n) == \E a \in SmallAlloc(r, n) : r' = a.r

(* alloc, n > __class_small, or a small request no sheet is left for *)
AllocLarge(o) ==
  \/ \E a \in LargeAlloc(r, o) : r' = a.r
  \/ LargeAlloc(r, o) = {} /\ r' = LargeAllocFailed(r, o)

(* release *)
FreeSmall(x) == OwnsSmall(r, x) /\ r' = SmallFree(r, x)
FreeLarge(u) ==
  /\ OwnsLarge(r, u)
  /\ r' = [r EXCEPT !.pool = DeallocateOrder(r.pool, u, OrderAt(r.pool, u))]

(* shrink_at; a block of the pool keeps its size *)
ShrinkSmall(x, n) ==
  /\ OwnsSmall(r, x) /\ T!CanShrink(r.tlsf, x, n)
  /\ r' = [r EXCEPT !.tlsf = T!Shrink(r.tlsf, x, n)]

(* grow_at; past __class_small a small block is not grown *)
GrowSmall(x, n) ==
  /\ OwnsSmall(r, x) /\ n <= SmallUnits /\ T!CanGrow(r.tlsf, x, n)
  /\ r' = [r EXCEPT !.tlsf = T!Grow(r.tlsf, x, n)]

GrowLarge(u, want) ==
  /\ OwnsLarge(r, u) /\ OrderAt(r.pool, u) < want
  /\ CanGrow(r.pool, u, OrderAt(r.pool, u), want)
  /\ r' = [r EXCEPT !.pool = GrowTo(r.pool, u, OrderAt(r.pool, u), want)]

(* largest_free: gives the spare back first *)
LargestFree == r' = FlushSpare(r)

Reset == r' = FreshRegion

Next ==
  \/ \E n \in Requests : AllocSmall(n)
  \/ \E o \in Orders : AllocLarge(o)
  \/ \E x \in Places : FreeSmall(x)
  \/ \E u \in Units : FreeLarge(u)
  \/ \E x \in Places, n \in Requests : ShrinkSmall(x, n) \/ GrowSmall(x, n)
  \/ \E u \in Units, want \in Orders : GrowLarge(u, want)
  \/ LargestFree
  \/ Reset

Spec == Init /\ [][Next]_r

-----------------------------------------------------------------------------
(* The state keeps its types. *)
TypeOK ==
  /\ r.pool \in PoolShapes
  /\ DOMAIN r.tlsf.hdr \subseteq Places /\ r.tlsf.marks \subseteq Places
  /\ r.tlsf.count \in 0 .. MaxSheets /\ r.spare \in Units \union {Null}

(* The two tiers agree on which blocks are sheets, through every order in
   which a sheet is acquired, emptied, kept, reused and given back. *)
SheetsAgree == SheetsMatch(r)

(* At most one sheet is empty, and it is the spare: the others return to the
   pool however the frees are interleaved with reuse of the spare. *)
OneEmptySheet == OnlySpareEmpty(r)

(* Both tiers stay well formed under the traffic between them. *)
TiersWellFormed ==
  /\ TypeOK
  /\ Tiles(Blocks(r.pool)) /\ FreeListsMatchTags(r.pool) /\ MaskMatchesLists(r.pool)
  /\ FullyCoalesced(r.pool)
  /\ T!PhysicallyLinked(r.tlsf) /\ T!FreeBlocksApart(r.tlsf) /\ T!ListsHoldFreeBlocks(r.tlsf)

(* A pointer is taken for a block in use exactly if it is one: neither the
   inside of a block, nor a header that was merged away, nor a block of a
   sheet that was given back and became part of another block. *)
LocateExact ==
  /\ \A x \in Places : OwnsSmall(r, x) <=> x \in SmallIn(r)
  /\ \A u \in Units : OwnsLarge(r, u) <=> u \in LargeIn(r)

(* used() is what the live blocks cover, with the headers of their tier and
   the rims of the sheets in use, and nothing for the empty spare. *)
LargeUnits == {u \in Units : \E v \in LargeIn(r) : u \in Span(v, r.pool.tags[v].order)}
SmallGranules ==
  {g \in Places : \E x \in SmallIn(r) :
     g[1] = x[1] /\ g[2] \in x[2] .. x[2] + r.tlsf.hdr[x].size - 1}
UsedExact ==
  Used(r) = UnitGranules * Cardinality(LargeUnits) + Cardinality(SmallGranules)
            + (SheetGranules - DataUnits) * Cardinality(SheetsIn(r) \ EmptySheets(r))

(* A large request is refused only when it fits nowhere between the live
   large blocks and the sheets in use; a small one only when, besides, no
   sheet may be added. *)
NoFalseRefusal ==
  /\ \A o \in Orders : RoomFor(r, o) => LargeAlloc(r, o) # {}
  /\ \A n \in Requests :
       RoomFor(r, SheetOrder) /\ r.tlsf.count < MaxSheets => SmallAlloc(r, n) # {}

(* Once the last live block is freed and the spare given back, the region is
   as it was attached. *)
EmptyRegionIsFresh ==
  LargeIn(r) = {} /\ SmallIn(r) = {} => FlushSpare(r) = FreshRegion

(* A step never takes back, moves or cuts a block but the one it is about:
   giving sheets back, splitting and merging leave the others alone, and a
   block that changes its size keeps its place. *)
LiveBlocks == {[at |-> <<u, Null>>, size |-> r.pool.tags[u].order] : u \in LargeIn(r)}
              \union {[at |-> x, size |-> r.tlsf.hdr[x].size] : x \in SmallIn(r)}
OthersUndisturbed ==
  [][r' # FreshRegion =>
       LET lost == LiveBlocks \ LiveBlocks'  gained == LiveBlocks' \ LiveBlocks
       IN  /\ Cardinality(lost) <= 1 /\ Cardinality(gained) <= 1
           /\ \A a \in lost, g \in gained : a.at = g.at]_r
=============================================================================
