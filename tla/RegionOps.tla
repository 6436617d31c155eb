------------------------------ MODULE RegionOps ------------------------------
(***************************************************************************)
(* One region (src/src/region.hpp): a buddy pool, some of whose blocks are *)
(* sheets of the small-object tier, and the spare, a sheet that is kept    *)
(* when it empties.  The state r of a region has the fields                *)
(*                                                                         *)
(*   pool    the buddy pool, as in BuddyOps                                *)
(*   tlsf    the small-object tier, as in TlsfOps                          *)
(*   spare   the offset of the spare sheet, Null if there is none          *)
(*                                                                         *)
(* Modelled for pools without an order cache, as every configuration of    *)
(* the repository sets it; Buddy covers the cache.  Where the pool leaves  *)
(* open which block of a list it takes, an operation is the set of the     *)
(* states it may end in, paired with the block it returns.                 *)
(***************************************************************************)
EXTENDS BuddyOps

CONSTANTS
  SheetOrder,   (* the order of a sheet: __default_tlsf_sheet              *)
  UnitGranules, (* granules in a unit: __default_min_block / 16            *)
  SlLog2, DataUnits, SmallUnits, MaxSheets   (* as in TlsfOps              *)

ASSUME RegionAssumption ==
  /\ SheetOrder \in Orders /\ CacheCap = 0
  /\ UnitGranules \in Nat \ {0}
  /\ DataUnits < UnitGranules * OrderSize[SheetOrder]

(* What the sizes of the small-object tier must satisfy: see TlsfMapping. *)
ASSUME TierAssumption ==
  /\ SlLog2 \in 1 .. 5
  /\ DataUnits \in Nat /\ SmallUnits \in Nat /\ MaxSheets \in Nat \ {0}
  /\ 2 * (SmallUnits + 2) <= DataUnits

T == INSTANCE TlsfOps WITH Sheets <- Units

Places == Units \X (0 .. DataUnits - 1)   \* where a small block may start

(* attach, reset *)
FreshRegion == [pool |-> Fresh, tlsf |-> T!EmptyTlsf, spare |-> Null]

IsSheetAt(r, u) == r.pool.tags[u].kind = "sheet"

(* __buddy_list::allocate without a cache: the blocks it may return, with the
   pool it leaves. *)
BuddyGrants(pool, o) ==
  IF o < MaxOrder /\ FindFreeOrder(pool, o) < MaxOrder
  THEN LET from == FindFreeOrder(pool, o)
       IN  {[off |-> blk, pool |-> Grant(TakeAndSplit(pool, blk, from, o), blk, o)] :
              blk \in pool.free[from]}
  ELSE {}

(* release_sheet: the sheet leaves the small tier and returns to the pool. *)
\* Mutant of ReleaseSheet: the free lists of the small tier keep its block.
ReleaseSheetKeepListed(r, s) ==
  IF s # Null /\ IsSheetAt(r, s) /\ r.tlsf.count > 0 /\ T!SheetEmpty(r.tlsf, s)
  THEN [pool  |-> DeallocateOrder(UnmarkSheet(r.pool, s), s, SheetOrder),
        tlsf  |-> [r.tlsf EXCEPT !.hdr = T!Drop(r.tlsf.hdr, <<s, 0>>), !.count = @ - 1],
        spare |-> IF r.spare = s THEN Null ELSE r.spare]
  ELSE r

\* Mutant of ReleaseSheet: gives the sheet back whether it is empty or not.
ReleaseSheetInUse(r, s) ==
  IF s # Null /\ IsSheetAt(r, s) /\ r.tlsf.count > 0
  THEN [pool  |-> DeallocateOrder(UnmarkSheet(r.pool, s), s, SheetOrder),
        tlsf  |-> [r.tlsf EXCEPT
                     !.hdr = [x \in {y \in DOMAIN @ : y[1] # s} |-> @[x]], !.count = @ - 1],
        spare |-> IF r.spare = s THEN Null ELSE r.spare]
  ELSE r

ReleaseSheet(r, s) ==
  IF s # Null /\ IsSheetAt(r, s) /\ r.tlsf.count > 0 /\ T!SheetEmpty(r.tlsf, s)
  THEN [pool  |-> DeallocateOrder(UnmarkSheet(r.pool, s), s, SheetOrder),
        tlsf  |-> T!RemoveSheet(r.tlsf, s),
        spare |-> IF r.spare = s THEN Null ELSE r.spare]
  ELSE r

(* flush_spare: the spare is forgotten even when it is in use again. *)
\* Mutant of FlushSpare: the spare is forgotten, not given back.
FlushSpareForget(r) == [r EXCEPT !.spare = Null]

FlushSpare(r) == ReleaseSheet([r EXCEPT !.spare = Null], r.spare)

(* small_alloc_slow: a new sheet, and the block from it. *)
\* Mutant of SmallAllocSlow: the new sheet is not marked.
SmallAllocSlowUnmarked(r, n) ==
  IF r.tlsf.count >= MaxSheets THEN {}
  ELSE {LET t == T!AddSheet(r.tlsf, g.off)
        IN  [x |-> T!Fit(t, n), r |-> [r EXCEPT !.pool = g.pool, !.tlsf = T!Allocate(t, n)]] :
        g \in BuddyGrants(r.pool, SheetOrder)}

SmallAllocSlow(r, n) ==
  IF r.tlsf.count >= MaxSheets THEN {}
  ELSE {LET t     == T!AddSheet(r.tlsf, g.off)
            added == [r EXCEPT !.pool = MarkSheet(g.pool, g.off), !.tlsf = t]
        IN  IF T!Fit(t, n) = T!NullOff
            THEN [x |-> T!NullOff, r |-> ReleaseSheet(added, g.off)]
            ELSE [x |-> T!Fit(t, n), r |-> [added EXCEPT !.tlsf = T!Allocate(t, n)]] :
        g \in BuddyGrants(r.pool, SheetOrder)}

(* small_alloc *)
SmallAlloc(r, n) ==
  IF T!Fit(r.tlsf, n) # T!NullOff
  THEN {[x |-> T!Fit(r.tlsf, n), r |-> [r EXCEPT !.tlsf = T!Allocate(r.tlsf, n)]]}
  ELSE SmallAllocSlow(r, n)

(* __sheet_emptied: becomes the spare unless there is an empty spare. *)
\* Mutant of SheetEmptied: the new sheet always becomes the spare.
SheetEmptiedForget(r, s) == [r EXCEPT !.spare = s]

SheetEmptied(r, s) ==
  IF r.spare = Null \/ ~ T!SheetEmpty(r.tlsf, r.spare)
  THEN [r EXCEPT !.spare = s] ELSE ReleaseSheet(r, s)

(* small_free *)
SmallFree(r, x) ==
  LET freed == [r EXCEPT !.tlsf = T!Deallocate(r.tlsf, x)]
  IN  IF T!SheetEmpty(freed.tlsf, x[1]) /\ x[1] # r.spare
      THEN SheetEmptied(freed, x[1]) ELSE freed

(* large_alloc_slow: gives the spare back and tries again. *)
LargeGrants(r, o) == {[x |-> g.off, r |-> [r EXCEPT !.pool = g.pool]] : g \in BuddyGrants(r.pool, o)}

\* Mutant of LargeAllocSlow: tries again without giving the spare back.
LargeAllocSlowKeepSpare(r, o) ==
  IF r.spare = Null \/ o >= MaxOrder THEN {} ELSE LargeGrants(r, o)

LargeAllocSlow(r, o) ==
  IF r.spare = Null \/ o >= MaxOrder THEN {} ELSE LargeGrants(FlushSpare(r), o)

(* The state large_alloc leaves when it fails: the spare is gone. *)
LargeAllocFailed(r, o) == IF r.spare = Null \/ o >= MaxOrder THEN r ELSE FlushSpare(r)

(* large_alloc, large_alloc_aligned *)
LargeAlloc(r, o) == IF LargeGrants(r, o) # {} THEN LargeGrants(r, o) ELSE LargeAllocSlow(r, o)

(* used, in granules *)
SheetGranules == UnitGranules * OrderSize[SheetOrder]

\* Mutant of Used: the empty spare is charged to the user.
UsedWithSpare(r) ==
  LET pool   == UnitGranules * r.pool.allocated
      credit == r.tlsf.count * DataUnits
  IN  (IF pool < credit THEN 0 ELSE pool - credit) + r.tlsf.allocated

Used(r) ==
  LET pool   == UnitGranules * r.pool.allocated
      credit == r.tlsf.count * DataUnits
                + (IF r.spare # Null /\ IsSheetAt(r, r.spare) /\ T!SheetEmpty(r.tlsf, r.spare)
                   THEN SheetGranules - DataUnits ELSE 0)
  IN  (IF pool < credit THEN 0 ELSE pool - credit) + r.tlsf.allocated

(* locate: a pointer into a sheet is the small tier's to judge, any other
   the pool's. *)
SheetStart(u)   == Level(u, SheetOrder)
OwnsSmall(r, x) == IsSheetAt(r, x[1]) /\ T!Owns(r.tlsf, x)

\* Mutant of OwnsLarge: the pool is asked without looking for a sheet.
OwnsLargeAnyway(r, u) == OrderAt(r.pool, u) # Null

OwnsLarge(r, u) == ~ IsSheetAt(r, SheetStart(u)) /\ OrderAt(r.pool, u) # Null

-----------------------------------------------------------------------------
(* What a region holds for its users, and what a well-formed one is. *)
SheetsIn(r)  == {u \in Units : r.pool.tags[u].kind = "sheet"}
LargeIn(r)   == {u \in Units : r.pool.tags[u].kind = "alloc"}
SmallIn(r)   == T!UsedBlocks(r.tlsf)
EmptySheets(r) == {s \in SheetsIn(r) : T!SheetEmpty(r.tlsf, s)}

(* The small tier holds exactly the sheets the pool has marked. *)
SheetsMatch(r) ==
  /\ SheetsIn(r) = T!SheetsOf(r.tlsf)
  /\ \A s \in SheetsIn(r) : r.pool.tags[s].order = SheetOrder
  /\ r.tlsf.count = Cardinality(SheetsIn(r)) /\ r.tlsf.count <= MaxSheets

(* An empty sheet is the spare, so there is one at most. *)
OnlySpareEmpty(r) ==
  /\ EmptySheets(r) \subseteq {r.spare}
  /\ r.spare # Null => r.spare \in SheetsIn(r)

(* Whether a block of order o fits where no large block and no sheet with a
   live block in it lies. *)
RoomFor(r, o) ==
  /\ o \in Orders
  /\ \E u \in Units :
       /\ Aligned(u, o) /\ InPool(u, o)
       /\ \A v \in LargeIn(r) \union (SheetsIn(r) \ EmptySheets(r)) :
            Span(u, o) \cap Span(v, r.pool.tags[v].order) = {}
=============================================================================
