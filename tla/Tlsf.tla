-------------------------------- MODULE Tlsf --------------------------------
(***************************************************************************)
(* The small-object tier of one region on its own (src/src/cache_list.hpp):*)
(* the calls a region and the heap make on it, one action each.            *)
(***************************************************************************)
EXTENDS TlsfOps, FiniteSets

CONSTANT Requests   (* the payload sizes asked for, in granules *)

ASSUME RequestsAssumption == Requests \subseteq Nat

VARIABLE t   (* the allocator: see TlsfOps *)

Init == t = EmptyTlsf

(* add_sheet: the sheet is a block the region was just granted. *)
DoAddSheet(s) ==
  /\ t.count < MaxSheets /\ s \notin SheetsOf(t)
  /\ t' = AddSheet(t, s)

DoRemoveSheet(s) ==
  /\ t.count > 0 /\ s \in SheetsOf(t) /\ SheetEmpty(t, s)
  /\ t' = RemoveSheet(t, s)

DoAllocate(n) == Fit(t, n) # NullOff /\ t' = Allocate(t, n)

(* The callers pass only pointers that owns_len knows. *)
DoDeallocate(x) == Owns(t, x) /\ t' = Deallocate(t, x)
DoShrink(x, n)  == Owns(t, x) /\ CanShrink(t, x, n) /\ t' = Shrink(t, x, n)
DoGrow(x, n)    == Owns(t, x) /\ CanGrow(t, x, n) /\ t' = Grow(t, x, n)

Next ==
  \/ \E s \in Sheets : DoAddSheet(s) \/ DoRemoveSheet(s)
  \/ \E n \in Requests : DoAllocate(n)
  \/ \E x \in Places : DoDeallocate(x)
  \/ \E x \in Places, n \in Requests : DoShrink(x, n) \/ DoGrow(x, n)

Spec == Init /\ [][Next]_t

-----------------------------------------------------------------------------
(* The state keeps its types. *)
TypeOK ==
  /\ DOMAIN t.hdr \subseteq Places
  /\ \A x \in DOMAIN t.hdr :
       t.hdr[x] \in [size : MinUnits .. DataUnits, used : BOOLEAN, prev : -1 .. DataUnits - 1]
  /\ DOMAIN t.heads = Classes
  /\ t.sl \subseteq Classes /\ t.fl \subseteq 0 .. FlCount - 1
  /\ t.marks \subseteq Places
  /\ t.count \in 0 .. MaxSheets /\ t.allocated \in Int

(* The headers of a sheet form one chain from sentinel to sentinel, forwards
   by size and backwards by prev_phys, whatever was split, merged, shrunk or
   grown: every step of deallocate(), shrink() and grow() follows it blindly. *)
ChainIntact == TypeOK /\ PhysicallyLinked(t)

(* No two free blocks touch: the only thing that keeps a sheet from being
   eaten by fragments, and what makes an emptied sheet one block again. *)
NoFreeNeighbours == FreeBlocksApart(t)

(* The lists hold exactly the free blocks, each in the list of its present
   size, and the bitmaps agree: a search that follows a bit finds a block. *)
ListsConsistent == ListsHoldFreeBlocks(t)

(* largest_free() is the exact limit of what allocate() can do, although it
   looks only at the head of one list. *)
LargestFreeExact ==
  \A n \in 1 .. DataUnits - 1 : Fit(t, n) # NullOff <=> n <= LargestFree(t)

(* No request is refused while a block of the class where its search begins,
   or of a later one, is free: the good-fit guarantee. *)
GoodFit ==
  \A n \in 1 .. DataUnits - 1, x \in FreeBlocks(t) :
    LET c == Search[n + 1]
        d == ClassOf[t.hdr[x].size]
    IN  c[1] < d[1] \/ (c[1] = d[1] /\ c[2] <= d[2]) => Fit(t, n) # NullOff

(* owns_len() knows exactly the blocks in use, so a block is freed once and a
   pointer into the middle of one is refused, whatever its bytes look like. *)
OwnsExactlyLive == \A x \in Places : Owns(t, x) <=> x \in UsedBlocks(t)

(* The tier keeps the promise of SmallStore: blocks stay inside their sheet,
   never overlap and never move. *)
Live  == {<<x[1], x[2], t.hdr[x].size>> : x \in UsedBlocks(t)}
Store == INSTANCE SmallStore WITH sheets <- SheetsOf(t), live <- Live
ImplementsSmallStore == Store!Init /\ [][Store!Next]_<<SheetsOf(t), Live>>
=============================================================================
