-------------------------------- MODULE Heap --------------------------------
(***************************************************************************)
(* The heap (src/src/heap.hpp): the regions that were attached, in order,  *)
(* one by one tried for a request, and the pools it attaches by itself:    *)
(* the configured one when it is first used, pages of the system when a    *)
(* request finds no room (src/src/pool.hpp).                               *)
(*                                                                         *)
(* A piece of memory is described by the addresses it spans, those of the  *)
(* tag array that comes with it, the alignment its data area can have, and *)
(* whether it is large enough to hold a pool.  Every pool has the same     *)
(* size, that of BuddyGeometry.  In place, blocks are resized as in        *)
(* Region.                                                                 *)
(***************************************************************************)
EXTENDS RegionOps, Sequences

CONSTANTS
  Areas,        (* the memory callers may attach                           *)
  Pages,        (* the memory page_alloc may return                        *)
  PoolOf,       (* what __configured_pool returns: a set of one area or {} *)
  Growable,     (* __growable                                              *)
  MaxRegions,   (* __max_regions                                           *)
  Requests,     (* sizes asked for, in granules                            *)
  Alignments    (* alignments asked for beyond native_alignment, as orders *)

NoTags == <<0, 0>>   \* no tag array of the caller's

ASSUME HeapAssumption ==
  /\ \A d \in Areas \union Pages \union PoolOf :
       d.mem[1] < d.mem[2] /\ d.align \in Orders /\ d.fit \in BOOLEAN
  /\ Growable \in BOOLEAN /\ MaxRegions \in Nat \ {0}
  /\ Requests \subseteq Nat \ {0} /\ Alignments \subseteq Nat
  /\ \A p \in Pages : p.fit /\ p.tags = NoTags

VARIABLE h   (* regions: what was attached, with its region; inited *)

-----------------------------------------------------------------------------
Overlap(a, b)  == a[1] < b[2] /\ b[1] < a[2]
Attached       == DOMAIN h.regions
In(g, i)       == g.regions[i].r

(* What the regions hold is now f. *)
Refilled(g, f) == [g EXCEPT !.regions = [i \in DOMAIN @ |-> [@[i] EXCEPT !.r = f[i]]]]
With(g, i, r)  == Refilled(g, [j \in DOMAIN g.regions |-> IF j = i THEN r ELSE In(g, j)])

ClearOfAll(g, span) == \A i \in DOMAIN g.regions : ~ Overlap(span, g.regions[i].mem)

(* __attach *)
\* Mutant of Attach: the spans are not compared.
AttachAnywhere(g, d) ==
  IF Len(g.regions) < MaxRegions /\ d.fit
  THEN [regions |-> Append(g.regions, [mem |-> d.mem, tags |-> d.tags, align |-> d.align,
                                       r |-> FreshRegion]),
        inited  |-> TRUE]
  ELSE g

Attach(g, d) ==
  IF /\ Len(g.regions) < MaxRegions /\ ClearOfAll(g, d.mem) /\ d.fit
     /\ d.tags # NoTags => ~ Overlap(d.tags, d.mem) /\ ClearOfAll(g, d.tags)
  THEN [regions |-> Append(g.regions, [mem |-> d.mem, tags |-> d.tags, align |-> d.align,
                                       r |-> FreshRegion]),
        inited  |-> TRUE]
  ELSE g

(* init: once, and by whatever call comes first. *)
InitHeap(g) ==
  IF g.inited THEN g
  ELSE IF PoolOf = {} THEN [g EXCEPT !.inited = TRUE]
  ELSE Attach([g EXCEPT !.inited = TRUE], CHOOSE d \in PoolOf : TRUE)

(* __grow: the heaps it may leave when it gets pages. *)
Grown(g) ==
  IF Growable /\ Len(g.regions) < MaxRegions
  THEN {Attach(g, p) : p \in {q \in Pages : ClearOfAll(g, q.mem)}} ELSE {}

-----------------------------------------------------------------------------
(* order_for_size, of a size in granules *)
OrderFor(n) ==
  CHOOSE o \in 0 .. MaxOrder :
    /\ o < MaxOrder => n <= UnitGranules * OrderSize[o]
    /\ \A p \in 0 .. o - 1 : UnitGranules * OrderSize[p] < n

NoBlock == <<0, 0>>

(* The regions are tried in order: tries[i] is what region i can do for the
   request, failed[i] what becomes of it when it can do nothing. *)
FirstOf(g, tries, failed) ==
  LET able == {i \in DOMAIN g.regions : tries[i] # {}}
      k    == CHOOSE i \in able : \A j \in able : i <= j
  IN  IF able = {} THEN {[at |-> NoBlock, heap |-> Refilled(g, failed)]}
      ELSE {[at |-> <<k, a.x>>,
             heap |-> Refilled(g, [i \in DOMAIN g.regions |->
                        IF i < k THEN failed[i] ELSE IF i = k THEN a.r ELSE In(g, i)])] :
            a \in tries[k]}

(* __alloc_scan: the first region is taken up where alloc left it. *)
\* Mutant of AllocScan: a small request is not passed on to the pools.
AllocScanNoFallback(g, n) ==
  LET small == [i \in DOMAIN g.regions |->
                  IF i = 1 THEN SmallAllocSlow(In(g, i), n) ELSE SmallAlloc(In(g, i), n)]
      large == [i \in DOMAIN g.regions |->
                  IF i = 1 THEN LargeAllocSlow(In(g, i), OrderFor(n))
                  ELSE LargeAlloc(In(g, i), OrderFor(n))]
  IN  IF n <= SmallUnits
      THEN FirstOf(g, small, [i \in DOMAIN g.regions |-> In(g, i)])
      ELSE FirstOf(g, large, [i \in DOMAIN g.regions |-> LargeAllocFailed(In(g, i), OrderFor(n))])

\* Mutant of AllocScan: only the first region is looked at.
AllocScanFirstOnly(g, n) ==
  LET none  == [i \in DOMAIN g.regions |-> {}]
      small == [none EXCEPT ![1] = SmallAllocSlow(In(g, 1), n)]
      large == [none EXCEPT ![1] = LargeAlloc(In(g, 1), OrderFor(n))]
  IN  IF g.regions = <<>> THEN {[at |-> NoBlock, heap |-> g]}
      ELSE FirstOf(g, IF n <= SmallUnits /\ small[1] # {} THEN small ELSE large,
                   [i \in DOMAIN g.regions |-> In(g, i)])

AllocScan(g, n) ==
  LET small == [i \in DOMAIN g.regions |->
                  IF i = 1 THEN SmallAllocSlow(In(g, i), n) ELSE SmallAlloc(In(g, i), n)]
      large == [i \in DOMAIN g.regions |->
                  IF i = 1 /\ n > SmallUnits THEN LargeAllocSlow(In(g, i), OrderFor(n))
                  ELSE LargeAlloc(In(g, i), OrderFor(n))]
  IN  IF n <= SmallUnits /\ \E i \in DOMAIN g.regions : small[i] # {}
      THEN FirstOf(g, small, [i \in DOMAIN g.regions |-> In(g, i)])
      ELSE FirstOf(g, large, [i \in DOMAIN g.regions |-> LargeAllocFailed(In(g, i), OrderFor(n))])

(* __alloc_aligned_scan, for a block of order o that is to be aligned to
   order al; a region whose data area has less is passed over. *)
AlignedScan(g, o, al) ==
  LET can(i) == al <= g.regions[i].align
  IN  FirstOf(g, [i \in DOMAIN g.regions |-> IF can(i) THEN LargeAlloc(In(g, i), o) ELSE {}],
              [i \in DOMAIN g.regions |->
                 IF can(i) THEN LargeAllocFailed(In(g, i), o) ELSE In(g, i)])

Larger(o, p) == IF o < p THEN p ELSE o
Scan(g, n, al) ==
  IF al = Null THEN AllocScan(g, n) ELSE AlignedScan(g, Larger(OrderFor(n), al), al)

\* Mutant of AllocSlow: the request is not tried again when the heap has grown.
AllocSlowOnce(g, n, al) ==
  LET ready == InitHeap(g)
      again(heap) == {[at |-> NoBlock, heap |-> grown] : grown \in Grown(heap)}
  IN  IF ~ g.inited /\ ready.regions = <<>> THEN {[at |-> NoBlock, heap |-> ready]}
      ELSE UNION {{a} \union (IF a.at = NoBlock THEN again(a.heap) ELSE {}) :
                    a \in Scan(ready, n, al)}

(* __alloc_slow, __alloc_aligned_slow; page_alloc may fail. *)
AllocSlow(g, n, al) ==
  LET ready == InitHeap(g)
      again(heap) == UNION {Scan(grown, n, al) : grown \in Grown(heap)}
  IN  IF ~ g.inited /\ ready.regions = <<>> THEN {[at |-> NoBlock, heap |-> ready]}
      ELSE UNION {{a} \union (IF a.at = NoBlock THEN again(a.heap) ELSE {}) :
                    a \in Scan(ready, n, al)}

(* alloc (al = Null) and alloc_aligned: what may come of it. *)
AllocFast(g, n) ==
  IF g.regions = <<>> THEN {}
  ELSE IF n > SmallUnits THEN LargeGrants(In(g, 1), OrderFor(n))
  ELSE IF T!Fit(In(g, 1).tlsf, n) = T!NullOff THEN {}
  ELSE {[x |-> T!Fit(In(g, 1).tlsf, n),
         r |-> [In(g, 1) EXCEPT !.tlsf = T!Allocate(In(g, 1).tlsf, n)]]}

HeapAlloc(g, n, al) ==
  IF al = Null /\ AllocFast(g, n) # {}
  THEN {[at |-> <<1, a.x>>, heap |-> With(g, 1, a.r)] : a \in AllocFast(g, n)}
  ELSE AllocSlow(g, n, al)

-----------------------------------------------------------------------------
Init == h = [regions |-> <<>>, inited |-> FALSE]

DoAttach(d) == h' = Attach(h, d)

(* init(), and the gauges, which call it. *)
DoInit == h' = InitHeap(h)

DoAlloc(n)            == \E a \in HeapAlloc(h, n, Null) : h' = a.heap
DoAllocAligned(n, al) == \E a \in HeapAlloc(h, n, al) : h' = a.heap

(* dealloc: locate, then release.  A pointer the first region does not hold
   is looked for in the others, after init; one that no region holds, or
   that is not the start of a block in use, is refused. *)
FreeSmall(i, x) ==
  /\ i \in Attached /\ OwnsSmall(In(h, i), x)
  /\ h' = With(h, i, SmallFree(In(h, i), x))

FreeLarge(i, u) ==
  /\ i \in Attached /\ OwnsLarge(In(h, i), u)
  /\ h' = With(h, i, [In(h, i) EXCEPT !.pool =
                        DeallocateOrder(@, u, OrderAt(@, u))])

GrowLarge(i, u, want) ==
  /\ i \in Attached /\ OwnsLarge(In(h, i), u)
  /\ LET pool == In(h, i).pool
     IN  /\ OrderAt(pool, u) < want /\ CanGrow(pool, u, OrderAt(pool, u), want)
         /\ h' = With(h, i, [In(h, i) EXCEPT !.pool = GrowTo(pool, u, OrderAt(pool, u), want)])

(* largest_free, reset: on every region, after init. *)
OnEvery(g, Do(_)) == Refilled(g, [i \in DOMAIN g.regions |-> Do(In(g, i))])

LargestFree == h' = OnEvery(InitHeap(h), FlushSpare)
Reset       == h' = OnEvery(InitHeap(h), LAMBDA r : FreshRegion)

Next ==
  \/ \E d \in Areas : DoAttach(d)
  \/ DoInit
  \/ \E n \in Requests : DoAlloc(n) \/ \E al \in Alignments : DoAllocAligned(n, al)
  \/ \E i \in 1 .. MaxRegions : \E x \in Places : FreeSmall(i, x)
  \/ \E i \in 1 .. MaxRegions, u \in Units :
       FreeLarge(i, u) \/ \E want \in Orders : GrowLarge(i, u, want)
  \/ LargestFree
  \/ Reset

Spec == Init /\ [][Next]_h

-----------------------------------------------------------------------------
(* The memory of the regions does not overlap, and no region keeps its tags
   in its own data or in that of a region attached before it, whoever
   attached them: callers, the lazy init or the growth of the heap. *)
PoolsApart ==
  /\ Len(h.regions) <= MaxRegions /\ (h.regions # <<>> => h.inited)
  /\ \A i, j \in Attached :
       /\ i # j => ~ Overlap(h.regions[i].mem, h.regions[j].mem)
       /\ h.regions[j].tags # NoTags /\ i <= j =>
            ~ Overlap(h.regions[i].mem, h.regions[j].tags)

(* Whether a heap, its pool attached, has room for a request. *)
HasRoom(g, n, al) ==
  \E i \in DOMAIN g.regions :
    IF al = Null THEN RoomFor(In(g, i), OrderFor(n))
    ELSE al <= g.regions[i].align /\ RoomFor(In(g, i), Larger(OrderFor(n), al))

Served(n, al) ==
  HasRoom(InitHeap(h), n, al) => \A a \in HeapAlloc(h, n, al) : a.at # NoBlock

(* Once a region is attached a request, small ones and aligned ones too, is
   refused only if it fits nowhere between the live large blocks and the
   sheets in use of any region: no spare, no full tier, no region that comes
   earlier in the scan hides room that is there. *)
NoFalseRefusal ==
  h.regions # <<>> =>
    \A n \in Requests, al \in Alignments \union {Null} : Served(n, al)

(* The first allocation, too: it attaches the configured pool and is served
   from it. *)
FirstIsServed ==
  h.regions = <<>> => \A n \in Requests : Served(n, Null)

(* Memory that serves request n as soon as it is a region of the heap: what
   __grow asks the system for is long enough and aligned to n, and to al, for
   every alignment that is supported (PoolGeometry!GrowthSuffices). *)
Suits(d, n, al) ==
  IF al = Null THEN OrderFor(n) < MaxOrder
  ELSE al <= d.align /\ Larger(OrderFor(n), al) < MaxOrder

(* When the heap takes memory of the system for a request, small, large or
   aligned, and that memory suits the request, the request is served from it:
   no region attached before serves what it has just refused.  One request is
   not: where the heap had no region at all, a large one is refused although
   its pages are there, and served when it is made again.  Memory that does not
   suit a request, aligned beyond what is supported, is taken and the request
   refused; this says nothing of it. *)
GrowthServes ==
  \A n \in Requests, al \in Alignments \union {Null} : \A a \in HeapAlloc(h, n, al) :
    LET k == Len(a.heap.regions)
    IN  k > Len(InitHeap(h).regions) /\ Suits(a.heap.regions[k], n, al) =>
          \/ a.at[1] = k
          \/ /\ k = 1 /\ al = Null /\ n > SmallUnits
             /\ \A again \in HeapAlloc(a.heap, n, al) : again.at[1] = 1
=============================================================================
