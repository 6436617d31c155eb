----------------------------- MODULE HeapProofs -----------------------------
(***************************************************************************)
(* Proofs about Heap, for every set of areas and pages, every pool and any *)
(* number of regions: the regions of a heap never overlap.                 *)
(*                                                                         *)
(* Only attaching adds a region, after comparing it with all the others.   *)
(* Whatever else a call does, in either tier of any region, it replaces    *)
(* the insides of regions and leaves the layout of the heap alone: the     *)
(* number of the regions, and where each has its memory and its tags.      *)
(***************************************************************************)
EXTENDS Heap, RegionOpsProofs

Spans == {d.mem : d \in Areas \union Pages \union PoolOf}
           \union {d.tags : d \in Areas \union Pages \union PoolOf}

(* A region as it is attached, its insides in Insides. *)
Placed(Insides) ==
  [mem : Spans, tags : Spans, align : Orders, r : Insides]

Shaped(g) ==
  /\ g = [regions |-> g.regions, inited |-> g.inited]
  /\ g.inited \in BOOLEAN
  /\ \E Insides : g.regions \in Seq(Placed(Insides))

(* PoolsApart, of any heap *)
Apart(g) ==
  /\ Len(g.regions) <= MaxRegions /\ (g.regions # <<>> => g.inited)
  /\ \A i, j \in DOMAIN g.regions :
       /\ i # j => ~ Overlap(g.regions[i].mem, g.regions[j].mem)
       /\ g.regions[j].tags # NoTags /\ i <= j =>
            ~ Overlap(g.regions[i].mem, g.regions[j].tags)

LaidOut(g) == Shaped(g) /\ Apart(g)

LEMMA AttachLaysOut ==
  ASSUME NEW g, LaidOut(g), NEW d \in Areas \union Pages \union PoolOf
  PROVE  LaidOut(Attach(g, d))
<1> DEFINE e  == [mem |-> d.mem, tags |-> d.tags, align |-> d.align, r |-> FreshRegion]
           g2 == [regions |-> Append(g.regions, e), inited |-> TRUE]
<1>1. PICK I : g.regions \in Seq(Placed(I))
  BY DEF LaidOut, Shaped
<1>2. d.align \in Orders /\ d.mem \in Spans /\ d.tags \in Spans
  BY HeapAssumption DEF Spans
<1> DEFINE J == I \union {FreshRegion}
<1>3. e \in Placed(J) /\ g.regions \in Seq(Placed(J))
  <2>1. Placed(I) \subseteq Placed(J)
    BY DEF Placed
  <2>2. e \in Placed(J)
    BY <1>2 DEF Placed
  <2> HIDE DEF J, e
  <2> QED BY <1>1, <2>1, <2>2
<1> SUFFICES ASSUME Len(g.regions) < MaxRegions, ClearOfAll(g, d.mem),
                    d.tags # NoTags => ~ Overlap(d.tags, d.mem) /\ ClearOfAll(g, d.tags)
             PROVE  LaidOut(g2)
  BY DEF Attach
<1> DEFINE s == g.regions
           n == Len(s) + 1
<1>4. /\ e.mem = d.mem /\ e.tags = d.tags
      /\ Len(Append(s, e)) = n /\ DOMAIN Append(s, e) = 1 .. n /\ DOMAIN s = 1 .. n - 1
      /\ n \in Nat /\ Append(s, e)[n] = e /\ \A i \in 1 .. n - 1 : Append(s, e)[i] = s[i]
  <2> HIDE DEF J
  <2>1. e.mem = d.mem /\ e.tags = d.tags
    OBVIOUS
  <2> HIDE DEF e
  <2> QED BY <1>3, <2>1
<1>5. Shaped(g2)
  <2> HIDE DEF J, e
  <2>1. Append(s, e) \in Seq(Placed(J))
    BY <1>3
  <2> QED BY <2>1 DEF Shaped
<1>6. Apart(g2)
  <2> HIDE DEF e
  <2>1. Len(g2.regions) <= MaxRegions
    BY <1>4, HeapAssumption
  <2>2. ASSUME NEW i \in 1 .. n, NEW j \in 1 .. n, i # j
        PROVE  ~ Overlap(Append(s, e)[i].mem, Append(s, e)[j].mem)
    <3>1. CASE i # n /\ j # n
      BY <1>4, <2>2, <3>1 DEF LaidOut, Apart
    <3>2. CASE i = n
      BY <1>4, <2>2, <3>2 DEF ClearOfAll, Overlap
    <3>3. CASE j = n
      BY <1>4, <2>2, <3>3 DEF ClearOfAll, Overlap
    <3> QED BY <3>1, <3>2, <3>3
  <2>3. ASSUME NEW i \in 1 .. n, NEW j \in 1 .. n, i <= j, Append(s, e)[j].tags # NoTags
        PROVE  ~ Overlap(Append(s, e)[i].mem, Append(s, e)[j].tags)
    <3>1. CASE j # n
      BY <1>4, <2>3, <3>1 DEF LaidOut, Apart
    <3>2. CASE j = n /\ i = n
      BY <1>4, <2>3, <3>2 DEF Overlap
    <3>3. CASE j = n /\ i # n
      BY <1>4, <2>3, <3>3 DEF ClearOfAll, Overlap
    <3> QED BY <3>1, <3>2, <3>3
  <2> QED BY <1>4, <2>1, <2>2, <2>3 DEF Apart
<1> QED BY <1>5, <1>6 DEF LaidOut

(***************************************************************************)
(* What replaces the insides of regions only.                              *)
(***************************************************************************)
LEMMA RefilledLaidOut ==
  ASSUME NEW g, LaidOut(g), NEW r
  PROVE  LaidOut(Refilled(g, r))
<1> DEFINE s  == g.regions
           s2 == [i \in DOMAIN s |-> [s[i] EXCEPT !.r = r[i]]]
           R  == {r[i] : i \in DOMAIN s}
<1>1. PICK I : s \in Seq(Placed(I))
  BY DEF LaidOut, Shaped
<1>2. /\ DOMAIN s = 1 .. Len(s) /\ Len(s) \in Nat
      /\ \A i \in DOMAIN s : s[i] \in Placed(I)
  BY <1>1
<1>3. ASSUME NEW i \in DOMAIN s
      PROVE  s2[i] \in Placed(R) /\ s2[i].mem = s[i].mem /\ s2[i].tags = s[i].tags
  <2>1. s[i] \in Placed(I) /\ r[i] \in R /\ s2[i] = [s[i] EXCEPT !.r = r[i]]
    BY <1>2
  <2> HIDE DEF s, s2, R
  <2> QED BY <2>1 DEF Placed
<1>4. /\ s2 \in Seq(Placed(R)) /\ DOMAIN s2 = DOMAIN s /\ Len(s2) = Len(s)
      /\ (s2 = <<>> <=> s = <<>>)
  <2>1. s2 \in [1 .. Len(s) -> Placed(R)]
    <3>1. DOMAIN s2 = 1 .. Len(s) /\ s2 = [i \in 1 .. Len(s) |-> s2[i]]
      BY <1>2
    <3> HIDE DEF s2, R
    <3> QED BY <1>2, <1>3, <3>1
  <2> HIDE DEF s, s2, R
  <2> QED BY <1>1, <1>2, <2>1
<1> DEFINE g2 == Refilled(g, r)
<1>5. g2 = [regions |-> s2, inited |-> g.inited] /\ g2.regions = s2 /\ g2.inited = g.inited
  <2>1. g2 = [g EXCEPT !.regions = s2]
    BY Zenon DEF Refilled
  <2>2. g = [regions |-> s, inited |-> g.inited]
    BY DEF LaidOut, Shaped
  <2> HIDE DEF s, s2, g2
  <2> QED BY <2>1, <2>2
<1> HIDE DEF s2, R, g2
<1>6. Shaped(g2)
  BY <1>4, <1>5 DEF LaidOut, Shaped
<1>7. Apart(g2)
  BY <1>3, <1>4, <1>5 DEF LaidOut, Apart
<1> QED BY <1>6, <1>7 DEF LaidOut, g2

LEMMA FirstOfLaysOut ==
  ASSUME NEW g, LaidOut(g), NEW tries, NEW failed, NEW a \in FirstOf(g, tries, failed)
  PROVE  LaidOut(a.heap)
<1> DEFINE able == {i \in DOMAIN g.regions : tries[i] # {}}
           k    == CHOOSE i \in able : \A j \in able : i <= j
           upTo(x) == [i \in DOMAIN g.regions |->
                         IF i < k THEN failed[i] ELSE IF i = k THEN x.r ELSE In(g, i)]
<1>1. CASE able = {}
  <2>1. a = [at |-> NoBlock, heap |-> Refilled(g, failed)]
    BY <1>1, Zenon DEF FirstOf
  <2> QED BY <2>1, RefilledLaidOut
<1>2. CASE able # {}
  <2>1. a \in {[at |-> <<k, x.x>>, heap |-> Refilled(g, upTo(x))] : x \in tries[k]}
    BY <1>2, Zenon DEF FirstOf
  <2> HIDE DEF able, k, upTo
  <2>2. PICK x \in tries[k] : a = [at |-> <<k, x.x>>, heap |-> Refilled(g, upTo(x))]
    BY <2>1
  <2> QED BY <2>2, RefilledLaidOut
<1> QED BY <1>1, <1>2

(***************************************************************************)
(* The calls.                                                              *)
(***************************************************************************)
LEMMA InitLaysOut ==
  ASSUME NEW g, LaidOut(g)
  PROVE  LaidOut(InitHeap(g))
<1> DEFINE g1 == [g EXCEPT !.inited = TRUE]
<1>1. LaidOut(g1)
  <2>1. g1.regions = g.regions /\ g1.inited = TRUE
        /\ g1 = [regions |-> g1.regions, inited |-> g1.inited]
    <3>1. g1 = [g EXCEPT !.inited = TRUE]
      BY Zenon
    <3>2. PICK s, i : g = [regions |-> s, inited |-> i]
      BY DEF LaidOut, Shaped
    <3> HIDE DEF g1
    <3> QED BY <3>1, <3>2
  <2> HIDE DEF g1
  <2> QED BY <2>1 DEF LaidOut, Shaped, Apart
<1>2. CASE PoolOf # {}
  <2>1. (CHOOSE d \in PoolOf : TRUE) \in Areas \union Pages \union PoolOf
    BY <1>2
  <2> QED BY <1>1, <2>1, AttachLaysOut DEF InitHeap
<1>3. CASE PoolOf = {}
  BY <1>1, <1>3 DEF InitHeap
<1> QED BY <1>2, <1>3

LEMMA ScanLaysOut ==
  ASSUME NEW g, LaidOut(g), NEW n, NEW al, NEW a \in Scan(g, n, al)
  PROVE  LaidOut(a.heap)
<1>1. CASE al = Null
  <2>1. a \in AllocScan(g, n)
    BY <1>1 DEF Scan
  <2>2. \E tries, failed : a \in FirstOf(g, tries, failed)
    BY <2>1 DEF AllocScan
  <2> QED BY <2>2, FirstOfLaysOut
<1>2. CASE al # Null
  <2>1. a \in AlignedScan(g, Larger(OrderFor(n), al), al)
    BY <1>2 DEF Scan
  <2>2. \E tries, failed : a \in FirstOf(g, tries, failed)
    BY <2>1 DEF AlignedScan
  <2> QED BY <2>2, FirstOfLaysOut
<1> QED BY <1>1, <1>2

LEMMA AllocLaysOut ==
  ASSUME NEW g, LaidOut(g), NEW n, NEW al, NEW a \in HeapAlloc(g, n, al)
  PROVE  LaidOut(a.heap)
<1>1. CASE al = Null /\ AllocFast(g, n) # {}
  <2>1. PICK x \in AllocFast(g, n) : a = [at |-> <<1, x.x>>, heap |-> With(g, 1, x.r)]
    BY <1>1, Zenon DEF HeapAlloc
  <2> QED BY <2>1, RefilledLaidOut DEF With
<1>2. CASE ~ (al = Null /\ AllocFast(g, n) # {})
  <2>1. a \in AllocSlow(g, n, al)
    BY <1>2 DEF HeapAlloc
  <2>2. LaidOut(InitHeap(g))
    BY InitLaysOut
  <2>3. \/ a.heap = InitHeap(g)
        \/ a \in Scan(InitHeap(g), n, al)
        \/ \E x \in Scan(InitHeap(g), n, al) :
             \E grown \in Grown(x.heap) : a \in Scan(grown, n, al)
    BY <2>1 DEF AllocSlow
  <2>4. ASSUME NEW x \in Scan(InitHeap(g), n, al), NEW grown \in Grown(x.heap)
        PROVE  LaidOut(grown)
    <3>1. LaidOut(x.heap)
      BY <2>2, ScanLaysOut
    <3>2. PICK p \in Pages : grown = Attach(x.heap, p)
      BY DEF Grown
    <3> QED BY <3>1, <3>2, AttachLaysOut
  <2> QED BY <2>2, <2>3, <2>4, ScanLaysOut
<1> QED BY <1>1, <1>2

LEMMA StepLaysOut ==
  ASSUME LaidOut(h), [Next]_h
  PROVE  LaidOut(h')
<1>1. CASE \E d \in Areas : DoAttach(d)
  BY <1>1, AttachLaysOut DEF DoAttach
<1>2. CASE DoInit
  BY <1>2, InitLaysOut DEF DoInit
<1>3. ASSUME NEW n \in Requests, DoAlloc(n)
      PROVE  LaidOut(h')
  BY <1>3, AllocLaysOut DEF DoAlloc
<1>4. ASSUME NEW n \in Requests, NEW al \in Alignments, DoAllocAligned(n, al)
      PROVE  LaidOut(h')
  BY <1>4, AllocLaysOut DEF DoAllocAligned
<1>5. ASSUME NEW i \in 1 .. MaxRegions, NEW x \in Places, FreeSmall(i, x)
      PROVE  LaidOut(h')
  BY <1>5, RefilledLaidOut DEF FreeSmall, With
<1>6. ASSUME NEW i \in 1 .. MaxRegions, NEW u \in Units, FreeLarge(i, u)
      PROVE  LaidOut(h')
  BY <1>6, RefilledLaidOut DEF FreeLarge, With
<1>7. ASSUME NEW i \in 1 .. MaxRegions, NEW u \in Units, NEW want \in Orders,
             GrowLarge(i, u, want)
      PROVE  LaidOut(h')
  BY <1>7, RefilledLaidOut DEF GrowLarge, With
<1>8. CASE LargestFree
  BY <1>8, InitLaysOut, RefilledLaidOut DEF LargestFree, OnEvery
<1>9. CASE Reset
  BY <1>9, InitLaysOut, RefilledLaidOut DEF Reset, OnEvery
<1>10. CASE UNCHANGED h
  BY <1>10 DEF LaidOut, Shaped, Apart
<1> QED BY <1>1, <1>2, <1>3, <1>4, <1>5, <1>6, <1>7, <1>8, <1>9, <1>10 DEF Next

(* The regions of a heap are apart from each other, and their data from the *)
(* tags that came with the regions attached after them, in every history of *)
(* calls and for every set of areas, pages and configured pool.             *)
THEOREM RegionsApart == Spec => []PoolsApart
<1>1. Init => LaidOut(h)
  <2> SUFFICES ASSUME Init PROVE LaidOut(h)
    OBVIOUS
  <2>1. h.regions = <<>> /\ h = [regions |-> h.regions, inited |-> h.inited]
        /\ h.inited = FALSE
    BY DEF Init
  <2>2. h.regions \in Seq(Placed({})) /\ Len(h.regions) = 0 /\ DOMAIN h.regions = {}
    BY <2>1
  <2>3. Shaped(h)
    BY <2>1, <2>2 DEF Shaped
  <2>4. Apart(h)
    BY <2>1, <2>2, HeapAssumption DEF Apart
  <2> QED BY <2>3, <2>4 DEF LaidOut
<1>2. LaidOut(h) /\ [Next]_h => LaidOut(h)'
  BY StepLaysOut
<1>3. LaidOut(h) => PoolsApart
  BY DEF LaidOut, Apart, PoolsApart, Attached
<1> QED BY <1>1, <1>2, <1>3, PTL DEF Spec
-----------------------------------------------------------------------------
(***************************************************************************)
(* Regions in a heap.  Every region stays sound, whatever the heap does    *)
(* with it: the heap calls parts of small_alloc and large_alloc in its own *)
(* order, and what each part takes for granted is shown to hold there.     *)
(***************************************************************************)
Sane(g) == LaidOut(g) /\ \A i \in DOMAIN g.regions : Sound(In(g, i))

LEMMA HeapNumbers ==
  ASSUME NEW g, LaidOut(g)
  PROVE  /\ DOMAIN g.regions = 1 .. Len(g.regions) /\ Len(g.regions) \in Nat
         /\ g.regions = <<>> <=> Len(g.regions) = 0
         /\ g = [regions |-> g.regions, inited |-> g.inited]
         /\ g.regions # <<>> => g.inited
         /\ \A i \in DOMAIN g.regions : g.regions[i].align \in Orders
<1>1. PICK I : g.regions \in Seq(Placed(I))
  BY DEF LaidOut, Shaped
<1>2. \A i \in DOMAIN g.regions : g.regions[i] \in Placed(I)
  BY <1>1
<1>3. \A i \in DOMAIN g.regions : g.regions[i].align \in Orders
  BY <1>2 DEF Placed
<1> QED BY <1>1, <1>3 DEF LaidOut, Shaped, Apart

LEMMA RefilledHolds ==
  ASSUME NEW g, LaidOut(g), NEW f
  PROVE  LET g2 == Refilled(g, f)
         IN  /\ LaidOut(g2) /\ DOMAIN g2.regions = DOMAIN g.regions
             /\ Len(g2.regions) = Len(g.regions)
             /\ \A i \in DOMAIN g.regions :
                  In(g2, i) = f[i] /\ g2.regions[i].align = g.regions[i].align
<1> DEFINE s  == g.regions
           s2 == [i \in DOMAIN s |-> [s[i] EXCEPT !.r = f[i]]]
           g2 == Refilled(g, f)
<1>1. PICK I : s \in Seq(Placed(I))
  BY DEF LaidOut, Shaped
<1>2. \A i \in DOMAIN s : s[i] \in Placed(I)
  BY <1>1
<1>3. g2.regions = s2
  <2>1. g2 = [g EXCEPT !.regions = s2]
    BY Zenon DEF Refilled
  <2>2. g = [regions |-> s, inited |-> g.inited]
    BY HeapNumbers
  <2> HIDE DEF s, s2, g2
  <2> QED BY <2>1, <2>2
<1>4. ASSUME NEW i \in DOMAIN s PROVE In(g2, i) = f[i] /\ g2.regions[i].align = s[i].align
  <2>1. /\ In(g2, i) = [s[i] EXCEPT !.r = f[i]].r
        /\ g2.regions[i].align = [s[i] EXCEPT !.r = f[i]].align
    BY <1>3 DEF In
  <2>2. s[i] \in Placed(I)
    BY <1>2
  <2> HIDE DEF s, s2, g2
  <2> QED BY <2>1, <2>2 DEF Placed
<1>5. LaidOut(g2)
  BY RefilledLaidOut
<1>6. DOMAIN s2 = DOMAIN s
  OBVIOUS
<1> HIDE DEF s2, g2
<1>7. DOMAIN g2.regions = DOMAIN g.regions
  BY <1>3, <1>6
<1>8. Len(g2.regions) = Len(g.regions)
  <2>1. DOMAIN g2.regions = 1 .. Len(g2.regions) /\ Len(g2.regions) \in Nat
    BY <1>5, HeapNumbers
  <2>2. DOMAIN g.regions = 1 .. Len(g.regions) /\ Len(g.regions) \in Nat
    BY HeapNumbers
  <2>3. PICK m \in Nat, n \in Nat : m = Len(g2.regions) /\ n = Len(g.regions)
    BY <2>1, <2>2
  <2>4. 1 .. m = 1 .. n
    BY <1>7, <2>1, <2>2, <2>3
  <2>5. (m # 0 => m \in 1 .. n) /\ (n # 0 => n \in 1 .. m)
    <3>1. (m # 0 => m \in 1 .. m) /\ (n # 0 => n \in 1 .. n)
      OBVIOUS
    <3> QED BY <2>4, <3>1
  <2>6. m = n
    BY <2>5
  <2> QED BY <2>3, <2>6
<1> QED BY <1>4, <1>5, <1>7, <1>8 DEF g2

LEMMA RefilledSane ==
  ASSUME NEW g, LaidOut(g), NEW f, \A i \in DOMAIN g.regions : Sound(f[i])
  PROVE  Sane(Refilled(g, f))
BY RefilledHolds DEF Sane

(* One more region at the end, as it is attached, or none. *)
LEMMA AttachHolds ==
  ASSUME NEW g, Sane(g), NEW d \in Areas \union Pages \union PoolOf
  PROVE  LET g2 == Attach(g, d)
             n  == Len(g.regions)
         IN  /\ Sane(g2)
             /\ \/ g2 = g
                \/ /\ Len(g2.regions) = n + 1 /\ In(g2, n + 1) = FreshRegion
                   /\ \A i \in 1 .. n : In(g2, i) = In(g, i) /\ g2.regions[i] = g.regions[i]
<1> DEFINE g2 == Attach(g, d)
           n  == Len(g.regions)
           e  == [mem |-> d.mem, tags |-> d.tags, align |-> d.align, r |-> FreshRegion]
           g3 == [regions |-> Append(g.regions, e), inited |-> TRUE]
<1>1. LaidOut(g) /\ LaidOut(g2) /\ \A i \in DOMAIN g.regions : Sound(In(g, i))
  BY AttachLaysOut DEF Sane
<1>2. DOMAIN g.regions = 1 .. n /\ n \in Nat
  BY <1>1, HeapNumbers
<1>3. g2 = g \/ g2 = g3
  BY DEF Attach
<1>4. CASE g2 = g
  BY <1>4
<1>5. CASE g2 = g3
  <2>1. PICK I : g.regions \in Seq(I)
    BY <1>1 DEF LaidOut, Shaped
  <2>2. e.r = FreshRegion
    OBVIOUS
  <2>3. g2.regions = Append(g.regions, e)
    BY <1>5
  <2> HIDE DEF e, g2, g3
  <2>4. /\ Len(g2.regions) = n + 1 /\ DOMAIN g2.regions = 1 .. n + 1
        /\ g2.regions[n + 1] = e /\ \A i \in 1 .. n : g2.regions[i] = g.regions[i]
    BY <1>2, <2>1, <2>3
  <2>5. In(g2, n + 1) = FreshRegion /\ \A i \in 1 .. n : In(g2, i) = In(g, i)
    BY <2>2, <2>4 DEF In
  <2>6. \A i \in DOMAIN g2.regions : Sound(In(g2, i))
    BY <1>1, <1>2, <2>4, <2>5, FreshSound
  <2> QED BY <1>1, <2>4, <2>5, <2>6 DEF Sane, g2
<1> QED BY <1>3, <1>4, <1>5

LEMMA InitHolds ==
  ASSUME NEW g, Sane(g)
  PROVE  LET g2 == InitHeap(g)
         IN  /\ Sane(g2)
             /\ \/ g2.regions = g.regions
                \/ g.regions = <<>> /\ Len(g2.regions) = 1 /\ In(g2, 1) = FreshRegion
<1> DEFINE g1 == [g EXCEPT !.inited = TRUE]
<1>1. LaidOut(g) /\ \A i \in DOMAIN g.regions : Sound(In(g, i))
  BY DEF Sane
<1>2. g1.regions = g.regions /\ g1.inited = TRUE /\ g1 = [regions |-> g1.regions, inited |-> g1.inited]
  <2>1. g = [regions |-> g.regions, inited |-> g.inited]
    BY <1>1, HeapNumbers
  <2>2. g1 = [g EXCEPT !.inited = TRUE]
    OBVIOUS
  <2> HIDE DEF g1
  <2> QED BY <2>1, <2>2
<1> HIDE DEF g1
<1>3. LaidOut(g1)
  BY <1>1, <1>2 DEF LaidOut, Shaped, Apart
<1>4. Sane(g1)
  BY <1>1, <1>2, <1>3 DEF Sane, In
<1>5. CASE g.inited
  BY <1>5 DEF InitHeap
<1>6. CASE ~ g.inited /\ PoolOf = {}
  BY <1>2, <1>4, <1>6 DEF InitHeap, g1
<1>7. CASE ~ g.inited /\ PoolOf # {}
  <2>1. PICK d \in Areas \union Pages \union PoolOf : InitHeap(g) = Attach(g1, d)
    BY <1>7 DEF InitHeap, g1
  <2>2. g.regions = <<>> /\ Len(g1.regions) = 0
    BY <1>1, <1>2, <1>3, <1>7, HeapNumbers
  <2> DEFINE g2 == Attach(g1, d)
  <2>3. PICK m \in Nat : m = Len(g1.regions) + 1
    BY <2>2
  <2>4. m = 1
    BY <2>2, <2>3
  <2>5. /\ Sane(g2)
        /\ \/ g2 = g1
           \/ Len(g2.regions) = m /\ In(g2, m) = FreshRegion
    BY <1>4, <2>3, AttachHolds
  <2> HIDE DEF g2
  <2>6. CASE g2 = g1
    BY <1>2, <2>1, <2>5, <2>6 DEF g2
  <2>7. CASE Len(g2.regions) = 1 /\ In(g2, 1) = FreshRegion
    BY <2>1, <2>2, <2>5, <2>7 DEF g2
  <2> QED BY <2>4, <2>5, <2>6, <2>7
<1> QED BY <1>5, <1>6, <1>7

LEMMA OrderForFacts ==
  ASSUME NEW n \in Nat
  PROVE  OrderFor(n) \in 0 .. MaxOrder
<1> DEFINE C == {o \in 0 .. MaxOrder : o = MaxOrder \/ n <= UnitGranules * OrderSize[o]}
<1>1. MaxOrder \in Nat /\ UnitGranules \in Nat /\ \A o \in 0 .. MaxOrder : OrderSize[o] \in Nat
  BY OrderSizeAssumption, RegionAssumption
<1>2. C \subseteq Nat /\ MaxOrder \in C
  BY <1>1
<1> HIDE DEF C
<1>3. PICK o \in C : \A p \in C : o <= p
  BY <1>2, LeastElement
<1> USE DEF C
<1>4. o \in 0 .. MaxOrder /\ (o < MaxOrder => n <= UnitGranules * OrderSize[o])
  BY <1>1, <1>3
<1>5. ASSUME NEW p \in 0 .. o - 1 PROVE UnitGranules * OrderSize[p] < n
  <2>1. p \in 0 .. MaxOrder /\ p \notin C
    BY <1>1, <1>3, <1>4
  <2>2. PICK size \in Nat : size = UnitGranules * OrderSize[p]
    BY <1>1, <2>1
  <2>3. ~ (n <= size)
    BY <2>1, <2>2
  <2> QED BY <2>2, <2>3
<1> QED BY <1>4, <1>5 DEF OrderFor

(* A request is served by the first region that can, or nothing happens but
   what a failure leaves in each of them. *)
UpTo(g, k, q, failed) ==
  [i \in DOMAIN g.regions |-> IF i < k THEN failed[i] ELSE IF i = k THEN q ELSE In(g, i)]
Refuses(g, tries, failed, a) ==
  /\ \A i \in DOMAIN g.regions : tries[i] = {}
  /\ a.at = NoBlock /\ a.heap = Refilled(g, failed)
ServesAt(g, tries, failed, a, k, x) ==
  /\ k \in DOMAIN g.regions /\ x \in tries[k]
  /\ \A i \in DOMAIN g.regions : i < k => tries[i] = {}
  /\ a.at = <<k, x.x>> /\ a.at # NoBlock
  /\ a.heap = Refilled(g, UpTo(g, k, x.r, failed))

LEMMA FirstOfFacts ==
  ASSUME NEW g, DOMAIN g.regions \subseteq Nat \ {0}, NEW tries, NEW failed,
         NEW a \in FirstOf(g, tries, failed)
  PROVE  Refuses(g, tries, failed, a) \/ \E k, x : ServesAt(g, tries, failed, a, k, x)
<1> DEFINE able == {i \in DOMAIN g.regions : tries[i] # {}}
           k    == CHOOSE i \in able : \A j \in able : i <= j
<1>1. CASE able = {}
  <2>1. a = [at |-> NoBlock, heap |-> Refilled(g, failed)]
    BY <1>1, Zenon DEF FirstOf
  <2> QED BY <1>1, <2>1 DEF Refuses
<1>2. CASE able # {}
  <2>1. a \in {[at |-> <<k, x.x>>, heap |-> Refilled(g, UpTo(g, k, x.r, failed))] : x \in tries[k]}
    BY <1>2, Zenon DEF FirstOf, UpTo
  <2>2. \E i \in able : \A j \in able : i <= j
    <3>1. able \subseteq Nat
      OBVIOUS
    <3> HIDE DEF able
    <3> QED BY <1>2, <3>1, LeastElement
  <2>3. k \in able /\ \A j \in able : k <= j
    BY <2>2, Zenon
  <2>4. k \in DOMAIN g.regions /\ k \in Nat \ {0} /\ \A i \in DOMAIN g.regions : i < k => tries[i] = {}
    <3> HIDE DEF k
    <3> QED BY <2>3
  <2> HIDE DEF k
  <2>5. PICK x \in tries[k] : a = [at |-> <<k, x.x>>, heap |-> Refilled(g, UpTo(g, k, x.r, failed))]
    BY <2>1
  <2>6. a.at = <<k, x.x>> /\ a.at # NoBlock
    BY <2>4, <2>5 DEF NoBlock
  <2>7. ServesAt(g, tries, failed, a, k, x)
    BY <2>4, <2>5, <2>6 DEF ServesAt
  <2> QED BY <2>7
<1> QED BY <1>1, <1>2

(* The regions of heap g2 are those of g, their insides aside. *)
SameRegions(g, g2) ==
  /\ Sane(g2) /\ Len(g2.regions) = Len(g.regions)
  /\ \A i \in DOMAIN g.regions : g2.regions[i].align = g.regions[i].align

LEMMA FirstOfSane ==
  ASSUME NEW g, Sane(g), NEW tries, NEW failed, NEW a \in FirstOf(g, tries, failed),
         \A i \in DOMAIN g.regions : Sound(failed[i]) /\ \A x \in tries[i] : Sound(x.r)
  PROVE  SameRegions(g, a.heap)
<1>1. LaidOut(g) /\ (\A i \in DOMAIN g.regions : Sound(In(g, i))) /\ DOMAIN g.regions \subseteq Nat \ {0}
  BY HeapNumbers DEF Sane
<1>2. CASE Refuses(g, tries, failed, a)
  BY <1>1, <1>2, RefilledSane, RefilledHolds DEF Refuses, SameRegions
<1>3. ASSUME NEW k, NEW x, ServesAt(g, tries, failed, a, k, x)
      PROVE  SameRegions(g, a.heap)
  <2> DEFINE f == UpTo(g, k, x.r, failed)
  <2>1. \A i \in DOMAIN g.regions : Sound(f[i])
    BY <1>1, <1>3 DEF ServesAt, UpTo
  <2>2. a.heap = Refilled(g, f)
    BY <1>3 DEF ServesAt
  <2> HIDE DEF f
  <2> QED BY <1>1, <2>1, <2>2, RefilledSane, RefilledHolds DEF SameRegions
<1> QED BY <1>1, <1>2, <1>3, FirstOfFacts

(* The scan: the parts of __alloc_scan by name. *)
SmallTries(g, n) == [i \in DOMAIN g.regions |->
                       IF i = 1 THEN SmallAllocSlow(In(g, i), n) ELSE SmallAlloc(In(g, i), n)]
LargeTries(g, n) == [i \in DOMAIN g.regions |->
                       IF i = 1 /\ n > SmallUnits THEN LargeAllocSlow(In(g, i), OrderFor(n))
                       ELSE LargeAlloc(In(g, i), OrderFor(n))]
Unchanged(g)   == [i \in DOMAIN g.regions |-> In(g, i)]
Failures(g, o) == [i \in DOMAIN g.regions |-> LargeAllocFailed(In(g, i), o)]
BySmall(g, n)  == n <= SmallUnits /\ \E i \in DOMAIN g.regions : SmallTries(g, n)[i] # {}

LEMMA AllocScanParts ==
  ASSUME NEW g, NEW n
  PROVE  AllocScan(g, n) = IF BySmall(g, n) THEN FirstOf(g, SmallTries(g, n), Unchanged(g))
                           ELSE FirstOf(g, LargeTries(g, n), Failures(g, OrderFor(n)))
BY Zenon DEF AllocScan, BySmall, SmallTries, LargeTries, Unchanged, Failures

(* The tier of the first region has been tried before the scan begins. *)
Tried(g, n) == n <= SmallUnits /\ g.regions # <<>> => Dry(In(g, 1), n)

LEMMA AllocScanSane ==
  ASSUME NEW g, Sane(g), NEW n \in Nat \ {0}, Tried(g, n), NEW a \in AllocScan(g, n)
  PROVE  /\ Sane(a.heap) /\ Len(a.heap.regions) = Len(g.regions)
         /\ a.at = NoBlock =>
              /\ Tried(a.heap, n) /\ ~ BySmall(g, n)
              /\ \A i \in DOMAIN g.regions : LargeTries(g, n)[i] = {}
              /\ \A i \in DOMAIN g.regions : In(a.heap, i) = LargeAllocFailed(In(g, i), OrderFor(n))
<1>1. /\ LaidOut(g) /\ DOMAIN g.regions \subseteq Nat \ {0} /\ SmallUnits \in Nat
      /\ \A i \in DOMAIN g.regions : Sound(In(g, i))
  BY HeapNumbers, TierAssumption DEF Sane
<1>2. DOMAIN g.regions = 1 .. Len(g.regions) /\ Len(g.regions) \in Nat
      /\ (g.regions = <<>> <=> Len(g.regions) = 0)
  BY <1>1, HeapNumbers
<1>3. OrderFor(n) \in 0 .. MaxOrder
  BY OrderForFacts
<1>4. CASE BySmall(g, n)
  <2>1. a \in FirstOf(g, SmallTries(g, n), Unchanged(g)) /\ n \in 1 .. SmallUnits
    BY <1>1, <1>4, AllocScanParts DEF BySmall
  <2>2. ASSUME NEW i \in DOMAIN g.regions
        PROVE  Sound(Unchanged(g)[i]) /\ \A x \in SmallTries(g, n)[i] : Sound(x.r)
    <3>1. CASE i = 1
      <4>1. Dry(In(g, 1), n)
        BY <1>2, <2>1, <3>1 DEF Tried
      <4>2. SmallTries(g, n)[i] = SmallAllocSlow(In(g, 1), n)
        BY <3>1 DEF SmallTries
      <4> QED BY <1>1, <2>1, <3>1, <4>1, <4>2, SlowSound DEF Unchanged
    <3>2. CASE i # 1
      <4>1. SmallTries(g, n)[i] = SmallAlloc(In(g, i), n)
        BY <3>2 DEF SmallTries
      <4> QED BY <1>1, <2>1, <4>1, SmallAllocSound DEF Unchanged
    <3> QED BY <3>1, <3>2
  <2>3. Sane(a.heap) /\ Len(a.heap.regions) = Len(g.regions)
    BY <2>1, <2>2, FirstOfSane DEF SameRegions
  <2>4. a.at # NoBlock
    <3>1. \E i \in DOMAIN g.regions : SmallTries(g, n)[i] # {}
      BY <1>4 DEF BySmall
    <3> QED BY <1>1, <2>1, <3>1, FirstOfFacts DEF Refuses, ServesAt
  <2> QED BY <2>3, <2>4
<1>5. CASE ~ BySmall(g, n)
  <2>1. a \in FirstOf(g, LargeTries(g, n), Failures(g, OrderFor(n)))
    BY <1>5, AllocScanParts
  <2>2. ASSUME NEW i \in DOMAIN g.regions
        PROVE  Sound(Failures(g, OrderFor(n))[i]) /\ \A x \in LargeTries(g, n)[i] : Sound(x.r)
    <3>1. LargeTries(g, n)[i] \in {LargeAllocSlow(In(g, i), OrderFor(n)), LargeAlloc(In(g, i), OrderFor(n))}
      BY DEF LargeTries
    <3>2. Failures(g, OrderFor(n))[i] = LargeAllocFailed(In(g, i), OrderFor(n))
      BY DEF Failures
    <3> QED BY <1>1, <1>3, <3>1, <3>2, SlowSound
  <2>3. Sane(a.heap) /\ Len(a.heap.regions) = Len(g.regions)
    BY <2>1, <2>2, FirstOfSane DEF SameRegions
  <2>4. ASSUME a.at = NoBlock
        PROVE  /\ Tried(a.heap, n) /\ ~ BySmall(g, n)
               /\ \A i \in DOMAIN g.regions : LargeTries(g, n)[i] = {}
               /\ \A i \in DOMAIN g.regions : In(a.heap, i) = LargeAllocFailed(In(g, i), OrderFor(n))
    <3>1. /\ \A i \in DOMAIN g.regions : LargeTries(g, n)[i] = {}
          /\ a.heap = Refilled(g, Failures(g, OrderFor(n)))
      BY <1>1, <2>1, <2>4, FirstOfFacts DEF Refuses, ServesAt
    <3>2. \A i \in DOMAIN g.regions : In(a.heap, i) = LargeAllocFailed(In(g, i), OrderFor(n))
      BY <1>1, <3>1, RefilledHolds DEF Failures
    <3>3. ASSUME n <= SmallUnits, a.heap.regions # <<>>
          PROVE  Dry(In(a.heap, 1), n)
      <4>1. LaidOut(a.heap) /\ 1 \in DOMAIN g.regions /\ g.regions # <<>>
        <5>1. LaidOut(a.heap)
          BY <2>3 DEF Sane
        <5>2. Len(a.heap.regions) # 0
          BY <3>3, <5>1, HeapNumbers
        <5> QED BY <1>2, <2>3, <5>1, <5>2
      <4>2. n \in 1 .. SmallUnits /\ Dry(In(g, 1), n) /\ Sound(In(g, 1))
        BY <1>1, <3>3, <4>1 DEF Tried
      <4>3. In(a.heap, 1) = LargeAllocFailed(In(g, 1), OrderFor(n))
        BY <3>2, <4>1
      <4> QED BY <4>2, <4>3, DryStays
    <3> QED BY <1>5, <3>1, <3>2, <3>3 DEF Tried
  <2> QED BY <2>3, <2>4
<1> QED BY <1>4, <1>5

(* The parts of __alloc_aligned_scan by name. *)
Fits(g, al, i)       == al <= g.regions[i].align
AlignedTries(g, p, al) ==
  [i \in DOMAIN g.regions |-> IF Fits(g, al, i) THEN LargeAlloc(In(g, i), p) ELSE {}]
AlignedFailures(g, p, al) ==
  [i \in DOMAIN g.regions |-> IF Fits(g, al, i) THEN LargeAllocFailed(In(g, i), p) ELSE In(g, i)]

LEMMA AlignedScanParts ==
  ASSUME NEW g, NEW p, NEW al
  PROVE  AlignedScan(g, p, al) = FirstOf(g, AlignedTries(g, p, al), AlignedFailures(g, p, al))
BY Zenon DEF AlignedScan, AlignedTries, AlignedFailures, Fits

LEMMA AlignedScanSane ==
  ASSUME NEW g, Sane(g), NEW o \in 0 .. MaxOrder, NEW al \in Nat, NEW p, p = Larger(o, al),
         NEW a \in AlignedScan(g, p, al)
  PROVE  /\ SameRegions(g, a.heap)
         /\ a.at = NoBlock =>
              \A i \in DOMAIN g.regions :
                AlignedTries(g, p, al)[i] = {} /\ In(a.heap, i) = AlignedFailures(g, p, al)[i]
<1> DEFINE tries  == AlignedTries(g, p, al)
           failed == AlignedFailures(g, p, al)
<1>1. a \in FirstOf(g, tries, failed)
  BY AlignedScanParts
<1>2. ASSUME NEW i \in DOMAIN g.regions
      PROVE  Sound(failed[i]) /\ \A x \in tries[i] : Sound(x.r)
  <2>1. Sound(In(g, i)) /\ g.regions[i].align \in Orders
    BY HeapNumbers DEF Sane
  <2>2. CASE Fits(g, al, i)
    <3>1. p \in 0 .. MaxOrder
      BY <2>1, <2>2, OrderSizeAssumption DEF Larger, Orders, Fits
    <3>2. tries[i] = LargeAlloc(In(g, i), p) /\ failed[i] = LargeAllocFailed(In(g, i), p)
      BY <2>2 DEF AlignedTries, AlignedFailures
    <3> HIDE DEF tries, failed
    <3> QED BY <2>1, <3>1, <3>2, SlowSound
  <2>3. CASE ~ Fits(g, al, i)
    <3>1. tries[i] = {} /\ failed[i] = In(g, i)
      BY <2>3 DEF AlignedTries, AlignedFailures
    <3> HIDE DEF tries, failed
    <3> QED BY <2>1, <3>1
  <2> QED BY <2>2, <2>3
<1> HIDE DEF tries, failed
<1>3. SameRegions(g, a.heap)
  BY <1>1, <1>2, FirstOfSane
<1>4. LaidOut(g) /\ DOMAIN g.regions \subseteq Nat \ {0}
  BY HeapNumbers DEF Sane
<1>5. ASSUME a.at = NoBlock
      PROVE  \A i \in DOMAIN g.regions : tries[i] = {} /\ In(a.heap, i) = failed[i]
  <2>1. Refuses(g, tries, failed, a)
    BY <1>1, <1>4, <1>5, FirstOfFacts DEF ServesAt
  <2> QED BY <1>4, <2>1, RefilledHolds DEF Refuses
<1> QED BY <1>3, <1>5 DEF tries, failed

LEMMA GrownHolds ==
  ASSUME NEW g, Sane(g), NEW grown \in Grown(g)
  PROVE  LET n == Len(g.regions)
         IN  /\ Sane(grown) /\ \A m \in Nat \ {0} : Tried(g, m) => Tried(grown, m)
             /\ \/ grown = g
                \/ /\ Len(grown.regions) = n + 1 /\ In(grown, n + 1) = FreshRegion
                   /\ \A i \in 1 .. n : In(grown, i) = In(g, i) /\ grown.regions[i] = g.regions[i]
<1> DEFINE n == Len(g.regions)
<1>1. PICK p \in Pages : grown = Attach(g, p)
  BY DEF Grown
<1>2. /\ Sane(grown)
      /\ \/ grown = g
         \/ /\ Len(grown.regions) = n + 1 /\ In(grown, n + 1) = FreshRegion
            /\ \A i \in 1 .. n : In(grown, i) = In(g, i) /\ grown.regions[i] = g.regions[i]
  BY <1>1, AttachHolds
<1>3. ASSUME NEW m \in Nat \ {0}, Tried(g, m) PROVE Tried(grown, m)
  <2>1. CASE grown = g
    BY <1>3, <2>1
  <2>2. CASE n = 0 /\ In(grown, n + 1) = FreshRegion
    <3>1. m <= SmallUnits => m \in 1 .. SmallUnits
      BY TierAssumption
    <3>2. In(grown, 1) = FreshRegion
      BY <2>2
    <3> QED BY <3>1, <3>2, FreshServes DEF Tried
  <2>3. CASE n # 0 /\ \A i \in 1 .. n : In(grown, i) = In(g, i)
    <3>1. LaidOut(g) /\ n \in Nat /\ g.regions # <<>>
      BY <2>3, HeapNumbers DEF Sane
    <3>2. In(grown, 1) = In(g, 1)
      BY <2>3, <3>1
    <3> QED BY <1>3, <3>1, <3>2 DEF Tried
  <2> QED BY <1>2, <2>1, <2>2, <2>3
<1> QED BY <1>2, <1>3

(* The heap as it is when the scan begins. *)
LEMMA ReadyTried ==
  ASSUME NEW g, Sane(g), NEW n \in Nat \ {0}, AllocFast(g, n) = {}
  PROVE  Sane(InitHeap(g)) /\ Tried(InitHeap(g), n)
<1> DEFINE ready == InitHeap(g)
<1>1. /\ Sane(ready)
      /\ \/ ready.regions = g.regions
         \/ g.regions = <<>> /\ Len(ready.regions) = 1 /\ In(ready, 1) = FreshRegion
  BY InitHolds
<1>2. SmallUnits \in Nat
  BY TierAssumption
<1> HIDE DEF ready
<1>3. CASE ready.regions = g.regions
  <2> SUFFICES ASSUME n <= SmallUnits, ready.regions # <<>> PROVE Dry(In(ready, 1), n)
    BY <1>1 DEF Tried, ready
  <2>1. AllocFast(g, n) = {} /\ g.regions # <<>> /\ ~ (n > SmallUnits)
    BY <1>2, <1>3
  <2>2. Dry(In(g, 1), n)
    BY <2>1 DEF AllocFast, Dry
  <2> QED BY <1>3, <2>2 DEF In
<1>4. CASE In(ready, 1) = FreshRegion
  <2>1. n <= SmallUnits => n \in 1 .. SmallUnits
    BY <1>2
  <2> QED BY <1>1, <1>4, <2>1, FreshServes DEF Tried, ready
<1> QED BY <1>1, <1>3, <1>4

LEMMA AllocSane ==
  ASSUME NEW g, Sane(g), NEW n \in Nat \ {0}, NEW al \in Nat \union {Null},
         NEW a \in HeapAlloc(g, n, al)
  PROVE  Sane(a.heap)
<1>1. /\ LaidOut(g) /\ SmallUnits \in Nat /\ OrderFor(n) \in 0 .. MaxOrder
      /\ DOMAIN g.regions = 1 .. Len(g.regions) /\ Len(g.regions) \in Nat
      /\ (g.regions = <<>> <=> Len(g.regions) = 0)
      /\ \A i \in DOMAIN g.regions : Sound(In(g, i))
  BY HeapNumbers, OrderForFacts, TierAssumption DEF Sane
<1>2. CASE al = Null /\ AllocFast(g, n) # {}
  <2>1. PICK x \in AllocFast(g, n) : a = [at |-> <<1, x.x>>, heap |-> With(g, 1, x.r)]
    BY <1>2, Zenon DEF HeapAlloc
  <2>2. g.regions # <<>>
    BY DEF AllocFast
  <2>3. 1 \in DOMAIN g.regions /\ Sound(In(g, 1))
    BY <1>1, <2>2
  <2>4. Sound(x.r)
    <3>1. CASE n > SmallUnits
      <4>1. x \in LargeGrants(In(g, 1), OrderFor(n))
        BY <2>2, <3>1 DEF AllocFast
      <4> QED BY <1>1, <2>3, <4>1, SlowSound
    <3>2. CASE ~ (n > SmallUnits)
      <4>1. n \in 1 .. SmallUnits
        BY <1>1, <3>2
      <4>2. x \in SmallAlloc(In(g, 1), n)
        BY <2>2, <3>2 DEF AllocFast, SmallAlloc
      <4> QED BY <2>3, <4>1, <4>2, SmallAllocSound
    <3> QED BY <3>1, <3>2
  <2> DEFINE f == [j \in DOMAIN g.regions |-> IF j = 1 THEN x.r ELSE In(g, j)]
  <2>5. a.heap = Refilled(g, f)
    BY <2>1 DEF With
  <2>6. \A j \in DOMAIN g.regions : Sound(f[j])
    BY <1>1, <2>4
  <2> HIDE DEF f
  <2> QED BY <1>1, <2>5, <2>6, RefilledSane
<1>3. CASE ~ (al = Null /\ AllocFast(g, n) # {})
  <2> DEFINE ready == InitHeap(g)
  <2>1. /\ Sane(ready)
        /\ \/ ready.regions = g.regions
           \/ g.regions = <<>> /\ Len(ready.regions) = 1 /\ In(ready, 1) = FreshRegion
    BY InitHolds
  <2>2. /\ a \in AllocSlow(g, n, al)
    BY <1>3 DEF HeapAlloc
  <2>3. \/ a.heap = ready
        \/ a \in Scan(ready, n, al)
        \/ \E x \in Scan(ready, n, al) :
             x.at = NoBlock /\ \E grown \in Grown(x.heap) : a \in Scan(grown, n, al)
    BY <2>2 DEF AllocSlow
  <2>4. CASE al # Null
    <3>1. ASSUME NEW g2, Sane(g2), NEW x \in Scan(g2, n, al) PROVE Sane(x.heap)
      <4>1. x \in AlignedScan(g2, Larger(OrderFor(n), al), al) /\ al \in Nat
        BY <2>4, <3>1 DEF Scan
      <4> QED BY <1>1, <3>1, <4>1, AlignedScanSane DEF SameRegions
    <3> HIDE DEF ready
    <3>2. ASSUME NEW x \in Scan(ready, n, al), NEW grown \in Grown(x.heap) PROVE Sane(grown)
      BY <2>1, <3>1, <3>2, GrownHolds
    <3> QED BY <2>1, <2>3, <3>1, <3>2
  <2>5. CASE al = Null
    <3>1. Tried(ready, n)
      BY <1>3, <2>5, ReadyTried
    <3>2. \A g2 : Scan(g2, n, al) = AllocScan(g2, n)
      BY <2>5 DEF Scan
    <3> HIDE DEF ready
    <3>3. ASSUME NEW x \in AllocScan(ready, n), x.at = NoBlock, NEW grown \in Grown(x.heap)
          PROVE  Sane(grown) /\ Tried(grown, n)
      <4>1. Sane(x.heap) /\ Tried(x.heap, n)
        BY <2>1, <3>1, <3>3, AllocScanSane
      <4> QED BY <3>3, <4>1, GrownHolds
    <3> QED BY <2>1, <2>3, <3>1, <3>2, <3>3, AllocScanSane
  <2> QED BY <2>4, <2>5
<1> QED BY <1>2, <1>3

LEMMA WithSane ==
  ASSUME NEW g, Sane(g), NEW i, NEW q, Sound(q)
  PROVE  Sane(With(g, i, q))
<1> DEFINE f == [j \in DOMAIN g.regions |-> IF j = i THEN q ELSE In(g, j)]
<1>1. LaidOut(g) /\ \A j \in DOMAIN g.regions : Sound(f[j])
  BY DEF Sane
<1>2. With(g, i, q) = Refilled(g, f)
  BY DEF With
<1> HIDE DEF f
<1> QED BY <1>1, <1>2, RefilledSane

LEMMA StepSane ==
  ASSUME Sane(h), [Next]_h
  PROVE  Sane(h')
<1>1. CASE \E d \in Areas : DoAttach(d)
  BY <1>1, AttachHolds DEF DoAttach
<1>2. CASE DoInit
  BY <1>2, InitHolds DEF DoInit
<1>3. ASSUME NEW n \in Requests, DoAlloc(n)
      PROVE  Sane(h')
  BY <1>3, AllocSane, HeapAssumption DEF DoAlloc
<1>4. ASSUME NEW n \in Requests, NEW al \in Alignments, DoAllocAligned(n, al)
      PROVE  Sane(h')
  BY <1>4, AllocSane, HeapAssumption DEF DoAllocAligned
<1>5. ASSUME NEW i \in 1 .. MaxRegions, NEW x \in Places, FreeSmall(i, x)
      PROVE  Sane(h')
  <2>1. Sound(In(h, i)) /\ Core(In(h, i)) /\ OwnsSmall(In(h, i), x)
    BY <1>5 DEF FreeSmall, Attached, Sane, Sound
  <2>2. Sound(SmallFree(In(h, i), x))
    BY <2>1, OwnsSmallUse, SmallFreeSound
  <2> QED BY <1>5, <2>2, WithSane DEF FreeSmall
<1>6. ASSUME NEW i \in 1 .. MaxRegions, NEW u \in Units, FreeLarge(i, u)
      PROVE  Sane(h')
  <2> DEFINE q == In(h, i)
  <2>1. Sound(q) /\ Core(q) /\ OwnsLarge(q, u)
    BY <1>6 DEF FreeLarge, Attached, Sane, Sound
  <2>2. h' = With(h, i, [q EXCEPT !.pool = DeallocateOrder(q.pool, u, OrderAt(q.pool, u))])
    BY <1>6 DEF FreeLarge
  <2> HIDE DEF q
  <2>3. u \in LargeIn(q)
    BY <2>1, OwnsLargeUse
  <2>4. Sound([q EXCEPT !.pool = DeallocateOrder(q.pool, u, OrderAt(q.pool, u))])
    BY <2>1, <2>3, FreeLargeSound
  <2> QED BY <2>2, <2>4, WithSane
<1>7. ASSUME NEW i \in 1 .. MaxRegions, NEW u \in Units, NEW want \in Orders,
             GrowLarge(i, u, want)
      PROVE  Sane(h')
  <2> DEFINE q == In(h, i)
             d == [q EXCEPT !.pool = GrowTo(q.pool, u, OrderAt(q.pool, u), want)]
  <2>1. /\ Sound(q) /\ Core(q) /\ OwnsLarge(q, u)
        /\ OrderAt(q.pool, u) < want /\ CanGrow(q.pool, u, OrderAt(q.pool, u), want)
    BY <1>7 DEF GrowLarge, Attached, Sane, Sound
  <2>2. h' = With(h, i, d)
    BY <1>7 DEF GrowLarge
  <2> HIDE DEF q
  <2>3. u \in LargeIn(q)
    BY <2>1, OwnsLargeUse
  <2>4. Sound(d)
    BY <2>1, <2>3, GrowLargeSound
  <2> HIDE DEF d
  <2> QED BY <2>2, <2>4, WithSane
<1>8. CASE LargestFree \/ Reset
  <2> DEFINE g == InitHeap(h)
             f == [i \in DOMAIN g.regions |-> FlushSpare(In(g, i))]
             e == [i \in DOMAIN g.regions |-> FreshRegion]
  <2>1. Sane(g)
    BY InitHolds
  <2>2. h' = Refilled(g, f) \/ h' = Refilled(g, e)
    BY <1>8 DEF LargestFree, Reset, OnEvery
  <2> HIDE DEF g
  <2>3. LaidOut(g) /\ \A i \in DOMAIN g.regions : Sound(f[i]) /\ Sound(e[i])
    BY <2>1, FlushSound, FreshSound DEF Sane
  <2> HIDE DEF f, e
  <2> QED BY <2>2, <2>3, RefilledSane
<1>9. CASE UNCHANGED h
  <2>1. h' = h
    BY <1>9
  <2>2. LaidOut(h')
    BY <2>1 DEF Sane, LaidOut, Shaped, Apart
  <2> QED BY <2>1, <2>2 DEF Sane, In
<1> QED BY <1>1, <1>2, <1>3, <1>4, <1>5, <1>6, <1>7, <1>8, <1>9 DEF Next

(* Nothing has been refused for want of room: large blocks and small ones. *)
LEMMA GrantsOrSlow ==
  ASSUME NEW q, NEW o, LargeGrants(q, o) = {}
  PROVE  LargeAlloc(q, o) = LargeAllocSlow(q, o)
BY DEF LargeAlloc

(* A scan that finds nothing has found room in no region. *)
LEMMA ScanServes ==
  ASSUME NEW g, Sane(g), NEW n \in Nat \ {0}, NEW al \in Nat \union {Null},
         al = Null => AllocFast(g, n) = {}, HasRoom(g, n, al), NEW a \in Scan(g, n, al)
  PROVE  a.at # NoBlock
<1>1. /\ LaidOut(g) /\ DOMAIN g.regions \subseteq Nat \ {0} /\ SmallUnits \in Nat
      /\ \A i \in DOMAIN g.regions : Sound(In(g, i))
  BY HeapNumbers, TierAssumption DEF Sane
<1>2. CASE al = Null
  <2>1. PICK i \in DOMAIN g.regions : RoomFor(In(g, i), OrderFor(n))
    BY <1>2 DEF HasRoom
  <2>2. LargeAlloc(In(g, i), OrderFor(n)) # {}
    <3>1. OrderFor(n) \in Orders
      BY <2>1 DEF RoomFor
    <3> QED BY <1>1, <2>1, <3>1, LargeServed
  <2>3. LargeTries(g, n)[i] # {}
    <3>1. CASE i = 1 /\ n > SmallUnits
      <4>1. LargeTries(g, n)[i] = LargeAllocSlow(In(g, i), OrderFor(n))
        BY <3>1 DEF LargeTries
      <4>2. AllocFast(g, n) = LargeGrants(In(g, 1), OrderFor(n))
        <5>1. g.regions # <<>>
          BY <2>1
        <5> QED BY <3>1, <5>1 DEF AllocFast
      <4>3. LargeGrants(In(g, i), OrderFor(n)) = {}
        BY <1>2, <3>1, <4>2
      <4> QED BY <2>2, <4>1, <4>3, GrantsOrSlow
    <3>2. CASE ~ (i = 1 /\ n > SmallUnits)
      <4>1. LargeTries(g, n)[i] = LargeAlloc(In(g, i), OrderFor(n))
        BY <3>2 DEF LargeTries
      <4> QED BY <2>2, <4>1
    <3> QED BY <3>1, <3>2
  <2>4. a \in AllocScan(g, n)
    BY <1>2 DEF Scan
  <2>5. CASE BySmall(g, n)
    <3>1. a \in FirstOf(g, SmallTries(g, n), Unchanged(g))
      BY <2>4, <2>5, AllocScanParts
    <3>2. \E j \in DOMAIN g.regions : SmallTries(g, n)[j] # {}
      BY <2>5 DEF BySmall
    <3> QED BY <1>1, <3>1, <3>2, FirstOfFacts DEF Refuses, ServesAt
  <2>6. CASE ~ BySmall(g, n)
    <3>1. a \in FirstOf(g, LargeTries(g, n), Failures(g, OrderFor(n)))
      BY <2>4, <2>6, AllocScanParts
    <3> QED BY <1>1, <2>3, <3>1, FirstOfFacts DEF Refuses, ServesAt
  <2> QED BY <2>5, <2>6
<1>3. CASE al # Null
  <2> DEFINE p == Larger(OrderFor(n), al)
  <2>1. PICK i \in DOMAIN g.regions : Fits(g, al, i) /\ RoomFor(In(g, i), p)
    BY <1>3 DEF HasRoom, Fits
  <2> HIDE DEF p
  <2>2. LargeAlloc(In(g, i), p) # {}
    <3>1. p \in Orders
      BY <2>1 DEF RoomFor
    <3> QED BY <1>1, <2>1, <3>1, LargeServed
  <2>3. AlignedTries(g, p, al)[i] # {}
    BY <2>1, <2>2 DEF AlignedTries
  <2>4. a \in FirstOf(g, AlignedTries(g, p, al), AlignedFailures(g, p, al))
    BY <1>3, AlignedScanParts DEF Scan, p
  <2> QED BY <1>1, <2>3, <2>4, FirstOfFacts DEF Refuses, ServesAt
<1> QED BY <1>2, <1>3

LEMMA RequestServed ==
  ASSUME NEW g, Sane(g), g.inited, NEW n \in Nat \ {0}, NEW al \in Nat \union {Null},
         HasRoom(g, n, al), NEW a \in HeapAlloc(g, n, al)
  PROVE  a.at # NoBlock
<1>1. CASE al = Null /\ AllocFast(g, n) # {}
  <2>1. PICK x \in AllocFast(g, n) : a = [at |-> <<1, x.x>>, heap |-> With(g, 1, x.r)]
    BY <1>1, Zenon DEF HeapAlloc
  <2>2. a.at = <<1, x.x>>
    BY <2>1
  <2> QED BY <2>2 DEF NoBlock
<1>2. CASE ~ (al = Null /\ AllocFast(g, n) # {})
  <2>1. a \in AllocSlow(g, n, al) /\ InitHeap(g) = g
    BY <1>2 DEF HeapAlloc, InitHeap
  <2>2. \A x \in Scan(g, n, al) : x.at # NoBlock
    BY <1>2, ScanServes
  <2>3. a \in Scan(g, n, al)
    BY <2>1, <2>2 DEF AllocSlow
  <2> QED BY <2>2, <2>3
<1> QED BY <1>1, <1>2

(* Every region of a heap stays a sound one, and the heap laid out, in      *)
(* every history of calls: the inductive invariant of what follows.         *)
THEOREM Invariance == Spec => []Sane(h)
<1>1. Init => Sane(h)
  <2> SUFFICES ASSUME Init PROVE Sane(h)
    OBVIOUS
  <2>1. h.regions = <<>> /\ h = [regions |-> h.regions, inited |-> h.inited]
        /\ h.inited = FALSE
    BY DEF Init
  <2>2. h.regions \in Seq(Placed({})) /\ Len(h.regions) = 0 /\ DOMAIN h.regions = {}
    BY <2>1
  <2>3. Shaped(h)
    BY <2>1, <2>2 DEF Shaped
  <2>4. Apart(h)
    BY <2>1, <2>2, HeapAssumption DEF Apart
  <2> QED BY <2>2, <2>3, <2>4 DEF LaidOut, Sane
<1>2. Sane(h) /\ [Next]_h => Sane(h)'
  <2> SUFFICES ASSUME Sane(h), [Next]_h PROVE Sane(h')
    OBVIOUS
  <2> QED BY StepSane
<1> QED BY <1>1, <1>2, PTL DEF Spec

(* Once a region is attached the heap refuses a request, small, large or    *)
(* aligned, only if it fits nowhere between the live large blocks and the   *)
(* sheets in use of any region, whatever the earlier regions of the scan    *)
(* have done on its way (__alloc_scan, __alloc_aligned_scan).               *)
THEOREM Refusals == Spec => []NoFalseRefusal
<1>1. Sane(h) => NoFalseRefusal
  <2> SUFFICES ASSUME Sane(h), h.regions # <<>>, NEW n \in Requests,
                      NEW al \in Alignments \union {Null},
                      HasRoom(InitHeap(h), n, al), NEW a \in HeapAlloc(h, n, al)
               PROVE  a.at # NoBlock
    BY DEF NoFalseRefusal, Served
  <2>1. h.inited
    BY HeapNumbers DEF Sane
  <2>2. InitHeap(h) = h
    BY <2>1 DEF InitHeap
  <2>3. n \in Nat \ {0} /\ al \in Nat \union {Null}
    BY HeapAssumption
  <2> QED BY <2>1, <2>2, <2>3, RequestServed
<1> QED BY <1>1, Invariance, PTL

-----------------------------------------------------------------------------
(***************************************************************************)
(* Growth.  A scan that failed leaves every region such that the same      *)
(* request would be refused by it once more; so when the heap has grown,   *)
(* the new region is the first that can do something for it.               *)
(***************************************************************************)
Spent(g, n) ==
  \A i \in DOMAIN g.regions :
    LargeTries(g, n)[i] = {} /\ (n <= SmallUnits => SmallTries(g, n)[i] = {})

(* The slow path alone has been taken: there is no spare any more. *)
LEMMA SlowRefusedAgain ==
  ASSUME NEW q, Sound(q), NEW o, LargeAllocSlow(q, o) = {}
  PROVE  LargeAllocSlow(LargeAllocFailed(q, o), o) = {}
<1>1. CASE q.spare = Null \/ o >= MaxOrder
  BY <1>1 DEF LargeAllocFailed
<1>2. CASE ~ (q.spare = Null \/ o >= MaxOrder)
  <2>1. FlushSpare(q).spare = Null
    BY FlushSound
  <2> QED BY <1>2, <2>1 DEF LargeAllocFailed, LargeAllocSlow
<1> QED BY <1>1, <1>2

LEMMA FailedAgain ==
  ASSUME NEW g, Sane(g), NEW n \in Nat \ {0}, Tried(g, n),
         NEW x \in AllocScan(g, n), x.at = NoBlock
  PROVE  Spent(x.heap, n)
<1> DEFINE o == OrderFor(n)
<1>1. /\ LaidOut(g) /\ LaidOut(x.heap) /\ SmallUnits \in Nat /\ ~ BySmall(g, n)
      /\ DOMAIN x.heap.regions = DOMAIN g.regions /\ DOMAIN g.regions \subseteq Nat \ {0}
  <2>1. Sane(x.heap) /\ Len(x.heap.regions) = Len(g.regions) /\ ~ BySmall(g, n)
    BY AllocScanSane
  <2> QED BY <2>1, HeapNumbers, TierAssumption DEF Sane
<1> SUFFICES ASSUME NEW i \in DOMAIN g.regions
             PROVE  LargeTries(x.heap, n)[i] = {} /\ (n <= SmallUnits => SmallTries(x.heap, n)[i] = {})
  BY <1>1 DEF Spent
<1> DEFINE b == In(g, i)
           q == In(x.heap, i)
<1>2. Sound(b) /\ LargeTries(g, n)[i] = {} /\ q = LargeAllocFailed(b, o)
  BY AllocScanSane DEF Sane
<1>3. LargeTries(x.heap, n)[i] = {}
  <2>1. CASE i = 1 /\ n > SmallUnits
    <3>1. LargeAllocSlow(b, o) = {}
      BY <1>2, <2>1 DEF LargeTries
    <3> HIDE DEF b, q, o
    <3>2. LargeAllocSlow(q, o) = {}
      BY <1>2, <3>1, SlowRefusedAgain
    <3> QED BY <1>1, <2>1, <3>2 DEF LargeTries, q, o
  <2>2. CASE ~ (i = 1 /\ n > SmallUnits)
    <3>1. LargeAlloc(b, o) = {}
      BY <1>2, <2>2 DEF LargeTries
    <3> HIDE DEF b, q, o
    <3>2. LargeAlloc(q, o) = {}
      BY <1>2, <3>1, RefusedAgain
    <3> QED BY <1>1, <2>2, <3>2 DEF LargeTries, q, o
  <2> QED BY <2>1, <2>2
<1>4. ASSUME n <= SmallUnits PROVE SmallTries(x.heap, n)[i] = {}
  <2>1. SmallTries(g, n)[i] = {} /\ n \in 1 .. SmallUnits
    BY <1>1, <1>4 DEF BySmall
  <2>2. Dry(b, n) /\ SmallAllocSlow(b, n) = {}
    <3>1. CASE i = 1
      <4>1. SmallAllocSlow(b, n) = {}
        BY <2>1, <3>1 DEF SmallTries
      <4>2. g.regions # <<>>
        BY <1>1
      <4> QED BY <1>4, <3>1, <4>1, <4>2 DEF Tried
    <3>2. CASE i # 1
      <4>1. SmallAlloc(b, n) = {}
        BY <2>1, <3>2 DEF SmallTries
      <4> HIDE DEF b
      <4> QED BY <4>1 DEF SmallAlloc, Dry
    <3> QED BY <3>1, <3>2
  <2> HIDE DEF b, q, o
  <2>3. SmallAllocSlow(q, n) = {} /\ SmallAlloc(q, n) = {}
    BY <1>2, <2>1, <2>2, DryStays
  <2> QED BY <1>1, <2>3 DEF SmallTries, q
<1> QED BY <1>3, <1>4

(* Served by the last region, the others being unable to. *)
LEMMA LastServes ==
  ASSUME NEW g, Sane(g), NEW tries, NEW failed, NEW k \in Nat \ {0}, k = Len(g.regions),
         \A i \in DOMAIN g.regions : i # k => tries[i] = {}, tries[k] # {},
         NEW a \in FirstOf(g, tries, failed)
  PROVE  a.at[1] = k
<1>1. DOMAIN g.regions = 1 .. k /\ k \in DOMAIN g.regions /\ DOMAIN g.regions \subseteq Nat \ {0}
  <2>1. DOMAIN g.regions = 1 .. k
    BY HeapNumbers DEF Sane
  <2> QED BY <2>1
<1>2. ~ Refuses(g, tries, failed, a)
  BY <1>1 DEF Refuses
<1>3. PICK j, x : ServesAt(g, tries, failed, a, j, x)
  BY <1>1, <1>2, FirstOfFacts
<1>4. j \in DOMAIN g.regions /\ tries[j] # {} /\ a.at = <<j, x.x>>
  BY <1>3 DEF ServesAt
<1> QED BY <1>4

(* The heap has grown for a request that the scan of g refused. *)
GrewFor(g, x, grown) ==
  /\ Sane(x.heap) /\ Len(x.heap.regions) = Len(g.regions)
  /\ grown \in Grown(x.heap) /\ Len(grown.regions) > Len(g.regions)

LEMMA GrewFacts ==
  ASSUME NEW g, Sane(g), NEW x, NEW grown, GrewFor(g, x, grown)
  PROVE  \E k \in Nat \ {0} :
           /\ k = Len(grown.regions) /\ Sane(grown) /\ In(grown, k) = FreshRegion
           /\ DOMAIN grown.regions = 1 .. k /\ DOMAIN x.heap.regions = 1 .. k - 1
           /\ \A i \in DOMAIN x.heap.regions :
                In(grown, i) = In(x.heap, i) /\ grown.regions[i] = x.heap.regions[i]
<1> DEFINE L == Len(x.heap.regions)
<1>1. Sane(x.heap) /\ LaidOut(x.heap) /\ grown \in Grown(x.heap) /\ Len(grown.regions) > L
  BY DEF GrewFor, Sane
<1>2. L \in Nat /\ DOMAIN x.heap.regions = 1 .. L
  BY <1>1, HeapNumbers
<1>3. PICK k \in Nat \ {0} : k = L + 1
  BY <1>2
<1>4. 1 .. L = 1 .. k - 1
  BY <1>2, <1>3
<1>5. /\ Sane(grown) /\ Len(grown.regions) = k /\ In(grown, k) = FreshRegion
      /\ \A i \in 1 .. L : In(grown, i) = In(x.heap, i) /\ grown.regions[i] = x.heap.regions[i]
  <2>1. grown # x.heap
    BY <1>1, <1>2
  <2> QED BY <1>1, <1>3, <2>1, GrownHolds
<1>6. DOMAIN grown.regions = 1 .. k
  BY <1>5, HeapNumbers DEF Sane
<1> QED BY <1>2, <1>3, <1>4, <1>5, <1>6

LEMMA FreshRefusesSlow ==
  ASSUME NEW o
  PROVE  /\ LargeAllocSlow(FreshRegion, o) = {} /\ LargeAllocFailed(FreshRegion, o) = FreshRegion
         /\ LargeAlloc(FreshRegion, o) = LargeGrants(FreshRegion, o)
<1>1. FreshRegion.spare = Null
  BY DEF FreshRegion
<1>2. LargeAllocSlow(FreshRegion, o) = {} /\ LargeAllocFailed(FreshRegion, o) = FreshRegion
  BY <1>1 DEF LargeAllocSlow, LargeAllocFailed
<1> QED BY <1>2 DEF LargeAlloc

(* A request without an alignment: the new region serves it, or it is the only
   one, the request large, and the region left as it was attached. *)
LEMMA RetryServes ==
  ASSUME NEW g, Sane(g), NEW n \in Nat \ {0}, OrderFor(n) \in Orders, Tried(g, n),
         NEW x \in AllocScan(g, n), x.at = NoBlock, NEW grown, GrewFor(g, x, grown),
         NEW a \in AllocScan(grown, n)
  PROVE  /\ Sane(a.heap) /\ Len(a.heap.regions) = Len(grown.regions)
         /\ \/ a.at[1] = Len(grown.regions)
            \/ Len(grown.regions) = 1 /\ n > SmallUnits /\ In(a.heap, 1) = FreshRegion
<1> DEFINE o == OrderFor(n)
<1>1. PICK k \in Nat \ {0} :
        /\ k = Len(grown.regions) /\ Sane(grown) /\ In(grown, k) = FreshRegion
        /\ DOMAIN grown.regions = 1 .. k /\ DOMAIN x.heap.regions = 1 .. k - 1
        /\ \A i \in DOMAIN x.heap.regions :
             In(grown, i) = In(x.heap, i) /\ grown.regions[i] = x.heap.regions[i]
  BY GrewFacts
<1>2. Tried(grown, n) /\ SmallUnits \in Nat
  <2>1. Sane(x.heap) /\ Tried(x.heap, n)
    BY AllocScanSane
  <2> QED BY <2>1, GrownHolds, TierAssumption DEF GrewFor
<1>3. Sane(a.heap) /\ Len(a.heap.regions) = k
  BY <1>1, <1>2, AllocScanSane
<1>4. ASSUME NEW i \in DOMAIN grown.regions, i # k
      PROVE  LargeTries(grown, n)[i] = {} /\ (n <= SmallUnits => SmallTries(grown, n)[i] = {})
  <2>1. i \in DOMAIN x.heap.regions
    BY <1>1, <1>4
  <2>2. Spent(x.heap, n)
    BY FailedAgain
  <2>3. LargeTries(grown, n)[i] = LargeTries(x.heap, n)[i]
    BY <1>1, <2>1 DEF LargeTries
  <2>4. SmallTries(grown, n)[i] = SmallTries(x.heap, n)[i]
    BY <1>1, <2>1 DEF SmallTries
  <2> QED BY <2>1, <2>2, <2>3, <2>4 DEF Spent
<1>5. k \in DOMAIN grown.regions
  BY <1>1
<1>6. CASE BySmall(grown, n)
  <2>1. SmallTries(grown, n)[k] # {} /\ n <= SmallUnits
    BY <1>4, <1>6 DEF BySmall
  <2>2. a \in FirstOf(grown, SmallTries(grown, n), Unchanged(grown))
    BY <1>6, AllocScanParts
  <2>3. a.at[1] = k
    BY <1>1, <1>4, <2>1, <2>2, LastServes
  <2> QED BY <1>1, <1>3, <2>3
<1>7. CASE ~ BySmall(grown, n) /\ ~ (k = 1 /\ n > SmallUnits)
  <2>1. LargeTries(grown, n)[k] = LargeAlloc(FreshRegion, o)
    BY <1>1, <1>5, <1>7 DEF LargeTries
  <2>2. LargeTries(grown, n)[k] # {}
    BY <2>1, FreshServes
  <2>3. a \in FirstOf(grown, LargeTries(grown, n), Failures(grown, o))
    BY <1>7, AllocScanParts
  <2>4. a.at[1] = k
    BY <1>1, <1>4, <2>2, <2>3, LastServes
  <2> QED BY <1>1, <1>3, <2>4
<1>8. CASE ~ BySmall(grown, n) /\ k = 1 /\ n > SmallUnits
  <2>1. a \in FirstOf(grown, LargeTries(grown, n), Failures(grown, o))
    BY <1>8, AllocScanParts
  <2>2. LargeTries(grown, n)[1] = {}
    <3>1. LargeTries(grown, n)[1] = LargeAllocSlow(FreshRegion, o)
      BY <1>1, <1>5, <1>8 DEF LargeTries
    <3> QED BY <3>1, FreshRefusesSlow
  <2>3. \A i \in DOMAIN grown.regions : LargeTries(grown, n)[i] = {}
    BY <1>4, <1>8, <2>2
  <2>4. DOMAIN grown.regions \subseteq Nat \ {0} /\ LaidOut(grown)
    BY <1>1 DEF Sane
  <2>5. a.heap = Refilled(grown, Failures(grown, o))
    BY <2>1, <2>3, <2>4, FirstOfFacts DEF Refuses, ServesAt
  <2>6. In(a.heap, 1) = Failures(grown, o)[1]
    BY <1>5, <1>8, <2>4, <2>5, RefilledHolds
  <2>7. In(a.heap, 1) = LargeAllocFailed(FreshRegion, o)
    BY <1>1, <1>5, <1>8, <2>6 DEF Failures
  <2> QED BY <1>1, <1>3, <1>8, <2>7, FreshRefusesSlow
<1> QED BY <1>6, <1>7, <1>8

(* A request with an alignment, the new region aligned to it. *)
LEMMA AlignedRetryServes ==
  ASSUME NEW g, Sane(g), NEW o \in 0 .. MaxOrder, NEW al \in Nat, NEW p \in Orders, p = Larger(o, al),
         NEW x \in AlignedScan(g, p, al), x.at = NoBlock, NEW grown, GrewFor(g, x, grown),
         NEW a \in AlignedScan(grown, p, al), al <= a.heap.regions[Len(a.heap.regions)].align
  PROVE  a.at[1] = Len(a.heap.regions)
<1>1. PICK k \in Nat \ {0} :
        /\ k = Len(grown.regions) /\ Sane(grown) /\ In(grown, k) = FreshRegion
        /\ DOMAIN grown.regions = 1 .. k /\ DOMAIN x.heap.regions = 1 .. k - 1
        /\ \A i \in DOMAIN x.heap.regions :
             In(grown, i) = In(x.heap, i) /\ grown.regions[i] = x.heap.regions[i]
  BY GrewFacts
<1>2. k \in DOMAIN grown.regions
  BY <1>1
<1>3. Len(a.heap.regions) = k /\ Fits(grown, al, k)
  <2>1. SameRegions(grown, a.heap)
    BY <1>1, AlignedScanSane
  <2> QED BY <1>1, <1>2, <2>1 DEF SameRegions, Fits
<1>4. AlignedTries(grown, p, al)[k] # {}
  <2>1. AlignedTries(grown, p, al)[k] = LargeAlloc(FreshRegion, p)
    BY <1>1, <1>2, <1>3 DEF AlignedTries
  <2> QED BY <2>1, FreshServes
<1>5. ASSUME NEW i \in DOMAIN grown.regions, i # k
      PROVE  AlignedTries(grown, p, al)[i] = {}
  <2> DEFINE b == In(g, i)
             q == In(grown, i)
  <2>1. /\ SameRegions(g, x.heap)
        /\ \A j \in DOMAIN g.regions :
             AlignedTries(g, p, al)[j] = {} /\ In(x.heap, j) = AlignedFailures(g, p, al)[j]
    BY AlignedScanSane
  <2>2. i \in DOMAIN x.heap.regions /\ i \in DOMAIN g.regions
    <3>1. DOMAIN x.heap.regions = DOMAIN g.regions
      BY <2>1, HeapNumbers DEF SameRegions, Sane
    <3> QED BY <1>1, <1>5, <3>1
  <2>3. grown.regions[i].align = g.regions[i].align
    BY <1>1, <2>1, <2>2 DEF SameRegions
  <2>4. CASE Fits(g, al, i)
    <3>1. LargeAlloc(b, p) = {} /\ q = LargeAllocFailed(b, p) /\ Sound(b)
      BY <1>1, <2>1, <2>2, <2>4 DEF AlignedTries, AlignedFailures, Sane
    <3> HIDE DEF b, q
    <3>2. LargeAlloc(q, p) = {}
      BY <3>1, RefusedAgain
    <3> QED BY <3>2 DEF AlignedTries, q
  <2>5. CASE ~ Fits(g, al, i)
    BY <2>3, <2>5 DEF AlignedTries, Fits
  <2> QED BY <2>4, <2>5
<1>6. a \in FirstOf(grown, AlignedTries(grown, p, al), AlignedFailures(grown, p, al))
  BY AlignedScanParts
<1> QED BY <1>1, <1>3, <1>4, <1>5, <1>6, LastServes

(* A call that leaves the heap with more regions than it has when it is ready
   for use: it was refused, and tried again when the heap had grown. *)
LEMMA HasGrown ==
  ASSUME NEW g, Sane(g), NEW n \in Nat \ {0}, NEW al \in Nat \union {Null},
         NEW a \in HeapAlloc(g, n, al), Len(a.heap.regions) > Len(InitHeap(g).regions)
  PROVE  /\ Sane(InitHeap(g)) /\ (al = Null => Tried(InitHeap(g), n))
         /\ \E x \in Scan(InitHeap(g), n, al) : x.at = NoBlock /\
              \E grown : GrewFor(InitHeap(g), x, grown) /\ a \in Scan(grown, n, al)
<1> DEFINE ready == InitHeap(g)
<1>1. Sane(ready) /\ LaidOut(ready) /\ Len(ready.regions) \in Nat /\ LaidOut(g)
  <2>1. Sane(ready)
    BY InitHolds
  <2> HIDE DEF ready
  <2> QED BY <2>1, HeapNumbers DEF Sane
<1>2. ~ (al = Null /\ AllocFast(g, n) # {})
  <2> SUFFICES ASSUME al = Null, AllocFast(g, n) # {} PROVE FALSE
    OBVIOUS
  <2>1. PICK x \in AllocFast(g, n) : a = [at |-> <<1, x.x>>, heap |-> With(g, 1, x.r)]
    BY Zenon DEF HeapAlloc
  <2>2. g.regions # <<>>
    BY DEF AllocFast
  <2>3. ready = g
    BY <1>1, <2>2, HeapNumbers DEF InitHeap
  <2> DEFINE f == [j \in DOMAIN g.regions |-> IF j = 1 THEN x.r ELSE In(g, j)]
  <2>4. a.heap = Refilled(g, f)
    BY <2>1 DEF With
  <2> HIDE DEF f
  <2>5. Len(a.heap.regions) = Len(g.regions)
    BY <1>1, <2>4, RefilledHolds
  <2> QED BY <1>1, <2>3, <2>5
<1>3. al = Null => Tried(ready, n)
  BY <1>2, ReadyTried
<1>4. \/ a.heap = ready
      \/ a \in Scan(ready, n, al)
      \/ \E x \in Scan(ready, n, al) :
           x.at = NoBlock /\ \E grown \in Grown(x.heap) : a \in Scan(grown, n, al)
  <2>1. a \in AllocSlow(g, n, al)
    BY <1>2 DEF HeapAlloc
  <2> QED BY <2>1 DEF AllocSlow
<1> HIDE DEF ready
<1>5. ASSUME NEW g2, Sane(g2), al = Null => Tried(g2, n), NEW x \in Scan(g2, n, al)
      PROVE  /\ Sane(x.heap) /\ Len(x.heap.regions) = Len(g2.regions)
             /\ al = Null /\ x.at = NoBlock => Tried(x.heap, n)
  <2>1. CASE al = Null
    <3>1. x \in AllocScan(g2, n)
      BY <2>1, <1>5 DEF Scan
    <3> QED BY <1>5, <2>1, <3>1, AllocScanSane
  <2>2. CASE al # Null
    <3>1. x \in AlignedScan(g2, Larger(OrderFor(n), al), al) /\ al \in Nat /\ OrderFor(n) \in 0 .. MaxOrder
      BY <1>5, <2>2, OrderForFacts DEF Scan
    <3>2. SameRegions(g2, x.heap)
      BY <1>5, <3>1, AlignedScanSane
    <3> QED BY <2>2, <3>2 DEF SameRegions
  <2> QED BY <2>1, <2>2
<1>6. a.heap # ready /\ a \notin Scan(ready, n, al)
  BY <1>1, <1>3, <1>5 DEF ready
<1> PICK x \in Scan(ready, n, al) :
        x.at = NoBlock /\ \E grown \in Grown(x.heap) : a \in Scan(grown, n, al)
  BY <1>4, <1>6
<1>7. PICK grown \in Grown(x.heap) : x.at = NoBlock /\ a \in Scan(grown, n, al)
  OBVIOUS
<1>8. Sane(x.heap) /\ Len(x.heap.regions) = Len(ready.regions) /\ (al = Null => Tried(x.heap, n))
  BY <1>1, <1>3, <1>5, <1>7
<1>9. Sane(grown) /\ (al = Null => Tried(grown, n))
  BY <1>8, GrownHolds
<1>10. Len(a.heap.regions) = Len(grown.regions)
  BY <1>5, <1>7, <1>9
<1>11. GrewFor(ready, x, grown)
  BY <1>8, <1>10 DEF GrewFor, ready
<1> QED BY <1>1, <1>3, <1>7, <1>11 DEF ready

ServedOrMadeAgain(n, al, a, k) ==
  \/ a.at[1] = k
  \/ /\ k = 1 /\ al = Null /\ n > SmallUnits
     /\ \A again \in HeapAlloc(a.heap, n, al) : again.at[1] = 1

LEMMA GrowthServed ==
  ASSUME NEW g, Sane(g), NEW n \in Nat \ {0}, NEW al \in Nat \union {Null},
         NEW a \in HeapAlloc(g, n, al), NEW k, k = Len(a.heap.regions),
         k > Len(InitHeap(g).regions), Suits(a.heap.regions[k], n, al)
  PROVE  ServedOrMadeAgain(n, al, a, k)
<1> DEFINE r == InitHeap(g)
<1>1. Sane(r) /\ (al = Null => Tried(r, n))
  BY HasGrown
<1> PICK x \in Scan(r, n, al) :
      x.at = NoBlock /\ \E grown : GrewFor(r, x, grown) /\ a \in Scan(grown, n, al)
  BY HasGrown
<1>2. PICK grown : x.at = NoBlock /\ GrewFor(r, x, grown) /\ a \in Scan(grown, n, al)
  OBVIOUS
<1>3. OrderFor(n) \in 0 .. MaxOrder /\ MaxOrder \in Nat
  BY OrderForFacts, OrderSizeAssumption
<1> HIDE DEF r
<1>4. CASE al # Null
  <2> DEFINE p == Larger(OrderFor(n), al)
  <2>1. al \in Nat /\ p < MaxOrder /\ al <= a.heap.regions[k].align
    BY <1>4 DEF Suits
  <2>2. p \in Orders
    BY <1>3, <2>1 DEF Orders, Larger
  <2> HIDE DEF p
  <2>3. x \in AlignedScan(r, p, al) /\ a \in AlignedScan(grown, p, al)
    BY <1>2, <1>4 DEF Scan, p
  <2>4. a.at[1] = k
    BY <1>1, <1>2, <1>3, <2>1, <2>2, <2>3, AlignedRetryServes DEF p
  <2> QED BY <2>4 DEF ServedOrMadeAgain
<1>5. CASE al = Null
  <2>1. x \in AllocScan(r, n) /\ a \in AllocScan(grown, n)
    BY <1>2, <1>5 DEF Scan
  <2>2. OrderFor(n) \in Orders
    BY <1>3, <1>5 DEF Suits, Orders
  <2>3. /\ Sane(a.heap) /\ k = Len(grown.regions)
        /\ a.at[1] = k \/ (k = 1 /\ n > SmallUnits /\ In(a.heap, 1) = FreshRegion)
    BY <1>1, <1>2, <1>5, <2>1, <2>2, RetryServes
  <2>4. ASSUME k = 1, n > SmallUnits, In(a.heap, 1) = FreshRegion,
               NEW again \in HeapAlloc(a.heap, n, al)
        PROVE  again.at[1] = 1
    <3>1. a.heap.regions # <<>>
      <4>1. LaidOut(a.heap) /\ Len(a.heap.regions) = 1
        BY <2>3, <2>4 DEF Sane
      <4> QED BY <4>1, HeapNumbers
    <3>2. AllocFast(a.heap, n) = LargeAlloc(FreshRegion, OrderFor(n))
      BY <2>4, <3>1, FreshRefusesSlow DEF AllocFast
    <3>3. AllocFast(a.heap, n) # {}
      BY <2>2, <3>2, FreshServes
    <3>4. PICK y \in AllocFast(a.heap, n) : again = [at |-> <<1, y.x>>, heap |-> With(a.heap, 1, y.r)]
      BY <1>5, <2>4, <3>3, Zenon DEF HeapAlloc
    <3> QED BY <3>4
  <2> QED BY <1>5, <2>3, <2>4 DEF ServedOrMadeAgain
<1> QED BY <1>4, <1>5

(* Whenever the heap takes memory of the system for a request, small, large *)
(* or aligned, that memory serves it if it suits it: no region attached     *)
(* before serves, once the heap has grown, what it has just refused,        *)
(* although the scan has changed it; but a large request for which a heap   *)
(* gets its first region that way is refused, and served when it is made    *)
(* again (__alloc_slow, __alloc_aligned_slow, __grow).                      *)
THEOREM Growth == Spec => []GrowthServes
<1>1. Sane(h) => GrowthServes
  <2> SUFFICES ASSUME Sane(h), NEW n \in Requests, NEW al \in Alignments \union {Null},
                      NEW a \in HeapAlloc(h, n, al), NEW k, k = Len(a.heap.regions),
                      k > Len(InitHeap(h).regions), Suits(a.heap.regions[k], n, al)
               PROVE  ServedOrMadeAgain(n, al, a, k)
    BY DEF GrowthServes, ServedOrMadeAgain
  <2>1. n \in Nat \ {0} /\ al \in Nat \union {Null}
    BY HeapAssumption
  <2> QED BY <2>1, GrowthServed
<1> QED BY <1>1, Invariance, PTL
=============================================================================
