# A formal model of bbmalloc

bbmalloc is a freestanding memory allocator for C++23, single-threaded by design
(`src/README.md`, Limitations). This directory holds TLA+ models of it, from the public interface
down to the links of the free lists, the TLC configurations that check them on small instances, and
proofs that TLAPS checks for every size of pool, sheet and heap. Everything is translated from the headers in `src/src/`; line references are in
`PROJECT.json` ("map").

Run things in this directory: `tlc -workers 2 -config X.cfg M` checks a model,
`tlapm XProofs.tla` checks proofs.

## 1. The system

A request goes down, a pointer is answered:

    malloc.hpp      alloc / free / resize / realloc, redzones, statistics
       |
    heap.hpp        up to __max_regions regions; lazy init; growth; locate(pointer)
       |
    region.hpp      two tiers of one region and the spare sheet
       |        \
    free_list.hpp   cache_list.hpp
    buddy pool      TLSF tier, which lives in sheets: blocks the region takes from the pool

| Component | State | Operations | What makes it correct |
|---|---|---|---|
| **Buddy pool** `free_list.hpp` | a tag byte per unit, a doubly linked free list per order, `free_mask`, an optional order cache with counts, `allocated_bytes` | `allocate(_aligned)`, `deallocate`, `grow`, `largest_free`, `flush_cache`, `mark_sheet`/`unmark_sheet`, `reset` | blocks tile the pool; tags, lists and mask agree; buddies always merge; accounting is exact; a request is refused only when it fits nowhere |
| **Small tier (TLSF)** `cache_list.hpp` | headers in the sheets (`size`, flags, `prev_phys`), a free list per class, two levels of bitmap, a block-start bitmap per sheet, `count`, `allocated_bytes` | `add_sheet`, `remove_sheet`, `allocate`, `deallocate`, `shrink`, `grow`, `owns_len`, `largest_free` | the chain of headers is intact; no free neighbours; lists = free blocks by class; a search never yields a short block; a pointer is known exactly if it is live |
| **Region** `region.hpp` | a pool, a small tier, the `spare` sheet | `small_alloc`, `small_free`, `large_alloc(_aligned)`, `release`, `shrink_at`, `grow_at`, `largest_free`, `used`, `reset` | both tiers agree on which blocks are sheets; one empty sheet at most; no room is hidden by a spare |
| **Heap** `heap.hpp`, `pool.hpp` | the regions in order of attachment, `inited` | `attach`, `init`, `alloc(_aligned)`, `dealloc`, `locate`, growth, `largest_free`, `reset` | pools never overlap; a request no region can take is the only one refused; memory taken from the system serves the request it was taken for |
| **Public API** `malloc.hpp` | none of its own (user length and redzone are kept in the block) | `balloc`, `aligned_balloc`, `dealloc`, `resize`, `realloc`, `calloc` | resize keeps contents and leaves the old block when it fails |
| **Hardening** `harden.hpp` | redzone bytes behind user data | write, verify, zero, poison | a redzone is written for the length with which it is verified |
| **Statistics** `stats.hpp` | counters | collect, read | counters equal what the calls did |
| **micron facade** `__bb.hpp` | none | `allocation_extent`, `recommend`, `resize` | the extent promised is the extent usable |
| **Configuration** `config*.hpp`, `metadata.hpp` | compile-time constants | -- | they satisfy what the tiers assume of them |
| C shim, printing, tests, benches, scripts | none | -- | not part of the allocator's logic |

Interaction is by direct calls only. There is no concurrency, nothing persists, no message is
lost: the README of the repository excludes concurrent calls and re-entry from interrupts. What is
hard is **long sequences of legal calls**. The structures are redundant (tag / list / mask;
header / list / two bitmaps / start bitmap; tier count / mark / spare), every operation updates the
copies by separate steps, and each later operation trusts one copy to dereference another. An error
shows up many calls after it was made. The other hard things are boundaries (a pool that is no
power of two, rounding into the next class, the end of a sheet, the limit on sheets, the first
call) and refusals (a request must not fail while room is kept by a cache, a spare, a full tier or
a region that comes earlier in the scan; one that does fail must leave the caller what it had). The hazards are listed line by line in `PROJECT.json`.

## 2. Modules

| Module | Models | Notes |
|---|---|---|
| `BuddyGeometry` | offsets, orders, seeding of the pool | constants and their assumptions; `Tiles` |
| `BuddyOps` | operations of `__buddy_list` as functions of its state | used by `Buddy`, `BuddyLinks`, `RegionOps`, `Heap` |
| `Buddy` | the pool as a state machine, one action per call | flush loop one iteration at a time |
| `BlockStore` | what a pool promises: live blocks, no lists | `Buddy` implements it |
| `BuddyLinks` | the pool with its free lists linked through the free memory | implements `Buddy` |
| `TlsfMapping` | size classes, table and search | sizes in bytes, as in the code |
| `TlsfOps`, `Tlsf` | the small tier: operations, state machine | sizes in granules of 16 bytes |
| `SmallStore` | what the small tier promises | `Tlsf` implements it |
| `RegionOps`, `Region` | both tiers of one region and the spare | composes `BuddyOps` and `TlsfOps` |
| `Heap` | regions, lazy init, growth, scan | composes `RegionOps` |
| `MallocOps`, `Malloc` | the public interface with redzones and statistics, and its callers | on a heap given by what `SmallStore` and `BlockStore` promise |
| `BbAllocator` | the micron facade's `bb_allocator` | composes `MallocOps` |
| `Setup`, `Layout` | arithmetic of `__setup`, of growth and of `allocation_extent`; a walk over lengths, and what must hold at each | bytes, on words that wrap |
| `SizeClasses` | a walk over every block size, and what the search must find | on `TlsfMapping` |
| `PowerProofs` | least elements, remainders, powers of two and their logarithms | lemmas the others share |
| `BuddyOpsProofs`, `RegionOpsProofs` | what each operation does to a well-formed pool, to a sound region | lemmas, without VARIABLES: usable inside a region, inside a heap |
| `BuddyProofs`, `TlsfProofs`, `RegionProofs`, `HeapProofs`, `MallocProofs` | theorems about `Buddy`, `BuddyLinks` and `Layout`, `Tlsf` and `SizeClasses`, `Region`, `Heap`, `Malloc` | section 5; `TlsfProofs` holds the lemmas of the small tier too |
| `MC*` | instances for TLC | |

The split into an *Ops* module (the operations as functions on a record with one field per member of
the struct) and a module with VARIABLES follows from the composition: a region owns a pool and a
tier by value and runs several of their operations inside one call, so each must be callable within
one step. Every public call is one action, because nothing can happen between its parts; only the
flush of the order cache is cut into iterations, since what holds in the middle of it, and that it
ends, is part of the question.

The models meet in their abstract specifications. `BuddyLinks` implements `Buddy`, which implements
`BlockStore`; `Tlsf` implements `SmallStore`; and `Malloc`, which could not be checked on top of a
whole `Heap`, stands on a heap that may do all that these two promise and nothing more.

Correspondence of state:

| Code | Model |
|---|---|
| byte offset / `__min_block` | unit (`Units`), `Null` for a pointer outside or off the grid |
| `tags[u]`: free, alloc, sheet bits and order | `b.tags[u] = [kind, order]` |
| list of an order, cache of an order | `b.free[o]`, `b.cache[o]`: the **set** of its blocks |
| `free_mask`, `cache.count`, `allocated_bytes` | `b.free_mask`, `b.cache_count`, `b.allocated` |
| `sheets[i]` header at a byte of a sheet | `t.hdr[<<sheet, granule>>] = [size, used, prev]` |
| list of a class | `t.heads[c]`: the **sequence** of its blocks |
| `fl_bitmap`, `sl_bitmap`, start bitmap | `t.fl`, `t.sl`, `t.marks` |
| `__region::spare` | `r.spare` |
| `__heap::regions[0..count)`, `inited` | `h.regions`, `h.inited` |
| `free_lists[o]`, the two words at the start of a free block | `l.heads[o]`, `l.next[u]`, `l.prev[u]` (`BuddyLinks`) |
| what user memory and redzones hold; the live blocks; the counters | `s.mem`, `s.blocks`, `s.stats` (`MallocOps`) |
| a `__chunk` as its holder keeps it, and what it relies on | `chunks[h]` (`Malloc`, `BbAllocator`) |

Abstractions, each with its reason:

- *Free lists of the buddy pool are sets* in `Buddy`. Which block is at the head is left open, so
  every property holds for the code's LIFO order and for any other. `BuddyLinks` has the pointers,
  the order and the stale words, and implements `Buddy`. It has no order cache (every profile sets
  its capacity to 0) and leaves marks to `Buddy`, since they touch no link. As soon as a block is
  out of the lists its words may hold anything (`Junk`), which `__link_valid` is taken to refuse.
  The small tier keeps the order of its lists, because `__find_exact` looks at heads only.
- *Loops over orders are closed forms.* Splitting, merging and growing visit one block for each
  order of a range; the model updates the range at once. For merging, the stopping order is defined
  by the loop's own condition (`CanMerge`, `CanUnlink`). In `BuddyLinks` too: the iterations read and
  write words of blocks of different lists, and a block is in one list only.
- *The link checks of the small tier never trip.* `__unlink_check` guards against memory the user
  overwrote. In `BuddyLinks` the corresponding check is modelled, and `LinksIntact` says what it
  reads.
- *Contents of user memory* are in `Malloc` alone, in cells of 16 bytes: what a holder wrote, zeros,
  a redzone, or `Junk`. Poisoning and `__hardened_zero` write bytes nobody may rely on: the model
  forgets such cells. A holder may write one cell too far, which is what redzones are for:
  `RedzonesGuard` says that the check sees it, and sees nothing else. `owns_len` reads a header where user bytes may
  lie: the model lets it trust such bytes as little as the code does, by asking the start bitmap.
- *Statistics*: `usage` is `current_usage`; `balance` and `pairs` are the differences of the code's
  counters that grow for ever, so they stay bounded. `reset()` drops the blocks and leaves the
  counters, which go on counting blocks that are gone; `dropped` remembers how much that is. It is
  not in the code, it is what the counters are compared with. `MaxDropped` bounds the number of live
  blocks that resets may drop in all; the theorem holds for every bound.
- *Huge* in `Malloc` is a size to which a redzone cannot be added without overflow.
- *Region and Heap have no order cache* (`RegionAssumption`): every profile sets its capacity to 0.
- *All pools of the heap have one size,* which keeps one set of constants for all; alignments,
  spans and tag arrays differ. `page_alloc` may return any free area of a small set, or fail.
- *Heap does not repeat the resizing of small blocks;* Region has it. Shrinking and growing a small
  block end the same way in the code, and share `MoveEnd` in the model.
- The branch of `release_sheet` that puts a sheet back when the pool refuses it is unreachable
  (the mark was checked above it) and is not modelled.

## 3. The runs

| Run | Instance | Distinct states | Shows |
|---|---|---|---|
| `buddy` | 8 units, orders 0..3, no cache | 24 020 | types, tiling, agreement, coalescing, accounting; implements `BlockStore` |
| `buddy_cached` | 6 units, cache of 2 for orders 0..1 | 62 669 | cache count; implements `BlockStore`; the flush returns |
| `links` | 6 units (4+2), no cache | 6 983 | no stale link is read; implements `Buddy` |
| `mapping` | the small profile, every block size of its sheets | 1 013 | searches are safe and tight, table = computation |
| `tlsf` | 2 sheets of 10 granules, 7 request sizes | 77 191 | chain, merging, lists and bitmaps, exact limit, good fit, ownership; implements `SmallStore` |
| `region` | 5 units, 2 sheets of 8 granules | 25 636 | tiers agree, one spare, dispatch of pointers, `used()`, no false refusal, nothing else disturbed |
| `heap` | 2 regions of 2 units; 6 pieces of memory | 26 865 | pools apart, no false refusal, growth serves |
| `heap_grow` | 2 regions of 2 units, no configured pool, pages for both, one piece of memory to attach | 32 195 | which requests memory taken from the system serves |
| `malloc` | 9 cells, redzone of 1, two holders; resets drop one live block | 121 924 | contents, redzones and statistics survive every resize, refusal and reset |
| `setup` | every length up to 640 bytes at 6 addresses, words of 11 bits | 3 253 | a pool is laid out as assumed, growth is enough, extents are honest |
| `heap_first` | as `heap`, without growth | -- | counterexample: the first large request (section 6) |
| `extent` | 8 cells, no redzone, one holder | -- | counterexample: the length of a resized chunk (section 6) |

Why the bounds are enough to be interesting:

- *Buddy.* Eight units give merges over three levels, growth over two, and both an odd and an even
  buddy at every level. Six units seed two blocks (4+2), so the last pair of the top level is cut
  off by the end of the pool, and the cap of the cache (2) is reached by two orders at once. Sheets
  (marks) are mixed in. There is no other bound: the pool's size bounds everything.
- *Links.* Six units seed two blocks and let three blocks of one order be listed at a time, so a
  block leaves its list from the head, the middle, the end and a list of one, by allocation, by
  merging and by growing. The words of every unit persist through all of it.
- *Mapping.* The constants are those of `config_small.hpp`; the walk covers every block size.
- *TLSF.* Ten granules with two second-level classes hold up to five blocks, two lists hold blocks
  of different size, splits leave rests of 0, 1 and 2 granules (1 is too small to be a block), and
  there is one size above and one below what a sheet can hold. Two sheets let lists mix sheets.
- *Region.* Five units (4+1) and sheets of two: both sheets can be buddies, and merge into a block
  of four that lies over both; the odd unit keeps a large block alive.
- *Heap.* One sheet or two small large blocks per region, and areas that overlap each other, that
  overlap a tag array, that are too small, that are less aligned. A tier may hold one sheet although
  the pool has room for two, so that `NoFalseRefusal` meets a tier at its limit, with and without an
  empty spare, while the pool still has room. With the configured pool of `heap` growth is seldom the
  first thing that happens; in `heap_grow` there is none, so that the first region is grown for a
  small, a large and an aligned request, the second for those it refuses, and one of the pages is
  aligned to a unit only.
- *Malloc.* Nine cells hold two blocks of either tier in most combinations and refuse many; sizes 0
  to 3 cross the small class with the redzone added, `Huge` overflows; alignments 1, 2 and 3 take
  the plain path, the aligned path and the refusal. The holders are alike, hence the symmetry;
  every property of the run is an invariant. Each outcome a heap may give is tried, so one block
  can be put anywhere the two tiers allow, and can always be refused. Resets may drop one block, of
  any length; what is dropped only adds to the counters, which no call reads.
- *Setup.* A profile in miniature with the proportions of `config_small.hpp` (unit 4, alignment 8,
  sheet 32, growth 128, region 256), walked through every length up to two and a half regions. The
  addresses include an odd one, one just off a boundary and one where the memory ends at the top of
  the word. Tag arrays are absent, empty, of one byte, too short and ample; the alignments asked for
  include one that is no power of two and ones above the maximum.
- *Extent.* One container and a small memory; it has few states, and its counterexample is short.

Constants of the small tier must satisfy `2 * (SmallUnits + 2) <= DataUnits` (`MappingAssumption`,
the `static_assert` on `__table_max`). `MCTlsf` evaluates it; in `Region` and `Heap` the tier is an
INSTANCE, whose assumptions TLC does not look at, so `RegionOps` states them again (`TierAssumption`).

Every property was also tried against a plausible bug: operators named "Mutant of ..." next to the
definition they vary, paired with the property that must fail in `PROJECT.json` ("mutants").

### Refinement

`Buddy` implements `BlockStore` under the mapping *live <- the blocks whose tag says alloc or
sheet*. BlockStore has no lists: an allocation may be refused only if no aligned run of units is
free of live blocks. So the refinement says at once that no call touches a block it was not given,
that coalescing and the flush make all room usable, and that `largest_free()` is exact. `Tlsf`
implements `SmallStore`, which says how long a block may be for a request, and that a resize moves
only its end. `BuddyLinks` implements `Buddy` under *free[o] <- the blocks reached from the head of
o*: that the pointers are right is then no separate list of conditions but the fact that every
call does to the lists what it should do to the sets.

### Liveness and fairness

The only loop whose end is a question of its own is `flush_cache` inside `allocate` and
`largest_free`. `Buddy` assumes weak fairness of the iterations of that loop and of the return of
the call, and of nothing else: a single-threaded call that has entered a loop goes on with it, while
nothing obliges a caller to call again. `FlushReturns` would fail if the merge fed the cache, or if
the retry flushed again.

## 4. What the properties say of the code

The comment above each property says it in full. Those that took thought:

- `Coalesced` holds in the *middle* of a flush too, where cached blocks are neither free nor used.
- `NoFalseRefusal` (Region, Heap) quantifies over requests in every state rather than watching the
  answers given, so a refusal is found in the state in which it would happen. It counts the empty
  spare as room and demands nothing of a sheet in use.
- `LargestFreeExact` and `GoodFit` (Tlsf) together settle a question the code raises: the search
  falls back on the head of one list, so a larger block behind that head is not found. That is
  allowed, but `largest_free()` must report the same limit, and does.
- `LocateExact` (Region) needs both tiers: the unit of a sheet that was given back may start or lie
  inside a large block, with old block starts in its bytes.
- `OwnsExactlyLive` is about the bitmap, for every granule, not only for pointers that were once
  returned.
- `LinksIntact` says more than that lists are well linked: the `prev` of a head may be stale (a block
  that becomes head when the one before it is split keeps it), and no reader may use it.
- `ContentsKept` and `ChunksUsable` (Malloc) hold after every outcome of a resize: in place, moved,
  and refused. A refused resize must leave the old block, its length and its redzone alone.
- `RedzonesGuard` relates a redzone to the length with which the next call will look for it, which
  the code recomputes from the block: the check fails for the chunks that were overrun and no other.
- `StatsExact` ties counters to live blocks over both ways of resizing, of which one counts a
  difference and the other two whole blocks. After a `reset()` with live blocks `current_usage` is
  *not* what is live: it keeps what those blocks had, and the property says that it is off by exactly
  that, whatever is allocated, resized and freed later.
- `GrowthServes` (Heap) is about every request for which pages are taken, small, large or aligned, by
  a heap with regions or without. It names the one request that is not served though the memory suits
  it, the first large one of a heap without regions, and what becomes of it: it is refused once and
  served when it is made again (section 6). Memory that does not suit a request, because the request
  is aligned beyond what is supported or its length wraps around, is taken and the request refused;
  the property leaves that out (`Suits`), and it is a hazard without a property.
- `CacheCounted` says what is left of the count in the middle of a flush, not only that it is right
  when the call has returned.
- `PoolLaidOut` (Setup) contains what `BuddyGeometry` assumes of a pool, so these assumptions are
  not taken on faith; `GrowthSuffices` closes the gap between the memory a growth asks for and the
  order the request needs, wherever the memory lies.

## 5. Proofs

TLAPS proves the following for all values of the constants that satisfy the assumptions. Each line
but `Invariance`, which names an invariant of its own, states a property of a run of section 3.

| Module | Theorem | Says |
|---|---|---|
| `BuddyProofs` | `Invariance` | `Spec => []IInv`, the inductive invariant of the pool |
| | `TypeCorrect`, `Tiling`, `Agreement`, `Coalescing` | `TypeOK`, `BlocksTilePool`, `ListsMatchTags`, `Coalesced` |
| | `CacheCounting` | `CacheCounted` |
| | `Accounting` | `BytesAccounted` |
| | `Implementation` | `ImplementsBlockStore` |
| | `LinksAlwaysIntact`, `LinkedImplementation` | of `BuddyLinks`: `LinksIntact`, `ImplementsBuddy` |
| | `PoolsLaidOut`, `GrowthIsEnough`, `ExtentsHonest` | of `Layout`: `PoolLaidOut`, `GrowthSuffices`, `ExtentHonest` |
| `TlsfProofs` | `Chained`, `Coalesced`, `Consistent`, `OwnedLive` | `ChainIntact`, `NoFreeNeighbours`, `ListsConsistent`, `OwnsExactlyLive` |
| | `LargestFreeIsLimit`, `NoMissedFit` | `LargestFreeExact`, `GoodFit` |
| | `SmallImplementation` | `ImplementsSmallStore` |
| | `SearchNeverShort`, `SearchSkipsNothing`, `TableMatches` | of the mapping: `SearchIsSafe`, `SearchIsTight`, `TableAgrees` |
| `RegionProofs` | `Invariance` | `Spec => []Sound(r)`, the inductive invariant of a region |
| | `Agreement`, `OneSpare`, `WellFormedTiers` | `SheetsAgree`, `OneEmptySheet`, `TiersWellFormed` |
| | `ExactLocate`, `UsedCounts` | `LocateExact`, `UsedExact` |
| | `Refusals`, `BackToFresh` | `NoFalseRefusal`, `EmptyRegionIsFresh` |
| | `OthersKept` | `OthersUndisturbed` |
| `HeapProofs` | `RegionsApart` | `PoolsApart` |
| | `Invariance` | `Spec => []Sane(h)`, the inductive invariant of the heap |
| | `Refusals`, `Growth` | `NoFalseRefusal`, `GrowthServes` |
| `MallocProofs` | `ChunksAlwaysUsable`, `ContentsAlwaysKept` | `ChunksUsable`, `ContentsKept` |
| | `RedzonesAlwaysGuard`, `StatsAlwaysExact` | `RedzonesGuard`, `StatsExact` |

Assumptions. Of the pool (`BuddyGeometry`, `BuddyOps`, `Buddy`): `TotalAssumption` (a pool has a
unit), `OrderSizeAssumption` (sizes start at one and double), `MaxOrderAssumption` (the top order is
the largest that fits), `CacheAssumption`, `SheetOrderAssumption`; `PoolsLaidOut` proves that the code
establishes the first three. Of its making: `SetupAssumption`, which is the `static_assert`s and, beyond
them, that the cap of a region is at most half a word (with a cap above it, which only a 32-bit word
allows, a growth beyond half a word is not doubled, and need not suffice); `LayoutAssumption`, that the length of a
memory does not wrap around when a block or an alignment is added to it. Of the small tier: `MappingAssumption`,
`MaxSheetsAssumption`, `RequestsAssumption`. Of a region: `RegionAssumption`, `TierAssumption` (what
the tier inside it assumes), `RequestsAssumption`. Of the heap: `HeapAssumption`. Of the public
interface: `MallocAssumption`, `CallersAssumption`. TLC evaluates each of them in a run. Nothing is
assumed of `Log2`, of the size classes or of sums: see below.

### Numbers

`PowerProofs` has what no prover knows of powers of two: that they double, are monotone, divide one
another, and that every number has one logarithm. Induction is by the least element of a set, since
the library's induction rules take an operator. `TlsfProofs` uses it to show that `Log2`, a
recursive function, is the logarithm (`LogFacts`), and that each size class is an interval of sizes:
`Low` gives its smallest member, the mapping for insertion finds the interval a size lies in and the
mapping for search the first interval that starts at it or above. That searches are safe and tight,
and that the table agrees with the computation, follows for every granularity of the second level
and every size of sheet.

### The pool

**The argument.** Tiling and agreement are not inductive alone. Merging clears the tags of right
halves: it keeps the tiling only if the buddy whose tag says free is in the list of that order and
is a block of the tiling (agreement). Allocation takes a block from the list named by the mask: it
exists only if mask and lists agree. Agreement survives a push only if no other block starts at that
unit (tiling). So the inductive invariant is the types and all of these together:

    IInv == TypeOK /\ WellFormed(b)
    WellFormed(b) == b \in PoolShapes /\ FreeListsMatchTags(b) /\ CachedUntagged(b)
                     /\ MaskMatchesLists(b) /\ Tiles(Blocks(b))

It says nothing of a flush in progress: every iteration leaves a well-formed pool. `Coalesced` is
inductive relative to it (`IInv /\ Coalesced /\ [Next]_vars => Coalesced'`): the merge loop stops
only where no free buddy is left, an allocation splits a block of the lowest order that is free, so
the halves it pushes have no buddy in their lists, and growing only takes blocks out.

`BuddyOpsProofs` has the arithmetic of aligned blocks (two of them are nested or apart, a block and
its buddy are the halves of the next level, the seed tiles the pool), then what each operation
preserves, then the operations composed as the calls do. `BuddyProofs` has one step per action.

**The order cache.** The count is zeroed only when a list has been emptied, so during a flush it
differs from the length of the list. `CacheCounted` says what holds there: the count is at least the
length, at most the cap, and zero once the list is empty (`CacheWell`); equality holds when no flush is
under way (`Counted`). It is regained because the flush returns only when every cache is empty
(`EmptyCounted`), and pushes and pops keep it because the flush neither pushes nor pops (`CInv`).

**Accounting.** `BytesAccounted` says that the counter is the number of units that blocks in use
cover. Tiling gives each operation its effect on that set of units: a grant adds the units of one
block, which were not covered, a release takes them away. So no sum over blocks is needed, which
would be an induction over data; the cardinality of a union of two disjoint sets is enough.

**The refinement of `BlockStore`.** Each action maps to a step of `BlockStore` or to none. The part
that is not bookkeeping is that a refusal is right (`NoRoom`): with nothing cached and no list of
order *o* or above occupied, no aligned run of that order is vacant. In a vacant run the tiling
consists of free blocks only, all smaller than the run; the buddy of a smallest one of them lies in
the run too, is cut into blocks no smaller, so is free in one piece, which `Coalesced` excludes. The
same argument, the other way round, gives what regions need: a vacant run of a coalesced pool lies
within one free block (`RoomHeld`), and two coalesced pools in which nothing is in use are cut the
same way (`SameCut`).

### The links of the lists

That `BuddyLinks` implements `Buddy` has an abstraction that is awkward to prove with: the set of
blocks *reached* from a head. The inductive invariant does not mention it. It reads the lists off the
tags, and says that the words thread them:

    LinkedWell(p) == p \in LinkedShapes /\ WellFormed(Flat(p)) /\ Threads(p, Lists(p))

`Lists(p)` has the blocks whose tag says free, by order; `Flat(p)` is the pool of `Buddy` with these
lists and no cache. `Threads` says that a head is a block of its list, or null and the list empty;
that `next` leads to a block of the same list, not the head, which points back; and that every block
but the head is the `next` of its `prev`, which is again one of the list. That alone does not exclude
a circle beside the chain. So there is a function from units to naturals, the *age* of a block in its
list, that decreases along `next`. The code has no such thing, which is why it is quantified inside
the invariant: a block that enters gets a later age than all others, one that leaves disturbs none.
Nothing is said of the `prev` of a head.

From this follows, by the least age, that every list ends, and that a closed set with the head
contains the whole list (`AllMet`): reached and tagged are the same (`LinkedIsTagged`), so `Flat` is
the pool of the refinement. Each operation then has one lemma that it keeps the threads and does to
`Flat` what the operation of `Buddy` does to a pool: `AllocateLinks`, `MergeLinks`, `GrowLinks`,
`SeededLinks`. They rest on what happens to a thread when blocks enter at the head, one for each of
several orders at once (`LinkThreads`), when a block leaves from any place (`UnlinkThreads`) or from
the head (`PopThreads`), and on three arguments about `Buddy`'s side:

- a block of a threaded list passes `__unlink_check` (`Checked`), so merging stops where `Buddy`'s
  does (`UnlinkOrderSame`) and growing is refused where `Buddy`'s is (`CanAbsorbSame`);
- the mask bit is cleared exactly if the block was alone (`AloneInList`);
- words are forgotten only inside a block that is in use or merged away, which by the tiling no block
  of a list lies in (`OutOfUse`).

### The making of a pool

The arithmetic of `Setup` is on words that wrap around, so each helper first gets the lemma that says
what it computes and when: `AlignUpFacts` (the least multiple, or 0 when the sum wraps, and then no
multiple is left), `NextPow2Facts`, `OrderForSizeFacts`, `PowerExtentFacts` (the least power of two, if
a word holds it), `TagAreaFacts` (a byte for each unit that follows the tags). The alignment loop of
`__setup` is written as what it stops at, the largest alignment that fits.

- *Layout.* What is left behind the tags has at most as many units as there are tags; what the caps
  leave is a whole number of units, which the top order bounds by less than a factor of two
  (`PoolFacts`). Memory is refused only if the least alignment does not fit (`RefusalFacts`).
- *Growth.* The memory is at least twice a power of two *P* that holds the request, and four units.
  Tags take a quarter of it at most. An alignment of a quarter at most leaves half of it for data,
  at least *P*; a larger one is itself at least *P*, and the loop kept it only with that much room
  behind it (`RoomFacts`). An alignment the heap grew for is at most a quarter, so it is not lost.
- *Extent.* Both ways of rounding are least bounds, by multiples and by powers of two, and what a
  tier grants is a bound of the same kind (`OrderPower`); the four claims follow from being least.

### The small tier

`TlsfProofs` rests on one observation: every operation but adding and removing a sheet cuts a run
of adjacent blocks anew, from *lo* to *mid* one block and from *mid* to *hi* another, if *mid* <
*hi*. That such a cut keeps the chain intact in both directions (`RecutLinked`) and free blocks apart
(`RecutApart`) is proved once; for each operation it remains to show that it is such a cut, and that
it leaves the lists with the blocks that are free. The inductive invariant (`Whole`) is

- the chain, with a fact `ChainIntact` does not state and cannot do without: no block starts inside
  another;
- no two free blocks adjoin;
- every list holds, without repetition, the free blocks of its class, and the bitmaps name the
  lists that are not empty;
- the start bitmap marks the blocks in use.

Insertion and removal in the lists, which are sequences, are separate lemmas (`ListInsert`,
`ListRemove`). Removing a sheet needs that its only block starts at granule 0: following `prev_phys`
from any block ends there, by well-foundedness of the naturals (`FirstBlock`).

That the tier implements `SmallStore` needs the effect of each call, beside its invariant: which
block comes, goes or changes its length, and that no other does (`SameUse`, `Keeps`). What a request
is given is long enough by the size classes (`SearchNeverShort`); that nothing is refused below
`largest_free()` is the same argument read backwards.

Two more invariants are kept apart because only regions need them: the counter of the tier is the
number of granules its blocks in use hold (`Exact`, counted like the units of the pool), and the
headers are a function (`Table`), so that a tier whose last sheet has left is equal to the tier as
it was set up.

### A region

The inductive invariant is

    Sound(q) == Core(q) /\ OnlySpareEmpty(q)

where `Core` says that the pool is well formed, coalesced, accounted for and without caches, the
tier is `Whole`, `Exact` and a `Table`, and pool and tier agree on the sheets. `Core` holds between any two steps of an
operation, `OnlySpareEmpty` does not: a sheet is acquired before its first block is cut, and released
after its last one is freed. So each operation is a chain of steps that keep `Core`, followed by the
argument why no sheet but the spare is empty when it returns.

The lemmas about a region are in `RegionOpsProofs`. It reaches those about the tier by `TP == INSTANCE
TlsfProofs WITH Sheets <- Units` (the variables of `Tlsf` play no part in them), the operators of the
region by `T == INSTANCE TlsfOps WITH Sheets <- Units`; `SameTier` shows that the two
name the same operators.

- *No false refusal.* After the flush no sheet is empty, so every block in the pool that is in use is
  one `RoomFor` counts; `RoomHeld` finds the free block (`RoomGranted`). For a small request, a tier
  with an empty sheet finds a block in it, and otherwise a sheet can be granted, or the limit on
  sheets is reached.
- *Back to fresh.* With the last block freed and the spare given back nothing is in use in the pool,
  which is then cut as the fresh one (`SameCut`), and no sheet is left in the tier.
- *Nothing else disturbed.* Each lemma about an operation says, beside `Sound`, which place it is
  about (`Kept`); places of live blocks are distinct, so the difference of two sets of live blocks is
  that one.
- *`used()`.* Units in use are those of large blocks and those of sheets, apart by the tiling; the
  latter are counted by a bijection with sheets x units of a sheet. The credit for the sheets never
  exceeds what the pool counts, so the saturating subtraction does not saturate.

### The heap

*Layout.* Only attaching adds a region, after comparing it with all the others; whatever else a
call does, in either tier of any region, it replaces the insides of regions and leaves the layout
alone. That is shown for every call, for any number of regions.

*Soundness.* The inductive invariant is

    Sane(g) == LaidOut(g) /\ \A i \in DOMAIN g.regions : Sound(In(g, i))

A step of the heap is not a step of `Region`: `__alloc_scan` calls the parts of `small_alloc` and
`large_alloc` one by one, and takes the first region up where `alloc` left it. `small_alloc_slow` adds
a sheet without asking the tier for a block first; in a region whose tier had one, the new sheet could
stay empty without being the spare. So it must be shown that whenever a scan begins, the tier of the first region has
nothing for the request (`Tried`): because `alloc` has just looked, because the region is new, or, for
the second scan, because the first one flushed nothing in that region. The last holds since a tier
without a block for a small request has no empty sheet (`DryStays`).

*No false refusal.* Where a region has room for a large block, the part of `large_alloc` that the scan
calls finds it (`LargeServed`, from the proofs of a region). In the first region that part is
`large_alloc_slow` alone, which is enough because `alloc` has tried the rest; it has not when the heap
attached that region a moment ago, which is the case section 6 is about and the reason
`NoFalseRefusal` asks for a region that is attached.

*Growth.* The first scan leaves every region flushed, and a region that refused a request refuses it
again in the state it is left in (`Spent`, by `FailedAgain`, from `RefusedAgain`, `SlowRefusedAgain`
and `DryStays`). The new region, which is the last, has room for every block its alignment allows and
for every small request (`FreshServes`), so the second scan ends there (`RetryServes`,
`AlignedRetryServes`, `LastServes`): for a small or an aligned request whichever region it is, for a
large one unless it is the first region. That one is asked for what a flush would free and refuses
(`FreshRefusesSlow`); made again, the request is served by the fast path, for the region is as it was
attached.

### The public interface

The inductive invariant of `MallocProofs` says that the chunks held and the blocks live are the same,
that blocks lie apart and aligned, that every block has its redzone intact unless its holder overran
it, that what a holder may rely on is in memory, and that the counters are those of the live blocks
and of the blocks resets have dropped.
A resize is a composition of grant, copy, redzone and release; each of these has a lemma about the
cells it writes. That the redzone is looked for where it was written needs that the length recomputed
from the block is that of the chunk, in either tier and after either way of resizing.

### Only model-checked

`FlushReturns` (`buddy_cached`): liveness under fairness, which the provers do not reach. Every other
property of a passing run is a theorem.

## 6. What was found

**The first large allocation fails on a configured pool** (`heap_first`, `FirstIsServed`). With a
static, linker or port pool and no earlier call, `alloc(n)` with `n > __class_small` returns null
although the pool it attaches has room: `alloc` finds no region and goes to `__alloc_slow`
(`src/src/heap.hpp:225`), which attaches the pool and calls `__alloc_scan`. That function is written
for a caller that has just tried the pool of the first region, and calls
`regions[0].large_alloc_slow` (`src/src/heap.hpp:201`), which gives back the spare and tries again,
and refuses at once when there is none (`src/src/region.hpp:180`). Asked again, the same request
succeeds. Small requests and over-aligned ones are served the first time. `src/README.md:80` says
"The first allocation lazily initializes the configured pool." The tests call `init()` first.

A heap without a configured pool meets the same line when it grows its first region. Its very first
request is refused before that, since `init()` finds no pool (`src/src/heap.hpp:212`). At the next,
if it is large, pages are taken (`src/src/heap.hpp:216`), the scan asks `regions[0].large_alloc_slow` of a region
nobody has tried, and the request is refused with its memory at hand. Made again it is served.
`GrowthServes` in the run `heap_grow` says both, and that no other request the new memory suits is
refused after growing.

`NoFalseRefusal` in the run `heap` says that there is no such case later: once a region is attached
no request is refused while a region has room.

**The length of a resized chunk is not its block's** (`extent`, `ExtentIsUsable`).
`bb_allocator::resize` (`src/src/__bb.hpp:184`) returns `allocation_extent(bytes, alignment)`, which
is what a *new* block for that request would have, in place of the length that `bb::resize` reports.
When the block stays where it is the two differ. `create(16, 16)` returns a small block of 16 usable
bytes; if its address is a multiple of 32, `resize(c, 16, 16, 32)` leaves it in place
(`src/src/malloc.hpp:306`) and returns length 32, while `query_size()` still says 16. It happens at
the native alignment as well: a block of the small tier that got a rest of 16 bytes beyond
`__class_small`, resized to a length between the two, stays in place, and its length is announced
as the next power of two. A container that fills what it was returned writes over the header behind
it. `tests/rigor/bbmalloc_traits.cpp:91` treats a chunk with `bb::query_size(c.ptr) < c.len` as a
failure, for chunks just created only; `src/README.md:36` promises "deterministic alignment and size
introspection, including aligned allocation, resize". `ExtentHonest` in `setup` says that for new
chunks the extent is right.

## 7. What is not modelled, and what could follow

Could follow, each with its reason for not being here:

1. *Heaps with pools of different sizes.* One set of constants serves all pools of `Heap`; pools of
   different sizes need the geometry as a parameter of every operator.
2. *`BuddyLinks` with an order cache.* No profile configures one.

Left out for good:

- the C shim (forwards calls, keeps no state), printing (output only), tests, benches, scripts and
  the vendored bench library;
- of the hardening, the policies that halt the program; of the statistics, counters that are one
  increment each, and `reset_stats()`, which would start the counters again while blocks are live;
- of the facade, `recommend` (a growth policy without state) and `__bb_allocator` (forwards and
  throws); the gauges and `fragmentation_permille`, which only read;
- memory attached over the tag array a caller gave for an earlier region: the code compares new tags
  with all regions but not new memory with old tags. No document says that it is refused, so
  `PoolsApart` claims no more than what is compared.
