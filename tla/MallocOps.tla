------------------------------ MODULE MallocOps ------------------------------
(***************************************************************************)
(* The calls of the public interface (src/src/malloc.hpp, harden.hpp,      *)
(* stats.hpp) as functions of a state s, a record with                     *)
(*                                                                         *)
(*   mem      what the memory holds, cell by cell                          *)
(*   blocks   the live blocks of the heap: start, length, tier             *)
(*   stats    counters                                                     *)
(*                                                                         *)
(* Lengths and addresses are counted in cells of 16 bytes, the granule of  *)
(* both tiers, of the redzone and of native_alignment.  The heap is what   *)
(* SmallStore and BlockStore promise: where a block goes, and whether      *)
(* there is room, is its own affair.  A call that may end in several ways  *)
(* is the set of its outcomes.                                             *)
(***************************************************************************)
EXTENDS Integers, FiniteSets

CONSTANTS
  Cells,        (* length of the memory, aligned to everything              *)
  ClassSmall,   (* __class_small                                            *)
  MinBlock,     (* __default_min_block                                      *)
  Rz            (* __rz: the length of a redzone, 0 for none                *)

(* The static_asserts of config.hpp that matter here. *)
ASSUME MallocAssumption ==
  /\ Cells \in Nat \ {0} /\ Rz \in Nat
  /\ MinBlock \in {2 ^ k : k \in 0 .. Cells}
  /\ ClassSmall \in Nat /\ Rz < ClassSmall

Null == -1
Huge == 1000000   \* a size to which the redzone cannot be added without overflow

IsPow2(n)   == \E k \in 0 .. n : n = 2 ^ k
NextPow2(n) == CHOOSE p \in {2 ^ k : k \in 0 .. n} : p >= n /\ p < 2 * n
Least(S)    == CHOOSE x \in S : \A y \in S : x <= y
Largest(S)  == CHOOSE x \in S : \A y \in S : y <= x

Addresses == 0 .. Cells - 1
Junk    == <<"junk", 0>>
Redzone == <<"redzone", 0>>
Zero    == <<"zero", 0>>

Block(at, len, tier) == [at |-> at, len |-> len, tier |-> tier]
NoBlock == Block(Null, 0, "none")

Written(mem, cells, v) == [c \in Addresses |-> IF c \in cells THEN v ELSE mem[c]]

-----------------------------------------------------------------------------
(* The heap.  A block of the small tier has a header in the cell before it;
   one of the pool is as long as its power of two and aligned to it. *)
Space(blk) == (IF blk.tier = "small" THEN blk.at - 1 ELSE blk.at) .. blk.at + blk.len - 1

Vacant(blocks, cells) ==
  cells \subseteq Addresses /\ \A blk \in blocks : Space(blk) \cap cells = {}

SmallLengths(n)     == {n, n + 1}  \* a rest too short for a block of its own stays
LargeLength(n, al)  == NextPow2(Largest({n, al, MinBlock}))

(* __heap::alloc, alloc_aligned: where the heap may put a block of n cells.  A
   small request that no tier can serve is passed on to the pools. *)
HeapAlloc(blocks, n, al) ==
  LET small == IF al = 1 /\ n <= ClassSmall
               THEN {Block(at, len, "small") : at \in Addresses, len \in SmallLengths(n)}
               ELSE {}
      len   == LargeLength(n, al)
      large == {Block(at, len, "large") : at \in {a \in Addresses : a % len = 0}}
  IN  {blk \in small \union large : Vacant(blocks, Space(blk))}

(* __heap::locate *)
Locate(s, p) ==
  IF \E blk \in s.blocks : blk.at = p
  THEN CHOOSE blk \in s.blocks : blk.at = p ELSE NoBlock

(* __heap::shrink_at: the length that is left. *)
ShrinkAt(blk, n) ==
  IF blk.tier = "small" /\ blk.len - n >= 2 THEN n ELSE blk.len

(* __heap::grow_at: the lengths to which the heap may extend the block. *)
GrowAt(blocks, blk, n) ==
  LET lengths == IF blk.tier = "small"
                 THEN IF n > ClassSmall THEN {} ELSE SmallLengths(n)
                 ELSE {len \in {NextPow2(n)} : blk.at % len = 0}
  IN  {len \in lengths : Vacant(blocks, blk.at + blk.len .. blk.at + len - 1)}

-----------------------------------------------------------------------------
(* collect_stats<granted>, <freed>; alloc and dealloc are kept as the
   difference of the two counters, and so are bytes granted and freed. *)
Granted(stats, n) == [stats EXCEPT !.usage = @ + n, !.balance = @ + n]
Freed(stats, n)   == [stats EXCEPT !.usage = IF n > @ THEN 0 ELSE @ - n, !.balance = @ - n]

(* write_redzone, verify_redzone: behind the first user cells. *)
WriteRedzone(mem, p, user)  == Written(mem, p + user .. p + user + Rz - 1, Redzone)
VerifyRedzone(mem, p, user) == \A c \in p + user .. p + user + Rz - 1 : mem[c] = Redzone

Outcome(s, ptr, len) == [s |-> s, ptr |-> ptr, len |-> len]
Refused(s) == Outcome(s, Null, 0)

(* __finish *)
Finish(s, blk) ==
  [blocks |-> s.blocks \union {blk},
   mem    |-> WriteRedzone(s.mem, blk.at, blk.len - Rz),
   stats  |-> Granted([s.stats EXCEPT !.pairs = @ + 1], blk.len)]

(* balloc, aligned_balloc *)
Balloc(s, size, al) ==
  IF size = 0 \/ ~ IsPow2(al) \/ size = Huge THEN {Refused(s)}
  ELSE {Refused(s)} \union
       {Outcome(Finish(s, blk), blk.at, blk.len - Rz) :
          blk \in HeapAlloc(s.blocks, size + Rz, al)}

(* zalloc, calloc *)
Zalloc(s, size) ==
  {IF o.ptr = Null THEN o ELSE [o EXCEPT !.s.mem = Written(@, o.ptr .. o.ptr + o.len - 1, Zero)]
     : o \in Balloc(s, size, 1)}

(* __release_located: the block is scrubbed or the heap's own again. *)
Release(s, blk) ==
  [blocks |-> s.blocks \ {blk},
   mem    |-> Written(s.mem, Space(blk), Junk),
   stats  |-> Freed([s.stats EXCEPT !.pairs = @ - 1], blk.len)]

(* dealloc: a bad or double free is reported and changes nothing; a damaged
   redzone is reported and the block is freed all the same. *)
Dealloc(s, p) ==
  LET blk == Locate(s, p)
  IN  IF p = Null \/ blk.len = 0 \/ blk.len < Rz THEN s ELSE Release(s, blk)

-----------------------------------------------------------------------------
(* resize, when the block is at least as long as asked for and where it ought
   to be. *)
\* Mutant of Shrunk: the redzone stays where it was.
ShrunkRedzoneStays(s, blk, want) ==
  LET nb == ShrinkAt(blk, want)
  IN  Outcome([blocks |-> (s.blocks \ {blk}) \union {[blk EXCEPT !.len = nb]},
               mem    |-> Written(s.mem, blk.at + nb .. blk.at + blk.len - 1, Junk),
               stats  |-> Freed(s.stats, blk.len - nb)],
              blk.at, nb - Rz)

Shrunk(s, blk, want) ==
  LET nb == ShrinkAt(blk, want)
  IN  Outcome([blocks |-> (s.blocks \ {blk}) \union {[blk EXCEPT !.len = nb]},
               mem    |-> WriteRedzone(Written(s.mem, blk.at + nb .. blk.at + blk.len - 1, Junk),
                                       blk.at, nb - Rz),
               stats  |-> Freed(s.stats, blk.len - nb)],
              blk.at, nb - Rz)

(* resize, when the heap can extend the block. *)
\* Mutant of Grown: the whole new length is counted as granted.
GrownCountedTwice(s, blk, want) ==
  {Outcome([blocks |-> (s.blocks \ {blk}) \union {[blk EXCEPT !.len = nb]},
            mem    |-> WriteRedzone(s.mem, blk.at, nb - Rz),
            stats  |-> Granted(s.stats, nb)],
           blk.at, nb - Rz) : nb \in GrowAt(s.blocks, blk, want)}

Grown(s, blk, want) ==
  {Outcome([blocks |-> (s.blocks \ {blk}) \union {[blk EXCEPT !.len = nb]},
            mem    |-> WriteRedzone(s.mem, blk.at, nb - Rz),
            stats  |-> Granted(s.stats, nb - blk.len)],
           blk.at, nb - Rz) : nb \in GrowAt(s.blocks, blk, want)}

(* resize, when the contents must move: a new block first, then the copy, and
   the old one, found before the new one was taken, is released last. *)
Copied(mem, from, to, n) ==
  [c \in Addresses |-> IF c \in to .. to + n - 1 THEN mem[from + (c - to)] ELSE mem[c]]

\* Mutant of Moved: the old block goes before the new one is taken.
MovedAfterFree(s, blk, old, size, preserve, al) ==
  {IF o.ptr = Null THEN Refused(s)
   ELSE LET copy == Least({preserve, old.len, blk.len - Rz, o.len})
        IN  Outcome([o.s EXCEPT !.mem = Copied(@, old.ptr, o.ptr, copy)], o.ptr, o.len)
   : o \in Balloc(Release(s, blk), size, al)}

Moved(s, blk, old, size, preserve, al) ==
  {IF o.ptr = Null THEN Refused(s)
   ELSE LET copy == Least({preserve, old.len, blk.len - Rz, o.len})
        IN  Outcome(Release([o.s EXCEPT !.mem = Copied(@, old.ptr, o.ptr, copy)], blk),
                    o.ptr, o.len) : o \in Balloc(s, size, al)}

(* resize *)
\* Mutant of ResizeLive: a block is grown in place wherever it lies.
ResizeLiveAnywhere(s, blk, old, size, preserve, al) ==
  LET have   == blk.len - Rz
      placed == blk.at % al = 0
  IN  IF size <= have /\ placed THEN {Shrunk(s, blk, size + Rz)}
      ELSE (IF size # Huge THEN Grown(s, blk, size + Rz) ELSE {})
             \union Moved(s, blk, old, size, preserve, al)

ResizeLive(s, blk, old, size, preserve, al) ==
  LET have   == blk.len - Rz
      placed == blk.at % al = 0
  IN  IF size <= have /\ placed THEN {Shrunk(s, blk, size + Rz)}
      ELSE (IF placed /\ size # Huge THEN Grown(s, blk, size + Rz) ELSE {})
             \union Moved(s, blk, old, size, preserve, al)

Resize(s, old, size, preserve, al) ==
  LET blk == Locate(s, old.ptr)
  IN  CASE ~ IsPow2(al)                -> {Refused(s)}
        [] IsPow2(al) /\ old.ptr = Null -> Balloc(s, size, al)
        [] IsPow2(al) /\ old.ptr # Null /\ size = 0 -> {Refused(Dealloc(s, old.ptr))}
        [] IsPow2(al) /\ old.ptr # Null /\ size # 0 /\ (blk.len = 0 \/ blk.len < Rz) -> {Refused(s)}
        [] OTHER -> ResizeLive(s, blk, old, size, preserve, al)

(* realloc: the caller does not say how long the old chunk is. *)
Realloc(s, ptr, size) ==
  Resize(s, [ptr |-> ptr, len |-> Huge], size, Huge, 1)

(* query_size *)
QuerySize(s, p) == LET blk == Locate(s, p) IN IF blk.len = 0 THEN 0 ELSE blk.len - Rz
=============================================================================
