-------------------------------- MODULE Malloc --------------------------------
(***************************************************************************)
(* Callers of the public interface (src/src/malloc.hpp): they allocate,    *)
(* write to what they were given, now and then one cell too far, resize,   *)
(* free, and free what is not theirs to free.  Every call is one action.   *)
(***************************************************************************)
EXTENDS MallocOps

CONSTANTS
  Holders,      (* who holds a chunk: at most one each                      *)
  Sizes,        (* sizes asked for, in cells                                *)
  Alignments,   (* alignments asked for, in cells                           *)
  MaxDropped    (* bound: how many live blocks resets may drop in all       *)

ASSUME CallersAssumption ==
  Sizes \subseteq Nat /\ Alignments \subseteq Nat /\ MaxDropped \in Nat

VARIABLES
  s,        (* the allocator: see MallocOps                                 *)
  chunks,   (* what each holder was last given, and what it relies on:      *)
            (*   al      the alignment asked for                            *)
            (*   kept    how many cells from the start hold its data        *)
            (*   zeroed  the data are the zeros of zalloc                   *)
            (*   hurt    it has written past the end                        *)
  dropped   (* for StatsExact alone: the cells and the number of the blocks *)
            (* that were live when a reset took them                        *)

vars == <<s, chunks, dropped>>

Chunk(ptr, len, al, kept, zeroed) ==
  [ptr |-> ptr, len |-> len, al |-> al, kept |-> kept, zeroed |-> zeroed, hurt |-> FALSE]
NoChunk == Chunk(Null, 0, 1, 0, FALSE)
Holding == {h \in Holders : chunks[h] # NoChunk}

Own(h, i) == <<h, i>>
Datum(h, i) == IF chunks[h].zeroed THEN Zero ELSE Own(h, i)

NoStats == [usage |-> 0, balance |-> 0, pairs |-> 0]

Init ==
  /\ s = [mem |-> [c \in Addresses |-> Junk], blocks |-> {}, stats |-> NoStats]
  /\ chunks = [h \in Holders |-> NoChunk]
  /\ dropped = [cells |-> 0, blocks |-> 0]

-----------------------------------------------------------------------------
Receive(h, o, al, kept, zeroed) ==
  /\ s' = o.s
  /\ chunks' = IF o.ptr = Null THEN chunks
               ELSE [chunks EXCEPT ![h] = Chunk(o.ptr, o.len, al, kept, zeroed)]
  /\ UNCHANGED dropped

Allocate(h, size, al) ==
  /\ h \notin Holding
  /\ \E o \in Balloc(s, size, al) : Receive(h, o, al, 0, FALSE)

AllocateZeroed(h, size) ==
  /\ h \notin Holding
  /\ \E o \in Zalloc(s, size) : Receive(h, o, 1, o.len, TRUE)

(* The holder fills its chunk, as far as it was told that it reaches. *)
Fill(h) ==
  /\ h \in Holding
  /\ s' = [s EXCEPT !.mem = [c \in Addresses |->
             IF c \in chunks[h].ptr .. chunks[h].ptr + chunks[h].len - 1
             THEN Own(h, c - chunks[h].ptr) ELSE @[c]]]
  /\ chunks' = [chunks EXCEPT ![h].kept = chunks[h].len, ![h].zeroed = FALSE]
  /\ UNCHANGED dropped

(* The holder writes the cell behind its chunk. *)
Overrun(h) ==
  /\ Rz > 0 /\ h \in Holding
  /\ s' = [s EXCEPT !.mem = [@ EXCEPT ![chunks[h].ptr + chunks[h].len] = Junk]]
  /\ chunks' = [chunks EXCEPT ![h].hurt = TRUE]
  /\ UNCHANGED dropped

Free(h) ==
  /\ h \in Holding
  /\ s' = Dealloc(s, chunks[h].ptr)
  /\ chunks' = [chunks EXCEPT ![h] = NoChunk]
  /\ UNCHANGED dropped

(* A second free, or one of a pointer that is not the start of a chunk. *)
BadFree(p) ==
  /\ \A h \in Holding : chunks[h].ptr # p
  /\ s' = Dealloc(s, p)
  /\ UNCHANGED <<chunks, dropped>>

(* A resize that is refused leaves the holder with its old chunk. *)
Resized(h, o, size, preserve, al) ==
  IF size = 0 /\ IsPow2(al)
  THEN s' = o.s /\ chunks' = [chunks EXCEPT ![h] = NoChunk] /\ UNCHANGED dropped
  ELSE Receive(h, o, al, Least({chunks[h].kept, preserve, o.len}), chunks[h].zeroed)

ResizeChunk(h, size, preserve, al) ==
  /\ h \in Holding
  /\ \E o \in Resize(s, chunks[h], size, preserve, al) : Resized(h, o, size, preserve, al)

ReallocChunk(h, size) ==
  /\ h \in Holding
  /\ \E o \in Realloc(s, chunks[h].ptr, size) : Resized(h, o, size, Huge, 1)

(* The cells that live blocks take up. *)
Occupied(blocks) == {c \in Addresses : \E blk \in blocks : c \in blk.at .. blk.at + blk.len - 1}

(* reset: every block is gone, and the counters keep what they have counted. *)
Reset ==
  /\ dropped.blocks + Cardinality(s.blocks) <= MaxDropped
  /\ s' = [s EXCEPT !.blocks = {}, !.mem = [c \in Addresses |-> Junk]]
  /\ chunks' = [h \in Holders |-> NoChunk]
  /\ dropped' = [cells  |-> dropped.cells + Cardinality(Occupied(s.blocks)),
                 blocks |-> dropped.blocks + Cardinality(s.blocks)]

Next ==
  \/ \E h \in Holders, size \in Sizes, al \in Alignments : Allocate(h, size, al)
  \/ \E h \in Holders, size \in Sizes : AllocateZeroed(h, size)
  \/ \E h \in Holders : Fill(h) \/ Overrun(h) \/ Free(h)
  \/ \E p \in Addresses : BadFree(p)
  \/ \E h \in Holders, size \in Sizes, al \in Alignments :
       \E preserve \in {1, chunks[h].len} : ResizeChunk(h, size, preserve, al)
  \/ \E h \in Holders, size \in Sizes : ReallocChunk(h, size)
  \/ Reset

Spec == Init /\ [][Next]_vars

-----------------------------------------------------------------------------
(* Whatever mix of allocations, moves and resizes in place led here, each
   holder's chunk is a block of its own, aligned as was last asked for, that
   reaches as far as the holder was told with room for the redzone behind it;
   and there is no block that nobody holds: no resize leaks the old one. *)
ChunksUsable ==
  /\ \A h \in Holding : \E blk \in s.blocks :
       /\ blk.at = chunks[h].ptr
       /\ chunks[h].len + Rz <= blk.len
       /\ blk.at % chunks[h].al = 0
  /\ \A g, h \in Holding : chunks[g].ptr = chunks[h].ptr => g = h
  /\ Cardinality(s.blocks) = Cardinality(Holding)

(* A holder finds what it wrote, or the zeros it asked for, as far as it asked
   for them to be preserved: after resizes in place, moves, refused resizes
   and anything that happened to the chunks of others. *)
ContentsKept ==
  \A h \in Holding : \A i \in 0 .. chunks[h].kept - 1 : s.mem[chunks[h].ptr + i] = Datum(h, i)

(* The check that the next free or resize makes of a redzone fails exactly for
   the chunks that were overrun: it is looked for where it was last written,
   whatever resizes came in between, and no holder filling its chunk trips it. *)
RedzonesGuard ==
  \A h \in Holding :
    VerifyRedzone(s.mem, chunks[h].ptr, Locate(s, chunks[h].ptr).len - Rz) <=> ~ chunks[h].hurt

(* current_usage, which saturates at zero, is the number of cells in live blocks
   and in the blocks that were live when a reset dropped them, which it goes on
   counting; and as many blocks as that were allocated and not freed.  Resizes in
   place count what they add or give back, moves count both blocks. *)
StatsExact ==
  /\ s.stats.usage = Cardinality(Occupied(s.blocks)) + dropped.cells
  /\ s.stats.balance = s.stats.usage
  /\ s.stats.pairs = Cardinality(s.blocks) + dropped.blocks
=============================================================================
