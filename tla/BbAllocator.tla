----------------------------- MODULE BbAllocator -----------------------------
(***************************************************************************)
(* bb_allocator (src/src/__bb.hpp), the allocator that micron containers   *)
(* use.  It passes calls on to the public interface, but the length of the *)
(* chunk it returns is not the one it was given: it is allocation_extent,  *)
(* a pure function of size and alignment, so that a container can compute  *)
(* it again.                                                               *)
(***************************************************************************)
EXTENDS MallocOps

CONSTANTS
  Holders,      (* who holds a chunk: at most one each                      *)
  Sizes,        (* sizes asked for, in cells                                *)
  Alignments    (* alignments asked for, in cells, powers of two            *)

VARIABLES
  s,        (* the allocator: see MallocOps                                 *)
  chunks    (* the pointer and the length each holder was last returned     *)

vars == <<s, chunks>>

NoChunk == [ptr |-> Null, len |-> 0]

(* allocation_extent, below the overflow of its sums *)
AllocationExtent(bytes, al) ==
  LET want == bytes + Rz
  IN  IF bytes = 0 THEN 0
      ELSE IF al = 1 /\ want <= ClassSmall THEN want - Rz
      ELSE Largest({al, NextPow2(Largest({want, MinBlock}))}) - Rz

Init ==
  /\ s = [mem |-> [c \in Addresses |-> Junk], blocks |-> {},
          stats |-> [usage |-> 0, balance |-> 0, pairs |-> 0]]
  /\ chunks = [h \in Holders |-> NoChunk]

(* A null pointer is an exception: the caller gets nothing. *)
Return(h, o, bytes, al) ==
  /\ s' = o.s
  /\ chunks' = IF o.ptr = Null THEN chunks
               ELSE [chunks EXCEPT ![h] = [ptr |-> o.ptr, len |-> AllocationExtent(bytes, al)]]

Create(h, bytes, al) ==
  /\ chunks[h] = NoChunk /\ bytes # 0
  /\ \E o \in Balloc(s, bytes, al) : Return(h, o, bytes, al)

Destroy(h) ==
  /\ s' = Dealloc(s, chunks[h].ptr)
  /\ chunks' = [chunks EXCEPT ![h] = NoChunk]

ResizeChunk(h, bytes, preserve, al) ==
  IF bytes = 0 THEN Destroy(h)
  ELSE \E o \in Resize(s, chunks[h], bytes, preserve, al) : Return(h, o, bytes, al)

(* reset: every chunk handed out becomes invalid. *)
Reset ==
  /\ s' = [s EXCEPT !.blocks = {}, !.mem = [c \in Addresses |-> Junk]]
  /\ chunks' = [h \in Holders |-> NoChunk]

Next ==
  \/ \E h \in Holders, bytes \in Sizes, al \in Alignments : Create(h, bytes, al)
  \/ \E h \in Holders : Destroy(h)
  \/ \E h \in Holders, bytes \in Sizes, al \in Alignments :
       ResizeChunk(h, bytes, chunks[h].len, al)
  \/ Reset

Spec == Init /\ [][Next]_vars

-----------------------------------------------------------------------------
(* The length a chunk is returned with is never more than query_size() says of
   its pointer: the "deterministic ... size introspection" of src/README.md:36,
   and what tests/rigor/bbmalloc_traits.cpp demands of chunks just created. *)
ExtentIsUsable == \A h \in Holders : chunks[h].len <= QuerySize(s, chunks[h].ptr)
=============================================================================
