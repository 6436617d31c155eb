----------------------------- MODULE BlockStore -----------------------------
(***************************************************************************)
(* What a buddy pool promises to the regions that use it, without free     *)
(* lists, tags, masks or caches: a set of live blocks that never overlap.  *)
(* An allocation is refused only when no aligned run of free units of that *)
(* order is left; largest_free() names the largest order that is left.     *)
(***************************************************************************)
EXTENDS BuddyGeometry

VARIABLES
  live,   (* the blocks handed out: a set of <<offset, order>>             *)
  ret     (* the call that returned last and its result                    *)

vars == <<live, ret>>

Result(op, order, off) == [op |-> op, order |-> order, off |-> off]
NoResult == Result("none", Null, Null)

Vacant(off, o) ==
  /\ Aligned(off, o)
  /\ InPool(off, o)
  /\ \A blk \in live : Span(blk[1], blk[2]) \cap Span(off, o) = {}

HasRoom(o) == o \in Orders /\ \E off \in Units : Vacant(off, o)

Init == live = {} /\ ret = NoResult

Allocate(o) ==
  \/ \E off \in Units :
       /\ ret' = Result("allocate", o, off)
       /\ o \in Orders /\ Vacant(off, o)
       /\ live' = live \union {<<off, o>>}
  \/ /\ ret' = Result("allocate", o, Null)
     /\ ~ HasRoom(o)
     /\ UNCHANGED live

Deallocate(p) ==
  \/ \E blk \in live :
       /\ ret' = Result("deallocate", blk[2], p)
       /\ blk[1] = p
       /\ live' = live \ {blk}
  \/ /\ ret' = Result("deallocate", Null, Null)
     /\ \A blk \in live : blk[1] # p
     /\ UNCHANGED live

(* A block may be extended in place over vacant units to its right; whether
   the pool does it is its own affair, but it never moves the block. *)
Extend(p, want) ==
  \E blk \in live :
    /\ ret' = Result("grow", want, p)
    /\ blk[1] = p /\ blk[2] < want
    /\ want \in Orders /\ Aligned(p, want) /\ InPool(p, want)
    /\ \A other \in live \ {blk} : Span(other[1], other[2]) \cap Span(p, want) = {}
    /\ live' = (live \ {blk}) \union {<<p, want>>}

KeepSize(p, want) ==
  \/ \E blk \in live :
       /\ ret' = Result("grow", blk[2], p)
       /\ blk[1] = p /\ want <= blk[2]
       /\ UNCHANGED live
  \/ /\ ret' = Result("grow", Null, Null)
     /\ UNCHANGED live

Grow(p, want) == Extend(p, want) \/ KeepSize(p, want)

LargestFree ==
  /\ UNCHANGED live
  /\ \/ \E o \in Orders :
          /\ ret' = Result("largest_free", o, Null)
          /\ HasRoom(o) /\ ~ HasRoom(o + 1)
     \/ /\ ret' = Result("largest_free", Null, Null)
        /\ ~ HasRoom(0)

Reset == live' = {} /\ ret' = NoResult

Next ==
  \/ \E o \in 0 .. MaxOrder : Allocate(o)
  \/ \E p \in Units \union {Null} : Deallocate(p)
  \/ \E p \in Units \union {Null}, want \in 0 .. MaxOrder : Grow(p, want)
  \/ LargestFree
  \/ Reset

Spec == Init /\ [][Next]_vars
=============================================================================
