----------------------------- MODULE SmallStore -----------------------------
(***************************************************************************)
(* What the small-object tier promises to the region above it, without     *)
(* headers, lists, bitmaps or coalescing: a set of live blocks, each with  *)
(* its own span of a sheet, that never overlap and never move.             *)
(***************************************************************************)
EXTENDS TlsfMapping

CONSTANTS
  Sheets,    (* the sheets the region may add                              *)
  Requests   (* the payload sizes asked for, in granules                   *)

VARIABLES
  sheets,   (* the sheets added                                            *)
  live      (* the blocks handed out: a set of <<sheet, unit, size>>       *)

Span(u, size) == u .. u + size - 1

Vacant(others, s, u, size) ==
  /\ Span(u, size) \subseteq 0 .. DataUnits - 1
  /\ \A blk \in others : blk[1] = s => Span(blk[2], blk[3]) \cap Span(u, size) = {}

Init == sheets = {} /\ live = {}

AddSheet ==
  /\ \E s \in Sheets \ sheets : sheets' = sheets \union {s}
  /\ UNCHANGED live

RemoveSheet ==
  /\ \E s \in sheets : sheets' = sheets \ {s} /\ \A blk \in live : blk[1] # s
  /\ UNCHANGED live

(* A block is at most one granule longer than asked for. *)
Allocate ==
  /\ UNCHANGED sheets
  /\ \E blk \in live' \ live, n \in Requests \ {0} :
       /\ live' = live \union {blk}
       /\ blk[1] \in sheets /\ Vacant(live, blk[1], blk[2], blk[3])
       /\ blk[3] \in n + 1 .. n + 2

Deallocate ==
  /\ UNCHANGED sheets
  /\ \E blk \in live : live' = live \ {blk}

(* Only the end of a block moves, over vacant room: a shrink gives back at
   least a minimum block, a grow takes no granule that it does not have to. *)
Resize ==
  /\ UNCHANGED sheets
  /\ \E blk \in live \ live', new \in live' \ live, n \in Requests \ {0} :
       /\ live' = (live \ {blk}) \union {new}
       /\ new[1] = blk[1] /\ new[2] = blk[2]
       /\ new[3] = n + 1 \/ (blk[3] < new[3] /\ new[3] = n + 2)
       /\ blk[3] < new[3] \/ new[3] + 2 <= blk[3]
       /\ Vacant(live \ {blk}, blk[1], blk[2], new[3])

Next == AddSheet \/ RemoveSheet \/ Allocate \/ Deallocate \/ Resize

Spec == Init /\ [][Next]_<<sheets, live>>
=============================================================================
