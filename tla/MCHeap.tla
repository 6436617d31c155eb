------------------------------- MODULE MCHeap -------------------------------
(* Two regions at most, of two units each, with one sheet of three blocks:
   banks that overlap each other or the tags that come with them, one that
   is aligned to a unit only, one that is too small, and pages; and for a heap
   that mostly grows, one bank and pages for both regions. *)
EXTENDS Heap

MCOrderSize == [o \in 0 .. MaxOrder |-> 2 ^ o]

Area(lo, hi, tags, align, fit) ==
  [mem |-> <<lo, hi>>, tags |-> tags, align |-> align, fit |-> fit]

MCAreas == {Area(4, 8, NoTags, 1, TRUE), Area(6, 10, <<1, 3>>, 0, TRUE),
            Area(20, 24, <<23, 25>>, 1, TRUE), Area(10, 11, NoTags, 0, FALSE)}
MCFewAreas == {Area(4, 8, NoTags, 0, TRUE)}
MCPages == {Area(30, 34, NoTags, 1, TRUE)}
MCPages2 == MCPages \union {Area(40, 44, NoTags, 0, TRUE)}
MCPool  == {Area(12, 16, NoTags, 1, TRUE)}
=============================================================================
