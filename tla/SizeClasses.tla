----------------------------- MODULE SizeClasses -----------------------------
(***************************************************************************)
(* Walks every block size of a sheet and checks what the free lists rest   *)
(* on, against the set of blocks each class can hold.                      *)
(***************************************************************************)
EXTENDS TlsfMapping

VARIABLE wanted

Smallest == wanted = MinBlock
NextSize == wanted < DataBytes /\ wanted' = wanted + Granule
Walk     == Smallest /\ [][NextSize]_wanted

(* Every block of the class where a search begins, or of a later class, is
   large enough: find_free() takes the head of the list without looking. *)
SearchIsSafe ==
  \A s \in BlockSizes : ~ Before(MappingInsert(s), SearchClass(wanted)) => wanted <= s

(* A class is passed over only if it can hold a block that is too small, so
   of the classes with a block to offer only the one of the size itself is,
   and not even that when the size is the smallest in it: all that is left to
   __find_exact are the heads of such lists. *)
SearchIsTight ==
  \A s \in BlockSizes :
    wanted <= s /\ Before(MappingInsert(s), SearchClass(wanted)) =>
      /\ MappingInsert(s) = MappingInsert(wanted)
      /\ wanted > MinBlock /\ MappingInsert(wanted - Granule) = MappingInsert(wanted)

(* The table gives the class mapping_search computes, and never one past the
   last: that branch of find_free indexes sl_bitmap without a check.  Neither
   is the class of a block past the last, which insert_free does not check. *)
TableAgrees ==
  /\ MappingInsert(wanted) \in Classes
  /\ wanted <= TableMax => TableEntry(wanted) = MappingSearch(wanted) /\ TableEntry(wanted) \in Classes
=============================================================================
