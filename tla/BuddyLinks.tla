------------------------------ MODULE BuddyLinks ------------------------------
(***************************************************************************)
(* The free lists of a buddy pool as the code keeps them                   *)
(* (src/src/free_list.hpp): doubly linked through the free memory itself,  *)
(* two words at the start of every free block.  Buddy takes a list for the *)
(* set of its blocks; this module has the pointers, the last-in first-out  *)
(* order and the stale words, and implements Buddy.                        *)
(*                                                                         *)
(* The pool has no order cache, as every profile configures it.  Marks are *)
(* left to Buddy: they do not touch a link.  As in BuddyOps, a loop of the *)
(* code that visits one block of each order of a range is one update: "at" *)
(* is the function from those orders to their blocks.                      *)
(***************************************************************************)
EXTENDS BuddyOps

VARIABLES
  l,      (* the pool: tags, free_mask and allocated as in BuddyOps, and    *)
          (*   heads       free_lists: the first block of each order or Null *)
          (*   next, prev  the two words at the start of each unit          *)
  answer  (* the call that returned last and its result                     *)

linkedVars == <<l, answer>>

Junk  == -2  \* a word the user may have written: no pointer to rely on
Words == Pointers \union {Junk}

LinkedShapes ==
  [tags : [Units -> Tags], heads : [Orders -> Words],
   next : [Units -> Words], prev : [Units -> Words],
   free_mask : SUBSET Orders, allocated : Int]

-----------------------------------------------------------------------------
(* __link_front: the new head points to the old one and back; a null old head
   makes the code write to __scratch, that is, nowhere. *)
\* Mutant of LinkFront: the old head does not point back.
LinkFrontOneWay(p, at) ==
  LET orderOf(u) == CHOOSE o \in DOMAIN at : at[o] = u
      entering(u) == \E o \in DOMAIN at : at[o] = u
  IN  [p EXCEPT
        !.heads = [o \in Orders |-> IF o \in DOMAIN at THEN at[o] ELSE @[o]],
        !.next  = [u \in Units |-> IF entering(u) THEN p.heads[orderOf(u)] ELSE @[u]],
        !.prev  = [u \in Units |-> IF entering(u) THEN Null ELSE @[u]],
        !.tags  = [u \in Units |-> IF entering(u) THEN Free(orderOf(u)) ELSE @[u]]]

LinkFront(p, at) ==
  LET orderOf(u) == CHOOSE o \in DOMAIN at : at[o] = u
      entering(u) == \E o \in DOMAIN at : at[o] = u
      follows(o, u) == p.heads[o] = u
  IN  [p EXCEPT
        !.heads = [o \in Orders |-> IF o \in DOMAIN at THEN at[o] ELSE @[o]],
        !.next  = [u \in Units |-> IF entering(u) THEN p.heads[orderOf(u)] ELSE @[u]],
        !.prev  = [u \in Units |->
           IF entering(u) THEN Null
           ELSE IF \E o \in DOMAIN at : follows(o, u)
                THEN at[CHOOSE o \in DOMAIN at : follows(o, u)] ELSE @[u]],
        !.tags  = [u \in Units |-> IF entering(u) THEN Free(orderOf(u)) ELSE @[u]]]

(* __push_free *)
PushFree(p, at) == [LinkFront(p, at) EXCEPT !.free_mask = @ \union DOMAIN at]

(* __link_valid.  Junk may look like a block of the pool or not; the model
   takes it for invalid, and LinksIntact says that none is ever read. *)
LinkValid(w) == w \in Pointers

(* The head's prev word is not kept up to date when the block before it
   leaves the list: wherever prev is read, the head is told apart first. *)
PrevOf(p, u, o) == IF p.heads[o] = u THEN Null ELSE p.prev[u]

(* __unlink_check *)
UnlinkCheck(p, u, o) ==
  LET next == p.next[u]
      prev == PrevOf(p, u, o)
  IN  /\ LinkValid(next) /\ LinkValid(prev)
      /\ p.heads[o] = u \/ (prev # Null /\ p.next[prev] = u)
      /\ next = Null \/ p.prev[next] = u

(* __unlink_do: the block before u, or the head, takes u's next; the block
   after u takes u's prev unless it becomes the head. *)
\* Mutant of UnlinkDo: the bit is cleared when the block was the last of its list.
UnlinkDoLast(p, at) ==
  LET isHead(o) == p.heads[o] = at[o]
      before(o, u) == ~ isHead(o) /\ p.prev[at[o]] = u
      after(o, u)  == ~ isHead(o) /\ p.next[at[o]] = u
  IN  [p EXCEPT
        !.heads = [o \in Orders |-> IF o \in DOMAIN at /\ isHead(o) THEN p.next[at[o]] ELSE @[o]],
        !.next  = [u \in Units |->
           IF \E o \in DOMAIN at : before(o, u)
           THEN p.next[at[CHOOSE o \in DOMAIN at : before(o, u)]] ELSE @[u]],
        !.prev  = [u \in Units |->
           IF \E o \in DOMAIN at : after(o, u)
           THEN p.prev[at[CHOOSE o \in DOMAIN at : after(o, u)]] ELSE @[u]],
        !.free_mask = @ \ {o \in DOMAIN at : p.next[at[o]] = Null}]

UnlinkDo(p, at) ==
  LET isHead(o) == p.heads[o] = at[o]
      before(o, u) == ~ isHead(o) /\ p.prev[at[o]] = u
      after(o, u)  == ~ isHead(o) /\ p.next[at[o]] = u
  IN  [p EXCEPT
        !.heads = [o \in Orders |-> IF o \in DOMAIN at /\ isHead(o) THEN p.next[at[o]] ELSE @[o]],
        !.next  = [u \in Units |->
           IF \E o \in DOMAIN at : before(o, u)
           THEN p.next[at[CHOOSE o \in DOMAIN at : before(o, u)]] ELSE @[u]],
        !.prev  = [u \in Units |->
           IF \E o \in DOMAIN at : after(o, u)
           THEN p.prev[at[CHOOSE o \in DOMAIN at : after(o, u)]] ELSE @[u]],
        !.free_mask = @ \ {o \in DOMAIN at : isHead(o) /\ p.next[at[o]] = Null}]

Untag(p, S) == [p EXCEPT !.tags = [u \in Units |-> IF u \in S THEN NoTag ELSE @[u]]]

(* __take_and_split: the head leaves its list, whose new head keeps a stale
   prev, and the right halves are linked from the largest down.  Only the
   mask computed from the state before them is stored. *)
SplitHead(p, from, target) ==
  LET blk    == p.heads[from]
      next   == IF LinkValid(p.next[blk]) THEN p.next[blk] ELSE Null
      halves == [j \in target .. from - 1 |-> blk + OrderSize[j]]
  IN  [LinkFront([p EXCEPT !.heads = [@ EXCEPT ![from] = next]], halves) EXCEPT
         !.free_mask = (IF next = Null THEN p.free_mask \ {from} ELSE p.free_mask)
                         \union target .. from - 1]

(* The words of a block that is in no list: the user's, or left over from a
   block that was merged.  The code leaves them as they are; nothing may rely
   on them, so the model forgets them at once. *)
Forget(p, u, o) ==
  [p EXCEPT !.next = [w \in Units |-> IF w \in Span(u, o) THEN Junk ELSE @[w]],
            !.prev = [w \in Units |-> IF w \in Span(u, o) THEN Junk ELSE @[w]]]

(* __merge_and_free: besides Buddy's condition, the buddy's links must agree
   before it is unlinked. *)
CanUnlink(p, u, k) == CanMerge(p, u, k) /\ UnlinkCheck(p, BuddyOf(Level(u, k), k), k)

UnlinkOrder(p, u, o) ==
  CHOOSE m \in o .. Top :
    ~ CanUnlink(p, u, m) /\ \A k \in o .. m - 1 : CanUnlink(p, u, k)

MergeThenPush(p, u, o) ==
  LET m       == UnlinkOrder(p, u, o)
      buddies == [k \in o .. m - 1 |-> BuddyOf(Level(u, k), k)]
      rights  == {Level(u, k + 1) + OrderSize[k] : k \in o .. m - 1}
  IN  PushFree(Forget(Untag(UnlinkDo(p, buddies), rights), Level(u, m), m),
               [k \in {m} |-> Level(u, m)])

(* grow's two loops: every right buddy is checked before one is unlinked. *)
CanAbsorb(p, u, o, want) ==
  /\ CanGrow(p, u, o, want)
  /\ \A j \in o .. want - 1 : UnlinkCheck(p, u + OrderSize[j], j)

Absorb(p, u, o, want) ==
  LET buddies == [j \in o .. want - 1 |-> u + OrderSize[j]]
      rights  == {u + OrderSize[j] : j \in o .. want - 1}
  IN  [Untag(UnlinkDo(p, buddies), rights) EXCEPT
         !.tags = [@ EXCEPT ![u] = Alloc(want)],
         !.allocated = @ + (OrderSize[want] - OrderSize[o])]

(* __setup: the lists are built anew, whatever the memory holds. *)
Bare == [tags |-> [u \in Units |-> NoTag], heads |-> [o \in Orders |-> Null],
         next |-> [u \in Units |-> Junk], prev |-> [u \in Units |-> Junk],
         free_mask |-> {}, allocated |-> 0]

Seeded == PushFree(Bare, [o \in {k \in Orders : SeedBit(k)} |-> SeedOff(o)])

-----------------------------------------------------------------------------
InitLinked == l = Seeded /\ answer = NoResult

AllocateLinked(o) ==
  LET from == FindFreeOrder(l, o)
  IN  IF o >= MaxOrder \/ from >= MaxOrder
      THEN answer' = Result("allocate", o, Null) /\ UNCHANGED l
      ELSE IF l.heads[from] = Null
      THEN /\ l' = [l EXCEPT !.free_mask = @ \ {from}]
           /\ answer' = Result("allocate", o, Null)
      ELSE LET blk == l.heads[from]
           IN  /\ l' = Forget(Grant(SplitHead(l, from, o), blk, o), blk, o)
               /\ answer' = Result("allocate", o, blk)

DeallocateLinked(u) ==
  LET o == OrderAt(l, u)
  IN  /\ answer' = Result("deallocate", o, IF o = Null THEN Null ELSE u)
      /\ IF o = Null THEN UNCHANGED l ELSE l' = MergeThenPush(Discharge(l, o), u, o)

GrowLinked(u, want) ==
  LET o    == OrderAt(l, u)
      size == IF o = Null THEN Null
              ELSE IF want <= o THEN o
              ELSE IF CanAbsorb(l, u, o, want) THEN want ELSE Null
  IN  /\ answer' = Result("grow", size, IF size = Null THEN Null ELSE u)
      /\ IF o # Null /\ size > o THEN l' = Forget(Absorb(l, u, o, want), u, want)
         ELSE UNCHANGED l

ResetLinked == l' = Seeded /\ answer' = NoResult

NextLinked ==
  \/ \E o \in OrderInputs : AllocateLinked(o)
  \/ \E u \in Pointers : DeallocateLinked(u)
  \/ \E u \in Pointers, want \in OrderInputs : GrowLinked(u, want)
  \/ ResetLinked

SpecLinked == InitLinked /\ [][NextLinked]_linkedVars

-----------------------------------------------------------------------------
(* The blocks met on the way along next from the head of list o: the least
   set that holds the head and with each block the next. *)
Linked(o) ==
  LET closed == {S \in SUBSET Units :
                   /\ l.heads[o] \in Units => l.heads[o] \in S
                   /\ \A u \in S : l.next[u] \in Units => l.next[u] \in S}
  IN  {u \in Units : \A S \in closed : u \in S}

(* Following next from any head ends at null, so it never runs in circles nor
   into a word of the user; each block met points back to the one before it;
   and every block its tag calls free, the one before or after it in whatever
   order they were freed, passes __unlink_check: a merge is never given up for
   a stale link, and grow never refused for one. *)
LinksIntact ==
  \A o \in Orders :
    /\ l.heads[o] = Null \/ \E u \in Linked(o) : l.next[u] = Null
    /\ \A u \in Linked(o) : l.next[u] \in Units => l.prev[l.next[u]] = u
    /\ \A u \in Units : l.tags[u] = Free(o) => UnlinkCheck(l, u, o)

(* Cut down to the sets of blocks in its lists, the linked pool is the pool of
   Buddy, step for step: so what is proved of Buddy holds for the pointers,
   and no write to a link ever lands outside a free block. *)
Abstract ==
  [tags |-> l.tags, free |-> [o \in Orders |-> Linked(o)], free_mask |-> l.free_mask,
   cache |-> [o \in Orders |-> {}], cache_count |-> [o \in Orders |-> 0],
   allocated |-> l.allocated]
Pool == INSTANCE Buddy WITH b <- Abstract, ret <- answer, CacheCap <- 0, SheetOrder <- 0,
                            pending <- [op |-> "none", order |-> 0]
ImplementsBuddy == Pool!Init /\ [][Pool!Next]_<<Abstract, answer>>
=============================================================================
