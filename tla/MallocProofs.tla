----------------------------- MODULE MallocProofs -----------------------------
(***************************************************************************)
(* Proofs about Malloc: whatever the callers do, every holder keeps a block *)
(* of its own that holds its data and a redzone that tells whether it was  *)
(* overrun, and the counters count what is live, for every memory, every   *)
(* redzone and every number of holders.                                    *)
(***************************************************************************)
EXTENDS Malloc, PowerProofs

Values    == {Junk, Redzone, Zero} \union (Holders \X Nat)
Tiers     == {"small", "large"}
BlockType == [at : Addresses, len : Nat \ {0}, tier : Tiers]
StatsType == [usage : Nat, balance : Int, pairs : Int]
StateType == [mem : [Addresses -> Values], blocks : SUBSET BlockType, stats : StatsType]
ChunkType == [ptr : Addresses \union {Null}, len : Nat, al : Nat \ {0}, kept : Nat,
              zeroed : BOOLEAN, hurt : BOOLEAN]

Body(blk)   == blk.at .. blk.at + blk.len - 1
BlockOk(blk) == Space(blk) \subseteq Addresses /\ blk.len > Rz

(* The blocks of the heap lie in the memory and apart from each other. *)
BlocksOk(blocks) ==
  /\ blocks \subseteq BlockType /\ IsFiniteSet(blocks)
  /\ \A blk \in blocks : BlockOk(blk)
  /\ \A a, b \in blocks : a # b => Space(a) \cap Space(b) = {}

(* The counters count the live blocks and d, those that resets have dropped. *)
DroppedType == [cells : Nat, blocks : Nat]
Counted(d, st) ==
  /\ d \in DroppedType
  /\ st.stats.usage = Cardinality(Occupied(st.blocks)) + d.cells
  /\ st.stats.balance = st.stats.usage
  /\ st.stats.pairs = Cardinality(st.blocks) + d.blocks

StateOk(d, st) == st \in StateType /\ BlocksOk(st.blocks) /\ Counted(d, st)

(* Holder h finds its chunk c as it left it: the block is exactly as long as the
   chunk and its redzone. *)
DatumOf(c, h, i) == IF c.zeroed THEN Zero ELSE Own(h, i)
Keeps(st, c, h) ==
  /\ c \in ChunkType /\ c.ptr \in Addresses
  /\ \E blk \in st.blocks : blk.at = c.ptr /\ blk.len = c.len + Rz
  /\ c.ptr % c.al = 0
  /\ c.kept <= c.len
  /\ \A i \in 0 .. c.kept - 1 : st.mem[c.ptr + i] = DatumOf(c, h, i)
  /\ ~ c.hurt => VerifyRedzone(st.mem, c.ptr, c.len)
  /\ c.hurt => Rz > 0 /\ st.mem[c.ptr + c.len] = Junk

(* The inductive invariant: besides, no two holders share a block and no block
   is without a holder. *)
Inv ==
  /\ StateOk(dropped, s)
  /\ chunks \in [Holders -> ChunkType]
  /\ \A h \in Holding : Keeps(s, chunks[h], h)
  /\ \A g, h \in Holding : chunks[g].ptr = chunks[h].ptr => g = h
  /\ \A blk \in s.blocks : \E h \in Holding : chunks[h].ptr = blk.at

-----------------------------------------------------------------------------
(* The numbers of a block and of the chunk in it. *)
LEMMA LayoutNumbers ==
  ASSUME NEW c \in ChunkType, NEW blk \in BlockType, blk.at = c.ptr, blk.len = c.len + Rz
  PROVE  /\ c.ptr \in Nat /\ c.len \in Nat /\ Rz \in Nat /\ blk.len - Rz = c.len
         /\ c.hurt \in BOOLEAN /\ blk.len # 0
<1>1. c.len \in Nat
  BY DEF ChunkType
<1>2. c.hurt \in BOOLEAN
  BY DEF ChunkType
<1>3. blk.at \in Addresses
  BY DEF BlockType
<1>4. blk.len \in Nat \ {0}
  BY DEF BlockType
<1>5. Rz \in Nat /\ Addresses \subseteq Nat
  BY MallocAssumption DEF Addresses
<1>6. blk.len - Rz = c.len
  <2> DEFINE n == c.len
  <2>1. n \in Nat /\ blk.len = n + Rz
    BY <1>1
  <2> HIDE DEF n
  <2>2. blk.len - Rz = n
    BY <1>5, <2>1
  <2> QED BY <2>2 DEF n
<1> QED BY <1>1, <1>2, <1>3, <1>4, <1>5, <1>6

(* Where a block lies. *)
LEMMA BlockFacts ==
  ASSUME NEW blk \in BlockType, BlockOk(blk)
  PROVE  /\ Body(blk) \subseteq Space(blk) /\ Body(blk) \subseteq Addresses
         /\ blk.at \in Body(blk)
         /\ IsFiniteSet(Body(blk)) /\ Cardinality(Body(blk)) = blk.len
<1>1. blk.at \in Nat /\ blk.len \in Nat \ {0} /\ Cells \in Nat
  BY MallocAssumption DEF BlockType, Addresses
<1>2. Body(blk) \subseteq Space(blk) /\ blk.at \in Body(blk)
  BY <1>1 DEF Body, Space
<1>3. IsFiniteSet(Body(blk)) /\ Cardinality(Body(blk)) = blk.len
  <2>1. \A a, b \in Int : /\ IsFiniteSet(a .. b)
                          /\ Cardinality(a .. b) = IF a > b THEN 0 ELSE b - a + 1
    BY FS_Interval
  <2>2. blk.at \in Int /\ blk.at + blk.len - 1 \in Int /\ ~ (blk.at > blk.at + blk.len - 1)
    BY <1>1
  <2>3. PICK a \in Int, b \in Int : a = blk.at /\ b = blk.at + blk.len - 1
    BY <2>2
  <2>4. IsFiniteSet(a .. b) /\ Cardinality(a .. b) = b - a + 1
    BY <2>1, <2>2, <2>3
  <2>5. b - a + 1 = blk.len
    BY <1>1, <2>3
  <2> QED BY <2>3, <2>4, <2>5 DEF Body
<1> QED BY <1>2, <1>3 DEF BlockOk

LEMMA OccupiedFinite ==
  ASSUME NEW B
  PROVE  IsFiniteSet(Occupied(B)) /\ Cardinality(Occupied(B)) \in Nat
<1>1. IsFiniteSet(Addresses)
  BY FS_Interval, MallocAssumption DEF Addresses
<1>2. Occupied(B) \subseteq Addresses
  BY DEF Occupied
<1>3. IsFiniteSet(Occupied(B))
  BY <1>1, <1>2, FS_Subset
<1> QED BY <1>3, FS_CardinalityType

(* A block that is put where no other lies. *)
LEMMA AddBlock ==
  ASSUME NEW B, BlocksOk(B), NEW blk \in BlockType, BlockOk(blk), Vacant(B, Space(blk))
  PROVE  /\ blk \notin B /\ BlocksOk(B \union {blk})
         /\ Cardinality(B \union {blk}) = Cardinality(B) + 1
         /\ Cardinality(Occupied(B \union {blk})) = Cardinality(Occupied(B)) + blk.len
         /\ Cardinality(Occupied(B)) \in Nat /\ Cardinality(B) \in Nat
<1>1. \A b \in B : Space(b) \cap Space(blk) = {}
  BY DEF Vacant
<1>2. Body(blk) \subseteq Space(blk) /\ Body(blk) \subseteq Addresses /\ blk.at \in Body(blk)
  BY BlockFacts
<1>3. IsFiniteSet(Body(blk)) /\ Cardinality(Body(blk)) = blk.len
  BY BlockFacts
<1>4. \A b \in B : Body(b) \subseteq Space(b)
  BY BlockFacts DEF BlocksOk
<1>5. blk \notin B
  BY <1>1, <1>2
<1>6. BlocksOk(B \union {blk})
  <2>1. IsFiniteSet(B \union {blk})
    BY FS_AddElement DEF BlocksOk
  <2>2. ASSUME NEW a \in B \union {blk}, NEW b \in B \union {blk}, a # b
        PROVE  Space(a) \cap Space(b) = {}
    <3>1. CASE a \in B /\ b \in B
      BY <2>2, <3>1 DEF BlocksOk
    <3>2. CASE a = blk \/ b = blk
      BY <2>2, <3>2, <1>1
    <3> QED BY <3>1, <3>2
  <2>3. \A b \in B \union {blk} : BlockOk(b)
    BY DEF BlocksOk
  <2>4. B \union {blk} \subseteq BlockType
    BY DEF BlocksOk
  <2> QED BY <2>1, <2>2, <2>3, <2>4 DEF BlocksOk
<1>7. Cardinality(B \union {blk}) = Cardinality(B) + 1 /\ Cardinality(B) \in Nat
  BY <1>5, FS_AddElement, FS_CardinalityType DEF BlocksOk
<1>8. Occupied(B \union {blk}) = Occupied(B) \union Body(blk)
  BY <1>2 DEF Occupied, Body
<1>9. Occupied(B) \cap Body(blk) = {}
  BY <1>1, <1>2, <1>4 DEF Occupied, Body
<1>10. IsFiniteSet(Occupied(B))
  BY OccupiedFinite
<1>11. Cardinality(Occupied(B)) \in Nat
  BY OccupiedFinite
<1>12. Cardinality(Occupied(B) \union Body(blk))
         = Cardinality(Occupied(B)) + Cardinality(Body(blk)) - Cardinality(Occupied(B) \cap Body(blk))
  BY <1>3, <1>10, FS_Union
<1>13. Cardinality(Occupied(B) \cap Body(blk)) = 0
  BY <1>9, FS_EmptySet
<1>14. blk.len \in Nat
  BY DEF BlockType
<1>15. Cardinality(Occupied(B \union {blk})) = Cardinality(Occupied(B)) + blk.len
  <2>1. Cardinality(Occupied(B \union {blk})) = Cardinality(Occupied(B) \union Body(blk))
    BY <1>8
  <2>2. Cardinality(Occupied(B) \union Body(blk)) = Cardinality(Occupied(B)) + blk.len - 0
    BY <1>3, <1>12, <1>13
  <2> QED BY <1>11, <1>14, <2>1, <2>2
<1> QED BY <1>5, <1>6, <1>7, <1>11, <1>15

(* A block that is taken away. *)
LEMMA DropBlock ==
  ASSUME NEW B, BlocksOk(B), NEW blk \in B
  PROVE  /\ BlocksOk(B \ {blk}) /\ Vacant(B \ {blk}, Space(blk))
         /\ Cardinality(B) = Cardinality(B \ {blk}) + 1
         /\ Cardinality(Occupied(B)) = Cardinality(Occupied(B \ {blk})) + blk.len
         /\ Cardinality(Occupied(B \ {blk})) \in Nat /\ Cardinality(B \ {blk}) \in Nat
<1> DEFINE C == B \ {blk}
<1>1. BlocksOk(C)
  <2>1. IsFiniteSet(C)
    BY FS_Subset DEF BlocksOk
  <2> QED BY <2>1 DEF BlocksOk
<1>2. blk \in BlockType /\ BlockOk(blk)
  BY DEF BlocksOk
<1>3. Vacant(C, Space(blk))
  BY <1>2 DEF BlocksOk, Vacant, BlockOk
<1>4. C \union {blk} = B
  OBVIOUS
<1> HIDE DEF C
<1>5. /\ Cardinality(C \union {blk}) = Cardinality(C) + 1
      /\ Cardinality(Occupied(C \union {blk})) = Cardinality(Occupied(C)) + blk.len
      /\ Cardinality(Occupied(C)) \in Nat /\ Cardinality(C) \in Nat
  BY <1>1, <1>2, <1>3, AddBlock
<1> QED BY <1>1, <1>3, <1>4, <1>5 DEF C

(* A block in place of another. *)
Fits(B, blk, new)  == new \in BlockType /\ new.len > Rz /\ Vacant(B \ {blk}, Space(new))
Replace(B, blk, new) == (B \ {blk}) \union {new}

LEMMA ChangeBlock ==
  ASSUME NEW B, BlocksOk(B), NEW blk \in B, NEW new, Fits(B, blk, new)
  PROVE  /\ BlockOk(new) /\ new \notin B \ {blk} /\ BlocksOk(Replace(B, blk, new))
         /\ Cardinality(Replace(B, blk, new)) = Cardinality(B)
         /\ Cardinality(Occupied(Replace(B, blk, new))) = Cardinality(Occupied(B)) - blk.len + new.len
         /\ Cardinality(Occupied(B)) - blk.len \in Nat
<1> DEFINE D == B \ {blk}
<1>1. new \in BlockType /\ new.len > Rz /\ blk.len \in Nat /\ new.len \in Nat
  BY DEF BlocksOk, BlockType, Fits
<1>2. BlockOk(new)
  BY DEF BlockOk, Vacant, Fits
<1>3. /\ BlocksOk(D)
      /\ Cardinality(B) = Cardinality(D) + 1
      /\ Cardinality(Occupied(B)) = Cardinality(Occupied(D)) + blk.len
      /\ Cardinality(Occupied(D)) \in Nat /\ Cardinality(D) \in Nat
  BY DropBlock
<1>4. Vacant(D, Space(new)) /\ Replace(B, blk, new) = D \union {new}
  BY DEF Fits, Replace
<1> HIDE DEF D
<1>5. /\ new \notin D /\ BlocksOk(D \union {new})
      /\ Cardinality(D \union {new}) = Cardinality(D) + 1
      /\ Cardinality(Occupied(D \union {new})) = Cardinality(Occupied(D)) + new.len
  BY <1>1, <1>2, <1>3, <1>4, AddBlock
<1>6. /\ Cardinality(Occupied(B)) - blk.len \in Nat
      /\ Cardinality(Occupied(D \union {new})) = Cardinality(Occupied(B)) - blk.len + new.len
      /\ Cardinality(D \union {new}) = Cardinality(B)
  BY <1>1, <1>3, <1>5
<1> QED BY <1>2, <1>4, <1>5, <1>6 DEF D

-----------------------------------------------------------------------------
(* The powers of two that the heap rounds to. *)
LEMMA NextPow2Facts ==
  ASSUME NEW n \in Nat \ {0}
  PROVE  \E j \in Nat : NextPow2(n) = 2 ^ j /\ 2 ^ j \in Nat /\ 2 ^ j >= n
<1> DEFINE T == {2 ^ k : k \in 0 .. n}
<1>1. PICK k \in Nat : 2 ^ k <= n /\ n < 2 ^ (k + 1)
  BY FloorLog
<1>2. PICK p \in Nat : p = 2 ^ k /\ p > k
  BY PowType
<1>3. PICK q \in Nat : q = 2 ^ (k + 1) /\ q = 2 * p
  BY <1>2, PowStep
<1>4. \E x \in T : x >= n /\ x < 2 * n
  <2>1. CASE p = n
    <3>1. p \in T
      BY <1>1, <1>2
    <3> HIDE DEF T
    <3> QED BY <2>1, <3>1
  <2>2. CASE p # n
    <3>1. k + 1 \in 0 .. n
      BY <1>1, <1>2, <2>2
    <3>2. q \in T
      BY <1>3, <3>1
    <3>3. q >= n /\ q < 2 * n
      BY <1>1, <1>2, <1>3, <2>2
    <3> HIDE DEF T
    <3> QED BY <3>2, <3>3
  <2> QED BY <2>1, <2>2
<1>5. NextPow2(n) \in T /\ NextPow2(n) >= n
  <2> DEFINE R(x) == x >= n /\ x < 2 * n
  <2>1. \E x \in T : R(x)
    BY <1>4
  <2>2. NextPow2(n) = CHOOSE x \in T : R(x)
    BY DEF NextPow2
  <2> HIDE DEF T
  <2> HIDE DEF R
  <2>3. NextPow2(n) \in T /\ R(NextPow2(n))
    BY <2>1, <2>2
  <2> QED BY <2>3 DEF R
<1>6. PICK j \in 0 .. n : NextPow2(n) = 2 ^ j
  BY <1>5
<1>7. 2 ^ j \in Nat
  BY <1>6, PowType
<1> QED BY <1>5, <1>6, <1>7

LEMMA LeastFacts ==
  ASSUME NEW T, T \subseteq Nat, T # {}
  PROVE  Least(T) \in T /\ \A y \in T : Least(T) <= y
<1>1. \E x \in T : \A y \in T : x <= y
  BY LeastElement
<1> QED BY <1>1 DEF Least

LEMMA LargestFacts ==
  ASSUME NEW a \in Nat, NEW b \in Nat, NEW c \in Nat
  PROVE  /\ Largest({a, b, c}) \in Nat /\ Largest({a, b, c}) >= a
         /\ Largest({a, b, c}) >= b /\ Largest({a, b, c}) >= c
<1>1. \E x \in {a, b, c} : \A y \in {a, b, c} : y <= x
  OBVIOUS
<1>2. Largest({a, b, c}) \in {a, b, c} /\ \A y \in {a, b, c} : y <= Largest({a, b, c})
  BY <1>1 DEF Largest
<1> QED BY <1>2

LEMMA MinBlockType == MinBlock \in Nat \ {0}
BY MallocAssumption, PowType

LEMMA AlignmentType ==
  ASSUME NEW al \in Nat, IsPow2(al)
  PROVE  al \in Nat \ {0} /\ \E i \in Nat : al = 2 ^ i
BY PowType DEF IsPow2

LEMMA OneIsPow2 == IsPow2(1)
BY PowZero DEF IsPow2

(* What the heap hands out: a free place, long enough and aligned. *)
LEMMA HeapAllocFacts ==
  ASSUME NEW B, NEW n \in Nat, n > Rz, NEW al \in Nat, IsPow2(al), NEW blk \in HeapAlloc(B, n, al)
  PROVE  /\ blk \in BlockType /\ BlockOk(blk) /\ Vacant(B, Space(blk))
         /\ blk.len >= n /\ blk.at % al = 0
<1>1. Rz \in Nat /\ n \in Nat \ {0}
  BY MallocAssumption
<1>2. Vacant(B, Space(blk)) /\ Space(blk) \subseteq Addresses
  BY DEF HeapAlloc, Vacant
<1>3. CASE /\ al = 1
           /\ \E at \in Addresses, len \in SmallLengths(n) : blk = Block(at, len, "small")
  <2>1. PICK at \in Addresses, len \in SmallLengths(n) : blk = Block(at, len, "small")
    BY <1>3
  <2>2. len \in Nat /\ len >= n
    BY DEF SmallLengths
  <2>3. at \in Nat /\ at % 1 = 0
    BY MallocAssumption DEF Addresses
  <2> QED BY <1>1, <1>2, <1>3, <2>1, <2>2, <2>3 DEF Block, BlockType, BlockOk, Tiers
<1>4. CASE LET len == LargeLength(n, al)
           IN \E at \in {a \in Addresses : a % len = 0} : blk = Block(at, len, "large")
  <2>1. PICK m \in Nat : m = Largest({n, al, MinBlock}) /\ m >= n /\ m >= al
    BY LargestFacts, MinBlockType
  <2>2. PICK j \in Nat : NextPow2(m) = 2 ^ j /\ 2 ^ j \in Nat /\ 2 ^ j >= m
    BY <1>1, <2>1, NextPow2Facts
  <2>3. LargeLength(n, al) = 2 ^ j
    BY <2>1, <2>2 DEF LargeLength
  <2>4. PICK at \in Addresses : at % 2 ^ j = 0 /\ blk = Block(at, 2 ^ j, "large")
    BY <1>4, <2>3
  <2>5. PICK i \in Nat : al = 2 ^ i
    BY AlignmentType
  <2>6. i <= j
    <3>1. SUFFICES ASSUME j < i PROVE FALSE
      OBVIOUS
    <3>2. 2 ^ j < 2 ^ i
      BY <3>1, PowMonotone
    <3> QED BY <2>1, <2>2, <2>5, <3>2
  <2>7. at \in Nat
    BY MallocAssumption DEF Addresses
  <2>8. at % al = 0
    BY <2>4, <2>5, <2>6, <2>7, PowDivides
  <2>9. PICK p \in Nat : p = 2 ^ j /\ p >= n
    BY <2>1, <2>2
  <2>10. blk = [at |-> at, len |-> p, tier |-> "large"]
    BY <2>4, <2>9 DEF Block
  <2> QED BY <1>1, <1>2, <2>8, <2>9, <2>10 DEF BlockType, BlockOk, Tiers
<1> QED BY <1>3, <1>4 DEF HeapAlloc

(* The lengths to which the heap extends a block: long enough, and into a place
   where no other block lies. *)
LEMMA GrowAtFacts ==
  ASSUME NEW B, BlocksOk(B), NEW blk \in B, NEW n \in Nat, n > blk.len,
         NEW nb \in GrowAt(B, blk, n)
  PROVE  /\ nb \in Nat /\ nb >= n /\ nb > Rz
         /\ Vacant(B \ {blk}, Space([blk EXCEPT !.len = nb]))
<1>1. /\ blk \in BlockType /\ BlockOk(blk) /\ Rz \in Nat
      /\ blk.len \in Nat \ {0} /\ blk.at \in Nat /\ blk.at - 1 \in Int
  BY MallocAssumption DEF BlocksOk, BlockType, Addresses
<1>2. nb \in Nat /\ nb >= n
  <2>1. CASE nb \in SmallLengths(n)
    BY <2>1 DEF SmallLengths
  <2>2. CASE nb = NextPow2(n)
    <3>1. n \in Nat \ {0}
      BY <1>1
    <3> QED BY <2>2, <3>1, NextPow2Facts
  <2> QED BY <2>1, <2>2 DEF GrowAt
<1>3. nb > Rz
  BY <1>1, <1>2 DEF BlockOk
<1>4. Vacant(B, blk.at + blk.len .. blk.at + nb - 1)
  BY DEF GrowAt
<1>5. Space([blk EXCEPT !.len = nb]) = Space(blk) \union (blk.at + blk.len .. blk.at + nb - 1)
  <2> DEFINE new == [blk EXCEPT !.len = nb]
  <2>1. new.at = blk.at /\ new.len = nb /\ new.tier = blk.tier
    BY <1>1 DEF BlockType
  <2> HIDE DEF new
  <2>2. \A a \in Int : a <= blk.at =>
          a .. blk.at + nb - 1 = (a .. blk.at + blk.len - 1) \union (blk.at + blk.len .. blk.at + nb - 1)
    BY <1>1, <1>2
  <2>3. Space(new) = Space(blk) \union (blk.at + blk.len .. blk.at + nb - 1)
    BY <1>1, <2>1, <2>2 DEF Space
  <2> QED BY <2>3 DEF new
<1>6. Vacant(B \ {blk}, Space(blk))
  BY DropBlock
<1>7. Vacant(B \ {blk}, Space(blk) \union (blk.at + blk.len .. blk.at + nb - 1))
  BY <1>4, <1>6 DEF Vacant
<1> QED BY <1>2, <1>3, <1>5, <1>7

LEMMA LocateFacts ==
  ASSUME NEW st, BlocksOk(st.blocks)
  PROVE  /\ \A blk \in st.blocks : Locate(st, blk.at) = blk
         /\ \A p : (\A blk \in st.blocks : blk.at # p) => Locate(st, p) = NoBlock
<1>1. ASSUME NEW a \in st.blocks, NEW b \in st.blocks, a.at = b.at PROVE a = b
  <2>1. /\ a.at \in Body(a) /\ Body(a) \subseteq Space(a)
        /\ b.at \in Body(b) /\ Body(b) \subseteq Space(b)
    BY BlockFacts DEF BlocksOk
  <2> QED BY <1>1, <2>1 DEF BlocksOk
<1>2. ASSUME NEW blk \in st.blocks PROVE Locate(st, blk.at) = blk
  <2>1. \A b \in st.blocks : b.at = blk.at => b = blk
    BY <1>1
  <2>2. (CHOOSE b \in st.blocks : b.at = blk.at) = blk
    BY <2>1
  <2> QED BY <2>2 DEF Locate
<1> QED BY <1>2 DEF Locate

-----------------------------------------------------------------------------
(* What the calls do to memory, blocks and counters. *)
SameOutside(st, t, cells) == \A c \in Addresses \ cells : t.mem[c] = st.mem[c]

LEMMA WrittenFacts ==
  ASSUME NEW mem \in [Addresses -> Values], NEW cells, NEW v \in Values
  PROVE  /\ Written(mem, cells, v) \in [Addresses -> Values]
         /\ \A c \in Addresses : Written(mem, cells, v)[c] = IF c \in cells THEN v ELSE mem[c]
BY DEF Written

LEMMA MarksAreValues == Junk \in Values /\ Redzone \in Values /\ Zero \in Values
BY DEF Values

(* The cells of the redzone of a block. *)
LEMMA RedzoneCells ==
  ASSUME NEW blk \in BlockType, BlockOk(blk)
  PROVE  /\ blk.len - Rz \in Nat \ {0}
         /\ blk.at + (blk.len - Rz) .. blk.at + (blk.len - Rz) + Rz - 1 \subseteq Body(blk)
         /\ blk.at .. blk.at + (blk.len - Rz) - 1 \subseteq Body(blk)
BY MallocAssumption DEF BlockType, BlockOk, Body, Addresses

LEMMA WriteRedzoneFacts ==
  ASSUME NEW mem \in [Addresses -> Values], NEW blk \in BlockType, BlockOk(blk)
  PROVE  LET new == WriteRedzone(mem, blk.at, blk.len - Rz)
         IN  /\ new \in [Addresses -> Values]
             /\ VerifyRedzone(new, blk.at, blk.len - Rz)
             /\ \A c \in Addresses \ Space(blk) : new[c] = mem[c]
             /\ \A c \in blk.at .. blk.at + (blk.len - Rz) - 1 : new[c] = mem[c]
<1> DEFINE cells == blk.at + (blk.len - Rz) .. blk.at + (blk.len - Rz) + Rz - 1
           user  == blk.at .. blk.at + (blk.len - Rz) - 1
           new   == Written(mem, cells, Redzone)
<1>1. cells \subseteq Body(blk) /\ user \subseteq Body(blk)
  BY RedzoneCells
<1>2. Body(blk) \subseteq Addresses /\ Body(blk) \subseteq Space(blk)
  BY BlockFacts
<1>3. cells \cap user = {}
  BY MallocAssumption DEF BlockType, Addresses
<1>4. WriteRedzone(mem, blk.at, blk.len - Rz) = new
  BY DEF WriteRedzone
<1>5. \A c \in cells : c \in Addresses
  BY <1>1, <1>2
<1>6. VerifyRedzone(new, blk.at, blk.len - Rz) <=> \A c \in cells : new[c] = Redzone
  BY DEF VerifyRedzone
<1> HIDE DEF cells
<1>7. new \in [Addresses -> Values] /\ \A c \in Addresses : new[c] = IF c \in cells THEN Redzone ELSE mem[c]
  BY WrittenFacts, MarksAreValues
<1>8. \A c \in user : c \in Addresses
  BY <1>1, <1>2
<1> HIDE DEF user, new
<1>9. /\ new \in [Addresses -> Values]
      /\ VerifyRedzone(new, blk.at, blk.len - Rz)
      /\ \A c \in Addresses \ Space(blk) : new[c] = mem[c]
      /\ \A c \in user : new[c] = mem[c]
  BY <1>1, <1>2, <1>3, <1>5, <1>6, <1>7, <1>8
<1> QED BY <1>4, <1>9 DEF user

LEMMA StatsFacts ==
  ASSUME NEW stats \in StatsType, NEW n \in Nat
  PROVE  /\ Granted(stats, n) = [usage |-> stats.usage + n, balance |-> stats.balance + n, pairs |-> stats.pairs]
         /\ n <= stats.usage =>
              Freed(stats, n) = [usage |-> stats.usage - n, balance |-> stats.balance - n, pairs |-> stats.pairs]
<1>1. PICK u \in Nat, b \in Int, p \in Int : stats = [usage |-> u, balance |-> b, pairs |-> p]
  BY DEF StatsType
<1>2. stats.usage = u /\ stats.balance = b /\ stats.pairs = p
  BY <1>1
<1>3. ASSUME NEW x \in Int, NEW y \in Int
      PROVE  [stats EXCEPT !.usage = x, !.balance = y] = [usage |-> x, balance |-> y, pairs |-> p]
  <2> DEFINE m == [stats EXCEPT !.usage = x]
  <2>1. m = [usage |-> x, balance |-> b, pairs |-> p]
    BY <1>1
  <2> HIDE DEF m
  <2>2. [m EXCEPT !.balance = y] = [usage |-> x, balance |-> y, pairs |-> p]
    BY <2>1
  <2> QED BY <2>2, Zenon DEF m
<1>4. Granted(stats, n) = [usage |-> u + n, balance |-> b + n, pairs |-> p]
  <2>1. Granted(stats, n) = [stats EXCEPT !.usage = u + n, !.balance = b + n]
    BY <1>2 DEF Granted
  <2>2. u + n \in Int /\ b + n \in Int
    OBVIOUS
  <2> QED BY <1>3, <2>1, <2>2
<1>5. ASSUME n <= u
      PROVE  Freed(stats, n) = [usage |-> u - n, balance |-> b - n, pairs |-> p]
  <2>1. (IF n > stats.usage THEN 0 ELSE stats.usage - n) = u - n
    BY <1>2, <1>5
  <2>2. Freed(stats, n) = [stats EXCEPT !.usage = u - n, !.balance = b - n]
    BY <1>2, <2>1, Zenon DEF Freed
  <2>3. u - n \in Int /\ b - n \in Int
    OBVIOUS
  <2> QED BY <1>3, <2>2, <2>3
<1> QED BY <1>2, <1>4, <1>5

(* A state is given by its parts. *)
LEMMA StateFacts ==
  ASSUME NEW d \in DroppedType,
         NEW st, st = [mem |-> st.mem, blocks |-> st.blocks, stats |-> st.stats],
         st.mem \in [Addresses -> Values], BlocksOk(st.blocks),
         st.stats.usage = Cardinality(Occupied(st.blocks)) + d.cells,
         st.stats.balance = Cardinality(Occupied(st.blocks)) + d.cells,
         st.stats.pairs = Cardinality(st.blocks) + d.blocks,
         st.stats = [usage |-> st.stats.usage, balance |-> st.stats.balance, pairs |-> st.stats.pairs],
         Cardinality(Occupied(st.blocks)) \in Nat
  PROVE  StateOk(d, st)
<1>1. Cardinality(st.blocks) \in Int /\ d.cells \in Nat /\ d.blocks \in Nat
  BY FS_CardinalityType DEF BlocksOk, DroppedType
<1>2. st.stats \in StatsType
  BY <1>1 DEF StatsType
<1>3. st.blocks \in SUBSET BlockType
  BY DEF BlocksOk
<1>4. st \in StateType
  BY <1>2, <1>3 DEF StateType
<1> QED BY <1>4 DEF StateOk, Counted

LEMMA FinishFacts ==
  ASSUME NEW d, NEW st, StateOk(d, st), NEW blk \in BlockType, BlockOk(blk), Vacant(st.blocks, Space(blk))
  PROVE  LET t == Finish(st, blk)
         IN  /\ StateOk(d, t) /\ t.blocks = st.blocks \union {blk}
             /\ SameOutside(st, t, Space(blk))
             /\ VerifyRedzone(t.mem, blk.at, blk.len - Rz)
<1> DEFINE t == Finish(st, blk)
           mem == WriteRedzone(st.mem, blk.at, blk.len - Rz)
           B == st.blocks \union {blk}
<1>1. st.mem \in [Addresses -> Values] /\ st.stats \in StatsType
  BY DEF StateOk, StateType
<1>2. /\ mem \in [Addresses -> Values] /\ VerifyRedzone(mem, blk.at, blk.len - Rz)
      /\ \A c \in Addresses \ Space(blk) : mem[c] = st.mem[c]
  BY <1>1, WriteRedzoneFacts
<1>3. /\ BlocksOk(B) /\ Cardinality(B) = Cardinality(st.blocks) + 1
      /\ Cardinality(Occupied(B)) = Cardinality(Occupied(st.blocks)) + blk.len
      /\ Cardinality(Occupied(st.blocks)) \in Nat /\ Cardinality(st.blocks) \in Nat
  BY AddBlock DEF StateOk
<1>4. blk.len \in Nat
  BY DEF BlockType
<1>5. t.stats = [usage |-> st.stats.usage + blk.len, balance |-> st.stats.balance + blk.len,
                 pairs |-> st.stats.pairs + 1]
  <2> DEFINE base == [st.stats EXCEPT !.pairs = @ + 1]
  <2>1. t.stats = Granted(base, blk.len)
    BY DEF Finish
  <2>2. /\ base \in StatsType /\ base.usage = st.stats.usage /\ base.balance = st.stats.balance
        /\ base.pairs = st.stats.pairs + 1
    BY <1>1 DEF StatsType
  <2> HIDE DEF t, base
  <2>3. Granted(base, blk.len)
          = [usage |-> base.usage + blk.len, balance |-> base.balance + blk.len, pairs |-> base.pairs]
    BY <1>4, <2>2, StatsFacts
  <2> QED BY <2>1, <2>2, <2>3
<1>6. t.mem = mem /\ t.blocks = B /\ t = [mem |-> mem, blocks |-> B, stats |-> t.stats]
  BY DEF Finish
<1>7. /\ st.stats.usage = Cardinality(Occupied(st.blocks)) + d.cells /\ st.stats.balance = st.stats.usage
      /\ st.stats.pairs = Cardinality(st.blocks) + d.blocks
      /\ d \in DroppedType /\ d.cells \in Nat /\ d.blocks \in Nat
  BY DEF StateOk, Counted, DroppedType
<1> HIDE DEF t, mem, B
<1>8. /\ t.stats.usage = Cardinality(Occupied(B)) + d.cells
      /\ t.stats.balance = Cardinality(Occupied(B)) + d.cells
      /\ t.stats.pairs = Cardinality(B) + d.blocks /\ Cardinality(Occupied(B)) \in Nat
      /\ t.stats = [usage |-> t.stats.usage, balance |-> t.stats.balance, pairs |-> t.stats.pairs]
  BY <1>3, <1>4, <1>5, <1>7
<1>9. StateOk(d, t)
  <2>1. t = [mem |-> t.mem, blocks |-> t.blocks, stats |-> t.stats]
    BY <1>6
  <2> QED BY <1>2, <1>3, <1>6, <1>7, <1>8, <2>1, StateFacts
<1>10. SameOutside(st, t, Space(blk))
  BY <1>2, <1>6 DEF SameOutside
<1>11. VerifyRedzone(t.mem, blk.at, blk.len - Rz)
  BY <1>2, <1>6
<1> QED BY <1>6, <1>9, <1>10, <1>11 DEF t, B

LEMMA ReleaseFacts ==
  ASSUME NEW d, NEW st, StateOk(d, st), NEW blk \in st.blocks
  PROVE  LET t == Release(st, blk)
         IN  StateOk(d, t) /\ t.blocks = st.blocks \ {blk} /\ SameOutside(st, t, Space(blk))
<1> DEFINE t == Release(st, blk)
           mem == Written(st.mem, Space(blk), Junk)
           B == st.blocks \ {blk}
<1>1. st.mem \in [Addresses -> Values] /\ st.stats \in StatsType
  BY DEF StateOk, StateType
<1>2. /\ mem \in [Addresses -> Values]
      /\ \A c \in Addresses \ Space(blk) : mem[c] = st.mem[c]
  BY <1>1, WrittenFacts, MarksAreValues
<1>3. /\ BlocksOk(B) /\ Cardinality(st.blocks) = Cardinality(B) + 1
      /\ Cardinality(Occupied(st.blocks)) = Cardinality(Occupied(B)) + blk.len
      /\ Cardinality(Occupied(B)) \in Nat /\ Cardinality(B) \in Nat
  BY DropBlock DEF StateOk
<1>4. blk.len \in Nat
  BY DEF StateOk, StateType, BlockType
<1>5. /\ st.stats.usage = Cardinality(Occupied(st.blocks)) + d.cells /\ st.stats.balance = st.stats.usage
      /\ st.stats.pairs = Cardinality(st.blocks) + d.blocks
      /\ d \in DroppedType /\ d.cells \in Nat /\ d.blocks \in Nat
  BY DEF StateOk, Counted, DroppedType
<1>6. blk.len <= st.stats.usage
  BY <1>3, <1>4, <1>5
<1>7. t.stats = [usage |-> st.stats.usage - blk.len, balance |-> st.stats.balance - blk.len,
                 pairs |-> st.stats.pairs - 1]
  <2> DEFINE base == [st.stats EXCEPT !.pairs = @ - 1]
  <2>1. t.stats = Freed(base, blk.len)
    BY DEF Release
  <2>2. /\ base \in StatsType /\ base.usage = st.stats.usage /\ base.balance = st.stats.balance
        /\ base.pairs = st.stats.pairs - 1
    BY <1>1 DEF StatsType
  <2> HIDE DEF t, base
  <2>3. Freed(base, blk.len)
          = [usage |-> base.usage - blk.len, balance |-> base.balance - blk.len, pairs |-> base.pairs]
    BY <1>4, <1>6, <2>2, StatsFacts
  <2> QED BY <2>1, <2>2, <2>3
<1>8. t.mem = mem /\ t.blocks = B /\ t = [mem |-> mem, blocks |-> B, stats |-> t.stats]
  BY DEF Release
<1> HIDE DEF t, mem, B
<1>9. /\ t.stats.usage = Cardinality(Occupied(B)) + d.cells
      /\ t.stats.balance = Cardinality(Occupied(B)) + d.cells
      /\ t.stats.pairs = Cardinality(B) + d.blocks /\ Cardinality(Occupied(B)) \in Nat
      /\ t.stats = [usage |-> t.stats.usage, balance |-> t.stats.balance, pairs |-> t.stats.pairs]
  BY <1>3, <1>4, <1>5, <1>7
<1>10. StateOk(d, t)
  <2>1. t = [mem |-> t.mem, blocks |-> t.blocks, stats |-> t.stats]
    BY <1>8
  <2> QED BY <1>2, <1>3, <1>5, <1>8, <1>9, <2>1, StateFacts
<1>11. SameOutside(st, t, Space(blk))
  BY <1>2, <1>8 DEF SameOutside
<1> QED BY <1>8, <1>10, <1>11 DEF t, B

-----------------------------------------------------------------------------
(* What one holder's call means for the others. *)
HeldBy(h) == {blk \in s.blocks : blk.at = chunks[h].ptr}

LEMMA NullFacts == Null \notin Addresses /\ NoChunk \in ChunkType /\ NoChunk.ptr = Null
BY MallocAssumption DEF Null, Addresses, NoChunk, Chunk, ChunkType

(* A chunk is kept as long as its block and what the block holds are left alone. *)
LEMMA KeepsFrame ==
  ASSUME NEW st, BlocksOk(st.blocks), NEW t, NEW c, NEW h, Keeps(st, c, h),
         NEW blk \in st.blocks, blk.at = c.ptr, blk \in t.blocks,
         \A x \in Space(blk) : t.mem[x] = st.mem[x]
  PROVE  Keeps(t, c, h) /\ blk.len = c.len + Rz
<1>1. PICK b \in st.blocks : b.at = c.ptr /\ b.len = c.len + Rz
  BY DEF Keeps
<1>2. Locate(st, c.ptr) = b /\ Locate(st, c.ptr) = blk
  BY <1>1, LocateFacts
<1>3. blk.len = c.len + Rz
  BY <1>1, <1>2
<1>4. blk \in BlockType /\ BlockOk(blk) /\ Rz \in Nat
  BY MallocAssumption DEF BlocksOk
<1>5. Body(blk) \subseteq Space(blk)
  BY <1>4, BlockFacts
<1>6. c.ptr \in Nat /\ c.len \in Nat /\ c.kept \in Nat /\ c.kept <= c.len
  BY MallocAssumption DEF Keeps, ChunkType, Addresses
<1>7. /\ \A i \in 0 .. c.kept - 1 : c.ptr + i \in Body(blk)
      /\ c.ptr + c.len .. c.ptr + c.len + Rz - 1 \subseteq Body(blk)
      /\ Rz > 0 => c.ptr + c.len \in Body(blk)
  BY <1>3, <1>4, <1>6 DEF Body
<1>8. \A i \in 0 .. c.kept - 1 : t.mem[c.ptr + i] = DatumOf(c, h, i)
  BY <1>5, <1>7 DEF Keeps
<1>9. ~ c.hurt => VerifyRedzone(t.mem, c.ptr, c.len)
  BY <1>5, <1>7 DEF Keeps, VerifyRedzone
<1>10. c.hurt => Rz > 0 /\ t.mem[c.ptr + c.len] = Junk
  BY <1>5, <1>7 DEF Keeps
<1>11. \E b1 \in t.blocks : b1.at = c.ptr /\ b1.len = c.len + Rz
  BY <1>3
<1> QED BY <1>3, <1>8, <1>9, <1>10, <1>11 DEF Keeps

LEMMA HoldingFacts ==
  ASSUME Inv, NEW h \in Holders
  PROVE  /\ h \in Holding => chunks[h].ptr \in Addresses
         /\ h \notin Holding => chunks[h].ptr = Null /\ HeldBy(h) = {}
         /\ chunks[h] \in ChunkType
<1>1. \A blk \in s.blocks : blk.at \in Addresses
  BY DEF Inv, StateOk, StateType, BlockType
<1> QED BY <1>1, NullFacts DEF Inv, Holding, Keeps, HeldBy

(* The block of a holder. *)
LEMMA HeldFacts ==
  ASSUME Inv, NEW h \in Holding
  PROVE  \E blk \in s.blocks :
           /\ blk.at = chunks[h].ptr /\ blk.len = chunks[h].len + Rz
           /\ HeldBy(h) = {blk} /\ Locate(s, chunks[h].ptr) = blk
           /\ blk \in BlockType /\ BlockOk(blk)
<1>1. PICK blk \in s.blocks : blk.at = chunks[h].ptr /\ blk.len = chunks[h].len + Rz
  BY DEF Inv, Keeps
<1>2. BlocksOk(s.blocks)
  BY DEF Inv, StateOk
<1>3. \A b \in s.blocks : Locate(s, b.at) = b
  BY <1>2, LocateFacts
<1>4. HeldBy(h) = {blk}
  BY <1>1, <1>3 DEF HeldBy
<1>5. blk \in BlockType /\ BlockOk(blk)
  BY <1>2 DEF BlocksOk
<1> QED BY <1>1, <1>3, <1>4, <1>5

LEMMA Others ==
  ASSUME Inv, NEW h \in Holders, NEW t, StateOk(dropped, t), s.blocks \ HeldBy(h) \subseteq t.blocks,
         \A b \in s.blocks \ HeldBy(h) : \A x \in Space(b) : t.mem[x] = s.mem[x],
         NEW g \in Holding, g # h
  PROVE  Keeps(t, chunks[g], g) /\ \E b \in s.blocks \ HeldBy(h) : b.at = chunks[g].ptr
<1>1. PICK b \in s.blocks : b.at = chunks[g].ptr /\ b.len = chunks[g].len + Rz
  BY DEF Inv, Keeps
<1>2. b \notin HeldBy(h)
  <2>1. CASE h \in Holding
    BY <1>1, <2>1 DEF Inv, HeldBy
  <2>2. CASE h \notin Holding
    BY <2>2, HoldingFacts
  <2> QED BY <2>1, <2>2
<1>3. Keeps(s, chunks[g], g) /\ BlocksOk(s.blocks)
  BY DEF Inv, StateOk
<1>4. Keeps(t, chunks[g], g)
  BY <1>1, <1>2, <1>3, KeepsFrame
<1> QED BY <1>1, <1>2, <1>4

(* One holder gives up its block. *)
LEMMA Drop ==
  ASSUME Inv, NEW h \in Holders, chunks' = [chunks EXCEPT ![h] = NoChunk],
         dropped' = dropped, StateOk(dropped, s'), s'.blocks = s.blocks \ HeldBy(h),
         \A b \in s.blocks \ HeldBy(h) : \A x \in Space(b) : s'.mem[x] = s.mem[x]
  PROVE  Inv'
<1>1. /\ chunks \in [Holders -> ChunkType] /\ chunks' \in [Holders -> ChunkType]
      /\ chunks'[h] = NoChunk /\ \A g \in Holders \ {h} : chunks'[g] = chunks[g]
  BY NullFacts DEF Inv
<1>2. Holding' = Holding \ {h}
  BY <1>1 DEF Holding
<1>3. ASSUME NEW g \in Holding' PROVE Keeps(s', chunks'[g], g)
  BY <1>1, <1>2, Others DEF Holding
<1>4. \A f, g \in Holding' : chunks'[f].ptr = chunks'[g].ptr => f = g
  BY <1>1, <1>2 DEF Inv, Holding
<1>5. ASSUME NEW blk \in s'.blocks PROVE \E g \in Holding' : chunks'[g].ptr = blk.at
  <2>1. PICK g \in Holding : chunks[g].ptr = blk.at
    BY DEF Inv
  <2>2. g # h
    BY <2>1 DEF HeldBy
  <2> QED BY <1>1, <1>2, <2>1, <2>2 DEF Holding
<1> QED BY <1>1, <1>3, <1>4, <1>5 DEF Inv

(* One holder has a block of its own afterwards. *)
LEMMA Exchange ==
  ASSUME Inv, NEW h \in Holders, NEW c, chunks' = [chunks EXCEPT ![h] = c],
         dropped' = dropped, StateOk(dropped, s'), Keeps(s', c, h),
         NEW blk, blk.at = c.ptr, blk \notin s.blocks \ HeldBy(h),
         s'.blocks = (s.blocks \ HeldBy(h)) \union {blk},
         \A b \in s.blocks \ HeldBy(h) : \A x \in Space(b) : s'.mem[x] = s.mem[x]
  PROVE  Inv'
<1>0. c \in ChunkType /\ c # NoChunk
  BY NullFacts DEF Keeps
<1>1. /\ chunks \in [Holders -> ChunkType] /\ chunks' \in [Holders -> ChunkType]
      /\ chunks'[h] = c /\ \A g \in Holders \ {h} : chunks'[g] = chunks[g]
  BY <1>0 DEF Inv
<1>2. Holding' = Holding \union {h}
  BY <1>0, <1>1 DEF Holding
<1>3. ASSUME NEW g \in Holding, g # h
      PROVE  Keeps(s', chunks[g], g) /\ chunks[g].ptr # c.ptr
  <2>1. Keeps(s', chunks[g], g) /\ \E b \in s.blocks \ HeldBy(h) : b.at = chunks[g].ptr
    BY <1>3, Others
  <2>2. PICK b \in s.blocks \ HeldBy(h) : b.at = chunks[g].ptr
    BY <2>1
  <2>3. b # blk /\ b \in s'.blocks /\ blk \in s'.blocks
    OBVIOUS
  <2>4. BlocksOk(s'.blocks)
    BY DEF StateOk
  <2>5. b.at # blk.at
    BY <2>3, <2>4, LocateFacts
  <2> QED BY <2>1, <2>2, <2>5
<1>4. ASSUME NEW g \in Holding' PROVE Keeps(s', chunks'[g], g)
  <2>1. CASE g = h
    BY <1>1, <2>1
  <2>2. CASE g # h
    BY <1>1, <1>2, <1>3, <2>2 DEF Holding
  <2> QED BY <2>1, <2>2
<1>5. ASSUME NEW f \in Holding', NEW g \in Holding', chunks'[f].ptr = chunks'[g].ptr PROVE f = g
  <2>1. CASE f = h \/ g = h
    BY <1>1, <1>2, <1>3, <1>5, <2>1 DEF Holding
  <2>2. CASE f # h /\ g # h
    BY <1>1, <1>2, <1>5, <2>2 DEF Inv, Holding
  <2> QED BY <2>1, <2>2
<1>6. ASSUME NEW b \in s'.blocks PROVE \E g \in Holding' : chunks'[g].ptr = b.at
  <2>1. CASE b = blk
    BY <1>1, <1>2, <2>1
  <2>2. CASE b \in s.blocks \ HeldBy(h)
    <3>1. PICK g \in Holding : chunks[g].ptr = b.at
      BY <2>2 DEF Inv
    <3>2. g # h
      BY <2>2, <3>1 DEF HeldBy
    <3> QED BY <1>1, <1>2, <3>1, <3>2 DEF Holding
  <2> QED BY <2>1, <2>2
<1> QED BY <1>1, <1>4, <1>5, <1>6 DEF Inv

-----------------------------------------------------------------------------
(* The outcomes of a call that ends with a chunk for its caller, who gave up the
   blocks in gone: one block more, the others and what they hold as before, a
   fresh redzone behind the chunk. *)
Serves(d, st, gone, o) ==
  /\ StateOk(d, o.s) /\ o.ptr \in Addresses /\ o.len \in Nat
  /\ \E blk : /\ blk.at = o.ptr /\ blk.len = o.len + Rz /\ blk \notin st.blocks \ gone
             /\ o.s.blocks = (st.blocks \ gone) \union {blk}
  /\ \A b \in st.blocks \ gone : \A x \in Space(b) : o.s.mem[x] = st.mem[x]
  /\ VerifyRedzone(o.s.mem, o.ptr, o.len)

LEMMA OutcomeFields ==
  ASSUME NEW st, NEW ptr, NEW len
  PROVE  Outcome(st, ptr, len).s = st /\ Outcome(st, ptr, len).ptr = ptr /\ Outcome(st, ptr, len).len = len
BY DEF Outcome

LEMMA BallocFacts ==
  ASSUME NEW d, NEW st, StateOk(d, st), NEW size \in Nat, NEW al \in Nat, NEW o \in Balloc(st, size, al)
  PROVE  \/ o = Refused(st)
         \/ /\ IsPow2(al) /\ size # 0 /\ size # Huge
            /\ \E blk \in BlockType :
                 /\ BlockOk(blk) /\ Vacant(st.blocks, Space(blk))
                 /\ blk.at % al = 0 /\ blk.len >= size + Rz
                 /\ o = Outcome(Finish(st, blk), blk.at, blk.len - Rz)
<1>1. SUFFICES ASSUME o # Refused(st)
      PROVE  /\ IsPow2(al) /\ size # 0 /\ size # Huge
             /\ \E blk \in BlockType :
                  /\ BlockOk(blk) /\ Vacant(st.blocks, Space(blk))
                  /\ blk.at % al = 0 /\ blk.len >= size + Rz
                  /\ o = Outcome(Finish(st, blk), blk.at, blk.len - Rz)
  OBVIOUS
<1>2. IsPow2(al) /\ size # 0 /\ size # Huge
  BY <1>1 DEF Balloc
<1>3. PICK blk \in HeapAlloc(st.blocks, size + Rz, al) : o = Outcome(Finish(st, blk), blk.at, blk.len - Rz)
  BY <1>1, <1>2 DEF Balloc
<1>4. size + Rz \in Nat /\ size + Rz > Rz
  BY <1>2, MallocAssumption
<1>5. /\ blk \in BlockType /\ BlockOk(blk) /\ Vacant(st.blocks, Space(blk))
      /\ blk.len >= size + Rz /\ blk.at % al = 0
  BY <1>2, <1>4, HeapAllocFacts
<1> QED BY <1>2, <1>3, <1>5

LEMMA BallocServes ==
  ASSUME NEW d, NEW st, StateOk(d, st), NEW blk \in BlockType, BlockOk(blk), Vacant(st.blocks, Space(blk)),
         NEW o, o = Outcome(Finish(st, blk), blk.at, blk.len - Rz)
  PROVE  Serves(d, st, {}, o) /\ o.ptr # Null /\ o.s.mem \in [Addresses -> Values]
<1>1. o.s = Finish(st, blk) /\ o.ptr = blk.at /\ o.len = blk.len - Rz
  BY OutcomeFields
<1>2. /\ StateOk(d, o.s) /\ o.s.blocks = st.blocks \union {blk}
      /\ SameOutside(st, o.s, Space(blk)) /\ VerifyRedzone(o.s.mem, o.ptr, o.len)
  BY <1>1, FinishFacts
<1>3. blk.at \in Addresses /\ blk.len \in Nat /\ Rz \in Nat /\ blk.len - Rz \in Nat
  BY RedzoneCells, MallocAssumption DEF BlockType
<1>4. o.len \in Nat /\ blk.len = o.len + Rz
  BY <1>1, <1>3
<1>5. blk \notin st.blocks
  BY AddBlock DEF StateOk
<1>6. ASSUME NEW b \in st.blocks, NEW x \in Space(b) PROVE o.s.mem[x] = st.mem[x]
  <2>1. Space(b) \cap Space(blk) = {} /\ Space(b) \subseteq Addresses
    BY DEF Vacant, StateOk, BlocksOk, BlockOk
  <2> QED BY <1>2, <2>1 DEF SameOutside
<1>7. st.blocks \ {} = st.blocks
  OBVIOUS
<1>8. \E b : /\ b.at = o.ptr /\ b.len = o.len + Rz /\ b \notin st.blocks \ {}
             /\ o.s.blocks = (st.blocks \ {}) \union {b}
  BY <1>1, <1>2, <1>4, <1>5, <1>7
<1>9. o.ptr \in Addresses /\ o.ptr # Null /\ o.s.mem \in [Addresses -> Values]
  BY <1>1, <1>2, <1>3, NullFacts DEF StateOk, StateType
<1> QED BY <1>2, <1>4, <1>6, <1>7, <1>8, <1>9 DEF Serves

(* A holder that has been served keeps what it relies on. *)
LEMMA Received ==
  ASSUME Inv, NEW h \in Holders, NEW o, Serves(dropped, s, HeldBy(h), o),
         NEW al \in Nat \ {0}, NEW kept \in Nat, NEW zeroed \in BOOLEAN,
         o.ptr % al = 0, kept <= o.len,
         \A i \in 0 .. kept - 1 : o.s.mem[o.ptr + i] = IF zeroed THEN Zero ELSE Own(h, i),
         s' = o.s, chunks' = [chunks EXCEPT ![h] = Chunk(o.ptr, o.len, al, kept, zeroed)],
         dropped' = dropped
  PROVE  Inv'
<1> DEFINE c == Chunk(o.ptr, o.len, al, kept, zeroed)
<1>1. /\ c.ptr = o.ptr /\ c.len = o.len /\ c.al = al /\ c.kept = kept /\ c.zeroed = zeroed
      /\ c.hurt = FALSE
  BY DEF Chunk
<1>2. c \in ChunkType
  BY DEF Chunk, ChunkType, Serves
<1> HIDE DEF c
<1>3. PICK blk : /\ blk.at = o.ptr /\ blk.len = o.len + Rz /\ blk \notin s.blocks \ HeldBy(h)
                 /\ o.s.blocks = (s.blocks \ HeldBy(h)) \union {blk}
  BY DEF Serves
<1>4. Keeps(s', c, h)
  BY <1>1, <1>2, <1>3 DEF Serves, Keeps, DatumOf
<1>5. StateOk(dropped, s') /\ blk.at = c.ptr /\ s'.blocks = (s.blocks \ HeldBy(h)) \union {blk}
  BY <1>1, <1>3 DEF Serves
<1>6. \A b \in s.blocks \ HeldBy(h) : \A x \in Space(b) : s'.mem[x] = s.mem[x]
  BY DEF Serves
<1> QED BY <1>3, <1>4, <1>5, <1>6, Exchange DEF c

-----------------------------------------------------------------------------
LEMMA AllocatePreserves ==
  ASSUME Inv, NEW h \in Holders, NEW size \in Sizes, NEW al \in Alignments, Allocate(h, size, al)
  PROVE  Inv'
<1>1. size \in Nat /\ al \in Nat /\ StateOk(dropped, s) /\ h \notin Holding /\ HeldBy(h) = {}
  BY CallersAssumption, HoldingFacts DEF Allocate, Inv
<1>2. PICK o \in Balloc(s, size, al) : Receive(h, o, al, 0, FALSE)
  BY DEF Allocate
<1>3. CASE o = Refused(s)
  <2>1. s' = s /\ chunks' = chunks /\ dropped' = dropped
    BY <1>2, <1>3 DEF Receive, Refused, Outcome
  <2> QED BY <2>1 DEF Inv, Holding
<1>4. CASE o # Refused(s)
  <2>1. PICK blk \in BlockType :
          /\ BlockOk(blk) /\ Vacant(s.blocks, Space(blk)) /\ IsPow2(al)
          /\ blk.at % al = 0 /\ o = Outcome(Finish(s, blk), blk.at, blk.len - Rz)
    BY <1>1, <1>4, BallocFacts
  <2>2. Serves(dropped, s, HeldBy(h), o) /\ o.ptr # Null /\ o.ptr = blk.at
    BY <1>1, <2>1, BallocServes, OutcomeFields
  <2>3. /\ s' = o.s /\ chunks' = [chunks EXCEPT ![h] = Chunk(o.ptr, o.len, al, 0, FALSE)]
        /\ dropped' = dropped
    BY <1>2, <2>2 DEF Receive
  <2>4. al \in Nat \ {0} /\ 0 \in Nat /\ FALSE \in BOOLEAN /\ 0 <= o.len /\ 0 .. 0 - 1 = {}
    BY <1>1, <2>1, <2>2, AlignmentType DEF Serves
  <2> QED BY <2>1, <2>2, <2>3, <2>4, Received
<1> QED BY <1>3, <1>4

LEMMA AllocateZeroedPreserves ==
  ASSUME Inv, NEW h \in Holders, NEW size \in Sizes, AllocateZeroed(h, size)
  PROVE  Inv'
<1>1. size \in Nat /\ StateOk(dropped, s) /\ h \notin Holding /\ HeldBy(h) = {}
  BY CallersAssumption, HoldingFacts DEF AllocateZeroed, Inv
<1>2. PICK z \in Zalloc(s, size) : Receive(h, z, 1, z.len, TRUE)
  BY DEF AllocateZeroed
<1>3. PICK o \in Balloc(s, size, 1) :
        z = IF o.ptr = Null THEN o
            ELSE [o EXCEPT !.s.mem = Written(@, o.ptr .. o.ptr + o.len - 1, Zero)]
  BY <1>2 DEF Zalloc
<1>4. CASE o = Refused(s)
  <2>1. z = o /\ o.ptr = Null /\ o.s = s
    BY <1>3, <1>4 DEF Refused, Outcome
  <2>2. s' = s /\ chunks' = chunks /\ dropped' = dropped
    BY <1>2, <2>1 DEF Receive
  <2> QED BY <2>2 DEF Inv, Holding
<1>5. CASE o # Refused(s)
  <2>1. PICK blk \in BlockType :
          /\ BlockOk(blk) /\ Vacant(s.blocks, Space(blk))
          /\ o = Outcome(Finish(s, blk), blk.at, blk.len - Rz)
    BY <1>1, <1>5, BallocFacts
  <2>2. Serves(dropped, s, {}, o) /\ o.ptr # Null /\ o.s.mem \in [Addresses -> Values]
    BY <1>1, <2>1, BallocServes
  <2>3. /\ o.s = Finish(s, blk) /\ o.ptr = blk.at /\ o.len = blk.len - Rz
        /\ o.s.blocks = s.blocks \union {blk}
    BY <1>1, <2>1, OutcomeFields, FinishFacts
  <2> DEFINE user == o.ptr .. o.ptr + o.len - 1
             mem  == Written(o.s.mem, user, Zero)
  <2>4. mem \in [Addresses -> Values] /\ \A c \in Addresses : mem[c] = IF c \in user THEN Zero ELSE o.s.mem[c]
    <3> DEFINE old == o.s.mem
    <3>1. old \in [Addresses -> Values] /\ Zero \in Values
      BY <2>2, MarksAreValues
    <3> HIDE DEF old, user
    <3>2. Written(old, user, Zero) \in [Addresses -> Values]
      BY <3>1, WrittenFacts
    <3>3. \A c \in Addresses : Written(old, user, Zero)[c] = IF c \in user THEN Zero ELSE old[c]
      BY <3>1, WrittenFacts
    <3> QED BY <3>2, <3>3 DEF old
  <2>5. /\ z.ptr = o.ptr /\ z.len = o.len /\ z.s.mem = mem
        /\ z.s.blocks = o.s.blocks /\ z.s.stats = o.s.stats
        /\ z.s = [o.s EXCEPT !.mem = mem]
    <3>1. z = [o EXCEPT !.s.mem = mem]
      BY <1>3, <2>2
    <3>2. o.s \in StateType
      BY <2>2 DEF Serves, StateOk
    <3>3. o = [s |-> o.s, ptr |-> o.ptr, len |-> o.len]
      BY <2>1 DEF Outcome
    <3> HIDE DEF mem
    <3> QED BY <3>1, <3>2, <3>3 DEF StateType
  <2>6. StateOk(dropped, z.s)
    <3>1. StateOk(dropped, o.s)
      BY <2>2 DEF Serves
    <3>2. z.s \in StateType
      BY <2>4, <2>5, <3>1 DEF StateOk, StateType
    <3> QED BY <2>5, <3>1, <3>2 DEF StateOk, Counted
  <2>7. user \subseteq Body(blk) /\ Body(blk) \subseteq Space(blk) /\ user \subseteq Addresses
    BY <2>1, <2>3, RedzoneCells, BlockFacts
  <2>8. ASSUME NEW b \in s.blocks, NEW x \in Space(b) PROVE z.s.mem[x] = s.mem[x]
    <3>1. x \notin user /\ x \in Addresses
      BY <1>1, <2>1, <2>7 DEF Vacant, StateOk, BlocksOk, BlockOk
    <3> QED BY <2>2, <2>4, <2>5, <3>1 DEF Serves
  <2>9. VerifyRedzone(z.s.mem, z.ptr, z.len)
    <3>1. o.ptr \in Nat /\ o.len \in Nat /\ Rz \in Nat
      BY <2>2, MallocAssumption DEF Serves, Addresses
    <3>2. ASSUME NEW x \in o.ptr + o.len .. o.ptr + o.len + Rz - 1 PROVE mem[x] = Redzone
      <4>1. x \notin user
        BY <3>1
      <4>2. x \in Addresses
        BY <2>1, <2>3, RedzoneCells, BlockFacts
      <4>3. o.s.mem[x] = Redzone
        BY <2>2 DEF Serves, VerifyRedzone
      <4> QED BY <2>4, <4>1, <4>2, <4>3
    <3> QED BY <2>5, <3>2 DEF VerifyRedzone
  <2>10. Serves(dropped, s, HeldBy(h), z)
    BY <1>1, <2>2, <2>5, <2>6, <2>8, <2>9 DEF Serves
  <2>11. /\ s' = z.s /\ chunks' = [chunks EXCEPT ![h] = Chunk(z.ptr, z.len, 1, z.len, TRUE)]
         /\ dropped' = dropped
    BY <1>2, <2>2, <2>5 DEF Receive
  <2>12. /\ 1 \in Nat \ {0} /\ z.len \in Nat /\ TRUE \in BOOLEAN /\ z.len <= z.len
         /\ z.ptr % 1 = 0 /\ z.ptr \in Nat
    BY <2>2, <2>5, MallocAssumption DEF Serves, Addresses
  <2>13. \A i \in 0 .. z.len - 1 : z.s.mem[z.ptr + i] = Zero
    <3>1. ASSUME NEW i \in 0 .. z.len - 1 PROVE z.ptr + i \in user
      BY <2>5, <2>12
    <3> QED BY <2>4, <2>5, <2>7, <3>1
  <2> QED BY <2>10, <2>11, <2>12, <2>13, Received
<1> QED BY <1>4, <1>5

(* Writing to memory alone. *)
LEMMA MemoryChange ==
  ASSUME NEW d, NEW st, StateOk(d, st), NEW mem \in [Addresses -> Values]
  PROVE  LET t == [st EXCEPT !.mem = mem]
         IN  StateOk(d, t) /\ t.mem = mem /\ t.blocks = st.blocks
<1> DEFINE t == [st EXCEPT !.mem = mem]
<1>1. t.mem = mem /\ t.blocks = st.blocks /\ t.stats = st.stats /\ t \in StateType
  BY DEF StateOk, StateType
<1> HIDE DEF t
<1>2. StateOk(d, t)
  BY <1>1 DEF StateOk, Counted
<1> QED BY <1>1, <1>2 DEF t

LEMMA FillPreserves ==
  ASSUME Inv, NEW h \in Holders, Fill(h)
  PROVE  Inv'
<1> DEFINE user == chunks[h].ptr .. chunks[h].ptr + chunks[h].len - 1
           mem  == [c \in Addresses |-> IF c \in user THEN Own(h, c - chunks[h].ptr) ELSE s.mem[c]]
           c    == [chunks[h] EXCEPT !.kept = chunks[h].len, !.zeroed = FALSE]
<1>1. h \in Holding /\ s' = [s EXCEPT !.mem = mem] /\ dropped' = dropped
  BY DEF Fill
<1>2. chunks[h] \in ChunkType /\ StateOk(dropped, s) /\ Keeps(s, chunks[h], h)
  BY <1>1 DEF Inv
<1>3. chunks' = [chunks EXCEPT ![h] = c]
  <2>1. chunks' = [chunks EXCEPT ![h] = [[chunks[h] EXCEPT !.kept = chunks[h].len] EXCEPT !.zeroed = FALSE]]
    BY <1>1 DEF Fill, Inv
  <2> QED BY <2>1, Zenon
<1>4. PICK blk \in s.blocks : /\ blk.at = chunks[h].ptr /\ blk.len = chunks[h].len + Rz
                              /\ HeldBy(h) = {blk} /\ blk \in BlockType /\ BlockOk(blk)
  BY <1>1, HeldFacts
<1>5. chunks[h].ptr \in Nat /\ chunks[h].len \in Nat /\ Rz \in Nat
  BY <1>4, MallocAssumption DEF BlockType, Addresses, ChunkType, Inv
<1>6. user \subseteq Body(blk) /\ Body(blk) \subseteq Space(blk) /\ user \subseteq Addresses
  <2>1. blk.len - Rz = chunks[h].len
    BY <1>4, <1>5
  <2> QED BY <1>4, <2>1, RedzoneCells, BlockFacts
<1>7. mem \in [Addresses -> Values]
  <2>1. ASSUME NEW a \in Addresses PROVE mem[a] \in Values
    <3>1. CASE a \in user
      <4>1. a - chunks[h].ptr \in Nat
        BY <1>5, <3>1
      <4> QED BY <3>1, <4>1 DEF Own, Values
    <3>2. CASE a \notin user
      BY <1>2, <3>2 DEF StateOk, StateType
    <3> QED BY <3>1, <3>2
  <2> QED BY <2>1
<1> HIDE DEF mem
<1>8. StateOk(dropped, s') /\ s'.mem = mem /\ s'.blocks = s.blocks
  BY <1>1, <1>2, <1>7, MemoryChange
<1>9. /\ c \in ChunkType /\ c.ptr = chunks[h].ptr /\ c.len = chunks[h].len /\ c.al = chunks[h].al
      /\ c.kept = c.len /\ c.zeroed = FALSE /\ c.hurt = chunks[h].hurt
  BY <1>2 DEF ChunkType
<1> HIDE DEF c
<1>10. ASSUME NEW b \in s.blocks \ HeldBy(h), NEW x \in Space(b) PROVE s'.mem[x] = s.mem[x]
  <2>1. x \notin user /\ x \in Addresses
    BY <1>2, <1>4, <1>6 DEF StateOk, BlocksOk, BlockOk
  <2> QED BY <1>8, <2>1 DEF mem
<1>11. Keeps(s', c, h)
  <2>1. ASSUME NEW i \in 0 .. c.kept - 1 PROVE s'.mem[c.ptr + i] = DatumOf(c, h, i)
    <3>1. PICK a \in user : a = c.ptr + i /\ a - chunks[h].ptr = i
      BY <1>5, <1>9
    <3> HIDE DEF user
    <3>2. mem[a] = Own(h, a - chunks[h].ptr)
      BY <1>6 DEF mem
    <3>3. s'.mem[c.ptr + i] = Own(h, i)
      BY <1>8, <3>1, <3>2
    <3> QED BY <1>9, <3>3 DEF DatumOf
  <2>2. ASSUME NEW x \in c.ptr + c.len .. c.ptr + c.len + Rz - 1 PROVE s'.mem[x] = s.mem[x]
    <3>1. x \notin user
      BY <1>5, <1>9
    <3>2. x \in Addresses
      <4>1. blk.len - Rz = c.len /\ blk.at = c.ptr
        BY <1>4, <1>5, <1>9
      <4> QED BY <1>4, <4>1, RedzoneCells, BlockFacts
    <3> QED BY <1>8, <3>1, <3>2 DEF mem
  <2>3. Rz > 0 => c.ptr + c.len \in c.ptr + c.len .. c.ptr + c.len + Rz - 1
    BY <1>5, <1>9
  <2>4. ~ c.hurt => VerifyRedzone(s'.mem, c.ptr, c.len)
    BY <1>2, <1>9, <2>2 DEF Keeps, VerifyRedzone
  <2>5. c.hurt => Rz > 0 /\ s'.mem[c.ptr + c.len] = Junk
    BY <1>2, <1>9, <2>2, <2>3 DEF Keeps
  <2>6. c.ptr \in Addresses /\ c.ptr % c.al = 0 /\ c.kept <= c.len
    BY <1>2, <1>5, <1>9 DEF Keeps
  <2>7. \E b \in s'.blocks : b.at = c.ptr /\ b.len = c.len + Rz
    BY <1>4, <1>8, <1>9
  <2> QED BY <1>9, <2>1, <2>4, <2>5, <2>6, <2>7 DEF Keeps
<1>12. /\ blk.at = c.ptr /\ blk \notin s.blocks \ HeldBy(h)
       /\ s'.blocks = (s.blocks \ HeldBy(h)) \union {blk}
  BY <1>4, <1>8, <1>9
<1> QED BY <1>1, <1>3, <1>8, <1>10, <1>11, <1>12, Exchange

LEMMA OverrunPreserves ==
  ASSUME Inv, NEW h \in Holders, Overrun(h)
  PROVE  Inv'
<1> DEFINE end == chunks[h].ptr + chunks[h].len
           mem == [s.mem EXCEPT ![end] = Junk]
           c   == [chunks[h] EXCEPT !.hurt = TRUE]
<1>1. h \in Holding /\ Rz > 0 /\ s' = [s EXCEPT !.mem = mem] /\ dropped' = dropped
  BY DEF Overrun
<1>2. chunks[h] \in ChunkType /\ StateOk(dropped, s) /\ Keeps(s, chunks[h], h)
  BY <1>1 DEF Inv
<1>3. chunks' = [chunks EXCEPT ![h] = c]
  BY <1>1 DEF Overrun, Inv
<1>4. PICK blk \in s.blocks : /\ blk.at = chunks[h].ptr /\ blk.len = chunks[h].len + Rz
                              /\ HeldBy(h) = {blk} /\ blk \in BlockType /\ BlockOk(blk)
  BY <1>1, HeldFacts
<1>5. chunks[h].ptr \in Nat /\ chunks[h].len \in Nat /\ Rz \in Nat /\ chunks[h].kept \in Nat
  BY <1>2, <1>4, MallocAssumption DEF BlockType, Addresses, ChunkType
<1>6. end \in Body(blk) /\ Body(blk) \subseteq Space(blk) /\ Body(blk) \subseteq Addresses
  <2>1. end \in Body(blk)
    BY <1>1, <1>4, <1>5 DEF Body
  <2> QED BY <1>4, <2>1, BlockFacts
<1>7. mem \in [Addresses -> Values] /\ mem[end] = Junk /\ \A a \in Addresses \ {end} : mem[a] = s.mem[a]
  BY <1>2, <1>6, MarksAreValues DEF StateOk, StateType
<1> HIDE DEF mem
<1>8. StateOk(dropped, s') /\ s'.mem = mem /\ s'.blocks = s.blocks
  BY <1>1, <1>2, <1>7, MemoryChange
<1>9. /\ c \in ChunkType /\ c.ptr = chunks[h].ptr /\ c.len = chunks[h].len /\ c.al = chunks[h].al
      /\ c.kept = chunks[h].kept /\ c.zeroed = chunks[h].zeroed /\ c.hurt = TRUE
  BY <1>2 DEF ChunkType
<1> HIDE DEF c
<1>10. ASSUME NEW b \in s.blocks \ HeldBy(h), NEW x \in Space(b) PROVE s'.mem[x] = s.mem[x]
  <2>1. x # end /\ x \in Addresses
    BY <1>2, <1>4, <1>6 DEF StateOk, BlocksOk, BlockOk
  <2> QED BY <1>7, <1>8, <2>1
<1>11. Keeps(s', c, h)
  <2>1. ASSUME NEW i \in 0 .. c.kept - 1 PROVE s'.mem[c.ptr + i] = DatumOf(c, h, i)
    <3>1. c.ptr + i # end /\ c.ptr + i \in Body(blk)
      BY <1>2, <1>4, <1>5, <1>9 DEF Keeps, Body
    <3>2. s'.mem[c.ptr + i] = s.mem[c.ptr + i]
      BY <1>6, <1>7, <1>8, <3>1
    <3> QED BY <1>2, <1>9, <3>2 DEF Keeps, DatumOf
  <2>2. s'.mem[c.ptr + c.len] = Junk
    BY <1>7, <1>8, <1>9
  <2>3. c.ptr \in Addresses /\ c.ptr % c.al = 0 /\ c.kept <= c.len
    BY <1>2, <1>9 DEF Keeps
  <2>4. \E b \in s'.blocks : b.at = c.ptr /\ b.len = c.len + Rz
    BY <1>4, <1>8, <1>9
  <2> QED BY <1>1, <1>9, <2>1, <2>2, <2>3, <2>4 DEF Keeps
<1>12. /\ blk.at = c.ptr /\ blk \notin s.blocks \ HeldBy(h)
       /\ s'.blocks = (s.blocks \ HeldBy(h)) \union {blk}
  BY <1>4, <1>8, <1>9
<1> QED BY <1>1, <1>3, <1>8, <1>10, <1>11, <1>12, Exchange

(* The chunk of a holder is released: the block is found again from its start. *)
LEMMA DeallocFacts ==
  ASSUME Inv, NEW h \in Holding
  PROVE  LET t == Dealloc(s, chunks[h].ptr)
         IN  /\ StateOk(dropped, t) /\ t.blocks = s.blocks \ HeldBy(h)
             /\ \A b \in s.blocks \ HeldBy(h) : \A x \in Space(b) : t.mem[x] = s.mem[x]
<1>1. PICK blk \in s.blocks :
        /\ blk.at = chunks[h].ptr /\ HeldBy(h) = {blk} /\ Locate(s, chunks[h].ptr) = blk
        /\ blk \in BlockType /\ BlockOk(blk)
  BY HeldFacts
<1>2. chunks[h].ptr # Null /\ blk.len # 0 /\ ~ (blk.len < Rz)
  <2>1. chunks[h].ptr \in Addresses
    BY <1>1 DEF BlockType
  <2> QED BY <1>1, <2>1, NullFacts, MallocAssumption DEF BlockType, BlockOk
<1>3. Dealloc(s, chunks[h].ptr) = Release(s, blk)
  BY <1>1, <1>2 DEF Dealloc
<1>4. StateOk(dropped, s)
  BY DEF Inv
<1> DEFINE t == Release(s, blk)
<1>5. StateOk(dropped, t) /\ t.blocks = s.blocks \ {blk} /\ SameOutside(s, t, Space(blk))
  BY <1>4, ReleaseFacts
<1> HIDE DEF t
<1>6. \A b \in s.blocks \ {blk} : \A x \in Space(b) : t.mem[x] = s.mem[x]
  BY <1>4, <1>5 DEF SameOutside, StateOk, BlocksOk, BlockOk
<1> QED BY <1>1, <1>3, <1>5, <1>6 DEF t

LEMMA FreePreserves ==
  ASSUME Inv, NEW h \in Holders, Free(h)
  PROVE  Inv'
<1>1. /\ h \in Holding /\ s' = Dealloc(s, chunks[h].ptr) /\ chunks' = [chunks EXCEPT ![h] = NoChunk]
      /\ dropped' = dropped
  BY DEF Free
<1> QED BY <1>1, DeallocFacts, Drop

LEMMA BadFreePreserves ==
  ASSUME Inv, NEW p \in Addresses, BadFree(p)
  PROVE  Inv'
<1>1. \A blk \in s.blocks : blk.at # p
  BY DEF Inv, BadFree
<1>2. Locate(s, p) = NoBlock
  BY <1>1, LocateFacts DEF Inv, StateOk
<1>3. s' = s /\ chunks' = chunks /\ dropped' = dropped
  BY <1>2 DEF BadFree, Dealloc, NoBlock, Block
<1> QED BY <1>3 DEF Inv, Holding

(* No block is live: the counters count those that resets have dropped. *)
LEMMA NothingHeld ==
  ASSUME NEW d \in DroppedType, NEW st, NEW stats,
         st = [mem |-> [c \in Addresses |-> Junk], blocks |-> {}, stats |-> stats],
         stats = [usage |-> d.cells, balance |-> d.cells, pairs |-> d.blocks]
  PROVE  StateOk(d, st) /\ st.blocks = {}
<1>1. st.blocks = {} /\ st \in StateType
  BY MarksAreValues DEF StateType, StatsType, DroppedType
<1>2. BlocksOk({}) /\ Cardinality({}) = 0 /\ Occupied({}) = {}
  BY FS_EmptySet DEF BlocksOk, Occupied
<1>3. Counted(d, st)
  BY <1>1, <1>2 DEF Counted, DroppedType
<1> QED BY <1>1, <1>2, <1>3 DEF StateOk

LEMMA NobodyHolds ==
  ASSUME NEW c, c = [h \in Holders |-> NoChunk]
  PROVE  c \in [Holders -> ChunkType] /\ {h \in Holders : c[h] # NoChunk} = {}
BY NullFacts

LEMMA ResetPreserves ==
  ASSUME Inv, Reset
  PROVE  Inv'
<1> DEFINE cells  == dropped.cells + Cardinality(Occupied(s.blocks))
           number == dropped.blocks + Cardinality(s.blocks)
           d      == [cells |-> cells, blocks |-> number]
<1>1. /\ s' = [mem |-> [c \in Addresses |-> Junk], blocks |-> {}, stats |-> s.stats]
      /\ chunks' = [h \in Holders |-> NoChunk] /\ dropped' = d
  BY DEF Reset, Inv, StateOk, StateType
<1>2. StateOk(d, s') /\ s'.blocks = {}
  <2>1. dropped.cells \in Nat /\ dropped.blocks \in Nat
    BY DEF Inv, StateOk, Counted, DroppedType
  <2>2. IsFiniteSet(s.blocks) /\ IsFiniteSet(Occupied(s.blocks))
    BY OccupiedFinite DEF Inv, StateOk, BlocksOk
  <2>3. d \in DroppedType
    BY <2>1, <2>2, FS_CardinalityType DEF DroppedType
  <2>4. s.stats = [usage |-> s.stats.usage, balance |-> s.stats.balance, pairs |-> s.stats.pairs]
    BY DEF Inv, StateOk, StateType, StatsType
  <2>5. s.stats.usage = cells /\ s.stats.balance = cells /\ s.stats.pairs = number
    <3>1. /\ s.stats.usage = Cardinality(Occupied(s.blocks)) + dropped.cells
          /\ s.stats.balance = s.stats.usage
          /\ s.stats.pairs = Cardinality(s.blocks) + dropped.blocks
      BY DEF Inv, StateOk, Counted
    <3>2. Cardinality(Occupied(s.blocks)) \in Nat /\ Cardinality(s.blocks) \in Nat
      BY <2>2, FS_CardinalityType
    <3> QED BY <2>1, <3>1, <3>2
  <2>6. s.stats = [usage |-> d.cells, balance |-> d.cells, pairs |-> d.blocks]
    BY <2>4, <2>5
  <2> HIDE DEF d
  <2> QED BY <1>1, <2>3, <2>6, NothingHeld
<1> HIDE DEF d
<1>3. chunks' \in [Holders -> ChunkType] /\ Holding' = {}
  BY <1>1, NobodyHolds DEF Holding
<1> QED BY <1>1, <1>2, <1>3 DEF Inv

-----------------------------------------------------------------------------
(* The block stays where it is and ends elsewhere. *)
EndsElsewhere(st, blk, new, mem, o) ==
  /\ new.at = blk.at /\ Fits(st.blocks, blk, new)
  /\ mem \in [Addresses -> Values]
  /\ \A b \in st.blocks \ {blk} : \A x \in Space(b) : mem[x] = st.mem[x]
  /\ o.s.blocks = Replace(st.blocks, blk, new)
  /\ o.s.mem = WriteRedzone(mem, blk.at, new.len - Rz)
  /\ o.s.stats = [usage   |-> st.stats.usage - blk.len + new.len,
                  balance |-> st.stats.balance - blk.len + new.len,
                  pairs   |-> st.stats.pairs]
  /\ o.s = [mem |-> o.s.mem, blocks |-> o.s.blocks, stats |-> o.s.stats]
  /\ o.ptr = blk.at /\ o.len = new.len - Rz

Stays(d, st, blk, mem, o) ==
  /\ Serves(d, st, {blk}, o) /\ o.ptr = blk.at
  /\ \A x \in blk.at .. blk.at + o.len - 1 : o.s.mem[x] = mem[x]

LEMMA InPlace ==
  ASSUME NEW d, NEW st, StateOk(d, st), NEW blk \in st.blocks, NEW new, NEW mem, NEW o,
         EndsElsewhere(st, blk, new, mem, o)
  PROVE  Stays(d, st, blk, mem, o)
<1> DEFINE user == blk.at .. blk.at + (new.len - Rz) - 1
           t    == o.s
<1>1. o.ptr = blk.at /\ o.len = new.len - Rz /\ t.blocks = Replace(st.blocks, blk, new)
  BY DEF EndsElsewhere
<1>2. /\ BlocksOk(st.blocks) /\ blk \in BlockType /\ blk.len \in Nat /\ new.len \in Nat
      /\ new \in BlockType /\ Rz \in Nat /\ Fits(st.blocks, blk, new)
  BY MallocAssumption DEF StateOk, BlocksOk, BlockType, EndsElsewhere, Fits
<1>3. /\ BlockOk(new) /\ new \notin st.blocks \ {blk} /\ BlocksOk(t.blocks)
      /\ Cardinality(t.blocks) = Cardinality(st.blocks)
      /\ Cardinality(Occupied(t.blocks)) = Cardinality(Occupied(st.blocks)) - blk.len + new.len
      /\ Cardinality(Occupied(st.blocks)) - blk.len \in Nat
  <2> HIDE DEF t
  <2> QED BY <1>1, <1>2, ChangeBlock
<1>4. /\ t.mem \in [Addresses -> Values] /\ VerifyRedzone(t.mem, blk.at, new.len - Rz)
      /\ \A x \in Addresses \ Space(new) : t.mem[x] = mem[x]
      /\ \A x \in user : t.mem[x] = mem[x]
  <2>1. /\ mem \in [Addresses -> Values] /\ new.at = blk.at
        /\ t.mem = WriteRedzone(mem, new.at, new.len - Rz)
    BY DEF EndsElsewhere
  <2> HIDE DEF t
  <2> QED BY <1>2, <1>3, <2>1, WriteRedzoneFacts
<1> HIDE DEF user
<1>5. /\ st.stats.usage = Cardinality(Occupied(st.blocks)) + d.cells /\ st.stats.balance = st.stats.usage
      /\ st.stats.pairs = Cardinality(st.blocks) + d.blocks
      /\ d \in DroppedType /\ d.cells \in Nat /\ d.blocks \in Nat
  BY DEF StateOk, Counted, DroppedType
<1>6. /\ t.stats.usage = Cardinality(Occupied(t.blocks)) + d.cells
      /\ t.stats.balance = Cardinality(Occupied(t.blocks)) + d.cells
      /\ t.stats.pairs = Cardinality(t.blocks) + d.blocks /\ Cardinality(Occupied(t.blocks)) \in Nat
      /\ t.stats = [usage |-> t.stats.usage, balance |-> t.stats.balance, pairs |-> t.stats.pairs]
  <2>1. t.stats = [usage   |-> st.stats.usage - blk.len + new.len,
                   balance |-> st.stats.balance - blk.len + new.len,
                   pairs   |-> st.stats.pairs]
    BY DEF EndsElsewhere
  <2> HIDE DEF t
  <2>2. /\ t.stats.usage = st.stats.usage - blk.len + new.len
        /\ t.stats.balance = st.stats.balance - blk.len + new.len
        /\ t.stats.pairs = st.stats.pairs
        /\ t.stats = [usage |-> t.stats.usage, balance |-> t.stats.balance, pairs |-> t.stats.pairs]
    BY <2>1
  <2> DEFINE was == Cardinality(Occupied(st.blocks))
             is  == Cardinality(Occupied(t.blocks))
  <2>3. /\ is = was - blk.len + new.len /\ was - blk.len \in Nat
        /\ st.stats.usage = was + d.cells /\ st.stats.balance = was + d.cells
    BY <1>3, <1>5
  <2> HIDE DEF was, is
  <2>4. was \in Int /\ is \in Nat
    <3>1. was \in Nat
      BY OccupiedFinite DEF was
    <3> QED BY <1>2, <2>3, <3>1
  <2>5. t.stats.usage = is + d.cells /\ t.stats.balance = is + d.cells
    BY <1>2, <1>5, <2>2, <2>3, <2>4
  <2>6. t.stats.pairs = Cardinality(t.blocks) + d.blocks
    BY <1>3, <1>5, <2>2
  <2> QED BY <2>2, <2>4, <2>5, <2>6 DEF is
<1>7. StateOk(d, t)
  <2>1. t = [mem |-> t.mem, blocks |-> t.blocks, stats |-> t.stats]
    BY DEF EndsElsewhere
  <2> HIDE DEF t
  <2> QED BY <1>3, <1>4, <1>5, <1>6, <2>1, StateFacts
<1>8. ASSUME NEW b \in st.blocks \ {blk}, NEW x \in Space(b) PROVE t.mem[x] = st.mem[x]
  <2>1. x \in Addresses /\ x \notin Space(new)
    BY <1>2 DEF BlocksOk, BlockOk, Vacant, Fits
  <2>2. mem[x] = st.mem[x]
    BY DEF EndsElsewhere
  <2> QED BY <1>4, <2>1, <2>2
<1>9. o.ptr \in Addresses /\ o.len \in Nat /\ new.len = o.len + Rz
  BY <1>1, <1>2 DEF BlockType, Fits
<1>10. \E b : /\ b.at = o.ptr /\ b.len = o.len + Rz /\ b \notin st.blocks \ {blk}
              /\ t.blocks = (st.blocks \ {blk}) \union {b}
  BY <1>1, <1>3, <1>9 DEF EndsElsewhere, Replace
<1>11. VerifyRedzone(t.mem, o.ptr, o.len)
  BY <1>1, <1>4
<1>12. Serves(d, st, {blk}, o)
  BY <1>7, <1>8, <1>9, <1>10, <1>11 DEF Serves
<1>13. \A x \in user : o.s.mem[x] = mem[x]
  BY <1>4
<1> QED BY <1>1, <1>12, <1>13 DEF user, Stays

LEMMA NewLength ==
  ASSUME NEW blk \in BlockType, NEW nb \in Nat \ {0}
  PROVE  LET new == [blk EXCEPT !.len = nb]
         IN  new \in BlockType /\ new.at = blk.at /\ new.len = nb /\ new.tier = blk.tier
BY DEF BlockType

LEMMA ShrunkFacts ==
  ASSUME NEW d, NEW st, StateOk(d, st), NEW blk \in st.blocks, NEW want \in Nat, want > Rz, want <= blk.len,
         NEW o \in {Shrunk(st, blk, want)}
  PROVE  Stays(d, st, blk, st.mem, o)
<1> DEFINE nb   == ShrinkAt(blk, want)
           new  == [blk EXCEPT !.len = nb]
           gone == blk.at + nb .. blk.at + blk.len - 1
           mem  == Written(st.mem, gone, Junk)
           t    == [blocks |-> (st.blocks \ {blk}) \union {new},
                    mem    |-> WriteRedzone(mem, blk.at, nb - Rz),
                    stats  |-> Freed(st.stats, blk.len - nb)]
<1>1. /\ BlocksOk(st.blocks) /\ blk \in BlockType /\ BlockOk(blk) /\ blk.len \in Nat /\ Rz \in Nat
      /\ blk.at \in Nat
  BY MallocAssumption DEF StateOk, BlocksOk, BlockType, Addresses
<1>2. nb \in Nat \ {0} /\ nb > Rz /\ nb <= blk.len
  BY <1>1 DEF ShrinkAt, BlockOk
<1>3. o = Outcome(t, blk.at, nb - Rz)
  BY DEF Shrunk
<1> HIDE DEF nb
<1>4. new \in BlockType /\ new.at = blk.at /\ new.len = nb /\ new.tier = blk.tier
  BY <1>1, <1>2, NewLength
<1> HIDE DEF new
<1>5. Vacant(st.blocks \ {blk}, Space(new))
  <2>1. Space(new) \subseteq Space(blk)
    BY <1>1, <1>2, <1>4 DEF Space
  <2>2. Vacant(st.blocks \ {blk}, Space(blk))
    BY <1>1, DropBlock
  <2> QED BY <2>1, <2>2 DEF Vacant
<1>6. gone \subseteq Body(blk) /\ Body(blk) \subseteq Space(blk)
  <2>1. gone \subseteq Body(blk)
    BY <1>1, <1>2 DEF Body
  <2> QED BY <1>1, <2>1, BlockFacts
<1>7. st.mem \in [Addresses -> Values] /\ st.stats \in StatsType
  BY DEF StateOk, StateType
<1>8. mem \in [Addresses -> Values] /\ \A x \in Addresses \ gone : mem[x] = st.mem[x]
  <2> HIDE DEF gone
  <2> QED BY <1>7, WrittenFacts, MarksAreValues
<1> HIDE DEF gone, mem
<1>9. ASSUME NEW b \in st.blocks \ {blk}, NEW x \in Space(b) PROVE mem[x] = st.mem[x]
  <2>1. x \in Addresses /\ x \notin gone
    BY <1>1, <1>6 DEF BlocksOk, BlockOk
  <2> QED BY <1>8, <2>1
<1>10. Freed(st.stats, blk.len - nb)
        = [usage |-> st.stats.usage - blk.len + nb, balance |-> st.stats.balance - blk.len + nb,
           pairs |-> st.stats.pairs]
  <2>1. blk.len - nb \in Nat /\ blk.len - nb <= st.stats.usage
    <3>1. /\ Cardinality(Occupied(st.blocks)) = Cardinality(Occupied(st.blocks \ {blk})) + blk.len
          /\ Cardinality(Occupied(st.blocks \ {blk})) \in Nat
      BY <1>1, DropBlock
    <3>2. st.stats.usage = Cardinality(Occupied(st.blocks)) + d.cells /\ d.cells \in Nat
      BY DEF StateOk, Counted, DroppedType
    <3> QED BY <1>1, <1>2, <3>1, <3>2
  <2>2. Freed(st.stats, blk.len - nb)
          = [usage |-> st.stats.usage - (blk.len - nb), balance |-> st.stats.balance - (blk.len - nb),
             pairs |-> st.stats.pairs]
    BY <1>7, <2>1, StatsFacts
  <2>3. st.stats.usage \in Int /\ st.stats.balance \in Int
    BY <1>7 DEF StatsType
  <2>4. /\ st.stats.usage - (blk.len - nb) = st.stats.usage - blk.len + nb
        /\ st.stats.balance - (blk.len - nb) = st.stats.balance - blk.len + nb
    BY <1>1, <1>2, <2>3
  <2> QED BY <2>2, <2>4
<1>11. o.s = t /\ o.ptr = blk.at /\ o.len = new.len - Rz
  BY <1>3, <1>4, OutcomeFields
<1>12. EndsElsewhere(st, blk, new, mem, o)
  <2>1. /\ t.blocks = Replace(st.blocks, blk, new)
        /\ t.mem = WriteRedzone(mem, blk.at, new.len - Rz)
        /\ t = [mem |-> t.mem, blocks |-> t.blocks, stats |-> t.stats]
        /\ t.stats = Freed(st.stats, blk.len - nb)
    BY <1>4 DEF Replace
  <2> HIDE DEF t
  <2>2. Fits(st.blocks, blk, new)
    BY <1>2, <1>4, <1>5 DEF Fits
  <2> QED BY <1>4, <1>5, <1>8, <1>9, <1>10, <1>11, <2>1, <2>2 DEF EndsElsewhere
<1> HIDE DEF t
<1>13. Stays(d, st, blk, mem, o)
  BY <1>12, InPlace
<1>14. ASSUME NEW x \in blk.at .. blk.at + o.len - 1 PROVE o.s.mem[x] = st.mem[x]
  <2>1. x \in Body(blk) /\ x \notin gone
    BY <1>1, <1>2, <1>4, <1>11 DEF Body, gone
  <2>2. x \in Addresses
    BY <1>1, <2>1, BlockFacts
  <2>3. o.s.mem[x] = mem[x]
    BY <1>13 DEF Stays
  <2> QED BY <1>8, <2>1, <2>2, <2>3
<1> QED BY <1>13, <1>14 DEF Stays

LEMMA GrownFacts ==
  ASSUME NEW d, NEW st, StateOk(d, st), NEW blk \in st.blocks, NEW want \in Nat, want > blk.len,
         NEW o \in Grown(st, blk, want)
  PROVE  Stays(d, st, blk, st.mem, o)
<1>1. PICK nb \in GrowAt(st.blocks, blk, want) :
        o = Outcome([blocks |-> (st.blocks \ {blk}) \union {[blk EXCEPT !.len = nb]},
                     mem    |-> WriteRedzone(st.mem, blk.at, nb - Rz),
                     stats  |-> Granted(st.stats, nb - blk.len)],
                    blk.at, nb - Rz)
  BY DEF Grown
<1> DEFINE new == [blk EXCEPT !.len = nb]
           t   == [blocks |-> (st.blocks \ {blk}) \union {new},
                   mem    |-> WriteRedzone(st.mem, blk.at, nb - Rz),
                   stats  |-> Granted(st.stats, nb - blk.len)]
<1>2. BlocksOk(st.blocks) /\ blk \in BlockType /\ blk.len \in Nat
  BY DEF StateOk, BlocksOk, BlockType
<1>3. nb \in Nat /\ nb >= want /\ nb > Rz /\ Vacant(st.blocks \ {blk}, Space(new))
  BY <1>2, GrowAtFacts
<1>4. new \in BlockType /\ new.at = blk.at /\ new.len = nb
  <2>1. nb \in Nat \ {0}
    BY <1>3, MallocAssumption
  <2> QED BY <1>2, <2>1, NewLength
<1>5. st.mem \in [Addresses -> Values] /\ st.stats \in StatsType
  BY DEF StateOk, StateType
<1>6. Granted(st.stats, nb - blk.len)
        = [usage |-> st.stats.usage - blk.len + nb, balance |-> st.stats.balance - blk.len + nb,
           pairs |-> st.stats.pairs]
  <2>1. nb - blk.len \in Nat
    BY <1>2, <1>3
  <2>2. Granted(st.stats, nb - blk.len)
          = [usage |-> st.stats.usage + (nb - blk.len), balance |-> st.stats.balance + (nb - blk.len),
             pairs |-> st.stats.pairs]
    BY <1>5, <2>1, StatsFacts
  <2>3. st.stats.usage \in Int /\ st.stats.balance \in Int
    BY <1>5 DEF StatsType
  <2>4. /\ st.stats.usage + (nb - blk.len) = st.stats.usage - blk.len + nb
        /\ st.stats.balance + (nb - blk.len) = st.stats.balance - blk.len + nb
    BY <1>2, <1>3, <2>3
  <2> QED BY <2>2, <2>4
<1> HIDE DEF new
<1>7. o.s = t /\ o.ptr = blk.at /\ o.len = new.len - Rz
  BY <1>1, <1>4, OutcomeFields DEF new
<1>8. EndsElsewhere(st, blk, new, st.mem, o)
  <2>1. /\ t.blocks = Replace(st.blocks, blk, new)
        /\ t.mem = WriteRedzone(st.mem, blk.at, new.len - Rz)
        /\ t = [mem |-> t.mem, blocks |-> t.blocks, stats |-> t.stats]
        /\ t.stats = Granted(st.stats, nb - blk.len)
    BY <1>4 DEF Replace
  <2> HIDE DEF t
  <2>2. Fits(st.blocks, blk, new)
    BY <1>3, <1>4 DEF new, Fits
  <2> QED BY <1>4, <1>5, <1>6, <1>7, <2>1, <2>2 DEF EndsElsewhere
<1> QED BY <1>8, InPlace

-----------------------------------------------------------------------------
(* A resize takes along what it was asked to preserve. *)
Carries(st, blk, o, len, preserve) ==
  \A i \in Nat : i < preserve /\ i < len /\ i < blk.len - Rz /\ i < o.len =>
                  o.s.mem[o.ptr + i] = st.mem[blk.at + i]

LEMMA MovedFacts ==
  ASSUME NEW d, NEW st, StateOk(d, st), NEW blk \in st.blocks, NEW old, old.ptr = blk.at, old.len \in Nat,
         NEW size \in Nat, NEW preserve \in Nat, NEW al \in Nat,
         NEW o \in Moved(st, blk, old, size, preserve, al)
  PROVE  \/ o = Refused(st)
         \/ Serves(d, st, {blk}, o) /\ o.ptr % al = 0 /\ Carries(st, blk, o, old.len, preserve)
<1>1. PICK ob \in Balloc(st, size, al) :
        o = IF ob.ptr = Null THEN Refused(st)
            ELSE LET copy == Least({preserve, old.len, blk.len - Rz, ob.len})
                 IN  Outcome(Release([ob.s EXCEPT !.mem = Copied(@, old.ptr, ob.ptr, copy)], blk), ob.ptr, ob.len)
  BY DEF Moved
<1>2. CASE ob = Refused(st)
  <2>1. ob.ptr = Null
    BY <1>2 DEF Refused, Outcome
  <2> QED BY <1>1, <2>1
<1>3. CASE ob # Refused(st)
  <2>1. PICK new \in BlockType :
          /\ BlockOk(new) /\ Vacant(st.blocks, Space(new)) /\ new.at % al = 0
          /\ ob = Outcome(Finish(st, new), new.at, new.len - Rz)
    BY <1>3, BallocFacts
  <2>2. /\ ob.s = Finish(st, new) /\ ob.ptr = new.at /\ ob.len = new.len - Rz /\ ob.ptr # Null
        /\ StateOk(d, ob.s) /\ ob.s.blocks = st.blocks \union {new} /\ new \notin st.blocks
        /\ SameOutside(st, ob.s, Space(new)) /\ VerifyRedzone(ob.s.mem, new.at, new.len - Rz)
    <3>1. ob.s = Finish(st, new) /\ ob.ptr = new.at /\ ob.len = new.len - Rz
      BY <2>1, OutcomeFields
    <3>2. new.at # Null
      BY NullFacts DEF BlockType
    <3>3. new \notin st.blocks
      BY <2>1, AddBlock DEF StateOk
    <3>4. /\ StateOk(d, Finish(st, new)) /\ Finish(st, new).blocks = st.blocks \union {new}
          /\ SameOutside(st, Finish(st, new), Space(new))
          /\ VerifyRedzone(Finish(st, new).mem, new.at, new.len - Rz)
      BY <2>1, FinishFacts
    <3> QED BY <3>1, <3>2, <3>3, <3>4
  <2>3. /\ BlocksOk(st.blocks) /\ blk \in BlockType /\ BlockOk(blk)
        /\ blk.at \in Nat /\ blk.len \in Nat /\ Rz \in Nat /\ blk.len - Rz \in Nat
        /\ new.at \in Nat /\ new.len \in Nat /\ new.len - Rz \in Nat
    BY <2>1, RedzoneCells, MallocAssumption DEF StateOk, BlocksOk, BlockType, Addresses
  <2> DEFINE copy == Least({preserve, old.len, blk.len - Rz, ob.len})
             to   == new.at .. new.at + copy - 1
             mem  == Copied(ob.s.mem, old.ptr, ob.ptr, copy)
             mid  == [ob.s EXCEPT !.mem = mem]
             t    == Release(mid, blk)
  <2>4. o = Outcome(t, ob.ptr, ob.len)
    BY <1>1, <2>2
  <2>5. /\ copy \in Nat /\ copy <= blk.len - Rz /\ copy <= new.len - Rz
        /\ \A i \in Nat : i < preserve /\ i < old.len /\ i < blk.len - Rz /\ i < ob.len => i < copy
    <3> DEFINE T == {preserve, old.len, blk.len - Rz, ob.len}
    <3>1. T \subseteq Nat /\ T # {}
      BY <2>2, <2>3
    <3>2. copy \in T /\ \A y \in T : copy <= y
      <4> HIDE DEF T
      <4> QED BY <3>1, LeastFacts DEF T
    <3> HIDE DEF copy
    <3> QED BY <2>2, <2>3, <3>2
  <2> HIDE DEF copy
  <2>6. /\ \A i \in 0 .. copy - 1 : blk.at + i \in Space(blk) /\ new.at + i \in Space(new)
        /\ to \subseteq Space(new)
        /\ new.at + (new.len - Rz) .. new.at + (new.len - Rz) + Rz - 1 \subseteq Space(new)
        /\ to \cap (new.at + (new.len - Rz) .. new.at + (new.len - Rz) + Rz - 1) = {}
    <3>1. /\ Body(blk) \subseteq Space(blk) /\ Body(new) \subseteq Space(new)
          /\ blk.at .. blk.at + (blk.len - Rz) - 1 \subseteq Body(blk)
          /\ new.at .. new.at + (new.len - Rz) - 1 \subseteq Body(new)
          /\ new.at + (new.len - Rz) .. new.at + (new.len - Rz) + Rz - 1 \subseteq Body(new)
      BY <2>1, <2>3, BlockFacts, RedzoneCells
    <3>2. /\ \A i \in 0 .. copy - 1 : /\ blk.at + i \in blk.at .. blk.at + (blk.len - Rz) - 1
                                     /\ new.at + i \in new.at .. new.at + (new.len - Rz) - 1
          /\ to \subseteq new.at .. new.at + (new.len - Rz) - 1
          /\ to \cap (new.at + (new.len - Rz) .. new.at + (new.len - Rz) + Rz - 1) = {}
      BY <2>3, <2>5
    <3> HIDE DEF to
    <3> QED BY <3>1, <3>2
  <2>7. /\ Space(blk) \cap Space(new) = {} /\ Space(blk) \subseteq Addresses /\ Space(new) \subseteq Addresses
        /\ \A b \in st.blocks : Space(b) \cap Space(new) = {} /\ Space(b) \subseteq Addresses
        /\ \A b \in st.blocks \ {blk} : Space(b) \cap Space(blk) = {}
    BY <2>1, <2>3 DEF Vacant, BlocksOk, BlockOk
  <2>8. /\ \A i \in 0 .. copy - 1 : mem[new.at + i] = st.mem[blk.at + i]
        /\ \A x \in Addresses \ to : mem[x] = ob.s.mem[x]
        /\ mem \in [Addresses -> Values]
    <3>1. mem = [x \in Addresses |-> IF x \in to THEN ob.s.mem[blk.at + (x - new.at)] ELSE ob.s.mem[x]]
      BY <2>2 DEF Copied
    <3>2. ASSUME NEW x \in to
          PROVE  /\ blk.at + (x - new.at) \in Space(blk) /\ x \in Addresses
                 /\ ob.s.mem[blk.at + (x - new.at)] = st.mem[blk.at + (x - new.at)]
      <4>1. x - new.at \in 0 .. copy - 1
        BY <2>3, <2>5
      <4>2. blk.at + (x - new.at) \in Space(blk)
        BY <2>6, <4>1
      <4>3. x \in Addresses
        BY <2>6, <2>7
      <4> QED BY <2>2, <2>7, <4>2, <4>3 DEF SameOutside
    <3>3. ASSUME NEW i \in 0 .. copy - 1 PROVE mem[new.at + i] = st.mem[blk.at + i]
      <4>1. PICK x : x = new.at + i
        OBVIOUS
      <4>2. x \in to /\ x - new.at = i
        BY <2>3, <2>5, <4>1
      <4>3. mem[x] = ob.s.mem[blk.at + (x - new.at)]
        BY <3>1, <3>2, <4>2
      <4> QED BY <3>2, <4>1, <4>2, <4>3
    <3>4. ob.s.mem \in [Addresses -> Values]
      BY <2>2 DEF StateOk, StateType
    <3>5. \A x \in Addresses : (IF x \in to THEN ob.s.mem[blk.at + (x - new.at)] ELSE ob.s.mem[x]) \in Values
      BY <2>7, <3>2, <3>4
    <3> HIDE DEF mem, to
    <3> QED BY <3>1, <3>3, <3>5
  <2> HIDE DEF mem, to
  <2>9. StateOk(d, mid) /\ mid.mem = mem /\ mid.blocks = st.blocks \union {new}
    BY <2>2, <2>8, MemoryChange
  <2> HIDE DEF mid
  <2>10. StateOk(d, t) /\ t.blocks = (st.blocks \union {new}) \ {blk} /\ SameOutside(mid, t, Space(blk))
    BY <2>9, ReleaseFacts
  <2> HIDE DEF t
  <2>11. o.s = t /\ o.ptr = new.at /\ o.len = new.len - Rz
    BY <2>2, <2>4, OutcomeFields
  <2>12. ASSUME NEW b \in st.blocks \ {blk}, NEW x \in Space(b) PROVE t.mem[x] = st.mem[x]
    <3>1. x \in Addresses /\ x \notin Space(blk) /\ x \notin Space(new) /\ x \notin to
      BY <2>6, <2>7
    <3> QED BY <2>2, <2>8, <2>9, <2>10, <3>1 DEF SameOutside
  <2>13. \A x \in Space(new) : t.mem[x] = mem[x]
    BY <2>7, <2>9, <2>10 DEF SameOutside
  <2>14. VerifyRedzone(t.mem, new.at, new.len - Rz)
    <3>1. ASSUME NEW x \in new.at + (new.len - Rz) .. new.at + (new.len - Rz) + Rz - 1
          PROVE  t.mem[x] = Redzone
      <4>1. x \in Space(new) /\ x \notin to /\ x \in Addresses
        BY <2>6, <2>7
      <4>2. ob.s.mem[x] = Redzone
        BY <2>2 DEF VerifyRedzone
      <4> QED BY <2>8, <2>13, <4>1, <4>2
    <3> QED BY <3>1 DEF VerifyRedzone
  <2>15. Serves(d, st, {blk}, o)
    <3>1. (st.blocks \union {new}) \ {blk} = (st.blocks \ {blk}) \union {new} /\ new \notin st.blocks \ {blk}
      BY <2>2
    <3>2. new.len = o.len + Rz /\ o.len \in Nat /\ o.ptr \in Addresses
      BY <2>3, <2>11 DEF BlockType
    <3>3. \E b : /\ b.at = o.ptr /\ b.len = o.len + Rz /\ b \notin st.blocks \ {blk}
                 /\ o.s.blocks = (st.blocks \ {blk}) \union {b}
      BY <2>10, <2>11, <3>1, <3>2
    <3>4. VerifyRedzone(o.s.mem, o.ptr, o.len) /\ StateOk(d, o.s)
      BY <2>10, <2>11, <2>14
    <3> QED BY <2>11, <2>12, <3>2, <3>3, <3>4 DEF Serves
  <2>16. Carries(st, blk, o, old.len, preserve)
    <3>1. ASSUME NEW i \in Nat, i < preserve, i < old.len, i < blk.len - Rz, i < o.len
          PROVE  o.s.mem[o.ptr + i] = st.mem[blk.at + i]
      <4>1. i < ob.len
        BY <2>2, <2>11, <3>1
      <4>2. i < copy
        BY <2>5, <3>1, <4>1
      <4>3. i \in 0 .. copy - 1
        BY <2>5, <4>2
      <4> QED BY <2>6, <2>8, <2>11, <2>13, <4>3
    <3> QED BY <3>1 DEF Carries
  <2>17. o.ptr % al = 0
    BY <2>1, <2>11
  <2> QED BY <2>15, <2>16, <2>17
<1> QED BY <1>2, <1>3

LEMMA StaysFacts ==
  ASSUME NEW d, NEW st, NEW blk, NEW o, Stays(d, st, blk, st.mem, o), NEW al, blk.at % al = 0, NEW len, NEW preserve,
         blk.at \in Nat
  PROVE  Serves(d, st, {blk}, o) /\ o.ptr % al = 0 /\ Carries(st, blk, o, len, preserve)
<1>1. ASSUME NEW i \in Nat, i < o.len PROVE o.s.mem[o.ptr + i] = st.mem[blk.at + i]
  <2>1. o.len \in Nat
    BY DEF Stays, Serves
  <2>2. blk.at + i \in blk.at .. blk.at + o.len - 1
    BY <1>1, <2>1
  <2> QED BY <2>2 DEF Stays
<1> QED BY <1>1 DEF Stays, Carries

LEMMA ResizeLiveFacts ==
  ASSUME NEW d, NEW st, StateOk(d, st), NEW blk \in st.blocks, NEW old, old.ptr = blk.at, old.len \in Nat,
         NEW size \in Nat \ {0}, NEW preserve \in Nat, NEW al \in Nat,
         NEW o \in ResizeLive(st, blk, old, size, preserve, al)
  PROVE  \/ o = Refused(st)
         \/ Serves(d, st, {blk}, o) /\ o.ptr % al = 0 /\ Carries(st, blk, o, old.len, preserve)
<1>1. blk.at \in Nat /\ blk.len \in Nat /\ Rz \in Nat
  BY MallocAssumption DEF StateOk, BlocksOk, BlockType, Addresses
<1>2. CASE size <= blk.len - Rz /\ blk.at % al = 0
  <2>1. o \in {Shrunk(st, blk, size + Rz)}
    BY <1>2 DEF ResizeLive
  <2>2. size + Rz \in Nat /\ size + Rz > Rz /\ size + Rz <= blk.len
    BY <1>1, <1>2
  <2>3. Stays(d, st, blk, st.mem, o)
    BY <2>1, <2>2, ShrunkFacts
  <2> QED BY <1>1, <1>2, <2>3, StaysFacts
<1>3. CASE ~ (size <= blk.len - Rz) /\ blk.at % al = 0 /\ o \in Grown(st, blk, size + Rz)
  <2>1. size + Rz \in Nat /\ size + Rz > blk.len
    BY <1>1, <1>3
  <2>2. Stays(d, st, blk, st.mem, o)
    BY <1>3, <2>1, GrownFacts
  <2> QED BY <1>1, <1>3, <2>2, StaysFacts
<1>4. CASE o \in Moved(st, blk, old, size, preserve, al)
  BY <1>4, MovedFacts
<1> QED BY <1>2, <1>3, <1>4 DEF ResizeLive

(* Both kinds of resize: the caller says how long its chunk is, or more. *)
LEMMA ResizePreserves ==
  ASSUME Inv, NEW h \in Holding, NEW old, old.ptr = chunks[h].ptr, old.len \in Nat,
         NEW size \in Nat, NEW preserve \in Nat, NEW al \in Nat,
         old.len = chunks[h].len \/ old.len = preserve,
         NEW o \in Resize(s, old, size, preserve, al), Resized(h, o, size, preserve, al)
  PROVE  Inv'
<1>1. PICK blk \in s.blocks :
        /\ blk.at = chunks[h].ptr /\ blk.len = chunks[h].len + Rz /\ HeldBy(h) = {blk}
        /\ Locate(s, old.ptr) = blk /\ blk \in BlockType /\ BlockOk(blk)
  BY HeldFacts
<1>2. /\ old.ptr \in Addresses /\ old.ptr # Null /\ blk.len # 0 /\ ~ (blk.len < Rz)
      /\ chunks[h].ptr \in Nat /\ chunks[h].len \in Nat /\ Rz \in Nat /\ blk.len - Rz = chunks[h].len
  <2>1. chunks[h] \in ChunkType
    BY DEF Inv, Holding
  <2>2. /\ chunks[h].ptr \in Nat /\ chunks[h].len \in Nat /\ Rz \in Nat
        /\ blk.len - Rz = chunks[h].len /\ blk.len # 0
    BY <1>1, <2>1, LayoutNumbers
  <2>3. old.ptr \in Addresses
    BY <1>1 DEF BlockType
  <2>4. old.ptr # Null
    BY <2>3, NullFacts
  <2>5. ~ (blk.len < Rz)
    BY <1>1, <2>2
  <2> QED BY <2>2, <2>3, <2>4, <2>5
<1>3. StateOk(dropped, s) /\ h \in Holders /\ chunks[h] \in ChunkType /\ Keeps(s, chunks[h], h)
  BY DEF Inv, Holding
<1>4. CASE ~ IsPow2(al)
  <2>1. o = Refused(s)
    BY <1>4 DEF Resize
  <2>2. s' = s /\ chunks' = chunks /\ dropped' = dropped
    BY <1>4, <2>1 DEF Resized, Receive, Refused, Outcome
  <2> QED BY <2>2 DEF Inv, Holding
<1>5. CASE IsPow2(al) /\ size = 0
  <2>1. o = Refused(Dealloc(s, chunks[h].ptr))
    BY <1>2, <1>5 DEF Resize
  <2>2. /\ s' = Dealloc(s, chunks[h].ptr) /\ chunks' = [chunks EXCEPT ![h] = NoChunk]
        /\ dropped' = dropped
    BY <1>5, <2>1 DEF Resized, Refused, Outcome
  <2> QED BY <1>3, <2>2, DeallocFacts, Drop
<1>6. CASE IsPow2(al) /\ size # 0
  <2>1. o \in ResizeLive(s, blk, old, size, preserve, al)
    BY <1>1, <1>2, <1>6 DEF Resize
  <2> DEFINE kept == Least({chunks[h].kept, preserve, o.len})
  <2>2. Receive(h, o, al, kept, chunks[h].zeroed)
    BY <1>6 DEF Resized
  <2>3. size \in Nat \ {0} /\ old.ptr = blk.at
    BY <1>1, <1>6
  <2>4. CASE o = Refused(s)
    <3>1. s' = s /\ chunks' = chunks /\ dropped' = dropped
      BY <2>2, <2>4 DEF Receive, Refused, Outcome
    <3> QED BY <3>1 DEF Inv, Holding
  <2>5. CASE Serves(dropped, s, {blk}, o) /\ o.ptr % al = 0 /\ Carries(s, blk, o, old.len, preserve)
    <3>1. o.ptr \in Addresses /\ o.ptr # Null /\ o.len \in Nat
      BY <2>5, NullFacts DEF Serves
    <3>2. /\ kept \in Nat /\ kept <= chunks[h].kept /\ kept <= preserve /\ kept <= o.len
      <4> DEFINE T == {chunks[h].kept, preserve, o.len}
      <4>1. T \subseteq Nat /\ T # {}
        BY <1>3, <3>1 DEF ChunkType
      <4>2. Least(T) \in T /\ \A y \in T : Least(T) <= y
        <5> HIDE DEF T
        <5> QED BY <4>1, LeastFacts
      <4> QED BY <4>1, <4>2
    <3>3. /\ s' = o.s /\ chunks' = [chunks EXCEPT ![h] = Chunk(o.ptr, o.len, al, kept, chunks[h].zeroed)]
          /\ dropped' = dropped
      BY <2>2, <3>1 DEF Receive
    <3> HIDE DEF kept
    <3>4. ASSUME NEW i \in 0 .. kept - 1
          PROVE  o.s.mem[o.ptr + i] = IF chunks[h].zeroed THEN Zero ELSE Own(h, i)
      <4>1. chunks[h].kept \in Nat /\ chunks[h].kept <= chunks[h].len
        BY <1>3 DEF Keeps, ChunkType
      <4>2. i \in Nat /\ i < preserve /\ i < o.len /\ i < chunks[h].len /\ i < chunks[h].kept
        BY <1>2, <3>1, <3>2, <4>1
      <4>3. i < old.len /\ i < blk.len - Rz
        BY <1>2, <4>2
      <4>4. o.s.mem[o.ptr + i] = s.mem[blk.at + i]
        BY <2>5, <4>2, <4>3 DEF Carries
      <4>5. i \in 0 .. chunks[h].kept - 1
        BY <4>1, <4>2
      <4>6. s.mem[chunks[h].ptr + i] = DatumOf(chunks[h], h, i)
        BY <1>3, <4>5 DEF Keeps
      <4> QED BY <1>1, <4>4, <4>6 DEF DatumOf
    <3>5. al \in Nat \ {0}
      BY <1>6, AlignmentType
    <3>6. chunks[h].zeroed \in BOOLEAN
      BY <1>3 DEF ChunkType
    <3>7. Serves(dropped, s, HeldBy(h), o)
      BY <1>1, <2>5
    <3> QED BY <1>3, <2>5, <3>2, <3>3, <3>4, <3>5, <3>6, <3>7, Received
  <2> QED BY <1>3, <2>1, <2>3, <2>4, <2>5, ResizeLiveFacts
<1> QED BY <1>4, <1>5, <1>6

LEMMA ResizeChunkPreserves ==
  ASSUME Inv, NEW h \in Holders, NEW size \in Sizes, NEW al \in Alignments,
         NEW preserve \in {1, chunks[h].len}, ResizeChunk(h, size, preserve, al)
  PROVE  Inv'
<1>1. h \in Holding /\ size \in Nat /\ al \in Nat
  BY CallersAssumption DEF ResizeChunk
<1>2. chunks[h].len \in Nat /\ preserve \in Nat
  BY DEF Inv, ChunkType
<1>3. PICK o \in Resize(s, chunks[h], size, preserve, al) : Resized(h, o, size, preserve, al)
  BY DEF ResizeChunk
<1> QED BY <1>1, <1>2, <1>3, ResizePreserves

LEMMA ReallocChunkPreserves ==
  ASSUME Inv, NEW h \in Holders, NEW size \in Sizes, ReallocChunk(h, size)
  PROVE  Inv'
<1> DEFINE old == [ptr |-> chunks[h].ptr, len |-> Huge]
<1>1. h \in Holding /\ size \in Nat /\ 1 \in Nat /\ Huge \in Nat
  BY CallersAssumption DEF ReallocChunk, Huge
<1>2. old.ptr = chunks[h].ptr /\ old.len = Huge
  OBVIOUS
<1>3. PICK o \in Resize(s, old, size, Huge, 1) : Resized(h, o, size, Huge, 1)
  BY DEF ReallocChunk, Realloc
<1> HIDE DEF old
<1> QED BY <1>1, <1>2, <1>3, ResizePreserves

LEMMA InvInit == Init => Inv
<1> SUFFICES ASSUME Init PROVE Inv
  OBVIOUS
<1>1. StateOk(dropped, s) /\ s.blocks = {}
  <2>1. dropped = [cells |-> 0, blocks |-> 0] /\ dropped \in DroppedType
    BY DEF Init, DroppedType
  <2>2. NoStats = [usage |-> dropped.cells, balance |-> dropped.cells, pairs |-> dropped.blocks]
    BY <2>1 DEF NoStats
  <2> QED BY <2>1, <2>2, NothingHeld DEF Init
<1>2. chunks \in [Holders -> ChunkType] /\ Holding = {}
  BY NobodyHolds DEF Init, Holding
<1> QED BY <1>1, <1>2 DEF Inv

LEMMA InvStep == Inv /\ [Next]_vars => Inv'
<1> SUFFICES ASSUME Inv, [Next]_vars PROVE Inv'
  OBVIOUS
<1>1. CASE \E h \in Holders, size \in Sizes, al \in Alignments : Allocate(h, size, al)
  BY <1>1, AllocatePreserves
<1>2. CASE \E h \in Holders, size \in Sizes : AllocateZeroed(h, size)
  BY <1>2, AllocateZeroedPreserves
<1>3. CASE \E h \in Holders : Fill(h) \/ Overrun(h) \/ Free(h)
  BY <1>3, FillPreserves, OverrunPreserves, FreePreserves
<1>4. CASE \E p \in Addresses : BadFree(p)
  BY <1>4, BadFreePreserves
<1>5. CASE \E h \in Holders, size \in Sizes, al \in Alignments :
             \E preserve \in {1, chunks[h].len} : ResizeChunk(h, size, preserve, al)
  BY <1>5, ResizeChunkPreserves
<1>6. CASE \E h \in Holders, size \in Sizes : ReallocChunk(h, size)
  BY <1>6, ReallocChunkPreserves
<1>7. CASE Reset
  BY <1>7, ResetPreserves
<1>8. CASE UNCHANGED vars
  BY <1>8 DEF vars, Inv, Holding
<1> QED BY <1>1, <1>2, <1>3, <1>4, <1>5, <1>6, <1>7, <1>8 DEF Next

LEMMA InvAlways == Spec => []Inv
<1>1. Inv /\ [Next]_vars => Inv'
  BY InvStep
<1> QED BY InvInit, <1>1, PTL DEF Spec

-----------------------------------------------------------------------------
(* As many blocks as holders: each holder's block is a block of its own. *)
LEMMA AsManyBlocks ==
  ASSUME Inv
  PROVE  Cardinality(s.blocks) = Cardinality(Holding)
<1> DEFINE f == [blk \in s.blocks |-> CHOOSE h \in Holding : chunks[h].ptr = blk.at]
<1>1. ASSUME NEW blk \in s.blocks
      PROVE  f[blk] \in Holding /\ chunks[f[blk]].ptr = blk.at
  BY DEF Inv
<1>2. BlocksOk(s.blocks)
  BY DEF Inv, StateOk
<1>3. f \in [s.blocks -> Holding]
  BY <1>1
<1>4. \A a, b \in s.blocks : f[a] = f[b] => a = b
  <2>1. ASSUME NEW a \in s.blocks, NEW b \in s.blocks, f[a] = f[b] PROVE a = b
    <3>1. a.at = b.at
      BY <1>1, <2>1
    <3> QED BY <1>2, <3>1, LocateFacts
  <2> QED BY <2>1
<1>5. \A h \in Holding : \E blk \in s.blocks : f[blk] = h
  <2>1. ASSUME NEW h \in Holding PROVE \E blk \in s.blocks : f[blk] = h
    <3>1. PICK blk \in s.blocks : blk.at = chunks[h].ptr
      BY HeldFacts
    <3>2. f[blk] \in Holding /\ chunks[f[blk]].ptr = chunks[h].ptr
      BY <1>1, <3>1
    <3> HIDE DEF f
    <3> QED BY <3>1, <3>2 DEF Inv
  <2> QED BY <2>1
<1> HIDE DEF f
<1>6. f \in Bijection(s.blocks, Holding)
  BY <1>3, <1>4, <1>5, Zenon DEF Bijection, Injection, Surjection, IsInjective
<1>7. IsFiniteSet(s.blocks)
  BY <1>2 DEF BlocksOk
<1> QED BY <1>6, <1>7, FS_Bijection DEF ExistsBijection

(* Whatever mix of allocations, moves and resizes in place led here, each
   holder's chunk is a block of its own, as long and as aligned as it was told,
   and no resize leaks the old one: for every memory, redzone and number of
   holders. *)
THEOREM ChunksAlwaysUsable == Spec => []ChunksUsable
<1>1. Inv => ChunksUsable
  <2> SUFFICES ASSUME Inv PROVE ChunksUsable
    OBVIOUS
  <2>1. ASSUME NEW h \in Holding
        PROVE  \E blk \in s.blocks : /\ blk.at = chunks[h].ptr
                                     /\ chunks[h].len + Rz <= blk.len
                                     /\ blk.at % chunks[h].al = 0
    <3>1. PICK blk \in s.blocks : blk.at = chunks[h].ptr /\ blk.len = chunks[h].len + Rz
      BY DEF Inv, Keeps
    <3>2. blk.len \in Nat
      BY DEF Inv, StateOk, BlocksOk, BlockType
    <3>3. chunks[h].ptr % chunks[h].al = 0
      BY DEF Inv, Keeps
    <3> QED BY <3>1, <3>2, <3>3
  <2> QED BY <2>1, AsManyBlocks DEF ChunksUsable, Inv
<1> QED BY <1>1, InvAlways, PTL

(* A holder finds what it wrote, or the zeros it asked for, as far as it asked
   for them to be preserved, whatever happened to its chunk and to others. *)
THEOREM ContentsAlwaysKept == Spec => []ContentsKept
<1>1. Inv => ContentsKept
  BY DEF Inv, ContentsKept, Keeps, Datum, DatumOf
<1> QED BY <1>1, InvAlways, PTL

(* The next free or resize reports a damaged redzone for the chunks that were
   overrun and for no other. *)
THEOREM RedzonesAlwaysGuard == Spec => []RedzonesGuard
<1>1. Inv => RedzonesGuard
  <2> SUFFICES ASSUME Inv, NEW h \in Holding
      PROVE VerifyRedzone(s.mem, chunks[h].ptr, Locate(s, chunks[h].ptr).len - Rz) <=> ~ chunks[h].hurt
    BY DEF RedzonesGuard
  <2>1. PICK blk \in s.blocks : /\ blk.at = chunks[h].ptr /\ blk.len = chunks[h].len + Rz
                                /\ Locate(s, chunks[h].ptr) = blk /\ blk \in BlockType
    BY HeldFacts
  <2>2. /\ chunks[h].ptr \in Nat /\ chunks[h].len \in Nat /\ Rz \in Nat /\ blk.len - Rz = chunks[h].len
        /\ chunks[h].hurt \in BOOLEAN
    <3>1. chunks[h] \in ChunkType
      BY DEF Inv, Holding
    <3> QED BY <2>1, <3>1, LayoutNumbers
  <2>3. Keeps(s, chunks[h], h)
    BY DEF Inv
  <2>4. CASE ~ chunks[h].hurt
    BY <2>1, <2>2, <2>3, <2>4 DEF Keeps
  <2>5. CASE chunks[h].hurt
    <3>1. chunks[h].ptr + chunks[h].len
             \in chunks[h].ptr + chunks[h].len .. chunks[h].ptr + chunks[h].len + Rz - 1
      BY <2>2, <2>3, <2>5 DEF Keeps
    <3>2. s.mem[chunks[h].ptr + chunks[h].len] # Redzone
      BY <2>3, <2>5 DEF Keeps, Junk, Redzone
    <3> QED BY <2>1, <2>2, <2>5, <3>1, <3>2 DEF VerifyRedzone
  <2> QED BY <2>4, <2>5
<1> QED BY <1>1, InvAlways, PTL

(* current_usage is the cells of what is live and of what was live when a reset
   dropped it, and as many blocks as that were allocated and not freed: the
   saturating subtraction never saturates. *)
THEOREM StatsAlwaysExact == Spec => []StatsExact
<1>1. Inv => StatsExact
  BY DEF Inv, StateOk, Counted, StatsExact
<1> QED BY <1>1, InvAlways, PTL

=============================================================================
