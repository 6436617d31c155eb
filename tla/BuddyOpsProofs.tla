---------------------------- MODULE BuddyOpsProofs ----------------------------
(***************************************************************************)
(* Every operation of BuddyOps, and every call composed of them, takes a   *)
(* well-formed pool to a well-formed one and keeps it coalesced, for every *)
(* pool size, cache capacity and choice of block.  First the buddy grid,   *)
(* then the two steps that move blocks, splitting and merging, and last the*)
(* calls of src/src/free_list.hpp.                                         *)
(***************************************************************************)
EXTENDS BuddyOps, PowerProofs

(***************************************************************************)
(* The buddy grid, for every pool size.                                    *)
(***************************************************************************)
(* Clearing one more bit: u mod 2s against u mod s, and the quotient of a
   multiple of s and of the multiples next to it. *)
LEMMA DoubleModEven ==
  ASSUME NEW s \in Nat \ {0}, NEW q \in Nat, NEW r \in 0 .. s - 1,
         NEW u \in Nat, u = s * q + r, q % 2 = 0
  PROVE  u % s = r /\ u - r = s * q /\ u % (2 * s) = r
<1>1. u % s = r /\ u - r = s * q
  BY Remainder
<1>2. PICK h \in Nat : q = 2 * h
  <2>1. q \div 2 \in Nat /\ q = 2 * (q \div 2)
    OBVIOUS
  <2>2. QED BY <2>1
<1>3. PICK t \in Nat \ {0} : t = 2 * s
  OBVIOUS
<1>4. u = t * h + r /\ r \in 0 .. t - 1
  BY <1>2, <1>3
<1>5. u % t = r
  BY ONLY <1>4, t \in Nat \ {0}, h \in Nat, u \in Nat
<1>6. QED BY <1>1, <1>3, <1>5

LEMMA DoubleModOdd ==
  ASSUME NEW s \in Nat \ {0}, NEW q \in Nat, NEW r \in 0 .. s - 1,
         NEW u \in Nat, u = s * q + r, q % 2 = 1
  PROVE  u % s = r /\ u - r = s * q /\ u % (2 * s) = r + s
<1>1. u % s = r /\ u - r = s * q
  BY Remainder
<1>2. PICK h \in Nat : q = 2 * h + 1
  <2>1. q \div 2 \in Nat /\ q = 2 * (q \div 2) + 1
    OBVIOUS
  <2>2. QED BY <2>1
<1>3. PICK t \in Nat \ {0} : t = 2 * s
  OBVIOUS
<1>4. s * q = t * h + s
  BY <1>2, <1>3
<1>5. u = t * h + (r + s) /\ r + s \in 0 .. t - 1
  BY <1>3, <1>4
<1>6. u % t = r + s
  BY ONLY <1>5, t \in Nat \ {0}, h \in Nat, u \in Nat
<1>7. QED BY <1>1, <1>3, <1>6

LEMMA MultipleMod ==
  ASSUME NEW s \in Nat \ {0}, NEW q \in Nat
  PROVE  /\ s * q \in Nat /\ (s * q) % s = 0 /\ (s * q) \div s = q
         /\ (s * q + s) % s = 0
         /\ q > 0 => s * q - s \in Nat /\ (s * q - s) % s = 0
<1>1. s * q \in Nat /\ 0 \in 0 .. s - 1
  OBVIOUS
<1>2. \A k \in Nat : (s * k + 0) % s = 0 /\ (s * k + 0) \div s = k
  BY <1>1, ModUnique
<1>3. \A k \in Nat : s * k + 0 = s * k /\ s * k \in Nat
  OBVIOUS
<1>4. \A k \in Nat : (s * k) % s = 0 /\ (s * k) \div s = k
  BY <1>2, <1>3
<1>5. s * (q + 1) = s * q + s /\ q + 1 \in Nat
  OBVIOUS
<1>6. q > 0 => s * (q - 1) = s * q - s /\ q - 1 \in Nat
  OBVIOUS
<1>7. (s * q + s) % s = 0
  BY <1>4, <1>5
<1>8. q > 0 => s * q - s \in Nat /\ (s * q - s) % s = 0
  BY <1>3, <1>4, <1>6
<1>9. QED BY <1>1, <1>4, <1>7, <1>8

LEMMA OrderSizeFacts ==
  /\ Orders \subseteq Nat /\ Top \in Orders /\ 0 \in Orders
  /\ \A o \in 0 .. MaxOrder : OrderSize[o] \in Nat \ {0}
  /\ \A o \in Orders : /\ o \in 0 .. MaxOrder /\ o + 1 \in 0 .. MaxOrder
                       /\ OrderSize[o] \in Nat \ {0}
                       /\ OrderSize[o + 1] = 2 * OrderSize[o]
BY OrderSizeAssumption DEF Orders, Top

-----------------------------------------------------------------------------
(* One step of the merge loop: the pair made of the block at Level(off, k)
   and its buddy is the block of the next order at Level(off, k + 1). *)
LEMMA LevelStep ==
  ASSUME NEW off \in Nat, NEW k \in Orders
  PROVE  /\ Level(off, k) \in Nat /\ Level(off, k + 1) \in Nat
         /\ Aligned(Level(off, k), k) /\ Aligned(BuddyOf(Level(off, k), k), k)
         /\ \/ /\ Level(off, k + 1) = Level(off, k)
               /\ (off \div OrderSize[k]) % 2 = 0
               /\ BuddyOf(Level(off, k), k) = Level(off, k + 1) + OrderSize[k]
            \/ /\ Level(off, k) = Level(off, k + 1) + OrderSize[k]
               /\ (off \div OrderSize[k]) % 2 = 1
               /\ BuddyOf(Level(off, k), k) = Level(off, k + 1)
<1>1. PICK s \in Nat \ {0} : s = OrderSize[k] /\ OrderSize[k + 1] = 2 * s
  BY OrderSizeFacts
<1>2. PICK q \in Nat, r \in 0 .. s - 1 : off = s * q + r
  BY DivMod
<1>3. Level(off, k) = s * q /\ s * q \in Nat
  <2>1. off % s = r /\ off - r = s * q
    BY <1>2, ModUnique
  <2>2. s * q \in Nat
    BY MultipleMod
  <2>3. QED BY <1>1, <2>1, <2>2 DEF Level
<1>4. Aligned(s * q, k) /\ (s * q) \div OrderSize[k] = q /\ off \div OrderSize[k] = q
  <2>1. Aligned(s * q, k) /\ (s * q) \div OrderSize[k] = q
    BY <1>1, MultipleMod DEF Aligned
  <2>2. off \div s = q
    BY <1>2, Remainder
  <2>3. QED BY <1>1, <2>1, <2>2
<1>5. CASE q % 2 = 0
  <2>1. Level(off, k + 1) = s * q
    <3>1. off % (2 * s) = r /\ off - r = s * q
      BY <1>2, <1>5, DoubleModEven
    <3>2. QED BY <1>1, <3>1 DEF Level
  <2>2. BuddyOf(s * q, k) = s * q + s
    BY <1>1, <1>4, <1>5 DEF BuddyOf
  <2>3. Aligned(s * q + s, k)
    BY <1>1, MultipleMod DEF Aligned
  <2>4. QED BY <1>1, <1>3, <1>4, <1>5, <2>1, <2>2, <2>3
<1>6. CASE q % 2 = 1
  <2>1. off % (2 * s) = r + s
    BY <1>2, <1>6, DoubleModOdd
  <2>2. s * q + r - (r + s) = s * q - s
    BY <1>3
  <2>3. Level(off, k + 1) = s * q - s
    BY <1>1, <1>2, <2>1, <2>2 DEF Level
  <2>4. BuddyOf(s * q, k) = s * q - s
    BY <1>1, <1>4, <1>6 DEF BuddyOf
  <2>5. q > 0
    BY <1>6
  <2>6. s * q - s \in Nat /\ Aligned(s * q - s, k)
    BY <1>1, <2>5, MultipleMod DEF Aligned
  <2>7. s * q = (s * q - s) + s
    BY <1>3
  <2>8. QED BY <1>1, <1>3, <1>4, <1>6, <2>3, <2>4, <2>6, <2>7
<1>7. q % 2 = 0 \/ q % 2 = 1
  OBVIOUS
<1>8. QED BY <1>5, <1>6, <1>7

(* off ^ sz ^ sz = off. *)
LEMMA BuddyInvolution ==
  ASSUME NEW u \in Nat, NEW k \in Orders, Aligned(u, k)
  PROVE  /\ BuddyOf(u, k) \in Nat /\ BuddyOf(u, k) # u
         /\ BuddyOf(BuddyOf(u, k), k) = u
<1>1. PICK s \in Nat \ {0} : s = OrderSize[k]
  BY OrderSizeFacts
<1>2. PICK q \in Nat : u = s * q
  <2>1. u \div s \in Nat /\ u = s * (u \div s) + (u % s)
    BY DivMod
  <2>2. u % s = 0
    BY <1>1 DEF Aligned
  <2>3. s * (u \div s) + 0 = s * (u \div s)
    BY <2>1
  <2>4. QED BY <2>1, <2>2, <2>3
<1>3. u \div s = q
  BY <1>2, MultipleMod
<1>4. CASE q % 2 = 0
  <2>1. BuddyOf(u, k) = u + s
    BY <1>1, <1>3, <1>4 DEF BuddyOf
  <2>2. u + s = s * (q + 1) /\ q + 1 \in Nat /\ (q + 1) % 2 = 1
    BY <1>2, <1>4
  <2>3. (u + s) \div s = q + 1
    BY <2>2, MultipleMod
  <2>4. BuddyOf(u + s, k) = (u + s) - s
    BY <1>1, <2>2, <2>3 DEF BuddyOf
  <2>5. QED BY <2>1, <2>4
<1>5. CASE q % 2 = 1
  <2>1. BuddyOf(u, k) = u - s
    BY <1>1, <1>3, <1>5 DEF BuddyOf
  <2>2. q > 0 /\ q - 1 \in Nat /\ (q - 1) % 2 = 0
    BY <1>5
  <2>3. u - s = s * (q - 1) /\ u - s \in Nat
    BY <1>2, <2>2
  <2>4. (u - s) \div s = q - 1
    BY <2>2, <2>3, MultipleMod
  <2>5. BuddyOf(u - s, k) = (u - s) + s
    BY <1>1, <2>2, <2>4 DEF BuddyOf
  <2>6. QED BY <2>1, <2>3, <2>5
<1>6. q % 2 = 0 \/ q % 2 = 1
  OBVIOUS
<1>7. QED BY <1>4, <1>5, <1>6

(* The same step, seen as spans of units. *)
LEMMA LevelSpans ==
  ASSUME NEW off \in Nat, NEW k \in Orders, NEW w \in Int
  PROVE  /\ w \in Span(Level(off, k + 1), k + 1) <=>
              \/ w \in Span(Level(off, k), k)
              \/ w \in Span(BuddyOf(Level(off, k), k), k)
         /\ ~ ( /\ w \in Span(Level(off, k), k)
                /\ w \in Span(BuddyOf(Level(off, k), k), k) )
<1>1. OrderSize[k] \in Nat \ {0} /\ OrderSize[k + 1] = 2 * OrderSize[k]
  BY OrderSizeFacts
<1>2. QED BY <1>1, LevelStep DEF Span

(* Spans only grow along the loop. *)
LEMMA LevelNested ==
  ASSUME NEW off \in Nat, NEW m \in 0 .. MaxOrder, NEW j \in 0 .. m,
         NEW w \in Int, w \in Span(Level(off, j), j)
  PROVE  w \in Span(Level(off, m), m)
<1> DEFINE T == {k \in j .. m : w \notin Span(Level(off, k), k)}
<1>1. SUFFICES ASSUME w \notin Span(Level(off, m), m) PROVE FALSE
  OBVIOUS
<1>2. T \subseteq Nat /\ m \in T
  BY <1>1
<1>3. PICK k \in T : \A i \in T : k <= i
  BY <1>2, LeastElement
<1>4. k \in j .. m /\ k # j /\ k - 1 \in j .. m /\ k - 1 \in Orders
  BY OrderSizeAssumption DEF Orders
<1>5. w \in Span(Level(off, k - 1), k - 1)
  BY <1>3, <1>4
<1>6. (k - 1) + 1 = k
  BY <1>4
<1>7. w \in Span(Level(off, k), k)
  BY <1>4, <1>5, <1>6, LevelSpans
<1>8. QED BY <1>7

(* The block a merge from order o to order m ends with covers what it began
   with and the buddies it absorbed on the way ... *)
LEMMA MergeCovers ==
  ASSUME NEW o \in Orders, NEW m \in o .. MaxOrder, NEW off \in Nat, Aligned(off, o),
         NEW w \in Int
  PROVE  /\ Level(off, o) = off
         /\ w \in Span(Level(off, m), m) <=>
              \/ w \in Span(off, o)
              \/ \E k \in o .. m - 1 : w \in Span(BuddyOf(Level(off, k), k), k)
<1>1. Level(off, o) = off
  BY OrderSizeFacts DEF Level, Aligned
<1>2. ASSUME w \in Span(off, o) PROVE w \in Span(Level(off, m), m)
  BY <1>1, <1>2, LevelNested DEF Orders
<1>3. ASSUME NEW k \in o .. m - 1, w \in Span(BuddyOf(Level(off, k), k), k)
      PROVE  w \in Span(Level(off, m), m)
  <2>1. k \in Orders /\ k + 1 \in 0 .. m /\ m \in 0 .. MaxOrder
    BY OrderSizeAssumption DEF Orders
  <2>2. w \in Span(Level(off, k + 1), k + 1)
    BY <1>3, <2>1, LevelSpans
  <2>3. QED BY <2>1, <2>2, LevelNested
<1>4. ASSUME w \in Span(Level(off, m), m), w \notin Span(off, o)
      PROVE  \E k \in o .. m - 1 : w \in Span(BuddyOf(Level(off, k), k), k)
  <2> DEFINE T == {k \in o .. m : w \in Span(Level(off, k), k)}
  <2>1. T \subseteq Nat /\ m \in T
    BY <1>4, OrderSizeAssumption DEF Orders
  <2>2. PICK k \in T : \A i \in T : k <= i
    BY <2>1, LeastElement
  <2>3. k \in o .. m /\ k # o
    BY <1>1, <1>4
  <2>4. k - 1 \in o .. m - 1 /\ k - 1 \in Orders /\ (k - 1) + 1 = k
    BY <2>3, OrderSizeAssumption DEF Orders
  <2>5. w \notin Span(Level(off, k - 1), k - 1)
    BY <2>2, <2>4
  <2>6. w \in Span(BuddyOf(Level(off, k - 1), k - 1), k - 1)
    BY <2>2, <2>4, <2>5, LevelSpans
  <2>7. QED BY <2>4, <2>6
<1>5. QED BY <1>1, <1>2, <1>3, <1>4

(* ... and these are pairwise disjoint. *)
LEMMA MergeDisjoint ==
  ASSUME NEW o \in Orders, NEW m \in o .. MaxOrder, NEW off \in Nat, Aligned(off, o),
         NEW w \in Int, NEW k \in o .. m - 1, w \in Span(BuddyOf(Level(off, k), k), k)
  PROVE  /\ w \notin Span(off, o)
         /\ \A j \in o .. m - 1 : w \in Span(BuddyOf(Level(off, j), j), j) => j = k
<1>1. Level(off, o) = off
  BY MergeCovers
<1>2. k \in Orders
  BY OrderSizeAssumption DEF Orders
<1>3. w \notin Span(Level(off, k), k)
  BY <1>2, LevelSpans
<1>4. w \notin Span(off, o)
  <2>1. o \in 0 .. k /\ k \in 0 .. MaxOrder
    BY <1>2, OrderSizeAssumption DEF Orders
  <2>2. QED BY <1>1, <1>3, <2>1, LevelNested
<1>5. ASSUME NEW i \in o .. m - 1, NEW j \in o .. m - 1, i < j,
             w \in Span(BuddyOf(Level(off, i), i), i),
             w \in Span(BuddyOf(Level(off, j), j), j)
      PROVE  FALSE
  <2>1. i \in Orders /\ j \in Orders /\ i + 1 \in 0 .. j /\ j \in 0 .. MaxOrder
    BY <1>5, OrderSizeAssumption DEF Orders
  <2>2. w \in Span(Level(off, i + 1), i + 1)
    BY <1>5, <2>1, LevelSpans
  <2>3. w \in Span(Level(off, j), j)
    BY <2>1, <2>2, LevelNested
  <2>4. QED BY <1>5, <2>1, <2>3, LevelSpans
<1>6. ASSUME NEW j \in o .. m - 1, w \in Span(BuddyOf(Level(off, j), j), j)
      PROVE  j = k
  <2>1. j \in Int /\ k \in Int
    OBVIOUS
  <2>2. ~ (j < k) /\ ~ (k < j)
    BY <1>5, <1>6
  <2>3. QED BY <2>1, <2>2
<1>7. QED BY <1>4, <1>6

(* Wherever the loop stood at order j, it ends there or has cleared the tag
   of that place as the right half of a pair. *)
LEMMA LevelCleared ==
  ASSUME NEW off \in Nat, NEW m \in 0 .. MaxOrder, NEW j \in 0 .. m,
         Level(off, j) # Level(off, m)
  PROVE  \E k \in j .. m - 1 : Level(off, j) = Level(off, k + 1) + OrderSize[k]
<1> DEFINE T == {k \in j .. m : Level(off, k) # Level(off, j)}
<1>1. T \subseteq Nat /\ m \in T
  OBVIOUS
<1>2. PICK k \in T : \A i \in T : k <= i
  BY <1>1, LeastElement
<1>3. /\ k \in j .. m /\ k # j /\ k - 1 \in j .. m - 1 /\ k - 1 \in j .. m
      /\ k - 1 \in Orders /\ (k - 1) + 1 = k
  BY OrderSizeAssumption DEF Orders
<1>4. Level(off, k - 1) = Level(off, j)
  <2>1. ~ (k <= k - 1)
    BY <1>3
  <2>2. QED BY <1>2, <1>3, <2>1
<1>5. Level(off, k) # Level(off, k - 1)
  BY <1>2, <1>4
<1>6. Level(off, k - 1) = Level(off, k) + OrderSize[k - 1]
  BY <1>3, <1>5, LevelStep
<1>7. QED BY <1>3, <1>4, <1>6

-----------------------------------------------------------------------------
(* Blocks of a tiling may be exchanged for others that cover the same units. *)
LEMMA Retile ==
  ASSUME NEW S \in SUBSET (Units \X Orders), NEW R \in SUBSET S,
         NEW N \in SUBSET (Units \X Orders), Tiles(S),
         \A x \in N : Aligned(x[1], x[2]) /\ InPool(x[1], x[2]),
         \A u \in Units : (\E x \in R : u \in Span(x[1], x[2])) <=>
                          (\E x \in N : u \in Span(x[1], x[2])),
         \A u \in Units : \A x, y \in N :
           u \in Span(x[1], x[2]) /\ u \in Span(y[1], y[2]) => x = y
  PROVE  Tiles((S \ R) \union N)
<1> DEFINE New == (S \ R) \union N
<1>1. \A blk \in New : Aligned(blk[1], blk[2]) /\ InPool(blk[1], blk[2])
  BY DEF Tiles
<1>2. \A u \in Units : \E blk \in New : u \in Span(blk[1], blk[2])
  BY DEF Tiles
<1>3. ASSUME NEW u \in Units, NEW x \in New, NEW y \in New,
             u \in Span(x[1], x[2]), u \in Span(y[1], y[2])
      PROVE  x = y
  <2>1. CASE x \in N /\ y \in N
    BY <1>3, <2>1
  <2>2. CASE x \notin N /\ y \notin N
    BY <1>3, <2>2 DEF Tiles
  <2>3. ASSUME NEW n \in N, NEW z \in S \ R,
               u \in Span(n[1], n[2]), u \in Span(z[1], z[2])
        PROVE  FALSE
    <3>1. PICK r \in R : u \in Span(r[1], r[2])
      BY <2>3
    <3>2. r = z
      BY <2>3, <3>1 DEF Tiles
    <3>3. QED BY <2>3, <3>1, <3>2
  <2>4. QED BY <1>3, <2>1, <2>2, <2>3
<1>4. QED BY <1>1, <1>2, <1>3 DEF Tiles

(* The offset of the loop only falls as the order rises. *)
LEMMA LevelFalls ==
  ASSUME NEW off \in Nat, NEW m \in 0 .. MaxOrder, NEW j \in 0 .. m
  PROVE  Level(off, m) <= Level(off, j) /\ Level(off, m) \in Nat
<1>1. \A k \in Orders : /\ Level(off, k + 1) <= Level(off, k)
                        /\ Level(off, k) \in Nat /\ Level(off, k + 1) \in Nat
  <2>1. TAKE k \in Orders
  <2>2. OrderSize[k] \in Nat
    BY OrderSizeFacts
  <2>3. QED BY <2>2, LevelStep
<1>2. \A i \in 0 .. MaxOrder : Level(off, i) \in Nat
  <2>1. TAKE i \in 0 .. MaxOrder
  <2>2. CASE i = 0
    BY <1>1, <2>2, OrderSizeFacts
  <2>3. CASE i # 0
    <3>1. i - 1 \in Orders /\ (i - 1) + 1 = i
      BY <2>3, OrderSizeAssumption DEF Orders
    <3>2. QED BY <1>1, <3>1
  <2>4. QED BY <2>2, <2>3
<1> DEFINE T == {k \in j .. m : Level(off, k) > Level(off, j)}
<1>3. SUFFICES ASSUME Level(off, m) > Level(off, j) PROVE FALSE
  <2>1. m \in 0 .. MaxOrder /\ j \in 0 .. MaxOrder
    BY OrderSizeAssumption
  <2>2. QED BY <1>2, <2>1
<1>4. T \subseteq Nat /\ m \in T
  BY <1>3
<1>5. PICK k \in T : \A i \in T : k <= i
  BY <1>4, LeastElement
<1>6. j \in 0 .. MaxOrder /\ k \in 0 .. MaxOrder /\ k # j
  BY <1>2, OrderSizeAssumption
<1>7. k - 1 \in Orders /\ (k - 1) + 1 = k /\ k - 1 \in j .. m
  BY <1>6, OrderSizeAssumption DEF Orders
<1>8. ~ (Level(off, k - 1) > Level(off, j))
  BY <1>5, <1>7
<1>9. Level(off, k) <= Level(off, k - 1)
  BY <1>1, <1>7
<1>10. k - 1 \in 0 .. MaxOrder
  BY <1>7, OrderSizeAssumption DEF Orders
<1>11. Level(off, k) > Level(off, j)
  BY <1>5
<1>12. QED BY <1>2, <1>6, <1>8, <1>9, <1>10, <1>11

(* A block aligned to order m is aligned to every order below, and cut down to
   order o it leaves the right half at each order in between: what a split
   pushes and what growth in place absorbs. *)
LEMMA Halves ==
  ASSUME NEW m \in Orders, NEW o \in 0 .. m, NEW off \in Nat, Aligned(off, m)
  PROVE  /\ Aligned(off, o)
         /\ \A k \in o .. m - 1 : Aligned(off + OrderSize[k], k)
         /\ \A w \in Int : w \in Span(off, m) <=>
              \/ w \in Span(off, o)
              \/ \E k \in o .. m - 1 : w \in Span(off + OrderSize[k], k)
         /\ \A w \in Int : \A k \in o .. m - 1 : w \in Span(off + OrderSize[k], k) =>
              /\ w \notin Span(off, o)
              /\ \A j \in o .. m - 1 : w \in Span(off + OrderSize[j], j) => j = k
<1>1. /\ m \in 0 .. MaxOrder /\ o \in Orders /\ m \in o .. MaxOrder /\ 0 \in 0 .. m
      /\ m \in Nat /\ o \in Nat /\ MaxOrder \in Nat /\ m < MaxOrder
  BY OrderSizeAssumption DEF Orders
<1>2. Level(off, m) = off /\ Level(off, 0) = off
  BY OrderSizeFacts, OrderSizeAssumption, <1>1 DEF Level, Aligned
<1>3. \A k \in 0 .. m : Level(off, k) = off
  <2>1. TAKE k \in 0 .. m
  <2>2. k \in 0 .. MaxOrder /\ 0 \in 0 .. k
    BY <1>1
  <2>3. Level(off, m) <= Level(off, k) /\ Level(off, k) <= Level(off, 0)
    BY <1>1, <2>2, LevelFalls
  <2>4. Level(off, k) \in Nat
    BY <2>2, LevelFalls
  <2>5. QED BY <1>2, <2>3, <2>4
<1>4. \A k \in 0 .. m - 1 : BuddyOf(Level(off, k), k) = off + OrderSize[k]
  <2>1. TAKE k \in 0 .. m - 1
  <2>2. k \in Orders /\ k \in 0 .. m /\ k + 1 \in 0 .. m
    BY <1>1 DEF Orders
  <2>3. OrderSize[k] \in Nat \ {0} /\ Level(off, k) = off /\ Level(off, k + 1) = off
    BY <1>3, <2>2, OrderSizeFacts
  <2>4. ~ (Level(off, k) = Level(off, k + 1) + OrderSize[k])
    BY <2>3
  <2>5. BuddyOf(Level(off, k), k) = Level(off, k + 1) + OrderSize[k]
    BY <2>2, <2>4, LevelStep
  <2>6. QED BY <2>3, <2>5
<1>5. \A k \in 0 .. m : k \in Orders => Aligned(off, k)
  <2>1. TAKE k \in 0 .. m
  <2>2. SUFFICES ASSUME k \in Orders PROVE Aligned(off, k)
    OBVIOUS
  <2>3. Aligned(Level(off, k), k)
    BY <2>2, LevelStep
  <2>4. QED BY <1>3, <2>3
<1>6. Aligned(off, o)
  BY <1>1, <1>5
<1>7. \A k \in o .. m - 1 : k \in Orders /\ k \in 0 .. m - 1
  BY <1>1 DEF Orders
<1>8. \A k \in o .. m - 1 : Aligned(off + OrderSize[k], k)
  BY <1>4, <1>7, LevelStep
<1>9. ASSUME NEW w \in Int
      PROVE  w \in Span(off, m) <=>
               \/ w \in Span(off, o)
               \/ \E k \in o .. m - 1 : w \in Span(off + OrderSize[k], k)
  <2>1. w \in Span(Level(off, m), m) <=>
          \/ w \in Span(off, o)
          \/ \E k \in o .. m - 1 : w \in Span(BuddyOf(Level(off, k), k), k)
    BY <1>1, <1>6, MergeCovers
  <2>2. QED BY <1>2, <1>4, <1>7, <2>1
<1>10. ASSUME NEW w \in Int, NEW k \in o .. m - 1, w \in Span(off + OrderSize[k], k)
       PROVE  /\ w \notin Span(off, o)
              /\ \A j \in o .. m - 1 : w \in Span(off + OrderSize[j], j) => j = k
  <2>1. w \in Span(BuddyOf(Level(off, k), k), k)
    BY <1>4, <1>7, <1>10
  <2>2. /\ w \notin Span(off, o)
        /\ \A j \in o .. m - 1 : w \in Span(BuddyOf(Level(off, j), j), j) => j = k
    BY <1>1, <1>6, <2>1, MergeDisjoint
  <2>3. QED BY <1>4, <1>7, <2>2
<1>11. QED BY <1>6, <1>8, <1>9, <1>10

SeedBlocks == {<<SeedOff(o), o>> : o \in {p \in Orders : SeedBit(p)}}

(* The blocks __seed pushes tile the pool. *)
LEMMA SeedTiles == SeedBlocks \in SUBSET (Units \X Orders) /\ Tiles(SeedBlocks)
<1> DEFINE L(k) == Level(Total, k)
<1>0. Total \in Nat
  BY TotalAssumption
<1>1. \A k \in Orders :
        /\ L(k) \in Nat /\ L(k + 1) \in Nat /\ Aligned(SeedOff(k), k)
        /\ SeedBit(k)   => L(k) = SeedOff(k) + OrderSize[k]
        /\ ~ SeedBit(k) => L(k) = L(k + 1)
  BY <1>0, LevelStep DEF SeedOff, SeedBit
<1>2. L(0) = Total
  BY <1>0, OrderSizeAssumption DEF Level
<1>3. L(MaxOrder) = 0
  <2>1. OrderSize[MaxOrder] \in Nat \ {0} /\ Total < OrderSize[MaxOrder]
    BY OrderSizeAssumption, MaxOrderAssumption
  <2>2. Total % OrderSize[MaxOrder] = Total
    BY <1>0, <2>1
  <2>3. QED BY <1>0, <2>2 DEF Level
<1>4. \A k \in Orders : SeedBit(k) => InPool(SeedOff(k), k) /\ SeedOff(k) \in Units
  <2>1. SUFFICES ASSUME NEW k \in Orders, SeedBit(k)
                 PROVE  InPool(SeedOff(k), k) /\ SeedOff(k) \in Units
    OBVIOUS
  <2>2. L(k) <= L(0)
    <3>1. k \in 0 .. MaxOrder /\ 0 \in 0 .. k
      BY OrderSizeAssumption DEF Orders
    <3>2. QED BY <1>0, <3>1, LevelFalls
  <2>3. OrderSize[k] \in Nat \ {0} /\ SeedOff(k) \in Nat
    BY <1>1, OrderSizeFacts DEF SeedOff
  <2>4. SeedOff(k) + OrderSize[k] <= Total
    BY <1>1, <1>2, <2>1, <2>2
  <2>5. QED BY <1>0, <2>3, <2>4 DEF InPool, Units
<1>5. SeedBlocks \in SUBSET (Units \X Orders)
  BY <1>4 DEF SeedBlocks
<1>6. \A blk \in SeedBlocks : Aligned(blk[1], blk[2]) /\ InPool(blk[1], blk[2])
  BY <1>1, <1>4 DEF SeedBlocks
<1>7. ASSUME NEW u \in Units
      PROVE  \E blk \in SeedBlocks : u \in Span(blk[1], blk[2])
  <2> DEFINE T == {j \in 0 .. MaxOrder : L(j) <= u}
  <2>1. u \in Nat /\ u < Total
    BY <1>0 DEF Units
  <2>2. MaxOrder \in T /\ T \subseteq Nat
    BY <1>3, <2>1, OrderSizeAssumption
  <2>3. PICK j \in T : \A i \in T : j <= i
    BY <2>2, LeastElement
  <2>4. j # 0
    BY <1>0, <1>2, <2>1, <2>3
  <2>5. j - 1 \in Orders /\ (j - 1) + 1 = j /\ j - 1 \in 0 .. MaxOrder
    BY <2>4, OrderSizeAssumption DEF Orders
  <2>6. ~ (L(j - 1) <= u) /\ L(j) <= u
    BY <2>3, <2>5
  <2>7. SeedBit(j - 1)
    BY <1>1, <2>5, <2>6
  <2>8. u \in Span(SeedOff(j - 1), j - 1)
    <3>1. L(j - 1) = SeedOff(j - 1) + OrderSize[j - 1] /\ SeedOff(j - 1) = L(j)
      BY <1>1, <2>5, <2>7 DEF SeedOff
    <3>2. OrderSize[j - 1] \in Nat /\ L(j) \in Nat /\ L(j - 1) \in Nat
      BY <1>1, <2>5, OrderSizeFacts
    <3>3. QED BY <2>1, <2>6, <3>1, <3>2 DEF Span
  <2>9. <<SeedOff(j - 1), j - 1>> \in SeedBlocks
    BY <2>5, <2>7 DEF SeedBlocks
  <2>10. QED BY <2>8, <2>9
<1>8. ASSUME NEW u \in Units, NEW i \in Orders, NEW j \in Orders, i < j,
             SeedBit(i), SeedBit(j), u \in Span(SeedOff(i), i), u \in Span(SeedOff(j), j)
      PROVE  FALSE
  <2>1. L(j) <= L(i + 1)
    <3>1. j \in 0 .. MaxOrder /\ i + 1 \in 0 .. j
      BY <1>8, OrderSizeAssumption DEF Orders
    <3>2. QED BY <1>0, <3>1, LevelFalls
  <2>2. L(j) = SeedOff(j) + OrderSize[j] /\ SeedOff(i) = L(i + 1)
    BY <1>1, <1>8 DEF SeedOff
  <2>3. OrderSize[i] \in Nat /\ OrderSize[j] \in Nat /\ L(j) \in Nat /\ L(i + 1) \in Nat
        /\ SeedOff(j) \in Nat
    BY <1>1, OrderSizeFacts DEF SeedOff
  <2>4. QED BY <1>8, <2>1, <2>2, <2>3 DEF Span, Units
<1>9. ASSUME NEW u \in Units, NEW x \in SeedBlocks, NEW y \in SeedBlocks,
             u \in Span(x[1], x[2]), u \in Span(y[1], y[2])
      PROVE  x = y
  <2>1. PICK i \in Orders : SeedBit(i) /\ x = <<SeedOff(i), i>>
    BY DEF SeedBlocks
  <2>2. PICK j \in Orders : SeedBit(j) /\ y = <<SeedOff(j), j>>
    BY DEF SeedBlocks
  <2>3. u \in Span(SeedOff(i), i) /\ u \in Span(SeedOff(j), j)
    BY <1>9, <2>1, <2>2
  <2>4. ~ (i < j) /\ ~ (j < i)
    BY <1>8, <2>1, <2>2, <2>3
  <2>5. i \in Int /\ j \in Int
    BY DEF Orders
  <2>6. QED BY <2>1, <2>2, <2>4, <2>5
<1>10. QED BY <1>5, <1>6, <1>7, <1>9 DEF Tiles

-----------------------------------------------------------------------------
(***************************************************************************)
(* Splitting and merging.                                                  *)
(***************************************************************************)
WellFormed(b) ==
  /\ b \in PoolShapes
  /\ FreeListsMatchTags(b)
  /\ CachedUntagged(b)
  /\ MaskMatchesLists(b)
  /\ Tiles(Blocks(b))

LEMMA BlocksMember ==
  ASSUME NEW b \in PoolShapes, NEW u \in Units, NEW p \in Orders
  PROVE  <<u, p>> \in Blocks(b) <=>
           \/ b.tags[u] \in {Alloc(p), Sheet(p)}
           \/ u \in b.free[p]
           \/ u \in b.cache[p]
<1>1. b.tags[u] \in Tags
  BY DEF PoolShapes
<1>2. <<u, p>> \in InUseBlocks(b) <=> b.tags[u] \in {Alloc(p), Sheet(p)}
  BY <1>1 DEF InUseBlocks, Tags, Alloc, Sheet
<1>3. <<u, p>> \in FreeBlocks(b) <=> u \in b.free[p]
  BY DEF FreeBlocks
<1>4. <<u, p>> \in CachedBlocks(b) <=> u \in b.cache[p]
  BY DEF CachedBlocks
<1>5. QED BY <1>2, <1>3, <1>4 DEF Blocks

LEMMA BlocksInPool ==
  ASSUME NEW b \in PoolShapes
  PROVE  Blocks(b) \in SUBSET (Units \X Orders)
<1>1. InUseBlocks(b) \subseteq Units \X Orders
  BY DEF InUseBlocks, PoolShapes, Tags
<1>2. QED BY <1>1 DEF Blocks, FreeBlocks, CachedBlocks

(* Blocks of a tiling that share a unit are the same block. *)
LEMMA TilesUnique ==
  ASSUME NEW S \in SUBSET (Units \X Orders), Tiles(S),
         NEW u \in Units, NEW p \in Orders, <<u, p>> \in S,
         NEW v \in Units, NEW q \in Orders, <<v, q>> \in S,
         NEW w \in Units, w \in Span(u, p), w \in Span(v, q)
  PROVE  u = v /\ p = q
<1>1. <<u, p>> = <<v, q>>
  BY DEF Tiles
<1>2. QED BY <1>1

LEMMA SpanFacts ==
  ASSUME NEW u \in Units, NEW p \in Orders
  PROVE  /\ u \in Span(u, p) /\ u \in Int /\ OrderSize[p] \in Nat \ {0}
         /\ InPool(u, p) => Span(u, p) \subseteq Units
BY OrderSizeFacts, TotalAssumption DEF Span, InPool, Units

-----------------------------------------------------------------------------
LEMMA SplitGrant ==
  ASSUME NEW b, WellFormed(b), NEW o \in Orders, NEW from \in Orders, o <= from,
         NEW blk \in b.free[from]
  PROVE  WellFormed(Grant(TakeAndSplit(b, blk, from, o), blk, o))
<1> DEFINE H(j) == blk + OrderSize[j]
           halves == o .. from - 1
           c == TakeAndSplit(b, blk, from, o)
           d == Grant(c, blk, o)
           R == {<<blk, from>>}
           N == {<<blk, o>>} \union {<<H(j), j>> : j \in halves}
<1>1. b \in PoolShapes /\ blk \in Units /\ b.tags[blk] = Free(from)
  BY DEF WellFormed, FreeListsMatchTags, PoolShapes
<1>2. <<blk, from>> \in Blocks(b)
  BY <1>1, BlocksMember
<1>3. Aligned(blk, from) /\ InPool(blk, from) /\ blk \in Nat
  BY <1>1, <1>2, TotalAssumption DEF WellFormed, Tiles, Units
<1>4. halves \subseteq Orders /\ from \notin halves
  BY OrderSizeAssumption DEF Orders
<1>5. /\ Aligned(blk, o)
      /\ \A k \in halves : Aligned(H(k), k)
      /\ \A w \in Int : w \in Span(blk, from) <=>
           \/ w \in Span(blk, o)
           \/ \E k \in halves : w \in Span(H(k), k)
      /\ \A w \in Int : \A k \in halves : w \in Span(H(k), k) =>
           /\ w \notin Span(blk, o)
           /\ \A j \in halves : w \in Span(H(j), j) => j = k
  <2>1. o \in 0 .. from
    BY DEF Orders
  <2>2. QED BY <1>3, <2>1, Halves
<1>6. Span(blk, from) \subseteq Units
  BY <1>1, <1>3, SpanFacts
<1>7. \A k \in halves : H(k) \in Units /\ InPool(H(k), k) /\ H(k) \in Span(H(k), k)
                        /\ H(k) \in Span(blk, from) /\ H(k) # blk
  <2>1. TAKE k \in halves
  <2>2. OrderSize[k] \in Nat \ {0} /\ H(k) \in Int
    BY <1>3, <1>4, OrderSizeFacts
  <2>3. H(k) \in Span(H(k), k) /\ H(k) + OrderSize[k] - 1 \in Span(H(k), k)
    BY <2>2 DEF Span
  <2>4. H(k) \in Span(blk, from) /\ H(k) + OrderSize[k] - 1 \in Span(blk, from)
    BY <1>5, <2>2, <2>3
  <2>5. H(k) \in Units /\ H(k) + OrderSize[k] - 1 \in Units
    BY <1>6, <2>4
  <2>6. QED BY <1>3, <2>2, <2>3, <2>4, <2>5, TotalAssumption DEF Units, InPool
<1>8. InPool(blk, o) /\ blk \in Span(blk, o)
  <2>1. OrderSize[o] \in Nat \ {0}
    BY OrderSizeFacts
  <2>2. blk + OrderSize[o] - 1 \in Span(blk, o)
    BY <1>3, <2>1 DEF Span
  <2>3. blk + OrderSize[o] - 1 \in Units
    BY <1>3, <1>5, <1>6, <2>1, <2>2
  <2>4. QED BY <1>1, <2>1, <2>3, SpanFacts, TotalAssumption DEF Units, InPool
(* A block that starts inside the one split is that block. *)
<1>9. ASSUME NEW u \in Units, NEW p \in Orders, <<u, p>> \in Blocks(b), u \in Span(blk, from)
      PROVE  u = blk /\ p = from
  <2>1. Blocks(b) \in SUBSET (Units \X Orders) /\ Tiles(Blocks(b))
    BY <1>1, BlocksInPool DEF WellFormed
  <2>2. u \in Span(u, p)
    BY SpanFacts
  <2>3. QED BY <1>1, <1>2, <1>9, <2>1, <2>2, TilesUnique
<1>10. \A i, j \in halves : H(i) = H(j) => i = j
  BY <1>5, <1>7, SpanFacts
<1>11. \A j \in halves : (CHOOSE i \in halves : H(j) = blk + OrderSize[i]) = j
  BY <1>10
<1>12. /\ c.tags = [u \in Units |-> IF \E j \in halves : u = H(j)
                      THEN Free(CHOOSE j \in halves : u = H(j)) ELSE b.tags[u]]
       /\ c.free = [j \in Orders |->
                      IF j \in halves THEN b.free[j] \union {H(j)}
                      ELSE IF j = from THEN b.free[j] \ {blk} ELSE b.free[j]]
       /\ c.free_mask = (b.free_mask \ (IF b.free[from] = {blk} THEN {from} ELSE {}))
                          \union halves
       /\ c.cache = b.cache /\ c.cache_count = b.cache_count /\ c.allocated = b.allocated
       /\ d.free = c.free /\ d.free_mask = c.free_mask /\ d.cache = c.cache
       /\ d.cache_count = c.cache_count /\ d.allocated = c.allocated + OrderSize[o]
       /\ d.tags = [c.tags EXCEPT ![blk] = Alloc(o)]
  BY <1>1 DEF TakeAndSplit, Grant, PoolShapes
<1>13. /\ d.tags[blk] = Alloc(o)
       /\ \A j \in halves : d.tags[H(j)] = Free(j)
       /\ \A u \in Units : u \notin Span(blk, from) => d.tags[u] = b.tags[u]
       /\ \A u \in Units : u # blk /\ (\A j \in halves : u # H(j)) => d.tags[u] = b.tags[u]
  BY <1>1, <1>7, <1>11, <1>12, SpanFacts
<1>14. d \in PoolShapes
  <2>1. c.tags \in [Units -> Tags]
    <3>1. \A u \in Units : (\E j \in halves : u = H(j)) =>
                             (CHOOSE j \in halves : u = H(j)) \in Orders
      BY <1>4
    <3>2. \A j \in Orders : Free(j) \in Tags
      BY DEF Free, Tags
    <3>3. \A u \in Units : b.tags[u] \in Tags
      BY <1>1 DEF PoolShapes
    <3>4. QED BY <1>12, <3>1, <3>2, <3>3
  <2>2. d.tags \in [Units -> Tags]
    <3>1. Alloc(o) \in Tags
      BY DEF Alloc, Tags
    <3>2. QED BY <1>1, <1>12, <2>1, <3>1
  <2>3. c.free \in [Orders -> SUBSET Units]
    BY <1>1, <1>7, <1>12 DEF PoolShapes
  <2>4. c.free_mask \subseteq Orders
    BY <1>1, <1>4, <1>12 DEF PoolShapes
  <2>5. c.allocated + OrderSize[o] \in Int
    BY <1>1, <1>12, OrderSizeFacts DEF PoolShapes
  <2>6. QED BY <1>1, <1>12, <2>2, <2>3, <2>4, <2>5 DEF PoolShapes, TakeAndSplit, Grant
(* No other block starts inside the one split. *)
<1>15. ASSUME NEW u \in Units, NEW p \in Orders, u \in Span(blk, from), u # blk
       PROVE  u \notin b.free[p] /\ u \notin b.cache[p] /\ b.tags[u] \notin {Alloc(p), Sheet(p)}
  BY <1>1, <1>9, <1>15, BlocksMember
<1>16. FreeListsMatchTags(d)
  <2>1. SUFFICES ASSUME NEW u \in Units, NEW p \in Orders
                 PROVE  u \in d.free[p] <=> d.tags[u] = Free(p)
    BY DEF FreeListsMatchTags
  <2>2. u \in b.free[p] <=> b.tags[u] = Free(p)
    BY DEF WellFormed, FreeListsMatchTags
  <2>3. CASE u = blk
    BY <1>1, <1>7, <1>12, <1>13, <2>2, <2>3 DEF Alloc, Free
  <2>4. CASE \E j \in halves : u = H(j)
    <3>1. PICK j \in halves : u = H(j)
      BY <2>4
    <3>2. u \notin b.free[p]
      BY <1>7, <1>15, <3>1
    <3>3. u \in d.free[p] <=> p = j
      BY <1>7, <1>10, <1>12, <3>1, <3>2
    <3>4. d.tags[u] = Free(j)
      BY <1>13, <3>1
    <3>5. QED BY <3>3, <3>4 DEF Free
  <2>5. CASE u # blk /\ \A j \in halves : u # H(j)
    BY <1>12, <1>13, <2>2, <2>5
  <2>6. QED BY <2>3, <2>4, <2>5
<1>17. CachedUntagged(d)
  <2>1. SUFFICES ASSUME NEW p \in Orders, NEW u \in d.cache[p]
                 PROVE  d.tags[u] = NoTag /\ \A q \in Orders : u \in d.cache[q] => q = p
    BY DEF CachedUntagged
  <2>2. u \in b.cache[p] /\ u \in Units /\ b.tags[u] = NoTag
    BY <1>1, <1>12, <2>1 DEF WellFormed, CachedUntagged, PoolShapes
  <2>3. u \notin Span(blk, from)
    BY <1>1, <1>15, <2>2 DEF Free, NoTag
  <2>4. QED BY <1>12, <1>13, <2>2, <2>3 DEF WellFormed, CachedUntagged
<1>18. MaskMatchesLists(d)
  <2>1. b.free_mask = {q \in Orders : b.free[q] # {}}
    BY DEF WellFormed, MaskMatchesLists
  <2>2. SUFFICES ASSUME NEW q \in Orders PROVE q \in d.free_mask <=> d.free[q] # {}
    BY <1>14 DEF MaskMatchesLists, PoolShapes
  <2>3. CASE q \in halves
    <3>1. q \in d.free_mask
      BY <1>12, <2>3
    <3>2. H(q) \in d.free[q]
      BY <1>12, <2>3
    <3>3. QED BY <3>1, <3>2
  <2>4. CASE q = from
    <3>1. d.free[q] = b.free[q] \ {blk} /\ q \notin halves
      BY <1>4, <1>12, <2>4
    <3>2. q \in d.free_mask <=> b.free[q] # {blk}
      BY <1>12, <2>1, <2>4, <3>1
    <3>3. QED BY <2>4, <3>1, <3>2
  <2>5. CASE q \notin halves /\ q # from
    <3>1. d.free[q] = b.free[q]
      BY <1>12, <2>5
    <3>2. q \in d.free_mask <=> q \in b.free_mask
      BY <1>12, <2>5
    <3>3. QED BY <2>1, <3>1, <3>2
  <2>6. QED BY <2>3, <2>4, <2>5
<1>19. Blocks(d) = (Blocks(b) \ R) \union N
  <2>1. ASSUME NEW u \in Units, NEW p \in Orders
        PROVE  <<u, p>> \in Blocks(d) <=> <<u, p>> \in (Blocks(b) \ R) \union N
    <3>1. <<u, p>> \in Blocks(d) <=>
            d.tags[u] \in {Alloc(p), Sheet(p)} \/ u \in d.free[p] \/ u \in d.cache[p]
      BY <1>14, BlocksMember
    <3>2. <<u, p>> \in Blocks(b) <=>
            b.tags[u] \in {Alloc(p), Sheet(p)} \/ u \in b.free[p] \/ u \in b.cache[p]
      BY <1>1, BlocksMember
    <3>3. <<u, p>> \in N <=> (u = blk /\ p = o) \/ (p \in halves /\ u = H(p))
      OBVIOUS
    <3>4. u \in d.free[p] <=> d.tags[u] = Free(p)
      BY <1>16 DEF FreeListsMatchTags
    <3>5. CASE u = blk
      <4>1. u \notin d.cache[p]
        BY <1>13, <1>17, <3>5 DEF CachedUntagged, Alloc, NoTag
      <4>2. <<u, p>> \in Blocks(d) <=> p = o
        BY <1>13, <3>1, <3>4, <3>5, <4>1 DEF Alloc, Sheet, Free
      <4>3. <<u, p>> \in Blocks(b) => p = from
        BY <1>1, <1>3, <1>9, <3>5, SpanFacts
      <4>4. \A j \in halves : u # H(j)
        BY <1>7, <3>5
      <4>5. QED BY <3>3, <3>5, <4>2, <4>3, <4>4
    <3>6. CASE \E j \in halves : u = H(j)
      <4>1. PICK j \in halves : u = H(j)
        BY <3>6
      <4>2. u # blk /\ u \in Span(blk, from)
        BY <1>7, <4>1
      <4>3. u \notin d.cache[p]
        BY <1>12, <1>15, <4>2
      <4>4. <<u, p>> \in Blocks(d) <=> p = j
        <5>1. d.tags[u] = Free(j)
          BY <1>13, <4>1
        <5>2. QED BY <3>1, <3>4, <4>3, <5>1 DEF Alloc, Sheet, Free
      <4>5. <<u, p>> \notin Blocks(b)
        BY <1>9, <4>2
      <4>6. QED BY <1>10, <3>3, <4>1, <4>2, <4>4, <4>5
    <3>7. CASE u # blk /\ \A j \in halves : u # H(j)
      <4>1. d.tags[u] = b.tags[u]
        BY <1>13, <3>7
      <4>2. u \in d.free[p] <=> u \in b.free[p]
        BY <3>4, <4>1 DEF WellFormed, FreeListsMatchTags
      <4>3. <<u, p>> \in Blocks(d) <=> <<u, p>> \in Blocks(b)
        BY <1>12, <3>1, <3>2, <4>1, <4>2
      <4>4. QED BY <3>3, <3>7, <4>3
    <3>8. QED BY <3>5, <3>6, <3>7
  <2>2. Blocks(d) \subseteq Units \X Orders /\ Blocks(b) \subseteq Units \X Orders
    BY <1>1, <1>14, BlocksInPool
  <2>3. N \subseteq Units \X Orders
    BY <1>1, <1>4, <1>7
  <2>4. QED BY <2>1, <2>2, <2>3
<1>20. Tiles((Blocks(b) \ R) \union N)
  <2>1. Blocks(b) \in SUBSET (Units \X Orders) /\ R \in SUBSET Blocks(b)
    BY <1>1, <1>2, BlocksInPool
  <2>2. N \in SUBSET (Units \X Orders)
    BY <1>1, <1>4, <1>7
  <2>3. \A x \in N : Aligned(x[1], x[2]) /\ InPool(x[1], x[2])
    BY <1>5, <1>7, <1>8
  <2>4. \A u \in Units : (\E x \in R : u \in Span(x[1], x[2])) <=>
                         (\E x \in N : u \in Span(x[1], x[2]))
    <3>1. TAKE u \in Units
    <3>2. (\E x \in R : u \in Span(x[1], x[2])) <=> u \in Span(blk, from)
      OBVIOUS
    <3>3. (\E x \in N : u \in Span(x[1], x[2])) <=>
            u \in Span(blk, o) \/ \E k \in halves : u \in Span(H(k), k)
      <4>1. /\ <<blk, o>> \in N /\ \A k \in halves : <<H(k), k>> \in N
            /\ \A x \in N : x = <<blk, o>> \/ \E k \in halves : x = <<H(k), k>>
        OBVIOUS
      <4>2. (\E k \in halves : u \in Span(H(k), k)) => \E x \in N : u \in Span(x[1], x[2])
        <5>1. SUFFICES ASSUME NEW k \in halves, u \in Span(H(k), k)
                       PROVE  \E x \in N : u \in Span(x[1], x[2])
          OBVIOUS
        <5>2. WITNESS <<H(k), k>> \in N
        <5>3. QED BY <5>1
      <4>3. u \in Span(blk, o) => \E x \in N : u \in Span(x[1], x[2])
        <5>1. SUFFICES ASSUME u \in Span(blk, o) PROVE \E x \in N : u \in Span(x[1], x[2])
          OBVIOUS
        <5>2. WITNESS <<blk, o>> \in N
        <5>3. QED BY <5>1
      <4>4. ASSUME NEW x \in N, u \in Span(x[1], x[2])
            PROVE  u \in Span(blk, o) \/ \E k \in halves : u \in Span(H(k), k)
        <5>1. CASE x = <<blk, o>>
          BY <4>4, <5>1
        <5>2. ASSUME NEW k \in halves, x = <<H(k), k>>
              PROVE  u \in Span(H(k), k)
          BY <4>4, <5>2
        <5>3. QED BY <4>1, <5>1, <5>2
      <4>5. QED BY <4>2, <4>3, <4>4
    <3>4. u \in Int
      BY DEF Units
    <3>5. QED BY <1>5, <3>2, <3>3, <3>4
  <2>5. \A u \in Units : \A x, y \in N :
          u \in Span(x[1], x[2]) /\ u \in Span(y[1], y[2]) => x = y
    <3>1. SUFFICES ASSUME NEW u \in Units, NEW x \in N, NEW y \in N,
                          u \in Span(x[1], x[2]), u \in Span(y[1], y[2])
                   PROVE  x = y
      OBVIOUS
    <3>2. u \in Int
      BY DEF Units
    <3>3. CASE x = <<blk, o>>
      BY <1>5, <3>1, <3>2, <3>3
    <3>4. CASE y = <<blk, o>>
      BY <1>5, <3>1, <3>2, <3>4
    <3>5. ASSUME NEW i \in halves, NEW j \in halves, x = <<H(i), i>>, y = <<H(j), j>>
          PROVE  x = y
      <4>1. u \in Span(H(i), i) /\ u \in Span(H(j), j)
        BY <3>1, <3>5
      <4>2. i = j
        BY <1>5, <3>2, <4>1
      <4>3. QED BY <3>5, <4>2
    <3>6. QED BY <3>3, <3>4, <3>5
  <2>6. Tiles(Blocks(b))
    BY DEF WellFormed
  <2>7. QED BY ONLY <2>1, <2>2, <2>3, <2>4, <2>5, <2>6, Retile
<1>21. QED BY <1>14, <1>16, <1>17, <1>18, <1>19, <1>20 DEF WellFormed

-----------------------------------------------------------------------------
(* The merge loop stops, and has passed only orders it could merge at. *)
LEMMA MergeOrderFacts ==
  ASSUME NEW c, NEW off \in Nat, NEW o \in Orders
  PROVE  /\ MergeOrder(c, off, o) \in o .. Top
         /\ ~ CanMerge(c, off, MergeOrder(c, off, o))
         /\ \A k \in o .. MergeOrder(c, off, o) - 1 : CanMerge(c, off, k)
<1> DEFINE T == {k \in o .. Top : ~ CanMerge(c, off, k)}
<1>1. o \in Nat /\ Top \in Nat /\ o <= Top
  BY OrderSizeAssumption DEF Orders, Top
<1>2. T \subseteq Nat /\ Top \in T
  BY <1>1 DEF CanMerge
<1>3. PICK m \in T : \A i \in T : m <= i
  BY <1>2, LeastElement
<1>4. \A k \in o .. m - 1 : CanMerge(c, off, k)
  <2>1. TAKE k \in o .. m - 1
  <2>2. k \in o .. Top /\ ~ (m <= k)
    BY <1>1, <1>3
  <2>3. QED BY <1>3, <2>2
<1>5. \E n \in o .. Top : ~ CanMerge(c, off, n) /\ \A k \in o .. n - 1 : CanMerge(c, off, k)
  BY <1>3, <1>4
<1>6. QED BY <1>5 DEF MergeOrder

(* A block outside the lists and caches is merged and pushed.  It is either
   still tagged as in use (deallocate) or no longer tagged (flush_cache). *)
LEMMA MergeFree ==
  ASSUME NEW c \in PoolShapes,
         FreeListsMatchTags(c), CachedUntagged(c), MaskMatchesLists(c),
         NEW off \in Units, NEW o \in Orders,
         c.tags[off] \in {Alloc(o), Sheet(o), NoTag},
         \A p \in Orders : off \notin c.cache[p],
         Tiles(Blocks(c) \union {<<off, o>>})
  PROVE  /\ WellFormed(MergeAndFree(c, off, o))
         /\ FullyCoalesced(c) => FullyCoalesced(MergeAndFree(c, off, o))
<1> DEFINE m == MergeOrder(c, off, o)
           d == MergeAndFree(c, off, o)
           final == Level(off, m)
           passed == o .. m - 1
           B(k) == BuddyOf(Level(off, k), k)
           Rt(k) == Level(off, k + 1) + OrderSize[k]
           S == Blocks(c) \union {<<off, o>>}
           R == {<<off, o>>} \union {<<B(k), k>> : k \in passed}
           N == {<<final, m>>}
           starts == {final} \union {Rt(k) : k \in passed}
<1>1. /\ off \in Nat /\ o \in Nat /\ Top \in Nat /\ m \in o .. Top /\ m \in Orders
      /\ m \in o .. MaxOrder /\ m \in 0 .. MaxOrder /\ o \in 0 .. m /\ m \in Nat
      /\ passed \subseteq Orders /\ m \notin passed
  <2>1. off \in Nat /\ m \in o .. Top
    BY TotalAssumption, MergeOrderFacts DEF Units
  <2>2. MaxOrder \in Nat /\ Top = MaxOrder - 1 /\ Orders = 0 .. Top /\ o \in Nat
    BY OrderSizeAssumption DEF Orders, Top
  <2>3. m \in Nat /\ Top \in Nat /\ o <= m /\ m <= Top
    BY <2>1, <2>2
  <2>4. passed \subseteq Orders /\ m \notin passed
    BY <2>2, <2>3
  <2>5. m \in o .. MaxOrder /\ m \in 0 .. MaxOrder /\ o \in 0 .. m /\ m \in Orders
    BY <2>2, <2>3
  <2>6. QED BY <2>1, <2>2, <2>3, <2>4, <2>5
<1>2. /\ ~ CanMerge(c, off, m)
      /\ \A k \in passed : CanMerge(c, off, k)
  BY <1>1, MergeOrderFacts
<1>3. S \in SUBSET (Units \X Orders) /\ Tiles(S)
  BY BlocksInPool
<1>4. Aligned(off, o) /\ InPool(off, o)
  <2>1. <<off, o>> \in S
    OBVIOUS
  <2>2. QED BY <1>3, <2>1 DEF Tiles
<1>5. Level(off, o) = off
  BY <1>1, <1>4, OrderSizeFacts DEF Level, Aligned
<1>6. \A k \in passed : /\ B(k) \in Units /\ c.tags[B(k)] = Free(k) /\ B(k) \in c.free[k]
                        /\ <<B(k), k>> \in Blocks(c)
  <2>1. SUFFICES ASSUME NEW k \in passed
                 PROVE  /\ B(k) \in Units /\ c.tags[B(k)] = Free(k) /\ B(k) \in c.free[k]
                        /\ <<B(k), k>> \in Blocks(c)
    OBVIOUS
  <2>2. B(k) < Total /\ c.tags[B(k)] = Free(k)
    BY <1>2, <2>1 DEF CanMerge
  <2>3. k \in Orders /\ OrderSize[k] \in Nat
    BY <1>1, OrderSizeFacts
  <2>4. B(k) \in Nat
    <3>1. Level(off, k + 1) \in Nat /\ Level(off, k) \in Nat
      BY <1>1, <2>3, LevelStep
    <3>2. B(k) = Level(off, k + 1) + OrderSize[k] \/ B(k) = Level(off, k + 1)
      BY <1>1, <2>3, LevelStep
    <3>3. QED BY <2>3, <3>1, <3>2
  <2>5. B(k) \in Units
    BY <2>2, <2>4, TotalAssumption DEF Units
  <2>6. B(k) \in c.free[k]
    BY <2>2, <2>3, <2>5 DEF FreeListsMatchTags
  <2>7. QED BY <2>2, <2>3, <2>5, <2>6, BlocksMember
<1>7. \A w \in Int : w \in Span(final, m) <=>
        w \in Span(off, o) \/ \E k \in passed : w \in Span(B(k), k)
  BY <1>1, <1>4, MergeCovers
<1>8. R \in SUBSET S
  BY <1>6
<1>9. ASSUME NEW w \in Int, w \in Span(final, m)
      PROVE  \E x \in R : w \in Span(x[1], x[2])
  <2>1. CASE w \in Span(off, o)
    <3>1. <<off, o>> \in R
      OBVIOUS
    <3>2. QED BY <2>1, <3>1
  <2>2. ASSUME NEW k \in passed, w \in Span(B(k), k)
        PROVE  \E x \in R : w \in Span(x[1], x[2])
    <3>1. <<B(k), k>> \in R
      OBVIOUS
    <3>2. QED BY <2>2, <3>1
  <2>3. QED BY <1>7, <1>9, <2>1, <2>2
<1>10. ASSUME NEW x \in R, NEW w \in Int, w \in Span(x[1], x[2])
       PROVE  w \in Span(final, m)
  <2>1. CASE x = <<off, o>>
    BY <1>7, <1>10, <2>1
  <2>2. ASSUME NEW k \in passed, x = <<B(k), k>>
        PROVE  w \in Span(final, m)
    BY <1>7, <1>10, <2>2
  <2>3. QED BY <2>1, <2>2
<1>11. Span(final, m) \subseteq Units
  <2>1. SUFFICES ASSUME NEW w \in Span(final, m) PROVE w \in Units
    OBVIOUS
  <2>2. w \in Int
    BY <1>1, OrderSizeFacts, LevelStep DEF Span
  <2>3. PICK x \in R : w \in Span(x[1], x[2])
    BY <1>9, <2>1, <2>2
  <2>4. x \in S /\ x[1] \in Units /\ x[2] \in Orders /\ InPool(x[1], x[2])
    BY <1>3, <1>8 DEF Tiles
  <2>5. QED BY <2>3, <2>4, SpanFacts
<1>12. /\ final \in Nat /\ Aligned(final, m) /\ final \in Span(final, m) /\ final \in Units
       /\ InPool(final, m)
  <2>1. final \in Nat /\ Aligned(final, m) /\ OrderSize[m] \in Nat \ {0}
    BY <1>1, LevelStep, OrderSizeFacts
  <2>2. final \in Span(final, m) /\ final + OrderSize[m] - 1 \in Span(final, m)
    BY <2>1 DEF Span
  <2>3. final \in Units /\ final + OrderSize[m] - 1 \in Units
    BY <1>11, <2>2
  <2>4. QED BY <2>1, <2>2, <2>3, TotalAssumption DEF Units, InPool
(* Every block that starts inside the merged one has been merged. *)
<1>13. ASSUME NEW u \in Units, NEW p \in Orders, <<u, p>> \in S, u \in Span(final, m)
       PROVE  (u = off /\ p = o) \/ (p \in passed /\ u = B(p))
  <2>1. u \in Int
    BY DEF Units
  <2>2. PICK x \in R : u \in Span(x[1], x[2])
    BY <1>9, <1>13, <2>1
  <2>3. x \in S /\ u \in Span(u, p)
    BY <1>8, SpanFacts
  <2>4. x = <<u, p>>
    BY <1>3, <1>13, <2>2, <2>3 DEF Tiles
  <2>5. QED BY <2>4
(* The merged blocks started at final or at places whose tag was cleared. *)
<1>14. \A k \in passed : Rt(k) \in Span(final, m) /\ Rt(k) \in Units /\ Rt(k) # final
  <2>1. SUFFICES ASSUME NEW k \in passed
                 PROVE  Rt(k) \in Span(final, m) /\ Rt(k) \in Units /\ Rt(k) # final
    OBVIOUS
  <2>2. k \in Orders /\ OrderSize[k] \in Nat \ {0} /\ OrderSize[k + 1] = 2 * OrderSize[k]
        /\ Level(off, k + 1) \in Nat
    BY <1>1, OrderSizeFacts, LevelStep
  <2>3. Rt(k) \in Span(Level(off, k + 1), k + 1) /\ Rt(k) \in Int
    BY <2>2 DEF Span
  <2>4. k + 1 \in 0 .. m
    BY <1>1
  <2>5. Rt(k) \in Span(final, m)
    BY <1>1, <2>3, <2>4, LevelNested
  <2>6. final <= Level(off, k + 1)
    BY <1>1, <2>4, LevelFalls
  <2>7. QED BY <1>11, <1>12, <2>2, <2>5, <2>6
<1>15. \A j \in o .. m : Level(off, j) \in starts
  <2>1. SUFFICES ASSUME NEW j \in o .. m, Level(off, j) # final
                 PROVE  \E k \in passed : Level(off, j) = Rt(k)
    OBVIOUS
  <2>2. j \in 0 .. m
    BY <1>1
  <2>3. PICK k \in j .. m - 1 : Level(off, j) = Level(off, k + 1) + OrderSize[k]
    BY <1>1, <2>1, <2>2, LevelCleared
  <2>4. k \in passed
    BY <1>1
  <2>5. QED BY <2>3, <2>4
<1>16. off \in starts /\ \A k \in passed : B(k) \in starts
  <2>1. off \in starts
    BY <1>1, <1>5, <1>15
  <2>2. ASSUME NEW k \in passed PROVE B(k) \in starts
    <3>1. k \in Orders /\ k + 1 \in o .. m
      BY <1>1
    <3>2. B(k) = Rt(k) \/ B(k) = Level(off, k + 1)
      BY <1>1, <3>1, LevelStep
    <3>3. QED BY <1>15, <3>1, <3>2
  <2>3. QED BY <2>1, <2>2
<1>17. starts \subseteq Span(final, m) /\ starts \subseteq Units
  BY <1>12, <1>14
(* The result, field by field and start by start. *)
<1>18. /\ d.tags = [u \in Units |-> IF u = final THEN Free(m)
                      ELSE IF \E k \in passed : u = Rt(k) THEN NoTag ELSE c.tags[u]]
       /\ d.free = [k \in Orders |->
                      IF k \in passed THEN c.free[k] \ {B(k)}
                      ELSE IF k = m THEN c.free[k] \union {final} ELSE c.free[k]]
       /\ d.free_mask = (c.free_mask \ {k \in passed : c.free[k] = {B(k)}}) \union {m}
       /\ d.cache = c.cache /\ d.cache_count = c.cache_count /\ d.allocated = c.allocated
  BY DEF MergeAndFree, PoolShapes
<1>19. /\ d.tags[final] = Free(m)
       /\ \A k \in passed : d.tags[Rt(k)] = NoTag
       /\ \A u \in Units \ starts : d.tags[u] = c.tags[u]
  BY <1>12, <1>14, <1>18
<1>20. d \in PoolShapes
  <2>1. d.tags \in [Units -> Tags]
    <3>1. Free(m) \in Tags /\ NoTag \in Tags
      BY <1>1, OrderSizeFacts DEF Free, NoTag, Tags
    <3>2. \A u \in Units : c.tags[u] \in Tags
      BY DEF PoolShapes
    <3>3. QED BY <1>18, <3>1, <3>2
  <2>2. d.free \in [Orders -> SUBSET Units]
    BY <1>12, <1>18 DEF PoolShapes
  <2>3. d.free_mask \subseteq Orders
    BY <1>1, <1>18 DEF PoolShapes
  <2>4. QED BY <1>18, <2>1, <2>2, <2>3 DEF PoolShapes, MergeAndFree
(* What c says of a unit inside the merged block. *)
<1>21. ASSUME NEW u \in Units, NEW p \in Orders, u \in Span(final, m)
       PROVE  /\ u \in c.free[p] => p \in passed /\ u = B(p)
              /\ u \notin c.cache[p]
              /\ c.tags[u] \in {Alloc(p), Sheet(p)} => u = off /\ p = o
  <2>1. u \in c.free[p] => p \in passed /\ u = B(p)
    <3>1. SUFFICES ASSUME u \in c.free[p] PROVE p \in passed /\ u = B(p)
      OBVIOUS
    <3>2. c.tags[u] = Free(p)
      BY <3>1 DEF FreeListsMatchTags
    <3>3. u # off
      BY <3>2 DEF Free, Alloc, Sheet, NoTag
    <3>4. <<u, p>> \in S
      BY <3>1, BlocksMember
    <3>5. QED BY <1>13, <1>21, <3>3, <3>4
  <2>2. u \notin c.cache[p]
    <3>1. SUFFICES ASSUME u \in c.cache[p] PROVE FALSE
      OBVIOUS
    <3>2. <<u, p>> \in S /\ u # off
      BY <3>1, BlocksMember
    <3>3. p \in passed /\ u = B(p)
      BY <1>13, <1>21, <3>2
    <3>4. c.tags[u] = NoTag
      BY <3>1 DEF CachedUntagged
    <3>5. c.tags[u] = Free(p)
      BY <1>6, <3>3
    <3>6. QED BY <3>4, <3>5 DEF Free, NoTag
  <2>3. c.tags[u] \in {Alloc(p), Sheet(p)} => u = off /\ p = o
    <3>1. SUFFICES ASSUME c.tags[u] \in {Alloc(p), Sheet(p)} PROVE u = off /\ p = o
      OBVIOUS
    <3>2. <<u, p>> \in S
      BY <3>1, BlocksMember
    <3>3. ASSUME p \in passed, u = B(p) PROVE FALSE
      <4>1. c.tags[u] = Free(p)
        BY <1>6, <3>3
      <4>2. QED BY <3>1, <4>1 DEF Free, Alloc, Sheet
    <3>4. QED BY <1>13, <1>21, <3>2, <3>3
  <2>4. QED BY <2>1, <2>2, <2>3
<1>22. FreeListsMatchTags(d)
  <2>1. SUFFICES ASSUME NEW u \in Units, NEW p \in Orders
                 PROVE  u \in d.free[p] <=> d.tags[u] = Free(p)
    BY DEF FreeListsMatchTags
  <2>2. CASE u = final
    <3>1. d.tags[u] = Free(p) <=> p = m
      BY <1>19, <2>2 DEF Free
    <3>2. u \in c.free[p] => p \in passed /\ u = B(p)
      BY <1>12, <1>21, <2>2
    <3>3. QED BY <1>1, <1>18, <2>2, <3>1, <3>2
  <2>3. ASSUME NEW k \in passed, u = Rt(k)
        PROVE  u \in d.free[p] <=> d.tags[u] = Free(p)
    <3>1. d.tags[u] # Free(p)
      BY <1>19, <2>3 DEF NoTag, Free
    <3>2. u \in c.free[p] => p \in passed /\ u = B(p)
      BY <1>14, <1>21, <2>3
    <3>3. u # final
      BY <1>14, <2>3
    <3>4. QED BY <1>18, <3>1, <3>2, <3>3
  <2>4. CASE u \notin starts
    <3>1. d.tags[u] = c.tags[u]
      BY <1>19, <2>4
    <3>2. u \in d.free[p] <=> u \in c.free[p]
      BY <1>16, <1>18, <2>4
    <3>3. QED BY <3>1, <3>2 DEF FreeListsMatchTags
  <2>5. QED BY <2>2, <2>3, <2>4
<1>23. CachedUntagged(d)
  <2>1. SUFFICES ASSUME NEW p \in Orders, NEW u \in d.cache[p]
                 PROVE  d.tags[u] = NoTag /\ \A q \in Orders : u \in d.cache[q] => q = p
    BY DEF CachedUntagged
  <2>2. u \in c.cache[p] /\ u \in Units /\ c.tags[u] = NoTag
    BY <1>18, <2>1 DEF CachedUntagged, PoolShapes
  <2>3. u \notin starts
    BY <1>17, <1>21, <2>2
  <2>4. QED BY <1>18, <1>19, <2>2, <2>3 DEF CachedUntagged
<1>24. MaskMatchesLists(d)
  <2>1. c.free_mask = {q \in Orders : c.free[q] # {}}
    BY DEF MaskMatchesLists
  <2>2. SUFFICES ASSUME NEW q \in Orders PROVE q \in d.free_mask <=> d.free[q] # {}
    BY <1>20 DEF MaskMatchesLists, PoolShapes
  <2>3. CASE q \in passed
    <3>1. d.free[q] = c.free[q] \ {B(q)} /\ B(q) \in c.free[q]
      BY <1>6, <1>18, <2>3
    <3>2. q \in d.free_mask <=> c.free[q] # {B(q)}
      BY <1>1, <1>18, <2>1, <2>3, <3>1
    <3>3. QED BY <3>1, <3>2
  <2>4. CASE q \notin passed
    BY <1>18, <2>1, <2>4
  <2>5. QED BY <2>3, <2>4
<1>25. Blocks(d) = (S \ R) \union N
  <2>1. ASSUME NEW u \in Units, NEW p \in Orders
        PROVE  <<u, p>> \in Blocks(d) <=> <<u, p>> \in (S \ R) \union N
    <3>1. <<u, p>> \in Blocks(d) <=>
            d.tags[u] \in {Alloc(p), Sheet(p)} \/ u \in d.free[p] \/ u \in d.cache[p]
      BY <1>20, BlocksMember
    <3>2. <<u, p>> \in Blocks(c) <=>
            c.tags[u] \in {Alloc(p), Sheet(p)} \/ u \in c.free[p] \/ u \in c.cache[p]
      BY BlocksMember
    <3>3. u \in d.free[p] <=> d.tags[u] = Free(p)
      BY <1>22 DEF FreeListsMatchTags
    <3>4. u \in c.free[p] <=> c.tags[u] = Free(p)
      BY DEF FreeListsMatchTags
    <3>5. u \in Span(final, m) => u \notin d.cache[p] /\ <<u, p>> \notin S \ R
      BY <1>13, <1>18, <1>21
    <3>6. <<u, p>> \in N <=> u = final /\ p = m
      OBVIOUS
    <3>7. CASE u = final
      <4>1. d.tags[u] = Free(m)
        BY <1>19, <3>7
      <4>2. <<u, p>> \in Blocks(d) <=> p = m
        BY <1>12, <3>1, <3>3, <3>5, <3>7, <4>1 DEF Free, Alloc, Sheet
      <4>3. QED BY <1>12, <3>5, <3>6, <3>7, <4>2
    <3>8. ASSUME NEW k \in passed, u = Rt(k)
          PROVE  <<u, p>> \in Blocks(d) <=> <<u, p>> \in (S \ R) \union N
      <4>1. d.tags[u] = NoTag /\ u \in Span(final, m) /\ u # final
        BY <1>14, <1>19, <3>8
      <4>2. <<u, p>> \notin Blocks(d)
        BY <3>1, <3>3, <3>5, <4>1 DEF Free, Alloc, Sheet, NoTag
      <4>3. QED BY <3>5, <3>6, <4>1, <4>2
    <3>9. CASE u \notin starts
      <4>1. d.tags[u] = c.tags[u]
        BY <1>19, <3>9
      <4>2. <<u, p>> \in Blocks(d) <=> <<u, p>> \in Blocks(c)
        BY <1>18, <3>1, <3>2, <3>3, <3>4, <4>1
      <4>3. <<u, p>> \notin R /\ <<u, p>> \notin N /\ u # off
        BY <1>16, <3>6, <3>9
      <4>4. QED BY <4>2, <4>3
    <3>10. QED BY <3>7, <3>8, <3>9
  <2>2. Blocks(d) \subseteq Units \X Orders
    BY <1>20, BlocksInPool
  <2>3. N \subseteq Units \X Orders
    BY <1>1, <1>12
  <2>4. QED BY <1>3, <2>1, <2>2, <2>3
<1>26. Tiles((S \ R) \union N)
  <2>1. N \in SUBSET (Units \X Orders)
    BY <1>1, <1>12
  <2>2. \A x \in N : Aligned(x[1], x[2]) /\ InPool(x[1], x[2])
    BY <1>12
  <2>3. \A u \in Units : (\E x \in R : u \in Span(x[1], x[2])) <=>
                         (\E x \in N : u \in Span(x[1], x[2]))
    <3>1. TAKE u \in Units
    <3>2. u \in Int
      BY DEF Units
    <3>3. (\E x \in N : u \in Span(x[1], x[2])) <=> u \in Span(final, m)
      OBVIOUS
    <3>4. QED BY <1>9, <1>10, <3>2, <3>3
  <2>4. \A u \in Units : \A x, y \in N :
          u \in Span(x[1], x[2]) /\ u \in Span(y[1], y[2]) => x = y
    OBVIOUS
  <2>5. QED BY ONLY <1>3, <1>8, <2>1, <2>2, <2>3, <2>4, Retile
<1>27. WellFormed(d)
  BY <1>20, <1>22, <1>23, <1>24, <1>25, <1>26 DEF WellFormed
<1>28. ASSUME FullyCoalesced(c) PROVE FullyCoalesced(d)
  <2>1. SUFFICES ASSUME NEW k \in Orders, NEW u \in d.free[k], k < Top,
                        BuddyOf(u, k) \in d.free[k]
                 PROVE  FALSE
    BY DEF FullyCoalesced
  <2>2. CASE k # m
    <3>1. u \in c.free[k] /\ BuddyOf(u, k) \in c.free[k]
      BY <1>18, <2>1, <2>2
    <3>2. QED BY <1>28, <2>1, <3>1 DEF FullyCoalesced
  <2>3. CASE k = m
    <3>1. BuddyOf(final, m) \notin c.free[m]
      <4>1. SUFFICES ASSUME BuddyOf(final, m) \in c.free[m] PROVE FALSE
        OBVIOUS
      <4>2. BuddyOf(final, m) \in Units /\ c.tags[BuddyOf(final, m)] = Free(m)
        BY <1>1, <4>1 DEF PoolShapes, FreeListsMatchTags
      <4>3. BuddyOf(final, m) < Total
        BY <4>2, TotalAssumption DEF Units
      <4>4. QED BY <1>2, <2>1, <2>3, <4>2, <4>3 DEF CanMerge
    <3>2. u \in c.free[m] \union {final} /\ BuddyOf(u, m) \in c.free[m] \union {final}
      BY <1>1, <1>18, <2>1, <2>3
    <3>3. CASE u = final
      BY <1>1, <1>12, <3>1, <3>2, <3>3, BuddyInvolution
    <3>4. CASE u \in c.free[m] /\ BuddyOf(u, m) = final
      <4>1. u \in Units /\ <<u, m>> \in S
        BY <1>1, <3>4, BlocksMember DEF PoolShapes
      <4>2. Aligned(u, m) /\ u \in Nat
        BY <1>3, <4>1, TotalAssumption DEF Tiles, Units
      <4>3. BuddyOf(final, m) = u
        BY <1>1, <3>4, <4>2, BuddyInvolution
      <4>4. QED BY <3>1, <3>4, <4>3
    <3>5. CASE u \in c.free[m] /\ BuddyOf(u, m) \in c.free[m]
      BY <1>28, <2>1, <2>3, <3>5 DEF FullyCoalesced
    <3>6. QED BY <3>2, <3>3, <3>4, <3>5
  <2>4. QED BY <2>2, <2>3
<1>29. QED BY <1>27, <1>28

-----------------------------------------------------------------------------
(***************************************************************************)
(* The calls: splitting and merging as the calls compose them, with the    *)
(* cache, growth in place and the sheet marks.                             *)
(***************************************************************************)
(* A block in use is one of the blocks of the tiling and nothing else. *)
LEMMA InUseAlone ==
  ASSUME NEW b, WellFormed(b), NEW off \in Units, NEW o \in Orders,
         b.tags[off] \in {Alloc(o), Sheet(o)}
  PROVE  /\ <<off, o>> \in Blocks(b)
         /\ \A p \in Orders : off \notin b.free[p] /\ off \notin b.cache[p]
<1>1. b \in PoolShapes
  BY DEF WellFormed
<1>2. <<off, o>> \in Blocks(b)
  BY <1>1, BlocksMember
<1>3. \A p \in Orders : off \notin b.free[p]
  <2>1. SUFFICES ASSUME NEW p \in Orders, off \in b.free[p] PROVE FALSE
    OBVIOUS
  <2>2. b.tags[off] = Free(p)
    BY <2>1 DEF WellFormed, FreeListsMatchTags
  <2>3. QED BY <2>2 DEF Alloc, Sheet, Free
<1>4. \A p \in Orders : off \notin b.cache[p]
  <2>1. SUFFICES ASSUME NEW p \in Orders, off \in b.cache[p] PROVE FALSE
    OBVIOUS
  <2>2. b.tags[off] = NoTag
    BY <2>1 DEF WellFormed, CachedUntagged
  <2>3. QED BY <2>2 DEF Alloc, Sheet, NoTag
<1>5. QED BY <1>2, <1>3, <1>4

(* A pool that differs only in its counters. *)
LEMMA SameShape ==
  ASSUME NEW b, WellFormed(b), NEW c \in PoolShapes,
         c.tags = b.tags, c.free = b.free, c.free_mask = b.free_mask, c.cache = b.cache
  PROVE  WellFormed(c) /\ (FullyCoalesced(b) => FullyCoalesced(c))
<1>1. Blocks(c) = Blocks(b)
  BY DEF Blocks, InUseBlocks, FreeBlocks, CachedBlocks
<1>2. QED
  BY <1>1 DEF WellFormed, FreeListsMatchTags, CachedUntagged, MaskMatchesLists, FullyCoalesced

-----------------------------------------------------------------------------
(* The pool __setup leaves: seeded, nothing cached, nothing in use. *)
LEMMA FreshPool == WellFormed(Fresh) /\ FullyCoalesced(Fresh)
<1>1. SeedBlocks \in SUBSET (Units \X Orders) /\ Tiles(SeedBlocks)
  BY SeedTiles
<1>2. \A o \in Orders : SeedBit(o) => SeedOff(o) \in Units /\ <<SeedOff(o), o>> \in SeedBlocks
  <2>1. SUFFICES ASSUME NEW o \in Orders, SeedBit(o)
                 PROVE  SeedOff(o) \in Units /\ <<SeedOff(o), o>> \in SeedBlocks
    OBVIOUS
  <2>2. <<SeedOff(o), o>> \in SeedBlocks
    BY <2>1 DEF SeedBlocks
  <2>3. QED BY <1>1, <2>2
<1>3. \A o, p \in Orders : SeedBit(o) /\ SeedBit(p) /\ SeedOff(o) = SeedOff(p) => o = p
  <2>1. SUFFICES ASSUME NEW o \in Orders, NEW p \in Orders, SeedBit(o), SeedBit(p),
                        SeedOff(o) = SeedOff(p)
                 PROVE  o = p
    OBVIOUS
  <2>2. SeedOff(o) \in Span(SeedOff(o), o) /\ SeedOff(p) \in Span(SeedOff(p), p)
    BY <1>2, <2>1, SpanFacts
  <2>3. QED BY <1>1, <1>2, <2>1, <2>2, TilesUnique
<1>4. \A u \in Units : \A o \in Orders :
        Fresh.tags[u] = Free(o) <=> SeedBit(o) /\ SeedOff(o) = u
  <2>1. SUFFICES ASSUME NEW u \in Units, NEW o \in Orders
                 PROVE  Fresh.tags[u] = Free(o) <=> SeedBit(o) /\ SeedOff(o) = u
    OBVIOUS
  <2>2. CASE \E p \in Orders : SeedBit(p) /\ SeedOff(p) = u
    <3>1. PICK p \in Orders : SeedBit(p) /\ SeedOff(p) = u
      BY <2>2
    <3>2. (CHOOSE q \in Orders : SeedBit(q) /\ SeedOff(q) = u) = p
      BY <1>3, <3>1
    <3>3. Fresh.tags[u] = Free(p)
      BY <2>2, <3>2 DEF Fresh
    <3>4. Free(p) = Free(o) <=> p = o
      BY DEF Free
    <3>5. QED BY <1>3, <3>1, <3>3, <3>4
  <2>3. CASE ~ \E p \in Orders : SeedBit(p) /\ SeedOff(p) = u
    <3>1. Fresh.tags[u] = NoTag
      BY <2>3 DEF Fresh
    <3>2. QED BY <2>3, <3>1 DEF Free, NoTag
  <2>4. QED BY <2>2, <2>3
<1>5. \A u \in Units : Fresh.tags[u] = NoTag \/ \E p \in Orders : Fresh.tags[u] = Free(p)
  <2>1. SUFFICES ASSUME NEW u \in Units
                 PROVE  Fresh.tags[u] = NoTag \/ \E p \in Orders : Fresh.tags[u] = Free(p)
    OBVIOUS
  <2>2. CASE \E p \in Orders : SeedBit(p) /\ SeedOff(p) = u
    BY <1>4, <2>2
  <2>3. CASE ~ \E p \in Orders : SeedBit(p) /\ SeedOff(p) = u
    BY <2>3 DEF Fresh
  <2>4. QED BY <2>2, <2>3
<1>6. /\ Fresh.free = [o \in Orders |-> IF SeedBit(o) THEN {SeedOff(o)} ELSE {}]
      /\ Fresh.free_mask = {o \in Orders : SeedBit(o)}
      /\ Fresh.cache = [o \in Orders |-> {}]
  BY DEF Fresh
<1>7. Fresh \in PoolShapes
  <2>1. NoTag \in Tags /\ \A o \in Orders : Free(o) \in Tags
    BY OrderSizeFacts DEF Tags, NoTag, Free
  <2>2. Fresh.tags \in [Units -> Tags]
    <3>1. Fresh.tags = [u \in Units |-> Fresh.tags[u]]
      BY DEF Fresh
    <3>2. \A u \in Units : Fresh.tags[u] \in Tags
      BY <1>5, <2>1
    <3>3. QED BY <3>1, <3>2
  <2>3. Fresh.free \in [Orders -> SUBSET Units]
    <3>1. \A o \in Orders : (IF SeedBit(o) THEN {SeedOff(o)} ELSE {}) \in SUBSET Units
      BY <1>2
    <3>2. QED BY <1>6, <3>1
  <2>4. QED BY <1>6, <2>2, <2>3 DEF Fresh, PoolShapes
<1>8. FreeListsMatchTags(Fresh)
  BY <1>4, <1>6 DEF FreeListsMatchTags
<1>9. CachedUntagged(Fresh) /\ MaskMatchesLists(Fresh)
  BY <1>6 DEF CachedUntagged, MaskMatchesLists
<1>10. Blocks(Fresh) = SeedBlocks
  <2>1. ASSUME NEW u \in Units, NEW o \in Orders
        PROVE  <<u, o>> \in Blocks(Fresh) <=> <<u, o>> \in SeedBlocks
    <3>1. Fresh.tags[u] \notin {Alloc(o), Sheet(o)}
      <4>1. CASE Fresh.tags[u] = NoTag
        BY <4>1 DEF Alloc, Sheet, NoTag
      <4>2. ASSUME NEW p \in Orders, Fresh.tags[u] = Free(p)
            PROVE  Fresh.tags[u] \notin {Alloc(o), Sheet(o)}
        BY <4>2 DEF Alloc, Sheet, Free
      <4>3. QED BY <1>5, <4>1, <4>2
    <3>2. <<u, o>> \in Blocks(Fresh) <=> SeedBit(o) /\ SeedOff(o) = u
      BY <1>6, <1>7, <3>1, BlocksMember
    <3>3. <<u, o>> \in SeedBlocks <=> SeedBit(o) /\ SeedOff(o) = u
      BY DEF SeedBlocks
    <3>4. QED BY <3>2, <3>3
  <2>2. QED BY <1>1, <1>7, <2>1, BlocksInPool
<1>11. FullyCoalesced(Fresh)
  <2>1. SUFFICES ASSUME NEW o \in Orders, NEW u \in Fresh.free[o], o < Top,
                        BuddyOf(u, o) \in Fresh.free[o]
                 PROVE  FALSE
    BY DEF FullyCoalesced
  <2>2. SeedBit(o) /\ u = SeedOff(o) /\ BuddyOf(u, o) = u
    BY <1>6, <2>1
  <2>3. u \in Nat /\ Aligned(u, o)
    <3>1. u \in Units /\ <<u, o>> \in SeedBlocks
      BY <1>2, <2>2
    <3>2. \A x \in SeedBlocks : Aligned(x[1], x[2])
      BY <1>1 DEF Tiles
    <3>3. QED BY <3>1, <3>2, TotalAssumption DEF Units
  <2>4. QED BY <2>2, <2>3, BuddyInvolution
<1>12. QED BY <1>1, <1>7, <1>8, <1>9, <1>10, <1>11 DEF WellFormed

-----------------------------------------------------------------------------
(* find_free_order returns the lowest order with a block, if there is one. *)
LEMMA FindFreeOrderFacts ==
  ASSUME NEW b, WellFormed(b), NEW o \in Orders, FindFreeOrder(b, o) < MaxOrder
  PROVE  /\ FindFreeOrder(b, o) \in Orders /\ o <= FindFreeOrder(b, o)
         /\ b.free[FindFreeOrder(b, o)] # {}
         /\ \A j \in Orders : o <= j /\ j < FindFreeOrder(b, o) => b.free[j] = {}
<1>1. b.free_mask = {q \in Orders : b.free[q] # {}}
  BY DEF WellFormed, MaskMatchesLists
<1>2. FreeOrders(b, o) # {} /\ FreeOrders(b, o) \subseteq Nat
  BY <1>1, OrderSizeAssumption DEF FindFreeOrder, FreeOrders, Orders
<1>3. PICK f \in FreeOrders(b, o) : \A j \in FreeOrders(b, o) : f <= j
  BY <1>2, LeastElement
<1>4. FindFreeOrder(b, o) = CHOOSE i \in FreeOrders(b, o) : \A j \in FreeOrders(b, o) : i <= j
  BY <1>2 DEF FindFreeOrder
<1>5. /\ FindFreeOrder(b, o) \in FreeOrders(b, o)
      /\ \A j \in FreeOrders(b, o) : FindFreeOrder(b, o) <= j
  BY <1>3, <1>4
<1>6. \A j \in Orders : o <= j /\ j < FindFreeOrder(b, o) => b.free[j] = {}
  <2>1. SUFFICES ASSUME NEW j \in Orders, o <= j, j < FindFreeOrder(b, o), b.free[j] # {}
                 PROVE  FALSE
    OBVIOUS
  <2>2. j \in FreeOrders(b, o)
    BY <1>1, <2>1 DEF FreeOrders
  <2>3. FindFreeOrder(b, o) <= j /\ FindFreeOrder(b, o) \in Nat /\ j \in Nat
    BY <1>2, <1>5, <2>2
  <2>4. QED BY <2>1, <2>3
<1>7. QED BY <1>1, <1>5, <1>6 DEF FreeOrders

(* Splitting a block of the lowest order that has one leaves no two free
   buddies: each right half enters an empty list. *)
LEMMA SplitCoalesced ==
  ASSUME NEW b, WellFormed(b), FullyCoalesced(b), NEW o \in Orders,
         FindFreeOrder(b, o) < MaxOrder, NEW blk \in b.free[FindFreeOrder(b, o)]
  PROVE  FullyCoalesced(Grant(TakeAndSplit(b, blk, FindFreeOrder(b, o), o), blk, o))
<1> DEFINE from == FindFreeOrder(b, o)
           H(j) == blk + OrderSize[j]
           halves == o .. from - 1
           d == Grant(TakeAndSplit(b, blk, from, o), blk, o)
<1>1. /\ from \in Orders /\ o <= from
      /\ \A j \in Orders : o <= j /\ j < from => b.free[j] = {}
  BY FindFreeOrderFacts
<1>2. b \in PoolShapes /\ blk \in Units /\ <<blk, from>> \in Blocks(b)
  <2>1. b \in PoolShapes /\ blk \in Units
    BY <1>1 DEF WellFormed, PoolShapes
  <2>2. QED BY <1>1, <2>1, BlocksMember
<1>3. Aligned(blk, from) /\ blk \in Nat
  BY <1>2, TotalAssumption DEF WellFormed, Tiles, Units
<1>4. \A k \in halves : Aligned(H(k), k)
  <2>1. o \in 0 .. from
    BY <1>1 DEF Orders
  <2>2. QED BY <1>1, <1>3, <2>1, Halves
<1>5. d.free = [j \in Orders |->
                  IF j \in halves THEN b.free[j] \union {H(j)}
                  ELSE IF j = from THEN b.free[j] \ {blk} ELSE b.free[j]]
  BY <1>2 DEF TakeAndSplit, Grant, PoolShapes
<1>6. SUFFICES ASSUME NEW j \in Orders, NEW u \in d.free[j], j < Top,
                      BuddyOf(u, j) \in d.free[j]
               PROVE  FALSE
  BY DEF FullyCoalesced
<1>7. CASE j \in halves
  <2>1. b.free[j] = {}
    BY <1>1, <1>7 DEF Orders
  <2>2. u = H(j) /\ BuddyOf(u, j) = u
    BY <1>5, <1>6, <1>7, <2>1
  <2>3. H(j) \in Nat
    BY <1>3, OrderSizeFacts
  <2>4. QED BY <1>4, <1>7, <2>2, <2>3, BuddyInvolution
<1>8. CASE j \notin halves
  <2>1. u \in b.free[j] /\ BuddyOf(u, j) \in b.free[j]
    BY <1>5, <1>6, <1>8
  <2>2. QED BY <1>6, <2>1 DEF FullyCoalesced
<1>9. QED BY <1>7, <1>8

-----------------------------------------------------------------------------
(* The cache: a hit hands out the cached block. *)
LEMMA PopGrant ==
  ASSUME NEW b, WellFormed(b), NEW o \in Orders, NEW blk \in b.cache[o]
  PROVE  LET d == Grant(CachePop(b, blk, o), blk, o)
         IN  WellFormed(d) /\ (FullyCoalesced(b) => FullyCoalesced(d))
<1> DEFINE d == Grant(CachePop(b, blk, o), blk, o)
<1>1. /\ b \in PoolShapes /\ blk \in Units /\ b.tags[blk] = NoTag
      /\ \A p \in Orders : blk \in b.cache[p] => p = o
  BY DEF WellFormed, CachedUntagged, PoolShapes
<1>2. \A p \in Orders : blk \notin b.free[p]
  <2>1. SUFFICES ASSUME NEW p \in Orders, blk \in b.free[p] PROVE FALSE
    OBVIOUS
  <2>2. b.tags[blk] = Free(p)
    BY <1>1, <2>1 DEF WellFormed, FreeListsMatchTags
  <2>3. QED BY <1>1, <2>2 DEF NoTag, Free
<1>3. /\ d.tags = [b.tags EXCEPT ![blk] = Alloc(o)]
      /\ d.free = b.free /\ d.free_mask = b.free_mask
      /\ d.cache = [b.cache EXCEPT ![o] = b.cache[o] \ {blk}]
      /\ d.cache_count = [b.cache_count EXCEPT ![o] =
                            IF b.cache[o] \ {blk} = {} THEN 0 ELSE b.cache_count[o] - 1]
      /\ d.allocated = b.allocated + OrderSize[o]
  BY <1>1 DEF Grant, CachePop, PoolShapes
<1>4. d \in PoolShapes
  <2>1. Alloc(o) \in Tags
    BY DEF Alloc, Tags
  <2>2. d.tags \in [Units -> Tags] /\ d.cache \in [Orders -> SUBSET Units]
    BY <1>1, <1>3, <2>1 DEF PoolShapes
  <2>3. d.cache_count \in [Orders -> Int]
    BY <1>1, <1>3 DEF PoolShapes
  <2>4. d.allocated \in Int
    BY <1>1, <1>3, OrderSizeFacts DEF PoolShapes
  <2>5. QED BY <1>1, <1>3, <2>2, <2>3, <2>4 DEF PoolShapes, Grant, CachePop
<1>5. FreeListsMatchTags(d)
  <2>1. SUFFICES ASSUME NEW u \in Units, NEW p \in Orders
                 PROVE  u \in d.free[p] <=> d.tags[u] = Free(p)
    BY DEF FreeListsMatchTags
  <2>2. u \in b.free[p] <=> b.tags[u] = Free(p)
    BY DEF WellFormed, FreeListsMatchTags
  <2>3. CASE u = blk
    <3>1. d.tags[u] = Alloc(o)
      BY <1>1, <1>3, <2>3 DEF PoolShapes
    <3>2. QED BY <1>2, <1>3, <2>3, <3>1 DEF Alloc, Free
  <2>4. CASE u # blk
    BY <1>1, <1>3, <2>2, <2>4 DEF PoolShapes
  <2>5. QED BY <2>3, <2>4
<1>6. CachedUntagged(d) /\ MaskMatchesLists(d)
  <2>1. \A p \in Orders : \A u \in d.cache[p] : u \in b.cache[p] /\ u # blk /\ u \in Units
    BY <1>1, <1>3 DEF PoolShapes
  <2>2. \A u \in Units : u # blk => d.tags[u] = b.tags[u]
    BY <1>1, <1>3 DEF PoolShapes
  <2>3. CachedUntagged(d)
    BY <2>1, <2>2 DEF WellFormed, CachedUntagged
  <2>4. QED BY <1>3, <2>3 DEF WellFormed, MaskMatchesLists
<1>7. Blocks(d) = Blocks(b)
  <2>1. ASSUME NEW u \in Units, NEW p \in Orders
        PROVE  <<u, p>> \in Blocks(d) <=> <<u, p>> \in Blocks(b)
    <3>1. <<u, p>> \in Blocks(d) <=>
            d.tags[u] \in {Alloc(p), Sheet(p)} \/ u \in d.free[p] \/ u \in d.cache[p]
      BY <1>4, BlocksMember
    <3>2. <<u, p>> \in Blocks(b) <=>
            b.tags[u] \in {Alloc(p), Sheet(p)} \/ u \in b.free[p] \/ u \in b.cache[p]
      BY <1>1, BlocksMember
    <3>3. CASE u = blk
      <4>1. d.tags[u] = Alloc(o)
        BY <1>1, <1>3, <3>3 DEF PoolShapes
      <4>2. d.tags[u] \in {Alloc(p), Sheet(p)} <=> p = o
        BY <4>1 DEF Alloc, Sheet
      <4>3. u \notin d.free[p] /\ (u \in d.cache[p] => p = o)
        BY <1>1, <1>2, <1>3, <3>3 DEF PoolShapes
      <4>4. b.tags[u] \notin {Alloc(p), Sheet(p)} /\ u \notin b.free[p]
        BY <1>1, <1>2, <3>3 DEF Alloc, Sheet, NoTag
      <4>5. u \in b.cache[p] <=> p = o
        BY <1>1, <3>3
      <4>6. QED BY <3>1, <3>2, <4>2, <4>3, <4>4, <4>5
    <3>4. CASE u # blk
      <4>1. d.tags[u] = b.tags[u] /\ (u \in d.cache[p] <=> u \in b.cache[p])
        BY <1>1, <1>3, <3>4 DEF PoolShapes
      <4>2. QED BY <1>3, <3>1, <3>2, <4>1
    <3>5. QED BY <3>3, <3>4
  <2>2. Blocks(d) \subseteq Units \X Orders /\ Blocks(b) \subseteq Units \X Orders
    BY <1>1, <1>4, BlocksInPool
  <2>3. QED BY <2>1, <2>2
<1>8. FullyCoalesced(b) => FullyCoalesced(d)
  BY <1>3 DEF FullyCoalesced
<1>9. QED BY <1>4, <1>5, <1>6, <1>7, <1>8 DEF WellFormed

(* One iteration of flush_cache, whatever it does to the count: the block
   popped is merged. *)
LEMMA FlushWell ==
  ASSUME NEW b, WellFormed(b), NEW o \in Orders, NEW blk \in b.cache[o]
  PROVE  LET d == FlushOne(b, blk, o)
         IN  WellFormed(d) /\ (FullyCoalesced(b) => FullyCoalesced(d))
<1> DEFINE rest == b.cache[o] \ {blk}
           c == [b EXCEPT !.cache = [b.cache EXCEPT ![o] = rest],
                          !.cache_count = [b.cache_count EXCEPT ![o] =
                                             IF rest = {} THEN 0 ELSE @]]
<1>1. /\ b \in PoolShapes /\ blk \in Units /\ b.tags[blk] = NoTag
      /\ \A p \in Orders : blk \in b.cache[p] => p = o
  BY DEF WellFormed, CachedUntagged, PoolShapes
<1>2. /\ c.tags = b.tags /\ c.free = b.free /\ c.free_mask = b.free_mask
      /\ c.cache = [b.cache EXCEPT ![o] = rest] /\ c.allocated = b.allocated
      /\ c.cache_count = [b.cache_count EXCEPT ![o] =
                            IF rest = {} THEN 0 ELSE b.cache_count[o]]
  BY <1>1 DEF PoolShapes
<1>3. c \in PoolShapes
  <2>1. c.cache \in [Orders -> SUBSET Units] /\ c.cache_count \in [Orders -> Int]
    BY <1>1, <1>2 DEF PoolShapes
  <2>2. QED BY <1>1, <1>2, <2>1 DEF PoolShapes
<1> HIDE DEF c
<1>4. \A p \in Orders : \A u \in c.cache[p] : u \in b.cache[p] /\ u # blk
  BY <1>1, <1>2 DEF PoolShapes
<1>5. FreeListsMatchTags(c) /\ CachedUntagged(c) /\ MaskMatchesLists(c)
  BY <1>2, <1>4 DEF WellFormed, FreeListsMatchTags, CachedUntagged, MaskMatchesLists
<1>6. \A p \in Orders : blk \notin c.cache[p]
  BY <1>4
<1>7. Blocks(c) \union {<<blk, o>>} = Blocks(b)
  <2>1. ASSUME NEW u \in Units, NEW p \in Orders
        PROVE  <<u, p>> \in Blocks(c) \union {<<blk, o>>} <=> <<u, p>> \in Blocks(b)
    <3>1. <<u, p>> \in Blocks(c) <=>
            c.tags[u] \in {Alloc(p), Sheet(p)} \/ u \in c.free[p] \/ u \in c.cache[p]
      BY <1>3, BlocksMember
    <3>2. <<u, p>> \in Blocks(b) <=>
            b.tags[u] \in {Alloc(p), Sheet(p)} \/ u \in b.free[p] \/ u \in b.cache[p]
      BY <1>1, BlocksMember
    <3>3. u \in b.cache[p] <=> u \in c.cache[p] \/ (u = blk /\ p = o)
      BY <1>1, <1>2 DEF PoolShapes
    <3>4. QED BY <1>2, <3>1, <3>2, <3>3
  <2>2. Blocks(c) \subseteq Units \X Orders /\ Blocks(b) \subseteq Units \X Orders
    BY <1>1, <1>3, BlocksInPool
  <2>3. Blocks(c) \union {<<blk, o>>} \subseteq Units \X Orders
    BY <1>1, <2>2
  <2>4. \A x \in Units \X Orders : x \in Blocks(c) \union {<<blk, o>>} <=> x \in Blocks(b)
    BY <2>1
  <2>5. QED BY <2>2, <2>3, <2>4
<1>8. Tiles(Blocks(c) \union {<<blk, o>>}) /\ c.tags[blk] = NoTag
  BY <1>1, <1>2, <1>7 DEF WellFormed
<1>9. /\ WellFormed(MergeAndFree(c, blk, o))
      /\ FullyCoalesced(c) => FullyCoalesced(MergeAndFree(c, blk, o))
  BY <1>1, <1>3, <1>5, <1>6, <1>8, MergeFree
<1>10. FullyCoalesced(b) => FullyCoalesced(c)
  BY <1>2 DEF FullyCoalesced
<1>11. FlushOne(b, blk, o) = MergeAndFree(c, blk, o)
  BY DEF FlushOne, c
<1>12. QED BY <1>9, <1>10, <1>11

(* Freeing a block in use: it enters the cache of its order or is merged. *)
LEMMA DeallocateWell ==
  ASSUME NEW b, WellFormed(b), NEW off \in Units, NEW o \in Orders,
         b.tags[off] \in {Alloc(o), Sheet(o)}
  PROVE  LET d == DeallocateOrder(b, off, o)
         IN  WellFormed(d) /\ (FullyCoalesced(b) => FullyCoalesced(d))
<1> DEFINE c == Discharge(b, o)
<1>1. /\ b \in PoolShapes /\ <<off, o>> \in Blocks(b)
      /\ \A p \in Orders : off \notin b.free[p] /\ off \notin b.cache[p]
  BY InUseAlone DEF WellFormed
<1>2. /\ c.tags = b.tags /\ c.free = b.free /\ c.free_mask = b.free_mask
      /\ c.cache = b.cache /\ c.cache_count = b.cache_count
      /\ c.allocated = b.allocated - OrderSize[o]
  BY <1>1 DEF Discharge, PoolShapes
<1>3. c \in PoolShapes
  <2>1. c.allocated \in Int
    BY <1>1, <1>2, OrderSizeFacts DEF PoolShapes
  <2>2. QED BY <1>1, <1>2, <2>1 DEF Discharge, PoolShapes
<1>4. WellFormed(c) /\ (FullyCoalesced(b) => FullyCoalesced(c))
  BY <1>2, <1>3, SameShape
<1>5. CASE CacheTakes(b, o)
  <2> DEFINE d == CachePush(c, off, o)
  <2>1. /\ d.tags = [c.tags EXCEPT ![off] = NoTag]
        /\ d.free = c.free /\ d.free_mask = c.free_mask
        /\ d.cache = [c.cache EXCEPT ![o] = c.cache[o] \union {off}]
        /\ d.cache_count = [c.cache_count EXCEPT ![o] = c.cache_count[o] + 1]
        /\ d.allocated = c.allocated
    BY <1>3 DEF CachePush, PoolShapes
  <2>2. d \in PoolShapes
    <3>1. NoTag \in Tags
      BY OrderSizeFacts DEF NoTag, Tags
    <3>2. d.tags \in [Units -> Tags] /\ d.cache \in [Orders -> SUBSET Units]
      BY <1>3, <2>1, <3>1 DEF PoolShapes
    <3>3. d.cache_count \in [Orders -> Int]
      BY <1>3, <2>1 DEF PoolShapes
    <3>4. QED BY <1>3, <2>1, <3>2, <3>3 DEF PoolShapes, CachePush
  <2>3. /\ d.tags[off] = NoTag
        /\ \A u \in Units : u # off => d.tags[u] = b.tags[u]
        /\ \A p \in Orders, u \in Units :
             u \in d.cache[p] <=> u \in b.cache[p] \/ (u = off /\ p = o)
    BY <1>1, <1>2, <2>1 DEF PoolShapes
  <2>4. FreeListsMatchTags(d)
    <3>1. SUFFICES ASSUME NEW u \in Units, NEW p \in Orders
                   PROVE  u \in d.free[p] <=> d.tags[u] = Free(p)
      BY DEF FreeListsMatchTags
    <3>2. CASE u = off
      BY <1>1, <1>2, <2>1, <2>3, <3>2 DEF NoTag, Free
    <3>3. CASE u # off
      BY <1>2, <2>1, <2>3, <3>3 DEF WellFormed, FreeListsMatchTags
    <3>4. QED BY <3>2, <3>3
  <2>5. CachedUntagged(d)
    <3>1. SUFFICES ASSUME NEW p \in Orders, NEW u \in d.cache[p]
                   PROVE  d.tags[u] = NoTag /\ \A q \in Orders : u \in d.cache[q] => q = p
      BY DEF CachedUntagged
    <3>2. u \in Units
      BY <2>2 DEF PoolShapes
    <3>3. CASE u = off
      BY <1>1, <2>3, <3>1, <3>2, <3>3
    <3>4. CASE u # off
      BY <2>3, <3>1, <3>2, <3>4 DEF WellFormed, CachedUntagged
    <3>5. QED BY <3>3, <3>4
  <2>6. MaskMatchesLists(d)
    BY <1>4, <2>1 DEF WellFormed, MaskMatchesLists
  <2>7. Blocks(d) = Blocks(b)
    <3>1. ASSUME NEW u \in Units, NEW p \in Orders
          PROVE  <<u, p>> \in Blocks(d) <=> <<u, p>> \in Blocks(b)
      <4>1. <<u, p>> \in Blocks(d) <=>
              d.tags[u] \in {Alloc(p), Sheet(p)} \/ u \in d.free[p] \/ u \in d.cache[p]
        BY <2>2, BlocksMember
      <4>2. <<u, p>> \in Blocks(b) <=>
              b.tags[u] \in {Alloc(p), Sheet(p)} \/ u \in b.free[p] \/ u \in b.cache[p]
        BY <1>1, BlocksMember
      <4>3. CASE u = off
        <5>1. d.tags[u] \notin {Alloc(p), Sheet(p)}
          BY <2>3, <4>3 DEF NoTag, Alloc, Sheet
        <5>2. b.tags[u] \in {Alloc(p), Sheet(p)} <=> p = o
          BY <4>3 DEF Alloc, Sheet
        <5>3. QED BY <1>1, <1>2, <2>1, <2>3, <4>1, <4>2, <4>3, <5>1, <5>2
      <4>4. CASE u # off
        BY <1>2, <2>1, <2>3, <4>1, <4>2, <4>4
      <4>5. QED BY <4>3, <4>4
    <3>2. Blocks(d) \subseteq Units \X Orders /\ Blocks(b) \subseteq Units \X Orders
      BY <1>1, <2>2, BlocksInPool
    <3>3. QED BY <3>1, <3>2
  <2>8. WellFormed(d)
    BY <2>2, <2>4, <2>5, <2>6, <2>7 DEF WellFormed
  <2>9. FullyCoalesced(b) => FullyCoalesced(d)
    BY <1>2, <2>1 DEF FullyCoalesced
  <2>10. DeallocateOrder(b, off, o) = d
    BY <1>5 DEF DeallocateOrder
  <2>11. QED BY <2>8, <2>9, <2>10
<1>6. CASE ~ CacheTakes(b, o)
  <2>1. <<off, o>> \in Blocks(c)
    BY <1>2, <1>3, BlocksMember
  <2>2. Blocks(c) \union {<<off, o>>} = Blocks(c)
    BY <2>1
  <2>3. /\ FreeListsMatchTags(c) /\ CachedUntagged(c) /\ MaskMatchesLists(c)
        /\ Tiles(Blocks(c) \union {<<off, o>>})
    BY <1>4, <2>2 DEF WellFormed
  <2>4. c.tags[off] \in {Alloc(o), Sheet(o), NoTag} /\ \A p \in Orders : off \notin c.cache[p]
    BY <1>1, <1>2
  <2>5. /\ WellFormed(MergeAndFree(c, off, o))
        /\ FullyCoalesced(c) => FullyCoalesced(MergeAndFree(c, off, o))
    BY <1>3, <2>3, <2>4, MergeFree
  <2>6. QED BY <1>4, <1>6, <2>5 DEF DeallocateOrder
<1>7. QED BY <1>5, <1>6

(* The sheet marks change what kind of use a block is in, not where it lies. *)
LEMMA MarkWell ==
  ASSUME NEW b, WellFormed(b), NEW off \in Units, NEW o \in Orders,
         b.tags[off] \in {Alloc(o), Sheet(o)},
         NEW d \in {MarkSheet(b, off), UnmarkSheet(b, off)}
  PROVE  WellFormed(d) /\ (FullyCoalesced(b) => FullyCoalesced(d))
<1>1. /\ b \in PoolShapes
      /\ \A p \in Orders : off \notin b.free[p] /\ off \notin b.cache[p]
  BY InUseAlone DEF WellFormed
<1>2. PICK t \in {Alloc(o), Sheet(o)} : d = [b EXCEPT !.tags = [b.tags EXCEPT ![off] = t]]
  BY <1>1 DEF MarkSheet, UnmarkSheet, Alloc, Sheet, PoolShapes
<1>3. /\ d.tags = [b.tags EXCEPT ![off] = t] /\ d.free = b.free
      /\ d.free_mask = b.free_mask /\ d.cache = b.cache
      /\ d.cache_count = b.cache_count /\ d.allocated = b.allocated
  BY <1>1, <1>2 DEF PoolShapes
<1>4. d.tags[off] = t /\ \A u \in Units : u # off => d.tags[u] = b.tags[u]
  BY <1>1, <1>3 DEF PoolShapes
<1>5. d \in PoolShapes
  <2>1. t \in Tags
    BY DEF Alloc, Sheet, Tags
  <2>2. QED BY <1>1, <1>2, <2>1 DEF PoolShapes
<1>6. FreeListsMatchTags(d)
  <2>1. SUFFICES ASSUME NEW u \in Units, NEW p \in Orders
                 PROVE  u \in d.free[p] <=> d.tags[u] = Free(p)
    BY DEF FreeListsMatchTags
  <2>2. CASE u = off
    BY <1>1, <1>3, <1>4, <2>2 DEF Alloc, Sheet, Free
  <2>3. CASE u # off
    BY <1>3, <1>4, <2>3 DEF WellFormed, FreeListsMatchTags
  <2>4. QED BY <2>2, <2>3
<1>7. CachedUntagged(d)
  <2>1. SUFFICES ASSUME NEW p \in Orders, NEW u \in d.cache[p]
                 PROVE  d.tags[u] = NoTag /\ \A q \in Orders : u \in d.cache[q] => q = p
    BY DEF CachedUntagged
  <2>2. u \in b.cache[p] /\ u # off /\ u \in Units
    BY <1>1, <1>3, <1>5, <2>1 DEF PoolShapes
  <2>3. QED BY <1>3, <1>4, <2>2 DEF WellFormed, CachedUntagged
<1>8. MaskMatchesLists(d)
  BY <1>3 DEF WellFormed, MaskMatchesLists
<1>9. Blocks(d) = Blocks(b)
  <2>1. ASSUME NEW u \in Units, NEW p \in Orders
        PROVE  <<u, p>> \in Blocks(d) <=> <<u, p>> \in Blocks(b)
    <3>1. <<u, p>> \in Blocks(d) <=>
            d.tags[u] \in {Alloc(p), Sheet(p)} \/ u \in d.free[p] \/ u \in d.cache[p]
      BY <1>5, BlocksMember
    <3>2. <<u, p>> \in Blocks(b) <=>
            b.tags[u] \in {Alloc(p), Sheet(p)} \/ u \in b.free[p] \/ u \in b.cache[p]
      BY <1>1, BlocksMember
    <3>3. d.tags[u] \in {Alloc(p), Sheet(p)} <=> b.tags[u] \in {Alloc(p), Sheet(p)}
      <4>1. CASE u = off
        BY <1>4, <4>1 DEF Alloc, Sheet
      <4>2. CASE u # off
        BY <1>4, <4>2
      <4>3. QED BY <4>1, <4>2
    <3>4. QED BY <1>3, <3>1, <3>2, <3>3
  <2>2. Blocks(d) \subseteq Units \X Orders /\ Blocks(b) \subseteq Units \X Orders
    BY <1>1, <1>5, BlocksInPool
  <2>3. QED BY <2>1, <2>2
<1>10. FullyCoalesced(b) => FullyCoalesced(d)
  BY <1>3 DEF FullyCoalesced
<1>11. QED BY <1>5, <1>6, <1>7, <1>8, <1>9, <1>10 DEF WellFormed

-----------------------------------------------------------------------------
(* Growth in place: the block and the free right halves it absorbs are the
   block of the order it grows to. *)
LEMMA GrowWell ==
  ASSUME NEW b, WellFormed(b), NEW off \in Units, NEW o \in Orders,
         b.tags[off] \in {Alloc(o), Sheet(o)},
         NEW want \in Orders, o < want, CanGrow(b, off, o, want)
  PROVE  LET d == GrowTo(b, off, o, want)
         IN  WellFormed(d) /\ (FullyCoalesced(b) => FullyCoalesced(d))
<1> DEFINE d == GrowTo(b, off, o, want)
           G(j) == off + OrderSize[j]
           absorbed == o .. want - 1
           R == {<<off, o>>} \union {<<G(j), j>> : j \in absorbed}
           N == {<<off, want>>}
<1>1. /\ b \in PoolShapes /\ <<off, o>> \in Blocks(b)
      /\ \A p \in Orders : off \notin b.free[p] /\ off \notin b.cache[p]
  BY InUseAlone DEF WellFormed
<1>2. off \in Nat /\ absorbed \subseteq Orders /\ want \notin absorbed /\ o \in 0 .. want
      /\ want - 1 \in absorbed /\ (want - 1) + 1 = want
  BY TotalAssumption, OrderSizeAssumption DEF Orders, Units
<1>3. Aligned(off, want) /\ \A j \in absorbed : G(j) < Total /\ b.tags[G(j)] = Free(j)
  BY DEF CanGrow
<1>4. /\ \A w \in Int : w \in Span(off, want) <=>
           \/ w \in Span(off, o)
           \/ \E k \in absorbed : w \in Span(G(k), k)
      /\ \A w \in Int : \A k \in absorbed : w \in Span(G(k), k) =>
           /\ w \notin Span(off, o)
           /\ \A j \in absorbed : w \in Span(G(j), j) => j = k
  BY <1>2, <1>3, Halves
<1>5. \A j \in absorbed : G(j) \in Units /\ G(j) \in b.free[j] /\ <<G(j), j>> \in Blocks(b)
  <2>1. TAKE j \in absorbed
  <2>2. G(j) \in Nat
    BY <1>2, OrderSizeFacts
  <2>3. G(j) \in Units
    BY <1>3, <2>2, TotalAssumption DEF Units
  <2>4. G(j) \in b.free[j]
    BY <1>2, <1>3, <2>3 DEF WellFormed, FreeListsMatchTags
  <2>5. QED BY <1>1, <1>2, <2>3, <2>4, BlocksMember
<1>6. \A j \in absorbed : G(j) \in Span(G(j), j) /\ G(j) \in Span(off, want) /\ G(j) # off
  <2>1. TAKE j \in absorbed
  <2>2. G(j) \in Span(G(j), j) /\ G(j) \in Int /\ off \in Span(off, o)
    BY <1>2, <1>5, SpanFacts
  <2>3. QED BY <1>4, <2>2
<1>7. \A i, j \in absorbed : G(i) = G(j) => i = j
  BY <1>4, <1>6, <1>5, <1>2, SpanFacts
<1>8. InPool(off, want)
  <2>1. InPool(G(want - 1), want - 1)
    BY <1>2, <1>5 DEF WellFormed, Tiles
  <2>2. OrderSize[want] = 2 * OrderSize[want - 1] /\ OrderSize[want - 1] \in Nat
    BY <1>2, OrderSizeFacts
  <2>3. QED BY <1>2, <2>1, <2>2, TotalAssumption DEF InPool
(* A block that starts inside the result is one of those it absorbs. *)
<1>9. ASSUME NEW u \in Units, NEW p \in Orders, <<u, p>> \in Blocks(b), u \in Span(off, want)
      PROVE  (u = off /\ p = o) \/ (p \in absorbed /\ u = G(p))
  <2>1. Blocks(b) \in SUBSET (Units \X Orders) /\ Tiles(Blocks(b))
    BY <1>1, BlocksInPool DEF WellFormed
  <2>2. u \in Span(u, p) /\ u \in Int
    BY SpanFacts
  <2>3. CASE u \in Span(off, o)
    <3>1. <<off, o>> \in Blocks(b) /\ <<u, p>> \in Blocks(b)
      BY <1>1, <1>9
    <3>2. u = off /\ p = o
      BY <2>1, <2>2, <2>3, <3>1, TilesUnique
    <3>3. QED BY <3>2
  <2>4. ASSUME NEW k \in absorbed, u \in Span(G(k), k)
        PROVE  p \in absorbed /\ u = G(p)
    <3>1. k \in Orders /\ G(k) \in Units /\ <<G(k), k>> \in Blocks(b)
      BY <1>2, <1>5
    <3>2. u = G(k) /\ p = k
      BY <1>9, <2>1, <2>2, <2>4, <3>1, TilesUnique
    <3>3. QED BY <3>2
  <2>5. u \in Span(off, o) \/ \E k \in absorbed : u \in Span(G(k), k)
    BY <1>4, <1>9, <2>2
  <2>6. (\E k \in absorbed : u \in Span(G(k), k)) => p \in absorbed /\ u = G(p)
    BY <2>4
  <2>7. QED BY <2>3, <2>5, <2>6
<1>10. /\ d.tags = [u \in Units |->
             IF u = off THEN Alloc(want)
             ELSE IF \E j \in absorbed : u = G(j) THEN NoTag ELSE b.tags[u]]
       /\ d.free = [j \in Orders |->
             IF j \in absorbed THEN b.free[j] \ {G(j)} ELSE b.free[j]]
       /\ d.free_mask = b.free_mask \ {j \in absorbed : b.free[j] = {G(j)}}
       /\ d.cache = b.cache /\ d.cache_count = b.cache_count
       /\ d.allocated = b.allocated + (OrderSize[want] - OrderSize[o])
  BY <1>1 DEF GrowTo, PoolShapes
<1>11. /\ d.tags[off] = Alloc(want)
       /\ \A j \in absorbed : d.tags[G(j)] = NoTag
       /\ \A u \in Units : u # off /\ (\A j \in absorbed : u # G(j)) => d.tags[u] = b.tags[u]
  BY <1>5, <1>6, <1>10
<1>12. d \in PoolShapes
  <2>1. Alloc(want) \in Tags /\ NoTag \in Tags
    BY OrderSizeFacts DEF Alloc, NoTag, Tags
  <2>2. d.tags \in [Units -> Tags]
    BY <1>1, <1>10, <2>1 DEF PoolShapes
  <2>3. d.free \in [Orders -> SUBSET Units] /\ d.free_mask \subseteq Orders
    BY <1>1, <1>10 DEF PoolShapes
  <2>4. d.allocated \in Int
    BY <1>1, <1>10, OrderSizeFacts DEF PoolShapes
  <2>5. QED BY <1>1, <1>10, <2>2, <2>3, <2>4 DEF PoolShapes, GrowTo
(* What the old state says of a block absorbed. *)
<1>13. ASSUME NEW j \in absorbed, NEW p \in Orders
       PROVE  /\ G(j) \in b.free[p] <=> p = j
              /\ G(j) \notin b.cache[p] /\ b.tags[G(j)] \notin {Alloc(p), Sheet(p)}
  <2>1. b.tags[G(j)] = Free(j) /\ G(j) \in Units
    BY <1>3, <1>5
  <2>2. G(j) \in b.free[p] <=> b.tags[G(j)] = Free(p)
    BY <2>1 DEF WellFormed, FreeListsMatchTags
  <2>3. Free(j) = Free(p) <=> p = j
    BY DEF Free
  <2>4. G(j) \in b.cache[p] => b.tags[G(j)] = NoTag
    BY DEF WellFormed, CachedUntagged
  <2>5. b.tags[G(j)] # NoTag /\ b.tags[G(j)] \notin {Alloc(p), Sheet(p)}
    BY <2>1 DEF Free, NoTag, Alloc, Sheet
  <2>6. QED BY <2>1, <2>2, <2>3, <2>4, <2>5
<1>14. FreeListsMatchTags(d)
  <2>1. SUFFICES ASSUME NEW u \in Units, NEW p \in Orders
                 PROVE  u \in d.free[p] <=> d.tags[u] = Free(p)
    BY DEF FreeListsMatchTags
  <2>2. CASE u = off
    <3>1. u \notin d.free[p]
      BY <1>1, <1>10, <2>2
    <3>2. QED BY <1>11, <2>2, <3>1 DEF Alloc, Free
  <2>3. ASSUME NEW j \in absorbed, u = G(j)
        PROVE  u \in d.free[p] <=> d.tags[u] = Free(p)
    <3>1. u \notin d.free[p]
      BY <1>10, <1>13, <2>3
    <3>2. d.tags[u] = NoTag
      BY <1>11, <2>3
    <3>3. QED BY <3>1, <3>2 DEF NoTag, Free
  <2>4. CASE u # off /\ \A j \in absorbed : u # G(j)
    BY <1>10, <1>11, <2>4 DEF WellFormed, FreeListsMatchTags
  <2>5. QED BY <2>2, <2>3, <2>4
<1>15. CachedUntagged(d)
  <2>1. SUFFICES ASSUME NEW p \in Orders, NEW u \in d.cache[p]
                 PROVE  d.tags[u] = NoTag /\ \A q \in Orders : u \in d.cache[q] => q = p
    BY DEF CachedUntagged
  <2>2. u \in b.cache[p] /\ u \in Units
    BY <1>10, <1>12, <2>1 DEF PoolShapes
  <2>3. u # off /\ \A j \in absorbed : u # G(j)
    BY <1>1, <1>13, <2>2
  <2>4. QED BY <1>10, <1>11, <2>2, <2>3 DEF WellFormed, CachedUntagged
<1>16. MaskMatchesLists(d)
  <2>1. b.free_mask = {q \in Orders : b.free[q] # {}}
    BY DEF WellFormed, MaskMatchesLists
  <2>2. SUFFICES ASSUME NEW q \in Orders PROVE q \in d.free_mask <=> d.free[q] # {}
    BY <1>12 DEF MaskMatchesLists, PoolShapes
  <2>3. CASE q \in absorbed
    <3>1. d.free[q] = b.free[q] \ {G(q)} /\ G(q) \in b.free[q]
      BY <1>5, <1>10, <2>3
    <3>2. q \in d.free_mask <=> b.free[q] # {G(q)}
      BY <1>10, <2>1, <2>3, <3>1
    <3>3. QED BY <3>1, <3>2
  <2>4. CASE q \notin absorbed
    BY <1>10, <2>1, <2>4
  <2>5. QED BY <2>3, <2>4
<1>17. Blocks(d) = (Blocks(b) \ R) \union N
  <2>1. ASSUME NEW u \in Units, NEW p \in Orders
        PROVE  <<u, p>> \in Blocks(d) <=> <<u, p>> \in (Blocks(b) \ R) \union N
    <3>1. <<u, p>> \in Blocks(d) <=>
            d.tags[u] \in {Alloc(p), Sheet(p)} \/ u \in d.free[p] \/ u \in d.cache[p]
      BY <1>12, BlocksMember
    <3>2. <<u, p>> \in Blocks(b) <=>
            b.tags[u] \in {Alloc(p), Sheet(p)} \/ u \in b.free[p] \/ u \in b.cache[p]
      BY <1>1, BlocksMember
    <3>3. /\ <<u, p>> \in N <=> u = off /\ p = want
          /\ <<u, p>> \in R <=> (u = off /\ p = o) \/ (p \in absorbed /\ u = G(p))
      OBVIOUS
    <3>4. CASE u = off
      <4>1. d.tags[u] = Alloc(want) /\ u \notin d.free[p] /\ u \notin d.cache[p]
        BY <1>1, <1>10, <1>11, <3>4
      <4>2. <<u, p>> \in Blocks(d) <=> p = want
        BY <3>1, <4>1 DEF Alloc, Sheet
      <4>3. off \in Span(off, want)
        BY <1>2, SpanFacts
      <4>4. <<u, p>> \in Blocks(b) => <<u, p>> \in R
        BY <1>9, <3>3, <3>4, <4>3
      <4>5. QED BY <3>3, <3>4, <4>2, <4>4
    <3>5. ASSUME NEW j \in absorbed, u = G(j)
          PROVE  <<u, p>> \in Blocks(d) <=> <<u, p>> \in (Blocks(b) \ R) \union N
      <4>1. u # off /\ d.tags[u] = NoTag
        BY <1>6, <1>11, <3>5
      <4>2. u \notin d.free[p] /\ u \notin d.cache[p]
        BY <1>10, <1>13, <3>5
      <4>3. <<u, p>> \notin Blocks(d)
        BY <3>1, <4>1, <4>2 DEF NoTag, Alloc, Sheet
      <4>4. <<u, p>> \in Blocks(b) => p = j
        BY <1>13, <3>2, <3>5
      <4>5. <<u, p>> \in Blocks(b) => <<u, p>> \in R
        BY <3>3, <3>5, <4>4
      <4>6. QED BY <3>3, <4>1, <4>3, <4>5
    <3>6. CASE u # off /\ \A j \in absorbed : u # G(j)
      <4>1. d.tags[u] = b.tags[u] /\ (u \in d.free[p] <=> u \in b.free[p])
        BY <1>10, <1>11, <3>6
      <4>2. <<u, p>> \in Blocks(d) <=> <<u, p>> \in Blocks(b)
        BY <1>10, <3>1, <3>2, <4>1
      <4>3. QED BY <3>3, <3>6, <4>2
    <3>7. QED BY <3>4, <3>5, <3>6
  <2>2. Blocks(d) \subseteq Units \X Orders /\ Blocks(b) \subseteq Units \X Orders
    BY <1>1, <1>12, BlocksInPool
  <2>3. (Blocks(b) \ R) \union N \subseteq Units \X Orders
    BY <2>2
  <2>4. \A x \in Units \X Orders : x \in Blocks(d) <=> x \in (Blocks(b) \ R) \union N
    BY <2>1
  <2>5. QED BY <2>2, <2>3, <2>4
<1>18. Tiles((Blocks(b) \ R) \union N)
  <2>1. Blocks(b) \in SUBSET (Units \X Orders) /\ R \in SUBSET Blocks(b)
    BY <1>1, <1>5, BlocksInPool
  <2>2. N \in SUBSET (Units \X Orders)
    OBVIOUS
  <2>3. \A x \in N : Aligned(x[1], x[2]) /\ InPool(x[1], x[2])
    BY <1>3, <1>8
  <2>4. \A u \in Units : (\E x \in R : u \in Span(x[1], x[2])) <=>
                         (\E x \in N : u \in Span(x[1], x[2]))
    <3>1. TAKE u \in Units
    <3>2. (\E x \in N : u \in Span(x[1], x[2])) <=> u \in Span(off, want)
      OBVIOUS
    <3>3. (\E x \in R : u \in Span(x[1], x[2])) <=>
            u \in Span(off, o) \/ \E k \in absorbed : u \in Span(G(k), k)
      <4>1. \A x \in R : x = <<off, o>> \/ \E k \in absorbed : x = <<G(k), k>>
        OBVIOUS
      <4>2. (\E k \in absorbed : u \in Span(G(k), k)) => \E x \in R : u \in Span(x[1], x[2])
        <5>1. SUFFICES ASSUME NEW k \in absorbed, u \in Span(G(k), k)
                       PROVE  \E x \in R : u \in Span(x[1], x[2])
          OBVIOUS
        <5>2. WITNESS <<G(k), k>> \in R
        <5>3. QED BY <5>1
      <4>3. u \in Span(off, o) => \E x \in R : u \in Span(x[1], x[2])
        <5>1. SUFFICES ASSUME u \in Span(off, o) PROVE \E x \in R : u \in Span(x[1], x[2])
          OBVIOUS
        <5>2. WITNESS <<off, o>> \in R
        <5>3. QED BY <5>1
      <4>4. ASSUME NEW x \in R, u \in Span(x[1], x[2])
            PROVE  u \in Span(off, o) \/ \E k \in absorbed : u \in Span(G(k), k)
        <5>1. CASE x = <<off, o>>
          BY <4>4, <5>1
        <5>2. ASSUME NEW k \in absorbed, x = <<G(k), k>>
              PROVE  u \in Span(G(k), k)
          BY <4>4, <5>2
        <5>3. QED BY <4>1, <5>1, <5>2
      <4>5. QED BY <4>2, <4>3, <4>4
    <3>4. u \in Int
      BY DEF Units
    <3>5. QED BY <1>4, <3>2, <3>3, <3>4
  <2>5. \A u \in Units : \A x, y \in N :
          u \in Span(x[1], x[2]) /\ u \in Span(y[1], y[2]) => x = y
    OBVIOUS
  <2>6. Tiles(Blocks(b))
    BY DEF WellFormed
  <2>7. QED BY ONLY <2>1, <2>2, <2>3, <2>4, <2>5, <2>6, Retile
<1>19. FullyCoalesced(b) => FullyCoalesced(d)
  <2>1. \A j \in Orders : d.free[j] \subseteq b.free[j]
    BY <1>10
  <2>2. QED BY <2>1 DEF FullyCoalesced
<1>20. QED BY <1>12, <1>14, <1>15, <1>16, <1>17, <1>18, <1>19 DEF WellFormed

-----------------------------------------------------------------------------
(***************************************************************************)
(* The blocks in use, and the room between them.                           *)
(*                                                                         *)
(* RoomHeld is the heart of it: when nothing is cached, a vacant aligned   *)
(* run lies in one free block.  It rests on full coalescing: were the run  *)
(* cut into smaller free blocks, take one of the smallest order; its buddy *)
(* lies in the run too and would have to be free in one piece.  So when no *)
(* list of order o or above has a block a refusal is right (NoRoom), and a *)
(* pool with nothing in use is cut as it was first (SameCut).              *)
(***************************************************************************)
VacantIn(live, off, o) ==
  /\ Aligned(off, o) /\ InPool(off, o)
  /\ \A blk \in live : Span(blk[1], blk[2]) \cap Span(off, o) = {}

RoomIn(live, o) == o \in Orders /\ \E off \in Units : VacantIn(live, off, o)

(* The block of order p that holds unit w starts at Level(w, p). *)
LEMMA InSpan ==
  ASSUME NEW u \in Nat, NEW p \in Orders, Aligned(u, p), NEW w \in Nat
  PROVE  w \in Span(u, p) <=> Level(w, p) = u
<1>1. PICK s \in Nat \ {0} : s = OrderSize[p]
  BY OrderSizeFacts
<1>2. PICK k \in Nat : u = s * k
  <2>1. u \div s \in Nat /\ u = s * (u \div s) + (u % s)
    BY DivMod
  <2>2. u % s = 0
    BY <1>1 DEF Aligned
  <2>3. s * (u \div s) + 0 = s * (u \div s)
    BY <2>1
  <2>4. QED BY <2>1, <2>2, <2>3
<1>3. ASSUME w \in Span(u, p) PROVE Level(w, p) = u
  <2>1. PICK r \in 0 .. s - 1 : w = u + r
    <3>1. w - u \in 0 .. s - 1 /\ w = u + (w - u)
      BY <1>1, <1>3 DEF Span
    <3>2. QED BY <3>1
  <2>2. w % s = r
    BY <1>2, <2>1, Remainder
  <2>3. QED BY <1>1, <2>1, <2>2 DEF Level
<1>4. ASSUME Level(w, p) = u PROVE w \in Span(u, p)
  <2>1. w % s \in 0 .. s - 1
    BY DivMod
  <2>2. w - (w % s) = u
    BY <1>1, <1>4 DEF Level
  <2>3. QED BY <1>1, <2>1, <2>2 DEF Span
<1>5. QED BY <1>3, <1>4

(* Aligned blocks that share a unit are nested. *)
LEMMA Nested ==
  ASSUME NEW u \in Nat, NEW p \in Orders, Aligned(u, p),
         NEW v \in Nat, NEW q \in Orders, Aligned(v, q), p <= q,
         NEW w \in Nat, w \in Span(u, p), w \in Span(v, q),
         NEW x \in Int, x \in Span(u, p)
  PROVE  x \in Span(v, q)
<1>1. Level(w, p) = u /\ Level(w, q) = v
  BY InSpan
<1>2. q \in 0 .. MaxOrder /\ p \in 0 .. q
  BY OrderSizeAssumption DEF Orders
<1>3. x \in Span(Level(w, q), q)
  BY <1>1, <1>2, LevelNested
<1>4. QED BY <1>1, <1>3

(* A block of a well-formed pool that is in use is a live one, and no other
   block of the tiling shares a unit with it. *)
LEMMA LiveMember ==
  ASSUME NEW c \in PoolShapes, NEW u \in Units, NEW p \in Orders
  PROVE  <<u, p>> \in InUseBlocks(c) <=> c.tags[u] \in {Alloc(p), Sheet(p)}
<1>1. c.tags[u] \in Tags
  BY DEF PoolShapes
<1>2. c.tags[u] \in {Alloc(p), Sheet(p)} <=>
        c.tags[u].kind \in {"alloc", "sheet"} /\ c.tags[u].order = p
  BY <1>1 DEF Tags, Alloc, Sheet
<1>3. QED BY <1>2 DEF InUseBlocks

LEMMA LiveInPool ==
  ASSUME NEW c \in PoolShapes
  PROVE  InUseBlocks(c) \in SUBSET (Units \X Orders)
BY DEF InUseBlocks, PoolShapes, Tags

(* A block of the tiling that is not in use is vacant. *)
LEMMA TileVacant ==
  ASSUME NEW c, WellFormed(c), NEW u \in Units, NEW p \in Orders,
         <<u, p>> \in Blocks(c), c.tags[u].kind \notin {"alloc", "sheet"}
  PROVE  VacantIn(InUseBlocks(c), u, p)
<1>1. c \in PoolShapes /\ Tiles(Blocks(c)) /\ Blocks(c) \in SUBSET (Units \X Orders)
  BY BlocksInPool DEF WellFormed
<1>2. Aligned(u, p) /\ InPool(u, p)
  BY <1>1 DEF Tiles
<1>3. ASSUME NEW blk \in InUseBlocks(c), NEW w \in Span(blk[1], blk[2]), w \in Span(u, p)
      PROVE  FALSE
  <2>1. w \in Units
    BY <1>2, <1>3, SpanFacts
  <2>2. blk \in Blocks(c)
    BY DEF Blocks
  <2>3. blk = <<u, p>>
    BY <1>1, <1>3, <2>1, <2>2 DEF Tiles
  <2>4. QED BY <2>3 DEF InUseBlocks
<1>4. QED BY <1>2, <1>3 DEF VacantIn

-----------------------------------------------------------------------------
(* See the head of this section. *)
LEMMA RoomHeld ==
  ASSUME NEW c, WellFormed(c), FullyCoalesced(c), CachedOrders(c) = {},
         NEW o \in Orders, NEW off \in Units, VacantIn(InUseBlocks(c), off, o)
  PROVE  \E u \in Units, p \in Orders : o <= p /\ u \in c.free[p] /\ off \in Span(u, p)
<1>1. SUFFICES ASSUME \A u \in Units, p \in Orders :
                         o <= p /\ u \in c.free[p] => off \notin Span(u, p)
               PROVE  FALSE
  OBVIOUS
<1>2. /\ c \in PoolShapes /\ Tiles(Blocks(c)) /\ Blocks(c) \in SUBSET (Units \X Orders)
      /\ Aligned(off, o) /\ InPool(off, o)
      /\ Units \subseteq Nat /\ Orders \subseteq Nat
  BY BlocksInPool, TotalAssumption, OrderSizeFacts DEF WellFormed, VacantIn, Units
<1>3. ASSUME NEW w \in Span(off, o)
      PROVE  /\ w \in Units
             /\ \E u \in Units, p \in Orders :
                  /\ u \in c.free[p] /\ w \in Span(u, p) /\ p < o
                  /\ Aligned(u, p) /\ <<u, p>> \in Blocks(c)
  <2>1. w \in Units
    BY <1>2, SpanFacts
  <2>2. PICK u \in Units, p \in Orders : <<u, p>> \in Blocks(c) /\ w \in Span(u, p)
    <3>1. PICK blk \in Blocks(c) : w \in Span(blk[1], blk[2])
      BY <1>2, <2>1 DEF Tiles
    <3>2. /\ blk[1] \in Units /\ blk[2] \in Orders /\ <<blk[1], blk[2]>> = blk
      BY <1>2
    <3>3. QED BY <3>1, <3>2
  <2>3. <<u, p>> \notin InUseBlocks(c)
    BY <2>2 DEF VacantIn
  <2>4. c.tags[u] \notin {Alloc(p), Sheet(p)}
    BY <1>2, <2>3, LiveMember
  <2>5. u \notin c.cache[p]
    BY DEF CachedOrders
  <2>6. u \in c.free[p]
    BY <1>2, <2>2, <2>4, <2>5, BlocksMember
  <2>7. Aligned(u, p)
    BY <1>2, <2>2 DEF Tiles
  <2>8. p < o
    <3> SUFFICES ASSUME o <= p PROVE FALSE
      BY <1>2
    <3>1. off \in Span(off, o) /\ off \in Int
      BY SpanFacts
    <3>2. w \in Nat /\ u \in Nat /\ off \in Nat
      BY <1>2, <2>1
    <3>3. off \in Span(u, p)
      BY <1>2, <2>2, <2>7, <3>1, <3>2, Nested
    <3> QED BY <1>1, <2>6, <3>3
  <2>9. QED BY <2>1, <2>2, <2>6, <2>7, <2>8
<1> DEFINE T == {p \in Orders : p < o /\ \E u \in c.free[p] :
                   u \in Span(off, o) /\ Aligned(u, p) /\ <<u, p>> \in Blocks(c)}
<1>4. \A u \in Units, p \in Orders, w \in Span(off, o) :
        u \in c.free[p] /\ w \in Span(u, p) /\ p < o /\ Aligned(u, p) /\ <<u, p>> \in Blocks(c)
        => p \in T /\ u \in Span(off, o)
  <2>1. TAKE u \in Units, p \in Orders, w \in Span(off, o)
  <2>2. SUFFICES ASSUME u \in c.free[p], w \in Span(u, p), p < o, Aligned(u, p),
                        <<u, p>> \in Blocks(c)
                 PROVE  p \in T /\ u \in Span(off, o)
    OBVIOUS
  <2>3. w \in Nat /\ u \in Span(u, p) /\ u \in Int /\ p <= o
    <3>1. w \in Units /\ p \in Nat /\ o \in Nat
      BY <1>2, <1>3
    <3>2. u \in Span(u, p) /\ u \in Int
      BY SpanFacts
    <3>3. QED BY <1>2, <2>2, <3>1, <3>2
  <2>4. u \in Span(off, o)
    BY <1>2, <2>2, <2>3, Nested
  <2>5. QED BY <2>2, <2>4
<1>5. off \in Span(off, o)
  BY SpanFacts
<1>6. T # {} /\ T \subseteq Nat
  BY <1>2, <1>3, <1>4, <1>5
<1>7. PICK p \in T : \A q \in T : p <= q
  BY <1>6, LeastElement
<1>8. PICK u \in c.free[p] : u \in Span(off, o) /\ Aligned(u, p) /\ <<u, p>> \in Blocks(c)
  BY <1>7
<1>9. /\ p \in Orders /\ p < o /\ u \in Units /\ u \in Nat /\ p \in Nat /\ p < Top /\ o \in Nat
      /\ p + 1 \in 0 .. o /\ o \in 0 .. MaxOrder /\ p \in 0 .. o /\ p + 1 \in Orders
  <2>1. p \in Orders /\ p < o
    BY <1>7
  <2>2. u \in Units
    BY <1>2, <2>1 DEF PoolShapes
  <2>3. /\ p \in Nat /\ p < Top /\ o \in Nat /\ p + 1 \in 0 .. o /\ o \in 0 .. MaxOrder
        /\ p \in 0 .. o /\ p + 1 \in Orders
    BY <2>1, OrderSizeAssumption DEF Orders, Top
  <2>4. QED BY <1>2, <2>1, <2>2, <2>3
<1> DEFINE v == BuddyOf(u, p)
<1>10. Level(u, p) = u /\ u \in Span(u, p)
  BY <1>8, <1>9, OrderSizeFacts, SpanFacts DEF Level, Aligned
<1>11. v \in Nat /\ v # u /\ Aligned(v, p) /\ v \in Span(v, p)
  <2>1. v \in Nat /\ v # u
    BY <1>8, <1>9, BuddyInvolution
  <2>2. Aligned(v, p)
    BY <1>9, <1>10, LevelStep
  <2>3. v \in Span(v, p)
    BY <1>9, <2>1, OrderSizeFacts DEF Span
  <2>4. QED BY <2>1, <2>2, <2>3
<1> DEFINE pair == Level(u, p + 1)
<1>12. pair \in Nat /\ Aligned(pair, p + 1) /\ u \in Span(pair, p + 1) /\ v \in Span(pair, p + 1)
  <2>1. pair \in Nat
    BY <1>9, LevelStep
  <2>2. Aligned(pair, p + 1)
    BY <1>9, LevelStep
  <2>3. u \in Span(pair, p + 1) /\ v \in Span(pair, p + 1)
    BY <1>9, <1>10, <1>11, LevelSpans
  <2>4. QED BY <2>1, <2>2, <2>3
<1>13. v \in Span(off, o)
  <2>1. p + 1 <= o /\ off \in Nat /\ v \in Int
    BY <1>2, <1>9, <1>11
  <2>2. QED BY <1>2, <1>8, <1>9, <1>12, <2>1, Nested
<1>14. PICK w \in Units, q \in Orders :
         /\ w \in c.free[q] /\ v \in Span(w, q) /\ q < o
         /\ Aligned(w, q) /\ <<w, q>> \in Blocks(c)
  BY <1>3, <1>13
<1>15. p <= q /\ q \in Nat /\ w \in Nat
  BY <1>2, <1>4, <1>7, <1>13, <1>14
<1>16. CASE q = p
  <2>1. w = v
    <3>1. Level(v, p) = w
      BY <1>11, <1>14, <1>15, <1>16, InSpan
    <3>2. Level(v, p) = v
      BY <1>9, <1>11, InSpan
    <3>3. QED BY <3>1, <3>2
  <2>2. BuddyOf(u, p) \notin c.free[p]
    BY <1>8, <1>9 DEF FullyCoalesced
  <2>3. QED BY <1>14, <1>16, <2>1, <2>2
<1>17. CASE p < q
  <2>1. u \in Span(w, q)
    <3>1. p + 1 <= q
      BY <1>9, <1>15, <1>17
    <3>2. QED BY <1>9, <1>11, <1>12, <1>14, <1>15, <3>1, Nested
  <2>2. <<u, p>> = <<w, q>>
    BY <1>2, <1>8, <1>9, <1>10, <1>14, <2>1 DEF Tiles
  <2>3. QED BY <1>9, <1>15, <1>17, <2>2
<1>18. QED BY <1>9, <1>15, <1>16, <1>17

LEMMA NoRoom ==
  ASSUME NEW c, WellFormed(c), FullyCoalesced(c), CachedOrders(c) = {},
         NEW o \in Orders, \A j \in Orders : o <= j => c.free[j] = {}
  PROVE  ~ RoomIn(InUseBlocks(c), o)
BY RoomHeld DEF RoomIn

(* A coalesced pool with nothing in use is cut in one way only: each block of
   one cutting lies in a block of the other, which lies in one of the first. *)
LEMMA SameCut ==
  ASSUME NEW c, WellFormed(c), FullyCoalesced(c), CachedOrders(c) = {}, InUseBlocks(c) = {},
         NEW d, WellFormed(d), FullyCoalesced(d), CachedOrders(d) = {}, InUseBlocks(d) = {},
         NEW p \in Orders, NEW u \in c.free[p]
  PROVE  u \in d.free[p]
<1>1. /\ c \in PoolShapes /\ Tiles(Blocks(c)) /\ Blocks(c) \in SUBSET (Units \X Orders)
      /\ d \in PoolShapes /\ Tiles(Blocks(d)) /\ Blocks(d) \in SUBSET (Units \X Orders)
      /\ Units \subseteq Nat /\ Orders \subseteq Nat
  BY BlocksInPool, TotalAssumption, OrderSizeFacts DEF WellFormed, Units
<1>2. u \in Units /\ <<u, p>> \in Blocks(c)
  BY <1>1, BlocksMember DEF PoolShapes
<1>3. Aligned(u, p) /\ InPool(u, p) /\ u \in Span(u, p)
  BY <1>1, <1>2, SpanFacts DEF Tiles
<1>4. PICK v \in Units, q \in Orders : p <= q /\ v \in d.free[q] /\ u \in Span(v, q)
  <2>1. VacantIn(InUseBlocks(d), u, p)
    BY <1>3 DEF VacantIn
  <2> QED BY <1>2, <2>1, RoomHeld
<1>5. Aligned(v, q) /\ InPool(v, q) /\ v \in Span(v, q)
  <2>1. <<v, q>> \in Blocks(d)
    BY <1>1, <1>4, BlocksMember
  <2> QED BY <1>1, <2>1, SpanFacts DEF Tiles
<1>6. PICK w \in Units, k \in Orders : q <= k /\ w \in c.free[k] /\ v \in Span(w, k)
  <2>1. VacantIn(InUseBlocks(c), v, q)
    BY <1>5 DEF VacantIn
  <2> QED BY <2>1, RoomHeld
<1>7. <<w, k>> \in Blocks(c) /\ Aligned(w, k)
  <2>1. <<w, k>> \in Blocks(c)
    BY <1>1, <1>6, BlocksMember
  <2> QED BY <1>1, <2>1 DEF Tiles
<1>8. u \in Span(w, k)
  <2>1. u \in Int /\ v \in Nat /\ w \in Nat
    BY <1>1, <1>2
  <2> QED BY <1>4, <1>5, <1>6, <1>7, <2>1, Nested
<1>9. u = w /\ p = k
  <2> DEFINE x == <<u, p>>
             y == <<w, k>>
  <2>1. x \in Blocks(c) /\ y \in Blocks(c) /\ u \in Span(x[1], x[2]) /\ u \in Span(y[1], y[2])
    BY <1>2, <1>3, <1>7, <1>8
  <2> HIDE DEF x, y
  <2>2. x = y
    BY <1>1, <1>2, <2>1 DEF Tiles
  <2> QED BY <2>2 DEF x, y
<1>10. q = p
  BY <1>1, <1>4, <1>6, <1>9
<1>11. v = u
  <2>1. u \in Nat /\ v \in Nat
    BY <1>1, <1>2
  <2>2. Level(u, p) = u
    BY <1>3, <2>1, InSpan
  <2>3. Level(u, q) = v
    BY <1>4, <1>5, <2>1, InSpan
  <2> QED BY <1>10, <2>2, <2>3
<1> QED BY <1>4, <1>10, <1>11

-----------------------------------------------------------------------------
(* What the operations do to the set of live blocks: each changes the one
   block it is called for and no other. *)
LEMMA UseAgain ==
  ASSUME NEW c \in PoolShapes, NEW d, NEW off \in Units, NEW o \in Orders,
         d.tags = [c.tags EXCEPT ![off] = Alloc(o)],
         c.tags[off].kind \notin {"alloc", "sheet"}
  PROVE  InUseBlocks(d) = InUseBlocks(c) \union {<<off, o>>}
<1>1. /\ DOMAIN c.tags = Units
      /\ \A u \in Units : d.tags[u] = IF u = off THEN Alloc(o) ELSE c.tags[u]
  BY DEF PoolShapes
<1>2. Alloc(o).kind = "alloc" /\ Alloc(o).order = o
  BY DEF Alloc
<1>3. QED BY <1>1, <1>2 DEF InUseBlocks

LEMMA UseEnds ==
  ASSUME NEW c \in PoolShapes, NEW d, NEW off \in Units, NEW o \in Orders,
         c.tags[off] \in {Alloc(o), Sheet(o)},
         d.tags[off].kind \notin {"alloc", "sheet"},
         \A u \in Units \ {off} :
           \/ d.tags[u] = c.tags[u]
           \/ {d.tags[u].kind, c.tags[u].kind} \cap {"alloc", "sheet"} = {}
  PROVE  InUseBlocks(d) = InUseBlocks(c) \ {<<off, o>>}
<1>1. /\ Alloc(o).kind = "alloc" /\ Alloc(o).order = o
      /\ Sheet(o).kind = "sheet" /\ Sheet(o).order = o
  BY DEF Alloc, Sheet
<1>2. c.tags[off].order = o
  BY <1>1
<1>3. \A u \in Units \ {off} : <<u, d.tags[u].order>> # <<off, o>>
  OBVIOUS
<1>4. ASSUME NEW u \in Units
      PROVE  d.tags[u].kind \in {"alloc", "sheet"} <=>
               u # off /\ c.tags[u].kind \in {"alloc", "sheet"}
  BY <1>1
<1>5. ASSUME NEW u \in Units, u # off, c.tags[u].kind \in {"alloc", "sheet"}
      PROVE  d.tags[u] = c.tags[u]
  BY <1>5
<1>6. QED BY <1>2, <1>4, <1>5 DEF InUseBlocks

(* Splitting turns no block in use into anything else: the halves it tags lie
   inside the free block it cuts. *)
LEMMA SplitLive ==
  ASSUME NEW c, WellFormed(c), NEW o \in Orders, NEW from \in Orders, o <= from,
         NEW blk \in c.free[from]
  PROVE  /\ InUseBlocks(Grant(TakeAndSplit(c, blk, from, o), blk, o))
              = InUseBlocks(c) \union {<<blk, o>>}
         /\ VacantIn(InUseBlocks(c), blk, o)
         /\ blk \in Units
<1> DEFINE H(j) == blk + OrderSize[j]
           halves == o .. from - 1
           d == TakeAndSplit(c, blk, from, o)
<1>1. /\ c \in PoolShapes /\ Tiles(Blocks(c)) /\ Blocks(c) \in SUBSET (Units \X Orders)
      /\ blk \in Units /\ c.tags[blk] = Free(from) /\ <<blk, from>> \in Blocks(c)
  <2>1. c \in PoolShapes /\ Tiles(Blocks(c)) /\ Blocks(c) \in SUBSET (Units \X Orders)
    BY BlocksInPool DEF WellFormed
  <2>2. blk \in Units
    BY <2>1 DEF PoolShapes
  <2>3. c.tags[blk] = Free(from)
    BY <2>2 DEF WellFormed, FreeListsMatchTags
  <2>4. <<blk, from>> \in Blocks(c)
    BY <2>1, <2>2, BlocksMember
  <2>5. QED BY <2>1, <2>2, <2>3, <2>4
<1>2. Free(from).kind = "free"
  BY DEF Free
<1>3. VacantIn(InUseBlocks(c), blk, from)
  BY <1>1, <1>2, TileVacant
<1>4. /\ from \in Nat /\ o \in 0 .. from /\ Aligned(blk, from) /\ InPool(blk, from)
      /\ blk \in Nat /\ halves \subseteq Orders
  BY <1>1, <1>3, OrderSizeAssumption, TotalAssumption DEF VacantIn, Units, Orders
<1>5. /\ Aligned(blk, o)
      /\ \A w \in Int : w \in Span(blk, o) => w \in Span(blk, from)
      /\ \A j \in halves, w \in Int : w \in Span(H(j), j) => w \in Span(blk, from)
  BY <1>4, Halves
<1>6. VacantIn(InUseBlocks(c), blk, o)
  <2>1. OrderSize[o] <= OrderSize[from]
    <3>1. OrderSize[o] \in Nat \ {0} /\ OrderSize[from] \in Nat \ {0}
      BY OrderSizeFacts
    <3>2. blk + OrderSize[o] - 1 \in Span(blk, o)
      BY <1>4, <3>1 DEF Span
    <3>3. blk + OrderSize[o] - 1 \in Span(blk, from)
      BY <1>4, <1>5, <3>1, <3>2
    <3>4. QED BY <1>4, <3>1, <3>3 DEF Span
  <2>2. InPool(blk, o)
    BY <1>4, <2>1, OrderSizeFacts, TotalAssumption DEF InPool
  <2>3. Span(blk, o) \subseteq Span(blk, from)
    <3>1. Span(blk, o) \subseteq Int
      BY <1>4, OrderSizeFacts DEF Span
    <3>2. QED BY <1>5, <3>1
  <2>4. QED BY <1>3, <1>5, <2>2, <2>3 DEF VacantIn
<1>7. ASSUME NEW j \in halves
      PROVE  /\ H(j) \in Units /\ H(j) # blk
             /\ c.tags[H(j)].kind \notin {"alloc", "sheet"}
  <2>1. j \in Orders /\ OrderSize[j] \in Nat \ {0}
    BY <1>4, OrderSizeFacts
  <2>2. H(j) \in Int /\ H(j) # blk
    BY <1>4, <2>1
  <2>3. H(j) \in Span(H(j), j)
    BY <2>1, <2>2 DEF Span
  <2>4. H(j) \in Span(blk, from)
    BY <1>5, <2>2, <2>3
  <2>5. H(j) \in Units
    BY <1>1, <1>4, <2>4, SpanFacts
  <2>6. ASSUME c.tags[H(j)].kind \in {"alloc", "sheet"} PROVE FALSE
    <3>1. <<H(j), c.tags[H(j)].order>> \in InUseBlocks(c)
      BY <2>5, <2>6 DEF InUseBlocks
    <3>2. c.tags[H(j)].order \in Orders
      BY <1>1, <3>1, LiveInPool
    <3>3. H(j) \in Span(H(j), c.tags[H(j)].order)
      BY <2>5, <3>2, SpanFacts
    <3>4. QED BY <1>3, <2>4, <3>1, <3>3 DEF VacantIn
  <2>7. QED BY <2>2, <2>5, <2>6
<1>8. /\ d.tags = [u \in Units |->
           IF \E j \in halves : u = H(j)
           THEN Free(CHOOSE j \in halves : u = H(j)) ELSE c.tags[u]]
      /\ Grant(d, blk, o).tags = [d.tags EXCEPT ![blk] = Alloc(o)]
  BY <1>1 DEF TakeAndSplit, Grant, PoolShapes
<1>9. InUseBlocks(d) = InUseBlocks(c)
  <2>1. ASSUME NEW u \in Units, \E j \in halves : u = H(j)
        PROVE  d.tags[u].kind \notin {"alloc", "sheet"} /\ c.tags[u].kind \notin {"alloc", "sheet"}
    <3>1. d.tags[u] = Free(CHOOSE j \in halves : u = H(j))
      BY <1>8, <2>1
    <3>2. d.tags[u].kind = "free"
      BY <3>1 DEF Free
    <3>3. QED BY <1>7, <2>1, <3>2
  <2>2. ASSUME NEW u \in Units, ~ \E j \in halves : u = H(j)
        PROVE  d.tags[u] = c.tags[u]
    BY <1>8, <2>2
  <2>3. ASSUME NEW u \in Units
        PROVE  \/ d.tags[u] = c.tags[u]
               \/ /\ d.tags[u].kind \notin {"alloc", "sheet"}
                  /\ c.tags[u].kind \notin {"alloc", "sheet"}
    BY <2>1, <2>2
  <2>4. QED BY <2>3 DEF InUseBlocks
<1>10. InUseBlocks(Grant(d, blk, o)) = InUseBlocks(d) \union {<<blk, o>>}
  <2>1. d.tags[blk] = Free(from)
    BY <1>1, <1>7, <1>8
  <2>2. \A u \in Units : Grant(d, blk, o).tags[u] = IF u = blk THEN Alloc(o) ELSE d.tags[u]
    BY <1>8
  <2>3. Alloc(o).kind = "alloc" /\ Alloc(o).order = o
    BY DEF Alloc
  <2>4. QED BY <1>1, <1>2, <2>1, <2>2, <2>3 DEF InUseBlocks
<1>11. QED BY <1>1, <1>6, <1>9, <1>10

(* Merging touches the tags of the block that is given up and of free blocks
   only.  S is a tiling that holds that block, the live and the free ones. *)
LEMMA MergeTags ==
  ASSUME NEW c \in PoolShapes, FreeListsMatchTags(c),
         NEW S \in SUBSET (Units \X Orders), Tiles(S),
         InUseBlocks(c) \subseteq S, FreeBlocks(c) \subseteq S,
         NEW off \in Units, NEW o \in Orders, <<off, o>> \in S
  PROVE  LET d == MergeAndFree(c, off, o)
         IN  /\ d.tags[off].kind \notin {"alloc", "sheet"}
             /\ \A u \in Units \ {off} :
                  \/ d.tags[u] = c.tags[u]
                  \/ {d.tags[u].kind, c.tags[u].kind} \cap {"alloc", "sheet"} = {}
<1> DEFINE m == MergeOrder(c, off, o)
           final == Level(off, m)
           passed == o .. m - 1
           buddy(k) == BuddyOf(Level(off, k), k)
           right(k) == Level(off, k + 1) + OrderSize[k]
           d == MergeAndFree(c, off, o)
<1>1. /\ m \in o .. Top /\ \A k \in passed : CanMerge(c, off, k)
      /\ off \in Nat
  BY MergeOrderFacts, TotalAssumption DEF Units
<1>2. /\ m \in o .. MaxOrder /\ m \in 0 .. MaxOrder /\ o \in 0 .. m /\ m \in Nat
      /\ passed \subseteq Orders /\ m \in Orders
      /\ \A k \in passed : k + 1 \in 0 .. m /\ k \in 0 .. m
  <2>1. o \in Nat /\ MaxOrder \in Nat /\ m \in Int /\ o <= m /\ m <= MaxOrder - 1
    BY <1>1, OrderSizeAssumption DEF Orders, Top
  <2>2. /\ m \in o .. MaxOrder /\ m \in 0 .. MaxOrder /\ o \in 0 .. m /\ m \in Nat
        /\ m \in Orders
    BY <2>1 DEF Orders
  <2>3. ASSUME NEW k \in passed
        PROVE  k \in Orders /\ k + 1 \in 0 .. m /\ k \in 0 .. m
    BY <2>1 DEF Orders
  <2>4. QED BY <2>2, <2>3
<1>3. Aligned(off, o)
  BY DEF Tiles
<1>4. d.tags = [u \in Units |->
         IF u = final THEN Free(m)
         ELSE IF \E k \in passed : u = right(k) THEN NoTag ELSE c.tags[u]]
  BY DEF MergeAndFree, PoolShapes
<1>5. Free(m).kind = "free" /\ NoTag.kind = "none"
  BY DEF Free, NoTag
<1>6. Level(off, o) = off
  BY <1>1, <1>2, <1>3, OrderSizeFacts DEF Level, Aligned
<1>7. d.tags[off].kind \notin {"alloc", "sheet"}
  <2>1. CASE off = final
    BY <1>4, <1>5, <2>1
  <2>2. CASE off # final
    <3>1. \E k \in passed : off = right(k)
      BY <1>1, <1>2, <1>6, <2>2, LevelCleared
    <3>2. QED BY <1>4, <1>5, <2>2, <3>1
  <2>3. QED BY <2>1, <2>2
<1>8. ASSUME NEW u \in Units, u \in Span(final, m), c.tags[u].kind \in {"alloc", "sheet"}
      PROVE  u = off
  <2> DEFINE p == c.tags[u].order
  <2>1. <<u, p>> \in S /\ p \in Orders /\ u \in Nat /\ u \in Span(u, p)
    <3>1. <<u, p>> \in InUseBlocks(c)
      BY <1>8 DEF InUseBlocks
    <3>2. p \in Orders
      BY <3>1, LiveInPool
    <3>3. QED BY <3>1, <3>2, SpanFacts, TotalAssumption DEF Units
  <2>2. CASE u \in Span(off, o)
    <3>1. <<u, p>> = <<off, o>>
      BY <2>1, <2>2 DEF Tiles
    <3>2. QED BY <3>1
  <2>3. CASE \E k \in passed : u \in Span(buddy(k), k)
    <3>1. PICK k \in passed : u \in Span(buddy(k), k)
      BY <2>3
    <3>2. k \in Orders /\ buddy(k) < Total /\ c.tags[buddy(k)] = Free(k)
      BY <1>1, <1>2 DEF CanMerge
    <3>3. Level(off, k) \in Nat /\ Aligned(Level(off, k), k)
      BY <1>1, <3>2, LevelStep
    <3>4. buddy(k) \in Nat
      BY <3>2, <3>3, BuddyInvolution
    <3>5. buddy(k) \in Units
      BY <3>2, <3>4, TotalAssumption DEF Units
    <3>6. <<buddy(k), k>> \in S
      <4>1. buddy(k) \in c.free[k]
        BY <3>2, <3>5 DEF FreeListsMatchTags
      <4>2. QED BY <3>2, <3>5, <4>1 DEF FreeBlocks
    <3>7. u = buddy(k)
      <4>1. <<u, p>> = <<buddy(k), k>>
        BY <2>1, <3>1, <3>6 DEF Tiles
      <4>2. QED BY <4>1
    <3>8. c.tags[u].kind = "free"
      BY <3>2, <3>7 DEF Free
    <3>9. QED BY <1>8, <3>8
  <2>4. u \in Span(off, o) \/ \E k \in passed : u \in Span(buddy(k), k)
    BY <1>1, <1>2, <1>3, <1>8, <2>1, MergeCovers
  <2>5. QED BY <2>2, <2>3, <2>4
<1>9. ASSUME NEW u \in Units, u = final \/ \E k \in passed : u = right(k)
      PROVE  u \in Span(final, m)
  <2>1. u \in Int
    BY TotalAssumption DEF Units
  <2>2. CASE u = final
    BY <1>2, <2>1, <2>2, OrderSizeFacts DEF Span
  <2>3. CASE \E k \in passed : u = right(k)
    <3>1. PICK k \in passed : u = right(k)
      BY <2>3
    <3>2. k \in Orders /\ OrderSize[k] \in Nat \ {0} /\ OrderSize[k + 1] = 2 * OrderSize[k]
      BY <1>2, OrderSizeFacts
    <3>3. Level(off, k + 1) \in Nat
      BY <1>1, <3>2, LevelStep
    <3>4. u \in Span(Level(off, k + 1), k + 1)
      BY <2>1, <3>1, <3>2, <3>3 DEF Span
    <3>5. QED BY <1>1, <1>2, <2>1, <3>4, LevelNested
  <2>4. QED BY <1>9, <2>2, <2>3
<1>10. ASSUME NEW u \in Units \ {off}
       PROVE  \/ d.tags[u] = c.tags[u]
              \/ {d.tags[u].kind, c.tags[u].kind} \cap {"alloc", "sheet"} = {}
  <2>1. CASE u = final \/ \E k \in passed : u = right(k)
    <3>1. d.tags[u] \in {Free(m), NoTag}
      BY <1>4, <2>1
    <3>2. d.tags[u].kind \notin {"alloc", "sheet"}
      BY <1>5, <3>1
    <3>3. c.tags[u].kind \notin {"alloc", "sheet"}
      BY <1>8, <1>9, <2>1
    <3>4. QED BY <3>2, <3>3
  <2>2. CASE ~ (u = final \/ \E k \in passed : u = right(k))
    BY <1>4, <2>2
  <2>3. QED BY <2>1, <2>2
<1>11. QED BY <1>7, <1>10

LEMMA PopLive ==
  ASSUME NEW c, WellFormed(c), NEW o \in Orders, NEW off \in c.cache[o]
  PROVE  /\ InUseBlocks(Grant(CachePop(c, off, o), off, o))
              = InUseBlocks(c) \union {<<off, o>>}
         /\ VacantIn(InUseBlocks(c), off, o)
         /\ off \in Units
<1> DEFINE d == Grant(CachePop(c, off, o), off, o)
<1>1. c \in PoolShapes /\ off \in Units /\ c.tags[off] = NoTag
  BY DEF WellFormed, CachedUntagged, PoolShapes
<1>2. <<off, o>> \in Blocks(c)
  BY <1>1, BlocksMember
<1>3. c.tags[off].kind \notin {"alloc", "sheet"}
  BY <1>1 DEF NoTag
<1>4. d.tags = [c.tags EXCEPT ![off] = Alloc(o)]
  BY <1>1 DEF Grant, CachePop, PoolShapes
<1>5. InUseBlocks(d) = InUseBlocks(c) \union {<<off, o>>}
  BY <1>1, <1>3, <1>4, UseAgain
<1>6. VacantIn(InUseBlocks(c), off, o)
  BY <1>1, <1>2, <1>3, TileVacant
<1>7. QED BY <1>1, <1>5, <1>6

LEMMA DeallocateLive ==
  ASSUME NEW c, WellFormed(c), NEW off \in Units, NEW o \in Orders,
         c.tags[off] \in {Alloc(o), Sheet(o)}
  PROVE  InUseBlocks(DeallocateOrder(c, off, o)) = InUseBlocks(c) \ {<<off, o>>}
<1> DEFINE e == Discharge(c, o)
           d == DeallocateOrder(c, off, o)
<1>1. /\ c \in PoolShapes /\ FreeListsMatchTags(c) /\ Tiles(Blocks(c))
      /\ Blocks(c) \in SUBSET (Units \X Orders) /\ <<off, o>> \in Blocks(c)
  BY InUseAlone, BlocksInPool DEF WellFormed
<1>2. e.tags = c.tags /\ e.free = c.free /\ e.cache = c.cache /\ e.cache_count = c.cache_count
  BY <1>1 DEF Discharge, PoolShapes
<1>3. e \in PoolShapes
  <2>1. c.allocated - OrderSize[o] \in Int
    BY <1>1, OrderSizeFacts DEF PoolShapes
  <2>2. QED BY <1>1, <2>1 DEF Discharge, PoolShapes
<1>4. CASE CacheTakes(c, o)
  <2>1. d = CachePush(e, off, o)
    BY <1>4 DEF DeallocateOrder
  <2>2. d.tags = [c.tags EXCEPT ![off] = NoTag]
    BY <1>2, <1>3, <2>1 DEF CachePush, PoolShapes
  <2>3. \A u \in Units : d.tags[u] = IF u = off THEN NoTag ELSE c.tags[u]
    BY <1>1, <2>2 DEF PoolShapes
  <2>4. NoTag.kind \notin {"alloc", "sheet"}
    BY DEF NoTag
  <2>5. QED BY <1>1, <2>3, <2>4, UseEnds
<1>5. CASE ~ CacheTakes(c, o)
  <2>1. d = MergeAndFree(e, off, o)
    BY <1>5 DEF DeallocateOrder
  <2>2. /\ FreeListsMatchTags(e)
        /\ InUseBlocks(e) \subseteq Blocks(c) /\ FreeBlocks(e) \subseteq Blocks(c)
    BY <1>1, <1>2 DEF FreeListsMatchTags, InUseBlocks, FreeBlocks, Blocks
  <2>3. /\ d.tags[off].kind \notin {"alloc", "sheet"}
        /\ \A u \in Units \ {off} :
             \/ d.tags[u] = e.tags[u]
             \/ {d.tags[u].kind, e.tags[u].kind} \cap {"alloc", "sheet"} = {}
    BY <1>1, <1>3, <2>1, <2>2, MergeTags
  <2>4. QED BY <1>1, <1>2, <2>3, UseEnds
<1>6. QED BY <1>4, <1>5

LEMMA FlushLive ==
  ASSUME NEW c, WellFormed(c), NEW o \in Orders, NEW off \in c.cache[o]
  PROVE  InUseBlocks(FlushOne(c, off, o)) = InUseBlocks(c)
<1> DEFINE rest == c.cache[o] \ {off}
           e == [c EXCEPT !.cache = [c.cache EXCEPT ![o] = rest],
                          !.cache_count = [c.cache_count EXCEPT ![o] =
                                             IF rest = {} THEN 0 ELSE @]]
           d == FlushOne(c, off, o)
<1>1. /\ c \in PoolShapes /\ FreeListsMatchTags(c) /\ Tiles(Blocks(c))
      /\ Blocks(c) \in SUBSET (Units \X Orders) /\ off \in Units /\ c.tags[off] = NoTag
  BY BlocksInPool DEF WellFormed, CachedUntagged, PoolShapes
<1>2. <<off, o>> \in Blocks(c)
  BY <1>1, BlocksMember
<1>3. d = MergeAndFree(e, off, o)
  BY DEF FlushOne
<1>4. e.tags = c.tags /\ e.free = c.free
  BY <1>1 DEF PoolShapes
<1>5. e \in PoolShapes
  <2>1. /\ [c.cache EXCEPT ![o] = rest] \in [Orders -> SUBSET Units]
        /\ [c.cache_count EXCEPT ![o] = IF rest = {} THEN 0 ELSE @] \in [Orders -> Int]
    BY <1>1 DEF PoolShapes
  <2>2. QED BY <1>1, <2>1 DEF PoolShapes
<1>6. /\ FreeListsMatchTags(e)
      /\ InUseBlocks(e) \subseteq Blocks(c) /\ FreeBlocks(e) \subseteq Blocks(c)
  BY <1>1, <1>4 DEF FreeListsMatchTags, InUseBlocks, FreeBlocks, Blocks
<1> HIDE DEF e, d
<1>7. /\ d.tags[off].kind \notin {"alloc", "sheet"}
      /\ \A u \in Units \ {off} :
           \/ d.tags[u] = e.tags[u]
           \/ {d.tags[u].kind, e.tags[u].kind} \cap {"alloc", "sheet"} = {}
  BY <1>1, <1>2, <1>3, <1>5, <1>6, MergeTags
<1>8. NoTag.kind \notin {"alloc", "sheet"}
  BY DEF NoTag
<1>9. \A u \in Units :
        \/ d.tags[u] = c.tags[u]
        \/ d.tags[u].kind \notin {"alloc", "sheet"} /\ c.tags[u].kind \notin {"alloc", "sheet"}
  BY <1>1, <1>4, <1>7, <1>8
<1>10. QED BY <1>9 DEF d, InUseBlocks

LEMMA MarkLive ==
  ASSUME NEW c, WellFormed(c), NEW off \in Units, NEW o \in Orders,
         c.tags[off] \in {Alloc(o), Sheet(o)},
         NEW d \in {MarkSheet(c, off), UnmarkSheet(c, off)}
  PROVE  InUseBlocks(d) = InUseBlocks(c)
<1>1. c \in PoolShapes
  BY DEF WellFormed
<1>2. /\ Alloc(o).kind = "alloc" /\ Alloc(o).order = o
      /\ Sheet(o).kind = "sheet" /\ Sheet(o).order = o
  BY DEF Alloc, Sheet
<1>3. d.tags \in {[c.tags EXCEPT ![off] = Sheet(o)], [c.tags EXCEPT ![off] = Alloc(o)]}
  BY <1>1, <1>2 DEF MarkSheet, UnmarkSheet, PoolShapes
<1>4. \A u \in Units : d.tags[u] = c.tags[u] \/ (u = off /\ d.tags[u] \in {Alloc(o), Sheet(o)})
  BY <1>1, <1>3 DEF PoolShapes
<1>5. ASSUME NEW u \in Units
      PROVE  /\ d.tags[u].kind \in {"alloc", "sheet"} <=> c.tags[u].kind \in {"alloc", "sheet"}
             /\ d.tags[u].order = c.tags[u].order
  BY <1>2, <1>4
<1>6. QED BY <1>5 DEF InUseBlocks

(* Growing in place takes the right halves of the larger block: they are free
   blocks, so nothing else that is live shares a unit with it. *)
LEMMA GrowLive ==
  ASSUME NEW c, WellFormed(c), NEW off \in Units, NEW o \in Orders,
         c.tags[off] \in {Alloc(o), Sheet(o)},
         NEW want \in Orders, o < want, CanGrow(c, off, o, want)
  PROVE  LET d == GrowTo(c, off, o, want)
             blk == <<off, o>>
         IN  /\ blk \in InUseBlocks(c)
             /\ InUseBlocks(d) = (InUseBlocks(c) \ {blk}) \union {<<off, want>>}
             /\ Aligned(off, want) /\ InPool(off, want)
             /\ \A other \in InUseBlocks(c) \ {blk} :
                  Span(other[1], other[2]) \cap Span(off, want) = {}
<1> DEFINE d == GrowTo(c, off, o, want)
           G(j) == off + OrderSize[j]
           absorbed == o .. want - 1
           blk == <<off, o>>
<1>1. /\ c \in PoolShapes /\ FreeListsMatchTags(c) /\ Tiles(Blocks(c))
      /\ Blocks(c) \in SUBSET (Units \X Orders)
      /\ off \in Nat /\ o \in Nat /\ want \in Nat /\ o \in 0 .. want
      /\ absorbed \subseteq Orders
  <2>1. /\ c \in PoolShapes /\ FreeListsMatchTags(c) /\ Tiles(Blocks(c))
        /\ Blocks(c) \in SUBSET (Units \X Orders)
    BY BlocksInPool DEF WellFormed
  <2>2. off \in Nat
    BY TotalAssumption DEF Units
  <2>3. o \in Nat /\ want \in Nat /\ o \in 0 .. want /\ absorbed \subseteq Orders
    BY OrderSizeAssumption DEF Orders
  <2>4. QED BY <2>1, <2>2, <2>3
<1>2. blk \in InUseBlocks(c)
  BY <1>1, LiveMember
<1>3. Aligned(off, want)
  BY DEF CanGrow
<1>4. ASSUME NEW j \in absorbed
      PROVE  /\ G(j) \in Units /\ G(j) # off /\ c.tags[G(j)] = Free(j)
             /\ <<G(j), j>> \in Blocks(c) /\ j \in Orders
  <2>1. j \in Orders /\ OrderSize[j] \in Nat \ {0}
    BY <1>1, OrderSizeFacts
  <2>2. G(j) < Total /\ c.tags[G(j)] = Free(j)
    BY DEF CanGrow
  <2>3. G(j) \in Units /\ G(j) # off
    BY <1>1, <2>1, <2>2, TotalAssumption DEF Units
  <2>4. G(j) \in c.free[j]
    BY <1>1, <2>1, <2>2, <2>3 DEF FreeListsMatchTags
  <2>5. QED BY <1>1, <2>1, <2>2, <2>3, <2>4, BlocksMember
<1>5. d.tags = [u \in Units |->
         IF u = off THEN Alloc(want)
         ELSE IF \E j \in absorbed : u = G(j) THEN NoTag ELSE c.tags[u]]
  BY <1>1 DEF GrowTo, PoolShapes
<1>6. InUseBlocks(d) = (InUseBlocks(c) \ {blk}) \union {<<off, want>>}
  <2>1. /\ Alloc(o).kind = "alloc" /\ Alloc(o).order = o
        /\ Sheet(o).kind = "sheet" /\ Sheet(o).order = o
        /\ Alloc(want).kind = "alloc" /\ Alloc(want).order = want
        /\ NoTag.kind = "none"
    BY DEF Alloc, Sheet, NoTag
  <2>2. d.tags[off] = Alloc(want) /\ c.tags[off].order = o
    BY <1>5, <2>1
  <2>3. ASSUME NEW u \in Units, u # off
        PROVE  \/ d.tags[u] = c.tags[u]
               \/ d.tags[u].kind \notin {"alloc", "sheet"} /\ c.tags[u].kind \notin {"alloc", "sheet"}
    <3>1. CASE \E j \in absorbed : u = G(j)
      <4>1. PICK j \in absorbed : u = G(j)
        BY <3>1
      <4>2. c.tags[u] = Free(j)
        BY <1>4, <4>1
      <4>3. c.tags[u].kind = "free"
        BY <4>2 DEF Free
      <4>4. d.tags[u] = NoTag
        BY <1>5, <2>3, <3>1
      <4>5. QED BY <2>1, <4>3, <4>4
    <3>2. CASE ~ \E j \in absorbed : u = G(j)
      BY <1>5, <2>3, <3>2
    <3>3. QED BY <3>1, <3>2
  <2>4. ASSUME NEW x
        PROVE  x \in InUseBlocks(d) <=> x \in (InUseBlocks(c) \ {blk}) \union {<<off, want>>}
    <3>1. ASSUME NEW u \in Units, x = <<u, d.tags[u].order>>, d.tags[u].kind \in {"alloc", "sheet"}
          PROVE  x \in (InUseBlocks(c) \ {blk}) \union {<<off, want>>}
      <4>1. CASE u = off
        BY <2>1, <2>2, <3>1, <4>1
      <4>2. CASE u # off
        <5>1. d.tags[u] = c.tags[u] /\ x # blk
          BY <2>3, <3>1, <4>2
        <5>2. x \in InUseBlocks(c)
          BY <3>1, <5>1 DEF InUseBlocks
        <5>3. QED BY <5>1, <5>2
      <4>3. QED BY <4>1, <4>2
    <3>2. ASSUME NEW u \in Units, x = <<u, c.tags[u].order>>, c.tags[u].kind \in {"alloc", "sheet"},
                 x # blk
          PROVE  x \in InUseBlocks(d)
      <4>1. u # off
        BY <2>2, <3>2
      <4>2. d.tags[u] = c.tags[u]
        BY <2>3, <3>2, <4>1
      <4>3. QED BY <3>2, <4>2 DEF InUseBlocks
    <3>3. <<off, want>> \in InUseBlocks(d)
      BY <2>1, <2>2 DEF InUseBlocks
    <3>4. QED BY <3>1, <3>2, <3>3 DEF InUseBlocks
  <2>5. QED BY <2>4
<1>7. InPool(off, want)
  <2>1. WellFormed(d)
    BY GrowWell
  <2>2. <<off, want>> \in Blocks(d)
    BY <1>6 DEF Blocks
  <2>3. QED BY <2>1, <2>2 DEF WellFormed, Tiles
<1>8. ASSUME NEW other \in InUseBlocks(c) \ {blk},
             NEW w \in Span(other[1], other[2]), w \in Span(off, want)
      PROVE  FALSE
  <2>1. w \in Units /\ w \in Int
    BY <1>7, <1>8, SpanFacts, TotalAssumption DEF Units
  <2>2. other \in Blocks(c) /\ blk \in Blocks(c)
    BY <1>2 DEF Blocks
  <2>3. w \in Span(off, o) \/ \E j \in absorbed : w \in Span(G(j), j)
    BY <1>1, <1>3, <1>8, <2>1, Halves
  <2>4. CASE w \in Span(off, o)
    <3>1. other = blk
      BY <1>1, <1>8, <2>1, <2>2, <2>4 DEF Tiles
    <3>2. QED BY <3>1
  <2>5. CASE \E j \in absorbed : w \in Span(G(j), j)
    <3>1. PICK j \in absorbed : w \in Span(G(j), j)
      BY <2>5
    <3>2. other = <<G(j), j>>
      BY <1>1, <1>4, <1>8, <2>1, <2>2, <3>1 DEF Tiles
    <3>3. c.tags[G(j)].kind \in {"alloc", "sheet"}
      BY <3>2 DEF InUseBlocks
    <3>4. c.tags[G(j)] = Free(j) /\ Free(j).kind = "free"
      BY <1>4 DEF Free
    <3>5. QED BY <3>3, <3>4
  <2>6. QED BY <2>3, <2>4, <2>5
<1>9. QED BY <1>2, <1>3, <1>6, <1>7, <1>8

(* find_free_order returns an order, or their number. *)
LEMMA FoundOrder ==
  ASSUME NEW c, WellFormed(c), NEW o \in Orders
  PROVE  FindFreeOrder(c, o) \in 0 .. MaxOrder
<1>1. CASE FreeOrders(c, o) = {}
  BY <1>1, OrderSizeAssumption DEF FindFreeOrder
<1>2. CASE FreeOrders(c, o) # {}
  <2>1. FreeOrders(c, o) \subseteq Orders /\ Orders \subseteq 0 .. MaxOrder /\ Orders \subseteq Nat
    BY OrderSizeFacts DEF FreeOrders, WellFormed, PoolShapes, Orders
  <2>2. \E i \in FreeOrders(c, o) : \A j \in FreeOrders(c, o) : i <= j
    BY <1>2, <2>1, LeastElement
  <2> QED BY <1>2, <2>1, <2>2 DEF FindFreeOrder
<1> QED BY <1>1, <1>2

(* find_free_order fails only when the lists of all orders it looks at are
   empty. *)
LEMMA NoFreeOrder ==
  ASSUME NEW c, WellFormed(c), NEW o \in Orders, FindFreeOrder(c, o) >= MaxOrder
  PROVE  \A j \in Orders : o <= j => c.free[j] = {}
<1>1. FreeOrders(c, o) = {}
  <2>1. SUFFICES ASSUME FreeOrders(c, o) # {} PROVE FALSE
    OBVIOUS
  <2>2. FreeOrders(c, o) \subseteq Orders /\ Orders \subseteq Nat
    BY OrderSizeFacts DEF FreeOrders, WellFormed, PoolShapes
  <2>3. FreeOrders(c, o) \subseteq Nat
    BY <2>2
  <2>4. \E i \in FreeOrders(c, o) : \A j \in FreeOrders(c, o) : i <= j
    BY <2>1, <2>3, LeastElement
  <2>5. FindFreeOrder(c, o) \in FreeOrders(c, o)
    BY <2>1, <2>4 DEF FindFreeOrder
  <2>6. FindFreeOrder(c, o) \in Orders
    BY <2>2, <2>5
  <2>7. QED BY <2>6, OrderSizeAssumption DEF Orders
<1>2. c.free_mask = {j \in Orders : c.free[j] # {}}
  BY DEF WellFormed, MaskMatchesLists
<1>3. QED BY <1>1, <1>2 DEF FreeOrders

LEMMA FreshLive == InUseBlocks(Fresh) = {}
<1>1. \A u \in Units : Fresh.tags[u].kind \in {"free", "none"}
  BY DEF Fresh, Free, NoTag
<1>2. QED BY <1>1 DEF InUseBlocks

-----------------------------------------------------------------------------
(***************************************************************************)
(* The units in use, and the counter that follows them.                    *)
(***************************************************************************)
Charged(c) == c.allocated = Cardinality(Covered(InUseBlocks(c)))

LEMMA CoveredFinite ==
  ASSUME NEW S
  PROVE  IsFiniteSet(Covered(S)) /\ Cardinality(Covered(S)) \in Nat
<1>1. IsFiniteSet(Units)
  BY TotalAssumption, FS_Interval DEF Units
<1>2. Covered(S) \subseteq Units
  BY DEF Covered
<1>3. QED BY <1>1, <1>2, FS_Subset, FS_CardinalityType

(* A block that finds its span vacant adds its size to what is covered. *)
LEMMA CoveredGains ==
  ASSUME NEW S \in SUBSET (Units \X Orders), NEW u \in Units, NEW p \in Orders,
         VacantIn(S, u, p)
  PROVE  Cardinality(Covered(S \union {<<u, p>>})) = Cardinality(Covered(S)) + OrderSize[p]
<1> DEFINE C == Covered(S)
           D == Span(u, p)
<1>1. D \subseteq Units /\ C \cap D = {}
  <2>1. D \subseteq Units
    BY SpanFacts DEF VacantIn
  <2>2. ASSUME NEW w \in C, w \in D PROVE FALSE
    <3>1. PICK blk \in S : w \in Span(blk[1], blk[2])
      BY <2>2 DEF Covered
    <3>2. QED BY <2>2, <3>1 DEF VacantIn
  <2>3. QED BY <2>1, <2>2
<1>2. Covered(S \union {<<u, p>>}) = C \union D
  <2>1. \A w \in Units : (\E blk \in S \union {<<u, p>>} : w \in Span(blk[1], blk[2]))
                         <=> (\E blk \in S : w \in Span(blk[1], blk[2])) \/ w \in D
    <3> DEFINE x == <<u, p>>
    <3>1. x[1] = u /\ x[2] = p
      OBVIOUS
    <3>2. \A w \in Units : w \in Span(x[1], x[2]) <=> w \in D
      BY <3>1
    <3> HIDE DEF x, D
    <3>3. QED BY <3>2, Zenon DEF x
  <2>2. C = {w \in Units : \E blk \in S : w \in Span(blk[1], blk[2])}
    BY DEF Covered
  <2>3. Covered(S \union {<<u, p>>})
          = {w \in Units : \E blk \in S \union {<<u, p>>} : w \in Span(blk[1], blk[2])}
    BY DEF Covered
  <2> HIDE DEF C, D
  <2>4. QED BY <1>1, <2>1, <2>2, <2>3
<1>3. IsFiniteSet(D) /\ Cardinality(D) = OrderSize[p] /\ OrderSize[p] \in Nat
  <2>1. PICK n \in Nat \ {0} : n = OrderSize[p]
    BY OrderSizeFacts
  <2>2. u \in Int /\ u + n - 1 \in Int /\ ~ (u > u + n - 1) /\ (u + n - 1) - u + 1 = n
    BY TotalAssumption DEF Units
  <2>3. D = u .. u + n - 1
    BY <2>1 DEF Span
  <2>4. QED BY <2>1, <2>2, <2>3, FS_Interval
<1>4. IsFiniteSet(C) /\ Cardinality(C) \in Nat
  BY CoveredFinite
<1> HIDE DEF C, D
<1>5. Cardinality(C \union D) = Cardinality(C) + Cardinality(D) - Cardinality(C \cap D)
  BY <1>3, <1>4, FS_Union
<1>6. Cardinality(C \cap D) = 0
  BY <1>1, FS_EmptySet
<1>7. Cardinality(C \union D) = Cardinality(C) + OrderSize[p]
  BY <1>3, <1>4, <1>5, <1>6
<1>8. QED BY <1>2, <1>7 DEF C

(* Around a block in use the others leave its span vacant. *)
LEMMA VacantAround ==
  ASSUME NEW c, WellFormed(c), NEW u \in Units, NEW p \in Orders, <<u, p>> \in InUseBlocks(c)
  PROVE  VacantIn(InUseBlocks(c) \ {<<u, p>>}, u, p)
<1>1. c \in PoolShapes /\ Tiles(Blocks(c)) /\ <<u, p>> \in Blocks(c)
  BY DEF WellFormed, Blocks
<1>2. Aligned(u, p) /\ InPool(u, p)
  BY <1>1 DEF Tiles
<1>3. ASSUME NEW blk \in InUseBlocks(c) \ {<<u, p>>}, NEW w \in Span(blk[1], blk[2]),
             w \in Span(u, p)
      PROVE  FALSE
  <2>1. w \in Units
    BY <1>2, <1>3, SpanFacts
  <2>2. blk \in Blocks(c) /\ blk # <<u, p>>
    BY DEF Blocks
  <2>3. QED BY <1>1, <1>3, <2>1, <2>2 DEF Tiles
<1>4. QED BY <1>2, <1>3 DEF VacantIn

LEMMA CoveredLoses ==
  ASSUME NEW c, WellFormed(c), NEW u \in Units, NEW p \in Orders, <<u, p>> \in InUseBlocks(c)
  PROVE  Cardinality(Covered(InUseBlocks(c) \ {<<u, p>>}))
           = Cardinality(Covered(InUseBlocks(c))) - OrderSize[p]
<1> DEFINE S == InUseBlocks(c) \ {<<u, p>>}
<1>1. S \in SUBSET (Units \X Orders) /\ VacantIn(S, u, p) /\ S \union {<<u, p>>} = InUseBlocks(c)
  BY LiveInPool, VacantAround DEF WellFormed
<1>2. Cardinality(Covered(S)) \in Nat /\ OrderSize[p] \in Nat
  BY CoveredFinite, OrderSizeFacts
<1> HIDE DEF S
<1>3. Cardinality(Covered(InUseBlocks(c))) = Cardinality(Covered(S)) + OrderSize[p]
  BY <1>1, CoveredGains
<1>4. Cardinality(Covered(S)) = Cardinality(Covered(InUseBlocks(c))) - OrderSize[p]
  BY <1>2, <1>3
<1>5. QED BY <1>4 DEF S

LEMMA FreshCharged == Charged(Fresh)
<1>1. Covered(InUseBlocks(Fresh)) = {}
  BY FreshLive DEF Covered
<1>2. Fresh.allocated = 0
  BY DEF Fresh
<1>3. QED BY <1>1, <1>2, FS_EmptySet DEF Charged

LEMMA SplitCharged ==
  ASSUME NEW c, WellFormed(c), Charged(c), NEW o \in Orders, NEW from \in Orders, o <= from,
         NEW blk \in c.free[from]
  PROVE  Charged(Grant(TakeAndSplit(c, blk, from, o), blk, o))
<1> DEFINE d == Grant(TakeAndSplit(c, blk, from, o), blk, o)
<1>1. /\ c \in PoolShapes /\ InUseBlocks(c) \in SUBSET (Units \X Orders)
      /\ InUseBlocks(d) = InUseBlocks(c) \union {<<blk, o>>}
      /\ VacantIn(InUseBlocks(c), blk, o) /\ blk \in Units
  BY SplitLive, LiveInPool DEF WellFormed
<1>2. d.allocated = c.allocated + OrderSize[o]
  BY <1>1 DEF Grant, TakeAndSplit, PoolShapes
<1> HIDE DEF d
<1>3. QED BY <1>1, <1>2, CoveredGains DEF Charged, d

LEMMA PopCharged ==
  ASSUME NEW c, WellFormed(c), Charged(c), NEW o \in Orders, NEW off \in c.cache[o]
  PROVE  Charged(Grant(CachePop(c, off, o), off, o))
<1> DEFINE d == Grant(CachePop(c, off, o), off, o)
<1>1. /\ c \in PoolShapes /\ InUseBlocks(c) \in SUBSET (Units \X Orders)
      /\ InUseBlocks(d) = InUseBlocks(c) \union {<<off, o>>}
      /\ VacantIn(InUseBlocks(c), off, o) /\ off \in Units
  BY PopLive, LiveInPool DEF WellFormed
<1>2. d.allocated = c.allocated + OrderSize[o]
  BY <1>1 DEF Grant, CachePop, PoolShapes
<1> HIDE DEF d
<1>3. QED BY <1>1, <1>2, CoveredGains DEF Charged, d

LEMMA DeallocateCharged ==
  ASSUME NEW c, WellFormed(c), Charged(c), NEW off \in Units, NEW o \in Orders,
         c.tags[off] \in {Alloc(o), Sheet(o)}
  PROVE  Charged(DeallocateOrder(c, off, o))
<1> DEFINE d == DeallocateOrder(c, off, o)
<1>1. /\ c \in PoolShapes /\ <<off, o>> \in InUseBlocks(c)
      /\ InUseBlocks(d) = InUseBlocks(c) \ {<<off, o>>}
  BY DeallocateLive, LiveMember DEF WellFormed
<1>2. d.allocated = c.allocated - OrderSize[o]
  BY <1>1 DEF DeallocateOrder, Discharge, CachePush, MergeAndFree, PoolShapes
<1> HIDE DEF d
<1>3. QED BY <1>1, <1>2, CoveredLoses DEF Charged, d

LEMMA FlushCharged ==
  ASSUME NEW c, WellFormed(c), Charged(c), NEW o \in Orders, NEW off \in c.cache[o]
  PROVE  Charged(FlushOne(c, off, o))
<1>1. FlushOne(c, off, o).allocated = c.allocated
  BY DEF FlushOne, MergeAndFree, WellFormed, PoolShapes
<1>2. QED BY <1>1, FlushLive DEF Charged

LEMMA MarkCharged ==
  ASSUME NEW c, WellFormed(c), Charged(c), NEW off \in Units, NEW o \in Orders,
         c.tags[off] \in {Alloc(o), Sheet(o)},
         NEW d \in {MarkSheet(c, off), UnmarkSheet(c, off)}
  PROVE  Charged(d)
<1>1. d.allocated = c.allocated
  BY DEF MarkSheet, UnmarkSheet, WellFormed, PoolShapes
<1>2. QED BY <1>1, MarkLive DEF Charged

LEMMA GrowCharged ==
  ASSUME NEW c, WellFormed(c), Charged(c), NEW off \in Units, NEW o \in Orders,
         c.tags[off] \in {Alloc(o), Sheet(o)},
         NEW want \in Orders, o < want, CanGrow(c, off, o, want)
  PROVE  Charged(GrowTo(c, off, o, want))
<1> DEFINE d == GrowTo(c, off, o, want)
           blk == <<off, o>>
           S == InUseBlocks(c) \ {blk}
<1>1. /\ blk \in InUseBlocks(c) /\ InUseBlocks(d) = S \union {<<off, want>>}
      /\ VacantIn(S, off, want)
  BY GrowLive DEF VacantIn
<1>2. c \in PoolShapes /\ S \in SUBSET (Units \X Orders)
  BY LiveInPool DEF WellFormed
<1>3. d.allocated = c.allocated + (OrderSize[want] - OrderSize[o])
  BY <1>2 DEF GrowTo, PoolShapes
<1>4. Cardinality(Covered(S)) = Cardinality(Covered(InUseBlocks(c))) - OrderSize[o]
  BY <1>1, CoveredLoses
<1>5. Cardinality(Covered(S)) \in Nat /\ OrderSize[o] \in Nat /\ OrderSize[want] \in Nat
      /\ c.allocated \in Int
  BY <1>2, CoveredFinite, OrderSizeFacts DEF PoolShapes
<1> HIDE DEF d, S, blk
<1>6. Cardinality(Covered(InUseBlocks(d))) = Cardinality(Covered(S)) + OrderSize[want]
  BY <1>1, <1>2, CoveredGains
<1>7. QED BY <1>3, <1>4, <1>5, <1>6 DEF Charged, d

(* What is not in use is free or cached. *)
LEMMA FreeCovered ==
  ASSUME NEW c, WellFormed(c)
  PROVE  Cardinality(Covered(FreeBlocks(c) \union CachedBlocks(c)))
           = Total - Cardinality(Covered(InUseBlocks(c)))
<1> DEFINE U == Covered(InUseBlocks(c))
           V == Covered(FreeBlocks(c) \union CachedBlocks(c))
<1>1. c \in PoolShapes /\ Tiles(Blocks(c)) /\ FreeListsMatchTags(c) /\ CachedUntagged(c)
  BY DEF WellFormed
<1>2. InUseBlocks(c) \cap (FreeBlocks(c) \union CachedBlocks(c)) = {}
  <2>1. SUFFICES ASSUME NEW u \in Units, NEW p \in Orders, <<u, p>> \in InUseBlocks(c),
                        u \in c.free[p] \/ u \in c.cache[p]
                 PROVE  FALSE
    BY <1>1, LiveInPool DEF FreeBlocks, CachedBlocks
  <2>2. c.tags[u] \in {Alloc(p), Sheet(p)}
    BY <1>1, <2>1, LiveMember
  <2>3. QED BY <2>1, <2>2, InUseAlone
<1>3. U \union V = Units /\ U \cap V = {}
  <2>1. ASSUME NEW w \in Units PROVE w \in U \/ w \in V
    BY <1>1 DEF Tiles, Blocks, Covered
  <2>2. ASSUME NEW w \in U, w \in V PROVE FALSE
    <3>1. PICK x \in InUseBlocks(c) : w \in Span(x[1], x[2])
      BY DEF Covered
    <3>2. PICK y \in FreeBlocks(c) \union CachedBlocks(c) : w \in Span(y[1], y[2])
      BY <2>2 DEF Covered
    <3>3. x = y
      BY <1>1, <3>1, <3>2 DEF Tiles, Blocks, Covered
    <3>4. QED BY <1>2, <3>3
  <2>3. QED BY <2>1, <2>2 DEF Covered
<1>4. IsFiniteSet(U) /\ IsFiniteSet(V) /\ Cardinality(U) \in Nat /\ Cardinality(V) \in Nat
  BY CoveredFinite
<1>5. Cardinality(Units) = Total /\ Total \in Nat
  BY TotalAssumption, FS_Interval DEF Units
<1> HIDE DEF U, V
<1>6. Cardinality(U \union V) = Cardinality(U) + Cardinality(V) - Cardinality(U \cap V)
  BY <1>4, FS_Union
<1>7. Cardinality(U \cap V) = 0
  BY <1>3, FS_EmptySet
<1>8. Cardinality(V) = Total - Cardinality(U)
  BY <1>3, <1>4, <1>5, <1>6, <1>7
<1>9. QED BY <1>8 DEF U, V
=============================================================================
