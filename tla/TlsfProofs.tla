----------------------------- MODULE TlsfProofs -----------------------------
(***************************************************************************)
(* Proofs about Tlsf, for every size of sheet, number of sheets and number *)
(* of classes: the headers of a sheet form one chain, no two free blocks   *)
(* touch, the lists and bitmaps hold exactly the free blocks, a pointer is *)
(* known exactly if its block is in use, a request is granted exactly up   *)
(* to largest_free(), and the tier implements SmallStore.                  *)
(*                                                                         *)
(* First the size classes: each is an interval of sizes, Low its smallest, *)
(* and both mappings name the interval a size lies in.                     *)
(*                                                                         *)
(* Then the operations.  All but adding and removing a sheet cut a run of  *)
(* adjacent blocks anew: from lo to mid one block, and from mid to hi      *)
(* another, if mid < hi.  What that does to the chain is proved once       *)
(* (RecutLinked, RecutApart); of each operation it remains to show that it *)
(* is such a cut and that it leaves the lists with the blocks that are     *)
(* free.  These lemmas are about any state of a tier, not only about t: a  *)
(* region, which holds its tier among other things, uses them too.         *)
(*                                                                         *)
(* Last the specification: its inductive invariant is Whole.               *)
(***************************************************************************)
EXTENDS Tlsf, SizeClasses, PowerProofs

(***************************************************************************)
(* The size classes.                                                       *)
(***************************************************************************)
LEMMA MappingNumbers ==
  /\ SlLog2 \in 1 .. 5 /\ SlLog2 \in Nat /\ SlCount \in Nat \ {0}
  /\ DataUnits \in Nat /\ SmallUnits \in Nat /\ DataUnits >= 4
  /\ DataBytes \in Nat /\ DataBytes = 16 * DataUnits
  /\ Granule = 16 /\ MinBlock = 32 /\ FlShift = 5
<1>1. SlLog2 \in 1 .. 5 /\ DataUnits \in Nat /\ SmallUnits \in Nat /\ 2 * (SmallUnits + 2) <= DataUnits
  BY MappingAssumption
<1>2. SlCount \in Nat \ {0}
  BY <1>1, PowType DEF SlCount
<1> QED BY <1>1, <1>2 DEF Granule, MinBlock, FlShift, DataBytes

(* __log2 and __fls32: the exponent of the highest bit set. *)
LEMMA LogFacts ==
  ASSUME NEW v \in 1 .. 4 * DataBytes
  PROVE  Log2[v] \in Nat /\ 2 ^ Log2[v] <= v /\ v < 2 ^ (Log2[v] + 1)
<1> DEFINE D == 1 .. 4 * DataBytes
           P(w, k) == 2 ^ k <= w /\ w < 2 ^ (k + 1)
           Rec(f) == [w \in D |-> IF w = 1 THEN 0 ELSE 1 + f[w \div 2]]
           g == [w \in D |-> CHOOSE k \in Nat : P(w, k)]
<1>1. D \subseteq Nat \ {0} /\ \A w \in D : w # 1 => w \div 2 \in D
  BY MappingNumbers
<1>2. \A w \in D : g[w] \in Nat /\ P(w, g[w])
  <2> SUFFICES ASSUME NEW w \in D PROVE g[w] \in Nat /\ P(w, g[w])
    OBVIOUS
  <2>1. \E k \in Nat : P(w, k)
    BY <1>1, FloorLog
  <2>2. g[w] = CHOOSE k \in Nat : P(w, k)
    OBVIOUS
  <2> HIDE DEF g, P
  <2> QED BY <2>1, <2>2
<1>3. ASSUME NEW w \in D, w # 1, NEW k \in Nat, P(w \div 2, k) PROVE P(w, 1 + k)
  <2>1. PICK e \in Nat : e = 2 ^ k /\ 2 ^ (k + 1) = 2 * e /\ 2 ^ ((k + 1) + 1) = 2 * (2 * e)
    BY PowStep
  <2>2. e <= w \div 2 /\ w \div 2 < 2 * e
    BY <1>3, <2>1
  <2>3. w \in Nat
    BY <1>1
  <2>4. 2 * e <= w /\ w < 2 * (2 * e)
    BY <2>2, <2>3
  <2>5. 1 + k = k + 1
    OBVIOUS
  <2> QED BY <2>1, <2>4, <2>5
<1>4. ASSUME NEW w \in D, NEW i \in Nat, NEW j \in Nat, P(w, i), P(w, j) PROVE i = j
  BY <1>1, <1>4, FloorLogUnique
<1>5. P(1, 0)
  BY PowZero, PowStep
<1>6. 1 \in D => g[1] = 0
  <2> HIDE DEF g, P
  <2> QED BY <1>2, <1>4, <1>5
<1>7. \A w \in D : g[w] = IF w = 1 THEN 0 ELSE 1 + g[w \div 2]
  <2>1. ASSUME NEW w \in D, w # 1 PROVE g[w] = 1 + g[w \div 2]
    <3> HIDE DEF P, g, D
    <3>1. g[w \div 2] \in Nat /\ P(w \div 2, g[w \div 2])
      BY <1>1, <1>2, <2>1
    <3>2. P(w, 1 + g[w \div 2]) /\ 1 + g[w \div 2] \in Nat
      BY <1>3, <2>1, <3>1
    <3>3. g[w] \in Nat /\ P(w, g[w])
      BY <1>2
    <3> QED BY <1>4, <3>2, <3>3
  <2> HIDE DEF g
  <2> QED BY <1>6, <2>1
<1>8. g = Rec(g)
  <2>1. g = [w \in D |-> g[w]]
    OBVIOUS
  <2> HIDE DEF g
  <2> QED BY <1>7, <2>1
<1>9. Log2 = Rec(Log2)
  <2>1. Log2 = CHOOSE f : f = Rec(f)
    BY DEF Log2
  <2> HIDE DEF g, Rec
  <2> QED BY <1>8, <2>1
<1>10. \A w \in D : Log2[w] = g[w]
  <2> DEFINE T == {w \in D : Log2[w] # g[w]}
  <2>1. SUFFICES ASSUME T # {} PROVE FALSE
    OBVIOUS
  <2>2. PICK m \in T : \A w \in T : m <= w
    <3>1. T \subseteq Nat
      BY <1>1
    <3> HIDE DEF T
    <3> QED BY <2>1, <3>1, LeastElement
  <2>3. m \in D /\ Log2[m] = IF m = 1 THEN 0 ELSE 1 + Log2[m \div 2]
    BY <1>9
  <2>4. g[m] = IF m = 1 THEN 0 ELSE 1 + g[m \div 2]
    BY <1>7, <2>3
  <2>5. m # 1
    BY <2>2, <2>3, <2>4
  <2>6. m \div 2 \in D /\ m \div 2 < m /\ m \in Nat /\ m \div 2 \in Nat
    <3>1. m \in Nat \ {0} /\ m \div 2 \in D
      BY <1>1, <2>3, <2>5
    <3> QED BY <1>1, <3>1
  <2>7. m \div 2 \notin T
    <3> HIDE DEF T
    <3> QED BY <2>2, <2>6
  <2>8. Log2[m \div 2] = g[m \div 2]
    BY <2>6, <2>7
  <2> HIDE DEF g
  <2> QED BY <2>2, <2>3, <2>4, <2>5, <2>8
<1> HIDE DEF g
<1> QED BY <1>2, <1>10

(***************************************************************************)
(* The sizes of a class: an interval, the classes in the order in which    *)
(* find_free visits them.                                                  *)
(***************************************************************************)
Width(i) == 2 ^ (i + FlShift - SlLog2)
Low(c)   == Width(c[1]) * (SlCount + c[2])
InClass(c, v) ==
  /\ c[1] \in Nat /\ c[2] \in 0 .. SlCount - 1 /\ c = <<c[1], c[2]>>
  /\ Low(c) <= v /\ v < Low(c) + Width(c[1])

LEMMA WidthFacts ==
  ASSUME NEW i \in Nat
  PROVE  /\ Width(i) \in Nat \ {0} /\ Width(i + 1) = 2 * Width(i)
         /\ Width(i) * SlCount = 2 ^ (i + FlShift) /\ Width(i) <= 2 ^ (i + FlShift)
<1> DEFINE e == i + FlShift - SlLog2
<1>1. e \in Nat /\ (i + 1) + FlShift - SlLog2 = e + 1 /\ e + SlLog2 = i + FlShift
  BY MappingNumbers
<1>2. Width(i) = 2 ^ e /\ Width(i + 1) = 2 ^ (e + 1)
  BY <1>1 DEF Width
<1> HIDE DEF e
<1>3. 2 ^ e \in Nat /\ 2 ^ e >= 1 /\ 2 ^ (e + 1) = 2 * 2 ^ e
  BY <1>1, PowType, PowStep
<1>4. Width(i) * SlCount = 2 ^ (i + FlShift)
  <2>1. 2 ^ (e + SlLog2) = 2 ^ e * 2 ^ SlLog2
    BY <1>1, MappingNumbers, PowSum
  <2> QED BY <1>1, <1>2, <2>1 DEF SlCount
<1>5. Width(i) <= Width(i) * SlCount
  <2>1. \A a \in Nat, b \in Nat \ {0} : a <= a * b
    OBVIOUS
  <2> QED BY <1>2, <1>3, <2>1, MappingNumbers
<1> QED BY <1>2, <1>3, <1>4, <1>5

(* mapping_insert names the class a size lies in. *)
LEMMA InsertClass ==
  ASSUME NEW v \in MinBlock .. 4 * DataBytes
  PROVE  InClass(MappingInsert(v), v) /\ MappingInsert(v)[1] = Log2[v] - FlShift
<1> DEFINE f == Log2[v]
           i == f - FlShift
           w == Width(i)
           q == v \div w
<1>1. v \in 1 .. 4 * DataBytes /\ v \in Nat /\ v >= 2 ^ 5
  <2>1. 2 ^ 5 = 32
    BY PowZero, PowStep
  <2> QED BY <2>1, MappingNumbers
<1>2. f \in Nat /\ 2 ^ f <= v /\ v < 2 ^ (f + 1)
  BY <1>1, LogFacts
<1> HIDE DEF f
<1>3. f >= 5
  <2>1. SUFFICES ASSUME f < 5 PROVE FALSE
    BY <1>2
  <2>2. PICK n \in Nat : n = f + 1 /\ (n = 5 \/ n < 5)
    BY <1>2, <2>1
  <2>3. 2 ^ (f + 1) <= 2 ^ 5
    <3>1. n < 5 => 2 ^ n < 2 ^ 5
      BY PowMonotone
    <3>2. 2 ^ n \in Nat /\ 2 ^ 5 \in Nat
      BY PowType
    <3>3. CASE n = 5
      <4>1. 2 ^ n = 2 ^ 5
        BY <3>3
      <4> QED BY <2>2, <3>2, <4>1
    <3>4. CASE n < 5
      BY <2>2, <3>1, <3>2, <3>4
    <3> QED BY <2>2, <3>3, <3>4
  <2>4. 2 ^ (f + 1) \in Nat /\ 2 ^ 5 \in Nat
    BY <1>2, PowType
  <2> QED BY <1>1, <1>2, <2>3, <2>4
<1>4. i \in Nat /\ i + FlShift = f /\ (i + 1) + FlShift = f + 1
  BY <1>2, <1>3, MappingNumbers
<1>5. w \in Nat \ {0} /\ w * SlCount = 2 ^ f /\ 2 ^ (f + 1) = 2 * (w * SlCount)
  <2>1. Width(i) \in Nat \ {0} /\ Width(i) * SlCount = 2 ^ (i + FlShift)
    BY <1>4, WidthFacts
  <2>2. 2 ^ (f + 1) = 2 * 2 ^ f
    BY <1>2, PowStep
  <2> QED BY <1>4, <2>1, <2>2
<1>6. MappingInsert(v) = <<i, q % SlCount>>
  BY <1>2, <1>4 DEF MappingInsert, Width, f
<1> HIDE DEF i, w
<1>7. q \in Nat /\ w * q <= v /\ v < w * q + w
  BY <1>1, <1>5, DivMod
<1>8. SlCount <= q /\ q < 2 * SlCount
  <2>1. SlCount \in Nat /\ w * SlCount <= v /\ v < w * (2 * SlCount)
    BY <1>2, <1>5, MappingNumbers
  <2>2. \A a, b \in Nat : a < b => w * a + w <= w * b
    <3> SUFFICES ASSUME NEW a \in Nat, NEW b \in Nat, a < b PROVE w * a + w <= w * b
      OBVIOUS
    <3>1. PICK k \in Nat : b = a + 1 + k
      <4>1. b - a - 1 \in Nat /\ b = a + 1 + (b - a - 1)
        OBVIOUS
      <4> QED BY <4>1
    <3>2. w * b = w * a + w + w * k /\ w * k \in Nat
      BY <1>5, <3>1
    <3> QED BY <1>5, <3>2
  <2> HIDE DEF q
  <2>3. ~ (q < SlCount)
    <3>1. q < SlCount => w * q + w <= w * SlCount
      BY <1>7, <2>1, <2>2
    <3> QED BY <1>1, <1>5, <1>7, <2>1, <3>1
  <2>4. ~ (2 * SlCount <= q)
    <3>1. 2 * SlCount <= q => w * (2 * SlCount) <= w * q
      <4>1. 2 * SlCount = q \/ ~ (2 * SlCount <= q) \/ 2 * SlCount < q
        BY <1>7, <2>1
      <4>2. 2 * SlCount < q => w * (2 * SlCount) + w <= w * q
        BY <1>7, <2>1, <2>2
      <4> QED BY <1>5, <1>7, <2>1, <4>1, <4>2
    <3> QED BY <1>1, <1>5, <1>7, <2>1, <3>1
  <2> QED BY <1>7, <2>1, <2>3, <2>4
<1>9. q % SlCount = q - SlCount
  <2>1. q = SlCount * 1 + (q - SlCount) /\ q - SlCount \in 0 .. SlCount - 1
    BY <1>7, <1>8, MappingNumbers
  <2> HIDE DEF q
  <2>2. PICK r \in 0 .. SlCount - 1 : r = q - SlCount /\ q = SlCount * 1 + r
    BY <2>1
  <2>3. SlCount \in Nat \ {0} /\ 1 \in Nat
    BY MappingNumbers
  <2>4. PICK k \in Nat, m \in Nat \ {0} : k = 1 /\ m = SlCount /\ q = m * k + r /\ r < m
    BY <2>2, <2>3
  <2>5. r \in 0 .. m - 1
    BY <2>2, <2>4
  <2>6. q % m = r
    BY <1>7, <2>4, <2>5, Remainder
  <2>7. q % SlCount = r
    BY <2>4, <2>6
  <2> QED BY <2>2, <2>7
<1> HIDE DEF q
<1>10. q % SlCount \in 0 .. SlCount - 1 /\ SlCount + (q % SlCount) = q
  BY <1>7, <1>8, <1>9, MappingNumbers
<1> DEFINE c == MappingInsert(v)
<1>11. c[1] = i /\ c[2] = q % SlCount /\ c = <<c[1], c[2]>>
  BY <1>6
<1> HIDE DEF c
<1>12. Low(c) = w * q /\ Width(c[1]) = w
  BY <1>10, <1>11 DEF Low, w
<1>13. InClass(c, v)
  BY <1>4, <1>7, <1>10, <1>11, <1>12 DEF InClass
<1> QED BY <1>11, <1>13 DEF c, i, f

LEMMA ClassOrder ==
  ASSUME NEW c, NEW v \in Nat, InClass(c, v), NEW d, NEW w \in Nat, InClass(d, w), Before(c, d)
  PROVE  Low(c) + Width(c[1]) <= Low(d) /\ v < w
<1>1. /\ c[1] \in Nat /\ c[2] \in 0 .. SlCount - 1 /\ d[1] \in Nat /\ d[2] \in 0 .. SlCount - 1
      /\ Low(c) <= v /\ v < Low(c) + Width(c[1]) /\ Low(d) <= w
  BY DEF InClass
<1>2. /\ Width(c[1]) \in Nat \ {0} /\ Width(d[1]) \in Nat \ {0} /\ SlCount \in Nat \ {0}
      /\ \A i \in Nat : /\ Width(i) * SlCount = 2 ^ (i + FlShift)
                       /\ Width(i) \in Nat \ {0} /\ Width(i + 1) = 2 * Width(i)
  BY <1>1, WidthFacts, MappingNumbers
<1>3. \A a \in Nat, x, y \in Nat : x <= y => a * x <= a * y
  <2> SUFFICES ASSUME NEW a \in Nat, NEW x \in Nat, NEW y \in Nat, x <= y PROVE a * x <= a * y
    OBVIOUS
  <2>1. PICK k \in Nat : y = x + k
    <3>1. y - x \in Nat /\ y = x + (y - x)
      OBVIOUS
    <3> QED BY <3>1
  <2>2. a * y = a * x + a * k /\ a * k \in Nat /\ a * x \in Nat
    BY <2>1
  <2> QED BY <2>2
<1>4. Low(c) \in Nat /\ Low(d) \in Nat
  BY <1>1, <1>2 DEF Low
<1>5. CASE c[1] = d[1] /\ c[2] < d[2]
  <2>1. Low(c) + Width(c[1]) = Width(c[1]) * (SlCount + c[2] + 1)
    BY <1>1, <1>2 DEF Low
  <2>2. SlCount + c[2] + 1 \in Nat /\ SlCount + d[2] \in Nat /\ SlCount + c[2] + 1 <= SlCount + d[2]
    BY <1>1, <1>2, <1>5
  <2>3. Width(c[1]) * (SlCount + c[2] + 1) <= Width(c[1]) * (SlCount + d[2])
    BY <1>2, <1>3, <2>2
  <2> QED BY <1>1, <1>2, <1>4, <1>5, <2>1, <2>3 DEF Low
<1>6. CASE c[1] < d[1]
  <2>1. Low(c) + Width(c[1]) <= Width(c[1]) * (2 * SlCount)
    <3>1. Low(c) + Width(c[1]) = Width(c[1]) * (SlCount + c[2] + 1)
      BY <1>1, <1>2 DEF Low
    <3>2. SlCount + c[2] + 1 \in Nat /\ 2 * SlCount \in Nat /\ SlCount + c[2] + 1 <= 2 * SlCount
      BY <1>1, <1>2
    <3>3. Width(c[1]) * (SlCount + c[2] + 1) <= Width(c[1]) * (2 * SlCount)
      BY <1>2, <1>3, <3>2
    <3> QED BY <3>1, <3>3
  <2>2. Width(c[1]) * (2 * SlCount) = 2 ^ ((c[1] + 1) + FlShift)
    <3>1. PICK n \in Nat : n = c[1] + 1
      BY <1>1
    <3>2. Width(n) * SlCount = 2 ^ (n + FlShift) /\ Width(n) = 2 * Width(c[1])
      BY <1>1, <1>2, <3>1
    <3>3. (2 * Width(c[1])) * SlCount = Width(c[1]) * (2 * SlCount)
      BY <1>2
    <3> QED BY <3>1, <3>2, <3>3
  <2>3. 2 ^ ((c[1] + 1) + FlShift) <= 2 ^ (d[1] + FlShift)
    <3>1. PICK i \in Nat, j \in Nat : i = (c[1] + 1) + FlShift /\ j = d[1] + FlShift /\ (i < j \/ i = j)
      BY <1>1, <1>6, MappingNumbers
    <3>2. i < j => 2 ^ i < 2 ^ j
      BY PowMonotone
    <3>3. 2 ^ i \in Nat /\ 2 ^ j \in Nat
      BY PowType
    <3>4. 2 ^ i <= 2 ^ j
      BY <3>1, <3>2, <3>3
    <3> QED BY <3>1, <3>4
  <2>4. 2 ^ (d[1] + FlShift) <= Low(d)
    <3>1. Width(d[1]) * SlCount = 2 ^ (d[1] + FlShift)
      BY <1>1, <1>2
    <3>2. PICK y \in Nat : y = SlCount + d[2] /\ SlCount <= y
      BY <1>1, <1>2
    <3>3. Width(d[1]) * SlCount <= Width(d[1]) * y
      BY <1>2, <1>3, <3>2
    <3> QED BY <3>1, <3>2, <3>3 DEF Low
  <2>5. Width(c[1]) * (2 * SlCount) \in Nat
    <3>1. \A a, b \in Nat : a * b \in Nat
      OBVIOUS
    <3>2. 2 * SlCount \in Nat
      BY <1>2
    <3> QED BY <1>2, <3>1, <3>2
  <2>6. 2 ^ (d[1] + FlShift) \in Nat
    <3>1. PICK n \in Nat : n = d[1] + FlShift
      BY <1>1, MappingNumbers
    <3> QED BY <3>1, PowType
  <2> QED BY <1>1, <1>2, <1>4, <2>1, <2>2, <2>3, <2>4, <2>5, <2>6
<1> QED BY <1>5, <1>6 DEF Before

LEMMA ClassUnique ==
  ASSUME NEW c, NEW v \in Nat, NEW w \in Nat, InClass(c, v), NEW d, InClass(d, w)
  PROVE  /\ Before(c, d) \/ c = d \/ Before(d, c)
         /\ Low(c) <= w /\ w < Low(c) + Width(c[1]) => c = d
<1>1. /\ c[1] \in Nat /\ c[2] \in 0 .. SlCount - 1 /\ d[1] \in Nat /\ d[2] \in 0 .. SlCount - 1
      /\ c = <<c[1], c[2]>> /\ d = <<d[1], d[2]>> /\ Low(d) <= w /\ w < Low(d) + Width(d[1])
  BY DEF InClass
<1>2. Before(c, d) \/ c = d \/ Before(d, c)
  BY <1>1, MappingNumbers DEF Before
<1>3. Width(c[1]) \in Nat \ {0} /\ Width(d[1]) \in Nat \ {0}
  BY <1>1, WidthFacts
<1>4. Low(c) \in Nat /\ Low(d) \in Nat
  BY <1>1, <1>3, MappingNumbers DEF Low
<1>5. Before(c, d) => Low(c) + Width(c[1]) <= Low(d)
  BY ClassOrder
<1>6. Before(d, c) => Low(d) + Width(d[1]) <= Low(c)
  BY ClassOrder
<1> QED BY <1>1, <1>2, <1>3, <1>4, <1>5, <1>6

LEMMA LogUnique ==
  ASSUME NEW v \in 1 .. 4 * DataBytes, NEW k \in Nat, 2 ^ k <= v, v < 2 ^ (k + 1)
  PROVE  Log2[v] = k
<1>1. v \in Nat \ {0}
  BY MappingNumbers
<1>2. Log2[v] \in Nat /\ 2 ^ Log2[v] <= v /\ v < 2 ^ (Log2[v] + 1)
  BY LogFacts
<1>3. PICK j \in Nat : j = Log2[v]
  BY <1>2
<1>4. 2 ^ j <= v /\ v < 2 ^ (j + 1)
  BY <1>2, <1>3
<1>5. j = k
  BY <1>1, <1>4, FloorLogUnique
<1> QED BY <1>3, <1>5

(* No block of a sheet is too large for the table of lists. *)
LEMMA InTable ==
  ASSUME NEW v \in MinBlock .. DataBytes
  PROVE  MappingInsert(v) \in Classes
<1>1. v \in MinBlock .. 4 * DataBytes /\ v \in 1 .. 4 * DataBytes /\ DataBytes \in 1 .. 4 * DataBytes
  BY MappingNumbers
<1> DEFINE c == MappingInsert(v)
<1>2. InClass(c, v) /\ c[1] = Log2[v] - FlShift
  BY <1>1, InsertClass
<1>3. Log2[v] \in Nat /\ 2 ^ Log2[v] <= v /\ v \in Nat
  BY <1>1, LogFacts, MappingNumbers
<1>4. Log2[DataBytes] \in Nat /\ DataBytes < 2 ^ (Log2[DataBytes] + 1)
  BY <1>1, LogFacts
<1>5. Log2[v] <= Log2[DataBytes]
  <2>1. PICK i \in Nat, j \in Nat : i = Log2[v] /\ j = Log2[DataBytes] + 1
    BY <1>3, <1>4
  <2>2. 2 ^ i < 2 ^ j /\ 2 ^ i \in Nat /\ 2 ^ j \in Nat
    <3>1. 2 ^ i \in Nat /\ 2 ^ j \in Nat
      BY PowType
    <3> QED BY <1>3, <1>4, <2>1, <3>1, MappingNumbers
  <2>3. i < j
    <3>1. SUFFICES ASSUME ~ (i < j) PROVE FALSE
      OBVIOUS
    <3>2. j < i => 2 ^ j < 2 ^ i
      BY PowMonotone
    <3>3. j = i => 2 ^ j = 2 ^ i
      OBVIOUS
    <3>4. j < i \/ j = i
      BY <3>1
    <3> QED BY <2>2, <3>2, <3>3, <3>4
  <2> QED BY <1>3, <1>4, <2>1, <2>3
<1> HIDE DEF c
<1>6. c[1] \in Nat /\ c[2] \in 0 .. SlCount - 1 /\ c = <<c[1], c[2]>>
  BY <1>2 DEF InClass
<1>7. c[1] \in 0 .. FlCount - 1
  BY <1>2, <1>3, <1>4, <1>5, <1>6, MappingNumbers DEF FlCount
<1> QED BY <1>6, <1>7 DEF Classes, c

(* mapping_search and the table name the class of the rounded size. *)
Rounded(v) == v + Width(Log2[v] - FlShift) - 1

LEMMA SearchRounds ==
  ASSUME NEW v \in MinBlock .. DataBytes
  PROVE  /\ Rounded(v) \in v .. 2 * v
         /\ MappingSearch(v) = MappingInsert(Rounded(v))
         /\ TableEntry(v) = MappingInsert(Rounded(v))
<1> DEFINE f == Log2[v]
           i == f - FlShift
           w == Width(i)
           r == v + w - 1
           p == 2 ^ (f + 1)
<1>1. /\ v \in MinBlock .. 4 * DataBytes /\ v \in 1 .. 4 * DataBytes /\ v \in Nat
      /\ 4 * DataBytes \in Nat /\ v <= DataBytes
  BY MappingNumbers
<1>2. f \in Nat /\ 2 ^ f <= v /\ v < 2 ^ (f + 1)
  BY <1>1, LogFacts
<1>3. i \in Nat
  <2>1. InClass(MappingInsert(v), v) /\ MappingInsert(v)[1] = i
    BY <1>1, InsertClass
  <2> HIDE DEF i
  <2> QED BY <2>1 DEF InClass
<1> HIDE DEF f
<1>4. i + FlShift = f /\ f - SlLog2 = i + FlShift - SlLog2
  BY <1>2, MappingNumbers
<1>5. w \in Nat \ {0} /\ w <= 2 ^ f /\ 2 ^ (f - SlLog2) = w
  <2>1. Width(i) \in Nat \ {0} /\ Width(i) <= 2 ^ (i + FlShift)
    BY <1>3, WidthFacts
  <2> QED BY <1>4, <2>1 DEF Width
<1>6. 2 ^ f \in Nat /\ p = 2 * 2 ^ f /\ 2 ^ ((f + 1) + 1) = 2 * p /\ v < p
  BY <1>2, PowStep
<1> HIDE DEF i, w, p
<1>7. r \in v .. 2 * v /\ r \in Nat /\ r < 2 * p /\ r \in 1 .. 4 * DataBytes
  <2>1. PICK e \in Nat, n \in Nat : e = 2 ^ f /\ n = DataBytes
    BY <1>6, MappingNumbers
  <2>2. e <= v /\ w <= e /\ p = 2 * e /\ v <= n
    BY <1>1, <1>2, <1>5, <1>6, <2>1
  <2>3. v >= 1
    BY <1>1
  <2> QED BY <1>1, <1>5, <1>6, <2>1, <2>2, <2>3
<1> DEFINE f2 == f + r \div p
<1>8. Log2[r] = f2 /\ f2 \in Nat
  <2> HIDE DEF r
  <2>1. p \in Nat \ {0} /\ f + 1 \in Nat /\ 2 ^ f <= r
    BY <1>1, <1>2, <1>5, <1>6, <1>7
  <2>2. CASE r < p
    <3>1. r \div p = 0
      BY <1>7, <2>1, <2>2
    <3>2. Log2[r] = f
      BY <1>2, <1>7, <2>1, <2>2, LogUnique DEF p
    <3> QED BY <1>2, <3>1, <3>2
  <2>3. CASE p <= r
    <3>1. r \div p = 1
      <4>1. r \div p \in Nat /\ p * (r \div p) <= r /\ r < p * (r \div p) + p
        <5>1. PICK u \in Nat : u = r
          BY <1>7
        <5>2. u \div p \in Nat /\ p * (u \div p) <= u /\ u < p * (u \div p) + p
          BY <2>1, DivMod
        <5> QED BY <5>1, <5>2
      <4> DEFINE q == r \div p
      <4>2. q \in Nat /\ p * q <= r /\ r < p * q + p
        BY <4>1
      <4> HIDE DEF q
      <4>3. q # 0
        BY <2>1, <2>3, <4>2, <1>7
      <4>4. ~ (q >= 2)
        <5>1. SUFFICES ASSUME q >= 2 PROVE FALSE
          OBVIOUS
        <5>2. PICK m \in Nat : q = 2 + m
          <6>1. q - 2 \in Nat /\ q = 2 + (q - 2)
            BY <4>2, <5>1
          <6> QED BY <6>1
        <5>3. p * q = 2 * p + p * m /\ p * m \in Nat
          BY <2>1, <5>2
        <5> QED BY <1>7, <2>1, <4>2, <5>3
      <4> QED BY <4>2, <4>3, <4>4 DEF q
    <3>2. PICK k \in Nat : k = f + 1
      BY <2>1
    <3>3. 2 ^ k <= r /\ r < 2 ^ (k + 1)
      BY <1>6, <1>7, <2>3, <3>2 DEF p
    <3>4. Log2[r] = k
      BY <1>7, <3>3, LogUnique
    <3> QED BY <1>2, <3>1, <3>2, <3>4
  <2> QED BY <1>7, <2>1, <2>2, <2>3
<1>9. r = v + 2 ^ (f - SlLog2) - 1 /\ r = Rounded(v)
  BY <1>5 DEF Rounded, w, i, f
<1>10. f2 - FlShift + FlShift - SlLog2 = f2 - SlLog2
  BY <1>8, MappingNumbers
<1> HIDE DEF f2
<1>11. MappingInsert(r) = <<f2 - FlShift, (r \div 2 ^ (f2 - SlLog2)) % SlCount>>
  <2> HIDE DEF r
  <2> QED BY <1>8, <1>10 DEF MappingInsert
<1> HIDE DEF r
<1>12. MappingSearch(v) = MappingInsert(r)
  BY <1>9, <1>11 DEF MappingSearch, f2, f, p
<1>13. TableEntry(v) = MappingInsert(r)
  <2>1. ~ (v < MinBlock)
    BY MappingNumbers
  <2> QED BY <1>8, <1>9, <1>11, <2>1 DEF TableEntry, f
<1> QED BY <1>7, <1>9, <1>12, <1>13

(* Every size of the class the search begins with is large enough. *)
LEMMA SearchFloor ==
  ASSUME NEW v \in MinBlock .. DataBytes
  PROVE  LET d == MappingInsert(Rounded(v))
         IN  InClass(d, Rounded(v)) /\ v <= Low(d)
<1> DEFINE c == MappingInsert(v)
           d == MappingInsert(Rounded(v))
<1>1. v \in MinBlock .. 4 * DataBytes /\ v \in Nat
  BY MappingNumbers
<1>2. PICK r \in Nat : r = Rounded(v) /\ r \in v .. 2 * v /\ r \in MinBlock .. 4 * DataBytes
  BY <1>1, SearchRounds, MappingNumbers
<1>3. InClass(c, v) /\ c[1] = Log2[v] - FlShift
  BY <1>1, InsertClass
<1>4. InClass(d, r)
  BY <1>2, InsertClass
<1>5. r = v + Width(c[1]) - 1
  BY <1>2, <1>3 DEF Rounded
<1> HIDE DEF c, d
<1>6. c[1] \in Nat /\ Width(c[1]) \in Nat \ {0} /\ Low(c) <= v /\ v < Low(c) + Width(c[1])
  BY <1>3, WidthFacts DEF InClass
<1>7. d[1] \in Nat /\ Width(d[1]) \in Nat \ {0} /\ d[2] \in Nat /\ c[2] \in Nat
  BY <1>3, <1>4, WidthFacts, MappingNumbers DEF InClass
<1>8. Low(d) \in Nat /\ Low(c) \in Nat
  BY <1>6, <1>7, MappingNumbers DEF Low
<1>9. Before(c, d) \/ c = d \/ Before(d, c)
  BY <1>1, <1>2, <1>3, <1>4, ClassUnique
<1>10. Before(d, c) => r < v
  BY <1>1, <1>3, <1>4, ClassOrder
<1>11. Before(c, d) => Low(c) + Width(c[1]) <= Low(d)
  BY <1>1, <1>2, <1>3, <1>4, ClassOrder
<1>12. c = d => r < Low(c) + Width(c[1])
  BY <1>4 DEF InClass
<1>13. v <= Low(d)
  BY <1>1, <1>2, <1>5, <1>6, <1>8, <1>9, <1>10, <1>11, <1>12
<1> QED BY <1>2, <1>4, <1>13 DEF d

LEMMA SearchSafe ==
  ASSUME NEW v \in MinBlock .. DataBytes, NEW s \in MinBlock .. DataBytes,
         ~ Before(MappingInsert(s), MappingInsert(Rounded(v)))
  PROVE  v <= s
<1> DEFINE d == MappingInsert(Rounded(v))
           e == MappingInsert(s)
<1>1. s \in MinBlock .. 4 * DataBytes /\ s \in Nat /\ v \in Nat
  BY MappingNumbers
<1>2. PICK r \in Nat : r = Rounded(v) /\ v <= r
  BY <1>1, SearchRounds
<1>3. InClass(d, r) /\ v <= Low(d)
  BY <1>2, SearchFloor
<1>4. InClass(e, s)
  BY <1>1, InsertClass
<1> HIDE DEF d, e
<1>5. Before(e, d) \/ e = d \/ Before(d, e)
  BY <1>1, <1>2, <1>3, <1>4, ClassUnique
<1>6. Before(d, e) => r < s
  BY <1>1, <1>3, <1>4, ClassOrder
<1>7. Low(e) <= s /\ Low(e) \in Nat
  <2>1. e[1] \in Nat /\ e[2] \in Nat /\ Low(e) <= s
    BY <1>4, MappingNumbers DEF InClass
  <2>2. Width(e[1]) \in Nat
    BY <2>1, WidthFacts
  <2> QED BY <2>1, <2>2, MappingNumbers DEF Low
<1>8. ~ Before(e, d)
  BY DEF d, e
<1> QED BY <1>1, <1>2, <1>3, <1>5, <1>6, <1>7, <1>8

(* A class passed over is the one of the size itself, and the size is not
   the smallest in it. *)
LEMMA SearchTight ==
  ASSUME NEW v \in BlockSizes, NEW s \in BlockSizes, v <= s,
         Before(MappingInsert(s), MappingInsert(Rounded(v)))
  PROVE  /\ MappingInsert(s) = MappingInsert(v)
         /\ v > MinBlock /\ MappingInsert(v - Granule) = MappingInsert(v)
<1> DEFINE c == MappingInsert(v)
           d == MappingInsert(Rounded(v))
           e == MappingInsert(s)
           w == Width(c[1])
<1>1. /\ v \in MinBlock .. DataBytes /\ s \in MinBlock .. DataBytes
      /\ v \in MinBlock .. 4 * DataBytes /\ s \in MinBlock .. 4 * DataBytes
      /\ s \in Nat /\ v \in Nat /\ \E k \in Nat : v = 16 * k
  BY MappingNumbers DEF BlockSizes
<1>2. PICK r \in Nat : r = Rounded(v) /\ v <= r
  BY <1>1, SearchRounds
<1>3. InClass(d, r)
  BY <1>1, <1>2, SearchFloor
<1>4. InClass(e, s) /\ InClass(c, v) /\ c[1] = Log2[v] - FlShift
  BY <1>1, InsertClass
<1>5. r = v + w - 1
  BY <1>2, <1>4 DEF Rounded
<1>6. Before(e, d)
  OBVIOUS
<1> HIDE DEF c, d, e
<1>7. /\ c[1] \in Nat /\ c[2] \in 0 .. SlCount - 1 /\ d[1] \in Nat /\ d[2] \in 0 .. SlCount - 1
      /\ e[1] \in Nat /\ e[2] \in 0 .. SlCount - 1
      /\ Low(c) <= v /\ v < Low(c) + w /\ Low(d) <= r /\ Low(e) <= s
      /\ SlCount \in Nat \ {0}
  BY <1>3, <1>4, MappingNumbers DEF InClass
<1>8. w \in Nat \ {0} /\ Width(d[1]) \in Nat \ {0} /\ Width(e[1]) \in Nat \ {0}
  BY <1>7, WidthFacts
<1>9. Low(c) \in Nat /\ Low(d) \in Nat /\ Low(e) \in Nat
  BY <1>7, <1>8 DEF Low
<1>10. Low(e) + Width(e[1]) <= Low(d)
  BY <1>1, <1>2, <1>3, <1>4, <1>6, ClassOrder
<1>11. e = c
  <2>1. Before(e, c) \/ e = c \/ Before(c, e)
    BY <1>1, <1>4, ClassUnique
  <2>2. Before(e, c) => s < v
    BY <1>1, <1>4, ClassOrder
  <2>3. ~ Before(c, e)
    <3>1. SUFFICES ASSUME Before(c, e) PROVE FALSE
      OBVIOUS
    <3>2. Low(c) + w <= Low(e)
      BY <1>1, <1>4, <3>1, ClassOrder
    <3>3. w <= Width(e[1])
      <4>1. PICK i \in Nat, j \in Nat : /\ i = c[1] + FlShift - SlLog2 /\ j = e[1] + FlShift - SlLog2
                                        /\ (i = j \/ i < j)
        BY <1>7, <3>1, MappingNumbers DEF Before
      <4>2. i < j => 2 ^ i < 2 ^ j
        BY PowMonotone
      <4>3. w = 2 ^ i /\ Width(e[1]) = 2 ^ j
        BY <4>1 DEF Width
      <4>4. i = j => 2 ^ i = 2 ^ j
        OBVIOUS
      <4> QED BY <1>8, <4>1, <4>2, <4>3, <4>4
    <3> HIDE DEF w
    <3> QED BY <1>1, <1>2, <1>5, <1>7, <1>8, <1>9, <1>10, <3>2, <3>3
  <2> QED BY <1>1, <2>1, <2>2, <2>3
<1>12. v # Low(c)
  <2>1. SUFFICES ASSUME v = Low(c) PROVE FALSE
    OBVIOUS
  <2>2. Low(c) <= r /\ r < Low(c) + Width(c[1])
    BY <1>5, <1>8, <1>9, <2>1
  <2>3. c = d
    BY <1>1, <1>2, <1>3, <1>4, <2>2, ClassUnique
  <2> QED BY <1>6, <1>7, <1>11, <2>3 DEF Before
<1>13. Low(c) + 16 <= v
  <2>1. PICK k \in Nat : v = 16 * k
    BY <1>1
  <2>2. PICK n \in Nat, i \in Nat : n = SlCount + c[2] /\ i = c[1] + FlShift - SlLog2
    BY <1>7, MappingNumbers
  <2>3. Low(c) = w * n /\ w = 2 ^ i
    BY <2>2 DEF Low, Width
  <2>4. \E m \in Nat : w = 16 * m \/ 16 = w * m
    <3>1. 2 ^ 0 = 1 /\ 2 ^ 1 = 2 /\ 2 ^ 2 = 4 /\ 2 ^ 3 = 8 /\ 2 ^ 4 = 16
      BY PowZero, PowStep
    <3>2. i = 0 \/ i = 1 \/ i = 2 \/ i = 3 \/ \E j \in Nat : i = 4 + j
      <4>1. i \in 0 .. 3 \/ (i - 4 \in Nat /\ i = 4 + (i - 4))
        OBVIOUS
      <4> QED BY <4>1
    <3>3. ASSUME NEW j \in Nat, i = 4 + j PROVE \E m \in Nat : w = 16 * m
      <4>1. 2 ^ (4 + j) = 2 ^ 4 * 2 ^ j /\ 2 ^ j \in Nat
        BY PowSum, PowType
      <4> QED BY <2>3, <3>1, <3>3, <4>1
    <3>4. i \in {0, 1, 2, 3} => w \in {1, 2, 4, 8}
      BY <2>3, <3>1
    <3>5. w \in {1, 2, 4, 8} => \E m \in Nat : 16 = w * m
      <4>1. 16 = 1 * 16 /\ 16 = 2 * 8 /\ 16 = 4 * 4 /\ 16 = 8 * 2
        OBVIOUS
      <4> HIDE DEF w
      <4> QED BY <4>1
    <3> HIDE DEF w
    <3> QED BY <3>2, <3>3, <3>4, <3>5
  <2> HIDE DEF w
  <2>5. PICK m \in Nat : w = 16 * m \/ 16 = w * m
    BY <2>4
  <2>6. CASE w = 16 * m
    <3>1. w * n = 16 * (m * n) /\ m * n \in Nat
      BY <2>6
    <3>2. PICK x \in Nat : x = m * n /\ Low(c) = 16 * x
      BY <2>3, <3>1
    <3>3. 16 * x < 16 * k
      BY <1>1, <1>7, <1>9, <1>12, <2>1, <3>2
    <3> QED BY <2>1, <3>2, <3>3
  <2>7. CASE 16 = w * m
    <3>1. v = w * (m * k) /\ m * k \in Nat
      BY <1>8, <2>1, <2>7
    <3>2. PICK x \in Nat : x = m * k /\ v = w * x
      BY <3>1
    <3>3. w * n < w * x /\ w * x < w * n + w
      BY <1>1, <1>7, <1>9, <1>12, <2>3, <3>2
    <3>4. ~ (n < x)
      <4>1. SUFFICES ASSUME n < x PROVE FALSE
        OBVIOUS
      <4>2. PICK a \in Nat : x = n + 1 + a
        <5>1. x - n - 1 \in Nat /\ x = n + 1 + (x - n - 1)
          BY <4>1
        <5> QED BY <5>1
      <4>3. w * x = w * n + w + w * a /\ w * a \in Nat /\ w * n \in Nat
        BY <1>8, <4>2
      <4> QED BY <1>8, <3>3, <4>3
    <3>5. ~ (x <= n)
      <4>1. SUFFICES ASSUME x <= n PROVE FALSE
        OBVIOUS
      <4>2. PICK a \in Nat : n = x + a
        <5>1. n - x \in Nat /\ n = x + (n - x)
          BY <4>1
        <5> QED BY <5>1
      <4>3. w * n = w * x + w * a /\ w * a \in Nat /\ w * x \in Nat
        BY <1>8, <4>2
      <4> QED BY <1>8, <3>3, <4>3
    <3> QED BY <3>4, <3>5
  <2> QED BY <2>5, <2>6, <2>7
<1>14. Low(c) >= 32
  <2>1. w * SlCount = 2 ^ (c[1] + FlShift)
    BY <1>7, WidthFacts
  <2>2. 2 ^ (c[1] + FlShift) >= 32
    <3>1. 2 ^ 5 = 32
      BY PowZero, PowStep
    <3>2. PICK i \in Nat : i = c[1]
      BY <1>7
    <3>3. 2 ^ (i + 5) = 2 ^ i * 2 ^ 5 /\ 2 ^ i \in Nat /\ 2 ^ i >= 1
      BY PowSum, PowType
    <3> QED BY <3>1, <3>2, <3>3, MappingNumbers
  <2>3. Low(c) = w * SlCount + w * c[2] /\ w * c[2] \in Nat /\ w * SlCount \in Nat
    BY <1>7, <1>8 DEF Low
  <2> HIDE DEF w
  <2> QED BY <1>9, <2>1, <2>2, <2>3
<1>15. PICK u \in Nat : u = v - 16 /\ u \in MinBlock .. 4 * DataBytes /\ Low(c) <= u /\ u < Low(c) + w
  BY <1>1, <1>7, <1>8, <1>9, <1>13, <1>14, MappingNumbers
<1>16. MappingInsert(u) = c
  <2>1. InClass(MappingInsert(u), u)
    BY <1>15, InsertClass
  <2> QED BY <1>1, <1>4, <1>15, <2>1, ClassUnique
<1>17. v > MinBlock /\ u = v - Granule
  BY <1>1, <1>9, <1>13, <1>14, <1>15, MappingNumbers
<1> QED BY <1>11, <1>16, <1>17 DEF c, e

(* A size below the smallest block begins with the first class. *)
LEMMA SmallSearch ==
  ASSUME NEW v \in 1 .. DataBytes
  PROVE  /\ v < MinBlock => SearchClass(v) = <<0, 0>>
         /\ v >= MinBlock => SearchClass(v) = MappingInsert(Rounded(v))
<1>1. TableMax >= MinBlock /\ TableMax \in Nat /\ v \in Nat
  BY MappingNumbers DEF TableMax
<1>2. v < MinBlock => SearchClass(v) = <<0, 0>>
  BY <1>1, MappingNumbers DEF SearchClass, TableEntry
<1>3. v >= MinBlock => v \in MinBlock .. DataBytes
  BY <1>1, MappingNumbers
<1>4. v >= MinBlock => SearchClass(v) = MappingInsert(Rounded(v))
  BY <1>3, SearchRounds DEF SearchClass
<1> QED BY <1>2, <1>4

LEMMA ClassInTable == \A s \in MinUnits .. DataUnits : ClassOf[s] \in Classes
<1> SUFFICES ASSUME NEW s \in MinUnits .. DataUnits PROVE ClassOf[s] \in Classes
  OBVIOUS
<1>1. PICK v \in Nat : v = Granule * s /\ v \in MinBlock .. DataBytes
  BY MappingNumbers DEF MinUnits
<1>2. ClassOf[s] = MappingInsert(v)
  BY <1>1 DEF ClassOf
<1> QED BY <1>1, <1>2, InTable

(***************************************************************************)
(* The headers and the lists.                                              *)
(***************************************************************************)
Headers == [size : MinUnits .. DataUnits, used : BOOLEAN, prev : -1 .. DataUnits - 1]
FreeIn(h) == {x \in DOMAIN h : ~ h[x].used}
UsedIn(h) == {x \in DOMAIN h : h[x].used}
EndOf(h, x) == x[2] + h[x].size

(* The chain, with what makes it inductive: no block starts inside another. *)
Linked(h) ==
  /\ \A x \in DOMAIN h :
       /\ x \in Places /\ h[x] \in Headers
       /\ EndOf(h, x) = DataUnits \/ <<x[1], EndOf(h, x)>> \in DOMAIN h
       /\ x[2] = 0 => h[x].prev = -1
       /\ x[2] # 0 => /\ <<x[1], h[x].prev>> \in DOMAIN h
                      /\ EndOf(h, <<x[1], h[x].prev>>) = x[2]
  /\ \A x, y \in DOMAIN h : x[1] = y[1] /\ x[2] < y[2] => EndOf(h, x) <= y[2]

Apart(h) ==
  \A x, y \in DOMAIN h :
    x[1] = y[1] /\ EndOf(h, x) = y[2] => h[x].used \/ h[y].used

(* The lists of t hold the blocks of S, by the sizes that h gives them. *)
Listed(t_, S, h) ==
  /\ t_.heads \in [Classes -> Seq(Places)]
  /\ \A c \in Classes :
       /\ \A i, j \in DOMAIN t_.heads[c] : t_.heads[c][i] = t_.heads[c][j] => i = j
       /\ {t_.heads[c][i] : i \in DOMAIN t_.heads[c]} = {x \in S : ClassOf[h[x].size] = c}
  /\ t_.sl = {c \in Classes : t_.heads[c] # <<>>}
  /\ t_.fl = {c[1] : c \in t_.sl}

IsState(t_) ==
  t_ \in [hdr : {t_.hdr}, heads : {t_.heads}, sl : {t_.sl}, fl : {t_.fl},
          marks : {t_.marks}, count : {t_.count}, allocated : {t_.allocated}]

LEMMA Units16 == MinUnits = 2
BY DEF MinUnits, MinBlock, Granule

(* What an update of fields leaves alone. *)
SameBut(v, u, fields) ==
  /\ IsState(v)
  /\ "hdr" \notin fields => v.hdr = u.hdr
  /\ "lists" \notin fields => v.heads = u.heads /\ v.sl = u.sl /\ v.fl = u.fl
  /\ "marks" \notin fields => v.marks = u.marks
  /\ "count" \notin fields => v.count = u.count
  /\ "allocated" \notin fields => v.allocated = u.allocated

(***************************************************************************)
(* The lists.                                                              *)
(***************************************************************************)
LEMMA ListInsert ==
  ASSUME NEW u, IsState(u), NEW S, NEW h, Listed(u, S, h),
         NEW x \in Places, x \notin S, NEW size \in MinUnits .. DataUnits,
         NEW k, k[x].size = size, \A y \in S : k[y].size = h[y].size
  PROVE  LET v == InsertFree(u, x, size)
         IN  SameBut(v, u, {"lists"}) /\ Listed(v, S \union {x}, k)
<1> DEFINE c == ClassOf[size]
           l == u.heads[c]
           hs == [u.heads EXCEPT ![c] = <<x>> \o @]
           sl == u.sl \union {c}
           fl == u.fl \union {c[1]}
           v == InsertFree(u, x, size)
<1>1. c \in Classes /\ l \in Seq(Places) /\ u.heads \in [Classes -> Seq(Places)]
  BY ClassInTable DEF Listed
<1>2. v = [u EXCEPT !.heads = hs, !.sl = sl, !.fl = fl]
  BY Zenon DEF InsertFree
<1>3. SameBut(v, u, {"lists"}) /\ v.heads = hs /\ v.sl = sl /\ v.fl = fl
  <2> HIDE DEF hs, sl, fl, v
  <2> QED BY <1>2 DEF IsState, SameBut
<1> DEFINE m == <<x>> \o l
<1>4. /\ hs \in [Classes -> Seq(Places)] /\ hs[c] = m
      /\ \A d \in Classes : d # c => hs[d] = u.heads[d]
  BY <1>1
<1>5. /\ Len(l) \in Nat /\ DOMAIN l = 1 .. Len(l) /\ DOMAIN m = 1 .. Len(l) + 1
      /\ m[1] = x /\ \A i \in 1 .. Len(l) : m[i + 1] = l[i]
      /\ m # <<>>
  BY <1>1
<1>6. {l[i] : i \in DOMAIN l} = {y \in S : ClassOf[h[y].size] = c}
      /\ \A i, j \in DOMAIN l : l[i] = l[j] => i = j
  BY <1>1 DEF Listed
<1>7. {m[i] : i \in DOMAIN m} = {l[i] : i \in DOMAIN l} \union {x}
  <2> HIDE DEF m, l
  <2>1. ASSUME NEW i \in DOMAIN m PROVE m[i] \in {l[j] : j \in DOMAIN l} \union {x}
    <3>1. CASE i = 1
      BY <1>5, <3>1
    <3>2. CASE i # 1
      <4>1. i - 1 \in DOMAIN l /\ m[i] = l[i - 1]
        BY <1>5, <3>2
      <4> QED BY <4>1
    <3> QED BY <3>1, <3>2
  <2>2. ASSUME NEW i \in DOMAIN l PROVE l[i] \in {m[j] : j \in DOMAIN m}
    <3>1. i + 1 \in DOMAIN m /\ m[i + 1] = l[i]
      BY <1>5
    <3> QED BY <3>1
  <2>3. x \in {m[j] : j \in DOMAIN m}
    BY <1>5
  <2> QED BY <2>1, <2>2, <2>3
<1>8. \A i, j \in DOMAIN m : m[i] = m[j] => i = j
  <2>1. x \notin {l[i] : i \in DOMAIN l}
    BY <1>6
  <2> HIDE DEF m, l
  <2> SUFFICES ASSUME NEW i \in DOMAIN m, NEW j \in DOMAIN m, m[i] = m[j], i # j PROVE FALSE
    OBVIOUS
  <2>2. \A q \in DOMAIN m : q # 1 => q - 1 \in DOMAIN l /\ m[q] = l[q - 1] /\ q \in Int
    BY <1>5
  <2>3. CASE i = 1
    BY <1>5, <2>1, <2>2, <2>3
  <2>4. CASE j = 1
    BY <1>5, <2>1, <2>2, <2>4
  <2>5. CASE i # 1 /\ j # 1
    <3>1. i - 1 = j - 1
      BY <1>6, <2>2, <2>5
    <3> QED BY <2>2, <2>5, <3>1
  <2> QED BY <2>3, <2>4, <2>5
<1>9. ASSUME NEW d \in Classes
      PROVE  /\ \A i, j \in DOMAIN hs[d] : hs[d][i] = hs[d][j] => i = j
             /\ {hs[d][i] : i \in DOMAIN hs[d]} =
                  {y \in S \union {x} : ClassOf[k[y].size] = d}
             /\ hs[d] # <<>> <=> (u.heads[d] # <<>> \/ d = c)
  <2>1. CASE d = c
    <3>1. {y \in S \union {x} : ClassOf[k[y].size] = c} =
            {y \in S : ClassOf[h[y].size] = c} \union {x}
      OBVIOUS
    <3> HIDE DEF m, l, hs
    <3>2. hs[d] = m
      BY <1>4, <2>1
    <3>3. {m[i] : i \in DOMAIN m} = {y \in S \union {x} : ClassOf[k[y].size] = d}
      BY <1>6, <1>7, <2>1, <3>1
    <3> HIDE DEF c
    <3> QED BY <1>5, <1>8, <2>1, <3>2, <3>3
  <2>2. CASE d # c
    <3>1. hs[d] = u.heads[d]
      BY <1>4, <2>2
    <3>2. {y \in S \union {x} : ClassOf[k[y].size] = d} = {y \in S : ClassOf[h[y].size] = d}
      BY <2>2
    <3> HIDE DEF hs, c
    <3> QED BY <2>2, <3>1, <3>2 DEF Listed
  <2> QED BY <2>1, <2>2
<1> HIDE DEF m, l, hs
<1>10. sl = {d \in Classes : hs[d] # <<>>} /\ fl = {d[1] : d \in sl}
  BY <1>1, <1>9 DEF Listed
<1> HIDE DEF v, sl, fl
<1>11. SameBut(v, u, {"lists"}) /\ Listed(v, S \union {x}, k)
  BY <1>3, <1>4, <1>9, <1>10 DEF Listed
<1> QED BY <1>11 DEF v

LEMMA UnlinkedFacts ==
  ASSUME NEW l \in Seq(Places), \A i, j \in DOMAIN l : l[i] = l[j] => i = j,
         NEW x \in {l[i] : i \in DOMAIN l}
  PROVE  LET m == Unlinked(l, x)
         IN  /\ m \in Seq(Places)
             /\ \A i, j \in DOMAIN m : m[i] = m[j] => i = j
             /\ {m[i] : i \in DOMAIN m} = {l[i] : i \in DOMAIN l} \ {x}
             /\ m = <<>> <=> {l[i] : i \in DOMAIN l} = {x}
<1> DEFINE p == CHOOSE j \in DOMAIN l : l[j] = x
           n == Len(l) - 1
           at(j) == IF j < p THEN j ELSE j + 1
           m == Unlinked(l, x)
<1>0. m = [j \in 1 .. n |-> IF j < p THEN l[j] ELSE l[j + 1]]
  BY Zenon DEF Unlinked
<1> HIDE DEF m
<1>1. DOMAIN l = 1 .. Len(l) /\ Len(l) \in Nat
  OBVIOUS
<1>2. p \in DOMAIN l /\ l[p] = x
  OBVIOUS
<1> HIDE DEF p
<1>3. n \in Nat /\ p \in 1 .. n + 1 /\ DOMAIN l = 1 .. n + 1
  BY <1>1, <1>2
<1>4. /\ DOMAIN m = 1 .. n
      /\ \A j \in 1 .. n : at(j) \in DOMAIN l /\ at(j) # p /\ m[j] = l[at(j)]
      /\ \A i, j \in 1 .. n : at(i) = at(j) => i = j
      /\ \A i \in 1 .. n + 1 : i # p => \E j \in 1 .. n : at(j) = i
  <2>1. \A i \in 1 .. n + 1 : i # p => \E j \in 1 .. n : at(j) = i
    <3>1. ASSUME NEW i \in 1 .. n + 1, i < p PROVE i \in 1 .. n /\ at(i) = i
      BY <1>3, <3>1
    <3>2. ASSUME NEW i \in 1 .. n + 1, p < i PROVE i - 1 \in 1 .. n /\ at(i - 1) = i
      BY <1>3, <3>2
    <3> HIDE DEF n, at
    <3> QED BY <1>3, <3>1, <3>2
  <2> QED BY <1>0, <1>3, <2>1
<1>5. m \in Seq(Places)
  <2>1. m = [j \in 1 .. n |-> m[j]] /\ \A j \in 1 .. n : m[j] \in Places
    BY <1>0, <1>3, <1>4
  <2> HIDE DEF n
  <2> QED BY <1>3, <2>1
<1> HIDE DEF n, at
<1>6. \A i, j \in DOMAIN m : m[i] = m[j] => i = j
  BY <1>4
<1>7. {m[i] : i \in DOMAIN m} = {l[i] : i \in DOMAIN l} \ {x}
  <2>1. \A i \in DOMAIN l : l[i] # x => \E j \in DOMAIN m : m[j] = l[i]
    BY <1>2, <1>3, <1>4
  <2> QED BY <1>2, <1>4, <2>1
<1>8. m = <<>> <=> {l[i] : i \in DOMAIN l} = {x}
  <2>1. m = <<>> <=> DOMAIN m = {}
    BY <1>5
  <2>2. DOMAIN m = {} <=> {m[i] : i \in DOMAIN m} = {}
    OBVIOUS
  <2> QED BY <1>7, <2>1, <2>2
<1> QED BY <1>5, <1>6, <1>7, <1>8 DEF m

LEMMA ListRemove ==
  ASSUME NEW u, IsState(u), NEW S, NEW h, Listed(u, S, h), NEW x \in S,
         h[x].size \in MinUnits .. DataUnits
  PROVE  LET v == RemoveFree(u, x, h[x].size)
         IN  SameBut(v, u, {"lists"}) /\ Listed(v, S \ {x}, h)
<1> DEFINE c == ClassOf[h[x].size]
           l == u.heads[c]
           m == Unlinked(l, x)
           hs == [u.heads EXCEPT ![c] = m]
           w == [u EXCEPT !.heads = hs]
           sl == IF w.heads[c] = <<>> THEN w.sl \ {c} ELSE w.sl
           fl == IF \E d \in sl : d[1] = c[1] THEN w.fl ELSE w.fl \ {c[1]}
           v == RemoveFree(u, x, h[x].size)
<1>1. c \in Classes /\ l \in Seq(Places) /\ u.heads \in [Classes -> Seq(Places)]
  BY ClassInTable DEF Listed
<1>2. /\ {l[i] : i \in DOMAIN l} = {y \in S : ClassOf[h[y].size] = c}
      /\ \A i, j \in DOMAIN l : l[i] = l[j] => i = j
      /\ x \in {l[i] : i \in DOMAIN l}
  BY <1>1 DEF Listed
<1>3. /\ m \in Seq(Places)
      /\ \A i, j \in DOMAIN m : m[i] = m[j] => i = j
      /\ {m[i] : i \in DOMAIN m} = {l[i] : i \in DOMAIN l} \ {x}
  <2> HIDE DEF l
  <2> QED BY <1>1, <1>2, UnlinkedFacts
<1> HIDE DEF m
<1>4. SameBut(w, u, {"lists"}) /\ w.heads = hs /\ w.sl = u.sl /\ w.fl = u.fl
  <2>1. w = [u EXCEPT !.heads = hs]
    BY Zenon
  <2> HIDE DEF hs, w
  <2> QED BY <2>1 DEF IsState, SameBut
<1>5. v = [w EXCEPT !.sl = sl, !.fl = fl]
  BY Zenon DEF RemoveFree, ClearIfEmpty, m
<1>6. SameBut(v, w, {"lists"}) /\ v.heads = w.heads /\ v.sl = sl /\ v.fl = fl
  <2>1. IsState(w)
    BY <1>4 DEF SameBut
  <2> HIDE DEF hs, sl, fl, v, w
  <2> QED BY <1>5, <2>1 DEF IsState, SameBut
<1>7. /\ hs \in [Classes -> Seq(Places)] /\ hs[c] = m
      /\ \A d \in Classes : d # c => hs[d] = u.heads[d]
  BY <1>1, <1>3
<1> HIDE DEF w
<1>8. sl = IF m = <<>> THEN u.sl \ {c} ELSE u.sl
  BY <1>4, <1>7
<1> HIDE DEF sl
<1>9. fl = IF \E d \in sl : d[1] = c[1] THEN u.fl ELSE u.fl \ {c[1]}
  BY <1>4
<1> HIDE DEF fl
<1>10. ASSUME NEW d \in Classes
       PROVE  /\ \A i, j \in DOMAIN hs[d] : hs[d][i] = hs[d][j] => i = j
              /\ {hs[d][i] : i \in DOMAIN hs[d]} = {y \in S \ {x} : ClassOf[h[y].size] = d}
  <2>1. CASE d = c
    <3> HIDE DEF l, hs
    <3>1. hs[d] = m
      BY <1>7, <2>1
    <3>2. {m[i] : i \in DOMAIN m} = {y \in S \ {x} : ClassOf[h[y].size] = d}
      BY <1>2, <1>3, <2>1
    <3> HIDE DEF c
    <3> QED BY <1>3, <2>1, <3>1, <3>2
  <2>2. CASE d # c
    <3>1. hs[d] = u.heads[d]
      BY <1>7, <2>2
    <3>2. {y \in S \ {x} : ClassOf[h[y].size] = d} = {y \in S : ClassOf[h[y].size] = d}
      BY <2>2
    <3> HIDE DEF hs, c
    <3> QED BY <2>2, <3>1, <3>2 DEF Listed
  <2> QED BY <2>1, <2>2
<1>11. sl = {d \in Classes : hs[d] # <<>>}
  <2>1. u.sl = {d \in Classes : u.heads[d] # <<>>}
    BY DEF Listed
  <2>2. u.heads[c] # <<>>
    BY <1>2
  <2> HIDE DEF hs, c
  <2> QED BY <1>1, <1>7, <1>8, <2>1, <2>2
<1>12. fl = {d[1] : d \in sl}
  <2>1. u.fl = {d[1] : d \in u.sl}
    BY DEF Listed
  <2>2. sl \subseteq u.sl /\ u.sl \subseteq sl \union {c}
    BY <1>8
  <2> HIDE DEF c
  <2> QED BY <1>9, <2>1, <2>2
<1> HIDE DEF hs, v
<1>13. SameBut(v, u, {"lists"})
  BY <1>4, <1>6 DEF SameBut
<1>14. Listed(v, S \ {x}, h)
  BY <1>4, <1>6, <1>7, <1>10, <1>11, <1>12 DEF Listed
<1> QED BY <1>13, <1>14 DEF v

LEMMA LowestIn ==
  ASSUME NEW S \in SUBSET Nat, S # {}
  PROVE  Lowest(S) \in S /\ \A j \in S : Lowest(S) <= j
BY LeastElement DEF Lowest

(* A search that follows the bits finds a list that is not empty. *)
LEMMA SeenInMask ==
  ASSUME NEW u, u.sl \subseteq Classes, u.fl = {c[1] : c \in u.sl}, NEW c, NEW d \in SeenFrom(u, c)
  PROVE  d \in u.sl
<1> DEFINE same  == {e[2] : e \in {g \in u.sl : g[1] = c[1] /\ c[2] <= g[2]}}
           above == {f \in u.fl : c[1] < f}
           row(f) == {e[2] : e \in {g \in u.sl : g[1] = f}}
<1>1. \A e \in u.sl : e = <<e[1], e[2]>> /\ e[1] \in Nat /\ e[2] \in Nat
  BY DEF Classes
<1>2. CASE same # {}
  <2>1. d = <<c[1], Lowest(same)>>
    BY <1>2, Zenon DEF SeenFrom
  <2>2. same \in SUBSET Nat
    BY <1>1
  <2> HIDE DEF same
  <2>3. Lowest(same) \in same
    BY <1>2, <2>2, LowestIn
  <2> QED BY <1>1, <2>1, <2>3 DEF same
<1>3. CASE same = {} /\ above # {}
  <2>1. d = <<Lowest(above), Lowest(row(Lowest(above)))>>
    BY <1>3, Zenon DEF SeenFrom
  <2>2. Lowest(above) \in above
    <3>1. above \in SUBSET Nat
      BY <1>1
    <3> HIDE DEF above
    <3> QED BY <1>3, <3>1, LowestIn
  <2>3. row(Lowest(above)) # {} /\ row(Lowest(above)) \in SUBSET Nat
    BY <1>1, <2>2
  <2> DEFINE f == Lowest(above)
  <2> HIDE DEF f
  <2>4. Lowest(row(f)) \in row(f)
    BY <2>3, LowestIn DEF f
  <2> QED BY <1>1, <2>1, <2>4 DEF f
<1>4. CASE same = {} /\ above = {}
  BY <1>4, Zenon DEF SeenFrom
<1> QED BY <1>2, <1>3, <1>4

LEMMA HeadListed ==
  ASSUME NEW u, NEW S, NEW h, Listed(u, S, h), NEW c \in Classes, u.heads[c] # <<>>
  PROVE  Head(u.heads[c]) \in S
<1>1. u.heads[c] \in Seq(Places) /\ 1 \in DOMAIN u.heads[c] /\ Head(u.heads[c]) = u.heads[c][1]
  BY DEF Listed
<1> QED BY <1>1 DEF Listed

LEMMA FitListed ==
  ASSUME NEW u, NEW S, NEW h, Listed(u, S, h), NEW n \in Nat, Fit(u, n) # NullOff
  PROVE  Fit(u, n) \in S /\ Adjusted(n) = n + 1 /\ n + 1 \in MinUnits .. DataUnits
<1>1. Adjusted(n) = n + 1 /\ n + 1 \in MinUnits .. DataUnits /\ Fit(u, n) = FindFree(u, n + 1)
  BY Units16, MappingAssumption DEF Fit, Adjusted
<1> DEFINE d == CHOOSE d \in SeenFrom(u, Search[n + 1]) : TRUE
<1>2. CASE FindFree(u, n + 1) = FindExact(u, n + 1)
  <2>1. ClassOf[n + 1] \in Classes
    BY <1>1, ClassInTable
  <2>2. u.heads[ClassOf[n + 1]] # <<>> /\ FindExact(u, n + 1) = Head(u.heads[ClassOf[n + 1]])
    BY <1>1, <1>2, Zenon DEF FindExact
  <2> QED BY <1>1, <1>2, <2>1, <2>2, HeadListed
<1>3. CASE FindFree(u, n + 1) # FindExact(u, n + 1)
  <2>1. SeenFrom(u, Search[n + 1]) # {} /\ FindFree(u, n + 1) = Head(u.heads[d])
    BY <1>3, Zenon DEF FindFree
  <2>2. d \in SeenFrom(u, Search[n + 1])
    BY <2>1
  <2> HIDE DEF d
  <2>3. u.sl = {c \in Classes : u.heads[c] # <<>>} /\ u.fl = {c[1] : c \in u.sl}
    BY DEF Listed
  <2>4. d \in u.sl
    BY <2>2, <2>3, SeenInMask
  <2> QED BY <1>1, <2>1, <2>3, <2>4, HeadListed
<1> QED BY <1>2, <1>3

LEMMA SearchUnits ==
  ASSUME NEW m \in MinUnits .. DataUnits, NEW n \in MinUnits .. DataUnits
  PROVE  /\ ~ Before(ClassOf[n], Search[m]) => m <= n
         /\ Before(ClassOf[n], Search[m]) /\ m <= n => ClassOf[n] = ClassOf[m]
         /\ Before(ClassOf[n], ClassOf[m]) => n < m
         /\ Search[m][1] \in Nat /\ Search[m][2] \in Nat
<1>1. PICK v \in Nat, s \in Nat : /\ v = Granule * m /\ v \in MinBlock .. DataBytes
                                  /\ s = Granule * n /\ s \in MinBlock .. DataBytes
                                  /\ v \in BlockSizes /\ s \in BlockSizes
                                  /\ v \in 1 .. DataBytes /\ v >= MinBlock
  BY MappingNumbers DEF MinUnits, BlockSizes
<1>2. ClassOf[n] = MappingInsert(s) /\ ClassOf[m] = MappingInsert(v)
  BY <1>1 DEF ClassOf
<1>3. Search[m] = MappingInsert(Rounded(v))
  <2>1. m \in 1 .. DataUnits
    BY Units16
  <2>2. Search[m] = SearchClass(v)
    BY <1>1, <2>1 DEF Search
  <2> QED BY <1>1, <2>2, SmallSearch
<1>4. (v <= s <=> m <= n) /\ (s < v <=> n < m)
  BY <1>1, MappingNumbers, Units16
<1>5. ~ Before(MappingInsert(s), MappingInsert(Rounded(v))) => v <= s
  BY <1>1, SearchSafe
<1>6. Before(MappingInsert(s), MappingInsert(Rounded(v))) /\ v <= s => MappingInsert(s) = MappingInsert(v)
  BY <1>1, SearchTight
<1>7. Before(MappingInsert(s), MappingInsert(v)) => s < v
  <2>1. v \in MinBlock .. 4 * DataBytes /\ s \in MinBlock .. 4 * DataBytes
    BY <1>1, MappingNumbers
  <2>2. InClass(MappingInsert(s), s) /\ InClass(MappingInsert(v), v)
    BY <2>1, InsertClass
  <2> QED BY <1>1, <2>2, ClassOrder
<1>8. Search[m][1] \in Nat /\ Search[m][2] \in Nat
  <2>1. InClass(Search[m], Rounded(v))
    BY <1>1, <1>3, SearchFloor
  <2> QED BY <2>1, MappingNumbers DEF InClass
<1> QED BY <1>2, <1>3, <1>4, <1>5, <1>6, <1>7, <1>8

(* The bitmaps name a list exactly if there is one at or after c. *)
LEMMA SeenFacts ==
  ASSUME NEW u, u.sl \subseteq Classes, u.fl = {c[1] : c \in u.sl},
         NEW c, c[1] \in Nat, c[2] \in Nat
  PROVE  /\ \A d \in SeenFrom(u, c) : d \in u.sl /\ ~ Before(d, c)
         /\ SeenFrom(u, c) = {} => \A d \in u.sl : Before(d, c)
<1> DEFINE same  == {d[2] : d \in {e \in u.sl : e[1] = c[1] /\ c[2] <= e[2]}}
           above == {f \in u.fl : c[1] < f}
           f     == Lowest(above)
           second == {d[2] : d \in {e \in u.sl : e[1] = f}}
<1>1. \A d \in Classes : d = <<d[1], d[2]>> /\ d[1] \in Nat /\ d[2] \in Nat
  BY MappingNumbers DEF Classes
<1>2. CASE same # {}
  <2>1. SeenFrom(u, c) = {<<c[1], Lowest(same)>>}
    BY <1>2, Zenon DEF SeenFrom
  <2>2. Lowest(same) \in same
    <3>1. same \in SUBSET Nat
      BY <1>1
    <3> HIDE DEF same
    <3> QED BY <1>2, <3>1, LowestIn
  <2>3. PICK e \in u.sl : e[1] = c[1] /\ c[2] <= e[2] /\ Lowest(same) = e[2]
    BY <2>2
  <2>4. e = <<c[1], Lowest(same)>>
    BY <1>1, <2>3
  <2> HIDE DEF same
  <2>5. ~ Before(e, c)
    BY <1>1, <2>3 DEF Before
  <2> QED BY <2>1, <2>3, <2>4, <2>5
<1>3. CASE same = {} /\ above # {}
  <2>1. SeenFrom(u, c) = {<<f, Lowest(second)>>}
    BY <1>3, Zenon DEF SeenFrom
  <2>2. f \in above
    <3>1. above \in SUBSET Nat
      BY <1>1
    <3> HIDE DEF above
    <3> QED BY <1>3, <3>1, LowestIn
  <2>3. f \in u.fl /\ c[1] < f
    BY <2>2
  <2> HIDE DEF f
  <2>4. Lowest(second) \in second
    <3>1. second \in SUBSET Nat /\ second # {}
      BY <1>1, <2>3
    <3> HIDE DEF second
    <3> QED BY <3>1, LowestIn
  <2>5. PICK e \in u.sl : e[1] = f /\ Lowest(second) = e[2]
    BY <2>4
  <2>6. e = <<f, Lowest(second)>>
    BY <1>1, <2>5
  <2> HIDE DEF second
  <2>7. ~ Before(e, c)
    BY <1>1, <2>3, <2>5 DEF Before
  <2> QED BY <2>1, <2>5, <2>6, <2>7
<1>4. CASE same = {} /\ above = {}
  <2>1. SeenFrom(u, c) = {}
    BY <1>4, Zenon DEF SeenFrom
  <2>2. ASSUME NEW d \in u.sl PROVE Before(d, c)
    <3>1. ~ (c[1] < d[1]) /\ ~ (d[1] = c[1] /\ c[2] <= d[2])
      BY <1>4
    <3> QED BY <1>1, <3>1 DEF Before
  <2> QED BY <2>1, <2>2
<1> QED BY <1>2, <1>3, <1>4

(* What find_free finds is large enough. *)
LEMMA FitLarge ==
  ASSUME NEW u, Linked(u.hdr), Listed(u, FreeIn(u.hdr), u.hdr), NEW n \in Nat, Fit(u, n) # NullOff
  PROVE  u.hdr[Fit(u, n)].size >= n + 1
<1> DEFINE h == u.hdr
           x == Fit(u, n)
           d == CHOOSE d \in SeenFrom(u, Search[n + 1]) : TRUE
<1>1. x \in FreeIn(h) /\ n + 1 \in MinUnits .. DataUnits
  BY FitListed
<1>2. x = FindFree(u, n + 1)
  <2>1. Adjusted(n) = n + 1 /\ n + 1 \in 1 .. DataUnits
    BY <1>1, FitListed, Units16
  <2> QED BY <2>1 DEF Fit
<1>3. CASE x = FindExact(u, n + 1)
  BY <1>3 DEF FindExact
<1>4. CASE x # FindExact(u, n + 1)
  <2>1. SeenFrom(u, Search[n + 1]) # {} /\ x = Head(u.heads[d])
    BY <1>2, <1>4, Zenon DEF FindFree
  <2>2. d \in SeenFrom(u, Search[n + 1])
    BY <2>1
  <2> HIDE DEF d
  <2>3. u.sl = {c \in Classes : u.heads[c] # <<>>} /\ u.fl = {c[1] : c \in u.sl}
    BY DEF Listed
  <2>4. Search[n + 1][1] \in Nat /\ Search[n + 1][2] \in Nat
    BY <1>1, SearchUnits
  <2>5. d \in u.sl /\ ~ Before(d, Search[n + 1])
    BY <2>2, <2>3, <2>4, SeenFacts
  <2>6. d \in Classes /\ u.heads[d] # <<>> /\ u.heads[d] \in Seq(Places)
    BY <2>3, <2>5 DEF Listed
  <2>7. 1 \in DOMAIN u.heads[d] /\ x = u.heads[d][1]
    BY <2>1, <2>6
  <2>8. ClassOf[h[x].size] = d
    BY <2>6, <2>7 DEF Listed
  <2>9. h[x].size \in MinUnits .. DataUnits
    BY <1>1 DEF Linked, FreeIn, Headers
  <2> QED BY <1>1, <2>5, <2>8, <2>9, SearchUnits
<1> QED BY <1>3, <1>4

(***************************************************************************)
(* The chain.  k is h with the blocks of sheet s between lo and hi cut     *)
(* anew at mid.                                                            *)
(***************************************************************************)
Recut(h, k, s, lo, mid, hi) ==
  /\ <<s, lo>> \in DOMAIN h /\ mid \in Int /\ hi \in Int /\ hi <= DataUnits
  /\ lo + MinUnits <= mid /\ (mid = hi \/ mid + MinUnits <= hi)
  /\ hi = DataUnits \/ <<s, hi>> \in DOMAIN h
  /\ DOMAIN k = {x \in DOMAIN h : ~ (x[1] = s /\ lo < x[2] /\ x[2] < hi)}
                  \union (IF mid < hi THEN {<<s, mid>>} ELSE {})
  /\ \E b \in BOOLEAN : k[<<s, lo>>] = Hdr(mid - lo, b, h[<<s, lo>>].prev)
  /\ mid < hi => \E b \in BOOLEAN : k[<<s, mid>>] = Hdr(hi - mid, b, lo)
  /\ hi < DataUnits => k[<<s, hi>>] = Hdr(h[<<s, hi>>].size, h[<<s, hi>>].used,
                                          IF mid < hi THEN mid ELSE lo)
  /\ \A x \in DOMAIN h : x \in DOMAIN k /\ x \notin {<<s, lo>>, <<s, mid>>, <<s, hi>>} => k[x] = h[x]

LEMMA RecutFacts ==
  ASSUME NEW h, Linked(h), NEW k, NEW s, NEW lo, NEW mid, NEW hi, Recut(h, k, s, lo, mid, hi)
  PROVE  /\ s \in Sheets /\ lo \in 0 .. DataUnits - 1 /\ lo < mid /\ mid <= hi /\ hi \in 0 .. DataUnits
         /\ mid < DataUnits \/ mid = DataUnits
         /\ \A x \in DOMAIN h : /\ x = <<x[1], x[2]>> /\ x[1] \in Sheets /\ x[2] \in 0 .. DataUnits - 1
                                /\ h[x].size \in MinUnits .. DataUnits /\ EndOf(h, x) \in Int
                                /\ x[2] < EndOf(h, x)
         /\ \A x \in DOMAIN k :
              (x # <<s, lo>> /\ x # <<s, mid>>) \/ (mid = hi /\ x = <<s, mid>>) =>
                /\ x \in DOMAIN h /\ k[x].size = h[x].size /\ k[x].used = h[x].used
                /\ EndOf(k, x) = EndOf(h, x)
                /\ x[1] = s => (x[2] < lo /\ EndOf(h, x) <= lo) \/ hi <= x[2]
                /\ x # <<s, hi>> => k[x] = h[x]
<1>1. /\ <<s, lo>> \in DOMAIN h /\ mid \in Int /\ hi \in Int /\ hi <= DataUnits
      /\ lo + 2 <= mid /\ mid <= hi /\ DataUnits \in Nat
  BY Units16, MappingAssumption DEF Recut
<1>2. \A x \in DOMAIN h : x \in Places /\ h[x] \in Headers
  BY DEF Linked
<1>3. \A x \in DOMAIN h : /\ x = <<x[1], x[2]>> /\ x[1] \in Sheets /\ x[2] \in 0 .. DataUnits - 1
                          /\ h[x].size \in MinUnits .. DataUnits /\ EndOf(h, x) \in Int
                          /\ x[2] < EndOf(h, x)
  BY <1>2, Units16, MappingAssumption DEF Places, Headers, EndOf
<1>4. s \in Sheets /\ lo \in 0 .. DataUnits - 1
  BY <1>1, <1>3
<1>5. ASSUME NEW x \in DOMAIN k,
             (x # <<s, lo>> /\ x # <<s, mid>>) \/ (mid = hi /\ x = <<s, mid>>)
      PROVE  /\ x \in DOMAIN h /\ k[x].size = h[x].size /\ k[x].used = h[x].used
             /\ EndOf(k, x) = EndOf(h, x)
             /\ x[1] = s => (x[2] < lo /\ EndOf(h, x) <= lo) \/ hi <= x[2]
             /\ x # <<s, hi>> => k[x] = h[x]
  <2>1. x \in DOMAIN h /\ ~ (x[1] = s /\ lo < x[2] /\ x[2] < hi)
    BY <1>5 DEF Recut
  <2>2. x # <<s, hi>> => k[x] = h[x]
    BY <1>5, <2>1 DEF Recut
  <2>3. x = <<s, hi>> => hi < DataUnits
    BY <1>1, <1>3, <2>1
  <2>4. k[x].size = h[x].size /\ k[x].used = h[x].used
    BY <2>2, <2>3 DEF Recut, Hdr
  <2>5. x # <<s, lo>>
    BY <1>1, <1>4, <1>5
  <2>6. x[1] = s => (x[2] < lo /\ EndOf(h, x) <= lo) \/ hi <= x[2]
    <3>1. x[1] = s => x[2] # lo
      BY <1>3, <2>1, <2>5
    <3>2. x[1] = s /\ x[2] < lo => EndOf(h, x) <= lo
      BY <1>1, <2>1 DEF Linked
    <3> QED BY <1>1, <1>3, <1>4, <2>1, <3>1, <3>2
  <2> QED BY <2>1, <2>2, <2>4, <2>6 DEF EndOf
<1> QED BY <1>1, <1>3, <1>4, <1>5

LEMMA RecutLinked ==
  ASSUME NEW h, Linked(h), NEW k, NEW s, NEW lo, NEW mid, NEW hi, Recut(h, k, s, lo, mid, hi)
  PROVE  Linked(k)
<1> DEFINE L == <<s, lo>>
           M == <<s, mid>>
           H == <<s, hi>>
           Old(x) == (x # L /\ x # M) \/ (mid = hi /\ x = M)
<1>1. /\ s \in Sheets /\ lo \in 0 .. DataUnits - 1 /\ lo < mid /\ mid <= hi /\ hi \in 0 .. DataUnits
      /\ mid \in Int /\ DataUnits \in Nat /\ lo + MinUnits <= mid /\ (mid = hi \/ mid + MinUnits <= hi)
      /\ L \in DOMAIN h /\ L \in DOMAIN k /\ (mid < hi => M \in DOMAIN k)
      /\ (hi < DataUnits => H \in DOMAIN h /\ H \in DOMAIN k)
      /\ \A x \in DOMAIN k : Old(x) \/ x = L \/ (mid < hi /\ x = M)
  <2>1. s \in Sheets /\ lo \in 0 .. DataUnits - 1 /\ lo < mid /\ mid <= hi /\ hi \in 0 .. DataUnits
    BY RecutFacts
  <2>2. mid \in Int /\ DataUnits \in Nat /\ lo + MinUnits <= mid /\ (mid = hi \/ mid + MinUnits <= hi)
    BY MappingAssumption DEF Recut
  <2>3. /\ L \in DOMAIN h /\ (hi < DataUnits => H \in DOMAIN h)
        /\ DOMAIN k = {x \in DOMAIN h : ~ (x[1] = s /\ lo < x[2] /\ x[2] < hi)}
                        \union (IF mid < hi THEN {M} ELSE {})
    BY <2>1, <2>2 DEF Recut
  <2> QED BY <2>1, <2>2, <2>3
<1>2. \A x \in DOMAIN h : /\ x = <<x[1], x[2]>> /\ x[1] \in Sheets /\ x[2] \in 0 .. DataUnits - 1
                          /\ h[x].size \in MinUnits .. DataUnits /\ EndOf(h, x) \in Int
                          /\ x[2] < EndOf(h, x)
  BY RecutFacts
<1>3. \A x \in DOMAIN k : Old(x) =>
        /\ x \in DOMAIN h /\ k[x].size = h[x].size /\ k[x].used = h[x].used
        /\ EndOf(k, x) = EndOf(h, x)
        /\ x[1] = s => (x[2] < lo /\ EndOf(h, x) <= lo) \/ hi <= x[2]
        /\ x # H => k[x] = h[x]
  BY RecutFacts
<1>4. EndOf(k, L) = mid /\ k[L] \in Headers /\ k[L].prev = h[L].prev
  <2>1. PICK b \in BOOLEAN : k[L] = Hdr(mid - lo, b, h[L].prev)
    BY DEF Recut
  <2>2. h[L] \in Headers
    BY <1>1 DEF Linked
  <2>3. mid - lo \in MinUnits .. DataUnits
    BY <1>1, Units16
  <2> QED BY <1>1, <2>1, <2>2, <2>3 DEF Headers, Hdr, EndOf
<1>5. mid < hi => EndOf(k, M) = hi /\ k[M] \in Headers /\ k[M].prev = lo
  <2>1. SUFFICES ASSUME mid < hi PROVE EndOf(k, M) = hi /\ k[M] \in Headers /\ k[M].prev = lo
    OBVIOUS
  <2>2. PICK b \in BOOLEAN : k[M] = Hdr(hi - mid, b, lo)
    BY <2>1 DEF Recut
  <2>3. hi - mid \in MinUnits .. DataUnits
    BY <1>1, <2>1, Units16
  <2> QED BY <1>1, <2>2, <2>3 DEF Headers, Hdr, EndOf
<1>6. hi < DataUnits => k[H] \in Headers /\ k[H].prev = IF mid < hi THEN mid ELSE lo
  <2>1. SUFFICES ASSUME hi < DataUnits
                 PROVE  k[H] \in Headers /\ k[H].prev = IF mid < hi THEN mid ELSE lo
    OBVIOUS
  <2>2. h[H] \in Headers
    BY <1>1, <2>1 DEF Linked
  <2>3. k[H] = Hdr(h[H].size, h[H].used, IF mid < hi THEN mid ELSE lo)
    BY <2>1 DEF Recut
  <2> QED BY <1>1, <2>1, <2>2, <2>3 DEF Headers, Hdr
<1>7. /\ \A x \in DOMAIN h : x[1] = s /\ (x[2] <= lo \/ hi <= x[2]) => x \in DOMAIN k
      /\ \A x \in DOMAIN h : x[1] # s => x \in DOMAIN k
  BY <1>1, <1>2 DEF Recut
<1>8. ASSUME NEW x \in DOMAIN k
      PROVE  /\ x \in Places /\ k[x] \in Headers
             /\ EndOf(k, x) = DataUnits \/ <<x[1], EndOf(k, x)>> \in DOMAIN k
             /\ x[2] = 0 => k[x].prev = -1
             /\ x[2] # 0 => /\ <<x[1], k[x].prev>> \in DOMAIN k
                            /\ EndOf(k, <<x[1], k[x].prev>>) = x[2]
  <2>1. CASE x = L
    <3>1. EndOf(k, x) = DataUnits \/ <<x[1], EndOf(k, x)>> \in DOMAIN k
      BY <1>1, <1>4, <2>1
    <3>2. lo = 0 => k[x].prev = -1
      BY <1>1, <1>4, <2>1 DEF Linked
    <3>3. ASSUME lo # 0
          PROVE  /\ <<x[1], k[x].prev>> \in DOMAIN k
                 /\ EndOf(k, <<x[1], k[x].prev>>) = x[2]
      <4> DEFINE p == <<s, h[L].prev>>
      <4>1. p \in DOMAIN h /\ EndOf(h, p) = lo
        BY <1>1, <3>3 DEF Linked
      <4>2. p[1] = s /\ p[2] < lo
        BY <1>2, <4>1
      <4>3. p \in DOMAIN k /\ Old(p)
        <5> HIDE DEF p
        <5> QED BY <1>1, <1>2, <1>7, <4>1, <4>2
      <4>4. EndOf(k, p) = lo
        BY <1>3, <4>1, <4>3
      <4> QED BY <1>4, <2>1, <4>3, <4>4
    <3> QED BY <1>1, <1>4, <2>1, <3>1, <3>2, <3>3 DEF Places
  <2>2. CASE mid < hi /\ x = M
    <3>1. EndOf(k, x) = DataUnits \/ <<x[1], EndOf(k, x)>> \in DOMAIN k
      BY <1>1, <1>5, <2>2
    <3> QED BY <1>1, <1>4, <1>5, <2>2, <3>1 DEF Places
  <2>3. CASE Old(x) /\ x # H
    <3>1. /\ x \in DOMAIN h /\ k[x] = h[x] /\ EndOf(k, x) = EndOf(h, x)
          /\ x[1] = s => (x[2] < lo /\ EndOf(h, x) <= lo) \/ hi < x[2]
      <4>1. x[1] = s => x[2] # hi
        BY <1>2, <1>3, <2>3
      <4> QED BY <1>1, <1>2, <1>3, <2>3, <4>1
    <3>2. EndOf(h, x) = DataUnits \/ <<x[1], EndOf(h, x)>> \in DOMAIN k
      <4> DEFINE q == <<x[1], EndOf(h, x)>>
      <4>1. EndOf(h, x) = DataUnits \/ q \in DOMAIN h
        BY <3>1 DEF Linked
      <4>2. x[1] = s => EndOf(h, x) <= lo \/ hi <= EndOf(h, x)
        BY <1>1, <1>2, <3>1
      <4> QED BY <1>7, <4>1, <4>2
    <3>3. ASSUME x[2] # 0
          PROVE  /\ <<x[1], h[x].prev>> \in DOMAIN k
                 /\ EndOf(k, <<x[1], h[x].prev>>) = x[2]
      <4> DEFINE p == <<x[1], h[x].prev>>
      <4>1. p \in DOMAIN h /\ EndOf(h, p) = x[2] /\ p[1] = x[1]
        BY <3>1, <3>3 DEF Linked
      <4> HIDE DEF p
      <4>2. p[2] < x[2]
        BY <1>2, <4>1
      <4>3. p[1] = s => p[2] < lo \/ hi <= p[2]
        <5>1. SUFFICES ASSUME p[1] = s, hi < x[2], p[2] < hi PROVE FALSE
          BY <1>1, <1>2, <3>1, <4>1, <4>2
        <5>2. hi < DataUnits /\ H \in DOMAIN h
          BY <1>1, <1>2, <3>1, <5>1
        <5>3. EndOf(h, p) <= H[2]
          BY <4>1, <5>1, <5>2 DEF Linked
        <5> QED BY <1>1, <1>2, <3>1, <4>1, <5>1, <5>3
      <4>4. p \in DOMAIN k /\ Old(p)
        BY <1>1, <1>2, <1>7, <4>1, <4>3
      <4>5. EndOf(k, p) = x[2]
        BY <1>3, <4>1, <4>4
      <4> QED BY <4>4, <4>5 DEF p
    <3>4. x \in Places /\ h[x] \in Headers /\ (x[2] = 0 => h[x].prev = -1)
      BY <3>1 DEF Linked
    <3> QED BY <3>1, <3>2, <3>3, <3>4
  <2>4. CASE Old(x) /\ x = H
    <3>1. x \in DOMAIN h /\ EndOf(k, x) = EndOf(h, x) /\ hi < DataUnits
      BY <1>1, <1>2, <1>3, <2>4
    <3>2. EndOf(h, x) = DataUnits \/ <<x[1], EndOf(h, x)>> \in DOMAIN k
      <4>1. EndOf(h, x) = DataUnits \/ <<x[1], EndOf(h, x)>> \in DOMAIN h
        BY <3>1 DEF Linked
      <4>2. hi <= EndOf(h, x)
        BY <1>1, <1>2, <2>4, <3>1
      <4> QED BY <1>7, <2>4, <4>1, <4>2
    <3>3. /\ <<x[1], k[x].prev>> \in DOMAIN k
          /\ EndOf(k, <<x[1], k[x].prev>>) = x[2]
      BY <1>1, <1>4, <1>5, <1>6, <2>4, <3>1
    <3>4. x[2] = hi /\ hi # 0
      BY <1>1, <2>4
    <3>5. x \in Places
      BY <3>1 DEF Linked
    <3> QED BY <1>6, <2>4, <3>1, <3>2, <3>3, <3>4, <3>5
  <2> QED BY <1>1, <2>1, <2>2, <2>3, <2>4
<1>9. ASSUME NEW x \in DOMAIN k, NEW y \in DOMAIN k, x[1] = y[1], x[2] < y[2]
      PROVE  EndOf(k, x) <= y[2]
  <2>1. CASE Old(x) /\ Old(y)
    BY <1>3, <1>9, <2>1 DEF Linked
  <2>2. CASE ~ Old(x) /\ Old(y)
    <3>1. y[1] = s /\ hi <= y[2] /\ y[2] \in Int
      BY <1>1, <1>2, <1>3, <1>9, <2>2
    <3> QED BY <1>1, <1>4, <1>5, <2>2, <3>1
  <2>3. CASE Old(x) /\ ~ Old(y)
    <3>1. y[1] = s /\ y[2] <= mid /\ lo <= y[2] /\ y[2] < hi /\ y[2] \in Int
      BY <1>1, <2>3
    <3>2. x[2] < lo /\ EndOf(k, x) <= lo
      BY <1>1, <1>2, <1>3, <1>9, <2>3, <3>1
    <3> QED BY <1>1, <1>2, <1>3, <2>3, <3>1, <3>2
  <2>4. CASE ~ Old(x) /\ ~ Old(y)
    <3>1. x = L /\ y = M /\ mid < hi
      BY <1>1, <1>9, <2>4
    <3> QED BY <1>1, <1>4, <3>1
  <2> QED BY <2>1, <2>2, <2>3, <2>4
<1> QED BY <1>8, <1>9 DEF Linked

LEMMA RecutApart ==
  ASSUME NEW h, Linked(h), Apart(h), NEW k, NEW s, NEW lo, NEW mid, NEW hi,
         Recut(h, k, s, lo, mid, hi),
         \A x \in DOMAIN h : x[1] = s /\ EndOf(h, x) = lo => h[x].used \/ k[<<s, lo>>].used,
         mid < hi => k[<<s, lo>>].used \/ k[<<s, mid>>].used,
         hi < DataUnits => k[IF mid < hi THEN <<s, mid>> ELSE <<s, lo>>].used \/ h[<<s, hi>>].used
  PROVE  Apart(k)
<1> DEFINE L == <<s, lo>>
           M == <<s, mid>>
           H == <<s, hi>>
           Old(x) == (x # L /\ x # M) \/ (mid = hi /\ x = M)
<1>1. /\ lo \in 0 .. DataUnits - 1 /\ lo < mid /\ mid <= hi /\ hi \in 0 .. DataUnits
      /\ mid \in Int /\ DataUnits \in Nat
      /\ \A x \in DOMAIN k : Old(x) \/ x = L \/ (mid < hi /\ x = M)
  <2>1. lo \in 0 .. DataUnits - 1 /\ lo < mid /\ mid <= hi /\ hi \in 0 .. DataUnits
    BY RecutFacts
  <2>2. mid \in Int /\ DataUnits \in Nat
    BY MappingAssumption DEF Recut
  <2> QED BY <2>1, <2>2
<1>2. \A x \in DOMAIN h : /\ x = <<x[1], x[2]>> /\ x[2] \in 0 .. DataUnits - 1
                          /\ EndOf(h, x) \in Int /\ x[2] < EndOf(h, x)
  BY RecutFacts
<1>3. \A x \in DOMAIN k : Old(x) =>
        /\ x \in DOMAIN h /\ k[x].used = h[x].used /\ EndOf(k, x) = EndOf(h, x)
        /\ x[1] = s => (x[2] < lo /\ EndOf(h, x) <= lo) \/ hi <= x[2]
  BY RecutFacts
<1>4. EndOf(k, L) = mid /\ (mid < hi => EndOf(k, M) = hi)
  <2>1. PICK b \in BOOLEAN : k[L] = Hdr(mid - lo, b, h[L].prev)
    BY DEF Recut
  <2>2. EndOf(k, L) = mid
    BY <1>1, <2>1 DEF Hdr, EndOf
  <2>3. ASSUME mid < hi PROVE EndOf(k, M) = hi
    <3>1. PICK c \in BOOLEAN : k[M] = Hdr(hi - mid, c, lo)
      BY <2>3 DEF Recut
    <3> QED BY <1>1, <3>1 DEF Hdr, EndOf
  <2> QED BY <2>2, <2>3
<1> SUFFICES ASSUME NEW x \in DOMAIN k, NEW y \in DOMAIN k, x[1] = y[1], EndOf(k, x) = y[2]
             PROVE  k[x].used \/ k[y].used
  BY DEF Apart
<1>5. CASE Old(x) /\ Old(y)
  BY <1>3, <1>5 DEF Apart
<1>6. CASE ~ Old(x) /\ Old(y)
  <2>1. (x = L \/ (mid < hi /\ x = M)) /\ y[1] = s /\ (y[2] = mid \/ y[2] = hi)
    BY <1>1, <1>4, <1>6
  <2>2. y = H /\ hi < DataUnits
    BY <1>1, <1>2, <1>3, <1>6, <2>1
  <2>3. x = IF mid < hi THEN M ELSE L
    BY <1>1, <1>4, <1>6, <2>2
  <2> QED BY <1>3, <1>6, <2>2, <2>3
<1>7. CASE Old(x) /\ ~ Old(y)
  <2>1. y[1] = s /\ y[2] < hi
    BY <1>1, <1>7
  <2>2. EndOf(h, x) <= lo
    BY <1>1, <1>2, <1>3, <1>7, <2>1
  <2>3. y = L /\ EndOf(h, x) = lo
    BY <1>1, <1>2, <1>3, <1>7, <2>2
  <2> QED BY <1>3, <1>7, <2>3
<1>8. CASE ~ Old(x) /\ ~ Old(y)
  <2>1. x = L /\ y = M /\ mid < hi
    BY <1>1, <1>4, <1>8
  <2> QED BY <2>1
<1> QED BY <1>5, <1>6, <1>7, <1>8

(* What a cut leaves: the blocks outside it, and the one or two it made. *)
Outside(h, s, lo, hi) == {x \in DOMAIN h : ~ (x[1] = s /\ lo <= x[2] /\ x[2] < hi)}

CutBlocks(h, k, s, lo, mid, hi) ==
  /\ DOMAIN k = Outside(h, s, lo, hi) \union {<<s, lo>>}
                  \union (IF mid < hi THEN {<<s, mid>>} ELSE {})
  /\ <<s, lo>> \notin Outside(h, s, lo, hi)
  /\ mid < hi => <<s, mid>> \notin Outside(h, s, lo, hi)
  /\ \A x \in Outside(h, s, lo, hi) : k[x].size = h[x].size /\ k[x].used = h[x].used

LEMMA RecutBlocks ==
  ASSUME NEW h, Linked(h), NEW k, NEW s, NEW lo, NEW mid, NEW hi, Recut(h, k, s, lo, mid, hi)
  PROVE  CutBlocks(h, k, s, lo, mid, hi)
<1>1. /\ s \in Sheets /\ lo \in 0 .. DataUnits - 1 /\ lo < mid /\ mid <= hi /\ hi \in 0 .. DataUnits
  BY RecutFacts
<1>2. mid \in Int /\ DataUnits \in Nat /\ <<s, lo>> \in DOMAIN h
  BY MappingAssumption DEF Recut
<1>3. \A x \in DOMAIN h : /\ x = <<x[1], x[2]>> /\ x[2] \in 0 .. DataUnits - 1
  BY RecutFacts
<1>4. DOMAIN k = {x \in DOMAIN h : ~ (x[1] = s /\ lo < x[2] /\ x[2] < hi)}
                  \union (IF mid < hi THEN {<<s, mid>>} ELSE {})
  BY DEF Recut
<1>5. {x \in DOMAIN h : ~ (x[1] = s /\ lo < x[2] /\ x[2] < hi)}
        = Outside(h, s, lo, hi) \union {<<s, lo>>}
  BY <1>1, <1>2, <1>3 DEF Outside
<1>6. <<s, lo>> \notin Outside(h, s, lo, hi) /\ (mid < hi => <<s, mid>> \notin Outside(h, s, lo, hi))
  BY <1>1, <1>2 DEF Outside
<1>7. ASSUME NEW x \in Outside(h, s, lo, hi)
      PROVE  k[x].size = h[x].size /\ k[x].used = h[x].used
  <2>1. x \in DOMAIN k
    BY <1>4, <1>5
  <2>2. x # <<s, lo>> /\ (x = <<s, mid>> => mid = hi)
    BY <1>1, <1>2, <1>6
  <2> QED BY <2>1, <2>2, RecutFacts
<1> QED BY <1>4, <1>5, <1>6, <1>7 DEF CutBlocks

(* The neighbours of a block, and that nothing starts in between. *)
Inside(h, s, lo, hi) == {x \in DOMAIN h : x[1] = s /\ lo < x[2] /\ x[2] < hi}

LEMMA Neighbours ==
  ASSUME NEW h, Linked(h), NEW x \in DOMAIN h
  PROVE  /\ x = <<x[1], x[2]>> /\ x[1] \in Sheets /\ x[2] \in 0 .. DataUnits - 1
         /\ h[x] \in Headers /\ EndOf(h, x) \in Int /\ x[2] < EndOf(h, x)
         /\ EndOf(h, x) \in 0 .. DataUnits
         /\ EndOf(h, x) < DataUnits => <<x[1], EndOf(h, x)>> \in DOMAIN h
         /\ Inside(h, x[1], x[2], EndOf(h, x)) = {}
         /\ \A z \in DOMAIN h : z[1] = x[1] /\ x[2] < z[2] => EndOf(h, x) <= z[2]
<1>1. /\ x \in Places /\ h[x] \in Headers
      /\ EndOf(h, x) = DataUnits \/ <<x[1], EndOf(h, x)>> \in DOMAIN h
  BY DEF Linked
<1>2. /\ x = <<x[1], x[2]>> /\ x[1] \in Sheets /\ x[2] \in 0 .. DataUnits - 1
      /\ EndOf(h, x) \in Int /\ x[2] < EndOf(h, x) /\ DataUnits \in Nat
  BY <1>1, Units16, MappingAssumption DEF Places, Headers, EndOf
<1>3. \A z \in DOMAIN h : z[1] = x[1] /\ x[2] < z[2] => EndOf(h, x) <= z[2]
  BY DEF Linked
<1>4. \A z \in DOMAIN h : z[2] \in 0 .. DataUnits - 1
  BY DEF Linked, Places
<1>5. EndOf(h, x) \in 0 .. DataUnits
  <2>1. CASE EndOf(h, x) = DataUnits
    BY <1>2, <2>1
  <2>2. CASE <<x[1], EndOf(h, x)>> \in DOMAIN h
    <3> DEFINE z == <<x[1], EndOf(h, x)>>
    <3>1. z[2] \in 0 .. DataUnits - 1
      BY <1>4, <2>2
    <3> QED BY <1>2, <3>1
  <2> QED BY <1>1, <2>1, <2>2
<1>6. Inside(h, x[1], x[2], EndOf(h, x)) = {}
  BY <1>2, <1>3, <1>4 DEF Inside
<1> QED BY <1>1, <1>2, <1>3, <1>5, <1>6

LEMMA Following ==
  ASSUME NEW h, Linked(h), NEW x \in DOMAIN h, NEW y \in DOMAIN h,
         y[1] = x[1], y[2] = EndOf(h, x)
  PROVE  /\ Inside(h, x[1], x[2], EndOf(h, y)) = {y}
         /\ \A z \in DOMAIN h : z[1] = x[1] /\ EndOf(h, z) = y[2] => z = x
<1>1. /\ \A z \in DOMAIN h : /\ z = <<z[1], z[2]>> /\ z[2] \in Int /\ EndOf(h, z) \in Int
                             /\ z[2] < EndOf(h, z)
      /\ \A w, z \in DOMAIN h : z[1] = w[1] /\ w[2] < z[2] => EndOf(h, w) <= z[2]
  <2>1. \A z \in DOMAIN h : /\ z = <<z[1], z[2]>> /\ z[2] \in Int /\ EndOf(h, z) \in Int
                            /\ z[2] < EndOf(h, z)
    <3> SUFFICES ASSUME NEW z \in DOMAIN h
                 PROVE  z = <<z[1], z[2]>> /\ z[2] \in Int /\ EndOf(h, z) \in Int /\ z[2] < EndOf(h, z)
      OBVIOUS
    <3>1. z = <<z[1], z[2]>> /\ z[2] \in 0 .. DataUnits - 1 /\ EndOf(h, z) \in Int /\ z[2] < EndOf(h, z)
      BY Neighbours, Zenon
    <3> QED BY <3>1, MappingAssumption
  <2>2. \A w, z \in DOMAIN h : z[1] = w[1] /\ w[2] < z[2] => EndOf(h, w) <= z[2]
    BY DEF Linked
  <2> QED BY <2>1, <2>2
<1>2. y \in Inside(h, x[1], x[2], EndOf(h, y))
  BY <1>1 DEF Inside
<1>3. ASSUME NEW z \in Inside(h, x[1], x[2], EndOf(h, y)) PROVE z = y
  <2>1. z \in DOMAIN h /\ z[1] = y[1] /\ x[2] < z[2] /\ z[2] < EndOf(h, y)
    BY DEF Inside
  <2>2. y[2] <= z[2]
    BY <1>1, <2>1
  <2>3. ~ (y[2] < z[2])
    BY <1>1, <2>1
  <2> QED BY <1>1, <2>1, <2>2, <2>3
<1>4. ASSUME NEW z \in DOMAIN h, z[1] = x[1], EndOf(h, z) = y[2] PROVE z = x
  <2>1. ~ (z[2] < x[2]) /\ ~ (x[2] < z[2])
    BY <1>1, <1>4
  <2> QED BY <1>1, <1>4, <2>1
<1> QED BY <1>2, <1>3, <1>4

(***************************************************************************)
(* The parts of an operation.                                              *)
(***************************************************************************)
LEMMA ListedSame ==
  ASSUME NEW u, NEW v, NEW S, NEW h, NEW k, Listed(u, S, h),
         v.heads = u.heads, v.sl = u.sl, v.fl = u.fl, \A y \in S : k[y].size = h[y].size
  PROVE  Listed(v, S, k)
<1>1. \A c \in Classes : {y \in S : ClassOf[k[y].size] = c} = {y \in S : ClassOf[h[y].size] = c}
  OBVIOUS
<1> QED BY <1>1 DEF Listed

LEMMA SetPrevFacts ==
  ASSUME NEW g, NEW x, NEW prev, x[2] # DataUnits => x \in DOMAIN g /\ g[x] \in Headers
  PROVE  LET f == SetPrev(g, x, prev)
         IN  /\ DOMAIN f = DOMAIN g
             /\ \A y \in DOMAIN g : y # x => f[y] = g[y]
             /\ x[2] # DataUnits => f[x] = Hdr(g[x].size, g[x].used, prev)
             /\ x[2] = DataUnits => f = g
<1> DEFINE f == SetPrev(g, x, prev)
<1>1. CASE x[2] = DataUnits
  <2>1. f = g
    BY <1>1, Zenon DEF SetPrev
  <2> HIDE DEF f
  <2>2. DOMAIN f = DOMAIN g /\ \A y \in DOMAIN g : y # x => f[y] = g[y]
    BY <2>1
  <2> QED BY <1>1, <2>1, <2>2 DEF f
<1>2. CASE x[2] # DataUnits
  <2>1. f = [g EXCEPT ![x].prev = prev]
    BY <1>2, Zenon DEF SetPrev
  <2> HIDE DEF f
  <2>2. DOMAIN f = DOMAIN g /\ (\A y \in DOMAIN g : y # x => f[y] = g[y])
    BY <2>1
  <2>3. f[x] = Hdr(g[x].size, g[x].used, prev)
    BY <1>2, <2>1 DEF Headers, Hdr
  <2> QED BY <1>2, <2>2, <2>3 DEF f
<1> QED BY <1>1, <1>2

(* A neighbour is taken out of its list and of the headers if it is free. *)
Absorbable(u, S, h, x) ==
  /\ IsState(u) /\ Listed(u, S, h)
  /\ x \in S => /\ x[2] \notin {-1, DataUnits} /\ u.hdr[x] = h[x] /\ ~ h[x].used
                /\ h[x].size \in MinUnits .. DataUnits
  /\ x \notin S => x[2] \in {-1, DataUnits} \/ u.hdr[x].used

IsAbsorbed(u, S, h, x, a) ==
  /\ SameBut(a.t, u, {"hdr", "lists"}) /\ Listed(a.t, S \ {x}, h)
  /\ DOMAIN a.t.hdr = IF x \in S THEN DOMAIN u.hdr \ {x} ELSE DOMAIN u.hdr
  /\ \A y \in DOMAIN u.hdr : y \notin S \/ y # x => a.t.hdr[y] = u.hdr[y]
  /\ a.size = IF x \in S THEN h[x].size ELSE 0

LEMMA Absorb ==
  ASSUME NEW u, NEW S, NEW h, NEW x, Absorbable(u, S, h, x)
  PROVE  IsAbsorbed(u, S, h, x, Absorbed(u, x))
<1>0. /\ IsState(u) /\ Listed(u, S, h)
      /\ x \in S => /\ x[2] \notin {-1, DataUnits} /\ u.hdr[x] = h[x] /\ ~ h[x].used
                    /\ h[x].size \in MinUnits .. DataUnits
      /\ x \notin S => x[2] \in {-1, DataUnits} \/ u.hdr[x].used
  BY DEF Absorbable
<1> DEFINE a == Absorbed(u, x)
           w == RemoveFree(u, x, u.hdr[x].size)
           v == [w EXCEPT !.hdr = Drop(w.hdr, x)]
<1>1. CASE x \in S
  <2>1. IsFree(u, x)
    BY <1>0, <1>1 DEF IsFree
  <2>2. a = [t |-> v, size |-> u.hdr[x].size]
    BY <2>1, Zenon DEF Absorbed
  <2>3. SameBut(w, u, {"lists"}) /\ Listed(w, S \ {x}, h)
    <3>1. w = RemoveFree(u, x, h[x].size)
      BY <1>0, <1>1, Zenon
    <3> HIDE DEF w
    <3> QED BY <1>0, <1>1, <3>1, ListRemove
  <2> HIDE DEF w
  <2>4. SameBut(v, w, {"hdr"}) /\ v.hdr = Drop(w.hdr, x)
    <3> DEFINE d == Drop(w.hdr, x)
    <3>1. v = [w EXCEPT !.hdr = d]
      BY Zenon
    <3> HIDE DEF d, v
    <3>2. SameBut(v, w, {"hdr"}) /\ v.hdr = d
      BY <2>3, <3>1 DEF IsState, SameBut
    <3> QED BY <3>2 DEF d
  <2> HIDE DEF v
  <2>5. SameBut(v, u, {"hdr", "lists"}) /\ w.hdr = u.hdr
    BY <2>3, <2>4 DEF SameBut
  <2>6. Listed(v, S \ {x}, h)
    BY <2>3, <2>4, ListedSame DEF SameBut
  <2>7. DOMAIN v.hdr = DOMAIN u.hdr \ {x} /\ \A y \in DOMAIN u.hdr : y # x => v.hdr[y] = u.hdr[y]
    BY <2>4, <2>5 DEF Drop
  <2>8. a.t = v /\ a.size = h[x].size
    BY <1>0, <1>1, <2>2
  <2> HIDE DEF a
  <2>9. IsAbsorbed(u, S, h, x, a)
    BY <1>1, <2>5, <2>6, <2>7, <2>8 DEF IsAbsorbed
  <2> QED BY <2>9 DEF a
<1>2. CASE x \notin S
  <2>1. ~ IsFree(u, x)
    BY <1>0, <1>2 DEF IsFree
  <2>2. a.t = u /\ a.size = 0
    BY <2>1 DEF Absorbed
  <2>3. S \ {x} = S
    BY <1>2
  <2>4. SameBut(u, u, {"hdr", "lists"})
    BY <1>0 DEF SameBut
  <2> HIDE DEF a
  <2>5. IsAbsorbed(u, S, h, x, a)
    BY <1>0, <1>2, <2>2, <2>3, <2>4 DEF IsAbsorbed
  <2> QED BY <2>5 DEF a
<1> QED BY <1>1, <1>2

(* The rest of a cut becomes a free block. *)
SplitOff(g, e, nx, rem, size, lo) ==
  /\ DOMAIN e = DOMAIN g \union {rem} /\ e[rem] = Hdr(size, FALSE, lo)
  /\ nx[2] # DataUnits => e[nx] = Hdr(g[nx].size, g[nx].used, rem[2])
  /\ \A y \in DOMAIN g : y \notin {nx, rem} => e[y] = g[y]

LEMMA SplitOffFacts ==
  ASSUME NEW g, NEW nx, NEW rem, nx # rem, nx[2] # DataUnits => nx \in DOMAIN g /\ g[nx] \in Headers,
         NEW e, NEW size, NEW lo, e = Put(SetPrev(g, nx, rem[2]), rem, Hdr(size, FALSE, lo))
  PROVE  SplitOff(g, e, nx, rem, size, lo)
<1> DEFINE f == SetPrev(g, nx, rem[2])
<1>1. /\ DOMAIN f = DOMAIN g /\ \A y \in DOMAIN g : y # nx => f[y] = g[y]
      /\ nx[2] # DataUnits => f[nx] = Hdr(g[nx].size, g[nx].used, rem[2])
  BY SetPrevFacts
<1> HIDE DEF f
<1>2. /\ DOMAIN e = DOMAIN g \union {rem} /\ e[rem] = Hdr(size, FALSE, lo)
      /\ \A y \in DOMAIN g : y # rem => e[y] = f[y]
  BY <1>1 DEF Put, f
<1> QED BY <1>1, <1>2 DEF SplitOff

Splittable(u, S, x, bs, take) ==
  /\ IsState(u) /\ S \subseteq DOMAIN u.hdr /\ Listed(u, S, u.hdr)
  /\ NextTo(x, take) \in Places /\ NextTo(x, take) \notin S /\ NextTo(x, bs) # NextTo(x, take)
  /\ NextTo(x, bs)[2] # DataUnits =>
       NextTo(x, bs) \in DOMAIN u.hdr /\ u.hdr[NextTo(x, bs)] \in Headers
  /\ NextTo(x, bs)[2] = DataUnits => NextTo(x, bs) \notin S
  /\ bs - take \in MinUnits .. DataUnits

IsSplit(u, S, x, bs, take, v) ==
  /\ SameBut(v, u, {"hdr", "lists"}) /\ Listed(v, S \union {NextTo(x, take)}, v.hdr)
  /\ SplitOff(u.hdr, v.hdr, NextTo(x, bs), NextTo(x, take), bs - take, x[2])

LEMMA SplitRestFacts ==
  ASSUME NEW u, NEW S, NEW x, NEW bs, NEW take, Splittable(u, S, x, bs, take)
  PROVE  IsSplit(u, S, x, bs, take, SplitRest(u, x, bs, take))
<1> DEFINE nx   == NextTo(x, bs)
           rem  == NextTo(x, take)
           size == bs - take
           lo   == x[2]
           e    == Put(SetPrev(u.hdr, nx, rem[2]), rem, Hdr(size, FALSE, lo))
           w    == [u EXCEPT !.hdr = e]
           v    == SplitRest(u, x, bs, take)
<1>0. /\ IsState(u) /\ S \subseteq DOMAIN u.hdr /\ Listed(u, S, u.hdr)
      /\ rem \in Places /\ rem \notin S /\ nx # rem /\ size \in MinUnits .. DataUnits
      /\ nx[2] # DataUnits => nx \in DOMAIN u.hdr /\ u.hdr[nx] \in Headers
      /\ nx[2] = DataUnits => nx \notin S
  BY DEF Splittable
<1>1. v = InsertFree(w, rem, size)
  BY Zenon DEF SplitRest
<1>2. SameBut(w, u, {"hdr"}) /\ w.hdr = e
  <2>1. w = [u EXCEPT !.hdr = e]
    BY Zenon
  <2> HIDE DEF e, w
  <2> QED BY <1>0, <2>1 DEF IsState, SameBut
<1> HIDE DEF w, v, size, lo, nx, rem
<1>3. SplitOff(u.hdr, e, nx, rem, size, lo)
  BY <1>0, SplitOffFacts
<1> HIDE DEF e
<1>4. IsState(w) /\ Listed(w, S, u.hdr)
  BY <1>0, <1>2, ListedSame DEF SameBut
<1>5. e[rem].size = size /\ \A y \in S : e[y].size = u.hdr[y].size
  BY <1>0, <1>3 DEF SplitOff, Hdr
<1>6. SameBut(v, w, {"lists"}) /\ Listed(v, S \union {rem}, e)
  BY <1>0, <1>1, <1>4, <1>5, ListInsert
<1>7. SameBut(v, u, {"hdr", "lists"}) /\ v.hdr = e
  BY <1>2, <1>6 DEF SameBut
<1> QED BY <1>3, <1>6, <1>7 DEF IsSplit, v, nx, rem, size, lo

CutUse(h, k, s, lo, mid, hi, Z) ==
  /\ FreeIn(k) = (FreeIn(h) \ Z) \union (IF k[<<s, lo>>].used THEN {} ELSE {<<s, lo>>})
                   \union (IF mid < hi /\ ~ k[<<s, mid>>].used THEN {<<s, mid>>} ELSE {})
  /\ UsedIn(k) = (UsedIn(h) \ Z) \union (IF k[<<s, lo>>].used THEN {<<s, lo>>} ELSE {})
                   \union (IF mid < hi /\ k[<<s, mid>>].used THEN {<<s, mid>>} ELSE {})
  /\ \A x \in DOMAIN h \ Z : k[x].size = h[x].size
  /\ mid < hi => <<s, mid>> \notin DOMAIN h \ Z

LEMMA RecutUse ==
  ASSUME NEW h, Linked(h), NEW k, NEW s, NEW lo, NEW mid, NEW hi, Recut(h, k, s, lo, mid, hi),
         NEW Z, Z = Inside(h, s, lo, hi) \union {<<s, lo>>}
  PROVE  CutUse(h, k, s, lo, mid, hi, Z)
<1> DEFINE O == Outside(h, s, lo, hi)
<1>1. O = DOMAIN h \ Z
  <2>1. lo \in Int /\ hi \in Int /\ lo < hi /\ <<s, lo>> \in DOMAIN h
    <3>1. lo \in 0 .. DataUnits - 1 /\ lo < mid /\ mid <= hi
      BY RecutFacts
    <3>2. mid \in Int /\ hi \in Int /\ <<s, lo>> \in DOMAIN h
      BY DEF Recut
    <3> QED BY <3>1, <3>2, MappingAssumption
  <2>2. \A x \in DOMAIN h : x = <<x[1], x[2]>> /\ x[2] \in Int
    <3> SUFFICES ASSUME NEW x \in DOMAIN h PROVE x = <<x[1], x[2]>> /\ x[2] \in Int
      OBVIOUS
    <3>1. x = <<x[1], x[2]>> /\ x[2] \in 0 .. DataUnits - 1
      BY Neighbours, Zenon
    <3> QED BY <3>1
  <2> QED BY <2>1, <2>2 DEF Outside, Inside
<1>2. CutBlocks(h, k, s, lo, mid, hi)
  BY RecutBlocks
<1>3. /\ DOMAIN k = O \union {<<s, lo>>} \union (IF mid < hi THEN {<<s, mid>>} ELSE {})
      /\ <<s, lo>> \notin O /\ (mid < hi => <<s, mid>> \notin O)
      /\ \A x \in O : k[x].size = h[x].size /\ k[x].used = h[x].used
  BY <1>2, Zenon DEF CutBlocks
<1> HIDE DEF O
<1> QED BY <1>1, <1>3 DEF FreeIn, UsedIn, CutUse

(* What every state satisfies. *)
Whole(t_) ==
  /\ IsState(t_) /\ Linked(t_.hdr) /\ Apart(t_.hdr)
  /\ Listed(t_, FreeIn(t_.hdr), t_.hdr) /\ t_.marks = UsedIn(t_.hdr)
  /\ t_.count \in 0 .. MaxSheets /\ t_.allocated \in Int

(* The blocks in use, but for x, and the sheets are what they were. *)
Keeps(u, v, x) ==
  /\ SheetsOf(v) = SheetsOf(u) /\ v.count = u.count
  /\ UsedIn(v.hdr) \ {x} = UsedIn(u.hdr) \ {x}
  /\ \A y \in UsedIn(u.hdr) \ {x} : v.hdr[y].size = u.hdr[y].size

Uses(v, x, size) == x \in UsedIn(v.hdr) /\ v.hdr[x].size = size

LEMMA Outcome ==
  ASSUME NEW u, Whole(u), NEW v, IsState(v), NEW h, NEW k, u.hdr = h, v.hdr = k,
         NEW s, NEW lo, NEW mid, NEW hi, Recut(h, k, s, lo, mid, hi),
         NEW x, UsedIn(k) \ {x} = UsedIn(h) \ {x},
         x = <<s, lo>> \/ ~ k[<<s, lo>>].used, mid < hi => ~ k[<<s, mid>>].used,
         \A y \in DOMAIN h : y[1] = s /\ EndOf(h, y) = lo => h[y].used \/ k[<<s, lo>>].used,
         mid < hi => k[<<s, lo>>].used \/ k[<<s, mid>>].used,
         hi < DataUnits => k[IF mid < hi THEN <<s, mid>> ELSE <<s, lo>>].used \/ h[<<s, hi>>].used,
         Listed(v, FreeIn(k), k), v.marks = UsedIn(k), v.count = u.count, v.allocated \in Int
  PROVE  Whole(v) /\ Keeps(u, v, x)
<1>1. Linked(h) /\ Apart(h)
  BY DEF Whole
<1>2. Linked(k) /\ Apart(k)
  BY <1>1, RecutLinked, RecutApart
<1>3. \A y \in UsedIn(h) \ {x} : k[y].size = h[y].size
  <2> SUFFICES ASSUME NEW y \in UsedIn(h) \ {x} PROVE k[y].size = h[y].size
    OBVIOUS
  <2>1. y \in DOMAIN k /\ k[y].used
    BY DEF UsedIn
  <2>2. y # <<s, lo>> /\ (mid = hi \/ y # <<s, mid>>)
    <3>1. mid <= hi
      BY <1>1, RecutFacts
    <3>2. mid \in Int /\ hi \in Int
      BY DEF Recut
    <3>3. mid = hi \/ mid < hi
      BY <3>1, <3>2
    <3> QED BY <2>1, <3>3
  <2> QED BY <1>1, <2>1, <2>2, RecutFacts
<1>4. SheetsOf(v) = SheetsOf(u)
  <2>1. \A y \in DOMAIN k : y[1] = s \/ y \in DOMAIN h
    BY DEF Recut
  <2>2. <<s, lo>> \in DOMAIN h /\ <<s, lo>> \in DOMAIN k /\ <<s, lo>>[1] = s
    <3>1. lo \in 0 .. DataUnits - 1
      BY <1>1, RecutFacts
    <3>2. ~ (lo < lo)
      BY <3>1, MappingAssumption
    <3> QED BY <3>2 DEF Recut
  <2>3. \A y \in DOMAIN h : y[1] = s \/ y \in DOMAIN k
    BY DEF Recut
  <2> QED BY <2>1, <2>2, <2>3 DEF SheetsOf
<1> QED BY <1>2, <1>3, <1>4 DEF Whole, Keeps

(***************************************************************************)
(* The counter: only claiming, releasing and moving the end of a block     *)
(* change it.                                                              *)
(***************************************************************************)
SameCounter(u, v) == IsState(v) /\ v.allocated = u.allocated

LEMMA InsertCounter ==
  ASSUME NEW u, IsState(u), NEW x, NEW size
  PROVE  SameCounter(u, InsertFree(u, x, size))
<1> DEFINE hs == [u.heads EXCEPT ![ClassOf[size]] = <<x>> \o @]
           sl == u.sl \union {ClassOf[size]}
           fl == u.fl \union {ClassOf[size][1]}
<1>1. InsertFree(u, x, size) = [u EXCEPT !.heads = hs, !.sl = sl, !.fl = fl]
  BY Zenon DEF InsertFree
<1> HIDE DEF hs, sl, fl
<1> QED BY <1>1 DEF IsState, SameCounter

LEMMA RemoveCounter ==
  ASSUME NEW u, IsState(u), NEW x, NEW size
  PROVE  SameCounter(u, RemoveFree(u, x, size)) /\ RemoveFree(u, x, size).hdr = u.hdr
<1> DEFINE c  == ClassOf[size]
           hs == [u.heads EXCEPT ![c] = Unlinked(@, x)]
           w  == [u EXCEPT !.heads = hs]
           sl == IF w.heads[c] = <<>> THEN w.sl \ {c} ELSE w.sl
           fl == IF \E d \in sl : d[1] = c[1] THEN w.fl ELSE w.fl \ {c[1]}
<1>1. RemoveFree(u, x, size) = [w EXCEPT !.sl = sl, !.fl = fl]
  BY Zenon DEF RemoveFree, ClearIfEmpty
<1> HIDE DEF hs, sl, fl
<1>2. IsState(w) /\ w.allocated = u.allocated /\ w.hdr = u.hdr
  BY DEF IsState
<1> HIDE DEF w
<1> QED BY <1>1, <1>2 DEF IsState, SameCounter

LEMMA AbsorbCounter ==
  ASSUME NEW u, IsState(u), NEW x
  PROVE  SameCounter(u, Absorbed(u, x).t)
<1> DEFINE w == RemoveFree(u, x, u.hdr[x].size)
           k == Drop(w.hdr, x)
<1>1. Absorbed(u, x).t = u \/ Absorbed(u, x).t = [w EXCEPT !.hdr = k]
  BY Zenon DEF Absorbed
<1>2. SameCounter(u, w)
  BY RemoveCounter
<1> HIDE DEF w, k
<1> QED BY <1>1, <1>2 DEF IsState, SameCounter

LEMMA SplitCounter ==
  ASSUME NEW u, IsState(u), NEW x, NEW bs, NEW take
  PROVE  SameCounter(u, SplitRest(u, x, bs, take))
<1> DEFINE k == Put(SetPrev(u.hdr, NextTo(x, bs), NextTo(x, take)[2]),
                    NextTo(x, take), Hdr(bs - take, FALSE, x[2]))
           w == [u EXCEPT !.hdr = k]
<1>1. SplitRest(u, x, bs, take) = InsertFree(w, NextTo(x, take), bs - take)
  BY Zenon DEF SplitRest
<1> HIDE DEF k
<1>2. SameCounter(u, w)
  BY DEF IsState, SameCounter
<1> HIDE DEF w
<1>3. SameCounter(w, InsertFree(w, NextTo(x, take), bs - take))
  BY <1>2, InsertCounter DEF SameCounter
<1> QED BY <1>1, <1>2, <1>3 DEF SameCounter

LEMMA ClaimCounter ==
  ASSUME NEW u, IsState(u), NEW x, NEW take
  PROVE  /\ Claim(u, x, take).allocated = u.allocated + take
         /\ Claim(u, x, take).hdr[x].size = take
<1> DEFINE e == Hdr(take, TRUE, u.hdr[x].prev)
           k == Put(u.hdr, x, e)
           m == u.marks \union {x}
           al == u.allocated + take
<1>1. Claim(u, x, take) = [u EXCEPT !.hdr = k, !.marks = m, !.allocated = al]
  BY Zenon DEF Claim
<1>2. k[x] = e /\ e.size = take
  BY DEF Put, Hdr
<1> HIDE DEF k, m, al, e
<1>3. /\ [u EXCEPT !.hdr = k, !.marks = m, !.allocated = al].hdr = k
      /\ [u EXCEPT !.hdr = k, !.marks = m, !.allocated = al].allocated = al
  BY DEF IsState
<1> QED BY <1>1, <1>2, <1>3 DEF al

LEMMA TakeCounter ==
  ASSUME NEW u, IsState(u), NEW x, NEW bs, NEW need
  PROVE  TakeFrom(u, x, bs, need).allocated = u.allocated + TakeFrom(u, x, bs, need).hdr[x].size
<1> DEFINE w == RemoveFree(u, x, bs)
           z == SplitRest(w, x, bs, need)
<1>1. SameCounter(u, w)
  BY RemoveCounter
<1>2. TakeFrom(u, x, bs, need) = Claim(z, x, need) \/ TakeFrom(u, x, bs, need) = Claim(w, x, bs)
  BY Zenon DEF TakeFrom
<1> HIDE DEF w
<1>3. SameCounter(w, z)
  BY <1>1, SplitCounter DEF SameCounter
<1> HIDE DEF z
<1>4. /\ Claim(z, x, need).allocated = u.allocated + Claim(z, x, need).hdr[x].size
      /\ Claim(w, x, bs).allocated = u.allocated + Claim(w, x, bs).hdr[x].size
  <2>1. IsState(z) /\ z.allocated = u.allocated /\ IsState(w) /\ w.allocated = u.allocated
    BY <1>1, <1>3 DEF SameCounter
  <2> QED BY <2>1, ClaimCounter
<1> QED BY <1>2, <1>4

LEMMA MoveCounter ==
  ASSUME NEW u, IsState(u), NEW x, NEW span, NEW take
  PROVE  MoveEnd(u, x, span, take).allocated = u.allocated + (take - u.hdr[x].size)
<1> DEFINE k  == Resized(u.hdr, x, take)
           al == u.allocated + (take - u.hdr[x].size)
           w  == [u EXCEPT !.hdr = k, !.allocated = al]
           e  == SetPrev(w.hdr, NextTo(x, span), x[2])
<1>1. MoveEnd(u, x, span, take) \in {[w EXCEPT !.hdr = e], SplitRest(w, x, span, take)}
  BY Zenon DEF MoveEnd
<1> HIDE DEF k, e, al
<1>2. IsState(w) /\ w.allocated = al
  BY DEF IsState
<1> HIDE DEF w
<1>3. [w EXCEPT !.hdr = e].allocated = al
  BY <1>2 DEF IsState
<1>4. SplitRest(w, x, span, take).allocated = al
  BY <1>2, SplitCounter DEF SameCounter
<1> QED BY <1>1, <1>3, <1>4 DEF al

LEMMA DeallocateCounter ==
  ASSUME NEW u, IsState(u), NEW x
  PROVE  Deallocate(u, x).allocated = u.allocated - u.hdr[x].size
<1> DEFINE bs == u.hdr[x].size
           ms == u.marks \ {x}
           al == u.allocated - bs
           w  == [u EXCEPT !.marks = ms, !.allocated = al]
           a  == Absorbed(w, NextTo(x, bs))
           b  == Absorbed(a.t, BlockPrev(u, x))
           y  == IF b.size > 0 THEN BlockPrev(u, x) ELSE x
           size == bs + a.size + b.size
           k  == SetPrev(Put(Drop(b.t.hdr, x), y, Hdr(size, FALSE, u.hdr[y].prev)),
                         NextTo(y, size), y[2])
           c  == b.t
           d  == [c EXCEPT !.hdr = k]
<1>1. Deallocate(u, x) = InsertFree(d, y, size)
  BY Zenon DEF Deallocate
<1> HIDE DEF k, ms, al, y, size
<1>2. IsState(w) /\ w.allocated = al
  BY DEF IsState
<1> HIDE DEF w
<1>3. SameCounter(w, a.t)
  BY <1>2, AbsorbCounter
<1> HIDE DEF a
<1>4. SameCounter(a.t, c)
  BY <1>3, AbsorbCounter DEF SameCounter
<1> HIDE DEF b, c
<1>5. IsState(d) /\ d.allocated = al
  BY <1>2, <1>3, <1>4 DEF IsState, SameCounter
<1> HIDE DEF d
<1>6. InsertFree(d, y, size).allocated = al
  BY <1>5, InsertCounter DEF SameCounter
<1> QED BY <1>1, <1>6 DEF al

LEMMA SheetCounter ==
  ASSUME NEW u, IsState(u), NEW s
  PROVE  /\ AddSheet(u, s).allocated = u.allocated
         /\ RemoveSheet(u, s).allocated = u.allocated
<1> DEFINE x  == <<s, 0>>
           k  == Put(u.hdr, x, Hdr(DataUnits, FALSE, -1))
           ms == {z \in u.marks : z[1] # s}
           c  == u.count + 1
           w  == [u EXCEPT !.hdr = k, !.marks = ms, !.count = c]
           v  == RemoveFree(u, x, DataUnits)
           e  == Drop(v.hdr, x)
           d  == v.count - 1
<1>1. AddSheet(u, s) = InsertFree(w, x, DataUnits)
  BY Zenon DEF AddSheet
<1>2. RemoveSheet(u, s) = [v EXCEPT !.hdr = e, !.count = d]
  BY Zenon DEF RemoveSheet
<1> HIDE DEF k, ms, c, x
<1>3. IsState(w) /\ w.allocated = u.allocated
  BY DEF IsState
<1>4. SameCounter(u, v)
  BY RemoveCounter
<1> HIDE DEF w, v, e, d
<1>5. InsertFree(w, x, DataUnits).allocated = u.allocated
  BY <1>3, InsertCounter DEF SameCounter
<1>6. [v EXCEPT !.hdr = e, !.count = d].allocated = u.allocated
  BY <1>4 DEF SameCounter, IsState
<1> QED BY <1>1, <1>2, <1>5, <1>6

(***************************************************************************)
(* allocate                                                                *)
(***************************************************************************)
IsClaimed(u, x, take, v) ==
  /\ SameBut(v, u, {"hdr", "marks", "allocated"})
  /\ DOMAIN v.hdr = DOMAIN u.hdr /\ v.hdr[x] = Hdr(take, TRUE, u.hdr[x].prev)
  /\ \A y \in DOMAIN u.hdr : y # x => v.hdr[y] = u.hdr[y]
  /\ v.marks = u.marks \union {x} /\ v.allocated = u.allocated + take

LEMMA ClaimFacts ==
  ASSUME NEW u, IsState(u), NEW x \in DOMAIN u.hdr, NEW take
  PROVE  IsClaimed(u, x, take, Claim(u, x, take))
<1> DEFINE w  == Hdr(take, TRUE, u.hdr[x].prev)
           e  == Put(u.hdr, x, w)
           m  == u.marks \union {x}
           a_ == u.allocated + take
           v  == Claim(u, x, take)
<1>1. v = [u EXCEPT !.hdr = e, !.marks = m, !.allocated = a_]
  BY Zenon DEF Claim
<1>2. /\ DOMAIN e = DOMAIN u.hdr /\ e[x] = w
      /\ \A y \in DOMAIN u.hdr : y # x => e[y] = u.hdr[y]
  <2> HIDE DEF w
  <2> QED BY DEF Put
<1>3. SameBut(v, u, {"hdr", "marks", "allocated"}) /\ v.hdr = e /\ v.marks = m /\ v.allocated = a_
  <2> HIDE DEF e, m, a_, v
  <2> QED BY <1>1 DEF IsState, SameBut
<1> HIDE DEF e, v, w
<1>4. IsClaimed(u, x, take, v)
  BY <1>2, <1>3 DEF IsClaimed, w
<1> QED BY <1>4 DEF v

LEMMA BlockAt ==
  ASSUME NEW h, Linked(h), Apart(h), NEW s, NEW lo, NEW x \in DOMAIN h, x = <<s, lo>>,
         NEW bs, bs = h[x].size, NEW hi, hi = lo + bs
  PROVE  /\ s \in Sheets /\ lo \in 0 .. DataUnits - 1 /\ bs \in MinUnits .. DataUnits
         /\ hi \in 0 .. DataUnits /\ lo < hi /\ EndOf(h, x) = hi /\ NextTo(x, bs) = <<s, hi>>
         /\ h[x].used \in BOOLEAN /\ h[x] = Hdr(bs, h[x].used, h[x].prev) /\ h[x] \in Headers
         /\ \A z \in DOMAIN h : ~ (z[1] = s /\ lo < z[2] /\ z[2] < hi)
         /\ hi < DataUnits =>
              /\ <<s, hi>> \in DOMAIN h /\ h[<<s, hi>>] \in Headers /\ h[<<s, hi>>].prev = lo
              /\ ~ h[x].used => h[<<s, hi>>].used
         /\ <<s, hi>> \in DOMAIN h => hi < DataUnits
<1>1. /\ s \in Sheets /\ lo \in 0 .. DataUnits - 1
      /\ h[x] \in Headers /\ EndOf(h, x) \in 0 .. DataUnits /\ lo < EndOf(h, x)
      /\ (EndOf(h, x) < DataUnits => <<s, EndOf(h, x)>> \in DOMAIN h)
  <2>1. /\ x[1] \in Sheets /\ x[2] \in 0 .. DataUnits - 1
        /\ h[x] \in Headers /\ EndOf(h, x) \in 0 .. DataUnits /\ x[2] < EndOf(h, x)
        /\ (EndOf(h, x) < DataUnits => <<x[1], EndOf(h, x)>> \in DOMAIN h)
    BY Neighbours, Zenon
  <2> QED BY <2>1
<1>2. Inside(h, s, lo, EndOf(h, x)) = {}
  <2>1. Inside(h, x[1], x[2], EndOf(h, x)) = {}
    BY Neighbours, Zenon
  <2> QED BY <2>1
<1>3. EndOf(h, x) = hi /\ NextTo(x, bs) = <<s, hi>>
  BY DEF EndOf, NextTo
<1>4. bs \in MinUnits .. DataUnits /\ h[x].used \in BOOLEAN /\ h[x] = Hdr(bs, h[x].used, h[x].prev)
  BY <1>1 DEF Headers, Hdr
<1>5. \A z \in DOMAIN h : ~ (z[1] = s /\ lo < z[2] /\ z[2] < hi)
  BY <1>2, <1>3 DEF Inside
<1>6. ASSUME hi < DataUnits
      PROVE  /\ <<s, hi>> \in DOMAIN h /\ h[<<s, hi>>] \in Headers /\ h[<<s, hi>>].prev = lo
             /\ ~ h[x].used => h[<<s, hi>>].used
  <2> DEFINE y == <<s, hi>>
             q == <<s, h[y].prev>>
  <2>1. y \in DOMAIN h /\ y[1] = s /\ y[2] = hi
    BY <1>1, <1>3, <1>6
  <2> HIDE DEF y
  <2>2. h[y] \in Headers
    BY <2>1 DEF Linked
  <2>3. hi # 0
    BY <1>1, <1>3
  <2>4. q \in DOMAIN h /\ EndOf(h, q) = hi
    BY <2>1, <2>3 DEF Linked
  <2>5. q = x
    <3>1. y[1] = x[1] /\ y[2] = EndOf(h, x) /\ q[1] = x[1]
      BY <1>3, <2>1
    <3> HIDE DEF q
    <3> QED BY <1>3, <2>1, <2>4, <3>1, Following, Zenon
  <2>6. ~ h[x].used => h[y].used
    BY <1>3, <2>1 DEF Apart
  <2> QED BY <2>1, <2>2, <2>5, <2>6 DEF y
<1>7. <<s, hi>> \in DOMAIN h => hi < DataUnits
  <2>1. \A z \in DOMAIN h : z[2] \in 0 .. DataUnits - 1
    BY DEF Linked, Places
  <2>2. <<s, hi>> \in DOMAIN h => hi \in 0 .. DataUnits - 1
    BY <2>1
  <2> QED BY <2>2, MappingAssumption
<1> QED BY <1>1, <1>3, <1>4, <1>5, <1>6, <1>7


LEMMA BlockName ==
  ASSUME NEW h, Linked(h), NEW x \in DOMAIN h
  PROVE  x = <<x[1], x[2]>>
<1>1. x \in Places
  BY DEF Linked
<1> QED BY <1>1 DEF Places

LEMMA AllocateSplit ==
  ASSUME NEW u, Whole(u), NEW x \in FreeIn(u.hdr), NEW bs, bs = u.hdr[x].size,
         NEW need \in MinUnits .. DataUnits, bs - need >= MinUnits
  PROVE  LET v == Claim(SplitRest(RemoveFree(u, x, bs), x, bs, need), x, need)
         IN  Whole(v) /\ Keeps(u, v, x) /\ Uses(v, x, need)
<1> DEFINE h    == u.hdr
           F    == FreeIn(h)
           s    == x[1]
           lo   == x[2]
           hi   == lo + bs
           mid  == lo + need
           nx   == <<s, hi>>
           rem  == <<s, mid>>
           size == bs - need
           S1   == F \ {x}
           S2   == S1 \union {rem}
           u1   == RemoveFree(u, x, bs)
           u2   == SplitRest(u1, x, bs, need)
           v    == Claim(u2, x, need)
           g    == u2.hdr
           k    == v.hdr
<1>0. /\ u1 = RemoveFree(u, x, bs) /\ u2 = SplitRest(u1, x, bs, need) /\ v = Claim(u2, x, need)
      /\ g = u2.hdr /\ k = v.hdr /\ h = u.hdr /\ s = x[1] /\ lo = x[2]
  OBVIOUS
<1>1. /\ IsState(u) /\ Linked(h) /\ Apart(h) /\ Listed(u, F, h) /\ u.marks = UsedIn(h)
      /\ u.allocated \in Int /\ x \in DOMAIN h /\ ~ h[x].used /\ x \in F /\ bs = h[x].size
  <2>1. /\ IsState(u) /\ Linked(h) /\ Apart(h) /\ Listed(u, F, h) /\ u.marks = UsedIn(h)
        /\ u.allocated \in Int
    BY DEF Whole
  <2>2. x \in F /\ bs = h[x].size
    OBVIOUS
  <2> HIDE DEF h
  <2> QED BY <2>1, <2>2 DEF FreeIn
<1> HIDE DEF u1, u2, v, g, k, h, s, lo
<1>x. x = <<s, lo>>
  <2>1. x = <<x[1], x[2]>>
    BY <1>1, BlockName
  <2> QED BY <1>0, <2>1
<1>2. /\ s \in Sheets /\ lo \in 0 .. DataUnits - 1 /\ bs \in MinUnits .. DataUnits
      /\ hi \in 0 .. DataUnits /\ lo < hi /\ EndOf(h, x) = hi /\ NextTo(x, bs) = nx
      /\ h[x] = Hdr(bs, h[x].used, h[x].prev)
      /\ \A z \in DOMAIN h : ~ (z[1] = s /\ lo < z[2] /\ z[2] < hi)
      /\ hi < DataUnits => nx \in DOMAIN h /\ h[nx] \in Headers /\ h[nx].used
      /\ nx \in DOMAIN h => hi < DataUnits
  BY <1>1, <1>x, BlockAt
<1>3. /\ mid \in Int /\ hi \in Int /\ lo + MinUnits <= mid /\ mid + MinUnits <= hi /\ mid < hi /\ lo < mid
      /\ rem \in Places /\ size \in MinUnits .. DataUnits
      /\ NextTo(x, need) = rem /\ hi - mid = size /\ mid - lo = need /\ hi <= DataUnits
      /\ rem # x /\ rem # nx /\ nx # x /\ (hi = DataUnits \/ hi < DataUnits)
  BY <1>x, <1>2, Units16, MappingAssumption DEF Places, NextTo
<1> HIDE DEF hi, mid, size
<1>4. rem \notin DOMAIN h
  BY <1>2, <1>3
<1>5. SameBut(u1, u, {"lists"}) /\ Listed(u1, S1, h)
  <2> HIDE DEF F
  <2>1. h[x].size \in MinUnits .. DataUnits
    BY <1>1, <1>2
  <2> QED BY <1>0, <1>1, <2>1, ListRemove
<1>6. /\ IsState(u1) /\ u1.hdr = h /\ u1.marks = UsedIn(h) /\ u1.count = u.count
      /\ u1.allocated = u.allocated
  BY <1>0, <1>1, <1>5 DEF SameBut
<1>7. SameBut(u2, u1, {"hdr", "lists"}) /\ SplitOff(h, g, nx, rem, size, lo) /\ Listed(u2, S2, g)
  <2>1. S1 \subseteq DOMAIN h /\ rem \notin S1 /\ (nx[2] = DataUnits => nx \notin S1)
        /\ (nx[2] # DataUnits => nx \in DOMAIN h /\ h[nx] \in Headers) /\ lo = x[2] /\ size = bs - need
    BY <1>0, <1>2, <1>3, <1>4 DEF FreeIn, size
  <2> HIDE DEF nx, rem, S1
  <2>2. Splittable(u1, S1, x, bs, need)
    BY <1>2, <1>3, <1>5, <1>6, <2>1 DEF Splittable, size
  <2>3. IsSplit(u1, S1, x, bs, need, u2)
    BY <1>0, <2>2, SplitRestFacts
  <2> QED BY <1>0, <1>2, <1>3, <1>6, <2>1, <2>3 DEF IsSplit
<1>8. /\ DOMAIN g = DOMAIN h \union {rem} /\ g[rem] = Hdr(size, FALSE, lo)
      /\ hi < DataUnits => g[nx] = Hdr(h[nx].size, h[nx].used, mid)
      /\ \A y \in DOMAIN h : y # nx => g[y] = h[y]
      /\ IsState(u2) /\ u2.marks = UsedIn(h) /\ u2.count = u.count /\ u2.allocated = u.allocated
  BY <1>3, <1>4, <1>6, <1>7 DEF SplitOff, SameBut
<1>9. /\ SameBut(v, u2, {"hdr", "marks", "allocated"})
      /\ DOMAIN k = DOMAIN g /\ k[x] = Hdr(need, TRUE, h[x].prev)
      /\ \A y \in DOMAIN g : y # x => k[y] = g[y]
      /\ v.marks = u2.marks \union {x} /\ v.allocated = u2.allocated + need
  <2>1. x \in DOMAIN u2.hdr /\ u2.hdr[x].prev = h[x].prev
    BY <1>0, <1>1, <1>2, <1>3, <1>8
  <2>2. IsClaimed(u2, x, need, v)
    BY <1>0, <1>8, <2>1, ClaimFacts
  <2> QED BY <1>0, <2>1, <2>2 DEF IsClaimed
<1>10. Recut(h, k, s, lo, mid, hi)
  <2>1. DOMAIN k = {y \in DOMAIN h : ~ (y[1] = s /\ lo < y[2] /\ y[2] < hi)} \union {<<s, mid>>}
    BY <1>2, <1>8, <1>9
  <2>2. k[<<s, lo>>] = Hdr(mid - lo, TRUE, h[<<s, lo>>].prev)
    BY <1>x, <1>3, <1>9
  <2>3. k[<<s, mid>>] = Hdr(hi - mid, FALSE, lo)
    BY <1>3, <1>8, <1>9
  <2>4. hi < DataUnits => k[<<s, hi>>] = Hdr(h[<<s, hi>>].size, h[<<s, hi>>].used, mid)
    BY <1>2, <1>3, <1>8, <1>9
  <2>5. \A y \in DOMAIN h : y \in DOMAIN k /\ y \notin {<<s, lo>>, <<s, mid>>, <<s, hi>>} => k[y] = h[y]
    BY <1>x, <1>8, <1>9
  <2> QED BY <1>x, <1>1, <1>2, <1>3, <2>1, <2>2, <2>3, <2>4, <2>5 DEF Recut
<1>11. k[x].used /\ ~ k[rem].used
  BY <1>3, <1>8, <1>9 DEF Hdr
<1>12. FreeIn(k) = S2 /\ UsedIn(k) = UsedIn(h) \union {x}
  <2>1. {x} = Inside(h, s, lo, hi) \union {<<s, lo>>}
    BY <1>x, <1>1, <1>2 DEF Inside
  <2>2. CutUse(h, k, s, lo, mid, hi, {x})
    BY <1>1, <1>10, <2>1, RecutUse
  <2>3. UsedIn(h) \ {x} = UsedIn(h)
    BY <1>1 DEF UsedIn
  <2> QED BY <1>x, <1>3, <1>11, <2>2, <2>3 DEF CutUse
<1>13. Listed(v, FreeIn(k), k)
  <2>1. v.heads = u2.heads /\ v.sl = u2.sl /\ v.fl = u2.fl
    BY <1>9 DEF SameBut
  <2>2. \A y \in S2 : k[y].size = g[y].size
    BY <1>3, <1>8, <1>9 DEF FreeIn
  <2> HIDE DEF S2
  <2> QED BY <1>7, <1>12, <2>1, <2>2, ListedSame
<1>14. IsState(v) /\ v.marks = UsedIn(k) /\ v.count = u.count /\ v.allocated \in Int
  BY <1>1, <1>8, <1>9, <1>12 DEF SameBut
<1>15. Whole(v) /\ Keeps(u, v, x)
  <2>1. /\ k[<<s, lo>>].used
        /\ hi < DataUnits => k[IF mid < hi THEN <<s, mid>> ELSE <<s, lo>>].used \/ h[<<s, hi>>].used
    BY <1>x, <1>2, <1>11
  <2>2. h = u.hdr /\ k = v.hdr
    BY <1>0
  <2>3. UsedIn(k) \ {x} = UsedIn(h) \ {x} /\ (x = <<s, lo>> \/ ~ k[<<s, lo>>].used) /\ (mid < hi => ~ k[<<s, mid>>].used)
    BY <1>x, <1>11, <1>12
  <2> QED BY <1>10, <1>13, <1>14, <2>1, <2>2, <2>3, Outcome
<1>16. Uses(v, x, need)
  <2>1. x \in UsedIn(k)
    BY <1>12
  <2>2. k[x].size = need
    BY <1>9 DEF Hdr
  <2>3. k = v.hdr
    BY <1>0
  <2> QED BY <2>1, <2>2, <2>3 DEF Uses
<1> QED BY <1>15, <1>16 DEF v, u2, u1

LEMMA AllocateAll ==
  ASSUME NEW u, Whole(u), NEW x \in FreeIn(u.hdr), NEW bs, bs = u.hdr[x].size
  PROVE  LET v == Claim(RemoveFree(u, x, bs), x, bs)
         IN  Whole(v) /\ Keeps(u, v, x) /\ Uses(v, x, bs)
<1> DEFINE h  == u.hdr
           F  == FreeIn(h)
           s  == x[1]
           lo == x[2]
           hi == lo + bs
           nx == <<s, hi>>
           S1 == F \ {x}
           u1 == RemoveFree(u, x, bs)
           v  == Claim(u1, x, bs)
           k  == v.hdr
<1>0. /\ u1 = RemoveFree(u, x, bs) /\ v = Claim(u1, x, bs)
      /\ k = v.hdr /\ h = u.hdr /\ s = x[1] /\ lo = x[2]
  OBVIOUS
<1>1. /\ IsState(u) /\ Linked(h) /\ Apart(h) /\ Listed(u, F, h) /\ u.marks = UsedIn(h)
      /\ u.allocated \in Int /\ x \in DOMAIN h /\ ~ h[x].used /\ x \in F /\ bs = h[x].size
  <2>1. /\ IsState(u) /\ Linked(h) /\ Apart(h) /\ Listed(u, F, h) /\ u.marks = UsedIn(h)
        /\ u.allocated \in Int
    BY DEF Whole
  <2>2. x \in F /\ bs = h[x].size
    OBVIOUS
  <2> HIDE DEF h
  <2> QED BY <2>1, <2>2 DEF FreeIn
<1> HIDE DEF u1, v, k, h, s, lo
<1>x. x = <<s, lo>>
  <2>1. x = <<x[1], x[2]>>
    BY <1>1, BlockName
  <2> QED BY <1>0, <2>1
<1>2. /\ s \in Sheets /\ lo \in 0 .. DataUnits - 1 /\ bs \in MinUnits .. DataUnits
      /\ hi \in 0 .. DataUnits /\ lo < hi
      /\ \A z \in DOMAIN h : ~ (z[1] = s /\ lo < z[2] /\ z[2] < hi)
      /\ hi < DataUnits => nx \in DOMAIN h /\ h[nx] \in Headers /\ h[nx].used /\ h[nx].prev = lo
  BY <1>1, <1>x, BlockAt
<1>3. /\ hi \in Int /\ lo + MinUnits <= hi /\ hi - lo = bs /\ hi <= DataUnits /\ bs \in Int
      /\ nx # x /\ (hi = DataUnits \/ hi < DataUnits) /\ ~ (hi < hi)
  BY <1>x, <1>2, Units16, MappingAssumption
<1> HIDE DEF hi
<1>4. SameBut(u1, u, {"lists"}) /\ Listed(u1, S1, h)
  <2> HIDE DEF F
  <2>1. h[x].size \in MinUnits .. DataUnits
    BY <1>1, <1>2
  <2> QED BY <1>0, <1>1, <2>1, ListRemove
<1>5. /\ IsState(u1) /\ u1.hdr = h /\ u1.marks = UsedIn(h) /\ u1.count = u.count
      /\ u1.allocated = u.allocated
  BY <1>0, <1>1, <1>4 DEF SameBut
<1>6. /\ SameBut(v, u1, {"hdr", "marks", "allocated"})
      /\ DOMAIN k = DOMAIN h /\ k[x] = Hdr(bs, TRUE, h[x].prev)
      /\ \A y \in DOMAIN h : y # x => k[y] = h[y]
      /\ v.marks = u1.marks \union {x} /\ v.allocated = u1.allocated + bs
  <2>1. IsClaimed(u1, x, bs, v)
    BY <1>0, <1>1, <1>5, ClaimFacts
  <2> QED BY <1>0, <1>5, <2>1 DEF IsClaimed
<1>7. Recut(h, k, s, lo, hi, hi)
  <2>1. DOMAIN k = {y \in DOMAIN h : ~ (y[1] = s /\ lo < y[2] /\ y[2] < hi)}
    BY <1>2, <1>6
  <2>2. k[<<s, lo>>] = Hdr(hi - lo, TRUE, h[<<s, lo>>].prev)
    BY <1>x, <1>3, <1>6
  <2>3. hi < DataUnits => k[<<s, hi>>] = Hdr(h[<<s, hi>>].size, h[<<s, hi>>].used, lo)
    BY <1>2, <1>3, <1>6 DEF Headers, Hdr
  <2>4. \A y \in DOMAIN h : y \in DOMAIN k /\ y \notin {<<s, lo>>, <<s, hi>>} => k[y] = h[y]
    BY <1>x, <1>6
  <2> QED BY <1>x, <1>1, <1>2, <1>3, <2>1, <2>2, <2>3, <2>4 DEF Recut
<1>8. k[x].used
  BY <1>6 DEF Hdr
<1>9. FreeIn(k) = S1 /\ UsedIn(k) = UsedIn(h) \union {x}
  <2>1. {x} = Inside(h, s, lo, hi) \union {<<s, lo>>}
    BY <1>x, <1>1, <1>2 DEF Inside
  <2>2. CutUse(h, k, s, lo, hi, hi, {x})
    BY <1>1, <1>7, <2>1, RecutUse
  <2>3. UsedIn(h) \ {x} = UsedIn(h)
    BY <1>1 DEF UsedIn
  <2> QED BY <1>x, <1>3, <1>8, <2>2, <2>3 DEF CutUse
<1>10. Listed(v, FreeIn(k), k)
  <2>1. v.heads = u1.heads /\ v.sl = u1.sl /\ v.fl = u1.fl
    BY <1>6 DEF SameBut
  <2>2. \A y \in S1 : k[y].size = h[y].size
    BY <1>6 DEF FreeIn
  <2> HIDE DEF S1
  <2> QED BY <1>4, <1>9, <2>1, <2>2, ListedSame
<1>11. IsState(v) /\ v.marks = UsedIn(k) /\ v.count = u.count /\ v.allocated \in Int
  BY <1>1, <1>3, <1>5, <1>6, <1>9 DEF SameBut
<1>12. Whole(v) /\ Keeps(u, v, x)
  <2>1. /\ k[<<s, lo>>].used /\ ~ (hi < hi)
        /\ hi < DataUnits => k[IF hi < hi THEN <<s, hi>> ELSE <<s, lo>>].used \/ h[<<s, hi>>].used
    BY <1>x, <1>2, <1>3, <1>8
  <2>2. h = u.hdr /\ k = v.hdr
    BY <1>0
  <2>3. UsedIn(k) \ {x} = UsedIn(h) \ {x} /\ (x = <<s, lo>> \/ ~ k[<<s, lo>>].used)
    BY <1>x, <1>9
  <2> QED BY <1>7, <1>10, <1>11, <2>1, <2>2, <2>3, Outcome
<1>13. Uses(v, x, bs)
  <2>1. x \in UsedIn(k)
    BY <1>9
  <2>2. k[x].size = bs
    BY <1>6 DEF Hdr
  <2>3. k = v.hdr
    BY <1>0
  <2> QED BY <2>1, <2>2, <2>3 DEF Uses
<1> QED BY <1>12, <1>13 DEF v, u1

LEMMA AllocateWhole ==
  ASSUME NEW u, Whole(u), NEW n \in Nat, Fit(u, n) # NullOff
  PROVE  LET x == Fit(u, n)
             v == Allocate(u, n)
         IN  /\ x \in FreeIn(u.hdr) /\ n + 1 \in MinUnits .. DataUnits
             /\ Whole(v) /\ Keeps(u, v, x) /\ \E size \in n + 1 .. n + 2 : Uses(v, x, size)
<1> DEFINE x == Fit(u, n)
           bs == u.hdr[x].size
<1>1. /\ x \in FreeIn(u.hdr) /\ Adjusted(n) = n + 1 /\ n + 1 \in MinUnits .. DataUnits
  BY FitListed DEF Whole
<1>2. Allocate(u, n) = TakeFrom(u, x, bs, n + 1)
  BY <1>1, Zenon DEF Allocate, TakeAt
<1>3. bs >= n + 1 /\ bs \in Int
  <2>1. Linked(u.hdr) /\ Listed(u, FreeIn(u.hdr), u.hdr)
    BY DEF Whole
  <2>2. u.hdr[x] \in Headers
    BY <1>1, <2>1 DEF Linked, FreeIn
  <2> QED BY <2>1, <2>2, FitLarge, Units16, MappingAssumption DEF Headers
<1> DEFINE v == Allocate(u, n)
<1> HIDE DEF x, bs, v
<1>4. CASE bs - (n + 1) >= MinUnits
  <2>1. v = Claim(SplitRest(RemoveFree(u, x, bs), x, bs, n + 1), x, n + 1)
    BY <1>2, <1>4, Zenon DEF TakeFrom, v
  <2>2. Whole(v) /\ Keeps(u, v, x) /\ Uses(v, x, n + 1)
    BY <1>1, <1>4, <2>1, AllocateSplit DEF bs
  <2> QED BY <1>1, <2>2 DEF v, x
<1>5. CASE ~ (bs - (n + 1) >= MinUnits)
  <2>1. v = Claim(RemoveFree(u, x, bs), x, bs)
    BY <1>2, <1>5, Zenon DEF TakeFrom, v
  <2>2. Whole(v) /\ Keeps(u, v, x) /\ Uses(v, x, bs)
    BY <1>1, <2>1, AllocateAll DEF bs
  <2>3. bs \in n + 1 .. n + 2
    BY <1>3, <1>5, Units16
  <2> QED BY <1>1, <2>2, <2>3 DEF v, x
<1> QED BY <1>4, <1>5

(***************************************************************************)
(* shrink and grow                                                         *)
(***************************************************************************)
Sound(u) ==
  /\ IsState(u) /\ Linked(u.hdr) /\ Apart(u.hdr) /\ Listed(u, FreeIn(u.hdr), u.hdr)

(* What is left of h when the block x of it takes in its neighbour, N the
   set that holds the neighbour if it was free, hi the end they reach. *)
IsWidened(u, x, N, a) ==
  LET h  == u.hdr
      hi == x[2] + (h[x].size + a.size)
      nx == <<x[1], hi>>
  IN  /\ SameBut(a.t, u, {"hdr", "lists"}) /\ Listed(a.t, FreeIn(h) \ N, h)
      /\ N \subseteq FreeIn(h) /\ x \notin N
      /\ DOMAIN a.t.hdr = DOMAIN h \ N /\ \A y \in DOMAIN h \ N : a.t.hdr[y] = h[y]
      /\ N = Inside(h, x[1], x[2], hi)
      /\ hi \in 0 .. DataUnits /\ h[x].size + a.size \in MinUnits .. DataUnits
      /\ a.size \in Nat
      /\ hi < DataUnits => nx \in DOMAIN h \ N /\ h[nx] \in Headers /\ h[nx].used
      /\ nx \in DOMAIN h => hi < DataUnits

LEMMA Widen ==
  ASSUME NEW u, Sound(u), NEW x \in UsedIn(u.hdr)
  PROVE  \E N : IsWidened(u, x, N, Absorbed(u, NextTo(x, u.hdr[x].size)))
<1> DEFINE h  == u.hdr
           F  == FreeIn(h)
           s  == x[1]
           lo == x[2]
           bs == h[x].size
           e  == lo + bs
           y  == <<s, e>>
           a  == Absorbed(u, y)
           hi == lo + (bs + a.size)
           nx == <<s, hi>>
<1>0. h = u.hdr /\ s = x[1] /\ lo = x[2] /\ a = Absorbed(u, y)
  OBVIOUS
<1>1. /\ IsState(u) /\ Linked(h) /\ Apart(h) /\ Listed(u, F, h) /\ x \in DOMAIN h /\ h[x].used
  <2>1. IsState(u) /\ Linked(h) /\ Apart(h) /\ Listed(u, F, h)
    BY DEF Sound
  <2>2. x \in UsedIn(h)
    OBVIOUS
  <2> HIDE DEF h
  <2> QED BY <2>1, <2>2 DEF UsedIn
<1> HIDE DEF h, s, lo, a
<1>x. x = <<s, lo>>
  <2>1. x = <<x[1], x[2]>>
    BY <1>1, BlockName
  <2> QED BY <1>0, <2>1
<1>2. /\ s \in Sheets /\ lo \in 0 .. DataUnits - 1 /\ bs \in MinUnits .. DataUnits
      /\ e \in 0 .. DataUnits /\ lo < e /\ NextTo(x, bs) = y /\ EndOf(h, x) = e
      /\ \A z \in DOMAIN h : ~ (z[1] = s /\ lo < z[2] /\ z[2] < e)
      /\ e < DataUnits => y \in DOMAIN h /\ h[y] \in Headers
      /\ y \in DOMAIN h => e < DataUnits
  BY <1>1, <1>x, BlockAt
<1>3. DataUnits \in Nat /\ lo \in Int /\ bs \in Int /\ e \in Int /\ MinUnits = 2
      /\ (e = DataUnits \/ e < DataUnits) /\ y[1] = s /\ y[2] = e /\ e # -1
  BY <1>2, Units16, MappingAssumption
<1> HIDE DEF bs, e
<1>4. Absorbable(u, F, h, y)
  <2>1. y \in F => y[2] \notin {-1, DataUnits} /\ ~ h[y].used /\ h[y].size \in MinUnits .. DataUnits
    BY <1>2, <1>3 DEF FreeIn, Headers
  <2>2. y \notin F => y[2] \in {-1, DataUnits} \/ h[y].used
    BY <1>2, <1>3 DEF FreeIn
  <2> HIDE DEF y, F
  <2> QED BY <1>0, <1>1, <2>1, <2>2 DEF Absorbable
<1>5. IsAbsorbed(u, F, h, y, a)
  BY <1>0, <1>4, Absorb
<1>6. CASE y \in F
  <2> DEFINE N == {y}
  <2>1. /\ SameBut(a.t, u, {"hdr", "lists"}) /\ Listed(a.t, F \ N, h)
        /\ DOMAIN a.t.hdr = DOMAIN h \ N /\ \A z \in DOMAIN h \ N : a.t.hdr[z] = h[z]
        /\ a.size = h[y].size
    BY <1>0, <1>5, <1>6 DEF IsAbsorbed
  <2>2. y \in DOMAIN h /\ ~ h[y].used /\ x # y
    BY <1>1, <1>6 DEF FreeIn
  <2>3. /\ hi \in 0 .. DataUnits /\ EndOf(h, y) = hi /\ h[y].size \in MinUnits .. DataUnits
        /\ hi < DataUnits => nx \in DOMAIN h /\ h[nx] \in Headers /\ h[nx].used
        /\ nx \in DOMAIN h => hi < DataUnits
    <3>1. hi = e + h[y].size
      <4>1. h[y].size \in Int
        BY <1>2, <1>3, <2>2 DEF Headers
      <4> QED BY <1>3, <2>1, <4>1 DEF e
    <3> HIDE DEF hi
    <3> QED BY <1>1, <2>2, <3>1, BlockAt
  <2>4. Inside(h, s, lo, hi) = N
    <3>1. Inside(h, x[1], x[2], EndOf(h, y)) = {y}
      <4>1. y[1] = x[1] /\ y[2] = EndOf(h, x)
        BY <1>0, <1>2, <1>3
      <4> HIDE DEF y
      <4> QED BY <1>1, <2>2, <4>1, Following, Zenon
    <3> QED BY <1>0, <2>3, <3>1
  <2>5. hi = e + h[y].size /\ bs + a.size = hi - lo
    BY <1>3, <2>1, <2>3 DEF e, Headers
  <2>6. bs + a.size \in MinUnits .. DataUnits /\ nx # y /\ e < hi
    BY <1>2, <1>3, <2>3, <2>5
  <2>7. N \subseteq F /\ x \notin N /\ a.size \in Nat
    BY <1>3, <1>6, <2>1, <2>2, <2>3
  <2>8. IsWidened(u, x, N, a)
    BY <1>0, <2>1, <2>3, <2>4, <2>6, <2>7 DEF IsWidened, bs
  <2> QED BY <1>0, <1>2, <2>8 DEF bs
<1>7. CASE y \notin F
  <2>1. /\ SameBut(a.t, u, {"hdr", "lists"}) /\ Listed(a.t, F \ {}, h)
        /\ DOMAIN a.t.hdr = DOMAIN h \ {} /\ \A z \in DOMAIN h \ {} : a.t.hdr[z] = h[z]
        /\ a.size = 0
    <3>1. F \ {y} = F \ {} /\ DOMAIN h \ {} = DOMAIN h
      BY <1>7
    <3> HIDE DEF F
    <3> QED BY <1>0, <1>5, <1>7, <3>1 DEF IsAbsorbed
  <2>2. hi = e /\ nx = y /\ bs + a.size = bs
    BY <1>3, <2>1 DEF e
  <2>3. Inside(h, s, lo, hi) = {}
    BY <1>2, <2>2 DEF Inside
  <2>4. y \in DOMAIN h => h[y].used
    BY <1>7 DEF FreeIn
  <2>5. IsWidened(u, x, {}, a)
    BY <1>0, <1>2, <2>1, <2>2, <2>3, <2>4 DEF IsWidened, bs
  <2> QED BY <1>0, <1>2, <2>5 DEF bs
<1> QED BY <1>6, <1>7

LEMMA ResizedFacts ==
  ASSUME NEW g, NEW x \in DOMAIN g, g[x] \in Headers, NEW size
  PROVE  LET f == Resized(g, x, size)
         IN  /\ DOMAIN f = DOMAIN g /\ f[x] = Hdr(size, g[x].used, g[x].prev)
             /\ \A y \in DOMAIN g : y # x => f[y] = g[y]
<1> DEFINE f == Resized(g, x, size)
<1>1. f = [g EXCEPT ![x].size = size]
  BY Zenon DEF Resized
<1> HIDE DEF f
<1>2. DOMAIN f = DOMAIN g /\ \A y \in DOMAIN g : y # x => f[y] = g[y]
  BY <1>1
<1>3. f[x] = Hdr(size, g[x].used, g[x].prev)
  BY <1>1 DEF Headers, Hdr
<1> QED BY <1>2, <1>3 DEF f

(* The state w from which MoveEnd goes on, x resized in it. *)
IsMoved(u, x, N, take, w) ==
  /\ IsState(w) /\ DOMAIN w.hdr = DOMAIN u.hdr \ N /\ x \in DOMAIN w.hdr
  /\ w.hdr[x] = Hdr(take, u.hdr[x].used, u.hdr[x].prev)
  /\ \A y \in DOMAIN w.hdr : y # x => w.hdr[y] = u.hdr[y]
  /\ Listed(w, FreeIn(u.hdr) \ N, w.hdr)
  /\ w.marks = u.marks /\ w.count = u.count /\ w.allocated \in Int

LEMMA Moved ==
  ASSUME NEW u, Whole(u), NEW x \in UsedIn(u.hdr), NEW N, NEW a, IsWidened(u, x, N, a),
         NEW take \in Int
  PROVE  IsMoved(u, x, N, take,
           [a.t EXCEPT !.hdr = Resized(@, x, take), !.allocated = @ + (take - a.t.hdr[x].size)])
<1> DEFINE h  == u.hdr
           F  == FreeIn(h)
           S  == F \ N
           u1 == a.t
           g  == Resized(u1.hdr, x, take)
           al == u1.allocated + (take - u1.hdr[x].size)
           w  == [u1 EXCEPT !.hdr = g, !.allocated = al]
<1>0. h = u.hdr /\ g = Resized(u1.hdr, x, take) /\ u1 = a.t /\ al = u1.allocated + (take - u1.hdr[x].size)
  OBVIOUS
<1>1. /\ IsState(u) /\ Linked(h) /\ u.allocated \in Int /\ x \in DOMAIN h /\ h[x].used
  <2>1. IsState(u) /\ Linked(h) /\ u.allocated \in Int
    BY DEF Whole
  <2>2. x \in UsedIn(h)
    OBVIOUS
  <2> HIDE DEF h
  <2> QED BY <2>1, <2>2 DEF UsedIn
<1>w. w = [u1 EXCEPT !.hdr = g, !.allocated = al]
  BY Zenon
<1>2. /\ SameBut(u1, u, {"hdr", "lists"}) /\ Listed(u1, S, h) /\ x \notin N
      /\ DOMAIN u1.hdr = DOMAIN h \ N /\ \A z \in DOMAIN h \ N : u1.hdr[z] = h[z]
  BY DEF IsWidened
<1> HIDE DEF h, g, al, u1, w
<1>3. x \in DOMAIN u1.hdr /\ u1.hdr[x] = h[x] /\ h[x] \in Headers /\ h[x].size \in Int
  <2>1. h[x] \in Headers
    BY <1>1 DEF Linked
  <2> QED BY <1>1, <1>2, <2>1, MappingAssumption, Units16 DEF Headers
<1>4. /\ DOMAIN g = DOMAIN h \ N /\ g[x] = Hdr(take, h[x].used, h[x].prev)
      /\ \A y \in DOMAIN h \ N : y # x => g[y] = h[y]
  <2>1. u1.hdr[x] \in Headers /\ x \in DOMAIN u1.hdr /\ g = Resized(u1.hdr, x, take)
    BY <1>0, <1>3
  <2>2. /\ DOMAIN g = DOMAIN u1.hdr /\ g[x] = Hdr(take, u1.hdr[x].used, u1.hdr[x].prev)
        /\ \A y \in DOMAIN u1.hdr : y # x => g[y] = u1.hdr[y]
    BY <2>1, ResizedFacts
  <2>3. \A y \in DOMAIN h \ N : y # x => g[y] = h[y]
    BY <1>2, <2>2
  <2>4. DOMAIN g = DOMAIN h \ N
    BY <1>2, <2>2
  <2> QED BY <1>3, <2>2, <2>3, <2>4
<1>5. SameBut(w, u1, {"hdr", "allocated"}) /\ w.hdr = g /\ w.allocated = al
  <2>1. IsState(u1)
    BY <1>2 DEF SameBut
  <2> QED BY <1>w, <2>1 DEF IsState, SameBut
<1>6. IsState(w) /\ w.marks = u.marks /\ w.count = u.count
  BY <1>2, <1>5 DEF SameBut
<1>7. w.allocated \in Int
  <2>1. u1.allocated = u.allocated
    BY <1>2 DEF SameBut
  <2> QED BY <1>0, <1>1, <1>3, <1>5, <2>1
<1>8. Listed(w, S, g)
  <2>1. \A y \in S : g[y].size = h[y].size
    BY <1>1, <1>4 DEF FreeIn
  <2>2. w.heads = u1.heads /\ w.sl = u1.sl /\ w.fl = u1.fl
    BY <1>5 DEF SameBut
  <2> HIDE DEF S
  <2> QED BY <1>2, <2>1, <2>2, ListedSame
<1>9. x \in DOMAIN g
  BY <1>1, <1>2, <1>4
<1>10. IsMoved(u, x, N, take, w)
  BY <1>0, <1>4, <1>5, <1>6, <1>7, <1>8, <1>9 DEF IsMoved
<1> QED BY <1>10 DEF w, g, al, u1

LEMMA MoveSplit ==
  ASSUME NEW u, Whole(u), NEW x \in UsedIn(u.hdr), NEW N, NEW a, IsWidened(u, x, N, a),
         NEW take \in Int, take >= MinUnits, NEW span, span = u.hdr[x].size + a.size,
         span - take >= MinUnits, NEW w, IsMoved(u, x, N, take, w)
  PROVE  LET v == SplitRest(w, x, span, take)
         IN  Whole(v) /\ Keeps(u, v, x) /\ Uses(v, x, take)
<1> DEFINE h    == u.hdr
           F    == FreeIn(h)
           s    == x[1]
           lo   == x[2]
           hi   == lo + span
           mid  == lo + take
           nx   == <<s, hi>>
           rem  == <<s, mid>>
           size == span - take
           S1   == F \ N
           S2   == S1 \union {rem}
           g    == w.hdr
           v    == SplitRest(w, x, span, take)
           k    == v.hdr
<1>0. v = SplitRest(w, x, span, take) /\ g = w.hdr /\ k = v.hdr /\ h = u.hdr /\ s = x[1] /\ lo = x[2]
  OBVIOUS
<1>1. /\ IsState(u) /\ Linked(h) /\ Apart(h) /\ Listed(u, F, h) /\ u.marks = UsedIn(h)
      /\ x \in DOMAIN h /\ h[x].used
  <2>1. IsState(u) /\ Linked(h) /\ Apart(h) /\ Listed(u, F, h) /\ u.marks = UsedIn(h)
    BY DEF Whole
  <2>2. x \in UsedIn(h)
    OBVIOUS
  <2> HIDE DEF h
  <2> QED BY <2>1, <2>2 DEF UsedIn
<1>2. /\ N \subseteq F /\ x \notin N /\ N = Inside(h, s, lo, hi)
      /\ hi \in 0 .. DataUnits /\ span \in MinUnits .. DataUnits
      /\ hi < DataUnits => nx \in DOMAIN h \ N /\ h[nx] \in Headers /\ h[nx].used
      /\ nx \in DOMAIN h => hi < DataUnits
  BY DEF IsWidened
<1>3. /\ IsState(w) /\ DOMAIN g = DOMAIN h \ N /\ x \in DOMAIN g
      /\ g[x] = Hdr(take, h[x].used, h[x].prev)
      /\ \A y \in DOMAIN g : y # x => g[y] = h[y]
      /\ Listed(w, S1, g) /\ w.marks = UsedIn(h) /\ w.count = u.count /\ w.allocated \in Int
  BY <1>1 DEF IsMoved
<1>4. lo \in 0 .. DataUnits - 1 /\ s \in Sheets /\ h[x].size \in MinUnits .. DataUnits
  <2>1. x \in Places /\ h[x] \in Headers
    BY <1>1 DEF Linked
  <2> QED BY <2>1 DEF Places, Headers
<1> HIDE DEF v, k, g, h, s, lo
<1>x. x = <<s, lo>>
  <2>1. x = <<x[1], x[2]>>
    BY <1>1, BlockName
  <2> QED BY <1>0, <2>1
<1>5. /\ mid \in Int /\ hi \in Int /\ lo + MinUnits <= mid /\ mid + MinUnits <= hi /\ mid < hi /\ lo < mid
      /\ rem \in Places /\ size \in MinUnits .. DataUnits
      /\ NextTo(x, take) = rem /\ NextTo(x, span) = nx /\ hi - mid = size /\ mid - lo = take
      /\ hi <= DataUnits /\ rem # x /\ rem # nx /\ nx # x /\ (hi = DataUnits \/ hi < DataUnits)
  BY <1>x, <1>2, <1>4, Units16, MappingAssumption DEF Places, NextTo
<1> HIDE DEF mid, size, hi
<1>6. rem \notin DOMAIN g
  <2>1. rem \in DOMAIN h => rem \in N
    BY <1>2, <1>5 DEF Inside
  <2> QED BY <1>3, <2>1
<1>7. SameBut(v, w, {"hdr", "lists"}) /\ SplitOff(g, k, nx, rem, size, lo) /\ Listed(v, S2, k)
  <2>1. S1 \subseteq DOMAIN g /\ rem \notin S1 /\ (nx[2] = DataUnits => nx \notin S1)
        /\ (nx[2] # DataUnits => nx \in DOMAIN g /\ g[nx] \in Headers) /\ lo = x[2] /\ size = span - take
    BY <1>0, <1>2, <1>3, <1>5, <1>6 DEF FreeIn, size
  <2> HIDE DEF nx, rem, S1
  <2>2. Splittable(w, S1, x, span, take)
    BY <1>0, <1>3, <1>5, <2>1 DEF Splittable, size
  <2>3. IsSplit(w, S1, x, span, take, v)
    BY <1>0, <2>2, SplitRestFacts
  <2> QED BY <1>0, <1>5, <2>1, <2>3 DEF IsSplit
<1>8. /\ DOMAIN k = (DOMAIN h \ N) \union {rem} /\ k[rem] = Hdr(size, FALSE, lo)
      /\ hi < DataUnits => k[nx] = Hdr(h[nx].size, h[nx].used, mid)
      /\ k[x] = Hdr(take, h[x].used, h[x].prev)
      /\ \A y \in DOMAIN h \ N : y # nx /\ y # x => k[y] = h[y]
  <2>1. DOMAIN k = (DOMAIN h \ N) \union {rem} /\ k[rem] = Hdr(size, FALSE, lo)
    BY <1>3, <1>7 DEF SplitOff
  <2>2. hi < DataUnits => k[nx] = Hdr(g[nx].size, g[nx].used, mid)
    BY <1>5, <1>7 DEF SplitOff
  <2>3. \A y \in DOMAIN g : y # nx => k[y] = g[y]
    BY <1>6, <1>7 DEF SplitOff
  <2> QED BY <1>2, <1>3, <1>5, <2>1, <2>2, <2>3
<1>9. Recut(h, k, s, lo, mid, hi)
  <2>1. DOMAIN k = {y \in DOMAIN h : ~ (y[1] = s /\ lo < y[2] /\ y[2] < hi)} \union {<<s, mid>>}
    BY <1>2, <1>8 DEF Inside
  <2>2. k[<<s, lo>>] = Hdr(mid - lo, TRUE, h[<<s, lo>>].prev)
    <3>1. h[x].used = TRUE
      BY <1>1 DEF Linked, Headers
    <3> QED BY <1>x, <1>5, <1>8, <3>1
  <2>3. k[<<s, mid>>] = Hdr(hi - mid, FALSE, lo)
    BY <1>5, <1>8
  <2>4. hi < DataUnits => k[<<s, hi>>] = Hdr(h[<<s, hi>>].size, h[<<s, hi>>].used, mid)
    BY <1>8
  <2>5. \A y \in DOMAIN h : y \in DOMAIN k /\ y \notin {<<s, lo>>, <<s, mid>>, <<s, hi>>} => k[y] = h[y]
    BY <1>x, <1>8
  <2>6. <<s, lo>> \in DOMAIN h /\ (hi = DataUnits \/ <<s, hi>> \in DOMAIN h)
    BY <1>x, <1>1, <1>2, <1>5
  <2> QED BY <1>5, <2>1, <2>2, <2>3, <2>4, <2>5, <2>6 DEF Recut
<1>10. k[x].used /\ ~ k[rem].used
  BY <1>1, <1>8 DEF Hdr
<1>11. FreeIn(k) = S2 /\ UsedIn(k) = UsedIn(h)
  <2>1. CutUse(h, k, s, lo, mid, hi, N \union {x})
    <3>1. N \union {x} = Inside(h, s, lo, hi) \union {<<s, lo>>}
      BY <1>x, <1>2
    <3> QED BY <1>1, <1>9, <3>1, RecutUse
  <2>2. /\ (UsedIn(h) \ (N \union {x})) \union {x} = UsedIn(h)
        /\ F \ (N \union {x}) = S1
    BY <1>1, <1>2 DEF UsedIn, FreeIn
  <2> QED BY <1>x, <1>5, <1>10, <2>1, <2>2 DEF CutUse
<1>12. IsState(v) /\ v.marks = UsedIn(k) /\ v.count = u.count /\ v.allocated \in Int
  BY <1>3, <1>7, <1>11 DEF SameBut
<1>13. Whole(v) /\ Keeps(u, v, x)
  <2>1. /\ k[<<s, lo>>].used
        /\ hi < DataUnits => k[IF mid < hi THEN <<s, mid>> ELSE <<s, lo>>].used \/ h[<<s, hi>>].used
    BY <1>x, <1>2, <1>10
  <2>2. h = u.hdr /\ k = v.hdr
    BY <1>0
  <2>3. Listed(v, FreeIn(k), k)
    BY <1>7, <1>11
  <2>4. UsedIn(k) \ {x} = UsedIn(h) \ {x} /\ (x = <<s, lo>> \/ ~ k[<<s, lo>>].used) /\ (mid < hi => ~ k[<<s, mid>>].used)
    BY <1>x, <1>10, <1>11
  <2> QED BY <1>9, <1>12, <2>1, <2>2, <2>3, <2>4, Outcome
<1>14. Uses(v, x, take)
  <2>0. x \in UsedIn(h)
    BY <1>1 DEF UsedIn
  <2>1. x \in UsedIn(k)
    BY <1>11, <2>0
  <2>2. k[x].size = take
    BY <1>8 DEF Hdr
  <2>3. k = v.hdr
    BY <1>0
  <2> QED BY <2>1, <2>2, <2>3 DEF Uses
<1> QED BY <1>13, <1>14 DEF v

LEMMA MoveAll ==
  ASSUME NEW u, Whole(u), NEW x \in UsedIn(u.hdr), NEW N, NEW a, IsWidened(u, x, N, a),
         NEW span, span = u.hdr[x].size + a.size, NEW w, IsMoved(u, x, N, span, w)
  PROVE  LET v == [w EXCEPT !.hdr = SetPrev(@, NextTo(x, span), x[2])]
         IN  Whole(v) /\ Keeps(u, v, x) /\ Uses(v, x, span)
<1> DEFINE h    == u.hdr
           F    == FreeIn(h)
           s    == x[1]
           lo   == x[2]
           hi   == lo + span
           nx   == <<s, hi>>
           S1   == F \ N
           g    == w.hdr
           k    == SetPrev(g, NextTo(x, span), lo)
           v    == [w EXCEPT !.hdr = k]
<1>0. g = w.hdr /\ k = SetPrev(g, NextTo(x, span), lo) /\ h = u.hdr /\ s = x[1] /\ lo = x[2]
  OBVIOUS
<1>1. /\ IsState(u) /\ Linked(h) /\ Apart(h) /\ Listed(u, F, h) /\ u.marks = UsedIn(h)
      /\ x \in DOMAIN h /\ h[x].used
  <2>1. IsState(u) /\ Linked(h) /\ Apart(h) /\ Listed(u, F, h) /\ u.marks = UsedIn(h)
    BY DEF Whole
  <2>2. x \in UsedIn(h)
    OBVIOUS
  <2> HIDE DEF h
  <2> QED BY <2>1, <2>2 DEF UsedIn
<1>2. /\ N \subseteq F /\ x \notin N /\ N = Inside(h, s, lo, hi)
      /\ hi \in 0 .. DataUnits /\ span \in MinUnits .. DataUnits
      /\ hi < DataUnits => nx \in DOMAIN h \ N /\ h[nx] \in Headers /\ h[nx].used
      /\ nx \in DOMAIN h => hi < DataUnits
  BY DEF IsWidened
<1>3. /\ IsState(w) /\ DOMAIN g = DOMAIN h \ N /\ x \in DOMAIN g
      /\ g[x] = Hdr(span, h[x].used, h[x].prev)
      /\ \A y \in DOMAIN g : y # x => g[y] = h[y]
      /\ Listed(w, S1, g) /\ w.marks = UsedIn(h) /\ w.count = u.count /\ w.allocated \in Int
  BY <1>1 DEF IsMoved
<1>4. lo \in 0 .. DataUnits - 1 /\ s \in Sheets
  <2>1. x \in Places
    BY <1>1 DEF Linked
  <2> QED BY <2>1 DEF Places
<1>v. v = [w EXCEPT !.hdr = k]
  BY Zenon
<1> HIDE DEF v, k, g, h, s, lo
<1>x. x = <<s, lo>>
  <2>1. x = <<x[1], x[2]>>
    BY <1>1, BlockName
  <2> QED BY <1>0, <2>1
<1>5. /\ hi \in Int /\ lo + MinUnits <= hi /\ lo < hi /\ NextTo(x, span) = nx /\ hi - lo = span
      /\ hi <= DataUnits /\ nx # x /\ (hi = DataUnits \/ hi < DataUnits) /\ ~ (hi < hi)
  BY <1>x, <1>2, <1>4, Units16, MappingAssumption DEF NextTo
<1> HIDE DEF hi
<1>6. SameBut(v, w, {"hdr"}) /\ v.hdr = k
  BY <1>3, <1>v DEF IsState, SameBut
<1>7. /\ DOMAIN k = DOMAIN g /\ \A y \in DOMAIN g : y # nx => k[y] = g[y]
      /\ hi < DataUnits => k[nx] = Hdr(g[nx].size, g[nx].used, lo)
  <2>1. nx[2] # DataUnits => nx \in DOMAIN g /\ g[nx] \in Headers
    BY <1>2, <1>3, <1>5
  <2>2. hi < DataUnits => nx[2] # DataUnits
    BY <1>5
  <2>3. k = SetPrev(g, nx, lo)
    BY <1>0, <1>5
  <2> HIDE DEF nx
  <2> QED BY <2>1, <2>2, <2>3, SetPrevFacts
<1>8. /\ DOMAIN k = DOMAIN h \ N /\ k[x] = Hdr(span, h[x].used, h[x].prev)
      /\ hi < DataUnits => k[nx] = Hdr(h[nx].size, h[nx].used, lo)
      /\ \A y \in DOMAIN h \ N : y # nx /\ y # x => k[y] = h[y]
  BY <1>2, <1>3, <1>5, <1>7
<1>9. Recut(h, k, s, lo, hi, hi)
  <2>1. DOMAIN k = {y \in DOMAIN h : ~ (y[1] = s /\ lo < y[2] /\ y[2] < hi)}
    BY <1>2, <1>8 DEF Inside
  <2>2. k[<<s, lo>>] = Hdr(hi - lo, TRUE, h[<<s, lo>>].prev)
    <3>1. h[x].used = TRUE
      BY <1>1 DEF Linked, Headers
    <3> QED BY <1>x, <1>5, <1>8, <3>1
  <2>3. hi < DataUnits => k[<<s, hi>>] = Hdr(h[<<s, hi>>].size, h[<<s, hi>>].used, lo)
    BY <1>8
  <2>4. \A y \in DOMAIN h : y \in DOMAIN k /\ y \notin {<<s, lo>>, <<s, hi>>} => k[y] = h[y]
    BY <1>x, <1>8
  <2>5. <<s, lo>> \in DOMAIN h /\ (hi = DataUnits \/ <<s, hi>> \in DOMAIN h)
    BY <1>x, <1>1, <1>2, <1>5
  <2> QED BY <1>5, <2>1, <2>2, <2>3, <2>4, <2>5 DEF Recut
<1>10. k[x].used
  BY <1>1, <1>8 DEF Hdr
<1>11. FreeIn(k) = S1 /\ UsedIn(k) = UsedIn(h)
  <2>1. CutUse(h, k, s, lo, hi, hi, N \union {x})
    <3>1. N \union {x} = Inside(h, s, lo, hi) \union {<<s, lo>>}
      BY <1>x, <1>2
    <3> QED BY <1>1, <1>9, <3>1, RecutUse
  <2>2. /\ (UsedIn(h) \ (N \union {x})) \union {x} = UsedIn(h)
        /\ F \ (N \union {x}) = S1
    BY <1>1, <1>2 DEF UsedIn, FreeIn
  <2> QED BY <1>x, <1>5, <1>10, <2>1, <2>2 DEF CutUse
<1>12. IsState(v) /\ v.marks = UsedIn(k) /\ v.count = u.count /\ v.allocated \in Int
  BY <1>3, <1>6, <1>11 DEF SameBut
<1>13. Listed(v, FreeIn(k), k)
  <2>1. \A y \in S1 : k[y].size = g[y].size
    <3>1. \A y \in S1 : y # nx /\ y \in DOMAIN g
      BY <1>2, <1>3 DEF FreeIn
    <3> QED BY <1>7, <3>1
  <2>2. v.heads = w.heads /\ v.sl = w.sl /\ v.fl = w.fl
    BY <1>6 DEF SameBut
  <2> HIDE DEF S1
  <2> QED BY <1>3, <1>11, <2>1, <2>2, ListedSame
<1>14. Whole(v) /\ Keeps(u, v, x)
  <2>1. /\ k[<<s, lo>>].used /\ ~ (hi < hi)
        /\ hi < DataUnits => k[IF hi < hi THEN <<s, hi>> ELSE <<s, lo>>].used \/ h[<<s, hi>>].used
    BY <1>x, <1>2, <1>5, <1>10
  <2>2. h = u.hdr /\ k = v.hdr
    BY <1>0, <1>6
  <2>3. UsedIn(k) \ {x} = UsedIn(h) \ {x} /\ (x = <<s, lo>> \/ ~ k[<<s, lo>>].used)
    BY <1>x, <1>11
  <2> QED BY <1>9, <1>12, <1>13, <2>1, <2>2, <2>3, Outcome
<1>15. Uses(v, x, span)
  <2>0. x \in UsedIn(h)
    BY <1>1 DEF UsedIn
  <2>1. x \in UsedIn(k)
    BY <1>11, <2>0
  <2>2. k[x].size = span
    BY <1>6, <1>8 DEF Hdr
  <2>3. k = v.hdr
    BY <1>0, <1>6
  <2> QED BY <2>1, <2>2, <2>3 DEF Uses
<1> QED BY <1>14, <1>15, Zenon DEF v, k, g, lo

LEMMA MoveEndWhole ==
  ASSUME NEW u, Whole(u), NEW x \in UsedIn(u.hdr), NEW N, NEW a, IsWidened(u, x, N, a),
         NEW take \in Int, take >= MinUnits, NEW span, span = u.hdr[x].size + a.size,
         take = span \/ span - take >= MinUnits
  PROVE  LET v == MoveEnd(a.t, x, span, take)
         IN  Whole(v) /\ Keeps(u, v, x) /\ Uses(v, x, take)
<1> DEFINE w == [a.t EXCEPT !.hdr = Resized(@, x, take), !.allocated = @ + (take - a.t.hdr[x].size)]
<1>1. IsMoved(u, x, N, take, w)
  BY Moved
<1>2. MoveEnd(a.t, x, span, take) =
        IF take = span THEN [w EXCEPT !.hdr = SetPrev(@, NextTo(x, span), x[2])]
        ELSE SplitRest(w, x, span, take)
  BY Zenon DEF MoveEnd
<1> HIDE DEF w
<1>3. CASE take = span
  <2> DEFINE v == [w EXCEPT !.hdr = SetPrev(@, NextTo(x, span), x[2])]
  <2>1. Whole(v) /\ Keeps(u, v, x) /\ Uses(v, x, span)
    BY <1>1, <1>3, MoveAll
  <2>2. MoveEnd(a.t, x, span, take) = v
    BY <1>2, <1>3, Zenon
  <2> HIDE DEF v
  <2> QED BY <1>3, <2>1, <2>2, Zenon
<1>4. CASE take # span
  <2> DEFINE v == SplitRest(w, x, span, take)
  <2>1. Whole(v) /\ Keeps(u, v, x) /\ Uses(v, x, take)
    BY <1>1, <1>4, MoveSplit
  <2>2. MoveEnd(a.t, x, span, take) = v
    BY <1>2, <1>4, Zenon
  <2> HIDE DEF v
  <2> QED BY <2>1, <2>2, Zenon
<1> QED BY <1>3, <1>4

LEMMA WholeSound ==
  ASSUME NEW u, Whole(u)
  PROVE  Sound(u)
BY DEF Whole, Sound

LEMMA Granted ==
  ASSUME NEW n \in Nat, Adjusted(n) # 0
  PROVE  Adjusted(n) \in Int /\ Adjusted(n) >= MinUnits
BY Units16, MappingAssumption DEF Adjusted

LEMMA GrantedUnits ==
  ASSUME NEW n \in Nat, Adjusted(n) # 0
  PROVE  Adjusted(n) = n + 1 /\ n >= 1
BY DEF Adjusted

LEMMA ShrinkWhole ==
  ASSUME NEW u, Whole(u), NEW x \in UsedIn(u.hdr), NEW n \in Nat, CanShrink(u, x, n)
  PROVE  LET v == Shrink(u, x, n)
         IN  /\ Whole(v) /\ Keeps(u, v, x)
             /\ v = u \/ (Uses(v, x, n + 1) /\ n >= 1 /\ n + 3 <= u.hdr[x].size)
<1> DEFINE bs   == u.hdr[x].size
           a    == Absorbed(u, NextTo(x, bs))
           take == Adjusted(n)
           span == bs + a.size
<1>1. CASE bs - take < MinUnits
  <2>1. Shrink(u, x, n) = u
    BY <1>1, Zenon DEF Shrink
  <2> QED BY <2>1 DEF Keeps
<1>2. CASE ~ (bs - take < MinUnits)
  <2> DEFINE v == Shrink(u, x, n)
  <2>1. v = MoveEnd(a.t, x, span, take)
    BY <1>2, Zenon DEF Shrink
  <2>2. take \in Int /\ take >= MinUnits
    BY Granted DEF CanShrink
  <2>3. PICK N : IsWidened(u, x, N, a)
    BY WholeSound, Widen
  <2>4. bs \in Int
    <3>1. x \in DOMAIN u.hdr /\ Linked(u.hdr)
      BY DEF Whole, UsedIn
    <3>2. u.hdr[x] \in Headers
      BY <3>1 DEF Linked
    <3> QED BY <3>2, MappingAssumption, Units16 DEF Headers
  <2>5. a.size \in Nat
    BY <2>3 DEF IsWidened
  <2> HIDE DEF take, a, v
  <2>6. span - take >= MinUnits
    BY <1>2, <2>2, <2>4, <2>5, Units16
  <2>7. Whole(v) /\ Keeps(u, v, x) /\ Uses(v, x, take)
    BY <2>1, <2>2, <2>3, <2>6, MoveEndWhole
  <2>8. take = n + 1 /\ n >= 1
    BY GrantedUnits DEF CanShrink, take
  <2>9. n + 3 <= bs
    BY <1>2, <2>4, <2>8, Units16
  <2> QED BY <2>7, <2>8, <2>9 DEF v
<1> QED BY <1>1, <1>2

LEMMA GrowWhole ==
  ASSUME NEW u, Whole(u), NEW x \in UsedIn(u.hdr), NEW n \in Nat, CanGrow(u, x, n)
  PROVE  LET v == Grow(u, x, n)
         IN  /\ Whole(v) /\ Keeps(u, v, x)
             /\ v = u \/ (/\ n >= 1 /\ u.hdr[x].size < n + 1
                          /\ \E size \in n + 1 .. n + 2 : Uses(v, x, size))
<1> DEFINE bs   == u.hdr[x].size
           a    == Absorbed(u, NextTo(x, bs))
           need == Adjusted(n)
           span == bs + a.size
           take == IF span - need >= MinUnits THEN need ELSE span
<1>1. CASE need <= bs
  <2>1. Grow(u, x, n) = u
    BY <1>1, Zenon DEF Grow
  <2> QED BY <2>1 DEF Keeps
<1>2. CASE ~ (need <= bs)
  <2> DEFINE v == Grow(u, x, n)
  <2>1. v = MoveEnd(a.t, x, span, take)
    BY <1>2, Zenon DEF Grow
  <2>2. need \in Int /\ need >= MinUnits
    BY Granted DEF CanGrow
  <2>3. PICK N : IsWidened(u, x, N, a)
    BY WholeSound, Widen
  <2>4. span \in MinUnits .. DataUnits
    BY <2>3 DEF IsWidened
  <2>5. need <= span
    <3>1. /\ IsFree(u, NextTo(x, bs)) /\ bs + u.hdr[NextTo(x, bs)].size >= need
      BY <1>2 DEF CanGrow
    <3>2. a.size = u.hdr[NextTo(x, bs)].size
      BY <3>1 DEF Absorbed
    <3> HIDE DEF need, a
    <3> QED BY <2>2, <2>4, <3>1, <3>2, Units16, MappingAssumption
  <2> HIDE DEF need, a, span, v
  <2>6. take \in Int /\ take >= MinUnits /\ (take = span \/ span - take >= MinUnits)
    BY <2>2, <2>4, MappingAssumption, Units16
  <2>7. need = n + 1 /\ n >= 1
    BY GrantedUnits DEF CanGrow, need
  <2>8. take \in n + 1 .. n + 2
    BY <2>2, <2>4, <2>5, <2>7, MappingAssumption, Units16
  <2> HIDE DEF take
  <2>9. Whole(v) /\ Keeps(u, v, x) /\ Uses(v, x, take)
    BY <2>1, <2>3, <2>6, MoveEndWhole DEF span
  <2>10. bs < n + 1
    <3>1. x \in DOMAIN u.hdr /\ Linked(u.hdr)
      BY DEF Whole, UsedIn
    <3>2. u.hdr[x] \in Headers
      BY <3>1 DEF Linked
    <3> QED BY <1>2, <2>7, <3>2, MappingAssumption, Units16 DEF Headers
  <2> QED BY <2>7, <2>8, <2>9, <2>10 DEF v
<1> QED BY <1>1, <1>2

(***************************************************************************)
(* deallocate                                                              *)
(***************************************************************************)
(* x and its free neighbours, the set Z, gathered for one block that begins
   at y: c is what is left. *)
IsGathered(u, x, Z, y, size, c) ==
  LET h  == u.hdr
      hi == y[2] + size
      nx == <<x[1], hi>>
  IN  /\ IsState(c) /\ c.marks = u.marks \ {x} /\ c.count = u.count /\ c.allocated \in Int
      /\ Listed(c, FreeIn(h) \ Z, h)
      /\ x \in Z /\ y \in DOMAIN h /\ y[1] = x[1] /\ Z \subseteq FreeIn(h) \union {x}
      /\ Z = Inside(h, x[1], y[2], hi) \union {y}
      /\ DOMAIN c.hdr \ {x} = DOMAIN h \ Z /\ \A z \in DOMAIN h \ Z : c.hdr[z] = h[z]
      /\ hi \in 0 .. DataUnits /\ size \in MinUnits .. DataUnits
      /\ hi < DataUnits => nx \in DOMAIN h \ Z /\ h[nx] \in Headers /\ h[nx].used
      /\ nx \in DOMAIN h => hi < DataUnits
      /\ \A z \in DOMAIN h : z[1] = x[1] /\ EndOf(h, z) = y[2] => h[z].used

LEMMA GatherWhole ==
  ASSUME NEW u, Whole(u), NEW x \in UsedIn(u.hdr), NEW Z, NEW y, NEW size, NEW c,
         IsGathered(u, x, Z, y, size, c)
  PROVE  LET v == InsertFree([c EXCEPT !.hdr =
                    SetPrev(Put(Drop(c.hdr, x), y, Hdr(size, FALSE, u.hdr[y].prev)),
                            NextTo(y, size), y[2])], y, size)
         IN  Whole(v) /\ Keeps(u, v, x) /\ x \notin UsedIn(v.hdr)
<1> DEFINE h  == u.hdr
           F  == FreeIn(h)
           S1 == F \ Z
           s  == x[1]
           lo == y[2]
           hi == lo + size
           nx == <<s, hi>>
           e  == Hdr(size, FALSE, h[y].prev)
           f  == Drop(c.hdr, x)
           d  == Put(f, y, e)
           k  == SetPrev(d, NextTo(y, size), lo)
           w  == [c EXCEPT !.hdr = k]
           v  == InsertFree(w, y, size)
<1>0. /\ h = u.hdr /\ s = x[1] /\ lo = y[2] /\ f = Drop(c.hdr, x) /\ d = Put(f, y, e)
      /\ e = Hdr(size, FALSE, h[y].prev)
      /\ k = SetPrev(d, NextTo(y, size), lo) /\ v = InsertFree(w, y, size)
  OBVIOUS
<1>1. /\ IsState(u) /\ Linked(h) /\ Apart(h) /\ u.marks = UsedIn(h)
      /\ x \in DOMAIN h /\ h[x].used
  <2>1. IsState(u) /\ Linked(h) /\ Apart(h) /\ u.marks = UsedIn(h)
    BY DEF Whole
  <2>2. x \in UsedIn(h)
    OBVIOUS
  <2> HIDE DEF h
  <2> QED BY <2>1, <2>2 DEF UsedIn
<1>2. /\ IsState(c) /\ c.marks = u.marks \ {x} /\ c.count = u.count /\ c.allocated \in Int
      /\ Listed(c, S1, h)
      /\ x \in Z /\ y \in DOMAIN h /\ y[1] = s /\ Z \subseteq F \union {x}
      /\ Z = Inside(h, s, lo, hi) \union {y}
      /\ DOMAIN c.hdr \ {x} = DOMAIN h \ Z /\ \A z \in DOMAIN h \ Z : c.hdr[z] = h[z]
      /\ hi \in 0 .. DataUnits /\ size \in MinUnits .. DataUnits
      /\ hi < DataUnits => nx \in DOMAIN h \ Z /\ h[nx] \in Headers /\ h[nx].used
      /\ nx \in DOMAIN h => hi < DataUnits
      /\ \A z \in DOMAIN h : z[1] = s /\ EndOf(h, z) = lo => h[z].used
  BY DEF IsGathered
<1>w. w = [c EXCEPT !.hdr = k]
  BY Zenon
<1> HIDE DEF h, s, lo, e, f, d, k, w, v
<1>y. y = <<s, lo>>
  <2>1. y = <<y[1], y[2]>>
    BY <1>1, <1>2, BlockName
  <2> QED BY <1>0, <1>2, <2>1
<1>3. /\ hi \in Int /\ lo \in Int /\ lo + MinUnits <= hi /\ lo < hi /\ hi - lo = size /\ hi <= DataUnits
      /\ NextTo(y, size) = nx /\ nx # y /\ (hi = DataUnits \/ hi < DataUnits) /\ ~ (hi < hi)
      /\ y \in Places /\ y \in Z
  <2>1. y \in Places
    BY <1>1, <1>2 DEF Linked
  <2>2. lo \in Int
    BY <1>y, <2>1 DEF Places
  <2> QED BY <1>y, <1>2, <2>1, <2>2, Units16, MappingAssumption DEF NextTo
<1> HIDE DEF hi
<1>4. DOMAIN f = DOMAIN h \ Z /\ \A z \in DOMAIN h \ Z : f[z] = h[z]
  BY <1>0, <1>2 DEF Drop
<1>5. /\ DOMAIN d = (DOMAIN h \ Z) \union {y} /\ d[y] = e
      /\ \A z \in DOMAIN h \ Z : z # y => d[z] = h[z]
  BY <1>0, <1>4 DEF Put
<1>6. /\ DOMAIN k = (DOMAIN h \ Z) \union {y} /\ k[y] = e
      /\ hi < DataUnits => k[nx] = Hdr(h[nx].size, h[nx].used, lo)
      /\ \A z \in DOMAIN h \ Z : z # nx => k[z] = h[z]
  <2>1. nx[2] # DataUnits => nx \in DOMAIN d /\ d[nx] \in Headers
    BY <1>2, <1>3, <1>5
  <2>2. hi < DataUnits => nx[2] # DataUnits
    BY <1>3
  <2>3. k = SetPrev(d, nx, lo)
    BY <1>0, <1>3
  <2>4. /\ DOMAIN k = DOMAIN d /\ \A z \in DOMAIN d : z # nx => k[z] = d[z]
        /\ hi < DataUnits => k[nx] = Hdr(d[nx].size, d[nx].used, lo)
    <3> HIDE DEF nx
    <3> QED BY <2>1, <2>2, <2>3, SetPrevFacts
  <2>5. k[y] = e
    BY <1>3, <1>5, <2>4
  <2>6. \A z \in DOMAIN h \ Z : z # nx => k[z] = h[z]
    BY <1>3, <1>5, <2>4
  <2>7. hi < DataUnits => k[nx] = Hdr(h[nx].size, h[nx].used, lo)
    BY <1>2, <1>3, <1>5, <2>4
  <2> QED BY <1>5, <2>4, <2>5, <2>6, <2>7
<1>7. Recut(h, k, s, lo, hi, hi)
  <2>1. DOMAIN k = {z \in DOMAIN h : ~ (z[1] = s /\ lo < z[2] /\ z[2] < hi)}
    <3>1. y \notin Inside(h, s, lo, hi)
      BY <1>y, <1>3 DEF Inside
    <3>2. DOMAIN k = DOMAIN h \ Inside(h, s, lo, hi)
      BY <1>2, <1>6, <3>1
    <3> QED BY <3>2 DEF Inside
  <2>2. k[<<s, lo>>] = Hdr(hi - lo, FALSE, h[<<s, lo>>].prev)
    BY <1>y, <1>0, <1>3, <1>6
  <2>3. hi < DataUnits => k[<<s, hi>>] = Hdr(h[<<s, hi>>].size, h[<<s, hi>>].used, lo)
    BY <1>6
  <2>4. \A z \in DOMAIN h : z \in DOMAIN k /\ z \notin {<<s, lo>>, <<s, hi>>} => k[z] = h[z]
    BY <1>y, <1>6
  <2>5. <<s, lo>> \in DOMAIN h /\ (hi = DataUnits \/ <<s, hi>> \in DOMAIN h)
    BY <1>y, <1>2, <1>3
  <2> QED BY <1>3, <2>1, <2>2, <2>3, <2>4, <2>5 DEF Recut
<1>8. ~ k[y].used /\ k[y].size = size
  BY <1>0, <1>6 DEF Hdr
<1>9. FreeIn(k) = S1 \union {y} /\ UsedIn(k) = UsedIn(h) \ {x}
  <2>1. CutUse(h, k, s, lo, hi, hi, Z)
    <3>1. Z = Inside(h, s, lo, hi) \union {<<s, lo>>}
      BY <1>y, <1>2
    <3> QED BY <1>1, <1>7, <3>1, RecutUse
  <2>2. UsedIn(h) \ Z = UsedIn(h) \ {x}
    BY <1>2 DEF UsedIn, FreeIn
  <2> QED BY <1>y, <1>3, <1>8, <2>1, <2>2 DEF CutUse
<1>10. SameBut(w, c, {"hdr"}) /\ w.hdr = k
  BY <1>2, <1>w DEF IsState, SameBut
<1>11. \A z \in S1 : k[z].size = h[z].size
  <2>1. \A z \in S1 : z # nx /\ z \in DOMAIN h \ Z
    BY <1>2, <1>3 DEF FreeIn
  <2> QED BY <1>6, <2>1
<1>12. SameBut(v, w, {"lists"}) /\ Listed(v, FreeIn(k), k)
  <2>1. Listed(w, S1, h) /\ IsState(w)
    <3>1. w.heads = c.heads /\ w.sl = c.sl /\ w.fl = c.fl /\ IsState(w)
      BY <1>10 DEF SameBut
    <3> HIDE DEF S1
    <3> QED BY <1>2, <3>1, ListedSame
  <2>2. y \notin S1
    BY <1>3
  <2>3. v = InsertFree(w, y, size) /\ size \in MinUnits .. DataUnits /\ y \in Places
    BY <1>0, <1>2, <1>3
  <2> HIDE DEF S1
  <2>4. SameBut(v, w, {"lists"}) /\ Listed(v, S1 \union {y}, k)
    BY <1>8, <1>11, <2>1, <2>2, <2>3, ListInsert
  <2> QED BY <1>9, <2>4
<1>13. IsState(v) /\ v.hdr = k /\ v.marks = UsedIn(k) /\ v.count = u.count /\ v.allocated \in Int
  BY <1>1, <1>2, <1>9, <1>10, <1>12 DEF SameBut
<1>14. Whole(v) /\ Keeps(u, v, x)
  <2>1. /\ ~ (hi < hi) /\ (hi < DataUnits => h[<<s, hi>>].used)
        /\ \A z \in DOMAIN h : z[1] = s /\ EndOf(h, z) = lo => h[z].used \/ k[<<s, lo>>].used
        /\ hi < DataUnits => k[IF hi < hi THEN <<s, hi>> ELSE <<s, lo>>].used \/ h[<<s, hi>>].used
    BY <1>2, <1>3
  <2>2. h = u.hdr /\ k = v.hdr
    BY <1>0, <1>13
  <2>3. UsedIn(k) \ {x} = UsedIn(h) \ {x} /\ ~ k[<<s, lo>>].used
    BY <1>y, <1>8, <1>9
  <2> QED BY <1>7, <1>12, <1>13, <2>1, <2>2, <2>3, Outcome
<1>15. x \notin UsedIn(v.hdr)
  BY <1>9, <1>13
<1> QED BY <1>14, <1>15, Zenon DEF v, w, k, d, f, e, lo, h

(* x is no longer counted; its header still says that it is in use. *)
LEMMA Released ==
  ASSUME NEW u, Whole(u), NEW x \in UsedIn(u.hdr)
  PROVE  LET w == [u EXCEPT !.marks = @ \ {x}, !.allocated = @ - u.hdr[x].size]
         IN  /\ Sound(w) /\ w.hdr = u.hdr /\ w.marks = u.marks \ {x} /\ w.count = u.count
             /\ w.allocated \in Int
<1> DEFINE ms == u.marks \ {x}
           al == u.allocated - u.hdr[x].size
           w  == [u EXCEPT !.marks = ms, !.allocated = al]
<1>1. /\ IsState(u) /\ Linked(u.hdr) /\ Apart(u.hdr) /\ Listed(u, FreeIn(u.hdr), u.hdr)
      /\ x \in DOMAIN u.hdr /\ u.allocated \in Int
  BY DEF Whole, UsedIn
<1>2. al \in Int
  <2>1. u.hdr[x] \in Headers
    BY <1>1 DEF Linked
  <2> QED BY <1>1, <2>1, MappingAssumption, Units16 DEF Headers
<1> HIDE DEF ms, al
<1>3. /\ IsState(w) /\ w.hdr = u.hdr /\ w.marks = ms /\ w.count = u.count /\ w.allocated = al
      /\ w.heads = u.heads /\ w.sl = u.sl /\ w.fl = u.fl
  BY <1>1 DEF IsState
<1>4. w = [u EXCEPT !.marks = @ \ {x}, !.allocated = @ - u.hdr[x].size]
  BY Zenon DEF ms, al
<1> HIDE DEF w
<1>5. Listed(w, FreeIn(u.hdr), u.hdr)
  BY <1>1, <1>3, ListedSame
<1> QED BY <1>1, <1>2, <1>3, <1>4, <1>5 DEF Sound, ms

(* The block before x: absorbed if there is one and it is free. *)
IsPreceded(x, h, N, p) ==
  /\ p \notin N /\ p = <<x[1], h[x].prev>> /\ p # x
  /\ p \in FreeIn(h) => /\ p[2] \notin {-1, DataUnits} /\ h[p].size \in MinUnits .. DataUnits
                        /\ p[2] \in Int /\ p[2] + h[p].size = x[2] /\ p \in DOMAIN h /\ ~ h[p].used
                        /\ Inside(h, x[1], p[2], EndOf(h, x)) = {x}
                        /\ \A z \in DOMAIN h : z[1] = x[1] /\ EndOf(h, z) = p[2] => h[z].used
  /\ p \notin FreeIn(h) => /\ p[2] \in {-1, DataUnits} \/ (p \in DOMAIN h /\ h[p].used)
                           /\ \A z \in DOMAIN h : z[1] = x[1] /\ EndOf(h, z) = x[2] => h[z].used

LEMMA Preceded ==
  ASSUME NEW h, Linked(h), Apart(h), NEW x \in DOMAIN h,
         NEW N, \A z \in N : z[1] = x[1] => x[2] < z[2]
  PROVE  IsPreceded(x, h, N, <<x[1], h[x].prev>>)
<1> DEFINE p == <<x[1], h[x].prev>>
<1>1. /\ x = <<x[1], x[2]>> /\ x[1] \in Sheets /\ x[2] \in 0 .. DataUnits - 1
      /\ h[x] \in Headers /\ EndOf(h, x) \in Int /\ x[2] < EndOf(h, x) /\ x[2] \in Int
  <2>1. /\ x = <<x[1], x[2]>> /\ x[1] \in Sheets /\ x[2] \in 0 .. DataUnits - 1
        /\ h[x] \in Headers /\ EndOf(h, x) \in Int /\ x[2] < EndOf(h, x)
    BY Neighbours, Zenon
  <2> QED BY <2>1, MappingAssumption
<1>2. \A z \in DOMAIN h : /\ z = <<z[1], z[2]>> /\ z[2] \in 0 .. DataUnits - 1 /\ z[2] \in Int
                          /\ EndOf(h, z) \in Int /\ z[2] < EndOf(h, z) /\ h[z].size \in MinUnits .. DataUnits
                          /\ EndOf(h, z) = z[2] + h[z].size
  <2> SUFFICES ASSUME NEW z \in DOMAIN h
               PROVE  /\ z = <<z[1], z[2]>> /\ z[2] \in 0 .. DataUnits - 1 /\ z[2] \in Int
                      /\ EndOf(h, z) \in Int /\ z[2] < EndOf(h, z) /\ h[z].size \in MinUnits .. DataUnits
                      /\ EndOf(h, z) = z[2] + h[z].size
    OBVIOUS
  <2>1. /\ z = <<z[1], z[2]>> /\ z[2] \in 0 .. DataUnits - 1 /\ EndOf(h, z) \in Int
        /\ z[2] < EndOf(h, z) /\ h[z] \in Headers
    BY Neighbours, Zenon
  <2> QED BY <2>1, MappingAssumption DEF Headers, EndOf
<1>3. CASE x[2] = 0
  <2>1. p[2] = -1 /\ p[1] = x[1]
    BY <1>3 DEF Linked
  <2> HIDE DEF p
  <2>2. p \notin DOMAIN h /\ p # x
    BY <1>2, <1>3, <2>1
  <2>3. p \notin N
    BY <1>3, <2>1
  <2>4. \A z \in DOMAIN h : z[1] = x[1] /\ EndOf(h, z) = x[2] => h[z].used
    BY <1>2, <1>3
  <2> QED BY <2>1, <2>2, <2>3, <2>4 DEF IsPreceded, FreeIn, p
<1>4. CASE x[2] # 0
  <2>1. p \in DOMAIN h /\ EndOf(h, p) = x[2] /\ p[1] = x[1]
    BY <1>4 DEF Linked
  <2> HIDE DEF p
  <2>2. p[2] < x[2] /\ p[2] \in Int
    BY <1>2, <2>1
  <2>3. p \notin N /\ p # x
    BY <1>1, <2>1, <2>2
  <2>4. /\ Inside(h, p[1], p[2], EndOf(h, x)) = {x}
        /\ \A z \in DOMAIN h : z[1] = p[1] /\ EndOf(h, z) = x[2] => z = p
    BY <2>1, Following, Zenon
  <2>5. \A z \in DOMAIN h : z[1] = x[1] /\ EndOf(h, z) = p[2] /\ ~ h[p].used => h[z].used
    BY <2>1 DEF Apart
  <2>6. p[2] \notin {-1, DataUnits} /\ h[p].size \in MinUnits .. DataUnits /\ p[2] + h[p].size = x[2]
    <3>1. p[2] \in 0 .. DataUnits - 1 /\ h[p].size \in MinUnits .. DataUnits /\ EndOf(h, p) = p[2] + h[p].size
      BY <1>2, <2>1
    <3> QED BY <2>1, <3>1, MappingAssumption
  <2>7. p \in FreeIn(h) <=> ~ h[p].used
    BY <2>1 DEF FreeIn
  <2>8. p = <<x[1], h[x].prev>>
    BY DEF p
  <2>9. IsPreceded(x, h, N, p)
    BY <2>1, <2>2, <2>3, <2>4, <2>5, <2>6, <2>7, <2>8 DEF IsPreceded
  <2> QED BY <2>9 DEF p
<1> QED BY <1>3, <1>4

LEMMA Gathered ==
  ASSUME NEW u, Whole(u), NEW x \in UsedIn(u.hdr), NEW w, Sound(w), w.hdr = u.hdr,
         w.marks = u.marks \ {x}, w.count = u.count, w.allocated \in Int,
         NEW N, NEW a, IsWidened(w, x, N, a), NEW p, p = BlockPrev(u, x)
  PROVE  LET b == Absorbed(a.t, p)
             y == IF b.size > 0 THEN p ELSE x
         IN  \E Z : IsGathered(u, x, Z, y, u.hdr[x].size + a.size + b.size, b.t)
<1> DEFINE h   == u.hdr
           F   == FreeIn(h)
           s   == x[1]
           bs  == h[x].size
           hi  == x[2] + (bs + a.size)
           nx  == <<s, hi>>
           S   == F \ N
           b   == Absorbed(a.t, p)
           y   == IF b.size > 0 THEN p ELSE x
           size == bs + a.size + b.size
<1>0. h = u.hdr /\ s = x[1] /\ b = Absorbed(a.t, p)
  OBVIOUS
<1>1. /\ Linked(h) /\ Apart(h) /\ x \in DOMAIN h /\ h[x].used /\ p = <<s, h[x].prev>>
  <2>1. Linked(h) /\ Apart(h) /\ x \in UsedIn(h)
    BY DEF Whole
  <2>2. p = <<s, h[x].prev>>
    BY DEF BlockPrev
  <2> HIDE DEF h
  <2> QED BY <2>1, <2>2 DEF UsedIn
<1>2. /\ SameBut(a.t, w, {"hdr", "lists"}) /\ Listed(a.t, S, h)
      /\ N \subseteq F /\ x \notin N
      /\ DOMAIN a.t.hdr = DOMAIN h \ N /\ \A z \in DOMAIN h \ N : a.t.hdr[z] = h[z]
      /\ N = Inside(h, s, x[2], hi)
      /\ hi \in 0 .. DataUnits /\ bs + a.size \in MinUnits .. DataUnits
      /\ hi < DataUnits => nx \in DOMAIN h \ N /\ h[nx] \in Headers /\ h[nx].used
      /\ nx \in DOMAIN h => hi < DataUnits
      /\ a.size \in Nat
  BY DEF IsWidened
<1>3. w.marks = u.marks \ {x} /\ w.count = u.count /\ w.allocated \in Int
  OBVIOUS
<1> HIDE DEF h, s, b
<1>4. IsPreceded(x, h, N, p)
  <2>1. \A z \in N : z[1] = x[1] => x[2] < z[2]
    BY <1>2 DEF Inside
  <2> QED BY <1>0, <1>1, <2>1, Preceded
<1>5. x = <<s, x[2]>> /\ x[2] \in 0 .. DataUnits - 1 /\ x[2] \in Int /\ s \in Sheets
      /\ bs \in MinUnits .. DataUnits /\ bs \in Int /\ EndOf(h, x) = x[2] + bs
  <2>1. /\ x = <<x[1], x[2]>> /\ x[1] \in Sheets /\ x[2] \in 0 .. DataUnits - 1 /\ h[x] \in Headers
    BY <1>1, Neighbours, Zenon
  <2> QED BY <1>0, <2>1, MappingAssumption, Units16 DEF Headers, EndOf
<1>6. IsAbsorbed(a.t, S, h, p, b)
  <2>1. p \in S => /\ p[2] \notin {-1, DataUnits} /\ a.t.hdr[p] = h[p] /\ ~ h[p].used
                   /\ h[p].size \in MinUnits .. DataUnits
    BY <1>2, <1>4 DEF IsPreceded
  <2>2. p \notin S => p[2] \in {-1, DataUnits} \/ a.t.hdr[p].used
    BY <1>2, <1>4 DEF IsPreceded
  <2>3. IsState(a.t)
    BY <1>2 DEF SameBut
  <2> HIDE DEF S
  <2>4. Absorbable(a.t, S, h, p)
    BY <1>2, <2>1, <2>2, <2>3 DEF Absorbable
  <2> QED BY <1>0, <2>4, Absorb
<1>7. IsState(b.t) /\ b.t.marks = u.marks \ {x} /\ b.t.count = u.count /\ b.t.allocated \in Int
  BY <1>2, <1>3, <1>6 DEF IsAbsorbed, SameBut
<1>8. CASE p \in F
  <2> DEFINE Z == N \union {x, p}
  <2>1. /\ p \notin N /\ p # x /\ p = <<s, h[x].prev>> /\ p \in DOMAIN h /\ p[2] \in Int
        /\ h[p].size \in MinUnits .. DataUnits /\ p[2] + h[p].size = x[2]
        /\ Inside(h, s, p[2], EndOf(h, x)) = {x}
        /\ \A z \in DOMAIN h : z[1] = s /\ EndOf(h, z) = p[2] => h[z].used
    BY <1>0, <1>4, <1>8 DEF IsPreceded
  <2>2. /\ Listed(b.t, S \ {p}, h) /\ b.size = h[p].size
        /\ DOMAIN b.t.hdr = (DOMAIN h \ N) \ {p}
        /\ \A z \in DOMAIN h \ N : z # p => b.t.hdr[z] = h[z]
    BY <1>2, <1>6, <1>8, <2>1 DEF IsAbsorbed
  <2>3. /\ y = p /\ p[2] + size = hi /\ size \in MinUnits .. DataUnits
    <3>1. b.size > 0 /\ b.size \in Int /\ p[2] + b.size = x[2]
      BY <2>1, <2>2, Units16, MappingAssumption
    <3>2. p[2] \in 0 .. DataUnits - 1
      BY <1>1, <2>1 DEF Linked, Places
    <3> HIDE DEF bs
    <3> QED BY <1>2, <1>5, <2>1, <3>1, <3>2, Units16, MappingAssumption
  <2>4. Listed(b.t, F \ Z, h)
    <3>1. S \ {p} = F \ Z
      BY <1>1 DEF FreeIn
    <3> HIDE DEF S, Z
    <3> QED BY <2>2, <3>1
  <2>5. Z = Inside(h, s, p[2], hi) \union {p}
    <3>1. \A z \in DOMAIN h : z[2] \in Int /\ z = <<z[1], z[2]>>
      <4>1. \A z \in DOMAIN h : z \in Places
        BY <1>1 DEF Linked
      <4>2. \A z \in Places : z[2] \in Int /\ z = <<z[1], z[2]>>
        BY MappingAssumption DEF Places
      <4> QED BY <4>1, <4>2
    <3>2. p[2] < x[2] /\ x[2] < hi /\ p[1] = s /\ x[2] < x[2] + bs
      BY <1>2, <1>5, <2>1, Units16, MappingAssumption
    <3> HIDE DEF bs, hi, F
    <3>3. \A z \in DOMAIN h : z[1] = s /\ p[2] < z[2] /\ z[2] <= x[2] => z = x
      BY <1>5, <2>1, <3>1, <3>2 DEF Inside
    <3>4. x \in Inside(h, s, p[2], hi)
      BY <1>1, <1>5, <3>2 DEF Inside
    <3>5. N \subseteq Inside(h, s, p[2], hi)
      BY <1>2, <1>5, <2>1, <3>1, <3>2 DEF Inside
    <3>6. \A z \in Inside(h, s, p[2], hi) : z = x \/ z \in N
      BY <1>2, <1>5, <3>1, <3>3 DEF Inside
    <3> QED BY <3>4, <3>5, <3>6
  <2>6. /\ DOMAIN b.t.hdr \ {x} = DOMAIN h \ Z /\ \A z \in DOMAIN h \ Z : b.t.hdr[z] = h[z]
    BY <2>2
  <2>7. /\ hi < DataUnits => nx \in DOMAIN h \ Z /\ h[nx] \in Headers /\ h[nx].used
        /\ nx \in DOMAIN h => hi < DataUnits
    <3>1. nx # x /\ nx # p
      BY <1>2, <1>5, <2>1, Units16, MappingAssumption
    <3> HIDE DEF nx, hi
    <3> QED BY <1>2, <3>1
  <2>8. x \in Z /\ p[1] = s /\ Z \subseteq F \union {x}
    BY <1>2, <1>8, <2>1
  <2> HIDE DEF Z
  <2>9. IsGathered(u, x, Z, p, size, b.t)
    BY <1>0, <1>2, <1>7, <2>1, <2>3, <2>4, <2>5, <2>6, <2>7, <2>8 DEF IsGathered
  <2> QED BY <1>0, <2>3, <2>9 DEF bs
<1>9. CASE p \notin F
  <2> DEFINE Z == N \union {x}
  <2>1. \A z \in DOMAIN h : z[1] = s /\ EndOf(h, z) = x[2] => h[z].used
    BY <1>0, <1>4, <1>9 DEF IsPreceded
  <2>2. /\ Listed(b.t, S \ {p}, h) /\ b.size = 0
        /\ DOMAIN b.t.hdr = DOMAIN h \ N
        /\ \A z \in DOMAIN h \ N : b.t.hdr[z] = h[z]
    BY <1>2, <1>6, <1>9 DEF IsAbsorbed
  <2>3. y = x /\ size = bs + a.size
    BY <1>2, <1>5, <2>2
  <2>4. Listed(b.t, F \ Z, h)
    <3>1. S \ {p} = F \ Z
      BY <1>1, <1>9 DEF FreeIn
    <3> HIDE DEF S, Z
    <3> QED BY <2>2, <3>1
  <2>5. Z = Inside(h, s, x[2], hi) \union {x}
    BY <1>2
  <2>6. /\ DOMAIN b.t.hdr \ {x} = DOMAIN h \ Z /\ \A z \in DOMAIN h \ Z : b.t.hdr[z] = h[z]
    BY <2>2
  <2>7. /\ hi < DataUnits => nx \in DOMAIN h \ Z /\ h[nx] \in Headers /\ h[nx].used
        /\ nx \in DOMAIN h => hi < DataUnits
    <3>1. nx # x
      BY <1>2, <1>5, Units16, MappingAssumption
    <3> HIDE DEF nx, hi
    <3> QED BY <1>2, <3>1
  <2>8. x \in Z /\ x[1] = s /\ Z \subseteq F \union {x}
    BY <1>0, <1>2
  <2> HIDE DEF Z
  <2>9. IsGathered(u, x, Z, x, size, b.t)
    BY <1>0, <1>1, <1>2, <1>7, <2>1, <2>3, <2>4, <2>5, <2>6, <2>7, <2>8 DEF IsGathered
  <2> QED BY <1>0, <2>3, <2>9 DEF bs
<1> QED BY <1>8, <1>9

LEMMA DeallocateWhole ==
  ASSUME NEW u, Whole(u), NEW x \in UsedIn(u.hdr)
  PROVE  LET v == Deallocate(u, x) IN Whole(v) /\ Keeps(u, v, x) /\ x \notin UsedIn(v.hdr)
<1> DEFINE bs == u.hdr[x].size
           w  == [u EXCEPT !.marks = @ \ {x}, !.allocated = @ - bs]
           a  == Absorbed(w, NextTo(x, bs))
           p  == BlockPrev(u, x)
           b  == Absorbed(a.t, p)
           y  == IF b.size > 0 THEN p ELSE x
           size == bs + a.size + b.size
<1>1. /\ Sound(w) /\ w.hdr = u.hdr /\ w.marks = u.marks \ {x} /\ w.count = u.count
      /\ w.allocated \in Int
  BY Released
<1>2. PICK N : IsWidened(w, x, N, a)
  <2> HIDE DEF w
  <2>1. x \in UsedIn(w.hdr) /\ w.hdr[x].size = bs
    BY <1>1
  <2>2. \E N : IsWidened(w, x, N, Absorbed(w, NextTo(x, w.hdr[x].size)))
    BY <1>1, <2>1, Widen
  <2> QED BY <2>1, <2>2
<1>3. PICK Z : IsGathered(u, x, Z, y, size, b.t)
  <2> HIDE DEF w, a, p
  <2> QED BY <1>1, <1>2, Gathered DEF p
<1>4. Deallocate(u, x) =
        InsertFree([b.t EXCEPT !.hdr =
           SetPrev(Put(Drop(b.t.hdr, x), y, Hdr(size, FALSE, u.hdr[y].prev)),
                   NextTo(y, size), y[2])], y, size)
  BY Zenon DEF Deallocate
<1> DEFINE c == b.t
           v == InsertFree([c EXCEPT !.hdr =
                  SetPrev(Put(Drop(c.hdr, x), y, Hdr(size, FALSE, u.hdr[y].prev)),
                          NextTo(y, size), y[2])], y, size)
<1>5. IsGathered(u, x, Z, y, size, c) /\ Deallocate(u, x) = v
  BY <1>3, <1>4
<1> HIDE DEF y, size, c
<1>6. Whole(v) /\ Keeps(u, v, x) /\ x \notin UsedIn(v.hdr)
  BY <1>5, GatherWhole
<1> QED BY <1>5, <1>6, Zenon

(***************************************************************************)
(* Sheets                                                                  *)
(***************************************************************************)
(* Following prev_phys from any block ends at the first unit of its sheet. *)
LEMMA FirstBlock ==
  ASSUME NEW h, Linked(h), NEW x \in DOMAIN h
  PROVE  <<x[1], 0>> \in DOMAIN h
<1> DEFINE S == {z[2] : z \in {y \in DOMAIN h : y[1] = x[1]}}
           i == Lowest(S)
<1>1. \A z \in DOMAIN h : /\ z = <<z[1], z[2]>> /\ z[2] \in Nat /\ EndOf(h, z) \in Int
                          /\ z[2] < EndOf(h, z)
  <2> SUFFICES ASSUME NEW z \in DOMAIN h
               PROVE  z = <<z[1], z[2]>> /\ z[2] \in Nat /\ EndOf(h, z) \in Int /\ z[2] < EndOf(h, z)
    OBVIOUS
  <2>1. z = <<z[1], z[2]>> /\ z[2] \in 0 .. DataUnits - 1 /\ EndOf(h, z) \in Int /\ z[2] < EndOf(h, z)
    BY Neighbours, Zenon
  <2> QED BY <2>1, MappingAssumption
<1>2. i \in S /\ \A j \in S : i <= j
  <2>1. S \in SUBSET Nat /\ S # {}
    BY <1>1
  <2> HIDE DEF S
  <2> QED BY <2>1, LowestIn
<1> HIDE DEF i
<1>3. PICK y \in DOMAIN h : y[1] = x[1] /\ y[2] = i
  BY <1>2
<1>4. CASE y[2] = 0
  BY <1>1, <1>3, <1>4
<1>5. CASE y[2] # 0
  <2> DEFINE p == <<y[1], h[y].prev>>
  <2>1. p \in DOMAIN h /\ EndOf(h, p) = y[2] /\ p[1] = x[1]
    BY <1>3, <1>5 DEF Linked
  <2> HIDE DEF p
  <2>2. p[2] < i /\ p[2] \in S /\ p[2] \in Nat /\ i \in Nat
    BY <1>1, <1>3, <2>1
  <2> HIDE DEF S
  <2> QED BY <1>2, <2>2
<1> QED BY <1>4, <1>5

(* A sheet is empty exactly if no block of it is in use. *)
LEMMA EmptySheet ==
  ASSUME NEW u, Whole(u), NEW s \in SheetsOf(u)
  PROVE  SheetEmpty(u, s) <=> \A y \in UsedIn(u.hdr) : y[1] # s
<1> DEFINE h == u.hdr
           x == <<s, 0>>
<1>1. Linked(h) /\ Apart(h) /\ DataUnits \in Nat /\ DataUnits > 0
  BY Units16, MappingAssumption DEF Whole
<1>2. x \in DOMAIN h
  <2>1. PICK z \in DOMAIN h : z[1] = s
    BY DEF SheetsOf
  <2> QED BY <1>1, <2>1, FirstBlock
<1>3. h[x] \in Headers /\ EndOf(h, x) = h[x].size /\ h[x].size \in Int
  <2>1. h[x] \in Headers
    BY <1>1, <1>2 DEF Linked
  <2>2. h[x].size \in Int
    BY <1>1, <2>1, Units16 DEF Headers
  <2> HIDE DEF h
  <2> QED BY <2>1, <2>2 DEF EndOf
<1>4. SheetEmpty(u, s) <=> ~ h[x].used /\ h[x].size = DataUnits
  BY <1>1 DEF SheetEmpty, IsFree
<1>5. ASSUME SheetEmpty(u, s), NEW y \in UsedIn(h), y[1] = s PROVE FALSE
  <2>1. y \in DOMAIN h /\ h[y].used
    BY <1>5 DEF UsedIn
  <2>2. y = <<y[1], y[2]>> /\ y[2] \in 0 .. DataUnits - 1
    BY <1>1, <2>1, Neighbours, Zenon
  <2>3. y # x
    BY <1>4, <1>5, <2>1
  <2>4. x[2] < y[2] /\ x[1] = y[1]
    BY <1>5, <2>2, <2>3
  <2>5. EndOf(h, x) <= y[2]
    BY <1>1, <1>2, <2>1, <2>4 DEF Linked
  <2> QED BY <1>1, <1>3, <1>4, <1>5, <2>2, <2>5
<1>6. ASSUME \A y \in UsedIn(h) : y[1] # s PROVE SheetEmpty(u, s)
  <2>1. \A y \in DOMAIN h : y[1] = s => ~ h[y].used
    BY <1>6 DEF UsedIn
  <2>2. ~ h[x].used
    BY <1>2, <2>1
  <2> DEFINE z == <<s, EndOf(h, x)>>
  <2>3. z \notin DOMAIN h
    <3>1. z \in DOMAIN h => h[x].used \/ h[z].used
      BY <1>1, <1>2 DEF Apart
    <3> QED BY <2>1, <2>2, <3>1
  <2>4. EndOf(h, x) = DataUnits \/ z \in DOMAIN h
    BY <1>1, <1>2 DEF Linked
  <2> QED BY <1>3, <1>4, <2>2, <2>3, <2>4
<1> QED BY <1>5, <1>6

SameUse(u, v) ==
  UsedIn(v.hdr) = UsedIn(u.hdr) /\ \A y \in UsedIn(u.hdr) : v.hdr[y].size = u.hdr[y].size

LEMMA AddSheetWhole ==
  ASSUME NEW u, Whole(u), NEW s \in Sheets, s \notin SheetsOf(u), u.count < MaxSheets
  PROVE  LET v == AddSheet(u, s)
         IN  /\ Whole(v) /\ SameUse(u, v)
             /\ SheetsOf(v) = SheetsOf(u) \union {s} /\ v.count = u.count + 1
<1> DEFINE h == u.hdr
           x == <<s, 0>>
           e == Hdr(DataUnits, FALSE, -1)
           k == Put(h, x, e)
           ms == {y \in u.marks : y[1] # s}
           c == u.count + 1
           w == [u EXCEPT !.hdr = k, !.marks = ms, !.count = c]
           v == InsertFree(w, x, DataUnits)
<1>1. /\ IsState(u) /\ Linked(h) /\ Apart(h) /\ Listed(u, FreeIn(h), h) /\ u.marks = UsedIn(h)
      /\ u.count \in 0 .. MaxSheets /\ u.allocated \in Int
  BY DEF Whole
<1>2. \A y \in DOMAIN h : y[1] # s
  BY DEF SheetsOf
<1>3. v = AddSheet(u, s)
  BY Zenon DEF AddSheet
<1>4. DataUnits \in MinUnits .. DataUnits /\ DataUnits > 0 /\ DataUnits \in Nat
  BY Units16, MappingAssumption
<1>5. c \in 0 .. MaxSheets /\ x \in Places
  BY <1>1, <1>4, MaxSheetsAssumption DEF Places
<1> HIDE DEF h, k
<1>6. /\ DOMAIN k = DOMAIN h \union {x} /\ k[x] = e /\ \A y \in DOMAIN h : k[y] = h[y]
      /\ x \notin DOMAIN h
  <2>1. x \notin DOMAIN h
    BY <1>2
  <2> HIDE DEF e, x
  <2> QED BY <2>1 DEF Put, k
<1>7. SameBut(w, u, {"hdr", "marks", "count"}) /\ w.hdr = k /\ w.marks = ms /\ w.count = c
  <2>1. w = [u EXCEPT !.hdr = k, !.marks = ms, !.count = c]
    BY Zenon
  <2> HIDE DEF ms, c, w
  <2> QED BY <1>1, <2>1 DEF IsState, SameBut
<1> HIDE DEF w, v, c
<1>8. Linked(k)
  <2>1. EndOf(k, x) = DataUnits /\ \A y \in DOMAIN h : EndOf(k, y) = EndOf(h, y)
    BY <1>4, <1>6 DEF EndOf, Hdr
  <2>2. ASSUME NEW y \in DOMAIN k
        PROVE  /\ y \in Places /\ k[y] \in Headers
               /\ EndOf(k, y) = DataUnits \/ <<y[1], EndOf(k, y)>> \in DOMAIN k
               /\ y[2] = 0 => k[y].prev = -1
               /\ y[2] # 0 => /\ <<y[1], k[y].prev>> \in DOMAIN k
                              /\ EndOf(k, <<y[1], k[y].prev>>) = y[2]
    <3>1. CASE y = x
      <4>1. e \in Headers /\ e.prev = -1
        BY <1>4 DEF Headers, Hdr
      <4>2. x[2] = 0
        OBVIOUS
      <4> HIDE DEF e, x
      <4> QED BY <1>5, <1>6, <2>1, <3>1, <4>1, <4>2
    <3>2. CASE y \in DOMAIN h
      <4>1. /\ y \in Places /\ h[y] \in Headers
            /\ EndOf(h, y) = DataUnits \/ <<y[1], EndOf(h, y)>> \in DOMAIN h
            /\ y[2] = 0 => h[y].prev = -1
            /\ y[2] # 0 => /\ <<y[1], h[y].prev>> \in DOMAIN h
                           /\ EndOf(h, <<y[1], h[y].prev>>) = y[2]
        BY <1>1, <3>2 DEF Linked
      <4> QED BY <1>6, <2>1, <3>2, <4>1
    <3> QED BY <1>6, <3>1, <3>2
  <2>3. ASSUME NEW y \in DOMAIN k, NEW z \in DOMAIN k, y[1] = z[1], y[2] < z[2]
        PROVE  EndOf(k, y) <= z[2]
    <3>1. CASE y \in DOMAIN h /\ z \in DOMAIN h
      BY <1>1, <2>1, <2>3, <3>1 DEF Linked
    <3>2. CASE y = x /\ z = x
      BY <2>3, <3>2
    <3> QED BY <1>2, <1>6, <2>3, <3>1, <3>2
  <2> QED BY <2>2, <2>3 DEF Linked
<1>9. Apart(k)
  <2> SUFFICES ASSUME NEW y \in DOMAIN k, NEW z \in DOMAIN k, y[1] = z[1], EndOf(k, y) = z[2]
               PROVE  k[y].used \/ k[z].used
    BY DEF Apart
  <2>1. CASE y \in DOMAIN h /\ z \in DOMAIN h
    BY <1>1, <1>6, <2>1 DEF Apart, EndOf
  <2>2. CASE y = x /\ z = x
    BY <1>4, <1>6, <2>2 DEF EndOf, Hdr
  <2> QED BY <1>2, <1>6, <2>1, <2>2
<1>10. FreeIn(k) = FreeIn(h) \union {x} /\ UsedIn(k) = UsedIn(h) /\ x \notin FreeIn(h)
       /\ k[x].size = DataUnits /\ \A y \in FreeIn(h) : k[y].size = h[y].size
  BY <1>6 DEF FreeIn, UsedIn, Hdr
<1>11. SameBut(v, w, {"lists"}) /\ Listed(v, FreeIn(k), k)
  <2> DEFINE F == FreeIn(h)
  <2>1. Listed(w, F, h) /\ IsState(w)
    <3>1. w.heads = u.heads /\ w.sl = u.sl /\ w.fl = u.fl /\ IsState(w)
      BY <1>7 DEF SameBut
    <3> QED BY <1>1, <3>1, ListedSame
  <2> HIDE DEF F, x
  <2>2. SameBut(v, w, {"lists"}) /\ Listed(v, F \union {x}, k)
    BY <1>4, <1>5, <1>10, <2>1, ListInsert DEF F, v
  <2> QED BY <1>10, <2>2 DEF F
<1>12. ms = UsedIn(k)
  BY <1>1, <1>2, <1>10 DEF UsedIn
<1>13. Whole(v)
  BY <1>1, <1>5, <1>7, <1>8, <1>9, <1>11, <1>12 DEF Whole, SameBut
<1>14. v.hdr = k /\ v.count = u.count + 1
  BY <1>7, <1>11 DEF SameBut, c
<1>15. SheetsOf(v) = SheetsOf(u) \union {s} /\ SameUse(u, v)
  <2>1. SheetsOf(v) = SheetsOf(u) \union {s}
    BY <1>6, <1>14 DEF SheetsOf, h
  <2>2. SameUse(u, v)
    BY <1>6, <1>10, <1>14 DEF SameUse, UsedIn, h
  <2> QED BY <2>1, <2>2
<1> QED BY <1>3, <1>13, <1>14, <1>15

LEMMA RemoveSheetWhole ==
  ASSUME NEW u, Whole(u), NEW s \in SheetsOf(u), SheetEmpty(u, s), u.count > 0
  PROVE  LET v == RemoveSheet(u, s)
         IN  /\ Whole(v) /\ SameUse(u, v)
             /\ SheetsOf(v) = SheetsOf(u) \ {s} /\ v.count = u.count - 1
<1> DEFINE h == u.hdr
           x == <<s, 0>>
           w == RemoveFree(u, x, DataUnits)
           k == Drop(w.hdr, x)
           c == w.count - 1
           v == [w EXCEPT !.hdr = k, !.count = c]
<1>1. /\ IsState(u) /\ Linked(h) /\ Apart(h) /\ Listed(u, FreeIn(h), h) /\ u.marks = UsedIn(h)
      /\ u.count \in 0 .. MaxSheets /\ u.allocated \in Int
  BY DEF Whole
<1>2. RemoveSheet(u, s) = v
  BY Zenon DEF RemoveSheet
<1>3. x \in DOMAIN h /\ ~ h[x].used /\ h[x].size = DataUnits
  <2>1. PICK z \in DOMAIN h : z[1] = s
    BY DEF SheetsOf
  <2>2. x \in DOMAIN h
    BY <1>1, <2>1, FirstBlock
  <2>3. IsFree(u, x) /\ h[x].size = DataUnits
    BY DEF SheetEmpty
  <2> QED BY <2>2, <2>3 DEF IsFree
<1>4. DataUnits \in MinUnits .. DataUnits /\ DataUnits \in Nat
  BY Units16, MappingAssumption
<1> HIDE DEF h, w, k, c, v
<1>5. \A z \in DOMAIN h : z[1] = s => z = x
  <2> SUFFICES ASSUME NEW z \in DOMAIN h, z[1] = s PROVE z = x
    OBVIOUS
  <2>1. z = <<z[1], z[2]>> /\ z[2] \in 0 .. DataUnits - 1
    BY <1>1, Neighbours, Zenon
  <2>2. EndOf(h, x) = DataUnits
    BY <1>3, <1>4 DEF EndOf
  <2>3. 0 < z[2] => EndOf(h, x) <= z[2]
    BY <1>1, <1>3 DEF Linked
  <2> QED BY <1>4, <2>1, <2>2, <2>3
<1>6. SameBut(w, u, {"lists"}) /\ Listed(w, FreeIn(h) \ {x}, h)
  <2> DEFINE F == FreeIn(h)
  <2>1. x \in F
    BY <1>3 DEF FreeIn
  <2> HIDE DEF F, x
  <2>2. SameBut(w, u, {"lists"}) /\ Listed(w, F \ {x}, h)
    <3>1. w = RemoveFree(u, x, h[x].size) /\ h[x].size \in MinUnits .. DataUnits
      BY <1>3, <1>4 DEF w
    <3> QED BY <1>1, <2>1, <3>1, ListRemove DEF F
  <2> QED BY <2>2 DEF F
<1>7. IsState(w) /\ w.hdr = h /\ w.marks = UsedIn(h) /\ w.count = u.count /\ w.allocated = u.allocated
  BY <1>1, <1>6 DEF SameBut, h
<1>8. DOMAIN k = DOMAIN h \ {x} /\ \A y \in DOMAIN k : k[y] = h[y] /\ y[1] # s
  BY <1>5, <1>7 DEF Drop, k
<1>9. IsState(v) /\ SameBut(v, w, {"hdr", "count"}) /\ v.hdr = k /\ v.count = c
  BY <1>7 DEF v, IsState, SameBut
<1>10. c \in 0 .. MaxSheets
  BY <1>1, <1>7, MaxSheetsAssumption DEF c
<1>11. Linked(k)
  <2>1. \A y \in DOMAIN k : EndOf(k, y) = EndOf(h, y) /\ y \in DOMAIN h
    BY <1>8 DEF EndOf
  <2>2. ASSUME NEW y \in DOMAIN k
        PROVE  /\ y \in Places /\ k[y] \in Headers
               /\ EndOf(k, y) = DataUnits \/ <<y[1], EndOf(k, y)>> \in DOMAIN k
               /\ y[2] = 0 => k[y].prev = -1
               /\ y[2] # 0 => /\ <<y[1], k[y].prev>> \in DOMAIN k
                              /\ EndOf(k, <<y[1], k[y].prev>>) = y[2]
    <3>1. /\ y \in Places /\ h[y] \in Headers
          /\ EndOf(h, y) = DataUnits \/ <<y[1], EndOf(h, y)>> \in DOMAIN h
          /\ y[2] = 0 => h[y].prev = -1
          /\ y[2] # 0 => /\ <<y[1], h[y].prev>> \in DOMAIN h
                         /\ EndOf(h, <<y[1], h[y].prev>>) = y[2]
      BY <1>1, <2>1 DEF Linked
    <3>2. y[1] # s /\ k[y] = h[y] /\ \A i : <<y[1], i>> \in DOMAIN h => <<y[1], i>> \in DOMAIN k
      BY <1>8
    <3> QED BY <2>1, <3>1, <3>2
  <2>3. \A y, z \in DOMAIN k : y[1] = z[1] /\ y[2] < z[2] => EndOf(k, y) <= z[2]
    BY <1>1, <2>1 DEF Linked
  <2> QED BY <2>2, <2>3 DEF Linked
<1>12. Apart(k)
  BY <1>1, <1>8 DEF Apart, EndOf
<1>13. FreeIn(k) = FreeIn(h) \ {x} /\ UsedIn(k) = UsedIn(h)
       /\ \A y \in FreeIn(h) \ {x} : k[y].size = h[y].size
  BY <1>3, <1>8 DEF FreeIn, UsedIn
<1>14. Listed(v, FreeIn(k), k)
  <2> DEFINE S == FreeIn(h) \ {x}
  <2>1. v.heads = w.heads /\ v.sl = w.sl /\ v.fl = w.fl
    BY <1>9 DEF SameBut
  <2>2. \A y \in S : k[y].size = h[y].size
    BY <1>13
  <2>3. Listed(w, S, h) /\ FreeIn(k) = S
    BY <1>6, <1>13
  <2> HIDE DEF S
  <2> QED BY <2>1, <2>2, <2>3, ListedSame
<1>15. Whole(v)
  BY <1>1, <1>7, <1>9, <1>10, <1>11, <1>12, <1>13, <1>14 DEF Whole, SameBut
<1>16. v.count = u.count - 1 /\ v.hdr = k
  BY <1>7, <1>9 DEF c
<1>17. SheetsOf(v) = SheetsOf(u) \ {s}
  <2>1. \A y \in DOMAIN h : y[1] # s => y # x
    OBVIOUS
  <2> QED BY <1>5, <1>8, <1>16, <2>1 DEF SheetsOf, h
<1>18. SameUse(u, v)
  BY <1>8, <1>13, <1>16 DEF SameUse, UsedIn, h
<1> QED BY <1>2, <1>15, <1>16, <1>17, <1>18

(***************************************************************************)
(* The theorems                                                            *)
(***************************************************************************)
LEMMA EmptyWhole == Whole(EmptyTlsf)
<1> DEFINE u  == EmptyTlsf
           hs == [c \in Classes |-> <<>>]
<1>1. /\ IsState(u) /\ u.hdr = <<>> /\ u.heads = hs /\ u.sl = {} /\ u.fl = {}
      /\ u.marks = {} /\ u.count = 0 /\ u.allocated = 0
  BY DEF EmptyTlsf, IsState
<1> HIDE DEF u
<1>2. DOMAIN u.hdr = {}
  BY <1>1
<1>3. Linked(u.hdr) /\ Apart(u.hdr) /\ FreeIn(u.hdr) = {} /\ UsedIn(u.hdr) = {}
  BY <1>2 DEF Linked, Apart, FreeIn, UsedIn
<1>4. Listed(u, {}, u.hdr)
  <2>1. hs \in [Classes -> Seq(Places)] /\ \A c \in Classes : DOMAIN hs[c] = {} /\ hs[c] = <<>>
    OBVIOUS
  <2> HIDE DEF hs
  <2> QED BY <1>1, <2>1 DEF Listed
<1>5. Whole(u)
  <2>1. 0 \in 0 .. MaxSheets /\ 0 \in Int
    BY MaxSheetsAssumption
  <2> QED BY <1>1, <1>3, <1>4, <2>1 DEF Whole
<1> QED BY <1>5 DEF u

(* owns_len lets pass only blocks in use. *)
LEMMA OwnedInUse ==
  ASSUME NEW u, Whole(u), NEW x
  PROVE  Owns(u, x) <=> x \in UsedIn(u.hdr)
<1>1. u.marks = UsedIn(u.hdr) /\ Linked(u.hdr)
  BY DEF Whole
<1>2. Owns(u, x) => x \in UsedIn(u.hdr)
  BY <1>1 DEF Owns
<1>3. ASSUME x \in UsedIn(u.hdr) PROVE Owns(u, x)
  <2>1. x \in DOMAIN u.hdr /\ u.hdr[x].used
    BY <1>3 DEF UsedIn
  <2>2. u.hdr[x] \in Headers /\ EndOf(u.hdr, x) \in 0 .. DataUnits
    BY <1>1, <2>1, Neighbours, Zenon
  <2> QED BY <1>1, <1>3, <2>1, <2>2, MappingAssumption DEF Owns, Headers, EndOf
<1> QED BY <1>2, <1>3

LEMMA FitFound ==
  ASSUME NEW u, Whole(u), NEW n \in Nat, n + 1 \in MinUnits .. DataUnits
  PROVE  Fit(u, n) # NullOff <=>
           \/ \E d \in u.sl : ~ Before(d, Search[n + 1])
           \/ /\ u.heads[ClassOf[n + 1]] # <<>>
              /\ u.hdr[Head(u.heads[ClassOf[n + 1]])].size >= n + 1
<1> DEFINE h == u.hdr
           m == n + 1
           d == CHOOSE d \in SeenFrom(u, Search[m]) : TRUE
<1>1. Linked(h) /\ Listed(u, FreeIn(h), h)
  BY DEF Whole
<1>2. u.sl = {c \in Classes : u.heads[c] # <<>>} /\ u.sl \subseteq Classes /\ u.fl = {c[1] : c \in u.sl}
  BY <1>1 DEF Listed
<1>3. Search[m][1] \in Nat /\ Search[m][2] \in Nat
  BY SearchUnits
<1>4. Fit(u, n) = FindFree(u, m)
  BY Units16, MappingAssumption DEF Fit, Adjusted
<1>5. \A c \in Classes : u.heads[c] # <<>> => Head(u.heads[c]) # NullOff
  <2> SUFFICES ASSUME NEW c \in Classes, u.heads[c] # <<>> PROVE Head(u.heads[c]) # NullOff
    OBVIOUS
  <2>1. Head(u.heads[c]) \in FreeIn(h)
    BY <1>1, HeadListed
  <2>2. Head(u.heads[c]) \in Places
    BY <1>1, <2>1 DEF FreeIn, Linked
  <2> QED BY <2>2, MappingAssumption DEF Places, NullOff
<1>6. ClassOf[m] \in Classes
  BY ClassInTable
<1>7. FindExact(u, m) # NullOff <=> u.heads[ClassOf[m]] # <<>> /\ h[Head(u.heads[ClassOf[m]])].size >= m
  BY <1>5, <1>6 DEF FindExact
<1>8. CASE SeenFrom(u, Search[m]) # {}
  <2>1. d \in SeenFrom(u, Search[m])
    BY <1>8
  <2> HIDE DEF d
  <2>2. d \in u.sl /\ ~ Before(d, Search[m]) /\ d \in Classes /\ u.heads[d] # <<>>
    BY <1>2, <1>3, <2>1, SeenFacts
  <2>3. ~ (Search[m][1] >= FlCount)
    <3>1. d[1] \in 0 .. FlCount - 1 /\ Search[m][1] <= d[1]
      <4>1. d[1] \in 0 .. FlCount - 1
        BY <2>2 DEF Classes
      <4> QED BY <1>3, <2>2, <4>1 DEF Before
    <3>2. FlCount \in Int
      <4>1. DataBytes \in 1 .. 4 * DataBytes
        BY MappingNumbers
      <4> QED BY <4>1, LogFacts, MappingNumbers DEF FlCount
    <3> QED BY <1>3, <3>1, <3>2
  <2>4. FindFree(u, m) = Head(u.heads[d])
    BY <1>8, <2>3, Zenon DEF FindFree, d
  <2> QED BY <1>4, <1>5, <2>2, <2>4
<1>9. CASE SeenFrom(u, Search[m]) = {}
  <2>1. FindFree(u, m) = FindExact(u, m)
    BY <1>9, Zenon DEF FindFree
  <2>2. \A c \in u.sl : Before(c, Search[m])
    BY <1>2, <1>3, <1>9, SeenFacts
  <2> QED BY <1>4, <1>7, <2>1, <2>2
<1> QED BY <1>8, <1>9

(* Two sizes of one class differ by less than a factor of two. *)
LEMMA ClassDoubles ==
  ASSUME NEW m \in MinUnits .. DataUnits, NEW n \in MinUnits .. DataUnits, ClassOf[m] = ClassOf[n]
  PROVE  n < 2 * m
<1>1. PICK v \in Nat, s \in Nat : /\ v = Granule * m /\ v \in MinBlock .. DataBytes
                                  /\ s = Granule * n /\ s \in MinBlock .. DataBytes
  BY MappingNumbers DEF MinUnits
<1>2. ClassOf[n] = MappingInsert(s) /\ ClassOf[m] = MappingInsert(v)
  BY <1>1 DEF ClassOf
<1> DEFINE c == MappingInsert(v)
<1>3. InClass(c, v) /\ InClass(c, s)
  <2>1. v \in MinBlock .. 4 * DataBytes /\ s \in MinBlock .. 4 * DataBytes
    BY <1>1, MappingNumbers
  <2> QED BY <1>2, <2>1, InsertClass
<1> HIDE DEF c
<1>4. PICK w \in Nat \ {0}, a \in Nat : w = Width(c[1]) /\ a = Low(c) /\ w <= a
  <2>1. c[1] \in Nat /\ c[2] \in 0 .. SlCount - 1 /\ SlCount \in Nat \ {0}
    BY <1>3, MappingNumbers DEF InClass
  <2>2. Width(c[1]) \in Nat \ {0}
    BY <2>1, WidthFacts
  <2>3. PICK k \in Nat \ {0} : k = SlCount + c[2]
    BY <2>1
  <2>4. \A i \in Nat, j \in Nat \ {0} : i * j \in Nat /\ i <= i * j
    OBVIOUS
  <2> QED BY <2>2, <2>3, <2>4 DEF Low
<1>5. s < 2 * v
  BY <1>1, <1>3, <1>4 DEF InClass
<1> QED BY <1>1, <1>5, MappingNumbers, Units16

(* A search for a small request reaches the list of the whole sheets. *)
LEMMA SheetClass ==
  ASSUME NEW n \in 1 .. SmallUnits
  PROVE  ~ Before(ClassOf[DataUnits], Search[n + 1])
<1> DEFINE m == n + 1
           c == ClassOf[DataUnits]
<1>1. /\ n \in Nat /\ m \in MinUnits .. DataUnits /\ 2 * m <= DataUnits
      /\ DataUnits \in MinUnits .. DataUnits /\ DataUnits > 0
  BY Units16, MappingAssumption
<1> SUFFICES ASSUME Before(c, Search[m]) PROVE FALSE
  OBVIOUS
<1> HIDE DEF m
<1>2. c = ClassOf[m]
  BY <1>1, SearchUnits
<1>3. DataUnits < 2 * m
  BY <1>1, <1>2, ClassDoubles
<1> QED BY <1>1, <1>3, Units16, MappingAssumption

(* A sheet that is empty serves every small request. *)
LEMMA EmptyServes ==
  ASSUME NEW u, Whole(u), NEW s \in SheetsOf(u), SheetEmpty(u, s), NEW n \in 1 .. SmallUnits
  PROVE  Fit(u, n) # NullOff
<1> DEFINE x == <<s, 0>>
           m == n + 1
           c == ClassOf[DataUnits]
<1>1. /\ n \in Nat /\ m \in MinUnits .. DataUnits /\ 2 * m <= DataUnits
      /\ DataUnits \in MinUnits .. DataUnits /\ DataUnits > 0
  BY Units16, MappingAssumption
<1>2. x \in FreeIn(u.hdr) /\ u.hdr[x].size = DataUnits
  <2>1. PICK z \in DOMAIN u.hdr : z[1] = s
    BY DEF SheetsOf
  <2>2. x \in DOMAIN u.hdr
    BY <2>1, FirstBlock DEF Whole
  <2> QED BY <1>1, <2>2 DEF SheetEmpty, IsFree, FreeIn
<1>3. c \in u.sl
  <2>1. c \in Classes
    BY <1>1, ClassInTable
  <2>2. Listed(u, FreeIn(u.hdr), u.hdr)
    BY DEF Whole
  <2> HIDE DEF x
  <2>3. x \in {u.heads[c][i] : i \in DOMAIN u.heads[c]}
    BY <1>2, <2>1, <2>2 DEF Listed
  <2>4. u.heads[c] # <<>>
    BY <2>3
  <2> QED BY <2>1, <2>2, <2>4 DEF Listed
<1>4. ~ Before(c, Search[m])
  BY SheetClass
<1> QED BY <1>1, <1>3, <1>4, FitFound

(* A sheet is only added for want of a block, and then it serves. *)
LEMMA NewSheetServes ==
  ASSUME NEW u, Whole(u), NEW s \in Sheets, s \notin SheetsOf(u), u.count < MaxSheets,
         NEW n \in 1 .. SmallUnits, Fit(u, n) = NullOff
  PROVE  Fit(AddSheet(u, s), n) = <<s, 0>>
<1> DEFINE x == <<s, 0>>
           m == n + 1
           c == ClassOf[DataUnits]
           v == AddSheet(u, s)
<1>1. /\ n \in Nat /\ m \in MinUnits .. DataUnits /\ DataUnits \in MinUnits .. DataUnits
      /\ m # 0 /\ n # 0 /\ n <= DataUnits /\ m \in 1 .. DataUnits
  BY Units16, MappingAssumption
<1>2. c \in Classes
  BY <1>1, ClassInTable
<1>3. /\ u.sl = {d \in Classes : u.heads[d] # <<>>} /\ u.fl = {d[1] : d \in u.sl}
      /\ u.heads \in [Classes -> Seq(Places)] /\ IsState(u)
  BY DEF Whole, Listed
<1>4. \A d \in u.sl : Before(d, Search[m])
  BY <1>1, FitFound
<1>5. ~ Before(c, Search[m])
  BY SheetClass
<1>6. u.heads[c] = <<>>
  BY <1>2, <1>3, <1>4, <1>5
<1>7. /\ v.heads = [u.heads EXCEPT ![c] = <<x>> \o @]
      /\ v.sl = u.sl \union {c} /\ v.fl = u.fl \union {c[1]}
  BY <1>3 DEF AddSheet, InsertFree, IsState
<1> HIDE DEF v, c, m
<1>8. Head(v.heads[c]) = x
  <2>1. v.heads[c] = <<x>> \o <<>>
    BY <1>2, <1>3, <1>6, <1>7
  <2> QED BY <2>1
<1>9. v.sl \subseteq Classes /\ v.fl = {d[1] : d \in v.sl}
  BY <1>2, <1>3, <1>7
<1>10. Search[m][1] \in Nat /\ Search[m][2] \in Nat
  BY <1>1, SearchUnits
<1>11. SeenFrom(v, Search[m]) # {} /\ \A d \in SeenFrom(v, Search[m]) : d = c
  <2>1. SeenFrom(v, Search[m]) # {}
    BY <1>5, <1>7, <1>9, <1>10, SeenFacts
  <2>2. \A d \in SeenFrom(v, Search[m]) : d \in v.sl /\ ~ Before(d, Search[m])
    BY <1>9, <1>10, SeenFacts
  <2> QED BY <1>4, <1>7, <2>1, <2>2
<1>12. ~ (Search[m][1] >= FlCount)
  <2>1. c[1] \in 0 .. FlCount - 1
    BY <1>2 DEF Classes
  <2>2. Search[m][1] <= c[1]
    BY <1>5, <1>10, <2>1 DEF Before
  <2>3. FlCount \in Int
    <3>1. DataBytes \in 1 .. 4 * DataBytes
      BY MappingNumbers
    <3> QED BY <3>1, LogFacts, MappingNumbers DEF FlCount
  <2> QED BY <1>10, <2>1, <2>2, <2>3
<1>13. FindFree(v, m) = x
  <2> DEFINE First(S) == CHOOSE d \in S : TRUE
  <2>1. FindFree(v, m) = Head(v.heads[First(SeenFrom(v, Search[m]))])
    BY <1>11, <1>12, Zenon DEF FindFree
  <2>2. First(SeenFrom(v, Search[m])) = c
    <3>1. First(SeenFrom(v, Search[m])) \in SeenFrom(v, Search[m])
      BY <1>11
    <3> QED BY <1>11, <3>1
  <2> HIDE DEF First
  <2> QED BY <1>8, <2>1, <2>2
<1>14. Fit(v, n) = FindFree(v, m)
  <2>1. Adjusted(n) = m
    BY <1>1, MappingAssumption DEF Adjusted, m
  <2> QED BY <1>1, <2>1 DEF Fit
<1> QED BY <1>13, <1>14 DEF v

(* What is whole is well formed. *)
LEMMA WholeChained ==
  ASSUME NEW u, Whole(u)
  PROVE  PhysicallyLinked(u)
<1>1. Linked(u.hdr)
  BY DEF Whole
<1> SUFFICES ASSUME NEW x \in DOMAIN u.hdr
             PROVE  LET next == NextTo(x, u.hdr[x].size)
                        prev == BlockPrev(u, x)
                    IN  /\ u.hdr[x].size >= MinUnits
                        /\ next[2] = DataUnits \/ next \in DOMAIN u.hdr
                        /\ IF x[2] = 0 THEN u.hdr[x].prev = -1
                           ELSE prev \in DOMAIN u.hdr /\ NextTo(prev, u.hdr[prev].size) = x
  BY DEF PhysicallyLinked
<1>2. u.hdr[x].size >= MinUnits
  <2>1. u.hdr[x] \in Headers
    BY <1>1 DEF Linked
  <2> QED BY <2>1 DEF Headers
<1>3. NextTo(x, u.hdr[x].size) = <<x[1], EndOf(u.hdr, x)>>
  BY DEF NextTo, EndOf
<1>4. /\ EndOf(u.hdr, x) = DataUnits \/ <<x[1], EndOf(u.hdr, x)>> \in DOMAIN u.hdr
      /\ x[2] = 0 => u.hdr[x].prev = -1
  BY <1>1 DEF Linked
<1>5. x[2] # 0 => /\ BlockPrev(u, x) \in DOMAIN u.hdr
                  /\ NextTo(BlockPrev(u, x), u.hdr[BlockPrev(u, x)].size) = x
  <2>1. x = <<x[1], x[2]>>
    BY <1>1, BlockName
  <2>2. BlockPrev(u, x) = <<x[1], u.hdr[x].prev>>
    BY DEF BlockPrev
  <2>3. x[2] # 0 => /\ <<x[1], u.hdr[x].prev>> \in DOMAIN u.hdr
                    /\ EndOf(u.hdr, <<x[1], u.hdr[x].prev>>) = x[2]
    BY <1>1 DEF Linked
  <2> QED BY <2>1, <2>2, <2>3 DEF EndOf, NextTo
<1> QED BY <1>2, <1>3, <1>4, <1>5

LEMMA WholeApart ==
  ASSUME NEW u, Whole(u)
  PROVE  FreeBlocksApart(u)
<1> SUFFICES ASSUME NEW x \in FreeBlocks(u) PROVE ~ IsFree(u, NextTo(x, u.hdr[x].size))
  BY DEF FreeBlocksApart
<1>1. Linked(u.hdr) /\ Apart(u.hdr) /\ x \in DOMAIN u.hdr /\ ~ u.hdr[x].used
  BY DEF Whole, FreeBlocks
<1> DEFINE y == <<x[1], EndOf(u.hdr, x)>>
<1>2. NextTo(x, u.hdr[x].size) = y /\ y[2] = EndOf(u.hdr, x)
  BY DEF NextTo, EndOf
<1>3. EndOf(u.hdr, x) = DataUnits \/ y \in DOMAIN u.hdr
  BY <1>1 DEF Linked
<1>4. y \in DOMAIN u.hdr => u.hdr[y].used
  BY <1>1 DEF Apart
<1> QED BY <1>2, <1>3, <1>4 DEF IsFree

LEMMA WholeListed ==
  ASSUME NEW u, Whole(u)
  PROVE  ListsHoldFreeBlocks(u)
BY DEF Whole, ListsHoldFreeBlocks, Listed, FreeIn, FreeBlocks

(***************************************************************************)
(* What the counter counts: the granules inside the blocks in use.         *)
(***************************************************************************)
Taken(h, S) == {g \in Places : \E x \in S : g[1] = x[1] /\ g[2] \in x[2] .. EndOf(h, x) - 1}
Exact(u)    == u.allocated = Cardinality(Taken(u.hdr, UsedIn(u.hdr)))
SizeAt(u, x) == IF x \in UsedIn(u.hdr) THEN u.hdr[x].size ELSE 0

LEMMA TakenFinite ==
  ASSUME IsFiniteSet(Sheets), NEW h, NEW S
  PROVE  IsFiniteSet(Taken(h, S)) /\ Cardinality(Taken(h, S)) \in Nat
<1>1. IsFiniteSet(0 .. DataUnits - 1)
  BY FS_Interval, MappingAssumption
<1>2. IsFiniteSet(Places)
  BY <1>1, FS_Product DEF Places
<1>3. Taken(h, S) \subseteq Places
  BY DEF Taken
<1> QED BY <1>2, <1>3, FS_Subset, FS_CardinalityType

LEMMA SizeTyped ==
  ASSUME NEW h, Linked(h), NEW x \in DOMAIN h
  PROVE  h[x].size \in Int
<1>1. h[x] \in Headers
  BY DEF Linked
<1> QED BY <1>1, Units16, MappingAssumption DEF Headers

LEMMA TakenMore ==
  ASSUME IsFiniteSet(Sheets), NEW h, Linked(h), NEW x \in DOMAIN h, NEW S, S \subseteq DOMAIN h \ {x}
  PROVE  Cardinality(Taken(h, S \union {x})) = Cardinality(Taken(h, S)) + h[x].size
<1> DEFINE I == x[2] .. EndOf(h, x) - 1
           A == Taken(h, S)
           B == {x[1]} \X I
<1>1. /\ x \in Places /\ x[1] \in Sheets /\ x[2] \in 0 .. DataUnits - 1
      /\ EndOf(h, x) \in 0 .. DataUnits /\ x[2] < EndOf(h, x)
  <2>1. x \in Places
    BY DEF Linked
  <2> QED BY <2>1, Neighbours, Zenon DEF Places
<1>2. /\ h[x].size = EndOf(h, x) - x[2] /\ h[x].size \in Nat
      /\ IsFiniteSet(I) /\ Cardinality(I) = h[x].size
  <2>1. h[x].size \in Int
    BY SizeTyped
  <2>2. /\ h[x].size = EndOf(h, x) - x[2] /\ h[x].size \in Nat
    BY <1>1, <2>1, MappingAssumption DEF EndOf
  <2>3. x[2] \in Int /\ EndOf(h, x) - 1 \in Int
    BY <1>1, MappingAssumption
  <2>4. IsFiniteSet(I) /\ Cardinality(I) = IF x[2] > EndOf(h, x) - 1 THEN 0 ELSE EndOf(h, x) - 1 - x[2] + 1
    BY <2>3, FS_Interval
  <2> QED BY <1>1, <2>2, <2>4, MappingAssumption
<1>3. IsFiniteSet(B) /\ Cardinality(B) = h[x].size
  <2>1. IsFiniteSet({x[1]}) /\ Cardinality({x[1]}) = 1
    BY FS_Singleton
  <2>2. IsFiniteSet(B) /\ Cardinality(B) = 1 * Cardinality(I)
    <3> HIDE DEF I
    <3> QED BY <1>2, <2>1, FS_Product
  <2> HIDE DEF B, I
  <2> QED BY <1>2, <2>2
<1>4. Taken(h, S \union {x}) = A \union B
  <2>1. \A g \in Places : g \in B <=> g[1] = x[1] /\ g[2] \in I
    BY DEF Places
  <2>2. B \subseteq Places
    <3>1. I \subseteq 0 .. DataUnits - 1
      BY <1>1, MappingAssumption
    <3> QED BY <1>1, <3>1 DEF Places
  <2> HIDE DEF B
  <2> QED BY <2>1, <2>2 DEF Taken
<1>5. A \cap B = {}
  <2> SUFFICES ASSUME NEW g \in A, g \in B PROVE FALSE
    OBVIOUS
  <2>1. g[1] = x[1] /\ g[2] \in I
    OBVIOUS
  <2>2. PICK y \in S : g[1] = y[1] /\ g[2] \in y[2] .. EndOf(h, y) - 1
    BY DEF Taken
  <2>3. y \in DOMAIN h /\ y # x
    OBVIOUS
  <2>4. y = <<y[1], y[2]>> /\ x = <<x[1], x[2]>>
    BY <2>3, BlockName
  <2>5. y[2] \in 0 .. DataUnits - 1 /\ EndOf(h, y) \in 0 .. DataUnits
    BY <2>3, Neighbours, Zenon
  <2>6. y[2] < x[2] \/ x[2] < y[2]
    BY <1>1, <2>1, <2>2, <2>3, <2>4, <2>5, MappingAssumption
  <2>7. EndOf(h, y) <= x[2] \/ EndOf(h, x) <= y[2]
    BY <2>1, <2>2, <2>3, <2>6 DEF Linked
  <2> QED BY <1>1, <2>1, <2>2, <2>5, <2>7, MappingAssumption
<1> HIDE DEF A, B
<1>6. IsFiniteSet(A) /\ Cardinality(A) \in Nat
  BY TakenFinite DEF A
<1>7. Cardinality(A \union B) = Cardinality(A) + Cardinality(B) - Cardinality(A \cap B)
  BY <1>3, <1>6, FS_Union
<1>8. Cardinality(A \cap B) = 0
  BY <1>5, FS_EmptySet
<1>9. h[x].size \in Int
  BY <1>2
<1>10. Cardinality(A \union B) = Cardinality(A) + h[x].size
  BY <1>3, <1>6, <1>7, <1>8, <1>9
<1> QED BY <1>4, <1>10 DEF A

LEMMA UsedCount ==
  ASSUME IsFiniteSet(Sheets), NEW u, Whole(u), NEW x
  PROVE  Cardinality(Taken(u.hdr, UsedIn(u.hdr)))
           = Cardinality(Taken(u.hdr, UsedIn(u.hdr) \ {x})) + SizeAt(u, x)
<1>1. Linked(u.hdr)
  BY DEF Whole
<1>2. CASE x \in UsedIn(u.hdr)
  <2> DEFINE R == UsedIn(u.hdr) \ {x}
  <2>1. R \subseteq DOMAIN u.hdr \ {x} /\ x \in DOMAIN u.hdr /\ UsedIn(u.hdr) = R \union {x}
    BY <1>2 DEF UsedIn
  <2> HIDE DEF R
  <2>2. Cardinality(Taken(u.hdr, R \union {x})) = Cardinality(Taken(u.hdr, R)) + u.hdr[x].size
    BY <1>1, <2>1, TakenMore
  <2> QED BY <1>2, <2>1, <2>2 DEF R, SizeAt
<1>3. CASE x \notin UsedIn(u.hdr)
  <2>1. UsedIn(u.hdr) \ {x} = UsedIn(u.hdr)
    BY <1>3
  <2>2. Cardinality(Taken(u.hdr, UsedIn(u.hdr))) \in Nat
    BY TakenFinite
  <2> QED BY <1>3, <2>1, <2>2 DEF SizeAt
<1> QED BY <1>2, <1>3

LEMMA KeepsExact ==
  ASSUME IsFiniteSet(Sheets), NEW u, Whole(u), Exact(u), NEW v, Whole(v), NEW x, Keeps(u, v, x),
         v.allocated = u.allocated - SizeAt(u, x) + SizeAt(v, x)
  PROVE  Exact(v)
<1> DEFINE R == UsedIn(u.hdr) \ {x}
<1>1. Taken(u.hdr, R) = Taken(v.hdr, R)
  BY DEF Taken, EndOf, Keeps
<1>2. R = UsedIn(v.hdr) \ {x}
  BY DEF Keeps
<1>3. /\ Cardinality(Taken(u.hdr, UsedIn(u.hdr))) = Cardinality(Taken(u.hdr, R)) + SizeAt(u, x)
      /\ Cardinality(Taken(v.hdr, UsedIn(v.hdr))) = Cardinality(Taken(v.hdr, R)) + SizeAt(v, x)
  BY <1>2, UsedCount
<1>4. \A w : Whole(w) => SizeAt(w, x) \in Int
  <2> SUFFICES ASSUME NEW w, Whole(w), x \in UsedIn(w.hdr) PROVE w.hdr[x].size \in Int
    BY DEF SizeAt
  <2>1. Linked(w.hdr) /\ x \in DOMAIN w.hdr
    BY DEF Whole, UsedIn
  <2> QED BY <2>1, SizeTyped
<1>5. Cardinality(Taken(u.hdr, R)) \in Nat
  BY TakenFinite
<1> HIDE DEF R
<1> QED BY <1>1, <1>3, <1>4, <1>5 DEF Exact

LEMMA SameUseExact ==
  ASSUME NEW u, Exact(u), NEW v, SameUse(u, v), v.allocated = u.allocated
  PROVE  Exact(v)
<1>1. Taken(v.hdr, UsedIn(v.hdr)) = Taken(u.hdr, UsedIn(u.hdr))
  BY DEF Taken, EndOf, SameUse
<1> QED BY <1>1 DEF Exact

LEMMA AllocateExact ==
  ASSUME IsFiniteSet(Sheets), NEW u, Whole(u), Exact(u), NEW n \in Nat, Fit(u, n) # NullOff
  PROVE  Exact(Allocate(u, n))
<1> DEFINE x == Fit(u, n)
           v == Allocate(u, n)
<1>1. x \in FreeIn(u.hdr) /\ Whole(v) /\ Keeps(u, v, x) /\ x \in UsedIn(v.hdr)
  BY AllocateWhole DEF Uses
<1>2. v.allocated = u.allocated + v.hdr[x].size
  <2>1. v = TakeFrom(u, x, u.hdr[x].size, Adjusted(n))
    BY Zenon DEF Allocate, TakeAt
  <2>2. IsState(u)
    BY DEF Whole
  <2> HIDE DEF v, x
  <2> QED BY <2>1, <2>2, TakeCounter
<1> HIDE DEF v, x
<1>3. SizeAt(u, x) = 0 /\ SizeAt(v, x) = v.hdr[x].size
  BY <1>1 DEF SizeAt, FreeIn, UsedIn
<1>4. u.allocated \in Int
  BY DEF Whole
<1> QED BY <1>1, <1>2, <1>3, <1>4, KeepsExact DEF v

LEMMA MoveExact ==
  ASSUME IsFiniteSet(Sheets), NEW u, Whole(u), Exact(u), NEW x \in UsedIn(u.hdr), NEW N, NEW a,
         IsWidened(u, x, N, a), NEW take \in Int, take >= MinUnits,
         NEW span, span = u.hdr[x].size + a.size, take = span \/ span - take >= MinUnits
  PROVE  Exact(MoveEnd(a.t, x, span, take))
<1> DEFINE v == MoveEnd(a.t, x, span, take)
<1>1. Whole(v) /\ Keeps(u, v, x) /\ x \in UsedIn(v.hdr) /\ v.hdr[x].size = take
  BY MoveEndWhole DEF Uses
<1>2. IsState(a.t) /\ a.t.allocated = u.allocated /\ a.t.hdr[x] = u.hdr[x]
  BY DEF IsWidened, SameBut, UsedIn
<1>3. v.allocated = u.allocated + (take - u.hdr[x].size)
  BY <1>2, MoveCounter
<1>4. SizeAt(u, x) = u.hdr[x].size /\ SizeAt(v, x) = take
  BY <1>1 DEF SizeAt
<1>5. u.allocated \in Int /\ u.hdr[x].size \in Int
  <2>1. Linked(u.hdr) /\ x \in DOMAIN u.hdr /\ u.allocated \in Int
    BY DEF Whole, UsedIn
  <2> QED BY <2>1, SizeTyped
<1> HIDE DEF v
<1> QED BY <1>1, <1>3, <1>4, <1>5, KeepsExact DEF v

LEMMA ShrinkExact ==
  ASSUME IsFiniteSet(Sheets), NEW u, Whole(u), Exact(u), NEW x \in UsedIn(u.hdr),
         NEW n \in Nat, CanShrink(u, x, n)
  PROVE  Exact(Shrink(u, x, n))
<1> DEFINE bs   == u.hdr[x].size
           a    == Absorbed(u, NextTo(x, bs))
           take == Adjusted(n)
           span == bs + a.size
<1>1. CASE bs - take < MinUnits
  <2>1. Shrink(u, x, n) = u
    BY <1>1, Zenon DEF Shrink
  <2> QED BY <2>1
<1>2. CASE ~ (bs - take < MinUnits)
  <2> DEFINE v == Shrink(u, x, n)
  <2>1. v = MoveEnd(a.t, x, span, take)
    BY <1>2, Zenon DEF Shrink
  <2>2. take \in Int /\ take >= MinUnits
    BY Granted DEF CanShrink
  <2>3. PICK N : IsWidened(u, x, N, a)
    BY WholeSound, Widen
  <2>4. bs \in Int
    BY SizeTyped DEF Whole, UsedIn
  <2>5. a.size \in Nat
    BY <2>3 DEF IsWidened
  <2> HIDE DEF take, a, v
  <2>6. span - take >= MinUnits
    BY <1>2, <2>2, <2>4, <2>5, Units16
  <2> QED BY <2>1, <2>2, <2>3, <2>6, MoveExact DEF v
<1> QED BY <1>1, <1>2

LEMMA GrowExact ==
  ASSUME IsFiniteSet(Sheets), NEW u, Whole(u), Exact(u), NEW x \in UsedIn(u.hdr),
         NEW n \in Nat, CanGrow(u, x, n)
  PROVE  Exact(Grow(u, x, n))
<1> DEFINE bs   == u.hdr[x].size
           a    == Absorbed(u, NextTo(x, bs))
           need == Adjusted(n)
           span == bs + a.size
           take == IF span - need >= MinUnits THEN need ELSE span
<1>1. CASE need <= bs
  <2>1. Grow(u, x, n) = u
    BY <1>1, Zenon DEF Grow
  <2> QED BY <2>1
<1>2. CASE ~ (need <= bs)
  <2> DEFINE v == Grow(u, x, n)
  <2>1. v = MoveEnd(a.t, x, span, take)
    BY <1>2, Zenon DEF Grow
  <2>2. need \in Int /\ need >= MinUnits
    BY Granted DEF CanGrow
  <2>3. PICK N : IsWidened(u, x, N, a)
    BY WholeSound, Widen
  <2>4. span \in MinUnits .. DataUnits
    BY <2>3 DEF IsWidened
  <2> HIDE DEF need, a, span, v
  <2>5. take \in Int /\ take >= MinUnits /\ (take = span \/ span - take >= MinUnits)
    BY <2>2, <2>4, MappingAssumption, Units16
  <2> HIDE DEF take
  <2> QED BY <2>1, <2>3, <2>5, MoveExact DEF v, span
<1> QED BY <1>1, <1>2

LEMMA DeallocateExact ==
  ASSUME IsFiniteSet(Sheets), NEW u, Whole(u), Exact(u), NEW x \in UsedIn(u.hdr)
  PROVE  Exact(Deallocate(u, x))
<1> DEFINE v == Deallocate(u, x)
<1>1. Whole(v) /\ Keeps(u, v, x) /\ x \notin UsedIn(v.hdr)
  BY DeallocateWhole
<1>2. v.allocated = u.allocated - u.hdr[x].size
  BY DeallocateCounter DEF Whole
<1>3. SizeAt(u, x) = u.hdr[x].size /\ SizeAt(v, x) = 0
  BY <1>1 DEF SizeAt
<1>4. u.allocated \in Int /\ u.hdr[x].size \in Int
  <2>1. Linked(u.hdr) /\ x \in DOMAIN u.hdr /\ u.allocated \in Int
    BY DEF Whole, UsedIn
  <2> QED BY <2>1, SizeTyped
<1> HIDE DEF v
<1> QED BY <1>1, <1>2, <1>3, <1>4, KeepsExact DEF v

LEMMA EmptyExact == Exact(EmptyTlsf)
<1>1. EmptyTlsf.allocated = 0 /\ UsedIn(EmptyTlsf.hdr) = {}
  BY DEF EmptyTlsf, UsedIn
<1>2. Taken(EmptyTlsf.hdr, {}) = {}
  BY DEF Taken
<1> QED BY <1>1, <1>2, FS_EmptySet DEF Exact

(***************************************************************************)
(* The headers are a table: a function from the places where a block       *)
(* starts, written one place at a time.                                    *)
(***************************************************************************)
Table(h) == h = [x \in DOMAIN h |-> h[x]]

LEMMA Tables ==
  ASSUME NEW h, NEW x, NEW e
  PROVE  /\ Table(Put(h, x, e)) /\ Table(Drop(h, x))
         /\ Table(h) => Table(SetPrev(h, x, e)) /\ Table(Resized(h, x, e))
<1>1. Table(Put(h, x, e)) /\ Table(Drop(h, x))
  BY DEF Table, Put, Drop
<1>2. ASSUME Table(h) PROVE Table(SetPrev(h, x, e)) /\ Table(Resized(h, x, e))
  BY <1>2 DEF Table, SetPrev, Resized
<1> QED BY <1>1, <1>2

LEMMA InsertTable ==
  ASSUME NEW u, IsState(u), NEW x, NEW size
  PROVE  InsertFree(u, x, size).hdr = u.hdr
<1> DEFINE hs == [u.heads EXCEPT ![ClassOf[size]] = <<x>> \o @]
           sl == u.sl \union {ClassOf[size]}
           fl == u.fl \union {ClassOf[size][1]}
<1>1. InsertFree(u, x, size) = [u EXCEPT !.heads = hs, !.sl = sl, !.fl = fl]
  BY Zenon DEF InsertFree
<1> HIDE DEF hs, sl, fl
<1> QED BY <1>1 DEF IsState

LEMMA AbsorbTable ==
  ASSUME NEW u, IsState(u), Table(u.hdr), NEW x
  PROVE  Table(Absorbed(u, x).t.hdr)
<1> DEFINE w == RemoveFree(u, x, u.hdr[x].size)
           k == Drop(w.hdr, x)
<1>1. Absorbed(u, x).t = u \/ Absorbed(u, x).t = [w EXCEPT !.hdr = k]
  BY Zenon DEF Absorbed
<1>2. IsState(w)
  BY RemoveCounter DEF SameCounter
<1>3. Table(k)
  BY Tables
<1> HIDE DEF w, k
<1>4. [w EXCEPT !.hdr = k].hdr = k
  BY <1>2 DEF IsState
<1> QED BY <1>1, <1>3, <1>4

LEMMA SplitTable ==
  ASSUME NEW u, IsState(u), NEW x, NEW bs, NEW take
  PROVE  Table(SplitRest(u, x, bs, take).hdr)
<1> DEFINE k == Put(SetPrev(u.hdr, NextTo(x, bs), NextTo(x, take)[2]),
                    NextTo(x, take), Hdr(bs - take, FALSE, x[2]))
           w == [u EXCEPT !.hdr = k]
<1>1. SplitRest(u, x, bs, take) = InsertFree(w, NextTo(x, take), bs - take)
  BY Zenon DEF SplitRest
<1>2. Table(k)
  BY Tables
<1> HIDE DEF k
<1>3. IsState(w) /\ w.hdr = k
  BY DEF IsState
<1> HIDE DEF w
<1>4. InsertFree(w, NextTo(x, take), bs - take).hdr = k
  BY <1>3, InsertTable
<1> QED BY <1>1, <1>2, <1>4

LEMMA ClaimTable ==
  ASSUME NEW u, IsState(u), NEW x, NEW take
  PROVE  Table(Claim(u, x, take).hdr)
<1> DEFINE k == Put(u.hdr, x, Hdr(take, TRUE, u.hdr[x].prev))
           m == u.marks \union {x}
           al == u.allocated + take
<1>1. Claim(u, x, take) = [u EXCEPT !.hdr = k, !.marks = m, !.allocated = al]
  BY Zenon DEF Claim
<1>2. Table(k)
  BY Tables
<1> HIDE DEF k, m, al
<1>3. [u EXCEPT !.hdr = k, !.marks = m, !.allocated = al].hdr = k
  BY DEF IsState
<1> QED BY <1>1, <1>2, <1>3

LEMMA AllocateTable ==
  ASSUME NEW u, IsState(u), NEW n
  PROVE  Table(Allocate(u, n).hdr)
<1> DEFINE x == Fit(u, n)
           bs == u.hdr[x].size
           need == Adjusted(n)
           w == RemoveFree(u, x, bs)
           z == SplitRest(w, x, bs, need)
<1>1. Allocate(u, n) = Claim(z, x, need) \/ Allocate(u, n) = Claim(w, x, bs)
  BY Zenon DEF Allocate, TakeAt, TakeFrom
<1> HIDE DEF x, bs, need
<1>2. IsState(w)
  BY RemoveCounter DEF SameCounter
<1> HIDE DEF w
<1>3. IsState(z)
  BY <1>2, SplitCounter DEF SameCounter
<1> HIDE DEF z
<1>4. Table(Claim(z, x, need).hdr) /\ Table(Claim(w, x, bs).hdr)
  BY <1>2, <1>3, ClaimTable
<1> QED BY <1>1, <1>4

LEMMA MoveTable ==
  ASSUME NEW u, IsState(u), Table(u.hdr), NEW x, NEW span, NEW take
  PROVE  Table(MoveEnd(u, x, span, take).hdr)
<1> DEFINE k  == Resized(u.hdr, x, take)
           al == u.allocated + (take - u.hdr[x].size)
           w  == [u EXCEPT !.hdr = k, !.allocated = al]
           e  == SetPrev(w.hdr, NextTo(x, span), x[2])
<1>1. MoveEnd(u, x, span, take) \in {[w EXCEPT !.hdr = e], SplitRest(w, x, span, take)}
  BY Zenon DEF MoveEnd
<1>2. Table(k)
  BY Tables
<1> HIDE DEF k, al
<1>3. IsState(w) /\ w.hdr = k
  BY DEF IsState
<1> HIDE DEF w
<1>4. Table(e)
  BY <1>2, <1>3, Tables
<1> HIDE DEF e
<1>5. [w EXCEPT !.hdr = e].hdr = e
  BY <1>3 DEF IsState
<1>6. Table(SplitRest(w, x, span, take).hdr)
  BY <1>3, SplitTable
<1> QED BY <1>1, <1>4, <1>5, <1>6

LEMMA ResizeTable ==
  ASSUME NEW u, IsState(u), Table(u.hdr), NEW x, NEW n
  PROVE  Table(Shrink(u, x, n).hdr) /\ Table(Grow(u, x, n).hdr)
<1> DEFINE bs == u.hdr[x].size
           a  == Absorbed(u, NextTo(x, bs))
           w  == a.t
           span == bs + a.size
           wide == IF span - Adjusted(n) >= MinUnits THEN Adjusted(n) ELSE span
<1>1. /\ Shrink(u, x, n) \in {u, MoveEnd(w, x, span, Adjusted(n))}
      /\ Grow(u, x, n) \in {u, MoveEnd(w, x, span, wide)}
  BY Zenon DEF Shrink, Grow
<1>2. IsState(w) /\ Table(w.hdr)
  BY AbsorbCounter, AbsorbTable DEF SameCounter
<1> HIDE DEF w, span, wide
<1>3. /\ Table(MoveEnd(w, x, span, Adjusted(n)).hdr)
      /\ Table(MoveEnd(w, x, span, wide).hdr)
  BY <1>2, MoveTable
<1> QED BY <1>1, <1>3

LEMMA DeallocateTable ==
  ASSUME NEW u, IsState(u), NEW x
  PROVE  Table(Deallocate(u, x).hdr)
<1> DEFINE bs == u.hdr[x].size
           ms == u.marks \ {x}
           al == u.allocated - bs
           w  == [u EXCEPT !.marks = ms, !.allocated = al]
           a  == Absorbed(w, NextTo(x, bs))
           b  == Absorbed(a.t, BlockPrev(u, x))
           y  == IF b.size > 0 THEN BlockPrev(u, x) ELSE x
           size == bs + a.size + b.size
           p  == Put(Drop(b.t.hdr, x), y, Hdr(size, FALSE, u.hdr[y].prev))
           k  == SetPrev(p, NextTo(y, size), y[2])
           c  == b.t
           d  == [c EXCEPT !.hdr = k]
<1>1. Deallocate(u, x) = InsertFree(d, y, size)
  BY Zenon DEF Deallocate
<1>2. Table(p)
  BY Tables
<1> HIDE DEF p
<1>3. Table(k)
  BY <1>2, Tables
<1> HIDE DEF k, ms, al, y, size
<1>4. IsState(w)
  BY DEF IsState
<1> HIDE DEF w
<1>5. IsState(a.t)
  BY <1>4, AbsorbCounter DEF SameCounter
<1> HIDE DEF a
<1>6. IsState(c)
  BY <1>5, AbsorbCounter DEF SameCounter
<1> HIDE DEF b, c
<1>7. IsState(d) /\ d.hdr = k
  BY <1>6 DEF IsState
<1> HIDE DEF d
<1>8. InsertFree(d, y, size).hdr = k
  BY <1>7, InsertTable
<1> QED BY <1>1, <1>3, <1>8

LEMMA SheetTable ==
  ASSUME NEW u, IsState(u), NEW s
  PROVE  Table(AddSheet(u, s).hdr) /\ Table(RemoveSheet(u, s).hdr)
<1> DEFINE x  == <<s, 0>>
           k  == Put(u.hdr, x, Hdr(DataUnits, FALSE, -1))
           ms == {z \in u.marks : z[1] # s}
           c  == u.count + 1
           w  == [u EXCEPT !.hdr = k, !.marks = ms, !.count = c]
           v  == RemoveFree(u, x, DataUnits)
           e  == Drop(v.hdr, x)
           d  == v.count - 1
<1>1. AddSheet(u, s) = InsertFree(w, x, DataUnits)
  BY Zenon DEF AddSheet
<1>2. RemoveSheet(u, s) = [v EXCEPT !.hdr = e, !.count = d]
  BY Zenon DEF RemoveSheet
<1>3. Table(k) /\ Table(e)
  BY Tables
<1> HIDE DEF k, ms, c, x
<1>4. IsState(w) /\ w.hdr = k
  BY DEF IsState
<1>5. IsState(v)
  BY RemoveCounter DEF SameCounter
<1> HIDE DEF w, v, e, d
<1>6. InsertFree(w, x, DataUnits).hdr = k
  BY <1>4, InsertTable
<1>7. [v EXCEPT !.hdr = e, !.count = d].hdr = e
  BY <1>5 DEF IsState
<1> QED BY <1>1, <1>2, <1>3, <1>6, <1>7

(* Without a sheet there is no block, and the tier is as reset left it. *)
LEMMA NoSheets ==
  ASSUME NEW u, Whole(u), Exact(u), Table(u.hdr), SheetsOf(u) = {}, u.count = 0
  PROVE  u = EmptyTlsf
<1>1. /\ IsState(u) /\ Listed(u, FreeIn(u.hdr), u.hdr) /\ u.marks = UsedIn(u.hdr)
      /\ u.allocated = Cardinality(Taken(u.hdr, UsedIn(u.hdr)))
  BY DEF Whole, Exact
<1>2. DOMAIN u.hdr = {}
  BY DEF SheetsOf
<1>3. u.hdr = <<>>
  BY <1>2 DEF Table
<1>4. FreeIn(u.hdr) = {} /\ UsedIn(u.hdr) = {}
  BY <1>2 DEF FreeIn, UsedIn
<1>5. u.allocated = 0
  <2>1. Taken(u.hdr, UsedIn(u.hdr)) = {}
    BY <1>4 DEF Taken
  <2> QED BY <1>1, <2>1, FS_EmptySet
<1>6. u.heads = [c \in Classes |-> <<>>]
  <2> SUFFICES ASSUME NEW c \in Classes PROVE u.heads[c] = <<>>
    BY <1>1 DEF Listed
  <2>1. u.heads[c] \in Seq(Places) /\ {u.heads[c][i] : i \in DOMAIN u.heads[c]} = {}
    BY <1>1, <1>4 DEF Listed
  <2> DEFINE list == u.heads[c]
  <2>2. list \in Seq(Places) /\ DOMAIN list = {}
    BY <2>1
  <2> HIDE DEF list
  <2>3. Len(list) = 0
    BY <2>2
  <2>4. list = <<>>
    BY <2>2, <2>3
  <2> QED BY <2>4 DEF list
<1>7. u.sl = {} /\ u.fl = {}
  BY <1>1, <1>6 DEF Listed
<1> QED BY <1>1, <1>3, <1>4, <1>5, <1>6, <1>7 DEF IsState, EmptyTlsf

-----------------------------------------------------------------------------
(***************************************************************************)
(* The specification.                                                      *)
(***************************************************************************)
LEMMA StepWhole ==
  ASSUME Whole(t), [Next]_t
  PROVE  Whole(t')
<1>1. CASE t' = t
  BY <1>1
<1>2. CASE Next
  <2>1. ASSUME NEW s \in Sheets, DoAddSheet(s) PROVE Whole(t')
    BY <2>1, AddSheetWhole DEF DoAddSheet
  <2>2. ASSUME NEW s \in Sheets, DoRemoveSheet(s) PROVE Whole(t')
    BY <2>2, RemoveSheetWhole DEF DoRemoveSheet
  <2>3. ASSUME NEW n \in Requests, DoAllocate(n) PROVE Whole(t')
    BY <2>3, AllocateWhole, RequestsAssumption DEF DoAllocate
  <2>4. ASSUME NEW x \in Places, DoDeallocate(x) PROVE Whole(t')
    BY <2>4, OwnedInUse, DeallocateWhole DEF DoDeallocate
  <2>5. ASSUME NEW x \in Places, NEW n \in Requests, DoShrink(x, n) PROVE Whole(t')
    BY <2>5, OwnedInUse, ShrinkWhole, RequestsAssumption DEF DoShrink
  <2>6. ASSUME NEW x \in Places, NEW n \in Requests, DoGrow(x, n) PROVE Whole(t')
    BY <2>6, OwnedInUse, GrowWhole, RequestsAssumption DEF DoGrow
  <2> QED BY <1>2, <2>1, <2>2, <2>3, <2>4, <2>5, <2>6 DEF Next
<1> QED BY <1>1, <1>2

Invariant == Whole(t)

LEMMA AlwaysWhole == Spec => []Invariant
<1>1. Init => Invariant
  BY EmptyWhole DEF Init, Invariant
<1>2. Invariant /\ [Next]_t => Invariant'
  BY StepWhole DEF Invariant
<1> QED BY <1>1, <1>2, PTL DEF Spec

(* The headers of every sheet form one chain from sentinel to sentinel,
   forwards by size and backwards by prev_phys, after any calls. *)
THEOREM Chained == Spec => []ChainIntact
<1>1. Invariant => ChainIntact
  <2> SUFFICES ASSUME Invariant PROVE ChainIntact
    OBVIOUS
  <2>1. /\ Linked(t.hdr) /\ Listed(t, FreeIn(t.hdr), t.hdr) /\ t.marks = UsedIn(t.hdr)
        /\ t.count \in 0 .. MaxSheets /\ t.allocated \in Int
    BY DEF Invariant, Whole
  <2>2. TypeOK
    <3>1. /\ DOMAIN t.hdr \subseteq Places
          /\ \A x \in DOMAIN t.hdr :
               t.hdr[x] \in [size : MinUnits .. DataUnits, used : BOOLEAN, prev : -1 .. DataUnits - 1]
      BY <2>1 DEF Linked, Headers
    <3>2. /\ DOMAIN t.heads = Classes
          /\ t.sl \subseteq Classes /\ t.fl = {c[1] : c \in t.sl}
      BY <2>1 DEF Listed
    <3>3. t.fl \subseteq 0 .. FlCount - 1
      BY <3>2 DEF Classes
    <3>4. t.marks \subseteq Places
      BY <2>1, <3>1 DEF UsedIn
    <3> QED BY <2>1, <3>1, <3>2, <3>3, <3>4 DEF TypeOK
  <2>3. PhysicallyLinked(t)
    BY WholeChained DEF Invariant
  <2> QED BY <2>2, <2>3 DEF ChainIntact
<1> QED BY <1>1, AlwaysWhole, PTL

(* No two free blocks touch. *)
THEOREM Coalesced == Spec => []NoFreeNeighbours
<1>1. Invariant => NoFreeNeighbours
  BY WholeApart DEF Invariant, NoFreeNeighbours
<1> QED BY <1>1, AlwaysWhole, PTL

(* The lists hold exactly the free blocks, each in the list of its size, and
   the bitmaps name exactly the lists that hold something. *)
THEOREM Consistent == Spec => []ListsConsistent
<1>1. Invariant => ListsConsistent
  BY WholeListed DEF Invariant, ListsConsistent
<1> QED BY <1>1, AlwaysWhole, PTL

(* A pointer is known to owns_len exactly if its block is in use: nothing is
   freed twice, and no pointer into the middle of a block is freed. *)
THEOREM OwnedLive == Spec => []OwnsExactlyLive
<1>1. Invariant => OwnsExactlyLive
  BY OwnedInUse DEF Invariant, OwnsExactlyLive, UsedIn, UsedBlocks
<1> QED BY <1>1, AlwaysWhole, PTL

(***************************************************************************)
(* What a request is granted.                                              *)
(***************************************************************************)
LEMMA HighestIn ==
  ASSUME NEW b \in Nat, NEW S \in SUBSET (0 .. b), S # {}
  PROVE  Highest(S) \in S /\ \A j \in S : j <= Highest(S)
<1> DEFINE T == {b - j : j \in S}
<1>1. T \subseteq Nat /\ T # {}
  <2>1. \A j \in S : b - j \in Nat
    <3> SUFFICES ASSUME NEW j \in S PROVE b - j \in Nat
      OBVIOUS
    <3>1. j \in 0 .. b
      OBVIOUS
    <3> QED BY <3>1
  <2> QED BY <2>1
<1>2. PICK m \in T : \A i \in T : m <= i
  <2> HIDE DEF T
  <2> QED BY <1>1, LeastElement
<1>3. PICK i \in S : m = b - i
  BY <1>2
<1>4. \A j \in S : j <= i
  <2> SUFFICES ASSUME NEW j \in S PROVE j <= i
    OBVIOUS
  <2>1. m <= b - j
    BY <1>2
  <2> QED BY <1>3, <2>1
<1> QED BY <1>4 DEF Highest

(* The list that largest_free looks at: the last that holds something. *)
LEMMA LastList ==
  ASSUME NEW u, Listed(u, FreeIn(u.hdr), u.hdr)
  PROVE  IF u.fl = {} THEN u.sl = {} /\ LargestFree(u) = 0
         ELSE \E c \in u.sl : /\ LargestFree(u) = u.hdr[Head(u.heads[c])].size - 1
                              /\ \A d \in u.sl : ~ Before(c, d)
<1>1. u.sl \subseteq Classes /\ u.fl = {c[1] : c \in u.sl}
  BY DEF Listed
<1>2. CASE u.fl = {}
  BY <1>1, <1>2 DEF LargestFree
<1>3. CASE u.fl # {}
  <2> DEFINE f == Highest(u.fl)
             seconds == {d[2] : d \in {e \in u.sl : e[1] = f}}
             g == Highest(seconds)
             c == <<f, g>>
  <2>1. /\ \A d \in u.sl : d = <<d[1], d[2]>> /\ d[1] \in 0 .. FlCount - 1 /\ d[2] \in 0 .. SlCount - 1
        /\ SlCount - 1 \in Nat
    BY <1>1, MappingNumbers DEF Classes
  <2>2. f \in u.fl /\ \A j \in u.fl : j <= f
    <3>1. PICK b \in Nat : u.fl \subseteq 0 .. b
      <4>1. FlCount \in Int
        <5>1. DataBytes \in 1 .. 4 * DataBytes
          BY MappingNumbers
        <5> QED BY <5>1, LogFacts, MappingNumbers DEF FlCount
      <4>2. u.fl \subseteq 0 .. FlCount - 1
        BY <1>1, <2>1
      <4>3. FlCount - 1 \in Nat
        BY <1>3, <4>1, <4>2
      <4> QED BY <4>2, <4>3
    <3> QED BY <1>3, <3>1, HighestIn
  <2> HIDE DEF f
  <2>3. g \in seconds /\ \A j \in seconds : j <= g
    <3>1. seconds # {} /\ seconds \in SUBSET (0 .. SlCount - 1)
      BY <1>1, <2>1, <2>2
    <3> HIDE DEF seconds
    <3>2. PICK b \in Nat : b = SlCount - 1
      BY <2>1
    <3> QED BY <3>1, <3>2, HighestIn
  <2> HIDE DEF g
  <2>4. c \in u.sl
    <3>1. PICK e \in u.sl : e[1] = f /\ g = e[2]
      BY <2>3
    <3> QED BY <2>1, <3>1
  <2>5. LargestFree(u) = u.hdr[Head(u.heads[c])].size - 1
    BY <1>3, Zenon DEF LargestFree, f, g
  <2>6. ASSUME NEW d \in u.sl PROVE ~ Before(c, d)
    <3>1. d[1] <= f /\ (d[1] = f => d[2] <= g)
      BY <1>1, <2>2, <2>3
    <3>2. f \in Int /\ g \in Int /\ d[1] \in Int /\ d[2] \in Int
      BY <2>1, <2>4
    <3>3. c[1] = f /\ c[2] = g
      OBVIOUS
    <3> HIDE DEF c
    <3> QED BY <3>1, <3>2, <3>3 DEF Before
  <2> HIDE DEF c
  <2> QED BY <1>3, <2>4, <2>5, <2>6
<1> QED BY <1>2, <1>3

LEMMA Limit ==
  ASSUME NEW u, Whole(u), NEW n \in 1 .. DataUnits - 1
  PROVE  Fit(u, n) # NullOff <=> n <= LargestFree(u)
<1> DEFINE h == u.hdr
<1>1. Linked(h) /\ Listed(u, FreeIn(h), h)
  BY DEF Whole
<1>2. PICK m \in MinUnits .. DataUnits : m = n + 1 /\ n \in Nat
  BY Units16, MappingAssumption
<1>3. u.sl = {c \in Classes : u.heads[c] # <<>>}
  BY <1>1 DEF Listed
<1>4. Fit(u, n) # NullOff <=>
        \/ \E d \in u.sl : ~ Before(d, Search[m])
        \/ u.heads[ClassOf[m]] # <<>> /\ h[Head(u.heads[ClassOf[m]])].size >= m
  BY <1>2, FitFound
<1>5. ClassOf[m] \in Classes
  BY ClassInTable
<1>6. CASE u.fl = {}
  <2>1. u.sl = {} /\ LargestFree(u) = 0
    BY <1>1, <1>6, LastList
  <2> QED BY <1>2, <1>3, <1>4, <1>5, <2>1
<1>7. CASE u.fl # {}
  <2>1. PICK c \in u.sl : /\ LargestFree(u) = h[Head(u.heads[c])].size - 1
                          /\ \A d \in u.sl : ~ Before(c, d)
    BY <1>1, <1>7, LastList
  <2> DEFINE y == Head(u.heads[c])
  <2>2. u.heads[c] # <<>> /\ c \in Classes /\ u.heads[c] \in Seq(Places)
    BY <1>1, <1>3 DEF Listed
  <2>3. y \in FreeIn(h) /\ ClassOf[h[y].size] = c
    <3>1. 1 \in DOMAIN u.heads[c] /\ y = u.heads[c][1]
      BY <2>2
    <3> HIDE DEF y
    <3> QED BY <1>1, <2>2, <3>1 DEF Listed
  <2> HIDE DEF y
  <2>4. PICK sy \in MinUnits .. DataUnits : sy = h[y].size
    <3>1. h[y] \in Headers
      BY <1>1, <2>3 DEF FreeIn, Linked
    <3> QED BY <3>1 DEF Headers
  <2>5. n <= LargestFree(u) <=> m <= sy
    BY <1>2, <2>1, <2>4, Units16, MappingAssumption DEF y
  <2>6. ClassOf[sy] = c
    BY <2>3, <2>4
  <2>7. \A d \in Classes : d = <<d[1], d[2]>> /\ d[1] \in Nat /\ d[2] \in Nat
    BY MappingNumbers DEF Classes
  <2>8. ASSUME m <= sy PROVE Fit(u, n) # NullOff
    <3>1. CASE ~ Before(c, Search[m])
      BY <1>4, <3>1
    <3>2. CASE Before(c, Search[m])
      <4>1. ClassOf[m] = c
        BY <2>6, <2>8, <3>2, SearchUnits
      <4> QED BY <1>4, <2>2, <2>4, <2>8, <4>1 DEF y
    <3> QED BY <3>1, <3>2
  <2>9. ASSUME NEW d \in u.sl, ~ Before(d, Search[m]) PROVE m <= sy
    <3>1. ~ Before(c, Search[m])
      <4>1. Search[m][1] \in Nat /\ Search[m][2] \in Nat /\ ~ Before(c, d) /\ d \in Classes
        BY <1>3, <2>1, SearchUnits
      <4>2. c[1] \in Nat /\ c[2] \in Nat /\ d[1] \in Nat /\ d[2] \in Nat
        BY <2>2, <2>7, <4>1
      <4> QED BY <2>9, <4>1, <4>2 DEF Before
    <3> QED BY <2>6, <3>1, SearchUnits
  <2>10. ASSUME u.heads[ClassOf[m]] # <<>>, h[Head(u.heads[ClassOf[m]])].size >= m PROVE m <= sy
    <3>1. CASE ClassOf[m] = c
      BY <1>2, <2>4, <2>10, <3>1, Units16, MappingAssumption DEF y
    <3>2. CASE ClassOf[m] # c
      <4>1. ~ Before(c, ClassOf[m])
        BY <1>3, <1>5, <2>1, <2>10
      <4>2. Before(ClassOf[m], c)
        <5>1. PICK e \in Classes : e = ClassOf[m]
          BY <1>5
        <5>2. e[1] \in Nat /\ e[2] \in Nat /\ c[1] \in Nat /\ c[2] \in Nat /\ e # c
              /\ e = <<e[1], e[2]>> /\ c = <<c[1], c[2]>> /\ ~ Before(c, e)
          BY <2>2, <2>7, <3>2, <4>1, <5>1
        <5>3. Before(e, c)
          BY <5>2 DEF Before
        <5> QED BY <5>1, <5>3
      <4>3. m < sy
        BY <2>6, <4>2, SearchUnits
      <4> QED BY <4>3, Units16, MappingAssumption
    <3> QED BY <3>1, <3>2
  <2> QED BY <1>4, <2>5, <2>8, <2>9, <2>10
<1> QED BY <1>6, <1>7

(* largest_free() names the largest payload allocate() would grant now. *)
THEOREM LargestFreeIsLimit == Spec => []LargestFreeExact
<1>1. Invariant => LargestFreeExact
  BY Limit DEF Invariant, LargestFreeExact
<1> QED BY <1>1, AlwaysWhole, PTL

(* No request is refused while a block of the class where its search begins,
   or of a later class, is free. *)
THEOREM NoMissedFit == Spec => []GoodFit
<1>1. Invariant => GoodFit
  <2> SUFFICES ASSUME Invariant, NEW n \in 1 .. DataUnits - 1, NEW x \in FreeBlocks(t),
                      NEW c, NEW d, c = Search[n + 1], d = ClassOf[t.hdr[x].size],
                      c[1] < d[1] \/ (c[1] = d[1] /\ c[2] <= d[2])
               PROVE  Fit(t, n) # NullOff
    BY DEF GoodFit
  <2>1. Whole(t) /\ Linked(t.hdr) /\ Listed(t, FreeIn(t.hdr), t.hdr)
    BY DEF Invariant, Whole
  <2>2. n \in Nat /\ n + 1 \in MinUnits .. DataUnits
    BY Units16, MappingAssumption
  <2>3. x \in FreeIn(t.hdr) /\ t.hdr[x].size \in MinUnits .. DataUnits
    BY <2>1 DEF FreeBlocks, FreeIn, Linked, Headers
  <2>4. d \in Classes /\ d[1] \in Nat /\ d[2] \in Nat
    BY <2>3, ClassInTable, MappingNumbers DEF Classes
  <2>5. d \in t.sl
    <3>1. {t.heads[d][i] : i \in DOMAIN t.heads[d]} = {y \in FreeIn(t.hdr) : ClassOf[t.hdr[y].size] = d}
      BY <2>1, <2>4 DEF Listed
    <3>2. x \in {t.heads[d][i] : i \in DOMAIN t.heads[d]}
      BY <2>3, <3>1
    <3>3. t.heads[d] # <<>>
      BY <3>2
    <3> QED BY <2>1, <2>4, <3>3 DEF Listed
  <2>6. c[1] \in Nat /\ c[2] \in Nat
    BY <2>2, SearchUnits
  <2>7. ~ Before(d, c)
    BY <2>4, <2>6 DEF Before
  <2> QED BY <2>1, <2>2, <2>5, <2>7, FitFound
<1> QED BY <1>1, AlwaysWhole, PTL

(***************************************************************************)
(* The abstract specification.                                             *)
(***************************************************************************)
Slot(u, x) == <<x[1], x[2], u.hdr[x].size>>
LiveOf(u)  == {Slot(u, x) : x \in UsedIn(u.hdr)}

(* A call that touches x leaves the other blocks alone, and what x becomes
   keeps clear of them. *)
LEMMA Others ==
  ASSUME NEW u, Whole(u), NEW v, Whole(v), NEW x \in Places, Keeps(u, v, x)
  PROVE  \E R : /\ LiveOf(u) = R \union (IF x \in UsedIn(u.hdr) THEN {Slot(u, x)} ELSE {})
                /\ LiveOf(v) = R \union (IF x \in UsedIn(v.hdr) THEN {Slot(v, x)} ELSE {})
                /\ \A size : <<x[1], x[2], size>> \notin R
                /\ x \in UsedIn(v.hdr) => Store!Vacant(R, x[1], x[2], v.hdr[x].size)
<1> DEFINE h == u.hdr
           k == v.hdr
           R == {Slot(u, y) : y \in UsedIn(h) \ {x}}
<1>1. Linked(h) /\ Linked(k)
  BY DEF Whole
<1>2. UsedIn(k) \ {x} = UsedIn(h) \ {x} /\ \A y \in UsedIn(h) \ {x} : k[y].size = h[y].size
  BY DEF Keeps
<1>3. LiveOf(u) = R \union (IF x \in UsedIn(h) THEN {Slot(u, x)} ELSE {})
  BY DEF LiveOf
<1>4. R = {Slot(v, y) : y \in UsedIn(k) \ {x}}
  BY <1>2 DEF Slot
<1>5. LiveOf(v) = R \union (IF x \in UsedIn(k) THEN {Slot(v, x)} ELSE {})
  BY <1>4 DEF LiveOf
<1>6. \A size : <<x[1], x[2], size>> \notin R
  <2> SUFFICES ASSUME NEW size, NEW y \in UsedIn(h) \ {x}, <<x[1], x[2], size>> = Slot(u, y) PROVE FALSE
    OBVIOUS
  <2>1. y[1] = x[1] /\ y[2] = x[2]
    BY DEF Slot
  <2>2. y = <<y[1], y[2]>>
    BY <1>1, BlockName DEF UsedIn
  <2>3. x = <<x[1], x[2]>>
    BY DEF Places
  <2> QED BY <2>1, <2>2, <2>3
<1>7. ASSUME x \in UsedIn(k) PROVE Store!Vacant(R, x[1], x[2], k[x].size)
  <2>1. x \in DOMAIN k
    BY <1>7 DEF UsedIn
  <2>2. x[2] \in 0 .. DataUnits - 1 /\ EndOf(k, x) \in 0 .. DataUnits /\ k[x] \in Headers
    BY <1>1, <2>1, Neighbours, Zenon
  <2>3. PICK p \in Nat, a \in Nat : p = x[2] /\ a = k[x].size /\ p + a <= DataUnits
    BY <2>2, Units16, MappingAssumption DEF EndOf, Headers
  <2>4. Store!Span(p, a) \subseteq 0 .. DataUnits - 1
    BY <2>3, MappingAssumption DEF Store!Span
  <2>5. ASSUME NEW blk \in R, blk[1] = x[1]
        PROVE  Store!Span(blk[2], blk[3]) \cap Store!Span(p, a) = {}
    <3>1. PICK y \in UsedIn(h) \ {x} : blk = Slot(u, y)
      OBVIOUS
    <3>2. y \in DOMAIN k /\ k[y].size = h[y].size
      BY <1>2 DEF UsedIn
    <3>3. blk[1] = y[1] /\ blk[2] = y[2] /\ blk[3] = k[y].size
      BY <3>1, <3>2 DEF Slot
    <3>4. y[2] \in 0 .. DataUnits - 1 /\ k[y] \in Headers
      BY <1>1, <3>2, Neighbours, Zenon
    <3>5. PICK q \in Nat, b \in Nat : q = y[2] /\ b = k[y].size
      BY <3>4, Units16, MappingAssumption DEF Headers
    <3>6. p # q
      <4>1. y = <<y[1], y[2]>> /\ x = <<x[1], x[2]>>
        BY <1>1, <2>1, <3>2, BlockName
      <4> QED BY <2>3, <2>5, <3>3, <3>5, <4>1
    <3>7. (p < q => p + a <= q) /\ (q < p => q + b <= p)
      BY <1>1, <2>1, <2>3, <2>5, <3>2, <3>3, <3>5 DEF Linked, EndOf
    <3> QED BY <2>3, <3>3, <3>5, <3>6, <3>7 DEF Store!Span
  <2> HIDE DEF R, k
  <2> QED BY <2>3, <2>4, <2>5 DEF Store!Vacant
<1> QED BY <1>3, <1>5, <1>6, <1>7

LEMMA LiveIs == Live = LiveOf(t) /\ Live' = LiveOf(t')
BY DEF Live, LiveOf, Slot, UsedBlocks, UsedIn

LEMMA SameLive ==
  ASSUME NEW u, NEW v, SameUse(u, v)
  PROVE  LiveOf(v) = LiveOf(u)
BY DEF SameUse, LiveOf, Slot

(* Every call is one of SmallStore's, or leaves the blocks alone. *)
LEMMA StepImplements ==
  ASSUME Whole(t), Whole(t'), [Next]_t
  PROVE  [Store!Next]_<<SheetsOf(t), Live>>
<1>1. CASE t' = t
  <2>1. Live' = Live /\ SheetsOf(t)' = SheetsOf(t)
    BY <1>1, LiveIs DEF SheetsOf
  <2> QED BY <2>1
<1>2. ASSUME NEW s \in Sheets, DoAddSheet(s) PROVE Store!Next
  <2>1. /\ SheetsOf(t)' = SheetsOf(t) \union {s} /\ s \notin SheetsOf(t) /\ SameUse(t, t')
    <3>1. t.count < MaxSheets /\ s \notin SheetsOf(t) /\ t' = AddSheet(t, s)
      BY <1>2 DEF DoAddSheet
    <3>2. SheetsOf(t') = SheetsOf(t) \union {s} /\ SameUse(t, t')
      BY <3>1, AddSheetWhole
    <3> QED BY <3>1, <3>2 DEF SheetsOf
  <2>2. Live' = Live
    BY <2>1, SameLive, LiveIs
  <2> QED BY <2>1, <2>2 DEF Store!Next, Store!AddSheet
<1>3. ASSUME NEW s \in Sheets, DoRemoveSheet(s) PROVE Store!Next
  <2>1. t.count > 0 /\ s \in SheetsOf(t) /\ SheetEmpty(t, s) /\ t' = RemoveSheet(t, s)
    BY <1>3 DEF DoRemoveSheet
  <2>2. SheetsOf(t') = SheetsOf(t) \ {s} /\ SameUse(t, t')
    BY <2>1, RemoveSheetWhole
  <2>3. SheetsOf(t)' = SheetsOf(t) \ {s}
    BY <2>2 DEF SheetsOf
  <2>4. Live' = Live
    BY <2>2, SameLive, LiveIs
  <2>5. \A blk \in Live : blk[1] # s
    <3>1. \A y \in UsedIn(t.hdr) : y[1] # s
      BY <2>1, EmptySheet
    <3> QED BY <3>1, LiveIs DEF LiveOf, Slot
  <2> QED BY <2>1, <2>3, <2>4, <2>5 DEF Store!Next, Store!RemoveSheet
<1>4. ASSUME NEW n \in Requests, DoAllocate(n) PROVE Store!Next
  <2> DEFINE x == Fit(t, n)
  <2>1. Fit(t, n) # NullOff /\ t' = Allocate(t, n) /\ n \in Nat
    BY <1>4, RequestsAssumption DEF DoAllocate
  <2>2. /\ x \in FreeIn(t.hdr) /\ n + 1 \in MinUnits .. DataUnits
        /\ Keeps(t, t', x) /\ \E size \in n + 1 .. n + 2 : Uses(t', x, size)
    BY <2>1, AllocateWhole
  <2> HIDE DEF x
  <2>3. PICK size \in n + 1 .. n + 2 : Uses(t', x, size)
    BY <2>2
  <2>4. x \in Places /\ x \notin UsedIn(t.hdr) /\ x[1] \in SheetsOf(t)
    BY <2>2 DEF Whole, Linked, FreeIn, UsedIn, SheetsOf
  <2>5. PICK R : /\ LiveOf(t) = R /\ LiveOf(t') = R \union {Slot(t', x)}
                 /\ Slot(t', x) \notin R /\ Store!Vacant(R, x[1], x[2], size)
    <3>1. x \in UsedIn(t'.hdr) /\ t'.hdr[x].size = size
      BY <2>3 DEF Uses
    <3>2. PICK R : /\ LiveOf(t) = R \union (IF x \in UsedIn(t.hdr) THEN {Slot(t, x)} ELSE {})
                   /\ LiveOf(t') = R \union (IF x \in UsedIn(t'.hdr) THEN {Slot(t', x)} ELSE {})
                   /\ \A a : <<x[1], x[2], a>> \notin R
                   /\ x \in UsedIn(t'.hdr) => Store!Vacant(R, x[1], x[2], t'.hdr[x].size)
      BY <2>2, <2>4, Others
    <3> QED BY <2>4, <3>1, <3>2 DEF Slot
  <2> DEFINE blk == Slot(t', x)
  <2>6. blk[1] = x[1] /\ blk[2] = x[2] /\ blk[3] = size
    BY <2>3 DEF Slot, Uses
  <2> HIDE DEF blk
  <2>7. blk \in Live' \ Live /\ Live' = Live \union {blk}
    BY <2>5, LiveIs DEF blk
  <2>8. n \in Requests \ {0}
    BY <2>1, <2>2, Units16
  <2>9. UNCHANGED SheetsOf(t)
    BY <2>2 DEF Keeps, SheetsOf
  <2>10. Store!Vacant(Live, blk[1], blk[2], blk[3])
    BY <2>5, <2>6, LiveIs
  <2>11. Store!Allocate
    BY <2>3, <2>4, <2>6, <2>7, <2>8, <2>9, <2>10 DEF Store!Allocate
  <2> QED BY <2>11 DEF Store!Next
<1>5. ASSUME NEW x \in Places, DoDeallocate(x) PROVE Store!Next
  <2>1. x \in UsedIn(t.hdr) /\ t' = Deallocate(t, x)
    BY <1>5, OwnedInUse DEF DoDeallocate
  <2>2. Keeps(t, t', x) /\ x \notin UsedIn(t'.hdr)
    BY <2>1, DeallocateWhole
  <2>3. PICK R : LiveOf(t) = R \union {Slot(t, x)} /\ LiveOf(t') = R /\ Slot(t, x) \notin R
    <3>1. PICK R : /\ LiveOf(t) = R \union (IF x \in UsedIn(t.hdr) THEN {Slot(t, x)} ELSE {})
                   /\ LiveOf(t') = R \union (IF x \in UsedIn(t'.hdr) THEN {Slot(t', x)} ELSE {})
                   /\ \A a : <<x[1], x[2], a>> \notin R
      BY <2>2, Others
    <3> QED BY <2>1, <2>2, <3>1 DEF Slot
  <2>4. UNCHANGED SheetsOf(t)
    BY <2>2 DEF Keeps, SheetsOf
  <2> DEFINE blk == Slot(t, x)
  <2> HIDE DEF blk
  <2>5. blk \in Live /\ Live' = Live \ {blk}
    BY <2>3, LiveIs DEF blk
  <2> QED BY <2>4, <2>5 DEF Store!Next, Store!Deallocate
<1>6. ASSUME NEW x \in UsedIn(t.hdr), NEW n \in Requests, NEW size \in Nat,
             n >= 1, Keeps(t, t', x), Uses(t', x, size),
             size # t.hdr[x].size,
             size = n + 1 \/ (t.hdr[x].size < size /\ size = n + 2),
             t.hdr[x].size < size \/ size + 2 <= t.hdr[x].size
      PROVE  Store!Next
  <2>1. x \in Places
    BY DEF Whole, Linked, UsedIn
  <2>2. PICK R : /\ LiveOf(t) = R \union {Slot(t, x)} /\ LiveOf(t') = R \union {Slot(t', x)}
                 /\ Slot(t, x) \notin R /\ Slot(t', x) \notin R
                 /\ Store!Vacant(R, x[1], x[2], size)
    <3>1. x \in UsedIn(t'.hdr) /\ t'.hdr[x].size = size
      BY <1>6 DEF Uses
    <3>2. PICK R : /\ LiveOf(t) = R \union (IF x \in UsedIn(t.hdr) THEN {Slot(t, x)} ELSE {})
                   /\ LiveOf(t') = R \union (IF x \in UsedIn(t'.hdr) THEN {Slot(t', x)} ELSE {})
                   /\ \A a : <<x[1], x[2], a>> \notin R
                   /\ x \in UsedIn(t'.hdr) => Store!Vacant(R, x[1], x[2], t'.hdr[x].size)
      BY <1>6, <2>1, Others
    <3> QED BY <3>1, <3>2 DEF Slot
  <2> DEFINE blk == Slot(t, x)
             new == Slot(t', x)
  <2>3. /\ blk[1] = x[1] /\ blk[2] = x[2] /\ blk[3] = t.hdr[x].size
        /\ new[1] = x[1] /\ new[2] = x[2] /\ new[3] = size
    BY <1>6 DEF Slot, Uses
  <2> HIDE DEF blk, new
  <2>4. blk # new
    BY <1>6, <2>3
  <2>5. /\ blk \in Live \ Live' /\ new \in Live' \ Live
        /\ Live \ {blk} = R /\ Live' = R \union {new}
    BY <2>2, <2>4, LiveIs DEF blk, new
  <2>6. UNCHANGED SheetsOf(t)
    BY <1>6 DEF Keeps, SheetsOf
  <2>7. n \in Requests \ {0}
    BY <1>6
  <2>8. Store!Vacant(Live \ {blk}, blk[1], blk[2], new[3])
    BY <2>2, <2>3, <2>5
  <2>9. /\ new[1] = blk[1] /\ new[2] = blk[2]
        /\ new[3] = n + 1 \/ (blk[3] < new[3] /\ new[3] = n + 2)
        /\ blk[3] < new[3] \/ new[3] + 2 <= blk[3]
    BY <1>6, <2>3
  <2>10. Live' = (Live \ {blk}) \union {new}
    BY <2>5
  <2>11. Store!Resize
    BY <2>5, <2>6, <2>7, <2>8, <2>9, <2>10 DEF Store!Resize
  <2> QED BY <2>11 DEF Store!Next
<1>7. ASSUME NEW x \in Places, NEW n \in Requests, DoShrink(x, n)
      PROVE  Store!Next \/ UNCHANGED <<SheetsOf(t), Live>>
  <2>1. x \in UsedIn(t.hdr) /\ t' = Shrink(t, x, n) /\ n \in Nat /\ CanShrink(t, x, n)
    BY <1>7, OwnedInUse, RequestsAssumption DEF DoShrink
  <2>2. /\ Keeps(t, t', x)
        /\ t' = t \/ (Uses(t', x, n + 1) /\ n >= 1 /\ n + 3 <= t.hdr[x].size)
    BY <2>1, ShrinkWhole
  <2>3. CASE t' = t
    <3>1. Live' = Live /\ SheetsOf(t)' = SheetsOf(t)
      BY <2>3, LiveIs DEF SheetsOf
    <3> QED BY <3>1
  <2>4. CASE Uses(t', x, n + 1) /\ n >= 1 /\ n + 3 <= t.hdr[x].size
    <3>1. PICK size \in Nat : size = n + 1 /\ Uses(t', x, size)
      BY <2>1, <2>4
    <3>2. t.hdr[x].size \in Int
      <4>1. x \in DOMAIN t.hdr /\ Linked(t.hdr)
        BY <2>1 DEF Whole, UsedIn
      <4>2. t.hdr[x] \in Headers
        BY <4>1 DEF Linked
      <4> QED BY <4>2, MappingAssumption, Units16 DEF Headers
    <3>3. size # t.hdr[x].size /\ size + 2 <= t.hdr[x].size
      BY <2>1, <2>4, <3>1, <3>2
    <3> QED BY <1>6, <2>1, <2>2, <2>4, <3>1, <3>3
  <2> QED BY <2>2, <2>3, <2>4
<1>8. ASSUME NEW x \in Places, NEW n \in Requests, DoGrow(x, n)
      PROVE  Store!Next \/ UNCHANGED <<SheetsOf(t), Live>>
  <2>1. x \in UsedIn(t.hdr) /\ t' = Grow(t, x, n) /\ n \in Nat /\ CanGrow(t, x, n)
    BY <1>8, OwnedInUse, RequestsAssumption DEF DoGrow
  <2>2. /\ Keeps(t, t', x)
        /\ t' = t \/ (/\ n >= 1 /\ t.hdr[x].size < n + 1
                      /\ \E size \in n + 1 .. n + 2 : Uses(t', x, size))
    BY <2>1, GrowWhole
  <2>3. CASE t' = t
    <3>1. Live' = Live /\ SheetsOf(t)' = SheetsOf(t)
      BY <2>3, LiveIs DEF SheetsOf
    <3> QED BY <3>1
  <2>4. CASE n >= 1 /\ t.hdr[x].size < n + 1 /\ \E size \in n + 1 .. n + 2 : Uses(t', x, size)
    <3>1. PICK size \in n + 1 .. n + 2 : Uses(t', x, size)
      BY <2>4
    <3>2. t.hdr[x].size \in Int
      <4>1. x \in DOMAIN t.hdr /\ Linked(t.hdr)
        BY <2>1 DEF Whole, UsedIn
      <4>2. t.hdr[x] \in Headers
        BY <4>1 DEF Linked
      <4> QED BY <4>2, MappingAssumption, Units16 DEF Headers
    <3>3. size # t.hdr[x].size /\ t.hdr[x].size < size /\ size \in Nat /\ (size = n + 1 \/ size = n + 2)
      BY <2>1, <2>4, <3>1, <3>2
    <3> QED BY <1>6, <2>1, <2>2, <2>4, <3>1, <3>3
  <2> QED BY <2>2, <2>3, <2>4
<1>9. CASE Next
  BY <1>2, <1>3, <1>4, <1>5, <1>7, <1>8, <1>9 DEF Next
<1> QED BY <1>1, <1>9

(* The tier implements SmallStore: blocks never overlap and never move, a
   request gets at most one granule more than it asks for, a resize moves only
   the end of its block, and only an empty sheet is given back. *)
THEOREM SmallImplementation == Spec => ImplementsSmallStore
<1>1. Init => Store!Init
  BY DEF Init, Store!Init, EmptyTlsf, SheetsOf, Live, UsedBlocks
<1>2. Invariant /\ Invariant' /\ [Next]_t => [Store!Next]_<<SheetsOf(t), Live>>
  BY StepImplements DEF Invariant
<1> QED BY <1>1, <1>2, AlwaysWhole, PTL DEF Spec, ImplementsSmallStore

(***************************************************************************)
(* The size classes.                                                       *)
(***************************************************************************)
LEMMA AlwaysBlockSize == Walk => [](wanted \in BlockSizes)
<1>1. Smallest => wanted \in BlockSizes
  <2>1. MinBlock = Granule * 2 /\ 2 \in 2 .. DataUnits
    BY MappingNumbers
  <2> QED BY <2>1 DEF Smallest, BlockSizes
<1>2. wanted \in BlockSizes /\ [NextSize]_wanted => (wanted \in BlockSizes)'
  <2> SUFFICES ASSUME wanted \in BlockSizes, NextSize PROVE wanted' \in BlockSizes
    OBVIOUS
  <2>1. PICK k \in 2 .. DataUnits : wanted = 16 * k
    BY MappingNumbers DEF BlockSizes
  <2>2. 16 * k < 16 * DataUnits /\ wanted' = 16 * k + 16
    BY <2>1, MappingNumbers DEF NextSize
  <2>3. k + 1 \in 2 .. DataUnits /\ wanted' = Granule * (k + 1)
    BY <2>1, <2>2, MappingNumbers
  <2> QED BY <2>3 DEF BlockSizes
<1> QED BY <1>1, <1>2, PTL DEF Walk

LEMMA BlockSizeRange ==
  ASSUME NEW v \in BlockSizes
  PROVE  v \in MinBlock .. DataBytes /\ v \in 1 .. DataBytes /\ v >= MinBlock
BY MappingNumbers DEF BlockSizes

(* Every block of the class where a search begins is large enough. *)
THEOREM SearchNeverShort == Walk => []SearchIsSafe
<1>1. wanted \in BlockSizes => SearchIsSafe
  BY BlockSizeRange, SmallSearch, SearchSafe DEF SearchIsSafe
<1> QED BY <1>1, AlwaysBlockSize, PTL

(* A search passes over no class but that of the size itself. *)
THEOREM SearchSkipsNothing == Walk => []SearchIsTight
<1>1. wanted \in BlockSizes => SearchIsTight
  BY BlockSizeRange, SmallSearch, SearchTight DEF SearchIsTight
<1> QED BY <1>1, AlwaysBlockSize, PTL

(* The table and mapping_search agree, and name lists that exist. *)
THEOREM TableMatches == Walk => []TableAgrees
<1>1. wanted \in BlockSizes => TableAgrees
  <2> SUFFICES ASSUME wanted \in BlockSizes PROVE TableAgrees
    OBVIOUS
  <2>1. PICK v \in Nat : v = wanted /\ v \in MinBlock .. DataBytes
    BY BlockSizeRange, MappingNumbers
  <2>2. MappingInsert(v) \in Classes
    BY <2>1, InTable
  <2>3. /\ Rounded(v) \in v .. 2 * v /\ MappingSearch(v) = MappingInsert(Rounded(v))
        /\ TableEntry(v) = MappingInsert(Rounded(v))
    BY <2>1, SearchRounds
  <2>4. ASSUME v <= TableMax PROVE MappingInsert(Rounded(v)) \in Classes
    <3>1. TableMax \in Nat /\ 2 * TableMax <= DataBytes
      BY MappingAssumption, MappingNumbers DEF TableMax
    <3>2. PICK r \in Nat : r = Rounded(v) /\ r \in MinBlock .. DataBytes
      BY <2>1, <2>3, <2>4, <3>1, MappingNumbers
    <3> QED BY <3>2, InTable
  <2> QED BY <2>1, <2>2, <2>3, <2>4 DEF TableAgrees
<1> QED BY <1>1, AlwaysBlockSize, PTL
=============================================================================
