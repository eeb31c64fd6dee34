------------------------- MODULE KernelMemoryProof --------------------------
(***************************************************************************)
(* Proofs about the memory of the kernel itself.                           *)
(*                                                                         *)
(* Buddy and Slab, for any memory maps, number of threads, caches and      *)
(* orders: every page is in exactly one block and counted, a free run is   *)
(* always found, an object is free or given out and never both.            *)
(*                                                                         *)
(* Vmalloc and Tlb, for any number of CPUs and threads and any size of the *)
(* region and of memory: nobody touches the request of a shootdown that    *)
(* has returned, a frame is in one place, and a shootdown returns when all *)
(* other CPUs have dropped the translation.                                *)
(***************************************************************************)
EXTENDS Slab, Vmalloc, FiniteSetTheorems, SequenceTheorems, WellFoundedInduction, TLAPS

-----------------------------------------------------------------------------
(* Arithmetic.                                                              *)

LEMMA LeastNat ==
  ASSUME NEW S \in SUBSET Nat, S # {}
  PROVE  \E m \in S : \A x \in S : m <= x
<1>1. PICK m \in S : \A x \in S : ~(<<x, m>> \in OpToRel(<, Nat))
  BY WFMin, NatLessThanWellFounded
<1>2. \A x \in S : m <= x
  <2> TAKE x \in S
  <2>1. <<x, m>> \in Nat \X Nat
    OBVIOUS
  <2>2. ~(x < m)
    BY <1>1, <2>1 DEF OpToRel
  <2> QED
    BY <2>2
<1> QED
  BY <1>2

LEMMA SmallestOf ==
  ASSUME NEW S \in SUBSET Nat, S # {}
  PROVE  Min(S) \in S /\ \A x \in S : Min(S) <= x
BY LeastNat DEF Min

LEMMA GreatestOf ==
  ASSUME NEW S \in SUBSET Nat, S # {}, NEW n \in Nat, \A x \in S : x <= n
  PROVE  Max(S) \in S /\ \A x \in S : x <= Max(S)
<1> DEFINE T == {n - x : x \in S}
<1>1. T \in SUBSET Nat /\ T # {}
  <2>1. \A x \in S : n - x \in Nat
    OBVIOUS
  <2>2. PICK x \in S : TRUE
    OBVIOUS
  <2> QED
    BY <2>1, <2>2
<1>2. PICK m \in T : \A x \in T : m <= x
  BY <1>1, LeastNat
<1>3. PICK g \in S : m = n - g
  BY <1>2
<1>4. \A x \in S : x <= g
  <2> TAKE x \in S
  <2>1. m <= n - x
    BY <1>2
  <2> QED
    BY <1>3, <2>1
<1> QED
  BY <1>4 DEF Max

LEMMA Divided ==
  ASSUME NEW n \in Nat \ {0}, NEW p \in Nat
  PROVE  p \div n \in Nat /\ p % n \in 0 .. n - 1 /\ p = n * (p \div n) + (p % n)
OBVIOUS

\* Multiples of n are n apart.
LEMMA Apart ==
  ASSUME NEW n \in Nat \ {0}, NEW x \in Nat, NEW y \in Nat, x < y
  PROVE  n * x + n <= n * y
<1>1. PICK d \in Nat : y = x + 1 + d
  OBVIOUS
<1>2. n * y = n * x + n + n * d
  BY <1>1
<1>3. n * d \in Nat
  OBVIOUS
<1> QED
  BY <1>2, <1>3

LEMMA Multiple ==
  ASSUME NEW n \in Nat \ {0}, NEW x \in Nat
  PROVE  (n * x) % n = 0 /\ (n * x) \div n = x
<1> DEFINE p == n * x
<1>1. p \in Nat
  OBVIOUS
<1>2. p \div n \in Nat /\ p % n \in 0 .. n - 1 /\ p = n * (p \div n) + (p % n)
  BY <1>1, Divided
<1>3. CASE x < p \div n
  <2>1. n * x + n <= n * (p \div n)
    BY <1>2, <1>3, Apart
  <2> QED
    BY <1>2, <2>1
<1>4. CASE p \div n < x
  <2>1. n * (p \div n) + n <= n * x
    BY <1>2, <1>4, Apart
  <2> QED
    BY <1>2, <2>1
<1>5. CASE p \div n = x
  BY <1>2, <1>5
<1> QED
  BY <1>2, <1>3, <1>4, <1>5

-----------------------------------------------------------------------------
(* Blocks of 2^o pages.                                                     *)

Aligned(p, o) == p % 2^o = 0

LEMMA Powers ==
  ASSUME NEW k \in 0 .. MAX_ORDER
  PROVE  /\ 2^k \in Nat \ {0} /\ k \in Nat
         /\ k # MAX_ORDER => k + 1 \in 0 .. MAX_ORDER /\ 2^(k + 1) = 2 * 2^k
BY OrderAssumption

LEMMA PowersDivide ==
  ASSUME NEW j \in 0 .. MAX_ORDER, NEW k \in 0 .. MAX_ORDER, j <= k
  PROVE  \E m \in Nat \ {0} : 2^k = 2^j * m
<1> DEFINE S == {i \in Nat : j + i <= MAX_ORDER /\ ~\E m \in Nat \ {0} : 2^(j + i) = 2^j * m}
<1>1. S = {}
  <2> SUFFICES ASSUME S # {}
               PROVE  FALSE
    OBVIOUS
  <2>1. PICK i \in S : \A x \in S : i <= x
    BY LeastNat
  <2>2. 2^j \in Nat \ {0}
    BY Powers
  <2>3. i # 0
    <3> SUFFICES ASSUME i = 0
                 PROVE  FALSE
      OBVIOUS
    <3>1. j + i = j
      OBVIOUS
    <3>2. 2^(j + i) = 2^j * 1 /\ 1 \in Nat \ {0}
      BY <2>2, <3>1
    <3> QED
      BY <2>1, <3>2
  <2>4. i - 1 \in Nat /\ i - 1 \notin S
    BY <2>1, <2>3
  <2>5. PICK m \in Nat \ {0} : 2^(j + (i - 1)) = 2^j * m
    BY <2>1, <2>4, OrderAssumption
  <2>6. 2^(j + (i - 1) + 1) = 2 * 2^(j + (i - 1))
    <3>1. j + (i - 1) \in 0 .. MAX_ORDER /\ j + (i - 1) # MAX_ORDER
      BY <2>1, <2>4, OrderAssumption
    <3> QED
      BY <3>1, Powers
  <2>7. j + (i - 1) + 1 = j + i
    BY <2>4
  <2>8. 2^(j + i) = 2^j * (2 * m) /\ 2 * m \in Nat \ {0}
    BY <2>2, <2>5, <2>6, <2>7
  <2> QED
    BY <2>1, <2>8
<1>2. k - j \in Nat /\ j + (k - j) = k /\ k <= MAX_ORDER
  BY OrderAssumption
<1>3. k - j \notin S
  BY <1>1
<1> QED
  BY <1>2, <1>3

LEMMA PowersGrow ==
  ASSUME NEW j \in 0 .. MAX_ORDER, NEW k \in 0 .. MAX_ORDER, j < k
  PROVE  2 * 2^j <= 2^k
<1>1. j # MAX_ORDER /\ j + 1 <= k
  BY OrderAssumption
<1>2. j + 1 \in 0 .. MAX_ORDER /\ 2^(j + 1) = 2 * 2^j /\ 2^j \in Nat \ {0}
  BY <1>1, Powers
<1>3. PICK m \in Nat \ {0} : 2^k = 2^(j + 1) * m
  BY <1>1, <1>2, PowersDivide
<1>4. \A x \in Nat, y \in Nat \ {0} : x <= x * y
  OBVIOUS
<1>5. 2^(j + 1) \in Nat
  BY <1>2
<1> QED
  BY <1>2, <1>3, <1>4, <1>5

\* An aligned block is a multiple of its size.
LEMMA AlignedAt ==
  ASSUME NEW p \in Nat, NEW k \in 0 .. MAX_ORDER
  PROVE  Aligned(p, k) <=> \E x \in Nat : p = 2^k * x
<1>1. 2^k \in Nat \ {0}
  BY Powers
<1>2. ASSUME Aligned(p, k)
      PROVE  \E x \in Nat : p = 2^k * x
  <2>1. p \div 2^k \in Nat /\ p = 2^k * (p \div 2^k) + (p % 2^k)
    BY <1>1, Divided
  <2> QED
    BY <1>1, <1>2, <2>1 DEF Aligned
<1>3. ASSUME NEW x \in Nat, p = 2^k * x
      PROVE  Aligned(p, k)
  BY <1>1, <1>3, Multiple DEF Aligned
<1> QED
  BY <1>2, <1>3

LEMMA AlignedDown ==
  ASSUME NEW p \in Nat, NEW j \in 0 .. MAX_ORDER, NEW k \in 0 .. MAX_ORDER, j <= k, Aligned(p, k)
  PROVE  Aligned(p, j)
<1>1. 2^j \in Nat \ {0}
  BY Powers
<1>2. PICK x \in Nat : p = 2^k * x
  BY AlignedAt
<1>3. PICK m \in Nat \ {0} : 2^k = 2^j * m
  BY PowersDivide
<1>4. p = 2^j * (m * x) /\ m * x \in Nat
  BY <1>1, <1>2, <1>3
<1> QED
  BY <1>4, AlignedAt

\* Two aligned blocks are apart, or the smaller one lies in the other.
LEMMA Nested ==
  ASSUME NEW p \in Nat, NEW q \in Nat, NEW j \in 0 .. MAX_ORDER, NEW k \in 0 .. MAX_ORDER, j <= k,
         Aligned(p, j), Aligned(q, k)
  PROVE  Block(p, j) \subseteq Block(q, k) \/ Block(p, j) \cap Block(q, k) = {}
<1>1. 2^j \in Nat \ {0} /\ 2^k \in Nat \ {0}
  BY Powers
<1>2. PICK x \in Nat : p = 2^j * x
  BY AlignedAt
<1>3. PICK y \in Nat : q = 2^k * y
  BY AlignedAt
<1>4. PICK m \in Nat \ {0} : 2^k = 2^j * m
  BY PowersDivide
<1> DEFINE n == 2^j
           a == m * y
<1>5. n \in Nat \ {0} /\ a \in Nat /\ p = n * x /\ q = n * a /\ q + 2^k = n * (a + m)
  BY <1>1, <1>2, <1>3, <1>4
<1>6. Block(p, j) = p .. p + n - 1 /\ Block(q, k) = q .. n * (a + m) - 1
  BY <1>1, <1>5 DEF Block
<1> HIDE DEF n, a
<1>7. CASE x < a
  <2>1. p + n <= q
    BY <1>5, <1>7, Apart
  <2> QED
    BY <1>5, <1>6, <2>1
<1>8. CASE a + m <= x
  <2>1. n * (a + m) <= p
    <3>1. CASE a + m = x
      BY <1>5, <3>1
    <3>2. CASE a + m < x
      <4>1. n * (a + m) + n <= n * x
        BY <1>5, <3>2, Apart
      <4>2. n * (a + m) \in Nat
        BY <1>5
      <4> QED
        BY <1>5, <4>1, <4>2
    <3> QED
      BY <1>5, <1>8, <3>1, <3>2
  <2>2. n * (a + m) \in Nat
    BY <1>5
  <2> QED
    BY <1>5, <1>6, <2>1, <2>2
<1>9. CASE a <= x /\ x < a + m
  <2>1. p + n <= n * (a + m)
    BY <1>5, <1>9, Apart
  <2>2. q <= p
    <3>1. CASE a = x
      BY <1>5, <3>1
    <3>2. CASE a < x
      <4>1. n * a + n <= n * x
        BY <1>5, <3>2, Apart
      <4> QED
        BY <1>5, <4>1
    <3> QED
      BY <1>5, <1>9, <3>1, <3>2
  <2>3. n * (a + m) \in Nat
    BY <1>5
  <2> QED
    BY <1>5, <1>6, <2>1, <2>2, <2>3
<1> QED
  BY <1>5, <1>7, <1>8, <1>9

LEMMA HeadInBlock ==
  ASSUME NEW p \in Nat, NEW k \in 0 .. MAX_ORDER
  PROVE  p \in Block(p, k) /\ Block(p, k) \subseteq Nat
BY Powers DEF Block

LEMMA SameHead ==
  ASSUME NEW p \in Nat, NEW q \in Nat, NEW k \in 0 .. MAX_ORDER, Aligned(p, k), Aligned(q, k),
         Block(p, k) \cap Block(q, k) # {}
  PROVE  p = q
<1>1. Block(p, k) \subseteq Block(q, k) /\ Block(q, k) \subseteq Block(p, k)
  BY Nested, OrderAssumption
<1>2. p \in Block(q, k) /\ q \in Block(p, k)
  BY <1>1, HeadInBlock
<1> QED
  BY <1>2, Powers DEF Block

LEMMA BaseAt ==
  ASSUME NEW p \in Nat, NEW k \in 0 .. MAX_ORDER
  PROVE  Base(p, k) \in Nat /\ Aligned(Base(p, k), k) /\ p \in Block(Base(p, k), k)
<1>1. 2^k \in Nat \ {0}
  BY Powers
<1>2. p \div 2^k \in Nat /\ p % 2^k \in 0 .. 2^k - 1 /\ p = 2^k * (p \div 2^k) + (p % 2^k)
  BY <1>1, Divided
<1>3. Base(p, k) = 2^k * (p \div 2^k) /\ Base(p, k) \in Nat
  BY <1>1, <1>2 DEF Base
<1>4. Aligned(Base(p, k), k)
  BY <1>2, <1>3, AlignedAt
<1>5. p \in Block(Base(p, k), k)
  BY <1>1, <1>2, <1>3 DEF Block
<1> QED
  BY <1>3, <1>4, <1>5

LEMMA BaseIs ==
  ASSUME NEW p \in Nat, NEW q \in Nat, NEW k \in 0 .. MAX_ORDER, Aligned(q, k), p \in Block(q, k)
  PROVE  Base(p, k) = q
<1>1. Base(p, k) \in Nat /\ Aligned(Base(p, k), k) /\ p \in Block(Base(p, k), k)
  BY BaseAt
<1> QED
  BY <1>1, SameHead

\* A block and its buddy are the halves of a block of the next order.
LEMMA Halves ==
  ASSUME NEW p \in Nat, NEW k \in 0 .. MAX_ORDER, k # MAX_ORDER, Aligned(p, k)
  PROVE  LET b == BuddyOf(p, k) IN
         /\ b \in Nat /\ Aligned(b, k) /\ b # p /\ BuddyOf(b, k) = p
         /\ Block(Base(p, k + 1), k + 1) = Block(p, k) \cup Block(b, k)
<1> DEFINE n == 2^k
           b == BuddyOf(p, k)
<1>1. n \in Nat \ {0} /\ k + 1 \in 0 .. MAX_ORDER /\ 2^(k + 1) = 2 * n
  BY Powers
<1>2. PICK x \in Nat : p = n * x
  BY AlignedAt
<1>3. p \div n = x
  BY <1>1, <1>2, Multiple
<1> HIDE DEF n
<1>4. PICK y \in Nat : x = 2 * y \/ x = 2 * y + 1
  <2>1. x \div 2 \in Nat /\ x % 2 \in 0 .. 1 /\ x = 2 * (x \div 2) + (x % 2)
    BY Divided
  <2> QED
    BY <2>1
<1> DEFINE h == (2 * n) * y
<1>5. h \in Nat /\ Aligned(h, k + 1)
  BY <1>1, AlignedAt
<1>6. CASE x = 2 * y
  <2>1. p = h /\ b = p + n
    <3>1. x % 2 = 0
      BY <1>6
    <3> QED
      BY <1>1, <1>2, <1>3, <1>6, <3>1 DEF BuddyOf, n
  <2>2. b = n * (2 * y + 1)
    BY <1>1, <2>1
  <2>3. b \in Nat /\ Aligned(b, k) /\ b # p
    BY <1>1, <2>1, <2>2, AlignedAt DEF n
  <2>4. b \div n = 2 * y + 1
    BY <1>1, <2>2, Multiple
  <2>5. (2 * y + 1) % 2 # 0
    OBVIOUS
  <2>6. BuddyOf(b, k) = p
    BY <1>1, <2>1, <2>4, <2>5 DEF BuddyOf, n
  <2>7. Base(p, k + 1) = h
    BY <1>1, <1>5, <2>1, BaseIs, HeadInBlock
  <2>8. Block(h, k + 1) = Block(p, k) \cup Block(b, k)
    BY <1>1, <1>5, <2>1 DEF Block, n
  <2> QED
    BY <2>3, <2>6, <2>7, <2>8
<1>7. CASE x = 2 * y + 1
  <2>1. p = h + n /\ b = h
    <3>1. x % 2 # 0
      BY <1>7
    <3>2. p = h + n
      BY <1>1, <1>2, <1>7
    <3> QED
      BY <1>1, <1>3, <1>5, <3>1, <3>2 DEF BuddyOf, n
  <2>2. b = n * (2 * y)
    BY <1>1, <2>1
  <2>3. b \in Nat /\ Aligned(b, k) /\ b # p
    BY <1>1, <1>5, <2>1, <2>2, AlignedAt DEF n
  <2>4. b \div n = 2 * y
    BY <1>1, <2>2, Multiple
  <2>5. (2 * y) % 2 = 0
    OBVIOUS
  <2>6. BuddyOf(b, k) = p
    BY <1>1, <2>1, <2>4, <2>5 DEF BuddyOf, n
  <2>7. p \in Block(h, k + 1)
    BY <1>1, <1>5, <2>1 DEF Block
  <2>8. Base(p, k + 1) = h
    BY <1>1, <1>5, <2>7, BaseIs
  <2>9. Block(h, k + 1) = Block(p, k) \cup Block(b, k)
    BY <1>1, <1>5, <2>1 DEF Block, n
  <2> QED
    BY <2>3, <2>6, <2>8, <2>9
<1> QED
  BY <1>4, <1>6, <1>7

LEMMA OrdersIn ==
  /\ \A k \in Orders : k \in 0 .. MAX_ORDER /\ k # MAX_ORDER /\ k \in Nat
  /\ Orders \subseteq 0 .. MAX_ORDER /\ 0 \in Orders
  /\ \A k \in Orders : k # MAX_ORDER - 1 => k + 1 \in Orders
  /\ MAX_ORDER \in Nat /\ \A k \in Int : k \in Orders <=> 0 <= k /\ k < MAX_ORDER
BY OrderAssumption DEF Orders

\* The buddies a block is merged with on its way to order m.
Buddies(p, o, m) == UNION {Block(BuddyOf(Base(p, k), k), k) : k \in o .. m - 1}

\* One level more.
LEMMA Doubled ==
  ASSUME NEW p \in Nat, NEW k \in 0 .. MAX_ORDER, k # MAX_ORDER
  PROVE  Block(Base(p, k + 1), k + 1) = Block(Base(p, k), k) \cup Block(BuddyOf(Base(p, k), k), k)
<1> DEFINE q == Base(p, k)
<1>1. q \in Nat /\ Aligned(q, k) /\ p \in Block(q, k)
  BY BaseAt
<1> HIDE DEF q
<1>2. Block(Base(q, k + 1), k + 1) = Block(q, k) \cup Block(BuddyOf(q, k), k)
  BY <1>1, Halves
<1>3. k + 1 \in 0 .. MAX_ORDER
  BY Powers
<1>4. Base(q, k + 1) \in Nat /\ Aligned(Base(q, k + 1), k + 1)
  BY <1>1, <1>3, BaseAt
<1>5. Base(p, k + 1) = Base(q, k + 1)
  BY <1>1, <1>2, <1>3, <1>4, BaseIs
<1> QED
  BY <1>2, <1>5 DEF q

LEMMA Merged ==
  ASSUME NEW p \in Nat, NEW o \in Orders, Aligned(p, o), NEW m \in Orders, o <= m
  PROVE  Block(Base(p, m), m) = Block(p, o) \cup Buddies(p, o, m)
<1> DEFINE Holding(i) == Block(Base(p, i), i) = Block(p, o) \cup Buddies(p, o, i)
           S == {i \in Orders : o <= i /\ ~Holding(i)}
<1>1. S = {}
  <2> SUFFICES ASSUME S # {}
               PROVE  FALSE
    OBVIOUS
  <2>1. S \subseteq Nat
    BY OrdersIn
  <2>2. PICK i \in S : \A x \in S : i <= x
    BY <2>1, LeastNat
  <2>3. i # o
    <3> SUFFICES ASSUME i = o
                 PROVE  FALSE
      OBVIOUS
    <3>1. Base(p, o) = p
      BY BaseIs, HeadInBlock, OrdersIn
    <3>2. o .. o - 1 = {}
      BY OrdersIn
    <3>3. Buddies(p, o, o) = {}
      BY <3>2 DEF Buddies
    <3>4. Holding(o)
      BY <3>1, <3>3
    <3> QED
      BY <2>2, <3>4
  <2> DEFINE j == i - 1
  <2>4. j \in Orders /\ o <= j /\ j + 1 = i /\ j \notin S
    BY <2>1, <2>2, <2>3, OrdersIn
  <2> HIDE DEF j
  <2>5. Holding(j)
    BY <2>4
  <2>6. Block(Base(p, i), i) = Block(Base(p, j), j) \cup Block(BuddyOf(Base(p, j), j), j)
    BY <2>4, Doubled, OrdersIn
  <2>7. o .. i - 1 = (o .. j - 1) \cup {j}
    BY <2>4, OrdersIn
  <2>8. Buddies(p, o, i) = Buddies(p, o, j) \cup Block(BuddyOf(Base(p, j), j), j)
    BY <2>7 DEF Buddies
  <2>9. Holding(i)
    BY <2>5, <2>6, <2>8
  <2> QED
    BY <2>2, <2>9
<1> QED
  BY <1>1

\* The halves that are left over when a block of order f is cut down to order o.
LEMMA HalfAt ==
  ASSUME NEW p \in Nat, NEW f \in Orders, Aligned(p, f), NEW k \in Orders, k < f
  PROVE  /\ Half(p, k) \in Nat /\ Half(p, k) # p /\ Aligned(Half(p, k), k)
         /\ Block(Half(p, k), k) = p + 2^k .. p + 2 * 2^k - 1
         /\ Block(Half(p, k), k) \subseteq Block(p, f)
<1>1. 2^k \in Nat \ {0} /\ 2^f \in Nat \ {0} /\ 2 * 2^k <= 2^f
  BY Powers, PowersGrow, OrdersIn
<1>2. Aligned(p, k)
  BY AlignedDown, OrdersIn
<1>3. PICK x \in Nat : p = 2^k * x
  BY <1>2, AlignedAt, OrdersIn
<1>4. p + 2^k = 2^k * (x + 1) /\ x + 1 \in Nat
  BY <1>1, <1>3
<1>5. Aligned(p + 2^k, k)
  <2>1. p + 2^k \in Nat
    BY <1>1
  <2> QED
    BY <1>4, <2>1, AlignedAt, OrdersIn
<1> QED
  BY <1>1, <1>5 DEF Half, Block

LEMMA HalvesApart ==
  ASSUME NEW p \in Nat, NEW f \in Orders, Aligned(p, f),
         NEW j \in Orders, NEW k \in Orders, j < k, k < f
  PROVE  /\ Half(p, j) # Half(p, k)
         /\ Block(Half(p, j), j) \cap Block(Half(p, k), k) = {}
<1>1. 2^k \in Nat \ {0} /\ 2^j \in Nat \ {0} /\ 2 * 2^j <= 2^k
  BY Powers, PowersGrow, OrdersIn
<1>2. /\ Block(Half(p, k), k) = p + 2^k .. p + 2 * 2^k - 1
      /\ Block(Half(p, j), j) = p + 2^j .. p + 2 * 2^j - 1
  BY HalfAt, OrdersIn
<1> QED
  BY <1>1, <1>2 DEF Half

LEMMA Cut ==
  ASSUME NEW p \in Nat, NEW f \in Orders, Aligned(p, f), NEW o \in Orders, o <= f
  PROVE  /\ Block(p, f) = Block(p, o) \cup UNION {Block(Half(p, k), k) : k \in o .. f - 1}
         /\ \A k \in o .. f - 1 : Block(p, o) \cap Block(Half(p, k), k) = {}
         /\ Aligned(p, o)
<1>1. 2^o \in Nat \ {0} /\ 2^f \in Nat \ {0} /\ 2^o <= 2^f
  <2>1. CASE o = f
    BY <2>1, Powers, OrdersIn
  <2>2. CASE o < f
    BY <2>2, Powers, PowersGrow, OrdersIn
  <2> QED
    BY <2>1, <2>2, OrdersIn
<1>2. Block(p, o) \subseteq Block(p, f)
  BY <1>1 DEF Block
<1>3. \A k \in o .. f - 1 : k \in Orders /\ k < f /\ o <= k
  BY OrdersIn
<1>4. \A k \in o .. f - 1 : Block(Half(p, k), k) \subseteq Block(p, f)
  BY <1>3, HalfAt
<1>5. ASSUME NEW x \in Block(p, f), x \notin Block(p, o)
      PROVE  \E k \in o .. f - 1 : x \in Block(Half(p, k), k)
  <2> DEFINE S == {k \in Orders : k <= f /\ x - p < 2^k}
  <2>1. f \in S /\ S \subseteq Nat /\ x \in Nat /\ x >= p
    <3>1. x \in Nat /\ x >= p /\ x - p < 2^f
      BY <1>1 DEF Block
    <3>2. f <= f /\ Orders \subseteq Nat
      BY OrdersIn
    <3> QED
      BY <3>1, <3>2
  <2>2. PICK g \in S : \A k \in S : g <= k
    BY <2>1, LeastNat
  <2>3. ~(x - p < 2^o)
    BY <1>1, <1>5, <2>1 DEF Block
  <2>4. \A k \in Orders : k <= o => 2^k <= 2^o
    <3> TAKE k \in Orders
    <3>1. CASE k = o
      BY <1>1, <3>1
    <3>2. CASE k < o
      BY <3>2, Powers, PowersGrow, OrdersIn
    <3> QED
      BY <3>1, <3>2, OrdersIn
  <2>5. o < g
    <3>1. g \in Orders /\ x - p < 2^g /\ 2^g \in Nat
      BY <2>2, Powers, OrdersIn
    <3> QED
      BY <1>1, <2>1, <2>3, <2>4, <3>1, OrdersIn
  <2> DEFINE k == g - 1
  <2>6. k \in o .. f - 1 /\ k + 1 = g /\ k \notin S
    BY <2>1, <2>2, <2>5, OrdersIn
  <2>7. k \in Orders /\ 2^k \in Nat /\ 2^g = 2 * 2^k
    BY <1>3, <2>6, Powers, OrdersIn
  <2>8. x - p < 2 * 2^k /\ ~(x - p < 2^k)
    <3>1. x - p < 2^g
      BY <2>2
    <3>2. k \in Orders /\ k <= f
      BY <1>3, <2>6, OrdersIn
    <3> QED
      BY <2>6, <2>7, <3>1, <3>2
  <2>9. Block(Half(p, k), k) = p + 2^k .. p + 2 * 2^k - 1
    BY <1>3, <2>6, HalfAt
  <2> HIDE DEF k, S
  <2>10. x \in Block(Half(p, k), k)
    BY <2>1, <2>7, <2>8, <2>9
  <2> QED
    BY <2>6, <2>10
<1>6. \A k \in o .. f - 1 : Block(p, o) \cap Block(Half(p, k), k) = {}
  <2> TAKE k \in o .. f - 1
  <2>1. k \in Orders /\ o <= k /\ k < f
    BY <1>3
  <2>2. Block(Half(p, k), k) = p + 2^k .. p + 2 * 2^k - 1 /\ 2^k \in Nat
    BY <2>1, HalfAt, Powers, OrdersIn
  <2>3. 2^o <= 2^k
    <3>1. CASE k = o
      BY <1>1, <3>1
    <3>2. CASE o < k
      BY <2>1, <3>2, Powers, PowersGrow, OrdersIn
    <3> QED
      BY <2>1, <3>1, <3>2, OrdersIn
  <2>4. Block(p, o) = p .. p + 2^o - 1
    BY DEF Block
  <2> HIDE DEF Block
  <2> QED
    BY <1>1, <2>2, <2>3, <2>4
<1>7. Aligned(p, o)
  BY AlignedDown, OrdersIn
<1> QED
  BY <1>2, <1>4, <1>5, <1>6, <1>7

-----------------------------------------------------------------------------
(* Blocks that share out a set of pages.  A block is a tuple that starts with *)
(* its first page and its order.                                            *)

Pg(b) == Block(b[1], b[2])
Pgs(B) == UNION {Pg(b) : b \in B}

Fine(b) ==
    /\ b[1] \in Nat /\ b[2] \in Orders /\ Aligned(b[1], b[2])
    /\ \A x \in Pg(b) : pfn_zone(x) = pfn_zone(b[1])

Shared(B, M) ==
    /\ \A b \in B : Fine(b)
    /\ \A b, c \in B : b # c => Pg(b) \cap Pg(c) = {}
    /\ Pgs(B) = M

LEMMA FinePages ==
  ASSUME NEW b, Fine(b)
  PROVE  b[1] \in Pg(b) /\ Pg(b) \subseteq Nat
BY HeadInBlock, OrdersIn DEF Fine, Pg

\* Some blocks are put together, cut, or come from outside.
LEMMA Regrouped ==
  ASSUME NEW B, NEW M, Shared(B, M), NEW G \in SUBSET B, NEW H, NEW N,
         \A h \in H : Fine(h),
         \A g, h \in H : g # h => Pg(g) \cap Pg(h) = {},
         Pgs(H) = Pgs(G) \cup N, N \cap M = {}
  PROVE  Shared((B \ G) \cup H, M \cup N)
<1>1. \A b \in B \ G, h \in H : Pg(b) \cap Pg(h) = {}
  <2> TAKE b \in B \ G, h \in H
  <2>1. Pg(h) \subseteq Pgs(G) \cup N
    BY DEF Pgs
  <2>2. Pg(b) \cap Pgs(G) = {}
    BY DEF Shared, Pgs
  <2>3. Pg(b) \cap N = {}
    BY DEF Shared, Pgs
  <2> QED
    BY <2>1, <2>2, <2>3
<1>2. Pgs((B \ G) \cup H) = M \cup N
  <2>1. Pgs((B \ G) \cup H) = Pgs(B \ G) \cup Pgs(H)
    BY DEF Pgs
  <2>2. Pgs(B \ G) \cup Pgs(G) = Pgs(B)
    BY DEF Pgs
  <2> QED
    BY <2>1, <2>2 DEF Shared
<1> QED
  BY <1>1, <1>2 DEF Shared

-----------------------------------------------------------------------------
(* The inductive invariant of Buddy.                                        *)

FreeOnes == {<<b[1], b[2], "free", "free">> : b \in FreeBlocks}
OwnedOnes == {<<b[1], b[2], "owned", b[3]>> : b \in owned}
HeldOnes == {<<th[t].pfn, th[t].order, "held", t>> : t \in {u \in Users : Holds(u)}}

\* Free, given out or in the hand of a thread, the blocks share out the pages.
BlocksInv == Shared(FreeOnes \cup OwnedOnes \cup HeldOnes, managed)

\* The descriptors say which blocks are free, and of which order.
FlagsInv ==
    /\ max_pfn \in Nat \ {0} /\ DOMAIN page = 0 .. max_pfn - 1
    /\ \A q \in DOMAIN page : DOMAIN page[q] = {"flags", "order", "refcount"}
    /\ DOMAIN free_area = Orders
    /\ \A k \in Orders : free_area[k] \subseteq DOMAIN page
    /\ \A q \in DOMAIN page :
         /\ \A k \in Orders : q \in free_area[k] <=> "BUDDY" \in page[q].flags /\ page[q].order = k
         /\ "BUDDY" \in page[q].flags => page[q].order \in Orders

\* No free block has a free buddy in its zone.
MergedInv ==
    \A k \in Orders : k # MAX_ORDER - 1 =>
       \A p \in free_area[k] :
          BuddyOf(p, k) \in free_area[k] => pfn_zone(BuddyOf(p, k)) # pfn_zone(p)

CountInv == DOMAIN nfree = Zones /\ \A z \in Zones : nfree[z] = Cardinality(Free(z))

\* The free blocks by themselves.
FreeInv ==
    /\ Shared(FreeOnes, Pgs(FreeOnes))
    /\ Pgs(FreeOnes) \subseteq DOMAIN page

LEMMA Bounds == MAX_ORDER \in Nat \ {0} /\ PFN_4G \in Nat
BY OrderAssumption

LEMMA SharedPart ==
  ASSUME NEW B, NEW M, Shared(B, M), NEW C \in SUBSET B
  PROVE  Shared(C, Pgs(C)) /\ Pgs(C) \subseteq M
BY DEF Shared, Pgs

FreeByList ==
    /\ \A q, k : <<q, k, "free", "free">> \in FreeOnes <=> k \in Orders /\ q \in free_area[k]
    /\ \A b \in FreeOnes : b = <<b[1], b[2], "free", "free">>

LEMMA FreeOne == FlagsInv => FreeByList
<1> SUFFICES ASSUME FlagsInv
             PROVE  FreeByList
  OBVIOUS
<1>1. \A q, k : <<q, k>> \in FreeBlocks <=> k \in Orders /\ q \in free_area[k]
  BY DEF FreeBlocks, FlagsInv
<1>2. \A b \in FreeBlocks : b = <<b[1], b[2]>>
  BY DEF FreeBlocks
<1>3. ASSUME NEW q, NEW k, <<q, k, "free", "free">> \in FreeOnes
      PROVE  k \in Orders /\ q \in free_area[k]
  <2>1. PICK b \in FreeBlocks : <<q, k, "free", "free">> = <<b[1], b[2], "free", "free">>
    BY <1>3 DEF FreeOnes
  <2>2. b = <<q, k>>
    BY <1>2, <2>1
  <2> QED
    BY <1>1, <2>2
<1>4. ASSUME NEW q, NEW k, k \in Orders, q \in free_area[k]
      PROVE  <<q, k, "free", "free">> \in FreeOnes
  <2>1. <<q, k>> \in FreeBlocks
    BY <1>1, <1>4
  <2>2. <<q, k, "free", "free">> = <<<<q, k>>[1], <<q, k>>[2], "free", "free">>
    OBVIOUS
  <2> QED
    BY <2>1, <2>2 DEF FreeOnes
<1>5. ASSUME NEW b \in FreeOnes
      PROVE  b = <<b[1], b[2], "free", "free">>
  BY DEF FreeOnes
<1> QED
  BY <1>3, <1>4, <1>5 DEF FreeByList

\* The pages of a zone.
LEMMA InZoneOnly ==
  ASSUME FlagsInv, NEW b \in Nat, NEW k \in Orders, NEW z \in Zones
  PROVE  (b >= StartPfn(z) /\ b + 2^k <= EndPfn(z))
            <=> (Block(b, k) \subseteq DOMAIN page /\ \A x \in Block(b, k) : pfn_zone(x) = z)
<1>1. 2^k \in Nat \ {0} /\ max_pfn \in Nat \ {0} /\ PFN_4G \in Nat
  BY Powers, OrdersIn, Bounds DEF FlagsInv
<1>2. b \in Block(b, k) /\ b + 2^k - 1 \in Block(b, k)
  BY <1>1 DEF Block
<1>3. CASE z = ZONE_DMA32
  <2>1. StartPfn(z) = 0 /\ EndPfn(z) = IF max_pfn < PFN_4G THEN max_pfn ELSE PFN_4G
    BY <1>3 DEF StartPfn, EndPfn, MinOf
  <2>2. \A x \in Nat : pfn_zone(x) = z <=> x < PFN_4G
    BY <1>1, <1>3 DEF pfn_zone, ZONE_DMA32, ZONE_NORMAL
  <2>3. ASSUME b + 2^k <= EndPfn(z)
        PROVE  Block(b, k) \subseteq DOMAIN page /\ \A x \in Block(b, k) : pfn_zone(x) = z
    BY <1>1, <2>1, <2>2, <2>3 DEF Block, FlagsInv
  <2>4. ASSUME Block(b, k) \subseteq DOMAIN page /\ \A x \in Block(b, k) : pfn_zone(x) = z
        PROVE  b + 2^k <= EndPfn(z)
    BY <1>1, <1>2, <2>1, <2>2, <2>4 DEF FlagsInv
  <2> QED
    BY <2>1, <2>3, <2>4
<1>4. CASE z = ZONE_NORMAL
  <2>1. StartPfn(z) = PFN_4G /\ EndPfn(z) = IF max_pfn > PFN_4G THEN max_pfn ELSE PFN_4G
    BY <1>4 DEF StartPfn, EndPfn, MaxOf, ZONE_DMA32, ZONE_NORMAL
  <2>2. \A x \in Nat : pfn_zone(x) = z <=> x >= PFN_4G
    BY <1>1, <1>4 DEF pfn_zone, ZONE_DMA32, ZONE_NORMAL
  <2>3. ASSUME b >= StartPfn(z), b + 2^k <= EndPfn(z)
        PROVE  Block(b, k) \subseteq DOMAIN page /\ \A x \in Block(b, k) : pfn_zone(x) = z
    BY <1>1, <2>1, <2>2, <2>3 DEF Block, FlagsInv
  <2>4. ASSUME Block(b, k) \subseteq DOMAIN page /\ \A x \in Block(b, k) : pfn_zone(x) = z
        PROVE  b >= StartPfn(z) /\ b + 2^k <= EndPfn(z)
    BY <1>1, <1>2, <2>1, <2>2, <2>4 DEF FlagsInv
  <2> QED
    BY <2>3, <2>4
<1> QED
  BY <1>3, <1>4 DEF Zones

\* The free pages of a zone are those of the free blocks.
FreeByZone == \A z : Free(z) = {x \in Pgs(FreeOnes) : pfn_zone(x) = z}

LEMMA FreeIn ==
  FlagsInv /\ FreeInv => FreeByZone
<1>0. FreeInv => \A b \in FreeOnes : Fine(b)
  BY DEF FreeInv, Shared
<1> SUFFICES ASSUME FlagsInv, \A b \in FreeOnes : Fine(b), NEW z
             PROVE  Free(z) = {x \in Pgs(FreeOnes) : pfn_zone(x) = z}
  BY <1>0 DEF FreeByZone
<1>1. \A b \in FreeBlocks : <<b[1], b[2], "free", "free">> \in FreeOnes
  BY DEF FreeOnes
<1>2. ASSUME NEW x, x \in Free(z)
      PROVE  x \in Pgs(FreeOnes) /\ pfn_zone(x) = z
  <2>1. PICK b \in FreeBlocks : pfn_zone(b[1]) = z /\ x \in Block(b[1], b[2])
    BY <1>2 DEF Free
  <2>2. <<b[1], b[2], "free", "free">> \in FreeOnes
    BY <1>1
  <2>3. x \in Pg(<<b[1], b[2], "free", "free">>)
    BY <2>1 DEF Pg
  <2>4. Fine(<<b[1], b[2], "free", "free">>)
    BY <2>2
  <2>5. pfn_zone(x) = z
    BY <2>1, <2>3, <2>4 DEF Fine
  <2> QED
    BY <2>2, <2>3, <2>5 DEF Pgs
<1>3. ASSUME NEW x \in Pgs(FreeOnes), pfn_zone(x) = z
      PROVE  x \in Free(z)
  <2>1. PICK b \in FreeOnes : x \in Pg(b)
    BY DEF Pgs
  <2>2. PICK c \in FreeBlocks : b = <<c[1], c[2], "free", "free">>
    BY DEF FreeOnes
  <2>3. pfn_zone(c[1]) = z
    BY <1>3, <2>1, <2>2 DEF Fine
  <2>4. x \in Block(c[1], c[2])
    BY <2>1, <2>2 DEF Pg
  <2> QED
    BY <2>3, <2>4 DEF Free
<1> QED
  BY <1>2, <1>3

\* How far buddy_free gets.
LEMMA MergedOrderIs ==
  ASSUME NEW z, NEW p, NEW o \in Orders
  PROVE  LET m == MergedOrder(z, p, o) IN
         /\ m \in Orders /\ o <= m
         /\ \A k \in o .. m - 1 : k \in Orders /\ Merges(z, p, k)
         /\ m # MAX_ORDER - 1 => ~Merges(z, p, m)
<1> DEFINE S == {m \in o .. MAX_ORDER - 1 : \A k \in o .. m - 1 : Merges(z, p, k)}
           m == Max(S)
<1>1. o \in S
  <2>1. o .. o - 1 = {} /\ o \in o .. MAX_ORDER - 1
    BY OrdersIn DEF Orders
  <2> QED
    BY <2>1
<1>2. S \subseteq Nat /\ MAX_ORDER \in Nat /\ \A x \in S : x <= MAX_ORDER
  BY OrdersIn
<1>3. m \in S /\ \A x \in S : x <= m
  BY <1>1, <1>2, GreatestOf
<1>4. m \in Orders /\ o <= m /\ \A k \in o .. m - 1 : k \in Orders /\ Merges(z, p, k)
  <2>1. m \in o .. MAX_ORDER - 1 /\ \A k \in o .. m - 1 : Merges(z, p, k)
    BY <1>3
  <2> HIDE DEF m
  <2> QED
    BY <2>1, OrdersIn
<1>6. MergedOrder(z, p, o) = m
  BY DEF MergedOrder
<1> HIDE DEF m
<1>5. ASSUME m # MAX_ORDER - 1, Merges(z, p, m)
      PROVE  FALSE
  <2>1. m + 1 \in o .. MAX_ORDER - 1 /\ ~(m + 1 <= m)
    BY <1>4, <1>5, OrdersIn
  <2>2. o .. (m + 1) - 1 = (o .. m - 1) \cup {m}
    BY <1>4, OrdersIn
  <2>3. m + 1 \in S
    BY <1>4, <1>5, <2>1, <2>2
  <2> QED
    BY <1>3, <2>1, <2>3
<1> QED
  BY <1>4, <1>5, <1>6

\* What a caller of buddy_free has done to mem_map leaves the free blocks alone.
SameFree(pg) ==
    /\ DOMAIN pg = DOMAIN page
    /\ \A q \in DOMAIN page :
         /\ DOMAIN pg[q] = {"flags", "order", "refcount"}
         /\ "BUDDY" \in page[q].flags => pg[q].order = page[q].order
         /\ "BUDDY" \in pg[q].flags <=> "BUDDY" \in page[q].flags

\* The pieces of buddy_free: the buddies that are merged with block b, and where they
\* all become one block.
Partner(b, k) == BuddyOf(Base(b[1], k), k)
Partners(b, m) == {<<Partner(b, k), k, "free", "free">> : k \in b[2] .. m - 1}
Together(b, m) == <<Base(b[1], m), m, "free", "free">>

LEMMA PartnersFree ==
  ASSUME FlagsInv, FreeInv, NEW b, Fine(b), Pg(b) \subseteq DOMAIN page,
         NEW z, z = pfn_zone(b[1]), NEW m \in Orders, b[2] <= m,
         \A k \in b[2] .. m - 1 : k \in Orders /\ Merges(z, b[1], k)
  PROVE  /\ Partners(b, m) \subseteq FreeOnes
         /\ Pg(Together(b, m)) = Pgs(Partners(b, m)) \cup Pg(b)
         /\ Fine(Together(b, m))
         /\ Base(b[1], m) \in DOMAIN page
<1>1. b[1] \in Nat /\ b[2] \in Orders /\ Aligned(b[1], b[2]) /\ z \in Zones
  BY DEF Fine, pfn_zone, Zones
<1>2. ASSUME NEW k \in b[2] .. m - 1
      PROVE  /\ <<Partner(b, k), k, "free", "free">> \in FreeOnes
             /\ \A x \in Block(Partner(b, k), k) : pfn_zone(x) = z
  <2>1. k \in Orders /\ k \in 0 .. MAX_ORDER /\ k # MAX_ORDER
    BY OrdersIn
  <2>2. Base(b[1], k) \in Nat /\ Aligned(Base(b[1], k), k)
    BY <1>1, <2>1, BaseAt
  <2>3. Partner(b, k) \in Nat
    BY <2>1, <2>2, Halves DEF Partner
  <2>4. /\ Partner(b, k) >= StartPfn(z) /\ Partner(b, k) + 2^k <= EndPfn(z)
        /\ "BUDDY" \in page[Partner(b, k)].flags /\ page[Partner(b, k)].order = k
    BY DEF Merges, Partner
  <2>5. Block(Partner(b, k), k) \subseteq DOMAIN page /\ \A x \in Block(Partner(b, k), k) : pfn_zone(x) = z
    BY <1>1, <2>1, <2>3, <2>4, InZoneOnly
  <2>6. Partner(b, k) \in DOMAIN page
    BY <2>1, <2>3, <2>5, HeadInBlock
  <2>7. Partner(b, k) \in free_area[k]
    BY <2>1, <2>4, <2>6 DEF FlagsInv
  <2> QED
    BY <2>1, <2>5, <2>7, FreeOne DEF FreeByList
<1>3. Partners(b, m) \subseteq FreeOnes
  BY <1>2 DEF Partners
<1>4. Pgs(Partners(b, m)) = Buddies(b[1], b[2], m)
  <2>1. \A k : Pg(<<Partner(b, k), k, "free", "free">>) = Block(Partner(b, k), k)
    BY DEF Pg
  <2>2. ASSUME NEW x, x \in Pgs(Partners(b, m))
        PROVE  x \in Buddies(b[1], b[2], m)
    <3>1. PICK c \in Partners(b, m) : x \in Pg(c)
      BY <2>2 DEF Pgs
    <3>2. PICK k \in b[2] .. m - 1 : c = <<Partner(b, k), k, "free", "free">>
      BY DEF Partners
    <3>3. x \in Block(Partner(b, k), k)
      BY <2>1, <3>1, <3>2
    <3> QED
      BY <3>3 DEF Buddies, Partner
  <2>3. ASSUME NEW x, x \in Buddies(b[1], b[2], m)
        PROVE  x \in Pgs(Partners(b, m))
    <3>1. PICK k \in b[2] .. m - 1 : x \in Block(Partner(b, k), k)
      BY <2>3 DEF Buddies, Partner
    <3>2. <<Partner(b, k), k, "free", "free">> \in Partners(b, m)
      BY DEF Partners
    <3> QED
      BY <2>1, <3>1, <3>2 DEF Pgs
  <2> QED
    BY <2>2, <2>3
<1>5. Pg(Together(b, m)) = Pgs(Partners(b, m)) \cup Pg(b)
  BY <1>1, <1>4, Merged DEF Pg, Together
<1>6. Base(b[1], m) \in Nat /\ Aligned(Base(b[1], m), m)
  BY <1>1, BaseAt, OrdersIn
<1>7. \A x \in Pg(Together(b, m)) : x \in DOMAIN page /\ pfn_zone(x) = z
  <2>1. \A x \in Pgs(Partners(b, m)) : pfn_zone(x) = z
    BY <1>2 DEF Pgs, Pg, Partners
  <2>2. Pgs(Partners(b, m)) \subseteq DOMAIN page
    BY <1>3 DEF FreeInv, Pgs
  <2> QED
    BY <1>5, <2>1, <2>2 DEF Fine
<1>8. Base(b[1], m) \in Pg(Together(b, m))
  BY <1>6, HeadInBlock, OrdersIn DEF Pg, Together
<1>9. Fine(Together(b, m))
  <2>1. pfn_zone(Base(b[1], m)) = z
    BY <1>7, <1>8
  <2> QED
    BY <1>6, <1>7, <2>1 DEF Fine, Together
<1> QED
  BY <1>3, <1>5, <1>7, <1>8, <1>9

\* What is on the lists afterwards.
LEMMA ListsAfter ==
  ASSUME FlagsInv, NEW b, NEW pg, NEW m \in Orders, m = MergedOrder(pfn_zone(b[1]), b[1], b[2]),
         \A k \in b[2] .. m - 1 : k \in Orders, b[2] \in Orders,
         SameFree(pg), buddy_free(pfn_zone(b[1]), b[1], b[2], pg)
  PROVE  LET head == Base(b[1], m) IN
         /\ DOMAIN free_area' = Orders
         /\ \A q : \A k \in Orders :
               q \in free_area'[k] <=> \/ q \in free_area[k] /\ <<q, k, "free", "free">> \notin Partners(b, m)
                                       \/ k = m /\ q = head
         /\ DOMAIN page' = DOMAIN page
         /\ head \in DOMAIN page => page'[head] = Listed(pg[head], m)
         /\ \A q \in DOMAIN page : q # head =>
               page'[q] = IF \E k \in Orders : <<q, k, "free", "free">> \in Partners(b, m)
                          THEN Unlisted(pg[q]) ELSE pg[q]
         /\ nfree' = [nfree EXCEPT ![pfn_zone(b[1])] = @ + 2^b[2]]
<1> DEFINE p == b[1]
           o == b[2]
           head == Base(p, m)
           gone == [k \in Orders |-> IF k \in o .. m - 1 THEN {BuddyOf(Base(p, k), k)} ELSE {}]
<1>1. /\ free_area' = [k \in Orders |-> (free_area[k] \ gone[k]) \cup (IF k = m THEN {head} ELSE {})]
      /\ page' = [q \in DOMAIN page |->
              CASE q = head -> Listed(pg[q], m)
                [] q # head /\ (\E k \in Orders : q \in gone[k]) -> Unlisted(pg[q])
                [] OTHER -> pg[q]]
      /\ nfree' = [nfree EXCEPT ![pfn_zone(p)] = @ + 2^o]
  BY DEF buddy_free
<1>2. \A q : \A k \in Orders : q \in gone[k] <=> <<q, k, "free", "free">> \in Partners(b, m)
  <2> TAKE q
  <2> TAKE k \in Orders
  <2>1. ASSUME <<q, k, "free", "free">> \in Partners(b, m)
        PROVE  q \in gone[k]
    <3>1. PICK j \in o .. m - 1 : <<q, k, "free", "free">> = <<Partner(b, j), j, "free", "free">>
      BY <2>1 DEF Partners
    <3> QED
      BY <3>1 DEF Partner
  <2>2. ASSUME q \in gone[k]
        PROVE  <<q, k, "free", "free">> \in Partners(b, m)
    BY <2>2 DEF Partners, Partner
  <2> QED
    BY <2>1, <2>2
<1> HIDE DEF gone, head
<1>3. DOMAIN free_area' = Orders /\ DOMAIN page' = DOMAIN page
  BY <1>1
<1>4. \A q : \A k \in Orders : q \in free_area'[k] <=> (q \in free_area[k] /\ q \notin gone[k]) \/ (k = m /\ q = head)
  BY <1>1
<1>5. head \in DOMAIN page => page'[head] = Listed(pg[head], m)
  BY <1>1
<1>6. \A q \in DOMAIN page : q # head =>
         page'[q] = IF \E k \in Orders : q \in gone[k] THEN Unlisted(pg[q]) ELSE pg[q]
  BY <1>1
<1>7. \A q : (\E k \in Orders : q \in gone[k]) <=> (\E k \in Orders : <<q, k, "free", "free">> \in Partners(b, m))
  BY <1>2
<1>8. \A q \in DOMAIN page : q # head =>
         page'[q] = IF \E k \in Orders : <<q, k, "free", "free">> \in Partners(b, m)
                    THEN Unlisted(pg[q]) ELSE pg[q]
  BY <1>6, <1>7
<1>9. \A q : \A k \in Orders :
         q \in free_area'[k] <=> \/ q \in free_area[k] /\ <<q, k, "free", "free">> \notin Partners(b, m)
                                 \/ k = m /\ q = head
  BY <1>2, <1>4
<1> QED
  BY <1>1, <1>3, <1>5, <1>8, <1>9 DEF head

LEMMA Zone ==
  ASSUME NEW x
  PROVE  pfn_zone(x) \in Zones
BY DEF pfn_zone, Zones

LEMMA BlockCount ==
  ASSUME NEW b, Fine(b)
  PROVE  IsFiniteSet(Pg(b)) /\ Cardinality(Pg(b)) = 2^b[2] /\ 2^b[2] \in Nat \ {0}
<1>1. b[1] \in Nat /\ 2^b[2] \in Nat \ {0}
  BY Powers, OrdersIn DEF Fine
<1>2. Pg(b) = b[1] .. b[1] + 2^b[2] - 1
  BY DEF Pg, Block
<1>3. \A a \in Nat, n \in Nat \ {0} :
         IsFiniteSet(a .. a + n - 1) /\ Cardinality(a .. a + n - 1) = n
  <2> TAKE a \in Nat, n \in Nat \ {0}
  <2>1. a \in Int /\ a + n - 1 \in Int /\ ~(a > a + n - 1) /\ a + n - 1 - a + 1 = n
    OBVIOUS
  <2> QED
    BY <2>1, FS_Interval
<1> QED
  BY <1>1, <1>2, <1>3

\* The free pages of a zone are finitely many.
LEMMA FreeFinite ==
  ASSUME FlagsInv, FreeInv, NEW z
  PROVE  IsFiniteSet(Free(z)) /\ Cardinality(Free(z)) \in Nat
<1>1. Free(z) \subseteq DOMAIN page
  BY FreeIn DEF FreeByZone, FreeInv, Shared
<1>2. IsFiniteSet(DOMAIN page)
  BY FS_Interval DEF FlagsInv
<1> QED
  BY <1>1, <1>2, FS_Subset, FS_CardinalityType

\* buddy_free adds a block to the free ones, merged with its buddies.
Freeing(b, G, h) ==
    /\ Fine(h) /\ G \subseteq FreeOnes
    /\ Pg(h) = Pgs(G) \cup Pg(b)
    /\ FreeOnes' = (FreeOnes \ G) \cup {h}
    /\ FlagsInv' /\ MergedInv' /\ CountInv' /\ FreeInv'
    /\ Pgs(FreeOnes)' = Pgs(FreeOnes) \cup Pg(b)
    /\ DOMAIN page' = DOMAIN page

LEMMA BuddyFreed ==
  ASSUME FlagsInv, MergedInv, CountInv, FreeInv,
         NEW b, Fine(b), Pg(b) \subseteq DOMAIN page, Pg(b) \cap Pgs(FreeOnes) = {},
         NEW pg, SameFree(pg), buddy_free(pfn_zone(b[1]), b[1], b[2], pg), max_pfn' = max_pfn
  PROVE  /\ \E G, h : Freeing(b, G, h)
         /\ \A q \in DOMAIN page : q \notin Pgs(FreeOnes) \cup Pg(b) => page'[q] = pg[q]
<1> DEFINE z == pfn_zone(b[1])
<1>1. PICK m : m = MergedOrder(z, b[1], b[2])
  OBVIOUS
<1>2. b[1] \in Nat /\ b[2] \in Orders /\ Aligned(b[1], b[2]) /\ z \in Zones
  BY Zone DEF Fine
<1>3. /\ m \in Orders /\ b[2] <= m
      /\ \A k \in b[2] .. m - 1 : k \in Orders /\ Merges(z, b[1], k)
      /\ m # MAX_ORDER - 1 => ~Merges(z, b[1], m)
  BY <1>1, <1>2, MergedOrderIs
<1>4. PICK head : head = Base(b[1], m)
  OBVIOUS
<1>5. PICK G : G = Partners(b, m)
  OBVIOUS
<1>6. PICK h : h = <<head, m, "free", "free">>
  OBVIOUS
<1>7. G \subseteq FreeOnes /\ Pg(h) = Pgs(G) \cup Pg(b) /\ Fine(h) /\ head \in DOMAIN page
  <2>1. h = Together(b, m)
    BY <1>4, <1>6 DEF Together
  <2> QED
    BY <1>2, <1>3, <1>4, <1>5, <2>1, PartnersFree
<1>8. /\ DOMAIN free_area' = Orders
      /\ \A q : \A k \in Orders :
            q \in free_area'[k] <=> \/ q \in free_area[k] /\ <<q, k, "free", "free">> \notin G
                                    \/ k = m /\ q = head
      /\ DOMAIN page' = DOMAIN page
      /\ page'[head] = Listed(pg[head], m)
      /\ \A q \in DOMAIN page : q # head =>
            page'[q] = IF \E k \in Orders : <<q, k, "free", "free">> \in G
                       THEN Unlisted(pg[q]) ELSE pg[q]
      /\ nfree' = [nfree EXCEPT ![z] = @ + 2^b[2]]
  <2>1. /\ m = MergedOrder(pfn_zone(b[1]), b[1], b[2])
        /\ \A k \in b[2] .. m - 1 : k \in Orders
    BY <1>1, <1>3
  <2>2. LET hd == Base(b[1], m) IN
        /\ DOMAIN free_area' = Orders
        /\ \A q : \A k \in Orders :
              q \in free_area'[k] <=> \/ q \in free_area[k] /\ <<q, k, "free", "free">> \notin Partners(b, m)
                                      \/ k = m /\ q = hd
        /\ DOMAIN page' = DOMAIN page
        /\ hd \in DOMAIN page => page'[hd] = Listed(pg[hd], m)
        /\ \A q \in DOMAIN page : q # hd =>
              page'[q] = IF \E k \in Orders : <<q, k, "free", "free">> \in Partners(b, m)
                         THEN Unlisted(pg[q]) ELSE pg[q]
        /\ nfree' = [nfree EXCEPT ![pfn_zone(b[1])] = @ + 2^b[2]]
    BY <1>2, <1>3, <2>1, ListsAfter
  <2> QED
    BY <1>4, <1>5, <1>7, <2>2
<1> HIDE DEF z
\* No other free block starts in the new one.
<1>9. \A c \in FreeOnes \ G : Pg(c) \cap Pg(h) = {} /\ c[1] # head
  <2> TAKE c \in FreeOnes \ G
  <2>1. Pg(c) \cap Pg(b) = {}
    BY DEF Pgs
  <2>2. Pg(c) \cap Pgs(G) = {}
    BY <1>7 DEF FreeInv, Shared, Pgs
  <2>3. Pg(c) \cap Pg(h) = {}
    BY <1>7, <2>1, <2>2
  <2>4. c[1] \in Pg(c)
    BY FinePages DEF FreeInv, Shared
  <2>5. head \in Pg(h)
    BY <1>6, <1>7, FinePages
  <2> QED
    BY <2>3, <2>4, <2>5
<1>10. \A q, k : <<q, k, "free", "free">> \in FreeOnes <=> k \in Orders /\ q \in free_area[k]
  BY FreeOne DEF FreeByList
<1>0. \A k \in Orders : \A q \in free_area'[k] :
         \/ q \in free_area[k] /\ <<q, k, "free", "free">> \notin G
         \/ k = m /\ q = head
  BY <1>8
<1>11. \A k \in Orders : free_area'[k] \subseteq DOMAIN page
  <2> TAKE k \in Orders
  <2>1. free_area[k] \subseteq DOMAIN page
    BY DEF FlagsInv
  <2> QED
    BY <1>7, <1>0, <2>1
<1>12. FlagsInv'
  <2>1. \A q \in DOMAIN page : DOMAIN page'[q] = {"flags", "order", "refcount"}
    <3> TAKE q \in DOMAIN page
    <3>1. DOMAIN pg[q] = {"flags", "order", "refcount"}
      BY DEF SameFree
    <3> QED
      BY <1>8, <3>1 DEF Listed, Unlisted
  <2>2. ASSUME NEW q \in DOMAIN page
        PROVE  /\ \A k \in Orders : q \in free_area'[k] <=> "BUDDY" \in page'[q].flags /\ page'[q].order = k
               /\ "BUDDY" \in page'[q].flags => page'[q].order \in Orders
    <3>1. /\ DOMAIN pg[q] = {"flags", "order", "refcount"}
          /\ "BUDDY" \in page[q].flags => pg[q].order = page[q].order
          /\ "BUDDY" \in pg[q].flags <=> "BUDDY" \in page[q].flags
      BY DEF SameFree
    <3>2. CASE q = head
      <4>1. "BUDDY" \in page'[q].flags /\ page'[q].order = m
        BY <1>8, <3>1, <3>2 DEF Listed
      <4>2. \A k \in Orders : q \in free_area'[k] <=> k = m
        <5> TAKE k \in Orders
        <5>1. ASSUME q \in free_area[k], <<q, k, "free", "free">> \notin G
              PROVE  FALSE
          <6>1. <<q, k, "free", "free">> \in FreeOnes \ G
            BY <1>10, <5>1
          <6>2. <<q, k, "free", "free">>[1] = q
            OBVIOUS
          <6> QED
            BY <1>9, <3>2, <6>1, <6>2
        <5> QED
          BY <1>8, <3>2, <5>1
      <4> QED
        BY <1>3, <4>1, <4>2
    <3>3. CASE q # head /\ \E k \in Orders : <<q, k, "free", "free">> \in G
      <4>1. "BUDDY" \notin page'[q].flags
        <5>1. page'[q] = Unlisted(pg[q])
          BY <1>8, <3>3
        <5> QED
          BY <3>1, <5>1 DEF Unlisted
      <4>2. PICK j \in Orders : <<q, j, "free", "free">> \in G
        BY <3>3
      <4>3. ASSUME NEW k \in Orders, q \in free_area'[k]
            PROVE  FALSE
        <5>1. q \in free_area[k] /\ <<q, k, "free", "free">> \notin G
          BY <1>8, <3>3, <4>3
        <5>2. <<q, k, "free", "free">> \in FreeOnes
          BY <1>10, <5>1
        <5>3. <<q, j, "free", "free">> \in FreeOnes /\ j # k
          BY <1>7, <4>2, <5>1
        <5>4. page[q].order = k /\ page[q].order = j
          BY <1>10, <5>2, <5>3 DEF FlagsInv
        <5> QED
          BY <5>3, <5>4
      <4> QED
        BY <4>1, <4>3
    <3>4. CASE q # head /\ ~\E k \in Orders : <<q, k, "free", "free">> \in G
      <4>1. page'[q] = pg[q]
        BY <1>8, <3>4
      <4>2. \A k \in Orders : q \in free_area'[k] <=> q \in free_area[k]
        BY <1>8, <3>4
      <4> QED
        BY <3>1, <4>1, <4>2 DEF FlagsInv
    <3> QED
      BY <3>2, <3>3, <3>4
  <2> QED
    BY <1>8, <1>11, <2>1, <2>2 DEF FlagsInv
<1>13. FreeOnes' = (FreeOnes \ G) \cup {h}
  <2>0. FreeByList'
    BY <1>12, FreeOne, PTL
  <2>1. \A q, k : <<q, k, "free", "free">> \in FreeOnes' <=> k \in Orders /\ q \in free_area'[k]
    BY <2>0 DEF FreeByList
  <2>2. \A c \in FreeOnes' : c = <<c[1], c[2], "free", "free">>
    BY <2>0 DEF FreeByList
  <2>3. \A c \in FreeOnes : c = <<c[1], c[2], "free", "free">>
    BY FreeOne DEF FreeByList
  <2>4. \A q, k : (<<q, k, "free", "free">> \in FreeOnes')
                    <=> <<q, k, "free", "free">> \in (FreeOnes \ G) \cup {h}
    BY <1>3, <1>6, <1>8, <1>10, <2>1
  <2>5. ASSUME NEW c \in FreeOnes'
        PROVE  c \in (FreeOnes \ G) \cup {h}
    BY <2>2, <2>4
  <2>6. ASSUME NEW c \in (FreeOnes \ G) \cup {h}
        PROVE  c \in FreeOnes'
    <3>1. c = <<c[1], c[2], "free", "free">>
      BY <1>6, <2>3
    <3> QED
      BY <2>4, <3>1
  <2> QED
    BY <2>5, <2>6
<1>14. Shared(FreeOnes', Pgs(FreeOnes) \cup Pg(b))
  <2>1. Shared(FreeOnes, Pgs(FreeOnes))
    BY DEF FreeInv
  <2>2. Pgs({h}) = Pgs(G) \cup Pg(b)
    BY <1>7 DEF Pgs
  <2>3. \A x \in {h} : Fine(x)
    BY <1>7
  <2>4. \A x, y \in {h} : x # y => Pg(x) \cap Pg(y) = {}
    OBVIOUS
  <2>5. Pg(b) \cap Pgs(FreeOnes) = {}
    OBVIOUS
  <2>6. Shared((FreeOnes \ G) \cup {h}, Pgs(FreeOnes) \cup Pg(b))
    BY <1>7, <2>1, <2>2, <2>3, <2>4, <2>5, Regrouped
  <2> QED
    BY <1>13, <2>6
<1>15. Pgs(FreeOnes)' = Pgs(FreeOnes) \cup Pg(b) /\ FreeInv'
  <2>1. Pgs(FreeOnes)' = Pgs(FreeOnes) \cup Pg(b)
    BY <1>14 DEF Shared, Pgs, Pg
  <2>2. Shared(FreeOnes, Pgs(FreeOnes))'
    BY <1>14, <2>1 DEF Shared, Pgs, Pg, Fine
  <2>3. Pgs(FreeOnes)' \subseteq DOMAIN page'
    BY <1>8, <2>1 DEF FreeInv
  <2> QED
    BY <2>1, <2>2, <2>3 DEF FreeInv
<1>16. MergedInv'
  <2>1. ASSUME m # MAX_ORDER - 1, NEW c, c = BuddyOf(head, m), c \in free_area[m],
               <<c, m, "free", "free">> \notin G, pfn_zone(c) = z
        PROVE  FALSE
    <3>1. <<c, m, "free", "free">> \in FreeOnes
      BY <1>3, <1>10, <2>1
    <3>2. Fine(<<c, m, "free", "free">>)
      BY <3>1 DEF FreeInv, Shared
    <3>3. c \in Nat /\ Block(c, m) \subseteq DOMAIN page /\ \A x \in Block(c, m) : pfn_zone(x) = z
      BY <2>1, <3>1, <3>2 DEF Fine, Pg, Pgs, FreeInv
    <3>4. c >= StartPfn(z) /\ c + 2^m <= EndPfn(z)
      BY <1>2, <1>3, <3>3, InZoneOnly
    <3>5. "BUDDY" \in page[c].flags /\ page[c].order = m
      BY <1>3, <2>1 DEF FlagsInv
    <3>6. Merges(z, b[1], m)
      BY <1>4, <2>1, <3>4, <3>5 DEF Merges
    <3> QED
      BY <1>3, <2>1, <3>6
  <2>2. pfn_zone(head) = z
    <3>1. b[1] \in Pg(b) /\ Pg(b) \subseteq Pg(h)
      BY <1>7, FinePages
    <3>2. pfn_zone(b[1]) = pfn_zone(h[1])
      BY <1>7, <3>1 DEF Fine
    <3> QED
      BY <1>6, <3>2 DEF z
  <2>3. head \in Nat /\ Aligned(head, m)
    BY <1>6, <1>7 DEF Fine
  <2>4. ASSUME NEW k \in Orders, k # MAX_ORDER - 1, NEW q \in free_area'[k],
               BuddyOf(q, k) \in free_area'[k], pfn_zone(BuddyOf(q, k)) = pfn_zone(q)
        PROVE  FALSE
    <3>1. \/ q \in free_area[k] /\ <<q, k, "free", "free">> \notin G
          \/ k = m /\ q = head
      BY <1>0, <2>4
    <3>2. \/ BuddyOf(q, k) \in free_area[k] /\ <<BuddyOf(q, k), k, "free", "free">> \notin G
          \/ k = m /\ BuddyOf(q, k) = head
      BY <1>0, <2>4
    <3>3. CASE k = m /\ q = head
      <4>1. BuddyOf(head, m) # head
        BY <1>3, <2>3, Halves, OrdersIn
      <4> QED
        BY <2>1, <2>2, <2>4, <3>2, <3>3, <4>1
    <3>4. CASE ~(k = m /\ q = head) /\ k = m /\ BuddyOf(q, k) = head
      <4>1. q \in free_area[m] /\ <<q, m, "free", "free">> \in FreeOnes \ G
        BY <1>10, <3>1, <3>4
      <4>2. q \in Nat /\ Aligned(q, m)
        BY <4>1 DEF FreeInv, Shared, Fine
      <4>3. BuddyOf(head, m) = q
        BY <1>3, <3>4, <4>2, Halves, OrdersIn
      <4> QED
        BY <2>1, <2>2, <2>4, <3>4, <4>1, <4>3
    <3>5. CASE ~(k = m /\ q = head) /\ ~(k = m /\ BuddyOf(q, k) = head)
      BY <2>4, <3>1, <3>2, <3>5 DEF MergedInv
    <3> QED
      BY <3>3, <3>4, <3>5
  <2> QED
    BY <2>4 DEF MergedInv
<1>17. CountInv'
  <2>1. \A y : Free(y) = {x \in Pgs(FreeOnes) : pfn_zone(x) = y}
    BY FreeIn DEF FreeByZone, FreeInv, Shared
  <2>2. \A y : Free(y)' = {x \in Pgs(FreeOnes)' : pfn_zone(x) = y}
    <3>1. FreeByZone'
      BY <1>12, <1>15, FreeIn, PTL
    <3> QED
      BY <3>1 DEF FreeByZone
  <2>3. \A x \in Pg(b) : pfn_zone(x) = z
    BY DEF Fine, z
  <2>4. Free(z)' = Free(z) \cup Pg(b) /\ Free(z) \cap Pg(b) = {}
    BY <1>15, <2>1, <2>2, <2>3
  <2>5. \A y : y # z => Free(y)' = Free(y)
    BY <1>15, <2>1, <2>2, <2>3
  <2>6. IsFiniteSet(Free(z)) /\ Cardinality(Free(z)) \in Nat
    BY FreeFinite
  <2>7. IsFiniteSet(Pg(b)) /\ Cardinality(Pg(b)) = 2^b[2] /\ 2^b[2] \in Nat
    BY BlockCount
  <2>8. Cardinality(Free(z)') = Cardinality(Free(z)) + 2^b[2]
    <3>1. Cardinality(Free(z) \cup Pg(b))
             = Cardinality(Free(z)) + Cardinality(Pg(b)) - Cardinality(Free(z) \cap Pg(b))
      BY <2>6, <2>7, FS_Union
    <3>2. Cardinality(Free(z) \cap Pg(b)) = 0
      BY <2>4, FS_EmptySet
    <3> QED
      BY <2>4, <2>6, <2>7, <3>1, <3>2
  <2>9. nfree'[z] = nfree[z] + 2^b[2] /\ DOMAIN nfree' = Zones /\ \A y \in Zones : y # z => nfree'[y] = nfree[y]
    BY <1>2, <1>8 DEF CountInv
  <2>10. \A y \in Zones : nfree'[y] = Cardinality(Free(y)')
    BY <1>2, <2>5, <2>8, <2>9 DEF CountInv
  <2> QED
    BY <2>9, <2>10 DEF CountInv
<1>18. \A q \in DOMAIN page : q \notin Pgs(FreeOnes) \cup Pg(b) => page'[q] = pg[q]
  <2> TAKE q \in DOMAIN page
  <2> HAVE q \notin Pgs(FreeOnes) \cup Pg(b)
  <2>1. q # head
    <3>1. head \in Pg(h) /\ Pgs(G) \subseteq Pgs(FreeOnes)
      BY <1>6, <1>7, FinePages DEF Pgs
    <3> QED
      BY <1>7, <3>1
  <2>2. \A k \in Orders : <<q, k, "free", "free">> \notin G
    <3> TAKE k \in Orders
    <3>1. ASSUME <<q, k, "free", "free">> \in G
          PROVE  q \in Pgs(FreeOnes)
      <4>1. <<q, k, "free", "free">> \in FreeOnes /\ Fine(<<q, k, "free", "free">>)
        BY <1>7, <3>1 DEF FreeInv, Shared
      <4>2. q \in Pg(<<q, k, "free", "free">>)
        BY <4>1, FinePages
      <4> QED
        BY <4>1, <4>2 DEF Pgs
    <3> QED
      BY <3>1
  <2> QED
    BY <1>8, <2>1, <2>2
<1> QED
  BY <1>7, <1>8, <1>12, <1>13, <1>15, <1>16, <1>17, <1>18 DEF Freeing

AllOnes == FreeOnes \cup OwnedOnes \cup HeldOnes

\* What pmm_init still has to hand over; nothing has been lost on the way.
TodoInv ==
    /\ todo \in Seq([base : Nat, end : Nat])
    /\ \A i \in DOMAIN todo : NotEmpty(todo[i])
    /\ \A i, j \in DOMAIN todo : i # j => PagesOf(todo[i]) \cap PagesOf(todo[j]) = {}
    /\ managed \cap PagesIn(todo) = {}
    /\ managed \cup PagesIn(todo) \subseteq DOMAIN page
    /\ \E ram \in RamMaps :
          /\ max_pfn = Max(PagesIn(ram)) + 1
          /\ managed \cup PagesIn(todo) = PagesIn(HandedOver(ram))

\* Where a thread is, and what a descriptor says of the block that belongs to somebody.
ThreadInv ==
    /\ DOMAIN th = Users
    /\ \A t \in Users :
         /\ DOMAIN th[t] = {"pc", "order", "zone", "pfn", "ret"}
         /\ th[t].order \in Orders /\ th[t].zone \in Zones
         /\ th[t].ret \in Caches \cup {"user"}
         /\ th[t].ret \in Caches => th[t].order = SLAB_ORDER
         /\ th[t].pc = "idle" => th[t] = NoCall
         /\ th[t].pc = "got" => page[th[t].pfn].order = th[t].order
OwnedInv ==
    \A b \in owned :
       /\ b = <<b[1], b[2], b[3]>> /\ b[3] \in Caches \cup {"user"}
       /\ b[2] = IF b[3] = "user" THEN page[b[1]].order ELSE SLAB_ORDER

Core == BlocksInv /\ FlagsInv /\ MergedInv /\ CountInv /\ TodoInv
BuddyInv == Core /\ ThreadInv /\ OwnedInv

LEMMA CoreFree ==
  ASSUME Core
  PROVE  /\ FreeInv /\ Shared(AllOnes, managed)
         /\ \A b \in AllOnes : Fine(b) /\ Pg(b) \subseteq managed /\ managed \subseteq DOMAIN page
         /\ \A b, c \in AllOnes : b # c => Pg(b) \cap Pg(c) = {}
<1>1. Shared(AllOnes, managed) /\ managed \subseteq DOMAIN page
  BY DEF Core, BlocksInv, AllOnes, TodoInv
<1>2. FreeOnes \subseteq AllOnes
  BY DEF AllOnes
<1>3. Shared(FreeOnes, Pgs(FreeOnes)) /\ Pgs(FreeOnes) \subseteq managed
  BY <1>1, <1>2, SharedPart
<1>4. FreeInv
  BY <1>1, <1>3 DEF FreeInv
<1>5. \A b \in AllOnes : Pg(b) \subseteq managed
  BY <1>1 DEF Shared, Pgs
<1> QED
  BY <1>1, <1>4, <1>5 DEF Shared

\* Where no free block is, nothing is marked as one.
LEMMA NotMarked ==
  ASSUME FlagsInv, FreeInv, NEW q \in DOMAIN page, q \notin Pgs(FreeOnes)
  PROVE  "BUDDY" \notin page[q].flags
<1> SUFFICES ASSUME "BUDDY" \in page[q].flags
             PROVE  FALSE
  OBVIOUS
<1>1. PICK k \in Orders : page[q].order = k /\ q \in free_area[k]
  BY DEF FlagsInv
<1>2. <<q, k, "free", "free">> \in FreeOnes
  BY <1>1, FreeOne DEF FreeByList
<1>3. q \in Pg(<<q, k, "free", "free">>)
  BY <1>2, FinePages DEF FreeInv, Shared
<1> QED
  BY <1>2, <1>3 DEF Pgs

\* A step that leaves the lists alone.
LEMMA SameLists ==
  ASSUME FlagsInv, SameFree(page'), UNCHANGED <<max_pfn, free_area>>
  PROVE  FlagsInv' /\ FreeOnes' = FreeOnes
<1>1. DOMAIN page' = DOMAIN page /\ FreeBlocks' = FreeBlocks
  BY DEF FreeBlocks, SameFree
<1>2. FreeOnes' = FreeOnes
  BY <1>1 DEF FreeOnes
<1>3. FlagsInv'
  BY DEF FlagsInv, SameFree
<1> QED
  BY <1>2, <1>3

LEMMA SameCounts ==
  ASSUME FreeOnes' = FreeOnes, FreeBlocks' = FreeBlocks, CountInv, nfree' = nfree
  PROVE  CountInv'
BY DEF CountInv, Free

\* At most one block changes hands, free blocks aside.
LEMMA PassedOn ==
  ASSUME Core, SameFree(page'), UNCHANGED <<max_pfn, todo, managed, free_area, nfree>>,
         \/ OwnedOnes' \cup HeldOnes' = OwnedOnes \cup HeldOnes
         \/ \E b \in OwnedOnes \cup HeldOnes : \E c :
               /\ c[1] = b[1] /\ c[2] = b[2]
               /\ OwnedOnes' \cup HeldOnes' = ((OwnedOnes \cup HeldOnes) \ {b}) \cup {c}
  PROVE  Core' /\ FreeOnes' = FreeOnes
<1>1. FlagsInv' /\ FreeOnes' = FreeOnes
  BY SameLists DEF Core
<1>2. MergedInv'
  BY DEF Core, MergedInv
<1>3. CountInv'
  <2>1. FreeBlocks' = FreeBlocks
    BY DEF FreeBlocks, SameFree
  <2> QED
    BY <1>1, <2>1, SameCounts DEF Core
<1>4. TodoInv'
  BY DEF Core, TodoInv, SameFree
<1>5. BlocksInv'
  <2>1. CASE OwnedOnes' \cup HeldOnes' = OwnedOnes \cup HeldOnes
    <3>1. FreeOnes' \cup OwnedOnes' \cup HeldOnes' = FreeOnes \cup OwnedOnes \cup HeldOnes
      BY <1>1, <2>1
    <3>2. Shared(FreeOnes' \cup OwnedOnes' \cup HeldOnes', managed')
      BY <3>1 DEF Core, BlocksInv
    <3> QED
      BY <3>2 DEF BlocksInv, Shared, Fine, Pgs, Pg
  <2>2. ASSUME NEW b \in OwnedOnes \cup HeldOnes, NEW c, c[1] = b[1], c[2] = b[2],
               OwnedOnes' \cup HeldOnes' = ((OwnedOnes \cup HeldOnes) \ {b}) \cup {c}
        PROVE  BlocksInv'
    <3>1. Shared(AllOnes, managed) /\ b \in AllOnes /\ Fine(b)
      BY CoreFree DEF AllOnes
    <3>2. b \notin FreeOnes
      <4>1. \A x \in FreeOnes : x[3] = "free"
        BY DEF FreeOnes
      <4>2. \A x \in OwnedOnes \cup HeldOnes : x[3] # "free"
        BY DEF OwnedOnes, HeldOnes
      <4> QED
        BY <4>1, <4>2
    <3>3. FreeOnes' \cup OwnedOnes' \cup HeldOnes' = (AllOnes \ {b}) \cup {c}
      BY <1>1, <2>2, <3>2 DEF AllOnes
    <3>4. Fine(c) /\ Pg(c) = Pg(b)
      BY <2>2, <3>1 DEF Fine, Pg
    <3>5. Pgs({c}) = Pgs({b}) \cup {}
      BY <3>4 DEF Pgs
    <3>6. \A g, h \in {c} : g # h => Pg(g) \cap Pg(h) = {}
      OBVIOUS
    <3>7. \A h \in {c} : Fine(h)
      BY <3>4
    <3>8. {b} \in SUBSET AllOnes
      BY <3>1
    <3>9. Shared((AllOnes \ {b}) \cup {c}, managed \cup {})
      BY <3>1, <3>5, <3>6, <3>7, <3>8, Regrouped
    <3>10. Shared(FreeOnes' \cup OwnedOnes' \cup HeldOnes', managed')
      BY <3>3, <3>9
    <3> QED
      BY <3>10 DEF BlocksInv, Shared, Fine, Pgs, Pg
  <2> QED
    BY <2>1, <2>2
<1> QED
  BY <1>1, <1>2, <1>3, <1>4, <1>5 DEF Core

\* What a step of one thread does to the blocks in hand.
HoldPcs == {"taken", "got", "free", "return"}
Hand(t, r) == IF r.pc \in HoldPcs THEN {<<r.pfn, r.order, "held", t>>} ELSE {}

LEMMA Handed ==
  ASSUME DOMAIN th = Users, NEW t \in Users, NEW r, th' = [th EXCEPT ![t] = r]
  PROVE  /\ HeldOnes' = (HeldOnes \ Hand(t, th[t])) \cup Hand(t, r)
         /\ Hand(t, th[t]) \subseteq HeldOnes
<1>1. \A u \in Users : th'[u] = IF u = t THEN r ELSE th[u]
  OBVIOUS
<1>2. \A b : b \in HeldOnes <=> \E u \in Users : b \in Hand(u, th[u])
  BY DEF HeldOnes, Hand, Holds, HoldPcs
<1>3. \A b : b \in HeldOnes' <=> \E u \in Users : b \in Hand(u, th'[u])
  BY DEF HeldOnes, Hand, Holds, HoldPcs
<1>4. \A u \in Users : \A x, y : u # t => Hand(u, x) \cap Hand(t, y) = {}
  BY DEF Hand
<1> HIDE DEF Hand
<1>5. ASSUME NEW b, b \in HeldOnes'
      PROVE  b \in (HeldOnes \ Hand(t, th[t])) \cup Hand(t, r)
  <2>1. PICK u \in Users : b \in Hand(u, th'[u])
    BY <1>3, <1>5
  <2>2. CASE u = t
    BY <1>1, <2>1, <2>2
  <2>3. CASE u # t
    BY <1>1, <1>2, <1>4, <2>1, <2>3
  <2> QED
    BY <2>2, <2>3
<1>6. ASSUME NEW b, b \in (HeldOnes \ Hand(t, th[t])) \cup Hand(t, r)
      PROVE  b \in HeldOnes'
  <2>1. CASE b \in Hand(t, r)
    BY <1>1, <1>3, <2>1
  <2>2. CASE b \in HeldOnes \ Hand(t, th[t])
    <3>1. PICK u \in Users : b \in Hand(u, th[u])
      BY <1>2, <2>2
    <3> QED
      BY <1>1, <1>3, <2>2, <3>1
  <2> QED
    BY <1>6, <2>1, <2>2
<1> QED
  BY <1>2, <1>5, <1>6

LEMMA ListedAs ==
  ASSUME NEW d, DOMAIN d = {"flags", "order", "refcount"}, NEW k
  PROVE  "BUDDY" \in Listed(d, k).flags /\ Listed(d, k).order = k
BY DEF Listed

\* The lists and mem_map with block p of order f off its list, cut down to order o.
CutLists(p, o, f) ==
    [k \in Orders |-> (free_area[k] \ (IF k = f THEN {p} ELSE {}))
                         \cup (IF k \in o .. f - 1 THEN {Half(p, k)} ELSE {})]
CutPage(p, o, f) ==
    [q \in DOMAIN page |->
       CASE q = p -> Unlisted(page[q])
         [] q # p /\ q \in {Half(p, k) : k \in o .. f - 1} ->
               Listed(page[q], CHOOSE k \in o .. f - 1 : Half(p, k) = q)
         [] OTHER -> page[q]]

\* A block of order f is taken off its list and cut down to order o.
Taking(t, z, o, f, p, r) ==
    /\ DOMAIN th = Users /\ ~Holds(t) /\ o <= f
    /\ p \in free_area[f] /\ pfn_zone(p) = z
    /\ \A k \in o .. f - 1 : InZone(z, free_area[k]) = {}
    /\ free_area' = CutLists(p, o, f) /\ page' = CutPage(p, o, f)
    /\ nfree' = [nfree EXCEPT ![z] = @ - 2^o]
    /\ UNCHANGED <<max_pfn, todo, managed, owned>>
    /\ r.pfn = p /\ r.order = o /\ r.pc = "taken" /\ th' = [th EXCEPT ![t] = r]

LEMMA BlockTaken ==
  ASSUME Core, NEW t \in Users, NEW z \in Zones, NEW o \in Orders, NEW f \in Orders,
         NEW p, NEW r, Taking(t, z, o, f, p, r)
  PROVE  /\ Core'
         /\ \A q \in DOMAIN page : q \notin Pgs(FreeOnes) => page'[q] = page[q]
<1>0. /\ DOMAIN th = Users /\ ~Holds(t) /\ o <= f
      /\ p \in free_area[f] /\ pfn_zone(p) = z
      /\ \A k \in o .. f - 1 : InZone(z, free_area[k]) = {}
      /\ free_area' = CutLists(p, o, f) /\ page' = CutPage(p, o, f)
      /\ nfree' = [nfree EXCEPT ![z] = @ - 2^o]
      /\ UNCHANGED <<max_pfn, todo, managed, owned>>
      /\ r.pfn = p /\ r.order = o /\ r.pc = "taken" /\ th' = [th EXCEPT ![t] = r]
  BY DEF Taking
<1> USE <1>0
<1>1. FreeInv /\ Shared(AllOnes, managed) /\ FlagsInv
  BY CoreFree DEF Core
<1>2. \A q, k : <<q, k, "free", "free">> \in FreeOnes <=> k \in Orders /\ q \in free_area[k]
  BY <1>1, FreeOne DEF FreeByList
<1>3. PICK g : g = <<p, f, "free", "free">>
  OBVIOUS
<1>4. g \in FreeOnes /\ Fine(g) /\ p \in Nat /\ Aligned(p, f) /\ Pg(g) = Block(p, f)
  <2>1. g \in FreeOnes
    BY <1>2, <1>3
  <2> QED
    BY <1>1, <1>3, <2>1 DEF FreeInv, Shared, Fine, Pg
<1>5. \A k \in o .. f - 1 : k \in Orders /\ k < f /\ o <= k
  BY OrdersIn
<1> DEFINE half(k) == <<Half(p, k), k, "free", "free">>
<1>6. PICK H : H = {half(k) : k \in o .. f - 1}
  OBVIOUS
<1>7. /\ \A k \in o .. f - 1 : /\ Half(p, k) \in Nat /\ Half(p, k) # p /\ Aligned(Half(p, k), k)
                               /\ Block(Half(p, k), k) \subseteq Block(p, f)
      /\ \A j, k \in o .. f - 1 : j # k =>
            Half(p, j) # Half(p, k) /\ Block(Half(p, j), j) \cap Block(Half(p, k), k) = {}
  <2>1. \A k \in o .. f - 1 : /\ Half(p, k) \in Nat /\ Half(p, k) # p /\ Aligned(Half(p, k), k)
                              /\ Block(Half(p, k), k) \subseteq Block(p, f)
    BY <1>4, <1>5, HalfAt
  <2>2. ASSUME NEW j \in o .. f - 1, NEW k \in o .. f - 1, j # k
        PROVE  Half(p, j) # Half(p, k) /\ Block(Half(p, j), j) \cap Block(Half(p, k), k) = {}
    <3>1. CASE j < k
      BY <1>4, <1>5, <3>1, HalvesApart
    <3>2. CASE k < j
      BY <1>4, <1>5, <3>2, HalvesApart
    <3> QED
      BY <1>5, <2>2, <3>1, <3>2, OrdersIn
  <2> QED
    BY <2>1, <2>2
<1>8. /\ Block(p, f) = Block(p, o) \cup UNION {Block(Half(p, k), k) : k \in o .. f - 1}
      /\ \A k \in o .. f - 1 : Block(p, o) \cap Block(Half(p, k), k) = {}
      /\ Aligned(p, o)
  BY <1>4, Cut
<1>9. Pgs(H) = UNION {Block(Half(p, k), k) : k \in o .. f - 1}
  <2>1. \A k : Pg(half(k)) = Block(Half(p, k), k)
    BY DEF Pg
  <2> HIDE DEF half
  <2> QED
    BY <1>6, <2>1 DEF Pgs
<1>10. Pgs(H) \cup Block(p, o) = Block(p, f) /\ Pgs(H) \cap Block(p, o) = {}
  BY <1>8, <1>9
<1>11. \A x \in Block(p, f) : pfn_zone(x) = z /\ x \in DOMAIN page
  <2>1. \A x \in Block(p, f) : pfn_zone(x) = z
    BY <1>3, <1>4 DEF Fine
  <2>2. Block(p, f) \subseteq Pgs(FreeOnes)
    BY <1>4 DEF Pgs
  <2> QED
    BY <1>1, <2>1, <2>2 DEF FreeInv
<1>12. \A h \in H : Fine(h)
  <2> TAKE h \in H
  <2>1. PICK k \in o .. f - 1 : h = half(k)
    BY <1>6
  <2>2. k \in Orders /\ Half(p, k) \in Nat /\ Aligned(Half(p, k), k)
        /\ Block(Half(p, k), k) \subseteq Block(p, f)
    BY <1>5, <1>7
  <2>3. Half(p, k) \in Block(Half(p, k), k)
    BY <2>2, HeadInBlock, OrdersIn
  <2>4. \A x \in Block(Half(p, k), k) : pfn_zone(x) = pfn_zone(Half(p, k))
    BY <1>11, <2>2, <2>3
  <2> QED
    BY <2>1, <2>2, <2>4 DEF Fine, Pg
<1>13. \A x, y \in H : x # y => Pg(x) \cap Pg(y) = {}
  <2> TAKE x \in H, y \in H
  <2>1. PICK j \in o .. f - 1 : x = half(j)
    BY <1>6
  <2>2. PICK k \in o .. f - 1 : y = half(k)
    BY <1>6
  <2>3. Pg(x) = Block(Half(p, j), j) /\ Pg(y) = Block(Half(p, k), k)
    BY <2>1, <2>2 DEF Pg
  <2> QED
    BY <1>7, <2>1, <2>2, <2>3
\* The lists and the descriptors.
<1>14. \A q : \A k \in Orders :
          q \in free_area'[k] <=> \/ q \in free_area[k] /\ ~(k = f /\ q = p)
                                  \/ k \in o .. f - 1 /\ q = Half(p, k)
  BY DEF Half, CutLists
<1>15. /\ DOMAIN free_area' = Orders /\ DOMAIN page' = DOMAIN page
       /\ page'[p] = Unlisted(page[p])
       /\ \A k \in o .. f - 1 : page'[Half(p, k)] = Listed(page[Half(p, k)], k)
       /\ \A q \in DOMAIN page : q # p /\ (\A k \in o .. f - 1 : q # Half(p, k)) => page'[q] = page[q]
  <2>1. DOMAIN free_area' = Orders /\ DOMAIN page' = DOMAIN page
    BY DEF CutLists, CutPage
  <2>2. p \in DOMAIN page
    BY <1>1 DEF FlagsInv
  <2>3. page'[p] = Unlisted(page[p])
    BY <2>2 DEF CutPage
  <2>4. ASSUME NEW k \in o .. f - 1
        PROVE  page'[Half(p, k)] = Listed(page[Half(p, k)], k)
    <3>1. Half(p, k) \in DOMAIN page /\ Half(p, k) # p
      <4>1. Half(p, k) \in Block(Half(p, k), k)
        BY <1>5, <1>7, HeadInBlock, OrdersIn
      <4> QED
        BY <1>7, <1>11, <4>1
    <3>2. (CHOOSE j \in o .. f - 1 : Half(p, j) = Half(p, k)) = k
      BY <1>7
    <3>3. Half(p, k) \in {Half(p, j) : j \in o .. f - 1}
      OBVIOUS
    <3> HIDE DEF half
    <3> QED
      BY <3>1, <3>2, <3>3 DEF CutPage
  <2>5. ASSUME NEW q \in DOMAIN page, q # p, \A k \in o .. f - 1 : q # Half(p, k)
        PROVE  page'[q] = page[q]
    <3>1. q \notin {Half(p, k) : k \in o .. f - 1}
      BY <2>5
    <3> QED
      BY <2>5, <3>1 DEF CutPage
  <2> QED
    BY <2>1, <2>3, <2>4, <2>5
<1>16. \A k \in Orders : free_area'[k] \subseteq DOMAIN page
  <2> SUFFICES ASSUME NEW k \in Orders, NEW q \in free_area'[k]
               PROVE  q \in DOMAIN page
    OBVIOUS
  <2>1. CASE q \in free_area[k]
    BY <1>1, <2>1 DEF FlagsInv
  <2>2. CASE k \in o .. f - 1 /\ q = Half(p, k)
    <3>1. q \in Block(Half(p, k), k)
      BY <1>7, <2>2, HeadInBlock, OrdersIn
    <3> QED
      BY <1>7, <1>11, <2>2, <3>1
  <2> QED
    BY <1>14, <2>1, <2>2
\* No other free block starts in the one that is cut.
<1>17. \A q, k : <<q, k, "free", "free">> \in FreeOnes /\ q \in Block(p, f) => q = p /\ k = f
  <2> TAKE q, k
  <2>1. ASSUME <<q, k, "free", "free">> \in FreeOnes, q \in Block(p, f), <<q, k, "free", "free">> # g
        PROVE  FALSE
    <3>1. q \in Pg(<<q, k, "free", "free">>)
      BY <1>1, <2>1, FinePages DEF FreeInv, Shared
    <3>2. Pg(<<q, k, "free", "free">>) \cap Pg(g) = {}
      BY <1>1, <1>4, <2>1 DEF FreeInv, Shared
    <3> QED
      BY <1>4, <2>1, <3>1, <3>2
  <2> QED
    BY <1>3, <2>1
<1>18. \A k \in o .. f - 1 : Half(p, k) \in Block(p, f) /\ Half(p, k) \in DOMAIN page
  <2> TAKE k \in o .. f - 1
  <2>1. Half(p, k) \in Block(Half(p, k), k)
    BY <1>5, <1>7, HeadInBlock, OrdersIn
  <2> QED
    BY <1>7, <1>11, <2>1
<1>19. FlagsInv'
  <2>1. \A q \in DOMAIN page : DOMAIN page'[q] = {"flags", "order", "refcount"}
    <3> TAKE q \in DOMAIN page
    <3>1. DOMAIN page[q] = {"flags", "order", "refcount"}
      BY <1>1 DEF FlagsInv
    <3>2. CASE q = p
      BY <1>15, <3>1, <3>2 DEF Unlisted
    <3>3. CASE \E k \in o .. f - 1 : q = Half(p, k)
      <4>1. PICK k \in o .. f - 1 : q = Half(p, k)
        BY <3>3
      <4>2. page'[q] = Listed(page[q], k)
        BY <1>15, <4>1
      <4> QED
        BY <3>1, <4>2 DEF Listed
    <3>4. CASE q # p /\ \A k \in o .. f - 1 : q # Half(p, k)
      BY <1>15, <3>1, <3>4
    <3> QED
      BY <3>2, <3>3, <3>4
  <2>2. ASSUME NEW q \in DOMAIN page
        PROVE  /\ \A k \in Orders : q \in free_area'[k] <=> "BUDDY" \in page'[q].flags /\ page'[q].order = k
               /\ "BUDDY" \in page'[q].flags => page'[q].order \in Orders
    <3>1. DOMAIN page[q] = {"flags", "order", "refcount"}
      BY <1>1 DEF FlagsInv
    <3>2. CASE q = p
      <4>1. "BUDDY" \notin page'[q].flags
        <5>1. page'[q] = Unlisted(page[q])
          BY <1>15, <3>2
        <5> QED
          BY <3>1, <5>1 DEF Unlisted
      <4>2. ASSUME NEW k \in Orders, q \in free_area'[k]
            PROVE  FALSE
        <5>1. q \in free_area[k] /\ k # f
          BY <1>7, <1>14, <3>2, <4>2
        <5>2. page[q].order = k /\ page[q].order = f
          BY <1>1, <3>2, <5>1 DEF FlagsInv
        <5> QED
          BY <5>1, <5>2
      <4> QED
        BY <4>1, <4>2
    <3>3. CASE \E k \in o .. f - 1 : q = Half(p, k)
      <4>1. PICK j \in o .. f - 1 : q = Half(p, j)
        BY <3>3
      <4>2. "BUDDY" \in page'[q].flags /\ page'[q].order = j /\ j \in Orders
        <5>1. page'[q] = Listed(page[q], j)
          BY <1>15, <4>1
        <5>2. j \in Orders
          BY <1>5
        <5> QED
          BY <3>1, <5>1, <5>2, ListedAs
      <4>3. \A k \in Orders : q \in free_area'[k] <=> k = j
        <5> TAKE k \in Orders
        <5>1. q \notin free_area[k]
          <6>1. ASSUME q \in free_area[k]
                PROVE  FALSE
            <7>1. <<q, k, "free", "free">> \in FreeOnes /\ q \in Block(p, f)
              BY <1>2, <1>18, <4>1, <6>1
            <7> QED
              BY <1>7, <1>17, <4>1, <7>1
          <6> QED
            BY <6>1
        <5> QED
          BY <1>7, <1>14, <4>1, <5>1
      <4> QED
        BY <4>2, <4>3
    <3>4. CASE q # p /\ \A k \in o .. f - 1 : q # Half(p, k)
      <4>1. page'[q] = page[q]
        BY <1>15, <3>4
      <4>2. \A k \in Orders : q \in free_area'[k] <=> q \in free_area[k]
        BY <1>14, <3>4
      <4> QED
        BY <1>1, <4>1, <4>2 DEF FlagsInv
    <3> QED
      BY <3>2, <3>3, <3>4
  <2>3. max_pfn' = max_pfn /\ max_pfn \in Nat \ {0} /\ DOMAIN page' = 0 .. max_pfn' - 1
    BY <1>1, <1>15 DEF FlagsInv
  <2> QED
    BY <1>15, <1>16, <2>1, <2>2, <2>3 DEF FlagsInv
<1>20. FreeOnes' = (FreeOnes \ {g}) \cup H
  <2>0. FreeByList /\ FreeByList'
    BY <1>1, <1>19, FreeOne, PTL
  <2>1. \A q, k : <<q, k, "free", "free">> \in FreeOnes' <=> k \in Orders /\ q \in free_area'[k]
    BY <2>0 DEF FreeByList
  <2>2. \A q, k : <<q, k, "free", "free">> \in H <=> k \in o .. f - 1 /\ q = Half(p, k)
    BY <1>6
  <2>3. \A q, k : <<q, k, "free", "free">> \in FreeOnes'
                    <=> <<q, k, "free", "free">> \in (FreeOnes \ {g}) \cup H
    <3> TAKE q, k
    <3>1. <<q, k, "free", "free">> \in FreeOnes <=> k \in Orders /\ q \in free_area[k]
      BY <2>0 DEF FreeByList
    <3>2. <<q, k, "free", "free">> = g <=> q = p /\ k = f
      BY <1>3
    <3>3. k \in o .. f - 1 => k \in Orders
      BY <1>5
    <3>4. k \in Orders =>
             (q \in free_area'[k] <=>
                (q \in free_area[k] /\ ~(q = p /\ k = f)) \/ (k \in o .. f - 1 /\ q = Half(p, k)))
      BY <1>14
    <3> QED
      BY <2>1, <2>2, <3>1, <3>2, <3>3, <3>4
  <2>4. \A c \in FreeOnes' \cup FreeOnes \cup H : c = <<c[1], c[2], "free", "free">>
    <3>1. \A c \in H : c = <<c[1], c[2], "free", "free">>
      BY <1>6
    <3> QED
      BY <2>0, <3>1 DEF FreeByList
  <2>5. ASSUME NEW c \in FreeOnes'
        PROVE  c \in (FreeOnes \ {g}) \cup H
    BY <2>3, <2>4
  <2>6. ASSUME NEW c \in (FreeOnes \ {g}) \cup H
        PROVE  c \in FreeOnes'
    BY <2>3, <2>4
  <2> QED
    BY <2>5, <2>6
<1>21. PICK h : h = <<p, o, "held", t>>
  OBVIOUS
<1>22. HeldOnes' = HeldOnes \cup {h} /\ OwnedOnes' = OwnedOnes
  <2>1. Hand(t, th[t]) = {}
    BY DEF Hand, Holds, HoldPcs
  <2>2. Hand(t, r) = {h}
    BY <1>21 DEF Hand, HoldPcs
  <2> QED
    BY <2>1, <2>2, Handed DEF OwnedOnes
<1>23. Fine(h) /\ Pg(h) = Block(p, o)
  <2>1. Block(p, o) \subseteq Block(p, f)
    BY <1>10
  <2>2. p \in Block(p, o)
    BY <1>4, HeadInBlock, OrdersIn
  <2> QED
    BY <1>4, <1>8, <1>11, <1>21, <2>1, <2>2 DEF Fine, Pg
<1>24. BlocksInv'
  <2>1. AllOnes' = (AllOnes \ {g}) \cup (H \cup {h})
    <3>1. g \notin OwnedOnes \cup HeldOnes
      BY <1>3 DEF OwnedOnes, HeldOnes
    <3> QED
      BY <1>20, <1>22, <3>1 DEF AllOnes
  <2>2. {g} \in SUBSET AllOnes
    BY <1>4 DEF AllOnes
  <2>3. \A x \in H \cup {h} : Fine(x)
    BY <1>12, <1>23
  <2>4. \A x \in H : Pg(x) \cap Pg(h) = {}
    BY <1>10, <1>23 DEF Pgs
  <2>5. \A x, y \in H \cup {h} : x # y => Pg(x) \cap Pg(y) = {}
    BY <1>13, <2>4
  <2>6. Pgs(H \cup {h}) = Pgs({g}) \cup {}
    <3>1. Pgs(H \cup {h}) = Pgs(H) \cup Pg(h) /\ Pgs({g}) = Pg(g)
      BY DEF Pgs
    <3> QED
      BY <1>4, <1>10, <1>23, <3>1
  <2>7. Shared((AllOnes \ {g}) \cup (H \cup {h}), managed \cup {})
    BY <1>1, <2>2, <2>3, <2>5, <2>6, Regrouped
  <2>8. Shared(AllOnes', managed')
    BY <2>1, <2>7
  <2> QED
    BY <2>8 DEF BlocksInv, AllOnes, Shared, Fine, Pgs, Pg
<1>25. MergedInv'
  <2> SUFFICES ASSUME NEW k \in Orders, k # MAX_ORDER - 1, NEW q \in free_area'[k],
                      BuddyOf(q, k) \in free_area'[k], pfn_zone(BuddyOf(q, k)) = pfn_zone(q)
               PROVE  FALSE
    BY DEF MergedInv
  <2>1. CASE q \in free_area[k] /\ BuddyOf(q, k) \in free_area[k]
    BY <2>1 DEF Core, MergedInv
  <2>2. CASE k \in o .. f - 1 /\ (q = Half(p, k) \/ BuddyOf(q, k) = Half(p, k))
    <3>1. pfn_zone(q) = z
      BY <1>11, <1>18, <2>2
    <3>2. q \notin free_area[k] /\ BuddyOf(q, k) \notin free_area[k]
      BY <2>2, <3>1 DEF InZone
    <3>3. q = Half(p, k) /\ BuddyOf(q, k) = Half(p, k)
      BY <1>14, <2>2, <3>2
    <3>4. BuddyOf(q, k) # q
      BY <1>7, <2>2, <3>3, Halves, OrdersIn
    <3> QED
      BY <3>3, <3>4
  <2> QED
    BY <1>14, <2>1, <2>2
<1>26. CountInv'
  <2>1. FreeByZone /\ FreeInv'
    <3>1. FreeByZone
      BY <1>1, FreeIn
    <3>2. Pgs(FreeOnes') \subseteq managed /\ Shared(FreeOnes', Pgs(FreeOnes'))
      <4>1. Shared(AllOnes', managed')
        BY <1>24 DEF BlocksInv, AllOnes, Shared, Fine, Pgs, Pg
      <4>2. FreeOnes' \in SUBSET AllOnes'
        BY DEF AllOnes
      <4> QED
        BY <4>1, <4>2, SharedPart
    <3>3. managed \subseteq DOMAIN page'
      BY <1>15 DEF Core, TodoInv
    <3> QED
      BY <3>1, <3>2, <3>3 DEF FreeInv, Shared, Fine, Pgs, Pg
  <2>2. FreeByZone'
    BY <1>19, <2>1, FreeIn, PTL
  <2>3. Pgs(FreeOnes') \cap Block(p, o) = {} /\ Pgs(FreeOnes) = Pgs(FreeOnes') \cup Block(p, o)
    <3>1. Pgs(FreeOnes) = Pgs(FreeOnes \ {g}) \cup Block(p, f)
      BY <1>4 DEF Pgs
    <3>2. Pgs(FreeOnes \ {g}) \cap Block(p, f) = {}
      BY <1>1, <1>4 DEF FreeInv, Shared, Pgs
    <3>3. Pgs(FreeOnes') = Pgs(FreeOnes \ {g}) \cup Pgs(H)
      BY <1>20 DEF Pgs
    <3> QED
      BY <1>10, <3>1, <3>2, <3>3
  <2>4. Pgs(FreeOnes)' = Pgs(FreeOnes')
    BY DEF Pgs, Pg
  <2>5. \A y : Free(y) = {x \in Pgs(FreeOnes) : pfn_zone(x) = y}
    BY <2>1 DEF FreeByZone
  <2>6. \A y : Free(y)' = {x \in Pgs(FreeOnes') : pfn_zone(x) = y}
    BY <2>2, <2>4 DEF FreeByZone
  <2>7. \A x \in Block(p, o) : pfn_zone(x) = z
    BY <1>10, <1>11
  <2>8. Free(z) = Free(z)' \cup Block(p, o) /\ Free(z)' \cap Block(p, o) = {}
    BY <2>3, <2>5, <2>6, <2>7
  <2>9. \A y : y # z => Free(y)' = Free(y)
    BY <2>3, <2>5, <2>6, <2>7
  <2>10. IsFiniteSet(Free(z)) /\ Cardinality(Free(z)) \in Nat
    BY <1>1, FreeFinite
  <2>11. IsFiniteSet(Free(z)') /\ Cardinality(Free(z)') \in Nat
    BY <2>8, <2>10, FS_Subset, FS_CardinalityType
  <2>12. IsFiniteSet(Block(p, o)) /\ Cardinality(Block(p, o)) = 2^o /\ 2^o \in Nat
    BY <1>21, <1>23, BlockCount
  <2>13. Cardinality(Free(z)) = Cardinality(Free(z)') + 2^o
    <3>1. Cardinality(Free(z)' \cup Block(p, o))
             = Cardinality(Free(z)') + Cardinality(Block(p, o)) - Cardinality(Free(z)' \cap Block(p, o))
      BY <2>11, <2>12, FS_Union
    <3>2. Cardinality(Free(z)' \cap Block(p, o)) = 0
      BY <2>8, FS_EmptySet
    <3> QED
      BY <2>8, <2>11, <2>12, <3>1, <3>2
  <2>14. nfree'[z] = nfree[z] - 2^o /\ DOMAIN nfree' = Zones /\ \A y \in Zones : y # z => nfree'[y] = nfree[y]
    BY DEF Core, CountInv
  <2>15. \A y \in Zones : nfree'[y] = Cardinality(Free(y)')
    BY <2>9, <2>10, <2>11, <2>12, <2>13, <2>14 DEF Core, CountInv
  <2> QED
    BY <2>14, <2>15 DEF CountInv
<1>27. TodoInv'
  BY <1>15 DEF Core, TodoInv
<1>28. \A q \in DOMAIN page : q \notin Pgs(FreeOnes) => page'[q] = page[q]
  <2> TAKE q \in DOMAIN page
  <2>1. Block(p, f) \subseteq Pgs(FreeOnes)
    BY <1>4 DEF Pgs
  <2>2. p \in Block(p, f)
    BY <1>4, HeadInBlock, OrdersIn
  <2> QED
    BY <1>15, <1>18, <2>1, <2>2
<1> QED
  BY <1>19, <1>24, <1>25, <1>26, <1>27, <1>28 DEF Core

\* Blocks that belong to somebody lie apart, and apart from the free ones.
LEMMA Separate ==
  ASSUME Core, NEW b \in OwnedOnes \cup HeldOnes
  PROVE  /\ b[1] \in Pg(b) /\ Pg(b) \subseteq DOMAIN page
         /\ Pg(b) \cap Pgs(FreeOnes) = {}
         /\ \A c \in OwnedOnes \cup HeldOnes : c # b => Pg(b) \cap Pg(c) = {}
<1>1. b \in AllOnes /\ b \notin FreeOnes
  BY DEF AllOnes, FreeOnes, OwnedOnes, HeldOnes
<1>2. Fine(b) /\ Pg(b) \subseteq DOMAIN page
  BY <1>1, CoreFree
<1>3. \A c \in AllOnes : c # b => Pg(b) \cap Pg(c) = {}
  BY <1>1, CoreFree
<1>4. Pg(b) \cap Pgs(FreeOnes) = {}
  BY <1>1, <1>3 DEF Pgs, AllOnes
<1> QED
  BY <1>2, <1>3, <1>4, FinePages DEF AllOnes

\* The blocks of owned and of the threads, one by one.
LEMMA OwnedOne ==
  ASSUME OwnedInv
  PROVE  /\ \A x \in owned : <<x[1], x[2], "owned", x[3]>> \in OwnedOnes
         /\ \A p, k, c : <<p, k, "owned", c>> \in OwnedOnes <=> <<p, k, c>> \in owned
<1>1. \A x \in owned : x = <<x[1], x[2], x[3]>>
  BY DEF OwnedInv
<1>2. ASSUME NEW p, NEW k, NEW c, <<p, k, "owned", c>> \in OwnedOnes
      PROVE  <<p, k, c>> \in owned
  <2>1. PICK x \in owned : <<p, k, "owned", c>> = <<x[1], x[2], "owned", x[3]>>
    BY <1>2 DEF OwnedOnes
  <2> QED
    BY <1>1, <2>1
<1>3. \A x \in owned : <<x[1], x[2], "owned", x[3]>> \in OwnedOnes
  BY DEF OwnedOnes
<1>4. ASSUME NEW p, NEW k, NEW c, <<p, k, c>> \in owned
      PROVE  <<p, k, "owned", c>> \in OwnedOnes
  <2>1. PICK x \in owned : x = <<p, k, c>>
    BY <1>4
  <2> QED
    BY <1>3, <2>1
<1> QED
  BY <1>2, <1>3, <1>4

LEMMA HeldOne ==
  ASSUME NEW t \in Users, Holds(t)
  PROVE  <<th[t].pfn, th[t].order, "held", t>> \in HeldOnes
BY DEF HeldOnes

\* What may stand in a thread's place.
Row(r) ==
    /\ DOMAIN r = {"pc", "order", "zone", "pfn", "ret"}
    /\ r.order \in Orders /\ r.zone \in Zones
    /\ r.ret \in Caches \cup {"user"}
    /\ r.ret \in Caches => r.order = SLAB_ORDER
    /\ r.pc = "idle" => r = NoCall

LEMMA NoCallRow == Row(NoCall)
<1>1. 0 \in Orders
  BY Bounds, OrdersIn DEF Orders
<1> QED
  BY <1>1, SlabAssumption DEF Row, NoCall, Zones, ZONE_DMA32, ZONE_NORMAL

LEMMA RowsKept ==
  ASSUME ThreadInv, NEW t \in Users, NEW r, Row(r), th' = [th EXCEPT ![t] = r],
         r.pc = "got" => page'[r.pfn].order = r.order,
         \A u \in Users : u # t /\ th[u].pc = "got" =>
            page'[th[u].pfn].order = page[th[u].pfn].order
  PROVE  ThreadInv'
<1>1. DOMAIN th' = Users /\ \A u \in Users : th'[u] = IF u = t THEN r ELSE th[u]
  BY DEF ThreadInv
<1>2. ASSUME NEW u \in Users
      PROVE  Row(th'[u]) /\ (th'[u].pc = "got" => page'[th'[u].pfn].order = th'[u].order)
  <2>1. CASE u = t
    BY <1>1, <2>1
  <2>2. CASE u # t
    BY <1>1, <2>2 DEF ThreadInv, Row
  <2> QED
    BY <2>1, <2>2
<1> QED
  BY <1>1, <1>2 DEF ThreadInv, Row

\* A thread goes on with the block that it has, or without one.
LEMMA Quiet ==
  ASSUME BuddyInv, NEW t \in Users, NEW r, Row(r), th' = [th EXCEPT ![t] = r],
         UNCHANGED <<max_pfn, todo, managed, free_area, nfree, owned>>, SameFree(page'),
         Hand(t, r) = Hand(t, th[t]),
         \A q \in DOMAIN page : page'[q].order # page[q].order => Holds(t) /\ q = th[t].pfn,
         r.pc = "got" => page'[r.pfn].order = r.order
  PROVE  BuddyInv'
<1>1. Core /\ ThreadInv /\ OwnedInv /\ DOMAIN th = Users
  BY DEF BuddyInv, ThreadInv
<1>2. HeldOnes' = HeldOnes /\ OwnedOnes' = OwnedOnes
  <2>1. /\ HeldOnes' = (HeldOnes \ Hand(t, th[t])) \cup Hand(t, r)
        /\ Hand(t, th[t]) \subseteq HeldOnes
    BY <1>1, Handed
  <2>2. OwnedOnes' = OwnedOnes
    BY DEF OwnedOnes
  <2> QED
    BY <2>1, <2>2
<1>3. Core'
  BY <1>1, <1>2, PassedOn
<1>4. \A b \in OwnedOnes \cup HeldOnes :
         b # <<th[t].pfn, th[t].order, "held", t>> => page'[b[1]].order = page[b[1]].order
  <2> SUFFICES ASSUME NEW b \in OwnedOnes \cup HeldOnes,
                      b # <<th[t].pfn, th[t].order, "held", t>>,
                      page'[b[1]].order # page[b[1]].order
               PROVE  FALSE
    OBVIOUS
  <2>1. b[1] \in Pg(b) /\ b[1] \in DOMAIN page
    BY <1>1, Separate
  <2>2. Holds(t) /\ b[1] = th[t].pfn
    BY <2>1
  <2>3. PICK c : c = <<th[t].pfn, th[t].order, "held", t>>
    OBVIOUS
  <2>4. c \in HeldOnes /\ c # b
    BY <2>2, <2>3, HeldOne
  <2>5. c[1] \in Pg(c) /\ Pg(b) \cap Pg(c) = {}
    BY <1>1, <2>4, Separate
  <2> QED
    BY <2>1, <2>2, <2>3, <2>5
<1>5. ThreadInv'
  <2>1. ASSUME NEW u \in Users, u # t, th[u].pc = "got"
        PROVE  page'[th[u].pfn].order = page[th[u].pfn].order
    <3>1. PICK b : b = <<th[u].pfn, th[u].order, "held", u>>
      OBVIOUS
    <3>2. b \in HeldOnes
      BY <2>1, <3>1, HeldOne DEF Holds
    <3>3. b # <<th[t].pfn, th[t].order, "held", t>> /\ b[1] = th[u].pfn
      BY <2>1, <3>1
    <3> QED
      BY <1>4, <3>2, <3>3
  <2> QED
    BY <1>1, <2>1, RowsKept
<1>6. OwnedInv'
  <2>1. ASSUME NEW x \in owned
        PROVE  page'[x[1]].order = page[x[1]].order
    <3>1. PICK b : b = <<x[1], x[2], "owned", x[3]>>
      OBVIOUS
    <3>2. b \in OwnedOnes /\ b # <<th[t].pfn, th[t].order, "held", t>> /\ b[1] = x[1]
      BY <1>1, <3>1, OwnedOne
    <3> QED
      BY <1>4, <3>2
  <2> QED
    BY <1>1, <2>1 DEF OwnedInv
<1> QED
  BY <1>3, <1>5, <1>6 DEF BuddyInv

\* The orders of the blocks that belong to somebody.
LEMMA OrdersKept ==
  ASSUME Core, ThreadInv, OwnedInv, \A q \in DOMAIN page : page'[q].order = page[q].order
  PROVE  /\ \A u \in Users : Holds(u) => page'[th[u].pfn].order = page[th[u].pfn].order
         /\ \A x \in owned : page'[x[1]].order = page[x[1]].order
<1>1. ASSUME NEW u \in Users, Holds(u)
      PROVE  page'[th[u].pfn].order = page[th[u].pfn].order
  <2>1. PICK b : b = <<th[u].pfn, th[u].order, "held", u>>
    OBVIOUS
  <2>2. b \in HeldOnes
    BY <1>1, <2>1, HeldOne
  <2> QED
    BY <2>1, <2>2, Separate
<1>2. ASSUME NEW x \in owned
      PROVE  page'[x[1]].order = page[x[1]].order
  <2>1. PICK b : b = <<x[1], x[2], "owned", x[3]>>
    OBVIOUS
  <2>2. b \in OwnedOnes
    BY <2>1, OwnedOne
  <2> QED
    BY <2>1, <2>2, Separate
<1> QED
  BY <1>1, <1>2

\* A thread gives its block to somebody.
LEMMA Gives ==
  ASSUME BuddyInv, NEW t \in Users, th[t].pc = "got", th' = [th EXCEPT ![t] = NoCall],
         UNCHANGED <<max_pfn, todo, managed, free_area, nfree>>, SameFree(page'),
         \A q \in DOMAIN page : page'[q].order = page[q].order,
         NEW k \in Caches \cup {"user"}, k \in Caches => th[t].order = SLAB_ORDER,
         owned' = owned \cup {<<th[t].pfn, th[t].order, k>>}
  PROVE  BuddyInv'
<1>1. Core /\ ThreadInv /\ OwnedInv /\ DOMAIN th = Users
  BY DEF BuddyInv, ThreadInv
<1>2. PICK b : b = <<th[t].pfn, th[t].order, "held", t>>
  OBVIOUS
<1>3. PICK c : c = <<th[t].pfn, th[t].order, "owned", k>>
  OBVIOUS
<1>4. Hand(t, th[t]) = {b} /\ Hand(t, NoCall) = {} /\ b \in HeldOnes
  BY <1>2, HeldOne DEF Hand, HoldPcs, NoCall, Holds
<1>5. HeldOnes' = HeldOnes \ {b}
  BY <1>1, <1>4, Handed
<1>6. OwnedOnes' = OwnedOnes \cup {c}
  <2>1. PICK y : y = <<th[t].pfn, th[t].order, k>>
    OBVIOUS
  <2>2. owned' = owned \cup {y} /\ c = <<y[1], y[2], "owned", y[3]>>
    BY <1>3, <2>1
  <2> QED
    BY <2>2 DEF OwnedOnes
<1>7. b \notin OwnedOnes
  BY <1>2 DEF OwnedOnes
<1>8. OwnedOnes' \cup HeldOnes' = ((OwnedOnes \cup HeldOnes) \ {b}) \cup {c}
  BY <1>5, <1>6, <1>7
<1>9. c[1] = b[1] /\ c[2] = b[2] /\ b \in OwnedOnes \cup HeldOnes
  BY <1>2, <1>3, <1>4
<1>10. Core'
  BY <1>1, <1>8, <1>9, PassedOn
<1>11. ThreadInv'
  <2>1. \A u \in Users : th[u].pc = "got" => page'[th[u].pfn].order = page[th[u].pfn].order
    BY <1>1, OrdersKept DEF Holds
  <2> QED
    BY <1>1, <2>1, NoCallRow, RowsKept DEF NoCall
<1>12. OwnedInv'
  <2>1. page'[th[t].pfn].order = th[t].order
    BY <1>1, OrdersKept DEF Holds, ThreadInv
  <2>2. \A x \in owned : page'[x[1]].order = page[x[1]].order
    BY <1>1, OrdersKept
  <2>3. PICK y : y = <<th[t].pfn, th[t].order, k>>
    OBVIOUS
  <2>4. /\ y = <<y[1], y[2], y[3]>> /\ y[3] \in Caches \cup {"user"}
        /\ y[2] = IF y[3] = "user" THEN page'[y[1]].order ELSE SLAB_ORDER
    BY <2>1, <2>3
  <2> QED
    BY <1>1, <2>2, <2>3, <2>4 DEF OwnedInv
<1> QED
  BY <1>10, <1>11, <1>12 DEF BuddyInv

\* A thread takes a block that somebody gives back.
LEMMA Takes ==
  ASSUME BuddyInv, NEW t \in Users, ~Holds(t), NEW x \in owned, owned' = owned \ {x},
         NEW r, Row(r), r.pc = "free", r.pfn = x[1], r.order = x[2],
         th' = [th EXCEPT ![t] = r],
         UNCHANGED <<max_pfn, todo, managed, free_area, nfree>>, SameFree(page'),
         \A q \in DOMAIN page : page'[q].order = page[q].order
  PROVE  BuddyInv'
<1>1. Core /\ ThreadInv /\ OwnedInv /\ DOMAIN th = Users
  BY DEF BuddyInv, ThreadInv
<1>2. PICK b : b = <<x[1], x[2], "owned", x[3]>>
  OBVIOUS
<1>3. PICK c : c = <<x[1], x[2], "held", t>>
  OBVIOUS
<1>4. Hand(t, th[t]) = {} /\ Hand(t, r) = {c} /\ b \in OwnedOnes
  BY <1>1, <1>2, <1>3, OwnedOne DEF Hand, HoldPcs, Holds
<1>5. HeldOnes' = HeldOnes \cup {c}
  BY <1>1, <1>4, Handed
<1>6. OwnedOnes' = OwnedOnes \ {b}
  <2>1. ASSUME NEW d, d \in OwnedOnes'
        PROVE  d \in OwnedOnes \ {b}
    <3>1. PICK y \in owned \ {x} : d = <<y[1], y[2], "owned", y[3]>>
      BY <2>1 DEF OwnedOnes
    <3>2. y = <<y[1], y[2], y[3]>> /\ x = <<x[1], x[2], x[3]>>
      BY <1>1, <3>1 DEF OwnedInv
    <3> QED
      BY <1>2, <3>1, <3>2 DEF OwnedOnes
  <2>2. ASSUME NEW d, d \in OwnedOnes \ {b}
        PROVE  d \in OwnedOnes'
    BY <1>2, <2>2 DEF OwnedOnes
  <2> QED
    BY <2>1, <2>2
<1>7. b \notin HeldOnes
  BY <1>2 DEF HeldOnes
<1>8. OwnedOnes' \cup HeldOnes' = ((OwnedOnes \cup HeldOnes) \ {b}) \cup {c}
  BY <1>5, <1>6, <1>7
<1>9. c[1] = b[1] /\ c[2] = b[2] /\ b \in OwnedOnes \cup HeldOnes
  BY <1>2, <1>3, <1>4
<1>10. Core'
  BY <1>1, <1>8, <1>9, PassedOn
<1>11. ThreadInv'
  <2>1. \A u \in Users : th[u].pc = "got" => page'[th[u].pfn].order = page[th[u].pfn].order
    BY <1>1, OrdersKept DEF Holds
  <2> QED
    BY <1>1, <2>1, RowsKept
<1>12. OwnedInv'
  <2>1. \A y \in owned : page'[y[1]].order = page[y[1]].order
    BY <1>1, OrdersKept
  <2> QED
    BY <1>1, <2>1 DEF OwnedInv
<1> QED
  BY <1>10, <1>11, <1>12 DEF BuddyInv

\* Where buddy_free has been, the rest of the invariant.
LEMMA Rejoined ==
  ASSUME Core, NEW b, NEW G, NEW h, Freeing(b, G, h), NEW A \in SUBSET (OwnedOnes \cup HeldOnes),
         OwnedOnes' \cup HeldOnes' = (OwnedOnes \cup HeldOnes) \ A, NEW N,
         Pg(b) = Pgs(A) \cup N, N \cap managed = {}, managed' = managed \cup N
  PROVE  BlocksInv'
<1>1. Shared(AllOnes, managed)
  BY CoreFree
<1>2. \A x \in FreeOnes : x[3] = "free"
  BY DEF FreeOnes
<1>3. \A x \in OwnedOnes \cup HeldOnes : x[3] # "free"
  BY DEF OwnedOnes, HeldOnes
<1>4. FreeOnes' = (FreeOnes \ G) \cup {h} /\ G \in SUBSET FreeOnes /\ Fine(h) /\ Pg(h) = Pgs(G) \cup Pg(b)
  BY DEF Freeing
<1>5. FreeOnes' \cup OwnedOnes' \cup HeldOnes' = (AllOnes \ (G \cup A)) \cup {h}
  BY <1>2, <1>3, <1>4 DEF AllOnes
<1>6. G \cup A \in SUBSET AllOnes
  BY <1>4 DEF AllOnes
<1>7. Pgs({h}) = Pgs(G \cup A) \cup N
  <2>1. Pgs({h}) = Pg(h) /\ Pgs(G \cup A) = Pgs(G) \cup Pgs(A)
    BY DEF Pgs
  <2> QED
    BY <1>4, <2>1
<1>8. \A x \in {h} : Fine(x)
  BY <1>4
<1>9. \A x, y \in {h} : x # y => Pg(x) \cap Pg(y) = {}
  OBVIOUS
<1>10. Shared((AllOnes \ (G \cup A)) \cup {h}, managed \cup N)
  BY <1>1, <1>6, <1>7, <1>8, <1>9, Regrouped
<1>11. Shared(FreeOnes' \cup OwnedOnes' \cup HeldOnes', managed')
  BY <1>5, <1>10
<1> QED
  BY <1>11 DEF BlocksInv, Shared, Fine, Pgs, Pg

LEMMA Returned ==
  ASSUME BuddyInv, NEW t \in Users, NEW ret, ReturnBlock(t, ret)
  PROVE  /\ BuddyInv'
         /\ \A x \in owned : \A q \in Block(x[1], x[2]) : page'[q] = page[q]
<1>1. Core /\ ThreadInv /\ OwnedInv /\ DOMAIN th = Users /\ CountInv /\ FlagsInv /\ MergedInv /\ FreeInv
  BY CoreFree DEF BuddyInv, ThreadInv, Core
<1>2. PICK b : b = <<th[t].pfn, th[t].order, "held", t>>
  OBVIOUS
<1>3. Holds(t) /\ b \in HeldOnes /\ Hand(t, th[t]) = {b} /\ Hand(t, NoCall) = {}
  BY <1>2, HeldOne DEF ReturnBlock, Holds, Hand, HoldPcs, NoCall
<1>4. /\ Pg(b) \subseteq DOMAIN page /\ Pg(b) \cap Pgs(FreeOnes) = {} /\ Fine(b)
      /\ \A c \in OwnedOnes \cup HeldOnes : c # b => Pg(b) \cap Pg(c) = {}
  BY <1>1, <1>3, Separate, CoreFree DEF AllOnes
<1>5. /\ buddy_free(pfn_zone(b[1]), b[1], b[2], page) /\ th' = [th EXCEPT ![t] = NoCall]
      /\ UNCHANGED <<max_pfn, todo, managed, owned>>
  BY <1>2 DEF ReturnBlock
<1>6. SameFree(page)
  BY <1>1 DEF SameFree, FlagsInv
<1>7. PICK G, h : Freeing(b, G, h)
  BY <1>1, <1>4, <1>5, <1>6, BuddyFreed
<1>8. \A q \in DOMAIN page : q \notin Pgs(FreeOnes) \cup Pg(b) => page'[q] = page[q]
  BY <1>1, <1>4, <1>5, <1>6, BuddyFreed
<1>9. HeldOnes' = HeldOnes \ {b} /\ OwnedOnes' = OwnedOnes
  <2>1. HeldOnes' = HeldOnes \ {b}
    BY <1>1, <1>3, <1>5, Handed
  <2> QED
    BY <1>5, <2>1 DEF OwnedOnes
<1>10. BlocksInv'
  <2>1. {b} \in SUBSET (OwnedOnes \cup HeldOnes) /\ b \notin OwnedOnes
    BY <1>2, <1>3 DEF OwnedOnes
  <2>2. OwnedOnes' \cup HeldOnes' = (OwnedOnes \cup HeldOnes) \ {b}
    BY <1>9, <2>1
  <2>3. Pg(b) = Pgs({b}) \cup {} /\ {} \cap managed = {} /\ managed' = managed \cup {}
    BY <1>5 DEF Pgs
  <2> QED
    BY <1>1, <1>7, <2>1, <2>2, <2>3, Rejoined
<1>11. Core'
  <2>1. FlagsInv' /\ MergedInv' /\ CountInv' /\ DOMAIN page' = DOMAIN page
    BY <1>7 DEF Freeing
  <2>2. TodoInv'
    BY <1>1, <1>5, <2>1 DEF Core, TodoInv
  <2> QED
    BY <1>10, <2>1, <2>2 DEF Core
<1>12. \A c \in OwnedOnes \cup HeldOnes : c # b => \A q \in Pg(c) : page'[q] = page[q]
  <2> TAKE c \in OwnedOnes \cup HeldOnes
  <2> HAVE c # b
  <2>1. Pg(c) \subseteq DOMAIN page /\ Pg(c) \cap Pgs(FreeOnes) = {} /\ Pg(b) \cap Pg(c) = {}
    BY <1>1, <1>4, Separate
  <2> QED
    BY <1>8, <2>1
<1>13. ThreadInv'
  <2>1. ASSUME NEW u \in Users, u # t, th[u].pc = "got"
        PROVE  page'[th[u].pfn].order = page[th[u].pfn].order
    <3>1. PICK c : c = <<th[u].pfn, th[u].order, "held", u>>
      OBVIOUS
    <3>2. c \in HeldOnes /\ c # b /\ c[1] = th[u].pfn
      BY <1>2, <2>1, <3>1, HeldOne DEF Holds
    <3>3. c[1] \in Pg(c)
      BY <1>1, <3>2, Separate
    <3> QED
      BY <1>12, <3>2, <3>3
  <2> QED
    BY <1>1, <1>5, <2>1, NoCallRow, RowsKept DEF NoCall
<1>14. \A x \in owned : /\ page'[x[1]] = page[x[1]]
                        /\ \A q \in Block(x[1], x[2]) : page'[q] = page[q]
  <2> TAKE x \in owned
  <2>1. PICK c : c = <<x[1], x[2], "owned", x[3]>>
    OBVIOUS
  <2>2. c \in OwnedOnes /\ c # b /\ c[1] = x[1] /\ Pg(c) = Block(x[1], x[2])
    BY <1>1, <1>2, <2>1, OwnedOne DEF Pg
  <2>3. c[1] \in Pg(c)
    BY <1>1, <2>2, Separate
  <2> QED
    BY <1>12, <2>2, <2>3
<1>15. OwnedInv'
  BY <1>1, <1>5, <1>14 DEF OwnedInv
<1> QED
  BY <1>11, <1>13, <1>14, <1>15 DEF BuddyInv

-----------------------------------------------------------------------------
\* A piece of the first region is handed over.
Spans == [base : Nat, end : Nat]
Regions == Seq(Spans)

Spread(s) ==
    /\ s \in Regions /\ \A i \in DOMAIN s : NotEmpty(s[i])
    /\ \A i, j \in DOMAIN s : i # j => PagesOf(s[i]) \cap PagesOf(s[j]) = {}

Left(s, rest) == (IF NotEmpty(rest) THEN <<rest>> ELSE <<>>) \o Tail(s)

LEMMA TodoCut ==
  ASSUME NEW s, Spread(s), s # <<>>, NEW B, NEW rest \in Spans,
         PagesOf(Head(s)) = B \cup PagesOf(rest), B \cap PagesOf(rest) = {},
         NEW left, left = Left(s, rest)
  PROVE  /\ Spread(left)
         /\ B \cap PagesIn(left) = {}
         /\ PagesIn(s) = B \cup PagesIn(left)
<1>0. /\ s \in Regions /\ \A i \in DOMAIN s : NotEmpty(s[i])
      /\ \A i, j \in DOMAIN s : i # j => PagesOf(s[i]) \cap PagesOf(s[j]) = {}
  BY DEF Spread
<1>1. /\ Len(s) \in Nat \ {0} /\ DOMAIN s = 1 .. Len(s) /\ Head(s) = s[1]
      /\ Tail(s) \in Regions /\ DOMAIN Tail(s) = 1 .. Len(s) - 1 /\ Len(Tail(s)) = Len(s) - 1
      /\ \A i \in 1 .. Len(s) - 1 : Tail(s)[i] = s[i + 1]
  BY <1>0 DEF Regions
<1>2. PagesIn(Tail(s)) \cup PagesOf(s[1]) = PagesIn(s)
  <2>1. \A x : x \in PagesIn(s) <=> \E i \in 1 .. Len(s) : x \in PagesOf(s[i])
    BY <1>0, <1>1 DEF PagesIn
  <2>2. \A x : x \in PagesIn(Tail(s)) <=> \E i \in 1 .. Len(s) - 1 : x \in PagesOf(s[i + 1])
    BY <1>0, <1>1 DEF PagesIn
  <2>3. \A i \in 1 .. Len(s) : i = 1 \/ (i - 1 \in 1 .. Len(s) - 1 /\ (i - 1) + 1 = i)
    BY <1>0, <1>1
  <2>4. \A i \in 1 .. Len(s) - 1 : i + 1 \in 1 .. Len(s)
    BY <1>0, <1>1
  <2>5. 1 \in 1 .. Len(s)
    BY <1>0, <1>1
  <2> QED
    BY <2>1, <2>2, <2>3, <2>4, <2>5
<1>3. PagesIn(Tail(s)) \cap PagesOf(s[1]) = {}
  <2>1. \A i \in 1 .. Len(s) - 1 : PagesOf(s[i + 1]) \cap PagesOf(s[1]) = {}
    <3>1. \A i \in 1 .. Len(s) - 1 : i + 1 \in 1 .. Len(s) /\ i + 1 # 1 /\ 1 \in 1 .. Len(s)
      BY <1>0, <1>1
    <3> QED
      BY <1>0, <1>1, <3>1
  <2> QED
    BY <1>0, <1>1, <2>1 DEF PagesIn
<1>4. CASE NotEmpty(rest)
  <2>1. left = <<rest>> \o Tail(s)
    BY <1>4 DEF Left
  <2>2. /\ left \in Regions /\ DOMAIN left = 1 .. Len(s) /\ left[1] = rest
        /\ \A i \in 2 .. Len(s) : left[i] = s[i]
    <3>0. <<rest>> \in Regions /\ Len(<<rest>>) = 1
      BY DEF Regions
    <3>1. left \in Regions /\ Len(left) = Len(s)
      <4>1. PICK a : a = <<rest>>
        OBVIOUS
      <4>2. a \in Seq(Spans) /\ Len(a) = 1
        BY <3>0, <4>1 DEF Regions
      <4>3. PICK c : c = Tail(s)
        OBVIOUS
      <4>4. c \in Seq(Spans) /\ Len(c) = Len(s) - 1
        BY <1>0, <1>1, <4>3 DEF Regions
      <4>5. left = a \o c
        BY <2>1, <4>1, <4>3
      <4>6. left \in Seq(Spans) /\ Len(left) = Len(a) + Len(c)
        <5>1. a \o c \in Seq(Spans) /\ Len(a \o c) = Len(a) + Len(c)
          BY <4>2, <4>4, ConcatProperties, Zenon
        <5> QED
          BY <4>5, <5>1, Zenon
      <4>7. Len(left) = Len(s)
        <5>1. Len(left) = 1 + (Len(s) - 1)
          BY <4>2, <4>4, <4>6, Zenon
        <5>2. \A n \in Nat \ {0} : 1 + (n - 1) = n
          OBVIOUS
        <5> QED
          BY <1>0, <1>1, <5>1, <5>2, Zenon
      <4> QED
        BY <4>6, <4>7 DEF Regions
    <3>2. left[1] = rest /\ \A i \in 2 .. Len(s) : left[i] = Tail(s)[i - 1]
      BY <1>0, <1>1, <2>1 DEF Regions
    <3>3. \A i \in 2 .. Len(s) : i - 1 \in 1 .. Len(s) - 1 /\ (i - 1) + 1 = i
      BY <1>0, <1>1
    <3> QED
      BY <1>0, <1>1, <3>1, <3>2, <3>3 DEF Regions
  <2>3. \A i \in 1 .. Len(s) : i = 1 \/ i \in 2 .. Len(s)
    BY <1>0, <1>1
  <2>4. \A i \in 2 .. Len(s) : i \in 1 .. Len(s) /\ i # 1
    BY <1>0, <1>1
  <2>5. \A i \in 1 .. Len(s) : NotEmpty(left[i]) /\ PagesOf(left[i]) \subseteq PagesOf(s[i])
    BY <1>0, <1>1, <1>4, <2>2, <2>3
  <2>6. \A i, j \in 1 .. Len(s) : i # j => PagesOf(left[i]) \cap PagesOf(left[j]) = {}
    BY <1>0, <1>1, <2>5
  <2>7. PagesIn(left) = PagesOf(rest) \cup PagesIn(Tail(s))
    <3>1. PagesIn(left) = PagesOf(rest) \cup UNION {PagesOf(left[i]) : i \in 2 .. Len(s)}
      <4>1. 1 \in 1 .. Len(s)
        BY <1>0, <1>1
      <4>2. \A x : x \in PagesIn(left) <=> \E i \in 1 .. Len(s) : x \in PagesOf(left[i])
        BY <2>2 DEF PagesIn
      <4> QED
        <5>1. ASSUME NEW x, x \in PagesIn(left), x \notin PagesOf(rest)
              PROVE  \E i \in 2 .. Len(s) : x \in PagesOf(left[i])
          <6>1. PICK i \in 1 .. Len(s) : x \in PagesOf(left[i])
            BY <4>2, <5>1
          <6>2. i # 1
            BY <2>2, <5>1, <6>1
          <6>3. i \in 2 .. Len(s)
            BY <2>3, <6>2
          <6> QED
            BY <6>1, <6>3
        <5>2. PagesOf(rest) \subseteq PagesIn(left)
          BY <2>2, <4>1, <4>2
        <5>3. ASSUME NEW i \in 2 .. Len(s), NEW x \in PagesOf(left[i])
              PROVE  x \in PagesIn(left)
          BY <2>4, <4>2, <5>3
        <5> QED
          BY <5>1, <5>2, <5>3
    <3>2. \A x : x \in PagesIn(Tail(s)) <=> \E i \in 1 .. Len(s) - 1 : x \in PagesOf(s[i + 1])
      BY <1>0, <1>1 DEF PagesIn
    <3>3. \A i \in 1 .. Len(s) - 1 : i + 1 \in 2 .. Len(s)
      BY <1>0, <1>1
    <3>4. \A i \in 2 .. Len(s) : i - 1 \in 1 .. Len(s) - 1 /\ (i - 1) + 1 = i
      BY <1>0, <1>1
    <3>5. UNION {PagesOf(left[i]) : i \in 2 .. Len(s)} = PagesIn(Tail(s))
      <4>1. ASSUME NEW x, x \in PagesIn(Tail(s))
            PROVE  \E i \in 2 .. Len(s) : x \in PagesOf(left[i])
        <5>1. PICK i \in 1 .. Len(s) - 1 : x \in PagesOf(s[i + 1])
          BY <3>2, <4>1
        <5>2. PICK j \in 2 .. Len(s) : j = i + 1
          BY <3>3
        <5> QED
          BY <2>2, <5>1, <5>2
      <4>2. ASSUME NEW i \in 2 .. Len(s), NEW x \in PagesOf(left[i])
            PROVE  x \in PagesIn(Tail(s))
        <5>1. PICK j \in 1 .. Len(s) - 1 : j + 1 = i
          BY <3>4
        <5> QED
          BY <2>2, <3>2, <4>2, <5>1
      <4> QED
        BY <4>1, <4>2
    <3> QED
      BY <3>1, <3>5
  <2>8. B \cap PagesIn(left) = {} /\ B \cup PagesIn(left) = PagesIn(s)
    BY <1>0, <1>1, <1>2, <1>3, <2>7
  <2> QED
    BY <2>2, <2>5, <2>6, <2>8 DEF Spread
<1>5. CASE ~NotEmpty(rest)
  <2>1. left = Tail(s)
    BY <1>0, <1>1, <1>5 DEF Regions, Left
  <2>2. PagesOf(rest) = {}
    BY <1>5 DEF PagesOf, NotEmpty, Spans
  <2>3. \A i \in 1 .. Len(s) - 1 : i + 1 \in 1 .. Len(s)
    BY <1>0, <1>1
  <2>4. \A i \in DOMAIN left : NotEmpty(left[i])
    BY <1>0, <1>1, <2>1, <2>3
  <2>5. \A i, j \in DOMAIN left : i # j => PagesOf(left[i]) \cap PagesOf(left[j]) = {}
    <3>1. \A i, j \in 1 .. Len(s) - 1 : i # j => i + 1 # j + 1
      BY <1>0, <1>1
    <3>2. DOMAIN left = 1 .. Len(s) - 1 /\ \A i \in 1 .. Len(s) - 1 : left[i] = s[i + 1]
      BY <1>0, <1>1, <2>1
    <3>3. ASSUME NEW i \in 1 .. Len(s) - 1, NEW j \in 1 .. Len(s) - 1, i # j
          PROVE  PagesOf(left[i]) \cap PagesOf(left[j]) = {}
      <4>1. PICK k \in 1 .. Len(s) : k = i + 1
        BY <2>3
      <4>2. PICK l \in 1 .. Len(s) : l = j + 1
        BY <2>3
      <4>3. k # l
        BY <3>1, <3>3, <4>1, <4>2
      <4> QED
        BY <1>0, <1>1, <3>2, <4>1, <4>2, <4>3
    <3> QED
      BY <3>2, <3>3
  <2>6. B \cap PagesIn(left) = {} /\ B \cup PagesIn(left) = PagesIn(s)
    BY <1>0, <1>1, <1>2, <1>3, <2>1, <2>2
  <2> QED
    BY <1>0, <1>1, <2>1, <2>4, <2>5, <2>6 DEF Spread
<1> QED
  BY <1>4, <1>5

\* The block that free_range takes off a region.
LEMMA FreeOrderIs ==
  ASSUME FlagsInv, NEW r \in Spans, NotEmpty(r), NEW o, o = FreeOrder(r)
  PROVE  /\ o \in Orders /\ Aligned(r.base, o) /\ r.base + 2^o <= r.end
         /\ \A x \in Block(r.base, o) : pfn_zone(x) = pfn_zone(r.base)
<1> DEFINE end == MinOf(r.end, EndPfn(pfn_zone(r.base)))
           S == {k \in Orders : k = 0 \/ (r.base % 2^k = 0 /\ r.base + 2^k <= end)}
<1>1. r.base \in Nat /\ r.end \in Nat /\ r.base < r.end /\ pfn_zone(r.base) \in Zones
  BY Zone DEF Spans, NotEmpty
<1>2. EndPfn(pfn_zone(r.base)) \in Nat /\ r.base >= StartPfn(pfn_zone(r.base))
  BY <1>1, Bounds DEF EndPfn, StartPfn, MinOf, MaxOf, FlagsInv, pfn_zone, ZONE_DMA32, ZONE_NORMAL
<1>3. end \in Nat /\ end <= r.end /\ end <= EndPfn(pfn_zone(r.base))
  BY <1>1, <1>2 DEF MinOf
<1> HIDE DEF end
<1>4. 0 \in S
  BY Bounds DEF Orders
<1>5. S \subseteq Nat /\ MAX_ORDER \in Nat /\ \A x \in S : x <= MAX_ORDER
  BY Bounds DEF Orders
<1>6. o = Max(S)
  BY DEF FreeOrder, end
<1>7. o \in S
  BY <1>4, <1>5, <1>6, GreatestOf
<1>8. CASE o = 0
  <2>1. 2^o = 1 /\ o \in Orders
    BY <1>4, <1>8, OrderAssumption
  <2>2. Block(r.base, o) = {r.base} /\ Aligned(r.base, o)
    BY <1>1, <2>1 DEF Block, Aligned
  <2> QED
    BY <1>1, <2>1, <2>2
<1>9. CASE o # 0
  <2>1. o \in Orders /\ r.base % 2^o = 0 /\ r.base + 2^o <= end
    BY <1>7, <1>9
  <2>2. 2^o \in Nat
    BY <2>1, Powers, OrdersIn
  <2>3. r.base + 2^o <= r.end /\ r.base + 2^o <= EndPfn(pfn_zone(r.base))
    BY <1>1, <1>2, <1>3, <2>1, <2>2
  <2> QED
    BY <1>1, <1>2, <2>1, <2>3, InZoneOnly DEF Aligned
<1> QED
  BY <1>8, <1>9

LEMMA HandedOut ==
  ASSUME BuddyInv, FreeRange
  PROVE  /\ BuddyInv'
         /\ \A x \in owned : \A q \in Block(x[1], x[2]) : page'[q] = page[q]
<1>1. Core /\ ThreadInv /\ OwnedInv /\ CountInv /\ FlagsInv /\ MergedInv /\ FreeInv /\ TodoInv
      /\ Pgs(FreeOnes) \subseteq managed
  <2>1. Shared(AllOnes, managed)
    BY CoreFree DEF BuddyInv
  <2>2. FreeOnes \in SUBSET AllOnes
    BY DEF AllOnes
  <2> QED
    BY <2>1, <2>2, CoreFree, SharedPart DEF BuddyInv, Core
<1>2. PICK r : r = Head(todo)
  OBVIOUS
<1>3. PICK o : o = FreeOrder(r)
  OBVIOUS
<1>4. PICK b : b = <<r.base, o>>
  OBVIOUS
<1>5. PICK bare : bare = [q \in DOMAIN page |->
                            IF q \in Block(r.base, o) THEN [page[q] EXCEPT !.flags = @ \ {"RESERVED"}]
                            ELSE page[q]]
  OBVIOUS
<1>6. PICK rest : rest = Region(r.base + 2^o, r.end)
  OBVIOUS
<1>7. /\ todo # <<>> /\ buddy_free(pfn_zone(b[1]), b[1], b[2], bare)
      /\ managed' = managed \cup Block(r.base, o)
      /\ todo' = (IF NotEmpty(rest) THEN <<rest>> ELSE <<>>) \o Tail(todo)
      /\ UNCHANGED <<max_pfn, th, owned>>
  BY <1>2, <1>3, <1>4, <1>5, <1>6 DEF FreeRange
<1>8. todo \in Regions /\ r \in Spans /\ NotEmpty(r) /\ PagesOf(r) \subseteq PagesIn(todo)
  <2>1. todo \in Seq(Spans)
    BY <1>1 DEF TodoInv, Spans
  <2>2. 1 \in DOMAIN todo /\ r = todo[1]
    BY <1>2, <1>7, <2>1
  <2> QED
    BY <1>1, <2>1, <2>2 DEF TodoInv, PagesIn, Regions
<1>9. /\ o \in Orders /\ Aligned(r.base, o) /\ r.base + 2^o <= r.end
      /\ \A x \in Block(r.base, o) : pfn_zone(x) = pfn_zone(r.base)
  BY <1>1, <1>3, <1>8, FreeOrderIs
<1>10. 2^o \in Nat \ {0} /\ r.base \in Nat /\ r.end \in Nat
  BY <1>8, <1>9, Powers, OrdersIn DEF Spans
<1>11. /\ rest \in Spans /\ PagesOf(r) = Block(r.base, o) \cup PagesOf(rest)
       /\ Block(r.base, o) \cap PagesOf(rest) = {}
  BY <1>6, <1>9, <1>10 DEF Region, Spans, PagesOf, Block
<1>12. Fine(b) /\ Pg(b) = Block(r.base, o)
  BY <1>4, <1>9, <1>10 DEF Fine, Pg
<1>13. Pg(b) \subseteq PagesIn(todo) /\ Pg(b) \subseteq DOMAIN page /\ Pg(b) \cap managed = {}
  BY <1>1, <1>8, <1>11, <1>12 DEF TodoInv
<1>14. SameFree(bare) /\ \A q \in DOMAIN page : bare[q].order = page[q].order
  <2>1. DOMAIN bare = DOMAIN page
    BY <1>5
  <2>2. ASSUME NEW q \in DOMAIN page
        PROVE  /\ DOMAIN bare[q] = {"flags", "order", "refcount"}
               /\ bare[q].order = page[q].order
               /\ "BUDDY" \in bare[q].flags <=> "BUDDY" \in page[q].flags
    <3>1. DOMAIN page[q] = {"flags", "order", "refcount"}
      BY <1>1 DEF FlagsInv
    <3>2. CASE q \in Block(r.base, o)
      <4>1. bare[q] = [page[q] EXCEPT !.flags = page[q].flags \ {"RESERVED"}]
        BY <1>5, <3>2
      <4> QED
        BY <3>1, <4>1
    <3>3. CASE q \notin Block(r.base, o)
      BY <1>5, <3>1, <3>3
    <3> QED
      BY <3>2, <3>3
  <2> QED
    BY <2>1, <2>2 DEF SameFree
<1>15. Pg(b) \cap Pgs(FreeOnes) = {}
  BY <1>1, <1>13
<1>16. PICK G, h : Freeing(b, G, h)
  BY <1>1, <1>7, <1>12, <1>13, <1>14, <1>15, BuddyFreed
<1>17. \A q \in DOMAIN page : q \notin Pgs(FreeOnes) \cup Pg(b) => page'[q] = bare[q]
  BY <1>1, <1>7, <1>12, <1>13, <1>14, <1>15, BuddyFreed
<1>18. OwnedOnes' = OwnedOnes /\ HeldOnes' = HeldOnes
  BY <1>7 DEF OwnedOnes, HeldOnes, Holds
<1>19. BlocksInv'
  <2>1. {} \in SUBSET (OwnedOnes \cup HeldOnes)
    OBVIOUS
  <2>2. OwnedOnes' \cup HeldOnes' = (OwnedOnes \cup HeldOnes) \ {}
    BY <1>18
  <2>3. Pg(b) = Pgs({}) \cup Pg(b)
    BY DEF Pgs
  <2> QED
    BY <1>1, <1>7, <1>12, <1>13, <1>16, <2>1, <2>2, <2>3, Rejoined
<1>20. TodoInv'
  <2>1. /\ todo' \in Regions /\ \A i \in DOMAIN todo' : NotEmpty(todo'[i])
        /\ \A i, j \in DOMAIN todo' : i # j => PagesOf(todo'[i]) \cap PagesOf(todo'[j]) = {}
        /\ Pg(b) \cap PagesIn(todo') = {} /\ Pg(b) \cup PagesIn(todo') = PagesIn(todo)
    <3>1. PICK left : left = todo'
      OBVIOUS
    <3>2. PICK B : B = Block(r.base, o)
      OBVIOUS
    <3>3. todo # <<>> /\ Spread(todo)
      BY <1>1, <1>7, <1>8 DEF TodoInv, Spread
    <3>4. PagesOf(Head(todo)) = B \cup PagesOf(rest) /\ B \cap PagesOf(rest) = {}
      BY <1>2, <1>11, <3>2
    <3>5. left = Left(todo, rest)
      BY <1>7, <3>1 DEF Left
    <3>6. /\ Spread(left)
          /\ B \cap PagesIn(left) = {}
          /\ PagesIn(todo) = B \cup PagesIn(left)
      <4>1. rest \in Spans
        BY <1>11
      <4>2. todo # <<>>
        BY <1>7
      <4>3. Spread(todo)
        BY <3>3
      <4> QED
        BY <3>4, <3>5, <4>1, <4>2, <4>3, TodoCut
    <3> QED
      BY <1>12, <3>1, <3>2, <3>6 DEF Spread
  <2>2. DOMAIN page' = DOMAIN page
    BY <1>16 DEF Freeing
  <2>3. /\ managed' \cap PagesIn(todo') = {}
        /\ managed' \cup PagesIn(todo') = managed \cup PagesIn(todo)
    <3>1. managed' = managed \cup Pg(b) /\ managed \cap PagesIn(todo) = {}
      BY <1>1, <1>7, <1>12 DEF TodoInv
    <3>2. managed \cap PagesIn(todo') = {}
      BY <2>1, <3>1
    <3> QED
      BY <2>1, <3>1, <3>2
  <2>4. managed' \cup PagesIn(todo') \subseteq DOMAIN page'
    BY <1>1, <2>2, <2>3 DEF TodoInv
  <2>5. \E ram \in RamMaps :
          /\ max_pfn' = Max(PagesIn(ram)) + 1
          /\ managed' \cup PagesIn(todo') = PagesIn(HandedOver(ram))
    BY <1>1, <1>7, <2>3 DEF TodoInv
  <2> QED
    BY <2>1, <2>3, <2>4, <2>5 DEF TodoInv, Regions, Spans, PagesIn
<1>21. Core'
  BY <1>16, <1>19, <1>20 DEF Core, Freeing
<1>22. \A c \in OwnedOnes \cup HeldOnes : \A q \in Pg(c) : page'[q] = page[q]
  <2> TAKE c \in OwnedOnes \cup HeldOnes
  <2>1. Pg(c) \subseteq DOMAIN page /\ Pg(c) \cap Pgs(FreeOnes) = {}
    BY <1>1, Separate
  <2>2. Pg(c) \subseteq managed
    BY CoreFree DEF AllOnes, BuddyInv
  <2>3. Pg(c) \cap Pg(b) = {}
    BY <1>13, <2>2
  <2>4. \A q \in Pg(c) : bare[q] = page[q]
    BY <1>5, <1>12, <2>1, <2>3
  <2> QED
    BY <1>17, <2>1, <2>3, <2>4
<1>23. ThreadInv'
  <2>1. ASSUME NEW u \in Users, th[u].pc = "got"
        PROVE  page'[th[u].pfn].order = page[th[u].pfn].order
    <3>1. PICK c : c = <<th[u].pfn, th[u].order, "held", u>>
      OBVIOUS
    <3>2. c \in HeldOnes /\ c[1] = th[u].pfn
      BY <2>1, <3>1, HeldOne DEF Holds
    <3>3. c[1] \in Pg(c)
      BY <1>1, <3>2, Separate
    <3> QED
      BY <1>22, <3>2, <3>3
  <2> QED
    BY <1>1, <1>7, <2>1 DEF ThreadInv
<1>24. \A x \in owned : /\ page'[x[1]] = page[x[1]]
                        /\ \A q \in Block(x[1], x[2]) : page'[q] = page[q]
  <2> TAKE x \in owned
  <2>1. PICK c : c = <<x[1], x[2], "owned", x[3]>>
    OBVIOUS
  <2>2. c \in OwnedOnes /\ c[1] = x[1] /\ Pg(c) = Block(x[1], x[2])
    BY <1>1, <2>1, OwnedOne DEF Pg
  <2>3. c[1] \in Pg(c)
    BY <1>1, <2>2, Separate
  <2> QED
    BY <1>22, <2>2, <2>3
<1>25. OwnedInv'
  BY <1>1, <1>7, <1>24 DEF OwnedInv
<1> QED
  BY <1>21, <1>23, <1>24, <1>25 DEF BuddyInv

\* Every step of the buddy allocator keeps the invariant, and leaves alone the pages
\* of every block that stays with its owner, but for the reference count.
Untouched ==
    \A x \in owned : \A q \in Block(x[1], x[2]) : page'[q].flags = page[q].flags

LEMMA NoChange ==
  ASSUME page' = page
  PROVE  Untouched
BY DEF Untouched

LEMMA SamePages ==
  ASSUME FlagsInv, page' = page
  PROVE  SameFree(page') /\ \A q \in DOMAIN page : page'[q].order = page[q].order
BY DEF FlagsInv, SameFree

LEMMA BeginsAlloc ==
  ASSUME BuddyInv, NEW t \in Users, th[t].pc = "idle", NEW o \in Orders, NEW z \in Zones,
         NEW ret \in Caches \cup {"user"}, ret \in Caches => o = SLAB_ORDER, BeginAlloc(t, o, z, ret),
         UNCHANGED <<max_pfn, todo, managed, free_area, page, nfree, owned>>
  PROVE  BuddyInv'
<1>1. PICK r : r = [pc |-> "alloc", order |-> o, zone |-> z, pfn |-> 0, ret |-> ret]
  OBVIOUS
<1>2. th' = [th EXCEPT ![t] = r]
  BY <1>1 DEF BeginAlloc
<1>3. Row(r) /\ r.pc = "alloc"
  BY <1>1 DEF Row
<1>4. Hand(t, r) = Hand(t, th[t])
  BY <1>3 DEF Hand, HoldPcs
<1>5. SameFree(page') /\ \A q \in DOMAIN page : page'[q].order = page[q].order
  BY SamePages DEF BuddyInv, Core
<1> QED
  BY <1>2, <1>3, <1>4, <1>5, Quiet

LEMMA TriesNext ==
  ASSUME BuddyInv, NEW t \in Users, NextZone(t)
  PROVE  BuddyInv' /\ Untouched
<1>1. ThreadInv /\ FlagsInv
  BY DEF BuddyInv, Core
<1>2. PICK r : r = IF th[t].zone = ZONE_NORMAL THEN [th[t] EXCEPT !.zone = ZONE_DMA32]
                   ELSE [th[t] EXCEPT !.pc = "null"]
  OBVIOUS
<1>3. th' = [th EXCEPT ![t] = r] /\ th[t].pc = "alloc"
      /\ UNCHANGED <<max_pfn, todo, managed, free_area, page, nfree, owned>>
  BY <1>2 DEF NextZone
<1>4. Row(th[t])
  BY <1>1 DEF ThreadInv, Row
<1>5. Row(r) /\ r.pc \in {"alloc", "null"}
  <2>1. CASE th[t].zone = ZONE_NORMAL
    <3>1. r = [th[t] EXCEPT !.zone = ZONE_DMA32]
      BY <1>2, <2>1
    <3> QED
      BY <1>3, <1>4, <3>1 DEF Row, Zones
  <2>2. CASE th[t].zone # ZONE_NORMAL
    <3>1. r = [th[t] EXCEPT !.pc = "null"]
      BY <1>2, <2>2
    <3> QED
      BY <1>3, <1>4, <3>1 DEF Row
  <2> QED
    BY <2>1, <2>2
<1>6. Hand(t, r) = Hand(t, th[t])
  BY <1>3, <1>5 DEF Hand, HoldPcs
<1>7. SameFree(page') /\ \A q \in DOMAIN page : page'[q].order = page[q].order
  BY <1>1, <1>3, SamePages
<1> QED
  BY <1>3, <1>5, <1>6, <1>7, Quiet, NoChange

\* A step that changes the descriptor of the block in hand.
LEMMA HeadOnly ==
  ASSUME BuddyInv, NEW t \in Users, Holds(t), NEW d, DOMAIN d = {"flags", "order", "refcount"},
         "BUDDY" \notin d.flags, page' = [page EXCEPT ![th[t].pfn] = d]
  PROVE  /\ SameFree(page') /\ Untouched
         /\ th[t].pfn \in DOMAIN page /\ page'[th[t].pfn] = d
         /\ \A q \in DOMAIN page : q # th[t].pfn => page'[q] = page[q]
<1>1. Core /\ FlagsInv /\ FreeInv /\ OwnedInv
  BY CoreFree DEF BuddyInv, Core
<1>2. PICK b : b = <<th[t].pfn, th[t].order, "held", t>>
  OBVIOUS
<1>3. b \in HeldOnes /\ b[1] = th[t].pfn
  BY <1>2, HeldOne
<1>4. th[t].pfn \in DOMAIN page /\ th[t].pfn \in Pg(b) /\ th[t].pfn \notin Pgs(FreeOnes)
  BY <1>1, <1>3, Separate
<1>5. "BUDDY" \notin page[th[t].pfn].flags
  BY <1>1, <1>4, NotMarked
<1>6. /\ DOMAIN page' = DOMAIN page /\ page'[th[t].pfn] = d
      /\ \A q \in DOMAIN page : q # th[t].pfn => page'[q] = page[q]
  BY <1>4
<1>7. SameFree(page')
  BY <1>1, <1>5, <1>6 DEF SameFree, FlagsInv
<1>8. Untouched
  <2> SUFFICES ASSUME NEW x \in owned, NEW q \in Block(x[1], x[2])
               PROVE  page'[q] = page[q]
    BY DEF Untouched
  <2>1. PICK c : c = <<x[1], x[2], "owned", x[3]>>
    OBVIOUS
  <2>2. c \in OwnedOnes /\ c # b /\ Pg(c) = Block(x[1], x[2])
    BY <1>1, <1>2, <2>1, OwnedOne DEF Pg
  <2>3. Pg(c) \subseteq DOMAIN page /\ Pg(c) \cap Pg(b) = {}
    BY <1>1, <1>3, <2>2, Separate
  <2> QED
    BY <1>4, <1>6, <2>2, <2>3
<1> QED
  BY <1>4, <1>6, <1>7, <1>8

LEMMA Describes ==
  ASSUME BuddyInv, NEW t \in Users, Descriptor(t)
  PROVE  BuddyInv' /\ Untouched
<1>1. ThreadInv /\ FlagsInv /\ Core /\ FreeInv
  BY CoreFree DEF BuddyInv, Core
<1>2. th[t].pc = "taken" /\ Holds(t)
  BY DEF Descriptor, Holds
<1>3. PICK d : d = [flags |-> page[th[t].pfn].flags \cup {"HEAD"}, order |-> th[t].order, refcount |-> 1]
  OBVIOUS
<1>4. "BUDDY" \notin page[th[t].pfn].flags
  <2>1. PICK b : b = <<th[t].pfn, th[t].order, "held", t>>
    OBVIOUS
  <2>2. b \in HeldOnes /\ b[1] = th[t].pfn
    BY <1>2, <2>1, HeldOne
  <2>3. th[t].pfn \in DOMAIN page /\ th[t].pfn \notin Pgs(FreeOnes)
    BY <1>1, <2>2, Separate
  <2> QED
    BY <1>1, <2>3, NotMarked
<1>5. DOMAIN d = {"flags", "order", "refcount"} /\ "BUDDY" \notin d.flags /\ d.order = th[t].order
  BY <1>3, <1>4
<1>6. page' = [page EXCEPT ![th[t].pfn] = d]
  BY <1>3 DEF Descriptor
<1>7. /\ SameFree(page') /\ Untouched
      /\ th[t].pfn \in DOMAIN page /\ page'[th[t].pfn] = d
      /\ \A q \in DOMAIN page : q # th[t].pfn => page'[q] = page[q]
  BY <1>2, <1>5, <1>6, HeadOnly
<1>8. PICK r : r = [th[t] EXCEPT !.pc = "got"]
  OBVIOUS
<1>9. th' = [th EXCEPT ![t] = r] /\ UNCHANGED <<max_pfn, todo, managed, free_area, nfree, owned>>
  BY <1>8 DEF Descriptor
<1>10. Row(r) /\ r.pc = "got" /\ r.pfn = th[t].pfn /\ r.order = th[t].order
  BY <1>1, <1>8 DEF ThreadInv, Row
<1>11. Hand(t, r) = Hand(t, th[t])
  BY <1>2, <1>10 DEF Hand, HoldPcs
<1>12. r.pc = "got" => page'[r.pfn].order = r.order
  BY <1>5, <1>7, <1>10
<1>13. \A q \in DOMAIN page : page'[q].order # page[q].order => Holds(t) /\ q = th[t].pfn
  BY <1>2, <1>7
<1> QED
  BY <1>7, <1>9, <1>10, <1>11, <1>12, <1>13, Quiet

LEMMA Clears ==
  ASSUME BuddyInv, NEW t \in Users, ClearDescriptor(t)
  PROVE  BuddyInv' /\ Untouched
<1>1. ThreadInv /\ FlagsInv /\ Core /\ FreeInv
  BY CoreFree DEF BuddyInv, Core
<1>2. th[t].pc = "free" /\ Holds(t)
  BY DEF ClearDescriptor, Holds
<1>3. th[t].pfn \in DOMAIN page /\ "BUDDY" \notin page[th[t].pfn].flags
  <2>1. PICK b : b = <<th[t].pfn, th[t].order, "held", t>>
    OBVIOUS
  <2>2. b \in HeldOnes /\ b[1] = th[t].pfn
    BY <1>2, <2>1, HeldOne
  <2>3. th[t].pfn \in DOMAIN page /\ th[t].pfn \notin Pgs(FreeOnes)
    BY <1>1, <2>2, Separate
  <2> QED
    BY <1>1, <2>3, NotMarked
<1>4. PICK d : d = [page[th[t].pfn] EXCEPT !.flags = @ \ {"HEAD", "SLAB"}, !.refcount = 0]
  OBVIOUS
<1>5. DOMAIN page[th[t].pfn] = {"flags", "order", "refcount"}
  BY <1>1, <1>3 DEF FlagsInv
<1>6. DOMAIN d = {"flags", "order", "refcount"}
  BY <1>4, <1>5
<1>7. d.flags = page[th[t].pfn].flags \ {"HEAD", "SLAB"}
  BY <1>4, <1>5
<1>8. d.order = page[th[t].pfn].order
  BY <1>4, <1>5
<1>9. page' = [page EXCEPT ![th[t].pfn] = d]
  BY <1>4 DEF ClearDescriptor
<1>10. "BUDDY" \notin d.flags
  BY <1>3, <1>7
<1>11. /\ SameFree(page') /\ Untouched
       /\ th[t].pfn \in DOMAIN page /\ page'[th[t].pfn] = d
       /\ \A q \in DOMAIN page : q # th[t].pfn => page'[q] = page[q]
  BY <1>2, <1>6, <1>9, <1>10, HeadOnly
<1>12. PICK r : r = [th[t] EXCEPT !.pc = "return"]
  OBVIOUS
<1>13. th' = [th EXCEPT ![t] = r] /\ UNCHANGED <<max_pfn, todo, managed, free_area, nfree, owned>>
  BY <1>12 DEF ClearDescriptor
<1>14. Row(r) /\ r.pc = "return" /\ r.pfn = th[t].pfn /\ r.order = th[t].order
  BY <1>1, <1>12 DEF ThreadInv, Row
<1>15. Hand(t, r) = Hand(t, th[t])
  BY <1>2, <1>14 DEF Hand, HoldPcs
<1>16. \A q \in DOMAIN page : page'[q].order # page[q].order => Holds(t) /\ q = th[t].pfn
  BY <1>2, <1>11
<1> QED
  BY <1>11, <1>13, <1>14, <1>15, <1>16, Quiet

\* A reference more or less.
LEMMA CountedIn ==
  ASSUME Core, OwnedInv, NEW p \in DOMAIN page, NEW n, page' = [page EXCEPT ![p].refcount = n]
  PROVE  /\ SameFree(page') /\ Untouched
         /\ \A q \in DOMAIN page : page'[q].order = page[q].order /\ page'[q].flags = page[q].flags
<1>1. \A q \in DOMAIN page : DOMAIN page[q] = {"flags", "order", "refcount"}
  BY DEF Core, FlagsInv
<1>2. DOMAIN page' = DOMAIN page /\ \A q \in DOMAIN page : q # p => page'[q] = page[q]
  OBVIOUS
<1>3. page'[p] = [page[p] EXCEPT !.refcount = n]
  OBVIOUS
<1>4. /\ DOMAIN page'[p] = {"flags", "order", "refcount"}
      /\ page'[p].order = page[p].order /\ page'[p].flags = page[p].flags
  BY <1>1, <1>3
<1>5. \A q \in DOMAIN page : page'[q].order = page[q].order /\ page'[q].flags = page[q].flags
  BY <1>2, <1>4
<1>6. SameFree(page')
  BY <1>1, <1>2, <1>4, <1>5 DEF SameFree
<1>7. Untouched
  <2> SUFFICES ASSUME NEW x \in owned, NEW q \in Block(x[1], x[2])
               PROVE  page'[q].flags = page[q].flags
    BY DEF Untouched
  <2>1. PICK c : c = <<x[1], x[2], "owned", x[3]>>
    OBVIOUS
  <2>2. c \in OwnedOnes /\ Pg(c) = Block(x[1], x[2])
    BY <2>1, OwnedOne DEF Pg
  <2>3. q \in DOMAIN page
    BY <2>2, Separate
  <2> QED
    BY <1>5, <2>3
<1> QED
  BY <1>5, <1>6, <1>7

LEMMA TakesBlock ==
  ASSUME BuddyInv, NEW t \in Users, TakeBlock(t)
  PROVE  BuddyInv' /\ Untouched
<1>1. Core /\ ThreadInv /\ OwnedInv /\ FlagsInv /\ DOMAIN th = Users
  BY DEF BuddyInv, Core, ThreadInv
<1>2. PICK z : z = th[t].zone
  OBVIOUS
<1>3. PICK o : o = th[t].order
  OBVIOUS
<1>4. PICK f : f = Min(Served(z, o))
  OBVIOUS
<1>5. Served(z, o) # {} /\ th[t].pc = "alloc" /\ z \in Zones /\ o \in Orders
  BY <1>1, <1>2, <1>3 DEF TakeBlock, ThreadInv
<1>6. f \in Served(z, o) /\ \A x \in Served(z, o) : f <= x
  <2>1. Served(z, o) \in SUBSET Nat
    BY <1>5, OrdersIn DEF Served
  <2> QED
    BY <1>4, <1>5, <2>1, SmallestOf
<1>7. f \in Orders /\ o <= f
  BY <1>5, <1>6, OrdersIn DEF Served
<1>8. \A k \in o .. f - 1 : InZone(z, free_area[k]) = {}
  <2> TAKE k \in o .. f - 1
  <2>1. k \in o .. MAX_ORDER - 1 /\ ~(f <= k)
    BY <1>5, <1>7, OrdersIn DEF Orders
  <2> QED
    BY <1>6, <2>1 DEF Served
<1>9. PICK p \in InZone(z, free_area[f]) :
         /\ free_area' = CutLists(p, o, f) /\ page' = CutPage(p, o, f)
         /\ th' = [th EXCEPT ![t].pc = "taken", ![t].pfn = p]
  <2>1. \E p \in InZone(th[t].zone, free_area[Min(Served(th[t].zone, th[t].order))]) :
           /\ free_area' = CutLists(p, th[t].order, Min(Served(th[t].zone, th[t].order)))
           /\ page' = CutPage(p, th[t].order, Min(Served(th[t].zone, th[t].order)))
           /\ th' = [th EXCEPT ![t].pc = "taken", ![t].pfn = p]
    BY DEF TakeBlock, CutLists, CutPage
  <2> QED
    BY <1>2, <1>3, <1>4, <2>1
<1>10. nfree' = [nfree EXCEPT ![z] = @ - 2^o] /\ UNCHANGED <<max_pfn, todo, managed, owned>>
  BY <1>2, <1>3 DEF TakeBlock
<1>11. PICK r : r = [th[t] EXCEPT !.pc = "taken", !.pfn = p]
  OBVIOUS
<1>12. th' = [th EXCEPT ![t] = r]
  BY <1>1, <1>9, <1>11
<1>13. Row(r) /\ r.pc = "taken" /\ r.pfn = p /\ r.order = o
  <2>1. DOMAIN th[t] = {"pc", "order", "zone", "pfn", "ret"}
    BY <1>1 DEF ThreadInv
  <2>2. r.pc = "taken" /\ r.pfn = p /\ r.order = th[t].order /\ r.zone = th[t].zone
        /\ r.ret = th[t].ret /\ DOMAIN r = DOMAIN th[t]
    BY <1>11, <2>1
  <2> QED
    BY <1>1, <1>3, <2>1, <2>2 DEF Row, ThreadInv
<1>14. p \in free_area[f] /\ pfn_zone(p) = z
  BY <1>9 DEF InZone
<1>15. ~Holds(t)
  BY <1>5 DEF Holds
<1>16. Core' /\ \A q \in DOMAIN page : q \notin Pgs(FreeOnes) => page'[q] = page[q]
  <2>1. Taking(t, z, o, f, p, r)
    BY <1>1, <1>7, <1>8, <1>9, <1>10, <1>12, <1>13, <1>14, <1>15 DEF Taking
  <2> QED
    BY <1>1, <1>5, <1>7, <2>1, BlockTaken
<1>17. \A c \in OwnedOnes \cup HeldOnes : \A q \in Pg(c) : page'[q] = page[q]
  BY <1>1, <1>16, Separate
<1>18. ThreadInv'
  <2>1. ASSUME NEW u \in Users, th[u].pc = "got"
        PROVE  page'[th[u].pfn].order = page[th[u].pfn].order
    <3>1. PICK c : c = <<th[u].pfn, th[u].order, "held", u>>
      OBVIOUS
    <3>2. c \in HeldOnes /\ c[1] = th[u].pfn
      BY <2>1, <3>1, HeldOne DEF Holds
    <3>3. c[1] \in Pg(c)
      BY <1>1, <3>2, Separate
    <3> QED
      BY <1>17, <3>2, <3>3
  <2> QED
    BY <1>1, <1>12, <1>13, <2>1, RowsKept
<1>19. \A x \in owned : /\ page'[x[1]] = page[x[1]]
                        /\ \A q \in Block(x[1], x[2]) : page'[q] = page[q]
  <2> TAKE x \in owned
  <2>1. PICK c : c = <<x[1], x[2], "owned", x[3]>>
    OBVIOUS
  <2>2. c \in OwnedOnes /\ c[1] = x[1] /\ Pg(c) = Block(x[1], x[2])
    BY <1>1, <2>1, OwnedOne DEF Pg
  <2>3. c[1] \in Pg(c)
    BY <1>1, <2>2, Separate
  <2> QED
    BY <1>17, <2>2, <2>3
<1>20. OwnedInv'
  BY <1>1, <1>10, <1>19 DEF OwnedInv
<1> QED
  BY <1>16, <1>18, <1>19, <1>20 DEF BuddyInv, Untouched

LEMMA AllocDone ==
  ASSUME BuddyInv, NEW t \in Users, AllocReturns(t)
  PROVE  BuddyInv' /\ Untouched /\ page' = page
<1>1. Core /\ ThreadInv /\ FlagsInv
  BY DEF BuddyInv, Core
<1>2. /\ th' = [th EXCEPT ![t] = NoCall] /\ page' = page
      /\ UNCHANGED <<max_pfn, todo, managed, free_area, nfree>>
  BY DEF AllocReturns
<1>3. SameFree(page') /\ \A q \in DOMAIN page : page'[q].order = page[q].order
  BY <1>1, <1>2, SamePages
<1>4. CASE th[t].pc = "got"
  <2>1. owned' = owned \cup {<<th[t].pfn, th[t].order, "user">>}
    BY <1>4 DEF AllocReturns
  <2>2. "user" \in Caches \cup {"user"} /\ "user" \notin Caches
    BY SlabAssumption
  <2> QED
    BY <1>2, <1>3, <1>4, <2>1, <2>2, Gives, NoChange
<1>5. CASE th[t].pc = "null"
  <2>1. owned' = owned
    BY <1>5 DEF AllocReturns
  <2>2. Hand(t, NoCall) = Hand(t, th[t])
    BY <1>5 DEF Hand, HoldPcs, NoCall
  <2>3. NoCall.pc # "got"
    BY DEF NoCall
  <2> QED
    BY <1>2, <1>3, <2>1, <2>2, <2>3, NoCallRow, Quiet, NoChange
<1> QED
  BY <1>4, <1>5 DEF AllocReturns

LEMMA OwnedPage ==
  ASSUME BuddyInv, NEW b \in owned
  PROVE  b[1] \in DOMAIN page /\ Block(b[1], b[2]) \subseteq DOMAIN page /\ b[2] \in Orders
<1>1. Core /\ OwnedInv
  BY DEF BuddyInv
<1>2. PICK c : c = <<b[1], b[2], "owned", b[3]>>
  OBVIOUS
<1>3. c \in OwnedOnes /\ c[1] = b[1] /\ c[2] = b[2]
  BY <1>1, <1>2, OwnedOne
<1>4. Fine(c)
  BY <1>1, <1>3, CoreFree DEF AllOnes
<1>5. c[1] \in Pg(c) /\ Pg(c) \subseteq DOMAIN page
  BY <1>1, <1>3, Separate
<1> QED
  BY <1>3, <1>4, <1>5 DEF Fine, Pg

LEMMA Referenced ==
  ASSUME BuddyInv, NEW b \in owned, NEW n, page' = [page EXCEPT ![b[1]].refcount = n],
         UNCHANGED <<max_pfn, todo, managed, free_area, nfree, th, owned>>
  PROVE  BuddyInv' /\ Untouched
<1>1. Core /\ ThreadInv /\ OwnedInv
  BY DEF BuddyInv
<1>2. /\ SameFree(page') /\ Untouched
      /\ \A q \in DOMAIN page : page'[q].order = page[q].order /\ page'[q].flags = page[q].flags
  BY <1>1, OwnedPage, CountedIn
<1>3. OwnedOnes' = OwnedOnes /\ HeldOnes' = HeldOnes
  BY DEF OwnedOnes, HeldOnes, Holds
<1>4. Core'
  BY <1>1, <1>2, <1>3, PassedOn
<1>5. /\ \A u \in Users : Holds(u) => page'[th[u].pfn].order = page[th[u].pfn].order
      /\ \A x \in owned : page'[x[1]].order = page[x[1]].order
  BY <1>1, <1>2, OrdersKept
<1>6. ThreadInv' /\ OwnedInv'
  BY <1>1, <1>5 DEF ThreadInv, OwnedInv, Holds
<1> QED
  BY <1>2, <1>4, <1>6 DEF BuddyInv

LEMMA Dropped ==
  ASSUME BuddyInv, NEW t \in Users, NEW b \in owned, put_page(t, b)
  PROVE  BuddyInv' /\ Untouched
<1>1. Core /\ ThreadInv /\ OwnedInv
  BY DEF BuddyInv
<1>2. b[1] \in DOMAIN page /\ b[2] \in Orders
  BY OwnedPage
<1>3. PICK n : n = page[b[1]].refcount - 1
  OBVIOUS
<1>4. page' = [page EXCEPT ![b[1]].refcount = n] /\ UNCHANGED <<max_pfn, todo, managed, free_area, nfree>>
      /\ th[t].pc = "idle" /\ b[3] = "user"
  BY <1>3 DEF put_page
<1>5. /\ SameFree(page') /\ Untouched
      /\ \A q \in DOMAIN page : page'[q].order = page[q].order /\ page'[q].flags = page[q].flags
  BY <1>1, <1>2, <1>4, CountedIn
<1>6. b[2] = page[b[1]].order /\ b[2] \in Orders
  BY <1>1, <1>2, <1>4 DEF OwnedInv
<1>7. ~Holds(t)
  BY <1>4 DEF Holds
<1>8. CASE page[b[1]].refcount = 1
  <2>1. PICK r : r = [NoCall EXCEPT !.pc = "free", !.pfn = b[1], !.order = page[b[1]].order]
    OBVIOUS
  <2>2. th' = [th EXCEPT ![t] = r] /\ owned' = owned \ {b}
    BY <1>8, <2>1 DEF put_page
  <2>3. /\ r.pc = "free" /\ r.pfn = b[1] /\ r.order = b[2] /\ r.zone = 0 /\ r.ret = "user"
        /\ DOMAIN r = {"pc", "order", "zone", "pfn", "ret"}
    BY <1>6, <2>1 DEF NoCall
  <2>4. Row(r)
    BY <1>6, <2>3, SlabAssumption DEF Row, Zones, ZONE_DMA32
  <2> QED
    BY <1>4, <1>5, <1>7, <2>2, <2>3, <2>4, Takes
<1>9. CASE page[b[1]].refcount # 1
  <2>1. th' = th /\ owned' = owned
    BY <1>9 DEF put_page
  <2> QED
    BY <1>4, <2>1, Referenced
<1> QED
  BY <1>8, <1>9

LEMMA AllocBegins ==
  ASSUME BuddyInv, NEW t \in Users, NEW o \in Orders0, NEW z \in Zones, alloc_pages(t, o, z)
  PROVE  BuddyInv' /\ Untouched
<1>1. o \in Orders
  BY OrderAssumption DEF Orders
<1>2. "user" \in Caches \cup {"user"} /\ "user" \notin Caches
  BY SlabAssumption
<1>3. /\ th[t].pc = "idle" /\ BeginAlloc(t, o, z, "user")
      /\ UNCHANGED <<max_pfn, todo, managed, free_area, page, nfree, owned>>
  BY DEF alloc_pages
<1> QED
  BY <1>1, <1>2, <1>3, BeginsAlloc, NoChange

LEMMA BuddySteps ==
  ASSUME BuddyInv, BuddyNext
  PROVE  BuddyInv' /\ Untouched
<1>1. ASSUME NEW t \in Users, BuddyStep(t)
      PROVE  BuddyInv' /\ Untouched
  <2>1. ASSUME ReturnBlock(t, "user")
        PROVE  BuddyInv' /\ Untouched
    BY <2>1, Returned DEF Untouched
  <2> QED
    BY <1>1, <2>1, AllocBegins, TakesBlock, TriesNext, Describes, AllocDone, Dropped, Clears
       DEF BuddyStep
<1>2. CASE FreeRange
  BY <1>2, HandedOut DEF Untouched
<1>3. ASSUME NEW b \in owned, get_page(b)
      PROVE  BuddyInv' /\ Untouched
  <2>1. PICK n : n = page[b[1]].refcount + 1
    OBVIOUS
  <2>2. page' = [page EXCEPT ![b[1]].refcount = n]
        /\ UNCHANGED <<max_pfn, todo, managed, free_area, nfree, th, owned>>
    BY <1>3, <2>1 DEF get_page
  <2> QED
    BY <2>2, Referenced
<1> QED
  BY <1>1, <1>2, <1>3 DEF BuddyNext

-----------------------------------------------------------------------------
(* The caches: one slab, one cache, all of them.                            *)

SlabBlock(c, s) == <<s, SLAB_ORDER, c>> \in owned

SlabFine(c, s) ==
    /\ \A i \in freelist[s] : i \in Objects /\ <<c, s, i>> \notin objs
    /\ \A i \in Objects : i \in freelist[s] \/ <<c, s, i>> \in objs
    /\ s \in cache[c].full <=> freelist[s] = {}
    /\ s \in cache[c].empty <=> freelist[s] = Objects
    /\ s \in cache[c].partial => s \notin cache[c].full \cup cache[c].empty
    /\ \A p \in Block(s, SLAB_ORDER) : "SLAB" \in page[p].flags

CacheFine(c) ==
    /\ DOMAIN cache[c] = {"partial", "full", "empty", "lock", "exists"}
    /\ \A s : s \in cache[c].partial \cup cache[c].full \cup cache[c].empty <=> SlabBlock(c, s)
    /\ \A s, r \in cache[c].empty : s = r
    /\ \A s : SlabBlock(c, s) => SlabFine(c, s) /\ cache[c].exists
    /\ cache[c].exists \/ cache[c].lock = Nobody
    /\ \A t \in Users : th[t].ret = c => cache[c].lock = t

ObjectInv ==
    \A o \in objs : /\ o = <<o[1], o[2], o[3]>> /\ o[1] \in Caches /\ o[3] \in Objects
                    /\ SlabBlock(o[1], o[2])

SlabInv ==
    /\ DOMAIN cache = Caches /\ DOMAIN freelist = DOMAIN page
    /\ \A c \in Caches : CacheFine(c)
    /\ ObjectInv

MemoryInv == BuddyInv /\ SlabInv

\* What a step that concerns one cache leaves of the others.
LEMMA OthersFine ==
  ASSUME SlabInv, NEW c \in Caches, cache'[c] = cache[c],
         \A s : SlabBlock(c, s)' <=> SlabBlock(c, s),
         \A t \in Users : th'[t].ret = c => th[t].ret = c,
         \A s : SlabBlock(c, s) =>
            /\ freelist'[s] = freelist[s]
            /\ \A i : <<c, s, i>> \in objs' <=> <<c, s, i>> \in objs
            /\ \A p \in Block(s, SLAB_ORDER) : page'[p].flags = page[p].flags
  PROVE  CacheFine(c)'
<1>1. CacheFine(c)
  BY DEF SlabInv
<1>2. ASSUME NEW s, SlabBlock(c, s)
      PROVE  SlabFine(c, s)'
  <2>1. SlabFine(c, s)
    BY <1>1, <1>2 DEF CacheFine
  <2>2. /\ freelist'[s] = freelist[s]
        /\ \A i : <<c, s, i>> \in objs' <=> <<c, s, i>> \in objs
        /\ \A p \in Block(s, SLAB_ORDER) : page'[p].flags = page[p].flags
    BY <1>2
  <2> QED
    BY <2>1, <2>2 DEF SlabFine
<1>3. ASSUME NEW s, SlabBlock(c, s)'
      PROVE  SlabFine(c, s)' /\ cache'[c].exists
  BY <1>1, <1>2, <1>3 DEF CacheFine
<1>4. \A s : s \in cache'[c].partial \cup cache'[c].full \cup cache'[c].empty <=> SlabBlock(c, s)'
  BY <1>1 DEF CacheFine
<1> QED
  BY <1>1, <1>3, <1>4 DEF CacheFine

\* One cache's own slabs that a step is not about.
LEMMA OthersOf ==
  ASSUME NEW c, NEW s, SlabFine(c, s), freelist'[s] = freelist[s],
         \A i : <<c, s, i>> \in objs' <=> <<c, s, i>> \in objs,
         \A p \in Block(s, SLAB_ORDER) : page'[p].flags = page[p].flags,
         s \in cache'[c].full <=> s \in cache[c].full,
         s \in cache'[c].empty <=> s \in cache[c].empty,
         s \in cache'[c].partial <=> s \in cache[c].partial
  PROVE  SlabFine(c, s)'
BY DEF SlabFine

\* Blocks of one kind start at different pages.
LEMMA OneOwner ==
  ASSUME BuddyInv
  PROVE  /\ \A x, y \in owned : x # y => Block(x[1], x[2]) \cap Block(y[1], y[2]) = {}
         /\ \A x, y \in owned : x[1] = y[1] => x = y
         /\ \A t \in Users : \A x \in owned : Holds(t) =>
               Block(x[1], x[2]) \cap Block(th[t].pfn, th[t].order) = {} /\ x[1] # th[t].pfn
<1>1. Core /\ OwnedInv
  BY DEF BuddyInv
<1>2. ASSUME NEW x \in owned, NEW y \in owned, x # y
      PROVE  Block(x[1], x[2]) \cap Block(y[1], y[2]) = {} /\ x[1] # y[1]
  <2>1. PICK a : a = <<x[1], x[2], "owned", x[3]>>
    OBVIOUS
  <2>2. PICK b : b = <<y[1], y[2], "owned", y[3]>>
    OBVIOUS
  <2>3. x = <<x[1], x[2], x[3]>> /\ y = <<y[1], y[2], y[3]>>
    BY <1>1 DEF OwnedInv
  <2>4. a # b
    BY <1>2, <2>1, <2>2, <2>3
  <2>5. a \in OwnedOnes /\ b \in OwnedOnes
    BY <1>1, <2>1, <2>2, OwnedOne
  <2>6. Pg(a) \cap Pg(b) = {} /\ a[1] \in Pg(a) /\ b[1] \in Pg(b)
    BY <1>1, <2>4, <2>5, Separate
  <2> QED
    BY <2>1, <2>2, <2>6 DEF Pg
<1>3. ASSUME NEW t \in Users, NEW x \in owned, Holds(t)
      PROVE  Block(x[1], x[2]) \cap Block(th[t].pfn, th[t].order) = {} /\ x[1] # th[t].pfn
  <2>1. PICK a : a = <<x[1], x[2], "owned", x[3]>>
    OBVIOUS
  <2>2. PICK b : b = <<th[t].pfn, th[t].order, "held", t>>
    OBVIOUS
  <2>3. a \in OwnedOnes /\ b \in HeldOnes /\ a # b
    BY <1>1, <1>3, <2>1, <2>2, OwnedOne, HeldOne
  <2>4. Pg(a) \cap Pg(b) = {} /\ a[1] \in Pg(a) /\ b[1] \in Pg(b)
    BY <1>1, <2>3, Separate
  <2> QED
    BY <2>1, <2>2, <2>4 DEF Pg
<1> QED
  BY <1>2, <1>3

LEMMA Marked ==
  ASSUME FlagsInv, NEW s, NEW slab \in BOOLEAN, page' = MarkSlab(s, slab)
  PROVE  /\ SameFree(page') /\ \A q \in DOMAIN page : page'[q].order = page[q].order
         /\ \A q \in DOMAIN page \ Block(s, SLAB_ORDER) : page'[q] = page[q]
         /\ slab => \A q \in DOMAIN page \cap Block(s, SLAB_ORDER) : "SLAB" \in page'[q].flags
<1>1. DOMAIN page' = DOMAIN page
  BY DEF MarkSlab
<1>2. \A q \in DOMAIN page \ Block(s, SLAB_ORDER) : page'[q] = page[q]
  BY DEF MarkSlab
<1>3. ASSUME NEW q \in DOMAIN page, q \in Block(s, SLAB_ORDER)
      PROVE  /\ DOMAIN page'[q] = {"flags", "order", "refcount"} /\ page'[q].order = page[q].order
             /\ "BUDDY" \in page'[q].flags <=> "BUDDY" \in page[q].flags
             /\ slab => "SLAB" \in page'[q].flags
  <2>1. DOMAIN page[q] = {"flags", "order", "refcount"}
    BY DEF FlagsInv
  <2>2. CASE slab
    <3>1. page'[q] = [page[q] EXCEPT !.flags = page[q].flags \cup {"SLAB"}]
      BY <1>3, <2>2 DEF MarkSlab
    <3> QED
      BY <2>1, <3>1
  <2>3. CASE ~slab
    <3>1. page'[q] = [page[q] EXCEPT !.flags = page[q].flags \ {"SLAB"}]
      BY <1>3, <2>3 DEF MarkSlab
    <3> QED
      BY <2>1, <2>3, <3>1
  <2> QED
    BY <2>2, <2>3
<1>4. ASSUME NEW q \in DOMAIN page
      PROVE  /\ DOMAIN page'[q] = {"flags", "order", "refcount"} /\ page'[q].order = page[q].order
             /\ "BUDDY" \in page'[q].flags <=> "BUDDY" \in page[q].flags
  BY <1>2, <1>3 DEF FlagsInv
<1>5. SameFree(page')
  BY <1>1, <1>4 DEF SameFree
<1> QED
  BY <1>2, <1>3, <1>4, <1>5

\* A step of the buddy allocator as the caches see it.
LEMMA BuddySeen ==
  ASSUME BuddyInv, BuddyNext
  PROVE  /\ \A c \in Caches : \A s : SlabBlock(c, s)' <=> SlabBlock(c, s)
         /\ \A t \in Users : th'[t].ret \in Caches => th[t].ret = th'[t].ret
         /\ max_pfn' = max_pfn
<1>1. "user" \notin Caches /\ DOMAIN th = Users /\ OwnedInv
  BY SlabAssumption DEF BuddyInv, ThreadInv
<1> DEFINE Seen == /\ \A c \in Caches : \A s : SlabBlock(c, s)' <=> SlabBlock(c, s)
                   /\ \A t \in Users : th'[t].ret \in Caches => th[t].ret = th'[t].ret
                   /\ max_pfn' = max_pfn
<1>2. ASSUME NEW t \in Users, NEW r, th' = [th EXCEPT ![t] = r], r.ret \in Caches => th[t].ret = r.ret
      PROVE  \A u \in Users : th'[u].ret \in Caches => th[u].ret = th'[u].ret
  BY <1>1, <1>2
<1>3. NoCall.ret = "user"
  BY DEF NoCall
<1>4. ASSUME NEW t \in Users, BuddyStep(t)
      PROVE  Seen
  <2>1. ASSUME NEW o \in Orders0, NEW z \in Zones, alloc_pages(t, o, z)
        PROVE  Seen
    <3>1. PICK r : r = [pc |-> "alloc", order |-> o, zone |-> z, pfn |-> 0, ret |-> "user"]
      OBVIOUS
    <3>2. th' = [th EXCEPT ![t] = r] /\ r.ret \notin Caches
      BY <1>1, <2>1, <3>1 DEF alloc_pages, BeginAlloc
    <3> QED
      BY <1>2, <2>1, <3>2 DEF alloc_pages, SlabBlock
  <2>2. CASE TakeBlock(t)
    BY <1>1, <2>2 DEF TakeBlock, SlabBlock, BuddyInv, ThreadInv
  <2>3. CASE NextZone(t)
    <3>1. PICK r : r = IF th[t].zone = ZONE_NORMAL THEN [th[t] EXCEPT !.zone = ZONE_DMA32]
                       ELSE [th[t] EXCEPT !.pc = "null"]
      OBVIOUS
    <3>2. th' = [th EXCEPT ![t] = r]
      BY <2>3, <3>1 DEF NextZone
    <3>3. r.ret = th[t].ret
      <4>1. DOMAIN th[t] = {"pc", "order", "zone", "pfn", "ret"}
        BY DEF BuddyInv, ThreadInv
      <4> QED
        BY <3>1, <4>1
    <3> QED
      BY <1>2, <2>3, <3>2, <3>3 DEF NextZone, SlabBlock
  <2>4. CASE Descriptor(t)
    BY <1>1, <2>4 DEF Descriptor, SlabBlock, BuddyInv, ThreadInv
  <2>5. CASE AllocReturns(t)
    <3>1. th' = [th EXCEPT ![t] = NoCall] /\ max_pfn' = max_pfn
      BY <2>5 DEF AllocReturns
    <3>2. \A c \in Caches : \A s : SlabBlock(c, s)' <=> SlabBlock(c, s)
      BY <1>1, <2>5 DEF AllocReturns, SlabBlock
    <3> QED
      BY <1>1, <1>2, <1>3, <3>1, <3>2
  <2>6. ASSUME NEW b \in owned, put_page(t, b)
        PROVE  Seen
    <3>1. \A c \in Caches : \A s : SlabBlock(c, s)' <=> SlabBlock(c, s)
      <4>1. owned' = owned \/ owned' = owned \ {b}
        BY <2>6 DEF put_page
      <4>2. \A c \in Caches : \A s : <<s, SLAB_ORDER, c>> # b
        BY <1>1, <2>6 DEF put_page
      <4> QED
        BY <4>1, <4>2 DEF SlabBlock
    <3>2. \A u \in Users : th'[u].ret \in Caches => th[u].ret = th'[u].ret
      <4>1. CASE page[b[1]].refcount = 1
        <5>1. PICK r : r = [NoCall EXCEPT !.pc = "free", !.pfn = b[1], !.order = page[b[1]].order]
          OBVIOUS
        <5>2. th' = [th EXCEPT ![t] = r]
          BY <2>6, <4>1, <5>1 DEF put_page
        <5>3. r.ret = "user"
          BY <5>1 DEF NoCall
        <5> QED
          BY <1>1, <1>2, <5>2, <5>3
      <4>2. CASE page[b[1]].refcount # 1
        BY <2>6, <4>2 DEF put_page
      <4> QED
        BY <4>1, <4>2
    <3> QED
      BY <2>6, <3>1, <3>2 DEF put_page
  <2>7. CASE ClearDescriptor(t)
    BY <1>1, <2>7 DEF ClearDescriptor, SlabBlock, BuddyInv, ThreadInv
  <2>8. CASE ReturnBlock(t, "user")
    <3>1. th' = [th EXCEPT ![t] = NoCall] /\ UNCHANGED <<max_pfn, owned>>
      BY <2>8 DEF ReturnBlock
    <3> QED
      BY <1>1, <1>2, <1>3, <3>1 DEF SlabBlock
  <2> QED
    BY <1>4, <2>1, <2>2, <2>3, <2>4, <2>5, <2>6, <2>7, <2>8 DEF BuddyStep
<1>5. CASE FreeRange
  BY <1>5 DEF FreeRange, SlabBlock
<1>6. ASSUME NEW b \in owned, get_page(b)
      PROVE  Seen
  BY <1>6 DEF get_page, SlabBlock
<1> QED
  BY <1>4, <1>5, <1>6 DEF BuddyNext

LEMMA BuddyKeepsSlabs ==
  ASSUME MemoryInv, BuddyNext, UNCHANGED slabVars
  PROVE  MemoryInv'
<1>1. BuddyInv /\ SlabInv /\ BuddyInv' /\ Untouched
  BY BuddySteps DEF MemoryInv
<1>2. /\ \A c \in Caches : \A s : SlabBlock(c, s)' <=> SlabBlock(c, s)
      /\ \A t \in Users : th'[t].ret \in Caches => th[t].ret = th'[t].ret
      /\ max_pfn' = max_pfn
  BY <1>1, BuddySeen
<1>3. cache' = cache /\ freelist' = freelist /\ objs' = objs
  BY DEF slabVars
<1>4. ASSUME NEW c \in Caches
      PROVE  CacheFine(c)'
  <2>1. ASSUME NEW s, SlabBlock(c, s)
        PROVE  \A p \in Block(s, SLAB_ORDER) : page'[p].flags = page[p].flags
    <3>1. PICK x \in owned : x = <<s, SLAB_ORDER, c>>
      BY <2>1 DEF SlabBlock
    <3> QED
      BY <1>1, <3>1 DEF Untouched
  <2> QED
    BY <1>1, <1>2, <1>3, <2>1, OthersFine
<1>5. DOMAIN freelist' = DOMAIN page' /\ DOMAIN cache' = Caches
  BY <1>1, <1>2, <1>3 DEF SlabInv, BuddyInv, Core, FlagsInv
<1>6. ObjectInv'
  BY <1>1, <1>2, <1>3 DEF SlabInv, ObjectInv
<1> QED
  BY <1>1, <1>4, <1>5, <1>6 DEF MemoryInv, SlabInv

\* A step of one cache that leaves the buddy allocator alone.
LEMMA SameBuddy ==
  ASSUME BuddyInv, UNCHANGED buddyVars
  PROVE  BuddyInv'
<1>1. UNCHANGED <<max_pfn, todo, managed, free_area, page, nfree, th, owned>>
  BY DEF buddyVars
<1>2. FreeBlocks' = FreeBlocks
  BY <1>1 DEF FreeBlocks
<1>3. FreeOnes' = FreeOnes /\ OwnedOnes' = OwnedOnes /\ HeldOnes' = HeldOnes
  BY <1>1, <1>2 DEF FreeOnes, OwnedOnes, HeldOnes, Holds
<1>4. BlocksInv'
  <2>1. Shared(FreeOnes' \cup OwnedOnes' \cup HeldOnes', managed')
    BY <1>1, <1>3 DEF BuddyInv, Core, BlocksInv
  <2> QED
    BY <2>1 DEF BlocksInv, Shared, Fine, Pgs, Pg
<1>5. FlagsInv'
  BY <1>1 DEF BuddyInv, Core, FlagsInv
<1>6. MergedInv'
  BY <1>1 DEF BuddyInv, Core, MergedInv
<1>7. CountInv'
  BY <1>1, <1>2 DEF BuddyInv, Core, CountInv, Free
<1>8. TodoInv'
  BY <1>1 DEF BuddyInv, Core, TodoInv
<1>9. ThreadInv' /\ OwnedInv'
  BY <1>1 DEF BuddyInv, ThreadInv, OwnedInv
<1> QED
  BY <1>4, <1>5, <1>6, <1>7, <1>8, <1>9 DEF BuddyInv, Core

LEMMA CacheCreated ==
  ASSUME MemoryInv, NEW c \in Caches, kmem_cache_create(c)
  PROVE  MemoryInv'
<1>1. BuddyInv /\ SlabInv /\ CacheFine(c)
  BY DEF MemoryInv, SlabInv
<1>2. /\ ~cache[c].exists /\ cache' = [cache EXCEPT ![c] = NewCache]
      /\ UNCHANGED <<buddyVars, freelist, objs>>
  BY DEF kmem_cache_create
<1>3. UNCHANGED <<page, th, owned>>
  BY <1>2 DEF buddyVars
<1>4. BuddyInv'
  BY <1>1, <1>2, SameBuddy
<1>5. /\ cache'[c] = NewCache /\ DOMAIN cache' = Caches
      /\ \A d \in Caches : d # c => cache'[d] = cache[d]
  BY <1>1, <1>2 DEF SlabInv
<1>6. \A d : \A s : SlabBlock(d, s)' <=> SlabBlock(d, s)
  BY <1>3 DEF SlabBlock
<1>7. CacheFine(c)'
  <2>1. \A s : ~SlabBlock(c, s)'
    BY <1>1, <1>2, <1>6 DEF CacheFine
  <2>2. \A t \in Users : th'[t].ret # c
    BY <1>1, <1>2, <1>3, SlabAssumption DEF CacheFine
  <2>3. /\ DOMAIN NewCache = {"partial", "full", "empty", "lock", "exists"} /\ NewCache.exists
        /\ NewCache.partial = {} /\ NewCache.full = {} /\ NewCache.empty = {}
    BY DEF NewCache
  <2> QED
    BY <1>5, <2>1, <2>2, <2>3 DEF CacheFine
<1>8. ASSUME NEW d \in Caches, d # c
      PROVE  CacheFine(d)'
  BY <1>1, <1>2, <1>3, <1>5, <1>6, <1>8, OthersFine
<1>9. ObjectInv'
  BY <1>1, <1>2, <1>6 DEF SlabInv, ObjectInv
<1>10. DOMAIN freelist' = DOMAIN page'
  BY <1>1, <1>2, <1>3 DEF SlabInv
<1> QED
  BY <1>4, <1>5, <1>7, <1>8, <1>9, <1>10 DEF MemoryInv, SlabInv

LEMMA ObjectTaken ==
  ASSUME MemoryInv, NEW c \in Caches, NEW t \in Users, kmem_cache_alloc(t, c)
  PROVE  MemoryInv'
<1>1. BuddyInv /\ SlabInv /\ CacheFine(c) /\ ObjectInv
  BY DEF MemoryInv, SlabInv
<1>2. UNCHANGED buddyVars /\ UNCHANGED <<page, th, owned>>
  BY DEF kmem_cache_alloc, buddyVars
<1>0. PICK s \in (IF cache[c].partial # {} THEN cache[c].partial ELSE cache[c].empty) :
         \E i \in freelist[s] :
            /\ freelist' = [freelist EXCEPT ![s] = @ \ {i}]
            /\ LET k == [cache[c] EXCEPT !.empty = @ \ {s}] IN
               cache' = [cache EXCEPT ![c] = Taken(k, s, freelist'[s])]
            /\ objs' = objs \cup {<<c, s, i>>}
  BY DEF kmem_cache_alloc
<1>3. PICK i \in freelist[s] :
         /\ freelist' = [freelist EXCEPT ![s] = @ \ {i}]
         /\ LET k == [cache[c] EXCEPT !.empty = @ \ {s}] IN
            cache' = [cache EXCEPT ![c] = Taken(k, s, freelist'[s])]
         /\ objs' = objs \cup {<<c, s, i>>}
  BY <1>0
<1>4. SlabBlock(c, s) /\ SlabFine(c, s)
  BY <1>0, <1>1 DEF CacheFine
<1>5. s \in DOMAIN freelist
  <2>1. PICK x \in owned : x = <<s, SLAB_ORDER, c>>
    BY <1>4 DEF SlabBlock
  <2> QED
    BY <1>1, <2>1, OwnedPage DEF SlabInv
<1>6. freelist'[s] = freelist[s] \ {i} /\ DOMAIN freelist' = DOMAIN freelist
      /\ \A r : r # s /\ r \in DOMAIN freelist => freelist'[r] = freelist[r]
  BY <1>3, <1>5
<1>7. PICK k : k = [cache[c] EXCEPT !.empty = cache[c].empty \ {s}]
  OBVIOUS
<1>8. cache' = [cache EXCEPT ![c] = Taken(k, s, freelist'[s])]
  BY <1>3, <1>7
<1>9. /\ cache'[c] = Taken(k, s, freelist'[s]) /\ DOMAIN cache' = Caches
      /\ \A d \in Caches : d # c => cache'[d] = cache[d]
  BY <1>1, <1>8 DEF SlabInv
<1>10. DOMAIN cache[c] = {"partial", "full", "empty", "lock", "exists"}
  BY <1>1 DEF CacheFine
<1>11. /\ DOMAIN k = {"partial", "full", "empty", "lock", "exists"}
       /\ k.partial = cache[c].partial /\ k.full = cache[c].full /\ k.empty = cache[c].empty \ {s}
       /\ k.lock = cache[c].lock /\ k.exists = cache[c].exists
  BY <1>7, <1>10
<1>12. /\ DOMAIN cache'[c] = {"partial", "full", "empty", "lock", "exists"}
       /\ cache'[c].lock = cache[c].lock /\ cache'[c].exists = cache[c].exists
       /\ cache'[c].empty = cache[c].empty \ {s}
       /\ freelist'[s] = {} => /\ cache'[c].partial = cache[c].partial \ {s}
                               /\ cache'[c].full = cache[c].full \cup {s}
       /\ freelist'[s] # {} => /\ cache'[c].partial = cache[c].partial \cup {s}
                               /\ cache'[c].full = cache[c].full
  <2>1. CASE freelist'[s] = {}
    <3>1. cache'[c] = [k EXCEPT !.partial = k.partial \ {s}, !.full = k.full \cup {s}]
      BY <1>9, <2>1 DEF Taken
    <3> QED
      BY <1>11, <2>1, <3>1
  <2>2. CASE freelist'[s] # {}
    <3>1. cache'[c] = [k EXCEPT !.partial = k.partial \cup {s}]
      BY <1>9, <2>2 DEF Taken
    <3> QED
      BY <1>11, <2>2, <3>1
  <2> QED
    BY <2>1, <2>2
<1>13. i \in Objects /\ s \notin cache[c].full
  BY <1>3, <1>4 DEF SlabFine
<1>14. \A d : \A r : SlabBlock(d, r)' <=> SlabBlock(d, r)
  BY <1>2 DEF SlabBlock
<1>15. SlabFine(c, s)'
  <2>1. \A j \in freelist'[s] : j \in Objects /\ <<c, s, j>> \notin objs'
    BY <1>3, <1>4, <1>6 DEF SlabFine
  <2>2. \A j \in Objects : j \in freelist'[s] \/ <<c, s, j>> \in objs'
    BY <1>3, <1>4, <1>6 DEF SlabFine
  <2>3. s \in cache'[c].full <=> freelist'[s] = {}
    BY <1>12, <1>13
  <2>4. s \in cache'[c].empty <=> freelist'[s] = Objects
    BY <1>6, <1>12, <1>13
  <2>5. s \in cache'[c].partial => s \notin cache'[c].full \cup cache'[c].empty
    BY <1>12, <1>13
  <2>6. \A p \in Block(s, SLAB_ORDER) : "SLAB" \in page'[p].flags
    BY <1>2, <1>4 DEF SlabFine
  <2> QED
    BY <2>1, <2>2, <2>3, <2>4, <2>5, <2>6 DEF SlabFine
<1>16. ASSUME NEW d, NEW r, SlabBlock(d, r), r # s
       PROVE  freelist'[r] = freelist[r]
  <2>1. PICK x \in owned : x = <<r, SLAB_ORDER, d>>
    BY <1>16 DEF SlabBlock
  <2>2. r \in DOMAIN freelist
    BY <1>1, <2>1, OwnedPage DEF SlabInv
  <2> QED
    BY <1>6, <1>16, <2>2
<1>17. CacheFine(c)'
  <2>1. ASSUME NEW r, SlabBlock(c, r)', r # s
        PROVE  SlabFine(c, r)'
    <3>1. SlabBlock(c, r) /\ SlabFine(c, r)
      BY <1>1, <1>14, <2>1 DEF CacheFine
    <3>2. freelist'[r] = freelist[r]
      BY <1>16, <2>1, <3>1
    <3>3. \A j : <<c, r, j>> \in objs' <=> <<c, r, j>> \in objs
      BY <1>3, <2>1
    <3>4. /\ r \in cache'[c].full <=> r \in cache[c].full
          /\ r \in cache'[c].empty <=> r \in cache[c].empty
          /\ r \in cache'[c].partial <=> r \in cache[c].partial
      BY <1>12, <2>1
    <3>5. \A p \in Block(r, SLAB_ORDER) : page'[p].flags = page[p].flags
      BY <1>2
    <3> QED
      BY <3>1, <3>2, <3>3, <3>4, <3>5, OthersOf
  <2>2. \A r : SlabBlock(c, r)' => SlabFine(c, r)' /\ cache'[c].exists
    BY <1>1, <1>12, <1>14, <1>15, <2>1 DEF CacheFine
  <2>3. \A r : r \in cache'[c].partial \cup cache'[c].full \cup cache'[c].empty <=> SlabBlock(c, r)'
    BY <1>1, <1>4, <1>12, <1>14 DEF CacheFine
  <2>4. \A x, y \in cache'[c].empty : x = y
    BY <1>1, <1>12 DEF CacheFine
  <2>5. cache'[c].exists \/ cache'[c].lock = Nobody
    BY <1>1, <1>12 DEF CacheFine
  <2>6. \A u \in Users : th'[u].ret = c => cache'[c].lock = u
    BY <1>1, <1>2, <1>12 DEF CacheFine
  <2> QED
    BY <1>12, <2>2, <2>3, <2>4, <2>5, <2>6 DEF CacheFine
<1>18. ASSUME NEW d \in Caches, d # c
       PROVE  CacheFine(d)'
  <2>1. ASSUME NEW r, SlabBlock(d, r)
        PROVE  r # s
    <3>1. PICK x \in owned : x = <<r, SLAB_ORDER, d>>
      BY <2>1 DEF SlabBlock
    <3>2. PICK y \in owned : y = <<s, SLAB_ORDER, c>>
      BY <1>4 DEF SlabBlock
    <3>3. x # y
      BY <1>18, <3>1, <3>2
    <3> QED
      BY <1>1, <3>1, <3>2, <3>3, OneOwner
  <2>2. ASSUME NEW r, SlabBlock(d, r)
        PROVE  /\ freelist'[r] = freelist[r]
               /\ \A j : <<d, r, j>> \in objs' <=> <<d, r, j>> \in objs
               /\ \A p \in Block(r, SLAB_ORDER) : page'[p].flags = page[p].flags
    BY <1>2, <1>3, <1>16, <1>18, <2>1, <2>2
  <2> QED
    BY <1>1, <1>2, <1>9, <1>14, <1>18, <2>2, OthersFine
<1>19. ObjectInv'
  <2>1. PICK o : o = <<c, s, i>>
    OBVIOUS
  <2>2. o = <<o[1], o[2], o[3]>> /\ o[1] \in Caches /\ o[3] \in Objects /\ SlabBlock(o[1], o[2])'
    BY <1>4, <1>13, <1>14, <2>1
  <2>3. objs' = objs \cup {o}
    BY <1>3, <2>1
  <2> QED
    BY <1>1, <1>14, <2>2, <2>3 DEF ObjectInv
<1>20. BuddyInv'
  BY <1>1, <1>2, SameBuddy
<1>21. DOMAIN freelist' = DOMAIN page'
  BY <1>1, <1>2, <1>6 DEF SlabInv
<1> QED
  BY <1>9, <1>17, <1>18, <1>19, <1>20, <1>21 DEF MemoryInv, SlabInv

\* What a step about slab s of cache c leaves of another cache.
LEMMA OtherCaches ==
  ASSUME SlabInv, BuddyInv, NEW c \in Caches, NEW s, NEW d \in Caches, d # c, cache'[d] = cache[d],
         \A r : r # s /\ r \in DOMAIN freelist => freelist'[r] = freelist[r],
         \A r : \A j : <<d, r, j>> \in objs' <=> <<d, r, j>> \in objs,
         \A r : SlabBlock(d, r)' <=> SlabBlock(d, r),
         \A u \in Users : th'[u].ret = d => th[u].ret = d,
         \A r : SlabBlock(d, r) =>
            r # s /\ \A p \in Block(r, SLAB_ORDER) : page'[p].flags = page[p].flags
  PROVE  CacheFine(d)'
<1>1. ASSUME NEW r, SlabBlock(d, r)
      PROVE  freelist'[r] = freelist[r]
  <2>1. PICK x \in owned : x = <<r, SLAB_ORDER, d>>
    BY <1>1 DEF SlabBlock
  <2>2. r \in DOMAIN freelist
    BY <2>1, OwnedPage DEF SlabInv
  <2> QED
    BY <1>1, <2>2
<1> QED
  BY <1>1, OthersFine

\* A step that changes the lock of one cache only.
LocksOnly(c, l) ==
    /\ cache' = [cache EXCEPT ![c].lock = l] /\ UNCHANGED <<freelist, objs, owned>>
    /\ \A d \in Caches : \A r : SlabBlock(d, r) =>
          \A p \in Block(r, SLAB_ORDER) : page'[p].flags = page[p].flags
    /\ DOMAIN page' = DOMAIN page
    /\ cache[c].exists \/ l = Nobody
    /\ \A u \in Users : th'[u].ret = c => l = u
    /\ \A d \in Caches : \A u \in Users : d # c /\ th'[u].ret = d => th[u].ret = d

LEMMA LockOnly ==
  ASSUME SlabInv, NEW c \in Caches, NEW l, LocksOnly(c, l)
  PROVE  SlabInv'
<1> USE DEF LocksOnly
<1>1. CacheFine(c) /\ ObjectInv
  BY DEF SlabInv
<1>2. DOMAIN cache' = Caches /\ \A d \in Caches : d # c => cache'[d] = cache[d]
  BY DEF SlabInv
<1>3. \A d \in Caches : \A r : SlabBlock(d, r)' <=> SlabBlock(d, r)
  BY DEF SlabBlock
<1>4. cache'[c] = [cache[c] EXCEPT !.lock = l] /\ DOMAIN cache[c] = {"partial", "full", "empty", "lock", "exists"}
  BY <1>1 DEF SlabInv, CacheFine
<1>5. /\ DOMAIN cache'[c] = {"partial", "full", "empty", "lock", "exists"}
      /\ cache'[c].partial = cache[c].partial /\ cache'[c].full = cache[c].full
      /\ cache'[c].empty = cache[c].empty /\ cache'[c].exists = cache[c].exists /\ cache'[c].lock = l
  BY <1>4
<1>6. ASSUME NEW s, SlabBlock(c, s)
      PROVE  SlabFine(c, s)'
  <2>1. SlabFine(c, s) /\ \A p \in Block(s, SLAB_ORDER) : page'[p].flags = page[p].flags
    BY <1>1, <1>6 DEF CacheFine
  <2> QED
    BY <1>5, <2>1, OthersOf
<1>7. CacheFine(c)'
  BY <1>1, <1>3, <1>5, <1>6 DEF CacheFine
<1>8. ASSUME NEW d \in Caches, d # c
      PROVE  CacheFine(d)'
  BY <1>2, <1>3, <1>8, OthersFine
<1>9. ObjectInv'
  BY <1>1, <1>3 DEF ObjectInv
<1> QED
  BY <1>2, <1>7, <1>8, <1>9 DEF SlabInv

LEMMA SlabAsked ==
  ASSUME MemoryInv, NEW c \in Caches, NEW t \in Users, AllocSlab(t, c)
  PROVE  MemoryInv'
<1>1. BuddyInv /\ SlabInv /\ CacheFine(c) /\ ThreadInv
  BY DEF MemoryInv, SlabInv, BuddyInv
<1>2. /\ th[t].pc = "idle" /\ cache[c].exists /\ cache[c].lock = Nobody
      /\ cache' = [cache EXCEPT ![c].lock = t] /\ BeginAlloc(t, SLAB_ORDER, ZONE_NORMAL, c)
      /\ UNCHANGED <<max_pfn, todo, managed, free_area, page, nfree, owned, freelist, objs>>
  BY DEF AllocSlab, Ready
<1>3. BuddyInv'
  <2>1. SLAB_ORDER \in Orders /\ ZONE_NORMAL \in Zones /\ c \in Caches \cup {"user"}
    BY SlabAssumption DEF Zones
  <2> QED
    BY <1>1, <1>2, <2>1, BeginsAlloc
<1>4. \A u \in Users : th'[u].ret = IF u = t THEN c ELSE th[u].ret
  BY <1>1, <1>2 DEF BeginAlloc, ThreadInv
<1>5. \A u \in Users : th[u].ret # c
  BY <1>1, <1>2, SlabAssumption DEF CacheFine
<1>6. \A u \in Users : th'[u].ret = c => t = u
  BY <1>4, <1>5
<1>7. \A d \in Caches : \A u \in Users : d # c /\ th'[u].ret = d => th[u].ret = d
  BY <1>4
<1>8. SlabInv'
  <2>1. \A d \in Caches : \A r : SlabBlock(d, r) =>
            \A p \in Block(r, SLAB_ORDER) : page'[p].flags = page[p].flags
    BY <1>2
  <2>2. LocksOnly(c, t)
    BY <1>2, <1>6, <1>7, <2>1 DEF LocksOnly
  <2> QED
    BY <1>1, <2>2, LockOnly
<1> QED
  BY <1>3, <1>8 DEF MemoryInv

LEMMA SlabRefused ==
  ASSUME MemoryInv, NEW c \in Caches, NEW t \in Users, NewSlabFails(t, c)
  PROVE  MemoryInv'
<1>1. BuddyInv /\ SlabInv /\ CacheFine(c) /\ ThreadInv /\ FlagsInv
  BY DEF MemoryInv, SlabInv, BuddyInv, Core
<1>2. /\ th[t].pc = "null" /\ th[t].ret = c
      /\ cache' = [cache EXCEPT ![c].lock = Nobody] /\ th' = [th EXCEPT ![t] = NoCall]
      /\ UNCHANGED <<max_pfn, todo, managed, free_area, page, nfree, owned, freelist, objs>>
  BY DEF NewSlabFails
<1>3. BuddyInv'
  <2>1. Hand(t, NoCall) = Hand(t, th[t]) /\ NoCall.pc # "got"
    BY <1>2 DEF Hand, HoldPcs, NoCall
  <2>2. SameFree(page') /\ \A q \in DOMAIN page : page'[q].order = page[q].order
    BY <1>1, <1>2, SamePages
  <2> QED
    BY <1>1, <1>2, <2>1, <2>2, NoCallRow, Quiet
<1>4. \A u \in Users : th'[u].ret = IF u = t THEN "user" ELSE th[u].ret
  BY <1>1, <1>2 DEF ThreadInv, NoCall
<1>5. \A u \in Users : u # t => th[u].ret # c
  BY <1>1, <1>2 DEF CacheFine
<1>6. \A u \in Users : th'[u].ret # c
  BY <1>4, <1>5, SlabAssumption
<1>7. \A d \in Caches : \A u \in Users : d # c /\ th'[u].ret = d => th[u].ret = d
  BY <1>4, SlabAssumption
<1>8. SlabInv'
  <2>1. \A d \in Caches : \A r : SlabBlock(d, r) =>
            \A p \in Block(r, SLAB_ORDER) : page'[p].flags = page[p].flags
    BY <1>2
  <2>2. LocksOnly(c, Nobody)
    BY <1>2, <1>6, <1>7, <2>1 DEF LocksOnly
  <2> QED
    BY <1>1, <2>2, LockOnly
<1> QED
  BY <1>3, <1>8 DEF MemoryInv

LEMMA SlabGivenBack ==
  ASSUME MemoryInv, NEW c \in Caches, NEW t \in Users, SlabReturned(t, c)
  PROVE  MemoryInv'
<1>1. BuddyInv /\ SlabInv /\ CacheFine(c) /\ ThreadInv /\ ReturnBlock(t, c)
  BY DEF MemoryInv, SlabInv, BuddyInv, SlabReturned
<1>2. /\ BuddyInv'
      /\ \A x \in owned : \A q \in Block(x[1], x[2]) : page'[q] = page[q]
  BY <1>1, Returned
<1>3. /\ cache' = [cache EXCEPT ![c].lock = Nobody] /\ UNCHANGED <<freelist, objs>>
      /\ th[t].ret = c /\ th' = [th EXCEPT ![t] = NoCall] /\ UNCHANGED <<owned, max_pfn>>
  BY DEF SlabReturned, ReturnBlock
<1>4. \A u \in Users : th'[u].ret = IF u = t THEN "user" ELSE th[u].ret
  BY <1>1, <1>3 DEF ThreadInv, NoCall
<1>5. \A u \in Users : u # t => th[u].ret # c
  BY <1>1, <1>3 DEF CacheFine
<1>6. \A u \in Users : th'[u].ret # c
  BY <1>4, <1>5, SlabAssumption
<1>7. \A d \in Caches : \A u \in Users : d # c /\ th'[u].ret = d => th[u].ret = d
  BY <1>4, SlabAssumption
<1>8. ASSUME NEW d \in Caches, NEW r, SlabBlock(d, r)
      PROVE  \A p \in Block(r, SLAB_ORDER) : page'[p].flags = page[p].flags
  <2>1. PICK x \in owned : x = <<r, SLAB_ORDER, d>>
    BY <1>8 DEF SlabBlock
  <2> QED
    BY <1>2, <2>1
<1>9. DOMAIN page' = DOMAIN page
  BY <1>1, <1>2, <1>3 DEF BuddyInv, Core, FlagsInv
<1>10. SlabInv'
  <2>1. LocksOnly(c, Nobody)
    BY <1>3, <1>6, <1>7, <1>8, <1>9 DEF LocksOnly
  <2> QED
    BY <1>1, <2>1, LockOnly
<1> QED
  BY <1>2, <1>10 DEF MemoryInv

LEMMA InUse ==
  ASSUME NEW F \in SUBSET Objects, NEW i \in Objects, i \notin F
  PROVE  /\ OBJS - Cardinality(F) > 1 => F \cup {i} # Objects
         /\ OBJS - Cardinality(F) = 1 => F \cup {i} = Objects
<1>1. IsFiniteSet(Objects) /\ Cardinality(Objects) = OBJS /\ OBJS \in Nat \ {0}
  <2>1. OBJS \in Nat \ {0} /\ 0 \in Int /\ OBJS - 1 \in Int
    BY SlabAssumption
  <2>2. IsFiniteSet(0 .. OBJS - 1) /\ Cardinality(0 .. OBJS - 1) = IF 0 > OBJS - 1 THEN 0 ELSE (OBJS - 1) - 0 + 1
    BY <2>1, FS_Interval
  <2> QED
    BY <2>1, <2>2 DEF Objects
<1>2. IsFiniteSet(F) /\ Cardinality(F) \in Nat
  BY <1>1, FS_Subset, FS_CardinalityType
<1>3. IsFiniteSet(F \cup {i}) /\ Cardinality(F \cup {i}) = Cardinality(F) + 1
  BY <1>2, FS_AddElement
<1>4. F \cup {i} \in SUBSET Objects
  OBVIOUS
<1>5. Cardinality(Objects) = Cardinality(F \cup {i}) => Objects = F \cup {i}
  BY <1>1, <1>4, FS_Subset
<1> QED
  BY <1>1, <1>2, <1>3, <1>5

\* Pages of a block that changes hands, and those of the slabs.
LEMMA MarkedElsewhere ==
  ASSUME BuddyInv, NEW s, NEW slab \in BOOLEAN, page' = MarkSlab(s, slab), NEW x \in owned,
         Block(x[1], x[2]) \cap Block(s, SLAB_ORDER) = {}
  PROVE  \A p \in Block(x[1], x[2]) : page'[p].flags = page[p].flags
<1>1. FlagsInv
  BY DEF BuddyInv, Core
<1>2. Block(x[1], x[2]) \subseteq DOMAIN page
  BY OwnedPage
<1>3. \A q \in DOMAIN page \ Block(s, SLAB_ORDER) : page'[q] = page[q]
  BY <1>1, Marked
<1> QED
  BY <1>2, <1>3

LEMMA SlabMade ==
  ASSUME MemoryInv, NEW c \in Caches, NEW t \in Users, NewSlab(t, c)
  PROVE  MemoryInv'
<1>1. BuddyInv /\ SlabInv /\ CacheFine(c) /\ ObjectInv /\ ThreadInv /\ FlagsInv /\ Core
  BY DEF MemoryInv, SlabInv, BuddyInv, Core
<1>2. PICK s : s = th[t].pfn
  OBVIOUS
<1>3. /\ th[t].pc = "got" /\ th[t].ret = c /\ page' = MarkSlab(s, TRUE)
      /\ owned' = owned \cup {<<s, SLAB_ORDER, c>>}
      /\ freelist' = [freelist EXCEPT ![s] = Objects \ {0}]
      /\ cache' = [cache EXCEPT ![c] = [Taken(@, s, freelist'[s]) EXCEPT !.lock = Nobody]]
      /\ objs' = objs \cup {<<c, s, 0>>} /\ th' = [th EXCEPT ![t] = NoCall]
      /\ UNCHANGED <<max_pfn, todo, managed, free_area, nfree>>
  BY <1>2 DEF NewSlab
<1>4. th[t].order = SLAB_ORDER /\ Holds(t) /\ cache[c].lock = t /\ cache[c].exists
  BY <1>1, <1>3, SlabAssumption DEF ThreadInv, CacheFine, Holds
<1>5. /\ SameFree(page') /\ \A q \in DOMAIN page : page'[q].order = page[q].order
      /\ \A q \in DOMAIN page \cap Block(s, SLAB_ORDER) : "SLAB" \in page'[q].flags
  BY <1>1, <1>3, Marked
<1>6. BuddyInv'
  <2>1. c \in Caches \cup {"user"} /\ owned' = owned \cup {<<th[t].pfn, th[t].order, c>>}
    BY <1>2, <1>3, <1>4
  <2> QED
    BY <1>1, <1>3, <1>4, <1>5, <2>1, Gives
<1>7. s \in DOMAIN page /\ Block(s, SLAB_ORDER) \subseteq DOMAIN page
  <2>1. PICK b : b = <<th[t].pfn, th[t].order, "held", t>>
    OBVIOUS
  <2>2. b \in HeldOnes /\ b[1] = s /\ Pg(b) = Block(s, SLAB_ORDER)
    BY <1>2, <1>4, <2>1, HeldOne DEF Pg
  <2> QED
    BY <1>1, <2>2, Separate
<1>8. \A x \in owned : x[1] # s /\ Block(x[1], x[2]) \cap Block(s, SLAB_ORDER) = {}
  BY <1>1, <1>2, <1>4, OneOwner
<1>9. ASSUME NEW d, NEW r, SlabBlock(d, r)
      PROVE  /\ r # s /\ r \in DOMAIN freelist
             /\ \A p \in Block(r, SLAB_ORDER) : page'[p].flags = page[p].flags
  <2>1. PICK x \in owned : x = <<r, SLAB_ORDER, d>>
    BY <1>9 DEF SlabBlock
  <2>2. r \in DOMAIN page
    BY <1>1, <2>1, OwnedPage
  <2> QED
    BY <1>1, <1>3, <1>8, <2>1, <2>2, MarkedElsewhere DEF SlabInv
<1>10. /\ freelist'[s] = Objects \ {0} /\ DOMAIN freelist' = DOMAIN freelist
       /\ \A r : r # s /\ r \in DOMAIN freelist => freelist'[r] = freelist[r]
  BY <1>1, <1>3, <1>7 DEF SlabInv
<1>11. PICK k : k = cache[c]
  OBVIOUS
<1>12. cache' = [cache EXCEPT ![c] = [Taken(k, s, freelist'[s]) EXCEPT !.lock = Nobody]]
  BY <1>3, <1>11
<1>13. /\ cache'[c] = [Taken(k, s, freelist'[s]) EXCEPT !.lock = Nobody] /\ DOMAIN cache' = Caches
       /\ \A d \in Caches : d # c => cache'[d] = cache[d]
  BY <1>1, <1>12 DEF SlabInv
<1>14. DOMAIN k = {"partial", "full", "empty", "lock", "exists"}
  BY <1>1, <1>11 DEF CacheFine
<1>15. ~SlabBlock(c, s) /\ s \notin cache[c].partial \cup cache[c].full \cup cache[c].empty
  BY <1>1, <1>9 DEF CacheFine
<1>16. /\ DOMAIN cache'[c] = {"partial", "full", "empty", "lock", "exists"}
       /\ cache'[c].lock = Nobody /\ cache'[c].exists = cache[c].exists
       /\ cache'[c].empty = cache[c].empty
       /\ freelist'[s] = {} => /\ cache'[c].partial = cache[c].partial
                               /\ cache'[c].full = cache[c].full \cup {s}
       /\ freelist'[s] # {} => /\ cache'[c].partial = cache[c].partial \cup {s}
                               /\ cache'[c].full = cache[c].full
  <2>1. CASE freelist'[s] = {}
    <3>1. PICK j : j = [k EXCEPT !.partial = k.partial \ {s}, !.full = k.full \cup {s}]
      OBVIOUS
    <3>2. cache'[c] = [j EXCEPT !.lock = Nobody]
      BY <1>13, <2>1, <3>1 DEF Taken
    <3>3. /\ DOMAIN j = DOMAIN k /\ j.partial = k.partial \ {s} /\ j.full = k.full \cup {s}
          /\ j.empty = k.empty /\ j.exists = k.exists
      BY <1>14, <3>1
    <3> QED
      BY <1>11, <1>14, <1>15, <2>1, <3>2, <3>3
  <2>2. CASE freelist'[s] # {}
    <3>1. PICK j : j = [k EXCEPT !.partial = k.partial \cup {s}]
      OBVIOUS
    <3>2. cache'[c] = [j EXCEPT !.lock = Nobody]
      BY <1>13, <2>2, <3>1 DEF Taken
    <3>3. /\ DOMAIN j = DOMAIN k /\ j.partial = k.partial \cup {s} /\ j.full = k.full
          /\ j.empty = k.empty /\ j.exists = k.exists
      BY <1>14, <3>1
    <3> QED
      BY <1>11, <1>14, <2>2, <3>2, <3>3
  <2> QED
    BY <2>1, <2>2
<1>17. \A d : \A r : SlabBlock(d, r)' <=> SlabBlock(d, r) \/ (d = c /\ r = s)
  BY <1>3 DEF SlabBlock
<1>18. 0 \in Objects
  BY SlabAssumption DEF Objects
<1>19. \A j : <<c, s, j>> \notin objs
  <2> SUFFICES ASSUME NEW j, <<c, s, j>> \in objs
               PROVE  FALSE
    OBVIOUS
  <2>1. PICK o \in objs : o = <<c, s, j>>
    OBVIOUS
  <2>2. SlabBlock(c, s)
    BY <1>1, <2>1 DEF ObjectInv
  <2> QED
    BY <1>15, <2>2
<1>20. SlabFine(c, s)'
  <2>1. \A j \in freelist'[s] : j \in Objects /\ <<c, s, j>> \notin objs'
    BY <1>3, <1>10, <1>19
  <2>2. \A j \in Objects : j \in freelist'[s] \/ <<c, s, j>> \in objs'
    BY <1>3, <1>10
  <2>3. s \in cache'[c].full <=> freelist'[s] = {}
    BY <1>15, <1>16
  <2>4. s \in cache'[c].empty <=> freelist'[s] = Objects
    BY <1>10, <1>15, <1>16, <1>18
  <2>5. s \in cache'[c].partial => s \notin cache'[c].full \cup cache'[c].empty
    BY <1>15, <1>16
  <2>6. \A p \in Block(s, SLAB_ORDER) : "SLAB" \in page'[p].flags
    BY <1>5, <1>7
  <2> QED
    BY <2>1, <2>2, <2>3, <2>4, <2>5, <2>6 DEF SlabFine
<1>21. \A u \in Users : th'[u].ret = IF u = t THEN "user" ELSE th[u].ret
  BY <1>1, <1>3 DEF ThreadInv, NoCall
<1>22. CacheFine(c)'
  <2>1. ASSUME NEW r, SlabBlock(c, r)
        PROVE  SlabFine(c, r)'
    <3>1. SlabFine(c, r) /\ r # s /\ freelist'[r] = freelist[r]
      BY <1>1, <1>9, <1>10, <2>1 DEF CacheFine
    <3>2. \A j : <<c, r, j>> \in objs' <=> <<c, r, j>> \in objs
      BY <1>3, <3>1
    <3>3. /\ r \in cache'[c].full <=> r \in cache[c].full
          /\ r \in cache'[c].empty <=> r \in cache[c].empty
          /\ r \in cache'[c].partial <=> r \in cache[c].partial
      BY <1>16, <3>1
    <3>4. \A p \in Block(r, SLAB_ORDER) : page'[p].flags = page[p].flags
      BY <1>9, <2>1
    <3> QED
      BY <3>1, <3>2, <3>3, <3>4, OthersOf
  <2>2. \A r : SlabBlock(c, r)' => SlabFine(c, r)' /\ cache'[c].exists
    BY <1>4, <1>16, <1>17, <1>20, <2>1
  <2>3. \A r : r \in cache'[c].partial \cup cache'[c].full \cup cache'[c].empty <=> SlabBlock(c, r)'
    <3>1. \A r : r \in cache'[c].partial \cup cache'[c].full \cup cache'[c].empty
                   <=> r \in cache[c].partial \cup cache[c].full \cup cache[c].empty \/ r = s
      BY <1>16
    <3> QED
      BY <1>1, <1>17, <3>1 DEF CacheFine
  <2>4. \A x, y \in cache'[c].empty : x = y
    BY <1>1, <1>16 DEF CacheFine
  <2>5. \A u \in Users : th'[u].ret = c => cache'[c].lock = u
    <3>1. \A u \in Users : th[u].ret = c => u = t
      BY <1>1, <1>4 DEF CacheFine
    <3> QED
      BY <1>21, <3>1, SlabAssumption
  <2> QED
    BY <1>16, <2>2, <2>3, <2>4, <2>5 DEF CacheFine
<1>23. ASSUME NEW d \in Caches, d # c
       PROVE  CacheFine(d)'
  <2>1. \A r : \A j : <<d, r, j>> \in objs' <=> <<d, r, j>> \in objs
    BY <1>3, <1>23
  <2>2. \A r : SlabBlock(d, r)' <=> SlabBlock(d, r)
    BY <1>17, <1>23
  <2>3. \A u \in Users : th'[u].ret = d => th[u].ret = d
    BY <1>21, SlabAssumption
  <2>4. \A r : SlabBlock(d, r) =>
            r # s /\ \A p \in Block(r, SLAB_ORDER) : page'[p].flags = page[p].flags
    BY <1>9
  <2> QED
    BY <1>1, <1>10, <1>13, <1>23, <2>1, <2>2, <2>3, <2>4, OtherCaches
<1>24. ObjectInv'
  <2>1. PICK o : o = <<c, s, 0>>
    OBVIOUS
  <2>2. o = <<o[1], o[2], o[3]>> /\ o[1] \in Caches /\ o[3] \in Objects /\ SlabBlock(o[1], o[2])'
    BY <1>17, <1>18, <2>1
  <2>3. objs' = objs \cup {o}
    BY <1>3, <2>1
  <2> QED
    BY <1>1, <1>17, <2>2, <2>3 DEF ObjectInv
<1>25. DOMAIN freelist' = DOMAIN page'
  BY <1>1, <1>5, <1>10 DEF SlabInv, SameFree
<1> QED
  BY <1>6, <1>13, <1>22, <1>23, <1>24, <1>25 DEF MemoryInv, SlabInv

LEMMA SlabLeaves ==
  ASSUME BuddyInv, SlabInv, NEW c \in Caches, NEW t \in Users, th[t].pc = "idle",
         NEW s, SlabBlock(c, s), NEW ret \in Caches \cup {"user"}, FreeSlabPages(t, c, s, ret),
         UNCHANGED <<max_pfn, todo, managed, free_area, nfree>>
  PROVE  /\ BuddyInv' /\ DOMAIN page' = DOMAIN page /\ DOMAIN freelist' = DOMAIN freelist
         /\ \A d : \A r : SlabBlock(d, r)' <=> SlabBlock(d, r) /\ ~(d = c /\ r = s)
         /\ \A r : r # s /\ r \in DOMAIN freelist => freelist'[r] = freelist[r]
         /\ \A d : \A r : SlabBlock(d, r) /\ ~(d = c /\ r = s) =>
               /\ r # s /\ r \in DOMAIN freelist
               /\ \A p \in Block(r, SLAB_ORDER) : page'[p].flags = page[p].flags
         /\ \A u \in Users : th'[u].ret = IF u = t THEN ret ELSE th[u].ret
<1>1. FlagsInv /\ ThreadInv /\ DOMAIN th = Users /\ DOMAIN freelist = DOMAIN page
  BY DEF BuddyInv, Core, ThreadInv, SlabInv
<1>2. PICK x \in owned : x = <<s, SLAB_ORDER, c>>
  BY DEF SlabBlock
<1>3. PICK r : r = [NoCall EXCEPT !.pc = "free", !.pfn = s, !.order = SLAB_ORDER, !.ret = ret]
  OBVIOUS
<1>4. /\ page' = MarkSlab(s, FALSE) /\ owned' = owned \ {x} /\ th' = [th EXCEPT ![t] = r]
      /\ freelist' = [freelist EXCEPT ![s] = {}]
  BY <1>2, <1>3 DEF FreeSlabPages
<1>5. /\ r.pc = "free" /\ r.pfn = s /\ r.order = SLAB_ORDER /\ r.ret = ret /\ r.zone = 0
      /\ DOMAIN r = {"pc", "order", "zone", "pfn", "ret"}
  BY <1>3 DEF NoCall
<1>6. Row(r)
  BY <1>5, SlabAssumption DEF Row, Zones, ZONE_DMA32
<1>7. SameFree(page') /\ \A q \in DOMAIN page : page'[q].order = page[q].order
  BY <1>1, <1>4, Marked
<1>8. BuddyInv'
  <2>1. ~Holds(t) /\ r.pfn = x[1] /\ r.order = x[2]
    BY <1>2, <1>5 DEF Holds
  <2> QED
    BY <1>4, <1>5, <1>6, <1>7, <2>1, Takes
<1>9. \A d : \A q : SlabBlock(d, q)' <=> SlabBlock(d, q) /\ ~(d = c /\ q = s)
  BY <1>2, <1>4 DEF SlabBlock
<1>10. ASSUME NEW d, NEW q, SlabBlock(d, q), ~(d = c /\ q = s)
       PROVE  /\ q # s /\ q \in DOMAIN freelist
              /\ \A p \in Block(q, SLAB_ORDER) : page'[p].flags = page[p].flags
  <2>1. PICK y \in owned : y = <<q, SLAB_ORDER, d>>
    BY <1>10 DEF SlabBlock
  <2>2. y # x
    BY <1>2, <1>10, <2>1
  <2>3. y[1] # x[1] /\ Block(y[1], y[2]) \cap Block(x[1], x[2]) = {}
    BY <2>2, OneOwner
  <2>4. q \in DOMAIN page
    BY <2>1, OwnedPage
  <2>5. \A p \in Block(y[1], y[2]) : page'[p].flags = page[p].flags
    BY <1>2, <1>4, <2>3, MarkedElsewhere
  <2> QED
    BY <1>1, <1>2, <2>1, <2>3, <2>4, <2>5
<1>11. /\ DOMAIN freelist' = DOMAIN freelist
       /\ \A q : q # s /\ q \in DOMAIN freelist => freelist'[q] = freelist[q]
  BY <1>4
<1>12. \A u \in Users : th'[u].ret = IF u = t THEN ret ELSE th[u].ret
  BY <1>1, <1>4, <1>5
<1>13. DOMAIN page' = DOMAIN page
  BY <1>7 DEF SameFree
<1> QED
  BY <1>8, <1>9, <1>10, <1>11, <1>12, <1>13

LEMMA CacheDestroyed ==
  ASSUME MemoryInv, NEW c \in Caches, NEW t \in Users, kmem_cache_destroy(t, c)
  PROVE  MemoryInv'
<1>1. BuddyInv /\ SlabInv /\ CacheFine(c) /\ ObjectInv /\ ThreadInv
  BY DEF MemoryInv, SlabInv, BuddyInv
<1>2. /\ th[t].pc = "idle" /\ cache[c].exists /\ cache[c].lock = Nobody
      /\ \A o \in objs : o[1] # c
      /\ cache' = [cache EXCEPT ![c] = [@ EXCEPT !.empty = {}, !.exists = FALSE]]
      /\ UNCHANGED <<max_pfn, todo, managed, free_area, nfree, objs>>
  BY DEF kmem_cache_destroy, Ready
<1>3. DOMAIN cache[c] = {"partial", "full", "empty", "lock", "exists"}
  BY <1>1 DEF CacheFine
<1>4. PICK k : k = [cache[c] EXCEPT !.empty = {}, !.exists = FALSE]
  OBVIOUS
<1>5. /\ cache' = [cache EXCEPT ![c] = k] /\ DOMAIN k = {"partial", "full", "empty", "lock", "exists"}
      /\ k.partial = cache[c].partial /\ k.full = cache[c].full /\ k.empty = {}
      /\ k.lock = Nobody /\ ~k.exists
  BY <1>2, <1>3, <1>4
<1>6. /\ cache'[c] = k /\ DOMAIN cache' = Caches
      /\ \A d \in Caches : d # c => cache'[d] = cache[d]
  BY <1>1, <1>5 DEF SlabInv
<1>7. ASSUME NEW s, SlabBlock(c, s)
      PROVE  s \in cache[c].empty /\ s \notin cache[c].partial /\ s \notin cache[c].full
  <2>1. SlabFine(c, s)
    BY <1>1, <1>7 DEF CacheFine
  <2>2. \A i : <<c, s, i>> \notin objs
    <3> SUFFICES ASSUME NEW i, <<c, s, i>> \in objs
                 PROVE  FALSE
      OBVIOUS
    <3>1. PICK o \in objs : o = <<c, s, i>>
      OBVIOUS
    <3> QED
      BY <1>2, <3>1
  <2>3. freelist[s] = Objects
    BY <2>1, <2>2 DEF SlabFine
  <2>4. Objects # {}
    BY SlabAssumption DEF Objects
  <2> QED
    BY <2>1, <2>3, <2>4 DEF SlabFine
<1>8. \A u \in Users : th[u].ret # c
  BY <1>1, <1>2, SlabAssumption DEF CacheFine
<1>9. cache[c].partial = {} /\ cache[c].full = {}
  BY <1>1, <1>7 DEF CacheFine
<1>10. ASSUME \A r : ~SlabBlock(c, r)', \A u \in Users : th'[u].ret # c
       PROVE  CacheFine(c)'
  BY <1>5, <1>6, <1>9, <1>10 DEF CacheFine
<1>11. CASE cache[c].empty = {}
  <2>1. UNCHANGED <<page, owned, th, freelist>>
    BY <1>11 DEF kmem_cache_destroy
  <2>2. BuddyInv'
    BY <1>1, <1>2, <2>1, SameBuddy DEF buddyVars
  <2>3. \A d : \A r : SlabBlock(d, r)' <=> SlabBlock(d, r)
    BY <2>1 DEF SlabBlock
  <2>4. CacheFine(c)'
    BY <1>7, <1>8, <1>10, <1>11, <2>1, <2>3
  <2>5. ASSUME NEW d \in Caches, d # c
        PROVE  CacheFine(d)'
    BY <1>1, <1>2, <1>6, <2>1, <2>3, <2>5, OthersFine
  <2>6. ObjectInv'
    BY <1>1, <1>2, <2>3 DEF ObjectInv
  <2>7. DOMAIN freelist' = DOMAIN page'
    BY <1>1, <2>1 DEF SlabInv
  <2> QED
    BY <1>6, <2>2, <2>4, <2>5, <2>6, <2>7 DEF MemoryInv, SlabInv
<1>12. ASSUME NEW s \in cache[c].empty, FreeSlabPages(t, c, s, "user")
       PROVE  MemoryInv'
  <2>1. SlabBlock(c, s)
    BY <1>1, <1>12 DEF CacheFine
  <2>2. "user" \in Caches \cup {"user"} /\ "user" \notin Caches
    BY SlabAssumption
  <2>3. /\ BuddyInv' /\ DOMAIN page' = DOMAIN page /\ DOMAIN freelist' = DOMAIN freelist
        /\ \A d : \A r : SlabBlock(d, r)' <=> SlabBlock(d, r) /\ ~(d = c /\ r = s)
        /\ \A r : r # s /\ r \in DOMAIN freelist => freelist'[r] = freelist[r]
        /\ \A d : \A r : SlabBlock(d, r) /\ ~(d = c /\ r = s) =>
              /\ r # s /\ r \in DOMAIN freelist
              /\ \A p \in Block(r, SLAB_ORDER) : page'[p].flags = page[p].flags
        /\ \A u \in Users : th'[u].ret = IF u = t THEN "user" ELSE th[u].ret
    BY <1>1, <1>2, <1>12, <2>1, <2>2, SlabLeaves
  <2>4. CacheFine(c)'
    <3>1. \A r : ~SlabBlock(c, r)'
      BY <1>1, <1>7, <1>12, <2>3 DEF CacheFine
    <3>2. \A u \in Users : th'[u].ret # c
      BY <1>8, <2>2, <2>3
    <3> QED
      BY <1>10, <3>1, <3>2
  <2>5. ASSUME NEW d \in Caches, d # c
        PROVE  CacheFine(d)'
    <3>1. \A r : SlabBlock(d, r)' <=> SlabBlock(d, r)
      BY <2>3, <2>5
    <3>2. \A u \in Users : th'[u].ret = d => th[u].ret = d
      BY <2>2, <2>3
    <3>3. \A r : SlabBlock(d, r) =>
             r # s /\ \A p \in Block(r, SLAB_ORDER) : page'[p].flags = page[p].flags
      BY <2>3, <2>5
    <3>4. \A r : \A j : <<d, r, j>> \in objs' <=> <<d, r, j>> \in objs
      BY <1>2
    <3> QED
      BY <1>1, <1>6, <2>3, <2>5, <3>1, <3>2, <3>3, <3>4, OtherCaches
  <2>6. ObjectInv'
    BY <1>1, <1>2, <2>3 DEF ObjectInv
  <2>7. DOMAIN freelist' = DOMAIN page'
    BY <1>1, <2>3 DEF SlabInv
  <2> QED
    BY <1>6, <2>3, <2>4, <2>5, <2>6, <2>7 DEF MemoryInv, SlabInv
<1> QED
  BY <1>11, <1>12 DEF kmem_cache_destroy

\* Object o back on the free list of its slab, in a cache whose record becomes k.
PutsBack(c, o, k) ==
    /\ objs' = objs \ {o}
    /\ freelist' = [freelist EXCEPT ![o[2]] = freelist[o[2]] \cup {o[3]}]
    /\ cache' = [cache EXCEPT ![c] = k]
    /\ DOMAIN k = {"partial", "full", "empty", "lock", "exists"}
    /\ k.lock = cache[c].lock /\ k.exists = cache[c].exists
    /\ k.full = cache[c].full \ {o[2]}
    /\ \A r : r # o[2] => (r \in k.partial <=> r \in cache[c].partial)
    /\ \A r : r # o[2] => (r \in k.empty <=> r \in cache[c].empty)
    /\ o[2] \in k.empty <=> freelist[o[2]] \cup {o[3]} = Objects
    /\ o[2] \in k.partial <=> o[2] \notin k.empty
    /\ \A s, r \in k.empty : s = r

\* What an object that a caller has says of its slab.
LEMMA Given ==
  ASSUME BuddyInv, SlabInv, NEW c \in Caches, NEW o \in objs, o[1] = c
  PROVE  /\ o = <<c, o[2], o[3]>> /\ SlabBlock(c, o[2]) /\ SlabFine(c, o[2])
         /\ o[3] \in Objects /\ o[3] \notin freelist[o[2]] /\ freelist[o[2]] \in SUBSET Objects
         /\ o[2] \notin cache[c].empty /\ o[2] \in DOMAIN freelist
<1>1. o = <<c, o[2], o[3]>> /\ o[3] \in Objects /\ SlabBlock(c, o[2])
  BY DEF SlabInv, ObjectInv
<1>2. SlabFine(c, o[2])
  BY <1>1 DEF SlabInv, CacheFine
<1>3. o[3] \notin freelist[o[2]]
  <2>1. <<c, o[2], o[3]>> \in objs
    BY <1>1
  <2> QED
    BY <1>2, <2>1 DEF SlabFine
<1>4. o[2] \in DOMAIN freelist
  <2>1. PICK x \in owned : x = <<o[2], SLAB_ORDER, c>>
    BY <1>1 DEF SlabBlock
  <2> QED
    BY <2>1, OwnedPage DEF SlabInv
<1>5. freelist[o[2]] \in SUBSET Objects /\ o[2] \notin cache[c].empty
  BY <1>1, <1>2, <1>3 DEF SlabFine
<1> QED
  BY <1>1, <1>2, <1>3, <1>4, <1>5

LEMMA ObjectBack ==
  ASSUME MemoryInv, NEW c \in Caches, NEW o \in objs, o[1] = c, NEW k, PutsBack(c, o, k),
         UNCHANGED buddyVars
  PROVE  MemoryInv'
<1>1. BuddyInv /\ SlabInv /\ CacheFine(c) /\ ObjectInv
  BY DEF MemoryInv, SlabInv
<1>2. UNCHANGED <<page, th, owned>>
  BY DEF buddyVars
<1>3. PICK s : s = o[2]
  OBVIOUS
<1>4. PICK i : i = o[3]
  OBVIOUS
<1>5. /\ o = <<c, s, i>> /\ SlabBlock(c, s) /\ SlabFine(c, s)
      /\ i \in Objects /\ i \notin freelist[s] /\ freelist[s] \in SUBSET Objects
      /\ s \notin cache[c].empty /\ s \in DOMAIN freelist
  BY <1>1, <1>3, <1>4, Given
<1>6. /\ objs' = objs \ {o} /\ freelist' = [freelist EXCEPT ![s] = freelist[s] \cup {i}]
      /\ cache' = [cache EXCEPT ![c] = k]
      /\ DOMAIN k = {"partial", "full", "empty", "lock", "exists"}
      /\ k.lock = cache[c].lock /\ k.exists = cache[c].exists /\ k.full = cache[c].full \ {s}
      /\ \A r : r # s => (r \in k.partial <=> r \in cache[c].partial)
      /\ \A r : r # s => (r \in k.empty <=> r \in cache[c].empty)
      /\ s \in k.empty <=> freelist[s] \cup {i} = Objects
      /\ s \in k.partial <=> s \notin k.empty
      /\ \A q, r \in k.empty : q = r
  BY <1>3, <1>4 DEF PutsBack
<1>7. /\ freelist'[s] = freelist[s] \cup {i} /\ DOMAIN freelist' = DOMAIN freelist
      /\ \A r : r # s /\ r \in DOMAIN freelist => freelist'[r] = freelist[r]
  BY <1>5, <1>6
<1>8. /\ cache'[c] = k /\ DOMAIN cache' = Caches
      /\ \A d \in Caches : d # c => cache'[d] = cache[d]
  BY <1>1, <1>6 DEF SlabInv
<1>9. \A d : \A r : SlabBlock(d, r)' <=> SlabBlock(d, r)
  BY <1>2 DEF SlabBlock
<1>10. \A j : <<c, s, j>> \in objs' <=> <<c, s, j>> \in objs /\ j # i
  BY <1>5, <1>6
<1>11. SlabFine(c, s)'
  <2>1. \A j \in freelist'[s] : j \in Objects /\ <<c, s, j>> \notin objs'
    BY <1>5, <1>7, <1>10 DEF SlabFine
  <2>2. \A j \in Objects : j \in freelist'[s] \/ <<c, s, j>> \in objs'
    BY <1>5, <1>7, <1>10 DEF SlabFine
  <2>3. s \in cache'[c].full <=> freelist'[s] = {}
    BY <1>6, <1>7, <1>8
  <2>4. s \in cache'[c].empty <=> freelist'[s] = Objects
    BY <1>6, <1>7, <1>8
  <2>5. s \in cache'[c].partial => s \notin cache'[c].full \cup cache'[c].empty
    BY <1>6, <1>8
  <2>6. \A p \in Block(s, SLAB_ORDER) : "SLAB" \in page'[p].flags
    BY <1>2, <1>5 DEF SlabFine
  <2> QED
    BY <2>1, <2>2, <2>3, <2>4, <2>5, <2>6 DEF SlabFine
<1>12. CacheFine(c)'
  <2>1. ASSUME NEW r, SlabBlock(c, r)', r # s
        PROVE  SlabFine(c, r)'
    <3>1. SlabBlock(c, r) /\ SlabFine(c, r)
      BY <1>1, <1>9, <2>1 DEF CacheFine
    <3>2. freelist'[r] = freelist[r]
      <4>1. PICK x \in owned : x = <<r, SLAB_ORDER, c>>
        BY <3>1 DEF SlabBlock
      <4>2. r \in DOMAIN freelist
        BY <1>1, <4>1, OwnedPage DEF SlabInv
      <4> QED
        BY <1>7, <2>1, <4>2
    <3>3. \A j : <<c, r, j>> \in objs' <=> <<c, r, j>> \in objs
      BY <1>5, <1>6, <2>1
    <3>4. /\ r \in cache'[c].full <=> r \in cache[c].full
          /\ r \in cache'[c].empty <=> r \in cache[c].empty
          /\ r \in cache'[c].partial <=> r \in cache[c].partial
      BY <1>6, <1>8, <2>1
    <3>5. \A p \in Block(r, SLAB_ORDER) : page'[p].flags = page[p].flags
      BY <1>2
    <3> QED
      BY <3>1, <3>2, <3>3, <3>4, <3>5, OthersOf
  <2>2. \A r : SlabBlock(c, r)' => SlabFine(c, r)' /\ cache'[c].exists
    BY <1>1, <1>6, <1>8, <1>9, <1>11, <2>1 DEF CacheFine
  <2>3. \A r : r \in cache'[c].partial \cup cache'[c].full \cup cache'[c].empty <=> SlabBlock(c, r)'
    <3>1. \A r : r # s => (r \in k.partial \cup k.full \cup k.empty
                             <=> r \in cache[c].partial \cup cache[c].full \cup cache[c].empty)
      BY <1>6
    <3>2. s \in k.partial \cup k.full \cup k.empty
      BY <1>6
    <3> QED
      BY <1>1, <1>5, <1>8, <1>9, <3>1, <3>2 DEF CacheFine
  <2>4. \A x, y \in cache'[c].empty : x = y
    BY <1>6, <1>8
  <2>5. cache'[c].exists \/ cache'[c].lock = Nobody
    BY <1>1, <1>6, <1>8 DEF CacheFine
  <2>6. \A u \in Users : th'[u].ret = c => cache'[c].lock = u
    BY <1>1, <1>2, <1>6, <1>8 DEF CacheFine
  <2> QED
    BY <1>6, <1>8, <2>2, <2>3, <2>4, <2>5, <2>6 DEF CacheFine
<1>13. ASSUME NEW d \in Caches, d # c
       PROVE  CacheFine(d)'
  <2>1. \A r : SlabBlock(d, r) => r # s
    <3> SUFFICES ASSUME NEW r, SlabBlock(d, r)
                 PROVE  r # s
      OBVIOUS
    <3>1. PICK x \in owned : x = <<r, SLAB_ORDER, d>>
      BY DEF SlabBlock
    <3>2. PICK y \in owned : y = <<s, SLAB_ORDER, c>>
      BY <1>5 DEF SlabBlock
    <3>3. x # y
      BY <1>13, <3>1, <3>2
    <3> QED
      BY <1>1, <3>1, <3>2, <3>3, OneOwner
  <2>2. \A r : \A j : <<d, r, j>> \in objs' <=> <<d, r, j>> \in objs
    BY <1>5, <1>6, <1>13
  <2>3. \A u \in Users : th'[u].ret = d => th[u].ret = d
    BY <1>2
  <2>4. \A r : SlabBlock(d, r) =>
            r # s /\ \A p \in Block(r, SLAB_ORDER) : page'[p].flags = page[p].flags
    BY <1>2, <2>1
  <2> QED
    BY <1>1, <1>7, <1>8, <1>9, <1>13, <2>2, <2>3, <2>4, OtherCaches
<1>14. ObjectInv'
  BY <1>1, <1>6, <1>9 DEF ObjectInv
<1>15. BuddyInv'
  BY <1>1, SameBuddy
<1>16. DOMAIN freelist' = DOMAIN page'
  BY <1>1, <1>2, <1>7 DEF SlabInv
<1> QED
  BY <1>8, <1>12, <1>13, <1>14, <1>15, <1>16 DEF MemoryInv, SlabInv

\* The last object of a second empty slab: the slab goes back.
LEMMA SlabGoes ==
  ASSUME MemoryInv, NEW c \in Caches, NEW t \in Users, NEW o \in objs, o[1] = c, Ready(t, c),
         objs' = objs \ {o}, Inuse(o[2]) = 1, NEW k, cache' = [cache EXCEPT ![c] = k],
         DOMAIN k = {"partial", "full", "empty", "lock", "exists"},
         k.lock = t, k.exists = cache[c].exists, k.full = cache[c].full \ {o[2]},
         k.partial = cache[c].partial \ {o[2]}, k.empty = cache[c].empty,
         FreeSlabPages(t, c, o[2], c), UNCHANGED <<max_pfn, todo, managed, free_area, nfree>>
  PROVE  MemoryInv'
<1>1. BuddyInv /\ SlabInv /\ CacheFine(c) /\ ObjectInv
  BY DEF MemoryInv, SlabInv
<1>2. th[t].pc = "idle" /\ cache[c].exists /\ cache[c].lock = Nobody
  BY DEF Ready
<1>3. PICK s : s = o[2]
  OBVIOUS
<1>4. PICK i : i = o[3]
  OBVIOUS
<1>5. /\ o = <<c, s, i>> /\ SlabBlock(c, s) /\ SlabFine(c, s)
      /\ i \in Objects /\ i \notin freelist[s] /\ freelist[s] \in SUBSET Objects
      /\ s \notin cache[c].empty /\ s \in DOMAIN freelist
  BY <1>1, <1>3, <1>4, Given
<1>6. freelist[s] \cup {i} = Objects
  <2>1. OBJS - Cardinality(freelist[s]) = 1
    BY <1>3 DEF Inuse
  <2> QED
    BY <1>5, <2>1, InUse
<1>7. \A j : <<c, s, j>> \in objs => j = i
  <2> SUFFICES ASSUME NEW j, <<c, s, j>> \in objs
               PROVE  j = i
    OBVIOUS
  <2>1. j \in Objects
    BY <1>1 DEF ObjectInv
  <2>2. j \notin freelist[s]
    BY <1>5 DEF SlabFine
  <2> QED
    BY <1>6, <2>1, <2>2
<1>8. /\ BuddyInv' /\ DOMAIN page' = DOMAIN page /\ DOMAIN freelist' = DOMAIN freelist
      /\ \A d : \A r : SlabBlock(d, r)' <=> SlabBlock(d, r) /\ ~(d = c /\ r = s)
      /\ \A r : r # s /\ r \in DOMAIN freelist => freelist'[r] = freelist[r]
      /\ \A d : \A r : SlabBlock(d, r) /\ ~(d = c /\ r = s) =>
            /\ r # s /\ r \in DOMAIN freelist
            /\ \A p \in Block(r, SLAB_ORDER) : page'[p].flags = page[p].flags
      /\ \A u \in Users : th'[u].ret = IF u = t THEN c ELSE th[u].ret
  <2>1. c \in Caches \cup {"user"} /\ FreeSlabPages(t, c, s, c)
    BY <1>3
  <2> QED
    BY <1>1, <1>2, <1>5, <2>1, SlabLeaves
<1>9. /\ cache'[c] = k /\ DOMAIN cache' = Caches
      /\ \A d \in Caches : d # c => cache'[d] = cache[d]
  BY <1>1 DEF SlabInv
<1>10. CacheFine(c)'
  <2>1. ASSUME NEW r, SlabBlock(c, r)'
        PROVE  SlabFine(c, r)'
    <3>1. SlabBlock(c, r) /\ r # s /\ SlabFine(c, r)
      BY <1>1, <1>8, <2>1 DEF CacheFine
    <3>2. freelist'[r] = freelist[r] /\ \A p \in Block(r, SLAB_ORDER) : page'[p].flags = page[p].flags
      BY <1>8, <3>1
    <3>3. \A j : <<c, r, j>> \in objs' <=> <<c, r, j>> \in objs
      BY <1>5, <3>1
    <3>4. /\ r \in cache'[c].full <=> r \in cache[c].full
          /\ r \in cache'[c].empty <=> r \in cache[c].empty
          /\ r \in cache'[c].partial <=> r \in cache[c].partial
      BY <1>3, <1>9, <3>1
    <3> QED
      BY <3>1, <3>2, <3>3, <3>4, OthersOf
  <2>2. \A r : SlabBlock(c, r)' => SlabFine(c, r)' /\ cache'[c].exists
    BY <1>2, <1>9, <2>1
  <2>3. \A r : r \in cache'[c].partial \cup cache'[c].full \cup cache'[c].empty <=> SlabBlock(c, r)'
    <3>1. \A r : r \in k.partial \cup k.full \cup k.empty
                   <=> r \in cache[c].partial \cup cache[c].full \cup cache[c].empty /\ r # s
      BY <1>3, <1>5
    <3> QED
      BY <1>1, <1>8, <1>9, <3>1 DEF CacheFine
  <2>4. \A x, y \in cache'[c].empty : x = y
    BY <1>1, <1>9 DEF CacheFine
  <2>5. cache'[c].exists
    BY <1>2, <1>9
  <2>6. \A u \in Users : th'[u].ret = c => cache'[c].lock = u
    <3>1. \A u \in Users : th[u].ret # c
      BY <1>1, <1>2, SlabAssumption DEF CacheFine
    <3> QED
      BY <1>8, <1>9, <3>1
  <2> QED
    BY <1>9, <2>2, <2>3, <2>4, <2>5, <2>6 DEF CacheFine
<1>11. ASSUME NEW d \in Caches, d # c
       PROVE  CacheFine(d)'
  <2>1. \A r : SlabBlock(d, r)' <=> SlabBlock(d, r)
    BY <1>8, <1>11
  <2>2. \A r : \A j : <<d, r, j>> \in objs' <=> <<d, r, j>> \in objs
    BY <1>5, <1>11
  <2>3. \A u \in Users : th'[u].ret = d => th[u].ret = d
    BY <1>8, <1>11
  <2>4. \A r : SlabBlock(d, r) =>
            r # s /\ \A p \in Block(r, SLAB_ORDER) : page'[p].flags = page[p].flags
    BY <1>8, <1>11
  <2>5. \A r : r # s /\ r \in DOMAIN freelist => freelist'[r] = freelist[r]
    BY <1>8
  <2>6. cache'[d] = cache[d]
    BY <1>9, <1>11
  <2> QED
    BY <1>1, <1>11, <2>1, <2>2, <2>3, <2>4, <2>5, <2>6, OtherCaches
<1>12. ObjectInv'
  <2>1. ASSUME NEW x \in objs'
        PROVE  /\ x = <<x[1], x[2], x[3]>> /\ x[1] \in Caches /\ x[3] \in Objects
               /\ SlabBlock(x[1], x[2])'
    <3>1. x \in objs /\ x # o
      BY <2>1
    <3>2. x = <<x[1], x[2], x[3]>> /\ x[1] \in Caches /\ x[3] \in Objects /\ SlabBlock(x[1], x[2])
      BY <1>1, <3>1 DEF ObjectInv
    <3>3. ~(x[1] = c /\ x[2] = s)
      BY <1>5, <1>7, <3>1, <3>2
    <3> QED
      BY <1>8, <3>2, <3>3
  <2> QED
    BY <2>1 DEF ObjectInv
<1>13. DOMAIN freelist' = DOMAIN page'
  BY <1>1, <1>8 DEF SlabInv
<1> QED
  BY <1>8, <1>9, <1>10, <1>11, <1>12, <1>13 DEF MemoryInv, SlabInv

LEMMA ObjectFreed ==
  ASSUME MemoryInv, NEW c \in Caches, NEW t \in Users, NEW o \in objs, o[1] = c,
         kmem_cache_free(t, c, o[2], o[3])
  PROVE  MemoryInv'
<1>1. BuddyInv /\ SlabInv /\ CacheFine(c) /\ Ready(t, c)
  BY DEF MemoryInv, SlabInv, kmem_cache_free
<1>2. PICK s : s = o[2]
  OBVIOUS
<1>3. PICK i : i = o[3]
  OBVIOUS
<1>4. /\ o = <<c, s, i>> /\ SlabBlock(c, s) /\ SlabFine(c, s)
      /\ i \in Objects /\ i \notin freelist[s] /\ freelist[s] \in SUBSET Objects
      /\ s \notin cache[c].empty /\ s \in DOMAIN freelist
  BY <1>1, <1>2, <1>3, Given
<1>5. PICK j : j = [cache[c] EXCEPT !.full = cache[c].full \ {s}, !.partial = cache[c].partial \cup {s}]
  OBVIOUS
<1>6. /\ objs' = objs \ {o} /\ UNCHANGED <<max_pfn, todo, managed, free_area, nfree>>
      /\ \/ /\ Inuse(s) > 1
            /\ cache' = [cache EXCEPT ![c] = j]
            /\ freelist' = [freelist EXCEPT ![s] = freelist[s] \cup {i}]
            /\ UNCHANGED <<page, owned, th>>
         \/ /\ Inuse(s) = 1 /\ j.empty = {}
            /\ cache' = [cache EXCEPT ![c] = [j EXCEPT !.partial = j.partial \ {s}, !.empty = {s}]]
            /\ freelist' = [freelist EXCEPT ![s] = freelist[s] \cup {i}]
            /\ UNCHANGED <<page, owned, th>>
         \/ /\ Inuse(s) = 1 /\ j.empty # {}
            /\ cache' = [cache EXCEPT ![c] = [j EXCEPT !.partial = j.partial \ {s}, !.lock = t]]
            /\ FreeSlabPages(t, c, s, c)
  BY <1>2, <1>3, <1>4, <1>5 DEF kmem_cache_free
<1>7. DOMAIN cache[c] = {"partial", "full", "empty", "lock", "exists"}
  BY <1>1 DEF CacheFine
<1>8. /\ DOMAIN j = {"partial", "full", "empty", "lock", "exists"}
      /\ j.partial = cache[c].partial \cup {s} /\ j.full = cache[c].full \ {s}
      /\ j.empty = cache[c].empty /\ j.lock = cache[c].lock /\ j.exists = cache[c].exists
  BY <1>5, <1>7
<1>9. /\ Inuse(s) > 1 => freelist[s] \cup {i} # Objects
      /\ Inuse(s) = 1 => freelist[s] \cup {i} = Objects
  BY <1>4, InUse DEF Inuse
<1>10. \A q, r \in cache[c].empty : q = r
  BY <1>1 DEF CacheFine
<1>11. CASE /\ Inuse(s) > 1 /\ cache' = [cache EXCEPT ![c] = j]
            /\ freelist' = [freelist EXCEPT ![s] = freelist[s] \cup {i}]
            /\ UNCHANGED <<page, owned, th>>
  <2>1. PutsBack(c, o, j)
    BY <1>2, <1>3, <1>4, <1>6, <1>8, <1>9, <1>10, <1>11 DEF PutsBack
  <2>2. UNCHANGED buddyVars
    BY <1>6, <1>11 DEF buddyVars
  <2> QED
    BY <2>1, <2>2, ObjectBack
<1>12. CASE /\ Inuse(s) = 1 /\ j.empty = {}
            /\ cache' = [cache EXCEPT ![c] = [j EXCEPT !.partial = j.partial \ {s}, !.empty = {s}]]
            /\ freelist' = [freelist EXCEPT ![s] = freelist[s] \cup {i}]
            /\ UNCHANGED <<page, owned, th>>
  <2>1. PICK k : k = [j EXCEPT !.partial = j.partial \ {s}, !.empty = {s}]
    OBVIOUS
  <2>2. /\ DOMAIN k = {"partial", "full", "empty", "lock", "exists"}
        /\ k.partial = cache[c].partial \ {s} /\ k.full = cache[c].full \ {s}
        /\ k.empty = {s} /\ k.lock = cache[c].lock /\ k.exists = cache[c].exists
    BY <1>8, <2>1
  <2>3. PutsBack(c, o, k)
    BY <1>2, <1>3, <1>4, <1>6, <1>8, <1>9, <1>12, <2>1, <2>2 DEF PutsBack
  <2>4. UNCHANGED buddyVars
    BY <1>6, <1>12 DEF buddyVars
  <2> QED
    BY <2>3, <2>4, ObjectBack
<1>13. CASE /\ Inuse(s) = 1
            /\ cache' = [cache EXCEPT ![c] = [j EXCEPT !.partial = j.partial \ {s}, !.lock = t]]
            /\ FreeSlabPages(t, c, s, c)
  <2>1. PICK k : k = [j EXCEPT !.partial = j.partial \ {s}, !.lock = t]
    OBVIOUS
  <2>2. /\ DOMAIN k = {"partial", "full", "empty", "lock", "exists"}
        /\ k.partial = cache[c].partial \ {s} /\ k.full = cache[c].full \ {s}
        /\ k.empty = cache[c].empty /\ k.lock = t /\ k.exists = cache[c].exists
    BY <1>8, <2>1
  <2> QED
    BY <1>1, <1>2, <1>6, <1>13, <2>1, <2>2, SlabGoes
<1> QED
  BY <1>6, <1>11, <1>12, <1>13

LEMMA SlabSteps ==
  ASSUME MemoryInv, SlabNext
  PROVE  MemoryInv'
<1>1. CASE BuddyNext /\ UNCHANGED slabVars
  BY <1>1, BuddyKeepsSlabs
<1>2. ASSUME NEW c \in Caches, kmem_cache_create(c)
      PROVE  MemoryInv'
  BY <1>2, CacheCreated
<1>3. ASSUME NEW c \in Caches, NEW t \in Users,
             \/ kmem_cache_alloc(t, c) \/ AllocSlab(t, c) \/ NewSlab(t, c) \/ NewSlabFails(t, c)
             \/ \E o \in objs : o[1] = c /\ kmem_cache_free(t, c, o[2], o[3])
             \/ SlabReturned(t, c)
             \/ kmem_cache_destroy(t, c)
      PROVE  MemoryInv'
  <2>1. CASE kmem_cache_alloc(t, c)
    BY <2>1, ObjectTaken
  <2>2. CASE AllocSlab(t, c)
    BY <2>2, SlabAsked
  <2>3. CASE NewSlab(t, c)
    BY <2>3, SlabMade
  <2>4. CASE NewSlabFails(t, c)
    BY <2>4, SlabRefused
  <2>5. ASSUME NEW o \in objs, o[1] = c, kmem_cache_free(t, c, o[2], o[3])
        PROVE  MemoryInv'
    BY <2>5, ObjectFreed
  <2>6. CASE SlabReturned(t, c)
    BY <2>6, SlabGivenBack
  <2>7. CASE kmem_cache_destroy(t, c)
    BY <2>7, CacheDestroyed
  <2> QED
    BY <1>3, <2>1, <2>2, <2>3, <2>4, <2>5, <2>6, <2>7
<1> QED
  BY <1>1, <1>2, <1>3 DEF SlabNext

LEMMA SlabStays ==
  ASSUME MemoryInv, UNCHANGED memVars
  PROVE  MemoryInv'
<1>1. UNCHANGED buddyVars /\ UNCHANGED <<page, th, owned, cache, freelist, objs>>
  BY DEF memVars, buddyVars, slabVars
<1>2. BuddyInv'
  BY <1>1, SameBuddy DEF MemoryInv
<1>3. SlabInv'
  BY <1>1 DEF MemoryInv, SlabInv, CacheFine, SlabFine, ObjectInv, SlabBlock
<1> QED
  BY <1>2, <1>3 DEF MemoryInv

-----------------------------------------------------------------------------
\* A memory map has a last page.
LEMMA Topped ==
  ASSUME NEW len \in Nat, NEW e, \A i \in 1 .. len : e[i] \in Nat
  PROVE  \E n \in Nat : \A i \in 1 .. len : e[i] <= n
<1> DEFINE Below(k, n) == \A i \in 1 .. k : e[i] <= n
           S == {k \in Nat : k <= len /\ ~\E n \in Nat : Below(k, n)}
<1>1. S = {}
  <2> SUFFICES ASSUME S # {}
               PROVE  FALSE
    OBVIOUS
  <2>1. PICK k \in S : \A j \in S : k <= j
    BY LeastNat
  <2>2. k \in Nat /\ k <= len /\ ~\E n \in Nat : Below(k, n)
    BY <2>1
  <2>3. Below(0, 0)
    OBVIOUS
  <2>4. k # 0
    BY <2>2, <2>3
  <2>5. k - 1 \in Nat /\ k - 1 <= len /\ ~(k <= k - 1)
    BY <2>2, <2>4
  <2>6. k - 1 \notin S
    BY <2>1, <2>5
  <2>7. PICK n \in Nat : Below(k - 1, n)
    BY <2>5, <2>6
  <2>8. e[k] \in Nat
    BY <2>2, <2>4
  <2>9. PICK m \in Nat : n <= m /\ e[k] <= m
    <3>1. CASE n <= e[k]
      BY <2>8, <3>1
    <3>2. CASE ~(n <= e[k])
      BY <2>8, <3>2
    <3> QED
      BY <3>1, <3>2
  <2>10. Below(k, m)
    <3> SUFFICES ASSUME NEW i \in 1 .. k
                 PROVE  e[i] <= m
      OBVIOUS
    <3>1. CASE i = k
      BY <2>9, <3>1
    <3>2. CASE i # k
      <4>1. i \in 1 .. k - 1 /\ i \in 1 .. len
        BY <2>2, <3>2
      <4>2. e[i] <= n /\ e[i] \in Nat
        BY <2>7, <4>1
      <4> QED
        BY <2>9, <4>2
    <3> QED
      BY <3>1, <3>2
  <2> QED
    BY <2>2, <2>10
<1>2. len \notin S
  BY <1>1
<1>3. \E n \in Nat : Below(len, n)
  BY <1>2
<1> QED
  BY <1>3

LEMMA PagesBounded ==
  ASSUME NEW ram \in Regions
  PROVE  PagesIn(ram) \in SUBSET Nat /\ \E n \in Nat : \A p \in PagesIn(ram) : p <= n
<1>1. Len(ram) \in Nat /\ DOMAIN ram = 1 .. Len(ram)
  BY DEF Regions
<1>2. \A i \in DOMAIN ram : ram[i].base \in Nat /\ ram[i].end \in Nat
  <2>1. \A i \in DOMAIN ram : ram[i] \in Spans
    BY DEF Regions
  <2> QED
    BY <2>1 DEF Spans
<1>3. PICK e : e = [i \in 1 .. Len(ram) |-> ram[i].end]
  OBVIOUS
<1>4. \A i \in 1 .. Len(ram) : e[i] = ram[i].end /\ e[i] \in Nat
  BY <1>1, <1>2, <1>3
<1>5. PICK n \in Nat : \A i \in 1 .. Len(ram) : e[i] <= n
  BY <1>1, <1>4, Topped
<1>6. ASSUME NEW p \in PagesIn(ram)
      PROVE  p \in Nat /\ p <= n
  <2>1. PICK i \in 1 .. Len(ram) : p \in PagesOf(ram[i])
    BY <1>1 DEF PagesIn
  <2>2. p \in Int /\ ram[i].base <= p /\ p <= ram[i].end - 1 /\ ram[i].base \in Nat
    BY <1>1, <1>2, <2>1 DEF PagesOf
  <2>3. ram[i].end \in Nat /\ ram[i].end <= n
    BY <1>4, <1>5, <2>1
  <2> QED
    BY <2>2, <2>3
<1> QED
  BY <1>6

\* What the start hands over.
LEMMA HandsOver ==
  ASSUME NEW ram \in RamMaps
  PROVE  /\ Max(PagesIn(ram)) \in Nat /\ PagesIn(ram) \subseteq 0 .. Max(PagesIn(ram))
         /\ Spread(HandedOver(ram))
         /\ PagesIn(HandedOver(ram)) \subseteq PagesIn(ram) \ PagesIn(Reserved)
         /\ Cardinality(PagesIn(ram) \ PagesIn(Reserved)) = Cardinality(PagesIn(HandedOver(ram))) + BootPages
<1>1. PICK rest : rest = HandedOver(ram)
  OBVIOUS
<1>2. /\ ram \in Regions /\ rest \in Regions /\ PagesIn(ram) # {}
      /\ \A i \in DOMAIN rest : NotEmpty(rest[i])
      /\ \A i, j \in DOMAIN rest : i # j => PagesOf(rest[i]) \cap PagesOf(rest[j]) = {}
      /\ PagesIn(rest) \subseteq PagesIn(ram) \ PagesIn(Reserved)
      /\ Cardinality(PagesIn(ram) \ PagesIn(Reserved)) = Cardinality(PagesIn(rest)) + BootPages
  BY <1>1, StartAssumption DEF Regions, Spans
<1>3. PagesIn(ram) \in SUBSET Nat
  BY <1>2, PagesBounded
<1>4. PICK n \in Nat : \A p \in PagesIn(ram) : p <= n
  BY <1>2, PagesBounded
<1>5. Max(PagesIn(ram)) \in PagesIn(ram) /\ \A p \in PagesIn(ram) : p <= Max(PagesIn(ram))
  BY <1>2, <1>3, <1>4, GreatestOf
<1>6. Max(PagesIn(ram)) \in Nat /\ PagesIn(ram) \subseteq 0 .. Max(PagesIn(ram))
  BY <1>3, <1>5
<1> QED
  BY <1>1, <1>2, <1>6 DEF Spread

LEMMA BuddyStarts ==
  ASSUME BuddyInit
  PROVE  BuddyInv /\ owned = {} /\ \A t \in Users : th[t].ret = "user"
<1>1. PICK ram \in RamMaps :
       /\ max_pfn = Max(PagesIn(ram)) + 1
       /\ todo = HandedOver(ram)
       /\ managed = {}
       /\ free_area = [o \in Orders |-> {}]
       /\ page = [p \in 0 .. Max(PagesIn(ram)) |->
                    [flags |-> {"RESERVED"}, order |-> 0, refcount |-> 0]]
       /\ nfree = [z \in Zones |-> 0]
       /\ th = [t \in Users |-> NoCall]
       /\ owned = {}
  BY DEF BuddyInit
<1>2. PICK n \in Nat : n = Max(PagesIn(ram))
  BY HandsOver
<1>3. PagesIn(ram) \subseteq 0 .. n /\ Spread(todo) /\ PagesIn(todo) \subseteq PagesIn(ram)
  BY <1>1, <1>2, HandsOver
<1>4. max_pfn = n + 1 /\ DOMAIN page = 0 .. n
  BY <1>1, <1>2
<1>5. \A q \in DOMAIN page : page[q] = [flags |-> {"RESERVED"}, order |-> 0, refcount |-> 0]
  BY <1>1, <1>2
<1>6. FreeBlocks = {} /\ \A t \in Users : th[t] = NoCall
  BY <1>1 DEF FreeBlocks
<1>7. NoCall.pc = "idle" /\ NoCall.ret = "user"
  BY DEF NoCall
<1>8. FreeOnes = {} /\ OwnedOnes = {} /\ HeldOnes = {}
  BY <1>1, <1>6, <1>7 DEF FreeOnes, OwnedOnes, HeldOnes, Holds
<1>9. BlocksInv
  <2>1. Shared({}, {})
    BY DEF Shared, Pgs
  <2> QED
    BY <1>1, <1>8, <2>1 DEF BlocksInv
<1>10. FlagsInv
  <2>1. max_pfn \in Nat \ {0} /\ DOMAIN page = 0 .. max_pfn - 1
    BY <1>4
  <2>2. DOMAIN free_area = Orders /\ \A k \in Orders : free_area[k] = {}
    BY <1>1
  <2>3. \A q \in DOMAIN page : /\ DOMAIN page[q] = {"flags", "order", "refcount"}
                               /\ "BUDDY" \notin page[q].flags
    BY <1>5
  <2> QED
    BY <2>1, <2>2, <2>3 DEF FlagsInv
<1>11. MergedInv
  BY <1>1 DEF MergedInv
<1>12. CountInv
  <2>1. \A z \in Zones : Free(z) = {}
    BY <1>6 DEF Free
  <2>2. Cardinality({}) = 0
    BY FS_EmptySet
  <2> QED
    BY <1>1, <2>1, <2>2 DEF CountInv
<1>13. TodoInv
  <2>1. todo \in Seq([base : Nat, end : Nat]) /\ \A i \in DOMAIN todo : NotEmpty(todo[i])
    BY <1>3 DEF Spread, Regions, Spans
  <2>2. \A i, j \in DOMAIN todo : i # j => PagesOf(todo[i]) \cap PagesOf(todo[j]) = {}
    BY <1>3 DEF Spread
  <2>3. managed \cap PagesIn(todo) = {} /\ managed \cup PagesIn(todo) \subseteq DOMAIN page
    BY <1>1, <1>3, <1>4
  <2>4. max_pfn = Max(PagesIn(ram)) + 1 /\ managed \cup PagesIn(todo) = PagesIn(HandedOver(ram))
    BY <1>1
  <2> QED
    BY <2>1, <2>2, <2>3, <2>4 DEF TodoInv
<1>14. ThreadInv
  <2>1. DOMAIN th = Users /\ \A t \in Users : th[t] = NoCall
    BY <1>1
  <2>2. Row(NoCall)
    BY NoCallRow
  <2>3. \A t \in Users : Row(th[t]) /\ th[t].pc # "got"
    BY <1>7, <2>1, <2>2
  <2> QED
    BY <2>1, <2>3 DEF ThreadInv, Row
<1>15. OwnedInv
  BY <1>1 DEF OwnedInv
<1> QED
  BY <1>1, <1>6, <1>7, <1>9, <1>10, <1>11, <1>12, <1>13, <1>14, <1>15 DEF BuddyInv, Core

LEMMA SlabStarts ==
  ASSUME SlabInit
  PROVE  MemoryInv
<1>1. BuddyInv /\ owned = {} /\ \A t \in Users : th[t].ret = "user"
  BY BuddyStarts DEF SlabInit
<1>2. cache = [c \in Caches |-> NewCache] /\ freelist = [p \in DOMAIN page |-> {}] /\ objs = {}
  BY DEF SlabInit
<1>3. ASSUME NEW c \in Caches
      PROVE  CacheFine(c)
  <2>1. \A s : ~SlabBlock(c, s)
    BY <1>1 DEF SlabBlock
  <2>2. cache[c] = NewCache
    BY <1>2
  <2>3. /\ DOMAIN NewCache = {"partial", "full", "empty", "lock", "exists"} /\ NewCache.exists
        /\ NewCache.partial = {} /\ NewCache.full = {} /\ NewCache.empty = {}
    BY DEF NewCache
  <2>4. \A t \in Users : th[t].ret # c
    BY <1>1, SlabAssumption
  <2> QED
    BY <2>1, <2>2, <2>3, <2>4 DEF CacheFine
<1>4. DOMAIN cache = Caches /\ DOMAIN freelist = DOMAIN page /\ ObjectInv
  BY <1>2 DEF ObjectInv
<1> QED
  BY <1>1, <1>3, <1>4 DEF MemoryInv, SlabInv

\* The invariant of the allocators, for any memory map the start can be given, any
\* orders, threads and caches: blocks share out the pages (buddy_free merges, buddy_alloc
\* cuts), descriptors and lists say the same, slabs are the blocks of their caches.
THEOREM MemoryInvariant == SlabSpec => []MemoryInv
<1>1. SlabInit => MemoryInv
  BY SlabStarts
<1>2. MemoryInv /\ [SlabNext]_memVars => MemoryInv'
  BY SlabSteps, SlabStays
<1> QED
  BY <1>1, <1>2, PTL DEF SlabSpec

-----------------------------------------------------------------------------
(* What the invariant says of pages, runs and objects.                      *)

LEMMA OneBlock ==
  ASSUME Core, OwnedInv, NEW p \in DOMAIN page
  PROVE  Cardinality({b \in FreeBlocks : p \in Block(b[1], b[2])})
            + Cardinality({b \in GivenOut : p \in Block(b[1], b[2])})
          = (IF p \in managed THEN 1 ELSE 0)
<1> DEFINE F == {b \in FreeBlocks : p \in Block(b[1], b[2])}
           G == {b \in GivenOut : p \in Block(b[1], b[2])}
<1>1. /\ \A a \in AllOnes : Pg(a) \subseteq managed
      /\ \A a, b \in AllOnes : p \in Pg(a) /\ p \in Pg(b) => a = b
      /\ p \in managed => \E a \in AllOnes : p \in Pg(a)
  <2>1. Shared(AllOnes, managed)
    BY CoreFree
  <2> QED
    BY <2>1 DEF Shared, Pgs
<1>2. \A b \in F : <<b[1], b[2], "free", "free">> \in AllOnes /\ p \in Pg(<<b[1], b[2], "free", "free">>)
  BY DEF AllOnes, FreeOnes, Pg
<1>3. \A b \in F : b = <<b[1], b[2]>>
  BY DEF FreeBlocks
<1>4. ASSUME NEW g \in G
      PROVE  \E a \in OwnedOnes \cup HeldOnes : p \in Pg(a) /\ g = <<a[1], a[2]>>
  <2>1. CASE g \in {<<b[1], b[2]>> : b \in owned}
    <3>1. PICK x \in owned : g = <<x[1], x[2]>>
      BY <2>1
    <3>2. PICK a : a = <<x[1], x[2], "owned", x[3]>>
      OBVIOUS
    <3>3. a \in OwnedOnes
      BY <3>2, OwnedOne
    <3> QED
      BY <3>1, <3>2, <3>3 DEF Pg
  <2>2. CASE g \in {<<th[t].pfn, th[t].order>> : t \in {u \in Users : Holds(u)}}
    <3>1. PICK t \in Users : Holds(t) /\ g = <<th[t].pfn, th[t].order>>
      BY <2>2
    <3>2. PICK a : a = <<th[t].pfn, th[t].order, "held", t>>
      OBVIOUS
    <3>3. a \in HeldOnes
      BY <3>1, <3>2, HeldOne
    <3> QED
      BY <3>1, <3>2, <3>3 DEF Pg
  <2> QED
    BY <2>1, <2>2 DEF GivenOut
<1>5. ASSUME NEW a \in FreeOnes, p \in Pg(a)
      PROVE  <<a[1], a[2]>> \in F
  <2>1. PICK b \in FreeBlocks : a = <<b[1], b[2], "free", "free">>
    BY DEF FreeOnes
  <2>2. b = <<b[1], b[2]>>
    BY DEF FreeBlocks
  <2>3. a[1] = b[1] /\ a[2] = b[2]
    BY <2>1
  <2> QED
    BY <1>5, <2>2, <2>3 DEF Pg
<1>6. ASSUME NEW a \in OwnedOnes \cup HeldOnes, p \in Pg(a)
      PROVE  <<a[1], a[2]>> \in G
  <2>1. CASE a \in OwnedOnes
    <3>1. PICK x \in owned : a = <<x[1], x[2], "owned", x[3]>>
      BY <2>1 DEF OwnedOnes
    <3>2. a[1] = x[1] /\ a[2] = x[2]
      BY <3>1
    <3> QED
      BY <1>6, <3>2 DEF GivenOut, Pg
  <2>2. CASE a \in HeldOnes
    <3>1. PICK t \in Users : Holds(t) /\ a = <<th[t].pfn, th[t].order, "held", t>>
      BY <2>2 DEF HeldOnes
    <3>2. a[1] = th[t].pfn /\ a[2] = th[t].order
      BY <3>1
    <3> QED
      BY <1>6, <3>1, <3>2 DEF GivenOut, Pg
  <2> QED
    BY <2>1, <2>2
<1>7. \A a \in OwnedOnes \cup HeldOnes : a \in AllOnes /\ a[3] # "free"
  BY DEF AllOnes, OwnedOnes, HeldOnes
<1>8. \A a \in FreeOnes : a \in AllOnes /\ a[3] = "free"
  BY DEF AllOnes, FreeOnes
<1>9. \A b \in F : <<b[1], b[2], "free", "free">>[3] = "free"
  OBVIOUS
<1> HIDE DEF F, G
<1>10. Cardinality({}) = 0
  BY FS_EmptySet
<1>11. CASE p \notin managed
  <2>1. F = {}
    BY <1>1, <1>2, <1>11
  <2>2. G = {}
    BY <1>1, <1>4, <1>7, <1>11
  <2>3. Cardinality(F) + Cardinality(G) = 0
    BY <1>10, <2>1, <2>2
  <2> QED
    BY <1>11, <2>3 DEF F, G
<1>12. CASE p \in managed
  <2>1. PICK a \in AllOnes : p \in Pg(a)
    BY <1>1, <1>12
  <2>2. CASE a \in FreeOnes
    <3>1. G = {}
      BY <1>1, <1>4, <1>7, <1>8, <2>1, <2>2
    <3>2. \A b \in F : b = <<a[1], a[2]>>
      <4> SUFFICES ASSUME NEW b \in F
                   PROVE  b = <<a[1], a[2]>>
        OBVIOUS
      <4>1. a = <<b[1], b[2], "free", "free">>
        BY <1>1, <1>2, <2>1
      <4>2. a[1] = b[1] /\ a[2] = b[2]
        BY <4>1
      <4> QED
        BY <1>3, <4>2
    <3>3. F = {<<a[1], a[2]>>}
      BY <1>5, <2>1, <2>2, <3>2
    <3>4. Cardinality(F) + Cardinality(G) = 1
      <4>1. Cardinality(F) = 1
        BY <3>3, FS_Singleton
      <4>2. Cardinality(G) = 0
        BY <1>10, <3>1
      <4> QED
        BY <4>1, <4>2
    <3> QED
      BY <1>12, <3>4 DEF F, G
  <2>3. CASE a \in OwnedOnes \cup HeldOnes
    <3>1. F = {}
      <4> SUFFICES ASSUME NEW b \in F
                   PROVE  FALSE
        OBVIOUS
      <4>1. a = <<b[1], b[2], "free", "free">>
        BY <1>1, <1>2, <2>1
      <4>2. a[3] = "free"
        BY <4>1
      <4> QED
        BY <1>7, <2>3, <4>2
    <3>2. \A g \in G : g = <<a[1], a[2]>>
      BY <1>1, <1>4, <1>7, <2>1
    <3>3. G = {<<a[1], a[2]>>}
      BY <1>6, <2>1, <2>3, <3>2
    <3>4. Cardinality(F) + Cardinality(G) = 1
      <4>1. Cardinality(G) = 1
        BY <3>3, FS_Singleton
      <4>2. Cardinality(F) = 0
        BY <1>10, <3>1
      <4> QED
        BY <4>1, <4>2
    <3> QED
      BY <1>12, <3>4 DEF F, G
  <2> QED
    BY <2>1, <2>2, <2>3 DEF AllOnes
<1> QED
  BY <1>11, <1>12

LEMMA AllAccounted ==
  ASSUME BuddyInv
  PROVE  PagesAccounted
<1>1. Core /\ OwnedInv /\ TodoInv /\ CountInv
  BY DEF BuddyInv, Core
<1>2. PICK ram \in RamMaps : /\ max_pfn = Max(PagesIn(ram)) + 1
                             /\ managed \cup PagesIn(todo) = PagesIn(HandedOver(ram))
  BY <1>1 DEF TodoInv
<1>3. /\ managed \cup PagesIn(todo) \subseteq PagesIn(ram) \ PagesIn(Reserved)
      /\ Cardinality(PagesIn(ram) \ PagesIn(Reserved))
           = Cardinality(managed \cup PagesIn(todo)) + BootPages
  BY <1>2, HandsOver
<1>4. \A p \in DOMAIN page :
          Cardinality({b \in FreeBlocks : p \in Block(b[1], b[2])})
             + Cardinality({b \in GivenOut : p \in Block(b[1], b[2])})
          = (IF p \in managed THEN 1 ELSE 0)
  BY <1>1, OneBlock
<1>5. \A z \in Zones : nfree[z] = Cardinality(Free(z))
  BY <1>1 DEF CountInv
<1> QED
  BY <1>2, <1>3, <1>4, <1>5 DEF PagesAccounted

-----------------------------------------------------------------------------
LEMMA RunFound ==
  ASSUME Core, NEW z \in Zones, NEW o \in Orders, NEW p \in DOMAIN page,
         Aligned(p, o), Block(p, o) \subseteq Free(z)
  PROVE  \E b \in FreeBlocks : b[2] >= o /\ Block(p, o) \subseteq Block(b[1], b[2])
<1> SUFFICES ASSUME \A b \in FreeBlocks : b[2] >= o => ~(Block(p, o) \subseteq Block(b[1], b[2]))
             PROVE  FALSE
  OBVIOUS
<1>1. FlagsInv /\ MergedInv /\ FreeInv /\ FreeByList /\ FreeByZone
  BY CoreFree, FreeOne, FreeIn DEF Core
<1>2. Orders \subseteq 0 .. MAX_ORDER /\ MAX_ORDER \in Nat \ {0} /\ p \in Nat
  BY <1>1, Bounds DEF Orders, FlagsInv
<1>3. /\ \A b \in FreeOnes : Fine(b)
      /\ \A b, c \in FreeOnes : b # c => Pg(b) \cap Pg(c) = {}
  BY <1>1 DEF FreeInv, Shared
<1>4. \A x \in Block(p, o) : pfn_zone(x) = z /\ \E b \in FreeOnes : x \in Pg(b)
  BY <1>1 DEF FreeByZone, Pgs
\* The free blocks with a page of the run are smaller than the run.
<1>5. ASSUME NEW b \in FreeOnes, Pg(b) \cap Block(p, o) # {}
      PROVE  b[2] < o
  <2>1. b[1] \in Nat /\ b[2] \in Orders /\ Aligned(b[1], b[2])
    BY <1>3 DEF Fine
  <2>2. PICK c \in FreeBlocks : c[1] = b[1] /\ c[2] = b[2]
    <3>1. PICK c \in FreeBlocks : b = <<c[1], c[2], "free", "free">>
      BY DEF FreeOnes
    <3> QED
      BY <3>1
  <2> SUFFICES ASSUME ~(b[2] < o)
               PROVE  FALSE
    OBVIOUS
  <2>3. o <= b[2] /\ b[2] >= o
    BY <1>2, <2>1 DEF Orders
  <2>4. Block(p, o) \subseteq Block(b[1], b[2])
    BY <1>2, <1>5, <2>1, <2>3, Nested DEF Pg
  <2> QED
    BY <2>2, <2>3, <2>4
\* The smallest of them.
<1> DEFINE S == {b[2] : b \in {c \in FreeOnes : Pg(c) \cap Block(p, o) # {}}}
<1>6. PICK k \in S : \A j \in S : k <= j
  <2>1. p \in Block(p, o)
    BY <1>2, HeadInBlock
  <2>2. S # {}
    BY <1>4, <2>1
  <2>3. S \subseteq Nat
    <3>1. \A b \in FreeOnes : b[2] \in Nat
      BY <1>2, <1>3 DEF Fine, Orders
    <3> QED
      BY <3>1
  <2> QED
    BY <2>2, <2>3, LeastNat
<1>7. PICK q : <<q, k, "free", "free">> \in FreeOnes /\ Block(q, k) \cap Block(p, o) # {} /\ k < o
  <2>1. PICK b \in FreeOnes : Pg(b) \cap Block(p, o) # {} /\ k = b[2]
    BY <1>6
  <2>2. b = <<b[1], b[2], "free", "free">>
    BY <1>1 DEF FreeByList
  <2> QED
    BY <1>5, <2>1, <2>2 DEF Pg
<1>8. \A c, j : <<c, j, "free", "free">> \in FreeOnes =>
         /\ c \in Nat /\ j \in Orders /\ Aligned(c, j) /\ c \in free_area[j]
         /\ Pg(<<c, j, "free", "free">>) = Block(c, j)
  <2> SUFFICES ASSUME NEW c, NEW j, <<c, j, "free", "free">> \in FreeOnes
               PROVE  /\ c \in Nat /\ j \in Orders /\ Aligned(c, j) /\ c \in free_area[j]
                      /\ Pg(<<c, j, "free", "free">>) = Block(c, j)
    OBVIOUS
  <2>1. PICK b \in FreeOnes : b = <<c, j, "free", "free">>
    OBVIOUS
  <2>2. Fine(b) /\ b[1] = c /\ b[2] = j
    BY <1>3, <2>1
  <2>3. c \in free_area[j]
    BY <1>1 DEF FreeByList
  <2>4. Pg(b) = Block(c, j)
    BY <2>2 DEF Pg
  <2> QED
    BY <2>1, <2>2, <2>3, <2>4 DEF Fine
<1>9. q \in Nat /\ k \in Orders /\ Aligned(q, k) /\ q \in free_area[k]
  BY <1>7, <1>8
<1>10. k \in 0 .. MAX_ORDER /\ k # MAX_ORDER /\ k # MAX_ORDER - 1 /\ k + 1 \in 0 .. MAX_ORDER /\ k + 1 <= o
       /\ o \in 0 .. MAX_ORDER
  BY <1>2, <1>7, <1>9 DEF Orders
\* Its buddy is in the run as well.
<1>11. PICK y : y = BuddyOf(q, k)
  OBVIOUS
<1>12. y \in Nat /\ Aligned(y, k) /\ Block(Base(q, k + 1), k + 1) = Block(q, k) \cup Block(y, k)
  BY <1>9, <1>10, <1>11, Halves
<1>13. PICK d : d = Base(q, k + 1)
  OBVIOUS
<1>14. d \in Nat /\ Aligned(d, k + 1) /\ Block(d, k + 1) = Block(q, k) \cup Block(y, k)
  BY <1>9, <1>10, <1>12, <1>13, BaseAt
<1>15. Block(d, k + 1) \subseteq Block(p, o)
  BY <1>2, <1>7, <1>10, <1>14, Nested
<1>16. q \in Block(q, k) /\ y \in Block(y, k) /\ q \in Block(p, o) /\ y \in Block(p, o)
  BY <1>9, <1>10, <1>12, <1>14, <1>15, HeadInBlock
<1>17. PICK b \in FreeOnes : y \in Pg(b)
  BY <1>4, <1>16
<1>18. PICK c : c = b[1]
  OBVIOUS
<1>19. PICK j : j = b[2]
  OBVIOUS
<1>20. /\ <<c, j, "free", "free">> \in FreeOnes /\ y \in Block(c, j) /\ k <= j
       /\ c \in Nat /\ j \in Orders /\ j \in 0 .. MAX_ORDER /\ Aligned(c, j) /\ c \in free_area[j]
  <2>1. b = <<c, j, "free", "free">>
    BY <1>1, <1>17, <1>18, <1>19 DEF FreeByList
  <2>2. j \in S
    BY <1>16, <1>17, <1>19
  <2>3. k <= j
    BY <1>6, <2>2
  <2> QED
    BY <1>2, <1>8, <1>17, <2>1, <2>3
<1> HIDE DEF S
<1>21. CASE j = k
  <2>1. c = y
    BY <1>10, <1>12, <1>16, <1>20, <1>21, SameHead
  <2>2. pfn_zone(y) # pfn_zone(q)
    BY <1>1, <1>9, <1>10, <1>11, <1>20, <1>21, <2>1 DEF MergedInv
  <2> QED
    BY <1>4, <1>16, <2>2
<1>22. CASE j # k
  <2>1. k + 1 <= j
    BY <1>2, <1>10, <1>20, <1>22
  <2>2. Block(d, k + 1) \subseteq Block(c, j)
    BY <1>10, <1>14, <1>16, <1>20, <2>1, Nested
  <2>3. q \in Block(c, j)
    BY <1>14, <1>16, <2>2
  <2>4. <<c, j, "free", "free">> # <<q, k, "free", "free">>
    BY <1>22
  <2>5. Block(c, j) \cap Block(q, k) = {}
    BY <1>3, <1>7, <1>8, <1>20, <2>4
  <2> QED
    BY <1>16, <2>3, <2>5
<1> QED
  BY <1>21, <1>22

LEMMA RunsFound ==
  ASSUME BuddyInv
  PROVE  FreeRunsFindable
BY RunFound DEF BuddyInv, FreeRunsFindable, Aligned

-----------------------------------------------------------------------------
LEMMA ObjectsGivenOnce ==
  ASSUME MemoryInv
  PROVE  ObjectsOnce
<1>1. BuddyInv /\ SlabInv /\ OwnedInv /\ ObjectInv
  BY DEF MemoryInv, BuddyInv, SlabInv
<1>2. ASSUME NEW c \in Caches
      PROVE  LET k == cache[c]
                 slabs == {b[1] : b \in {x \in owned : x[3] = c}}
                 given(s) == {o[3] : o \in {x \in objs : x[1] = c /\ x[2] = s}}
             IN  /\ k.partial \cup k.full \cup k.empty = slabs
                 /\ Cardinality(k.empty) <= 1
                 /\ \A s \in slabs :
                      /\ given(s) \cap freelist[s] = {} /\ given(s) \cup freelist[s] = Objects
                      /\ s \in k.full <=> freelist[s] = {}
                      /\ s \in k.empty <=> freelist[s] = Objects
                      /\ s \in k.partial => s \notin k.full \cup k.empty
                      /\ \A p \in Block(s, SLAB_ORDER) : "SLAB" \in page[p].flags
  <2> DEFINE slabs == {b[1] : b \in {x \in owned : x[3] = c}}
             given(s) == {o[3] : o \in {x \in objs : x[1] = c /\ x[2] = s}}
  <2>1. CacheFine(c)
    BY <1>1 DEF SlabInv
  <2>2. \A s : s \in slabs <=> SlabBlock(c, s)
    <3>1. ASSUME NEW x \in owned, x[3] = c
          PROVE  SlabBlock(c, x[1])
      <4>1. x = <<x[1], x[2], c>> /\ x[2] = SLAB_ORDER
        BY <1>1, <3>1, SlabAssumption DEF OwnedInv
      <4> QED
        BY <4>1 DEF SlabBlock
    <3>2. ASSUME NEW s, SlabBlock(c, s)
          PROVE  s \in slabs
      <4>1. PICK x \in owned : x = <<s, SLAB_ORDER, c>>
        BY <3>2 DEF SlabBlock
      <4>2. x[1] = s /\ x[3] = c
        BY <4>1
      <4> QED
        BY <4>2
    <3> QED
      BY <3>1, <3>2
  <2>3. \A s, i : i \in given(s) <=> <<c, s, i>> \in objs
    <3>1. ASSUME NEW s, NEW o \in objs, o[1] = c, o[2] = s
          PROVE  <<c, s, o[3]>> \in objs
      BY <1>1, <3>1 DEF ObjectInv
    <3>2. ASSUME NEW s, NEW i, <<c, s, i>> \in objs
          PROVE  i \in given(s)
      <4>1. PICK o \in objs : o = <<c, s, i>>
        BY <3>2
      <4>2. o[1] = c /\ o[2] = s /\ o[3] = i
        BY <4>1
      <4> QED
        BY <4>2
    <3> QED
      BY <3>1, <3>2
  <2> HIDE DEF slabs, given
  <2>4. cache[c].partial \cup cache[c].full \cup cache[c].empty = slabs
    BY <2>1, <2>2 DEF CacheFine
  <2>5. Cardinality(cache[c].empty) <= 1
    <3>1. CASE cache[c].empty = {}
      <4>1. Cardinality(cache[c].empty) = 0
        BY <3>1, FS_EmptySet
      <4> QED
        BY <4>1
    <3>2. ASSUME NEW s \in cache[c].empty
          PROVE  Cardinality(cache[c].empty) <= 1
      <4>1. cache[c].empty = {s}
        BY <2>1 DEF CacheFine
      <4>2. Cardinality(cache[c].empty) = 1
        BY <4>1, FS_Singleton
      <4> QED
        BY <4>2
    <3> QED
      BY <3>1, <3>2
  <2>6. ASSUME NEW s \in slabs
        PROVE  /\ given(s) \cap freelist[s] = {} /\ given(s) \cup freelist[s] = Objects
               /\ s \in cache[c].full <=> freelist[s] = {}
               /\ s \in cache[c].empty <=> freelist[s] = Objects
               /\ s \in cache[c].partial => s \notin cache[c].full \cup cache[c].empty
               /\ \A p \in Block(s, SLAB_ORDER) : "SLAB" \in page[p].flags
    <3>1. SlabFine(c, s)
      BY <2>1, <2>2 DEF CacheFine
    <3>2. \A i : i \in given(s) => i \in Objects
      <4> SUFFICES ASSUME NEW i, i \in given(s)
                   PROVE  i \in Objects
        OBVIOUS
      <4>1. PICK o \in objs : o = <<c, s, i>>
        BY <2>3
      <4>2. o[3] = i
        BY <4>1
      <4> QED
        BY <1>1, <4>2 DEF ObjectInv
    <3>3. given(s) \cap freelist[s] = {}
      BY <2>3, <3>1 DEF SlabFine
    <3>4. given(s) \cup freelist[s] = Objects
      BY <2>3, <3>1, <3>2 DEF SlabFine
    <3> QED
      BY <3>1, <3>3, <3>4 DEF SlabFine
  <2> QED
    BY <2>4, <2>5, <2>6 DEF slabs, given
<1> QED
  BY <1>2 DEF ObjectsOnce

\* No page is lost or given out twice by alloc_pages, free_pages, the halves and the
\* buddies, and free_pages of a zone is the number of its free pages.
THEOREM PagesAreAccounted == SlabSpec => []PagesAccounted
<1>1. MemoryInv => PagesAccounted
  BY AllAccounted DEF MemoryInv
<1> QED
  BY <1>1, MemoryInvariant, PTL

\* alloc_pages fails only when there is no aligned run of that size: buddy_free has
\* merged whatever can be merged.
THEOREM FreeRunsAreFound == SlabSpec => []FreeRunsFindable
<1>1. MemoryInv => FreeRunsFindable
  BY RunsFound DEF MemoryInv
<1> QED
  BY <1>1, MemoryInvariant, PTL

\* kmem_cache_alloc never gives out an object twice, and a slab is in the list that its
\* objects say, whoever asks for pages or gives them back meanwhile.
THEOREM ObjectsAreOnce == SlabSpec => []ObjectsOnce
<1>1. MemoryInv => ObjectsOnce
  BY ObjectsGivenOnce
<1> QED
  BY <1>1, MemoryInvariant, PTL

-----------------------------------------------------------------------------
(* Vmalloc and Tlb.                                                         *)

USE TlbAssumption

-----------------------------------------------------------------------------
(* Helpers.                                                                 *)

\* The loop of tlb_shootdown comes to the next CPU that is not its own, and to NCPU
\* after the last one.
LEMMA Receiver ==
  ASSUME NEW me \in CPUs, NEW i \in 0 .. NCPU
  PROVE  /\ NextReceiver(me, i) \in i .. NCPU
         /\ NextReceiver(me, i) # NCPU => NextReceiver(me, i) \in CPUs \ {me}
         /\ \A c \in CPUs : i <= c /\ c < NextReceiver(me, i) => c = me
<1> DEFINE S == {c \in CPUs : c >= i /\ Receives(me, c)} \cup {NCPU}
<1>1. S \in SUBSET Nat /\ S # {} /\ NCPU \in S
  BY DEF CPUs
<1>2. NextReceiver(me, i) = Min(S)
  BY DEF NextReceiver
<1>3. Min(S) \in S /\ \A x \in S : Min(S) <= x
  BY <1>1, SmallestOf
<1> QED
  BY <1>1, <1>2, <1>3 DEF CPUs, Receives

\* The CPUs that know a request: finitely many.
LEMMA OwesFinite ==
  ASSUME NEW t
  PROVE  IsFiniteSet(Owes(t)) /\ Cardinality(Owes(t)) \in Nat
<1>1. IsFiniteSet(CPUs)
  BY FS_Interval DEF CPUs
<1>2. Owes(t) \subseteq CPUs
  BY DEF Owes
<1> QED
  BY <1>1, <1>2, FS_Subset, FS_CardinalityType

\* Counting the CPUs: one that comes to know the request, one that answers.
LEMMA OneMore ==
  ASSUME NEW S, IsFiniteSet(S), NEW c
  PROVE  /\ c \notin S => Cardinality(S \cup {c}) = Cardinality(S) + 1
         /\ c \in S => Cardinality(S \ {c}) = Cardinality(S) - 1
         /\ c \in S => Cardinality(S) > 0
<1>1. Cardinality(S) \in Nat
  BY FS_CardinalityType
<1>2. c \notin S => Cardinality(S \cup {c}) = Cardinality(S) + 1
  BY FS_AddElement
<1>3. c \in S => Cardinality(S \ {c}) = Cardinality(S) - 1
  BY FS_RemoveElement
<1>4. c \in S => Cardinality(S) # 0
  BY FS_EmptySet
<1> QED
  BY <1>1, <1>2, <1>3, <1>4

ReqType == [virt : Nat, pending : Nat, i : 0 .. NCPU]

\* A step of a thread with interrupts on that stays so, and that nobody's shootdown
\* takes part in.
LEMMA InterruptsStayOn ==
  ASSUME TypeOK, TlbInv, NEW t \in Threads, ~PushedOff(t), NEW l, l \notin {"send", "kick", "wait"},
         pc' = [pc EXCEPT ![t] = l],
         NEW r \in ReqType, req' = [req EXCEPT ![t] = r],
         tlb' \in [CPUs -> [Pages -> Frames \cup {None}]],
         UNCHANGED <<on, inbox, ipi, scan>>
  PROVE  TlbInv'
<1> USE DEF TlbInv, TlbTypeOK
<1>1. TlbTypeOK'
  BY DEF ReqType
<1>2. \A u \in Threads : PushedOff(u)' <=> PushedOff(u)
  BY DEF TypeOK, PushedOff
<1>3. \A u \in Threads : Owes(u)' = Owes(u)
  BY DEF Owes
<1>4. \A u \in Threads \ {t} : req'[u] = req[u] /\ pc'[u] = pc[u]
  BY DEF TypeOK
<1>5. OwnCpu'
  BY <1>2 DEF OwnCpu
<1>6. ScanInHand' /\ Referred'
  BY DEF ScanInHand, Referred
<1>7. Counted'
  BY <1>2, <1>3, <1>4 DEF Counted
<1>8. Loop'
  BY <1>2, <1>3, <1>4 DEF Loop, Passed, TypeOK
<1> QED
  BY <1>1, <1>5, <1>6, <1>7, <1>8

\* The same, for what the other CPUs have dropped.
LEMMA FlushedKept ==
  ASSUME IInv, NEW t \in Threads, ~PushedOff(t), NEW l, l \notin {"send", "kick", "wait"},
         pc' = [pc EXCEPT ![t] = l], \A u \in Threads \ {t} : req'[u] = req[u],
         \A u \in Threads \ {t} : phys'[u] = phys[u],
         UNCHANGED <<on, inbox, scan, tlb>>, overwritten => overwritten'
  PROVE  Flushed'
<1>1. \A u \in Threads : PushedOff(u)' => PushedOff(u) /\ u # t
  BY DEF IInv, TypeOK, PushedOff
<1>2. \A u \in Threads : Owes(u)' = Owes(u)
  BY DEF Owes
<1>3. \A u \in Threads \ {t} : pc'[u] = pc[u]
  BY DEF IInv, TypeOK
<1>4. \A u \in Threads \ {t} : \A c \in CPUs : Passed(u, c)' = Passed(u, c)
  BY <1>3 DEF Passed
<1> QED
  BY <1>1, <1>2, <1>4 DEF IInv, Flushed

\* A step of vmalloc or vfree, given what it does to the areas and frames.
LEMMA VmStep ==
  ASSUME IInv, NEW t \in Threads, ~PushedOff(t), NEW l, l \notin {"send", "kick", "wait"},
         pc' = [pc EXCEPT ![t] = l],
         NEW r \in ReqType, req' = [req EXCEPT ![t] = r],
         \A u \in Threads \ {t} : phys'[u] = phys[u],
         UNCHANGED <<on, inbox, ipi, scan, tlb>>, overwritten => overwritten',
         TypeOK', InHand', FramesApart'
  PROVE  IInv'
<1>1. TlbInv'
  <2>1. tlb' \in [CPUs -> [Pages -> Frames \cup {None}]]
    BY DEF IInv, TlbInv, TlbTypeOK
  <2> QED
    BY <2>1, InterruptsStayOn DEF IInv
<1>2. \A u \in Threads \ {t} : req'[u] = req[u]
  BY DEF IInv, TlbInv, TlbTypeOK
<1>3. Flushed'
  BY <1>2, FlushedKept
<1> QED
  BY <1>1, <1>3 DEF IInv

\* What the other threads are about is not touched by a step of t.
Others(t) ==
    \A u \in Threads \ {t} : /\ pc'[u] = pc[u] /\ area'[u] = area[u] /\ off'[u] = off[u]
                             /\ pt'[u] = pt[u] /\ req'[u] = req[u] /\ phys'[u] = phys[u]

LEMMA OthersInHand ==
  ASSUME IInv, NEW t \in Threads, Others(t),
         phys'[t] # None <=> pc'[t] \notin {"user", "map", "unmap"},
         pc'[t] \notin {"user", "map", "table", "set", "unmap"} => req'[t].virt \in Pages,
         pc'[t] \in {"table", "set"} => More(t)'
  PROVE  /\ InHand'
         /\ \A u \in Threads \ {t} : Page(u)' = Page(u)
<1>1. \A u \in Threads \ {t} : Page(u)' = Page(u) /\ More(u)' = More(u)
  BY DEF Others, Page, More
<1>2. \A u \in Threads \ {t} : pc'[u] = pc[u] /\ phys'[u] = phys[u] /\ req'[u] = req[u]
  BY DEF Others
<1>3. InHand'
  BY <1>1, <1>2 DEF IInv, InHand
<1> QED
  BY <1>1, <1>3

\* A step that leaves page table, frames and request alone.
LEMMA AreaStep ==
  ASSUME IInv, NEW t \in Threads, pc[t] \in {"user", "map", "unmap"},
         NEW l \in {"user", "map", "unmap"}, pc' = [pc EXCEPT ![t] = l],
         \A u \in Threads \ {t} : area'[u] = area[u] /\ off'[u] = off[u],
         UNCHANGED <<on, req, inbox, ipi, scan, tlb, phys, pt, table, pte, free, overwritten>>, TypeOK'
  PROVE  IInv'
<1>1. ~PushedOff(t)
  BY DEF PushedOff
<1>2. req[t] \in ReqType /\ req' = [req EXCEPT ![t] = req[t]]
  BY DEF IInv, TlbInv, TlbTypeOK, ReqType
<1>3. Others(t) /\ pc'[t] = l
  BY DEF IInv, TypeOK, Others
<1>4. phys[t] = None
  BY DEF IInv, InHand
<1>5. InHand' /\ \A u \in Threads \ {t} : Page(u)' = Page(u)
  BY <1>3, <1>4, OthersInHand
<1>6. \A v \in Pages : Entry(v)' = Entry(v)
  BY DEF Entry
<1>7. FramesApart'
  <2> SUFFICES ASSUME ~overwritten
               PROVE  Walked' /\ EntriesApart' /\ TablesApart' /\ Somewhere'
    BY DEF FramesApart
  <2>1. Walked'
    BY <1>3, <1>5 DEF IInv, FramesApart, Walked, Others
  <2>2. EntriesApart'
    BY <1>6 DEF IInv, FramesApart, EntriesApart
  <2>3. TablesApart'
    BY <1>6 DEF IInv, FramesApart, TablesApart
  <2>4. Somewhere'
    BY <1>6 DEF IInv, FramesApart, Somewhere
  <2> QED
    BY <2>1, <2>2, <2>3, <2>4
<1> QED
  BY <1>1, <1>2, <1>5, <1>7, VmStep

-----------------------------------------------------------------------------
(* vmalloc and vfree.                                                       *)

\* alloc_area: the area lies in the region.
LEMMA vmallocInv ==
  ASSUME IInv, NEW t \in Threads, NEW n \in Sizes[t], vmalloc(t, n)
  PROVE  IInv'
<1> DEFINE k == Min(Cursors(n))
           a == [start |-> k + 1, size |-> n]
<1>1. n \in Nat
  BY VmallocAssumption
<1>2. Cursors(n) \in SUBSET Nat /\ Cursors(n) # {}
  BY DEF IInv, TypeOK, AreaType, vmalloc, Cursors, Behind
<1>3. k \in Cursors(n)
  BY <1>2, SmallestOf
<1> HIDE DEF k
<1>4. k \in Nat /\ k + (n + 2) <= END
  BY <1>2, <1>3 DEF Cursors, Fits, Need
<1>5. a \in AreaType
  BY <1>1, <1>4 DEF AreaType
<1>6. /\ pc[t] = "user" /\ pc' = [pc EXCEPT ![t] = "map"]
      /\ areas' = areas \cup {a} /\ area' = [area EXCEPT ![t] = a]
      /\ UNCHANGED <<on, req, inbox, ipi, scan, tlb, live, off, phys, pt, undo, table, pte, free, panicked,
                     overwritten>>
  BY DEF vmalloc, VmAt, Goto, k
<1> HIDE DEF a
<1>7. TypeOK' /\ \A u \in Threads \ {t} : area'[u] = area[u] /\ off'[u] = off[u]
  BY <1>5, <1>6 DEF IInv, TypeOK, Pcs
<1> QED
  BY <1>6, <1>7, AreaStep

\* The steps that leave the page table and the frames alone.
LEMMA AreaActionsInv ==
  ASSUME IInv, NEW t \in Threads,
         \/ vmallocReturns(t) \/ UnmapReturns(t)
         \/ \E a \in live : vfree(t, a)
  PROVE  IInv'
<1> USE DEF VmAt, Goto, Leaves
<1>n. NoArea \in AreaType
  BY DEF NoArea, AreaType
<1>1. CASE vmallocReturns(t)
  <2>1. TypeOK' /\ \A u \in Threads \ {t} : area'[u] = area[u] /\ off'[u] = off[u]
    BY <1>1, <1>n DEF IInv, TypeOK, vmallocReturns, Pcs
  <2> QED
    BY <1>1, <2>1, AreaStep DEF vmallocReturns
<1>2. CASE UnmapReturns(t)
  <2>1. TypeOK' /\ \A u \in Threads \ {t} : area'[u] = area[u] /\ off'[u] = off[u]
    BY <1>2, <1>n DEF IInv, TypeOK, UnmapReturns, Pcs
  <2> QED
    BY <1>2, <2>1, AreaStep DEF UnmapReturns
<1>3. CASE \E a \in live : vfree(t, a)
  <2>1. PICK a \in live : vfree(t, a)
    BY <1>3
  <2>2. TypeOK' /\ \A u \in Threads \ {t} : area'[u] = area[u] /\ off'[u] = off[u]
    BY <2>1 DEF IInv, TypeOK, vfree, Pcs
  <2> QED
    BY <2>1, <2>2, AreaStep DEF vfree
<1> QED
  BY <1>1, <1>2, <1>3

\* The page of an area lies in the region, and has an entry of the directory.
LEMMA PageInRegion ==
  ASSUME IInv, NEW t \in Threads, More(t)
  PROVE  Page(t) \in Pages /\ PdIndex(Page(t)) \in Directory
<1>1. Page(t) \in Pages
  BY DEF IInv, TypeOK, AreaType, More, Page, Pages
<1> QED
  BY <1>1 DEF Directory

\* A free frame comes into the hand of the thread, which looks into the directory.
LEMMA MapPageInv ==
  ASSUME IInv, NEW t \in Threads, NEW f \in free, MapPage(t, f)
  PROVE  IInv'
<1> DEFINE i == PdIndex(Page(t))
           g == table[i]
           l == IF g = None THEN "table" ELSE "set"
<1>1. /\ pc[t] = "map" /\ More(t) /\ free' = free \ {f} /\ phys' = [phys EXCEPT ![t] = f]
      /\ pt' = [pt EXCEPT ![t] = g] /\ pc' = [pc EXCEPT ![t] = l]
      /\ UNCHANGED <<on, req, inbox, ipi, scan, tlb, areas, live, area, off, undo, table, pte, panicked,
                     overwritten>>
  BY DEF MapPage, VmAt, Goto
<1>2. i \in Directory /\ g \in Frames \cup {None} /\ f \in Frames /\ f # None
  BY <1>1, PageInRegion DEF IInv, TypeOK
<1>3. l \in {"table", "set"} /\ (l = "set" => g # None)
  OBVIOUS
<1>i. g = table[PdIndex(Page(t))]
  OBVIOUS
<1> HIDE DEF i, g, l
<1>4. TypeOK'
  BY <1>1, <1>2, <1>3 DEF IInv, TypeOK, Pcs
<1>5. Others(t) /\ pc'[t] = l /\ phys'[t] = f /\ pt'[t] = g /\ More(t)' /\ Page(t)' = Page(t)
  BY <1>1, <1>2 DEF IInv, TypeOK, Others, More, Page
<1>6. InHand' /\ \A u \in Threads \ {t} : Page(u)' = Page(u)
  BY <1>2, <1>3, <1>5, OthersInHand
<1>7. \A v \in Pages : Entry(v)' = Entry(v)
  BY <1>1 DEF Entry
<1>8. FramesApart'
  <2> SUFFICES ASSUME ~overwritten
               PROVE  Walked' /\ EntriesApart' /\ TablesApart' /\ Somewhere'
    BY <1>1 DEF FramesApart
  <2>1. Walked'
    BY <1>1, <1>3, <1>5, <1>6, <1>i DEF IInv, FramesApart, Walked, Others
  <2>2. \A u \in Threads : phys'[u] = IF u = t THEN f ELSE phys[u]
    BY <1>5 DEF Others
  <2>3. EntriesApart'
    BY <1>1, <1>2, <1>7, <2>2 DEF IInv, FramesApart, EntriesApart
  <2>4. TablesApart'
    BY <1>1, <1>2, <1>7, <2>2 DEF IInv, FramesApart, TablesApart
  <2>5. Somewhere'
    <3>1. phys[t] = None
      BY <1>1 DEF IInv, InHand
    <3>2. Somewhere
      BY DEF IInv, FramesApart
    <3> QED
      BY <1>1, <1>7, <2>2, <3>1, <3>2 DEF Somewhere
  <2> QED
    BY <2>1, <2>3, <2>4, <2>5
<1>9. ~PushedOff(t) /\ req[t] \in ReqType /\ req' = [req EXCEPT ![t] = req[t]]
  BY <1>1 DEF PushedOff, IInv, TlbInv, TlbTypeOK, ReqType
<1>10. l \notin {"send", "kick", "wait"} /\ \A u \in Threads \ {t} : phys'[u] = phys[u]
  BY <1>3, <1>5 DEF Others
<1> QED
  BY <1>1, <1>4, <1>6, <1>8, <1>9, <1>10, VmStep

\* A free frame becomes a table: of no page yet, where the directory had none.
LEMMA MakeTableInv ==
  ASSUME IInv, NEW t \in Threads, NEW g \in free, MakeTable(t, g)
  PROVE  IInv'
<1> DEFINE i == PdIndex(Page(t))
<1>1. /\ pc[t] = "table" /\ free' = free \ {g} /\ pte' = [pte EXCEPT ![g] = NoEntries]
      /\ table' = [table EXCEPT ![i] = g] /\ overwritten' = (overwritten \/ table[i] # None)
      /\ pt' = [pt EXCEPT ![t] = g] /\ pc' = [pc EXCEPT ![t] = "set"]
      /\ UNCHANGED <<on, req, inbox, ipi, scan, tlb, areas, live, area, off, phys, undo, panicked>>
  BY DEF MakeTable, VmAt, Goto
<1>2. More(t)
  BY <1>1 DEF IInv, InHand
<1>3. i \in Directory /\ g \in Frames /\ g # None
  BY <1>2, PageInRegion DEF IInv, TypeOK
<1>i. i = PdIndex(Page(t))
  OBVIOUS
<1> HIDE DEF i
<1>4. TypeOK'
  <2>1. NoEntries \in [Pages -> Frames \cup {None}]
    BY DEF NoEntries
  <2> QED
    BY <1>1, <1>3, <2>1 DEF IInv, TypeOK, Pcs
<1>5. Others(t) /\ pc'[t] = "set" /\ phys'[t] = phys[t] /\ pt'[t] = g /\ More(t)' /\ Page(t)' = Page(t)
  BY <1>1, <1>2, <1>3 DEF IInv, TypeOK, Others, More, Page
<1>6. phys[t] # None
  BY <1>1 DEF IInv, InHand
<1>7. InHand' /\ \A u \in Threads \ {t} : Page(u)' = Page(u)
  BY <1>5, <1>6, OthersInHand
<1>8. /\ \A j \in Directory : table'[j] = IF j = i THEN g ELSE table[j]
      /\ \A h \in Frames, w \in Pages : pte'[h][w] = IF h = g THEN None ELSE pte[h][w]
  BY <1>1, <1>3 DEF IInv, TypeOK, NoEntries
<1>9. FramesApart'
  <2> SUFFICES ASSUME ~overwritten'
               PROVE  Walked' /\ EntriesApart' /\ TablesApart' /\ Somewhere'
    BY DEF FramesApart
  <2>1. ~overwritten /\ table[i] = None
    BY <1>1 DEF IInv, TypeOK
  <2>2. /\ Walked /\ EntriesApart /\ TablesApart /\ Somewhere
        /\ g \notin free' /\ g \in free
    BY <1>1, <2>1 DEF IInv, FramesApart
  <2>3. ASSUME NEW w \in Pages
        PROVE  Entry(w)' = Entry(w)
    <3>1. PdIndex(w) \in Directory /\ table[PdIndex(w)] \in Frames \cup {None}
      BY DEF Directory, IInv, TypeOK
    <3>2. CASE PdIndex(w) = i
      BY <1>3, <1>8, <2>1, <3>1, <3>2 DEF Entry
    <3>3. CASE PdIndex(w) # i
      <4>1. table'[PdIndex(w)] = table[PdIndex(w)] /\ table[PdIndex(w)] # g
        BY <1>8, <2>2, <3>1, <3>3 DEF TablesApart
      <4> QED
        BY <1>8, <3>1, <4>1 DEF Entry
    <3> QED
      BY <3>2, <3>3
  <2>4. Walked'
    <3>1. ASSUME NEW u \in Threads, pc'[u] = "set"
          PROVE  pt'[u] # None /\ pt'[u] = table'[PdIndex(Page(u)')]
      <4>1. CASE u = t
        BY <1>3, <1>5, <1>8, <1>i, <4>1
      <4>2. CASE u # t
        <5>1. pc[u] = "set" /\ pt'[u] = pt[u] /\ Page(u)' = Page(u)
          BY <1>5, <1>7, <3>1, <4>2 DEF Others
        <5>2. More(u)
          BY <5>1 DEF IInv, InHand
        <5>3. PdIndex(Page(u)) \in Directory
          BY <5>2, PageInRegion
        <5>4. pt[u] # None /\ pt[u] = table[PdIndex(Page(u))]
          BY <2>2, <5>1 DEF Walked
        <5> QED
          BY <1>8, <2>1, <5>1, <5>3, <5>4
      <4> QED
        BY <4>1, <4>2
    <3>2. ASSUME NEW h \in Frames, NEW w \in Pages, pte'[h][w] # None
          PROVE  table'[PdIndex(w)] = h
      <4>1. h # g /\ pte[h][w] # None
        BY <1>8, <3>2
      <4>2. table[PdIndex(w)] = h /\ h # None
        BY <2>2, <4>1 DEF Walked
      <4>3. PdIndex(w) \in Directory
        BY DEF Directory
      <4> QED
        BY <1>8, <2>1, <4>2, <4>3
    <3> QED
      BY <3>1, <3>2 DEF Walked
  <2>5. EntriesApart'
    BY <1>1, <2>2, <2>3 DEF EntriesApart
  <2>6. TablesApart'
    <3>1. \A w \in Pages : Entry(w) # g
      BY <2>2 DEF EntriesApart
    <3>2. \A u \in Threads : phys[u] # g
      BY <2>2 DEF EntriesApart
    <3>3. \A j \in Directory : table[j] # g
      BY <2>2 DEF TablesApart
    <3> QED
      BY <1>1, <1>3, <1>8, <2>2, <2>3, <3>1, <3>2, <3>3 DEF TablesApart
  <2>7. Somewhere'
    <3>1. ASSUME NEW f \in Frames
          PROVE  \/ f \in free' \/ \E w \in Pages : Entry(w)' = f
                 \/ \E j \in Directory : table'[j] = f
                 \/ \E u \in Threads : phys'[u] = f
      <4>1. CASE f = g
        BY <1>3, <1>8, <4>1
      <4>2. CASE f # g
        <5>1. \/ f \in free \/ \E w \in Pages : Entry(w) = f
              \/ \E j \in Directory : table[j] = f
              \/ \E u \in Threads : phys[u] = f
          BY <2>2 DEF Somewhere
        <5>2. \A j \in Directory : table[j] = f => table'[j] = f
          BY <1>3, <1>8, <2>1
        <5> QED
          BY <1>1, <2>3, <4>2, <5>1, <5>2
      <4> QED
        BY <4>1, <4>2
    <3> QED
      BY <3>1 DEF Somewhere
  <2> QED
    BY <2>4, <2>5, <2>6, <2>7
<1>10. ~PushedOff(t) /\ req[t] \in ReqType /\ req' = [req EXCEPT ![t] = req[t]]
  BY <1>1 DEF PushedOff, IInv, TlbInv, TlbTypeOK, ReqType
<1> QED
  BY <1>1, <1>4, <1>5, <1>7, <1>9, <1>10, VmStep DEF Others

\* The frame goes from the hand of the thread into the table that it has found.
LEMMA SetEntryInv ==
  ASSUME IInv, NEW t \in Threads, SetEntry(t)
  PROVE  IInv'
<1> DEFINE v == Page(t)
           g == pt[t]
<1>1. /\ pc[t] = "set" /\ pte[g][v] = None /\ pte' = [pte EXCEPT ![g][v] = phys[t]]
      /\ phys' = [phys EXCEPT ![t] = None] /\ pt' = [pt EXCEPT ![t] = None]
      /\ off' = [off EXCEPT ![t] = @ + 1] /\ pc' = [pc EXCEPT ![t] = "map"]
      /\ UNCHANGED <<on, req, inbox, ipi, scan, tlb, areas, live, area, undo, table, free, panicked, overwritten>>
  BY DEF SetEntry, VmAt, Goto
<1>2. v \in Pages /\ PdIndex(v) \in Directory /\ phys[t] \in Frames /\ phys[t] # None
  <2>1. More(t) /\ phys[t] # None
    BY <1>1 DEF IInv, InHand
  <2> QED
    BY <2>1, PageInRegion DEF IInv, TypeOK
<1>v. v = Page(t) /\ g = pt[t]
  OBVIOUS
<1> HIDE DEF v, g
<1>3. TypeOK'
  <2>1. pte' \in [Frames -> [Pages -> Frames \cup {None}]]
    <3>1. pte \in [Frames -> [Pages -> Frames \cup {None}]]
      BY DEF IInv, TypeOK
    <3>2. \A h \in Frames : [pte[h] EXCEPT ![v] = phys[t]] \in [Pages -> Frames \cup {None}]
      BY <1>2, <3>1
    <3> QED
      BY <1>1, <3>1, <3>2
  <2> QED
    BY <1>1, <2>1 DEF IInv, TypeOK, Pcs
<1>4. Others(t) /\ pc'[t] = "map" /\ phys'[t] = None
  BY <1>1 DEF IInv, TypeOK, Others
<1>5. InHand' /\ \A u \in Threads \ {t} : Page(u)' = Page(u)
  BY <1>4, OthersInHand
<1>6. FramesApart'
  <2> SUFFICES ASSUME ~overwritten
               PROVE  Walked' /\ EntriesApart' /\ TablesApart' /\ Somewhere'
    BY <1>1 DEF FramesApart
  <2>1. Walked /\ EntriesApart /\ TablesApart /\ Somewhere
    BY DEF IInv, FramesApart
  <2>2. g = table[PdIndex(v)] /\ g \in Frames /\ g # None
    BY <1>1, <1>v, <2>1 DEF Walked, IInv, TypeOK
  <2>3. \A h \in Frames, w \in Pages : pte'[h][w] = IF h = g /\ w = v THEN phys[t] ELSE pte[h][w]
    BY <1>1, <1>2, <2>2 DEF IInv, TypeOK
  <2>4. \A w \in Pages : Entry(w)' = IF w = v THEN phys[t] ELSE Entry(w)
    <3>1. \A w \in Pages : table[PdIndex(w)] \in Frames \cup {None}
      BY DEF Directory, IInv, TypeOK
    <3> QED
      BY <1>1, <2>2, <2>3, <3>1 DEF Entry
  <2>5. Entry(v) = None
    BY <1>1, <2>2 DEF Entry
  <2>6. \A u \in Threads : phys'[u] = IF u = t THEN None ELSE phys[u]
    BY <1>4 DEF Others
  <2>7. Walked'
    BY <1>1, <1>4, <1>5, <2>1, <2>2, <2>3 DEF Walked, Others
  <2>n. None \notin free
    BY DEF IInv, TypeOK
  <2>8. EntriesApart'
    BY <1>1, <1>2, <2>1, <2>4, <2>5, <2>6, <2>n DEF EntriesApart
  <2>9. TablesApart'
    BY <1>1, <1>2, <2>1, <2>4, <2>5, <2>6 DEF TablesApart
  <2>10. Somewhere'
    BY <1>1, <1>2, <2>1, <2>4, <2>5, <2>6 DEF Somewhere
  <2> QED
    BY <2>7, <2>8, <2>9, <2>10
<1>7. ~PushedOff(t) /\ req[t] \in ReqType /\ req' = [req EXCEPT ![t] = req[t]]
  BY <1>1 DEF PushedOff, IInv, TlbInv, TlbTypeOK, ReqType
<1>8. \A u \in Threads \ {t} : phys'[u] = phys[u]
  BY <1>4 DEF Others
<1> QED
  BY <1>1, <1>3, <1>5, <1>6, <1>7, <1>8, VmStep

\* The frame goes from the hand of the thread to the free ones.
LEMMA HandEmptied ==
  ASSUME IInv, NEW t \in Threads, ~PushedOff(t), Others(t), NEW l \in {"map", "unmap"},
         pc' = [pc EXCEPT ![t] = l], phys' = [phys EXCEPT ![t] = None],
         free' = free \cup ({phys[t]} \ {None}),
         NEW r \in ReqType, req' = [req EXCEPT ![t] = r],
         UNCHANGED <<on, inbox, ipi, scan, tlb, table, pte, overwritten>>, TypeOK'
  PROVE  IInv'
<1>1. /\ pc'[t] = l /\ phys'[t] = None
      /\ \A u \in Threads : phys'[u] = IF u = t THEN None ELSE phys[u]
  BY DEF IInv, TypeOK
<1>2. InHand' /\ \A u \in Threads \ {t} : Page(u)' = Page(u)
  BY <1>1, OthersInHand
<1>3. \A v \in Pages : Entry(v)' = Entry(v)
  BY DEF Entry
<1>4. FramesApart'
  <2> SUFFICES ASSUME ~overwritten
               PROVE  Walked' /\ EntriesApart' /\ TablesApart' /\ Somewhere'
    BY DEF FramesApart
  <2>1. Walked /\ EntriesApart /\ TablesApart /\ Somewhere /\ None \notin free
    BY DEF IInv, FramesApart, TypeOK
  <2>2. Walked'
    BY <1>1, <1>2, <2>1 DEF Walked, Others
  <2>3. EntriesApart'
    BY <1>1, <1>3, <2>1 DEF EntriesApart
  <2>4. TablesApart'
    BY <1>1, <1>3, <2>1 DEF TablesApart
  <2>5. Somewhere'
    BY <1>1, <1>3, <2>1 DEF Somewhere
  <2> QED
    BY <2>2, <2>3, <2>4, <2>5
<1> QED
  BY <1>2, <1>4, VmStep DEF Others

\* pmm_free_page after the shootdown.
LEMMA FreePageInv ==
  ASSUME IInv, NEW t \in Threads, FreePage(t)
  PROVE  IInv'
<1>1. /\ pc[t] = "free" /\ free' = free \cup {phys[t]} /\ phys' = [phys EXCEPT ![t] = None]
      /\ off' = [off EXCEPT ![t] = @ + 1] /\ req' = [req EXCEPT ![t] = NoReq]
      /\ pc' = [pc EXCEPT ![t] = "unmap"]
      /\ UNCHANGED <<on, inbox, ipi, scan, tlb, areas, live, area, pt, undo, table, pte, panicked, overwritten>>
  BY DEF FreePage, VmAt, Goto
<1>2. phys[t] \in Frames /\ phys[t] # None
  BY <1>1 DEF IInv, TypeOK, InHand
<1>3. TypeOK'
  BY <1>1, <1>2 DEF IInv, TypeOK, Pcs
<1>4. Others(t)
  BY <1>1 DEF IInv, TypeOK, TlbInv, TlbTypeOK, Others
<1>5. NoReq \in ReqType /\ ~PushedOff(t)
  BY <1>1 DEF NoReq, ReqType, PushedOff
<1>6. free' = free \cup ({phys[t]} \ {None})
  BY <1>1, <1>2
<1> QED
  BY <1>1, <1>3, <1>4, <1>5, <1>6, HandEmptied

\* pmm_free_page where vmalloc fails.
LEMMA MapFailsInv ==
  ASSUME IInv, NEW t \in Threads, MapFails(t)
  PROVE  IInv'
<1> DEFINE a == [area[t] EXCEPT !.size = off[t]]
<1>1. /\ pc[t] \in {"map", "table"} /\ pc' = [pc EXCEPT ![t] = "unmap"]
      /\ free' = free \cup ({phys[t]} \ {None}) /\ phys' = [phys EXCEPT ![t] = None]
      /\ areas' = (areas \ {area[t]}) \cup {a} /\ area' = [area EXCEPT ![t] = a]
      /\ off' = [off EXCEPT ![t] = 0] /\ undo' = [undo EXCEPT ![t] = TRUE]
      /\ UNCHANGED <<on, req, inbox, ipi, scan, tlb, live, pt, table, pte, panicked, overwritten>>
  BY DEF MapFails, VmAt, Goto
<1>2. a \in AreaType
  <2>1. More(t)
    BY DEF MapFails, VmAt, IInv, InHand
  <2> QED
    BY <2>1 DEF IInv, TypeOK, AreaType, More
<1> HIDE DEF a
<1>3. TypeOK'
  BY <1>1, <1>2 DEF IInv, TypeOK, Pcs
<1>4. Others(t)
  BY <1>1 DEF IInv, TypeOK, Others
<1>5. ~PushedOff(t) /\ req[t] \in ReqType /\ req' = [req EXCEPT ![t] = req[t]]
  BY <1>1 DEF PushedOff, IInv, TlbInv, TlbTypeOK, ReqType
<1> QED
  BY <1>1, <1>3, <1>4, <1>5, HandEmptied

\* vmm_unmap_page: the frame goes from the page table into the hand of the thread.
LEMMA UnmapPageInv ==
  ASSUME IInv, NEW t \in Threads, UnmapPage(t)
  PROVE  IInv'
<1> DEFINE v == Page(t)
           g == table[PdIndex(v)]
           f == Entry(v)
<1>1. v \in Pages /\ PdIndex(v) \in Directory
  BY PageInRegion DEF UnmapPage
<1>2. /\ pc[t] = "unmap"
      /\ UNCHANGED <<on, inbox, ipi, scan, tlb, areas, live, area, pt, undo, table, free, panicked, overwritten>>
  BY DEF UnmapPage, VmAt
<1>3. CASE f = None
  <2>1. off' = [off EXCEPT ![t] = @ + 1] /\ UNCHANGED <<phys, pte, req, pc>>
    BY <1>3 DEF UnmapPage
  <2>2. pc' = [pc EXCEPT ![t] = "unmap"] /\ \A u \in Threads \ {t} : area'[u] = area[u] /\ off'[u] = off[u]
    BY <1>2, <2>1 DEF IInv, TypeOK
  <2>3. TypeOK'
    BY <1>2, <2>1 DEF IInv, TypeOK
  <2> QED
    BY <1>2, <2>1, <2>2, <2>3, AreaStep
<1>4. CASE f # None
  <2>1. /\ phys' = [phys EXCEPT ![t] = f] /\ pte' = [pte EXCEPT ![g][v] = None]
        /\ req' = [req EXCEPT ![t].virt = v] /\ pc' = [pc EXCEPT ![t] = "flush"] /\ off' = off
    BY <1>4 DEF UnmapPage, Goto
  <2>g. g \in Frames /\ g # None /\ f = pte[g][v] /\ f \in Frames
    BY <1>1, <1>4 DEF Entry, IInv, TypeOK
  <2>v. g = table[PdIndex(v)] /\ f = Entry(v)
    OBVIOUS
  <2> HIDE DEF v, g, f
  <2> DEFINE r == [req[t] EXCEPT !.virt = v]
  <2>2. r \in ReqType /\ r.virt = v
    <3>1. req[t] \in ReqType /\ v \in Nat
      BY <1>1 DEF IInv, TlbInv, TlbTypeOK, ReqType, Pages
    <3> QED
      BY <3>1 DEF ReqType
  <2>3. req' = [req EXCEPT ![t] = r] /\ req \in [Threads -> ReqType]
    BY <2>1 DEF IInv, TlbInv, TlbTypeOK, ReqType
  <2> HIDE DEF r
  <2>4. TypeOK'
    BY <1>1, <1>2, <2>1, <2>g DEF IInv, TypeOK, Pcs
  <2>5. Others(t) /\ pc'[t] = "flush" /\ phys'[t] = f /\ req'[t].virt = v
    BY <1>2, <2>1, <2>2, <2>3 DEF IInv, TypeOK, Others
  <2>6. InHand' /\ \A u \in Threads \ {t} : Page(u)' = Page(u)
    BY <1>1, <1>4, <2>5, OthersInHand
  <2>7. FramesApart'
    <3> SUFFICES ASSUME ~overwritten
                 PROVE  Walked' /\ EntriesApart' /\ TablesApart' /\ Somewhere'
      BY <1>2 DEF FramesApart
    <3>1. Walked /\ EntriesApart /\ TablesApart /\ Somewhere /\ None \notin free /\ phys[t] = None
      BY <1>2 DEF IInv, FramesApart, TypeOK, InHand
    <3>2. \A h \in Frames, w \in Pages : pte'[h][w] = IF h = g /\ w = v THEN None ELSE pte[h][w]
      BY <1>1, <2>1, <2>g DEF IInv, TypeOK
    <3>3. \A w \in Pages : Entry(w)' = IF w = v THEN None ELSE Entry(w)
      <4>1. \A w \in Pages : table[PdIndex(w)] \in Frames \cup {None}
        BY DEF Directory, IInv, TypeOK
      <4> QED
        BY <1>2, <2>g, <2>v, <3>2, <4>1 DEF Entry
    <3>4. \A u \in Threads : phys'[u] = IF u = t THEN f ELSE phys[u]
      BY <2>5 DEF Others
    <3>5. Walked'
      BY <1>2, <2>5, <2>6, <3>1, <3>2 DEF Walked, Others
    <3>6. EntriesApart'
      BY <1>1, <1>2, <1>4, <2>v, <3>1, <3>3, <3>4 DEF EntriesApart
    <3>7. TablesApart'
      BY <1>1, <1>2, <1>4, <2>v, <3>1, <3>3, <3>4 DEF TablesApart
    <3>8. Somewhere'
      BY <1>1, <1>2, <2>v, <3>1, <3>3, <3>4 DEF Somewhere
    <3> QED
      BY <3>5, <3>6, <3>7, <3>8
  <2>8. ~PushedOff(t)
    BY <1>2 DEF PushedOff
  <2> QED
    BY <1>2, <2>1, <2>2, <2>3, <2>4, <2>5, <2>6, <2>7, <2>8, VmStep DEF Others
<1> QED
  BY <1>3, <1>4

-----------------------------------------------------------------------------
(* tlb_shootdown and process_inbox.                                         *)

\* What the steps of the shootdown leave alone.
Elsewhere(t) == pc[t] \notin {"user", "map", "table", "set", "unmap"}
LEMMA PageTableKept ==
  ASSUME IInv, UNCHANGED <<areas, live, area, off, phys, pt, undo, table, pte, free, overwritten>>,
         panicked' \in BOOLEAN, pc' \in [Threads -> Pcs],
         \A t \in Threads : pc'[t] = pc[t] \/ (Elsewhere(t) /\ Elsewhere(t)'),
         \A t \in Threads : req'[t].virt = req[t].virt
  PROVE  TypeOK' /\ InHand' /\ FramesApart'
<1>1. TypeOK'
  BY DEF IInv, TypeOK
<1>2. \A t \in Threads : Page(t)' = Page(t) /\ (More(t)' <=> More(t))
  BY DEF Page, More
<1>3. InHand'
  BY <1>2 DEF IInv, InHand, Elsewhere
<1>4. \A v \in Pages : Entry(v)' = Entry(v)
  BY DEF Entry
<1>5. FramesApart'
  <2> SUFFICES ASSUME ~overwritten
               PROVE  Walked' /\ EntriesApart' /\ TablesApart' /\ Somewhere'
    BY DEF FramesApart
  <2>1. Walked'
    BY <1>2 DEF IInv, FramesApart, Walked, Elsewhere
  <2>2. EntriesApart' /\ TablesApart' /\ Somewhere'
    BY <1>4 DEF IInv, FramesApart, EntriesApart, TablesApart, Somewhere
  <2> QED
    BY <2>1, <2>2
<1> QED
  BY <1>1, <1>3, <1>5

LEMMA VmKept ==
  ASSUME IInv, UNCHANGED vmVars, pc' \in [Threads -> Pcs],
         \A t \in Threads : pc'[t] = pc[t] \/ (Elsewhere(t) /\ Elsewhere(t)'),
         \A t \in Threads : req'[t].virt = req[t].virt
  PROVE  TypeOK' /\ InHand' /\ FramesApart'
<1>1. UNCHANGED <<areas, live, area, off, phys, pt, undo, table, pte, free, overwritten>>
  BY DEF vmVars
<1>2. panicked' \in BOOLEAN
  BY DEF vmVars, IInv, TypeOK
<1> QED
  BY <1>1, <1>2, PageTableKept

\* Nothing changes but that the system panics.
LEMMA PanicsInv ==
  ASSUME IInv, UNCHANGED tlbVars, panicked' \in BOOLEAN,
         UNCHANGED <<areas, live, area, off, phys, pt, undo, table, pte, free, overwritten>>
  PROVE  IInv'
<1>1. TypeOK' /\ InHand' /\ FramesApart'
  <2>1. pc' \in [Threads -> Pcs]
    BY DEF IInv, TypeOK, tlbVars
  <2> QED
    BY <2>1, PageTableKept DEF tlbVars
<1>2. TlbInv' /\ Flushed'
  BY DEF IInv, TlbInv, TlbTypeOK, OwnCpu, ScanInHand, Referred, Counted, Loop,
         Flushed, PushedOff, Passed, Owes, tlbVars
<1> QED
  BY <1>1, <1>2 DEF IInv

\* flush_local.
LEMMA FlushLocalInv ==
  ASSUME IInv, NEW t \in Threads, NEW c \in CPUs, FlushLocal(t, c), UNCHANGED vmVars
  PROVE  IInv'
<1> DEFINE v == req[t].virt
<1>1. /\ pc[t] = "flush" /\ tlb' = [tlb EXCEPT ![c][v] = None]
      /\ pc' = [pc EXCEPT ![t] = "pushoff"] /\ UNCHANGED <<on, req, inbox, ipi, scan>>
  BY DEF FlushLocal, Goto
<1>2. v \in Pages
  BY <1>1 DEF IInv, InHand
<1>3. TypeOK' /\ InHand' /\ FramesApart'
  <2>1. pc' \in [Threads -> Pcs]
    BY <1>1 DEF IInv, TypeOK, Pcs
  <2>2. \A u \in Threads : pc'[u] = pc[u] \/ (Elsewhere(u) /\ Elsewhere(u)')
    BY <1>1 DEF IInv, TypeOK, Elsewhere
  <2> QED
    BY <1>1, <2>1, <2>2, VmKept
<1>4. req[t] \in ReqType /\ req' = [req EXCEPT ![t] = req[t]] /\ ~PushedOff(t)
  BY <1>1 DEF IInv, TlbInv, TlbTypeOK, ReqType, PushedOff
<1> HIDE DEF v
<1>5. /\ tlb' \in [CPUs -> [Pages -> Frames \cup {None}]]
      /\ \A d \in CPUs, w \in Pages : tlb'[d][w] \in {tlb[d][w], None}
  BY <1>1, <1>2 DEF IInv, TlbInv, TlbTypeOK
<1>6. TlbInv'
  BY <1>1, <1>4, <1>5, InterruptsStayOn DEF IInv
<1>7. Flushed'
  <2> SUFFICES ASSUME ~overwritten, NEW u \in Threads, PushedOff(u)',
                      NEW d \in CPUs \ ({on'[u]} \cup Owes(u)'), Passed(u, d)'
               PROVE  tlb'[d][req'[u].virt] # phys'[u]
    BY DEF Flushed, vmVars
  <2>1. u # t /\ pc'[u] = pc[u]
    BY <1>1 DEF IInv, TypeOK, PushedOff
  <2>2. Owes(u)' = Owes(u) /\ PushedOff(u) /\ Passed(u, d)
    BY <1>1, <2>1 DEF Owes, PushedOff, Passed
  <2>3. tlb[d][req[u].virt] # phys[u]
    BY <1>1, <2>2 DEF IInv, Flushed
  <2>4. phys[u] # None /\ req[u].virt \in Pages
    BY <2>2 DEF IInv, InHand, PushedOff
  <2>5. tlb'[d][req[u].virt] \in {tlb[d][req[u].virt], None}
    BY <1>5, <2>4
  <2> QED
    BY <1>1, <2>3, <2>4, <2>5 DEF vmVars
<1> QED
  BY <1>3, <1>6, <1>7 DEF IInv

\* The hardware keeps a translation of the page table: none to a frame in a hand.
LEMMA TlbFillInv ==
  ASSUME IInv, NEW c \in CPUs, NEW v \in Pages, TlbFill(c, v)
  PROVE  IInv'
<1>1. /\ UNCHANGED <<on, pc, req, inbox, ipi, scan>> /\ UNCHANGED vmVars
      /\ \E g \in Frames : pte[g][v] # None /\ tlb' = [tlb EXCEPT ![c][v] = pte[g][v]]
  BY DEF TlbFill
<1>g. PICK g \in Frames : pte[g][v] # None /\ tlb' = [tlb EXCEPT ![c][v] = pte[g][v]]
  BY <1>1
<1>2. TypeOK' /\ InHand' /\ FramesApart'
  <2>1. pc' \in [Threads -> Pcs]
    BY <1>1 DEF IInv, TypeOK
  <2> QED
    BY <1>1, <2>1, VmKept
<1>3. /\ tlb' \in [CPUs -> [Pages -> Frames \cup {None}]]
      /\ \A d \in CPUs, w \in Pages : tlb'[d][w] = IF d = c /\ w = v THEN pte[g][v] ELSE tlb[d][w]
  BY <1>g DEF IInv, TypeOK, TlbInv, TlbTypeOK
<1>4. \A u \in Threads : Owes(u)' = Owes(u)
  BY <1>1 DEF Owes
<1>5. TlbInv'
  BY <1>1, <1>3, <1>4 DEF IInv, TlbInv, TlbTypeOK, OwnCpu, PushedOff, ScanInHand, Referred,
                          Counted, Loop, Passed
<1>6. Flushed'
  <2> SUFFICES ASSUME ~overwritten, NEW u \in Threads, PushedOff(u)',
                      NEW d \in CPUs \ ({on'[u]} \cup Owes(u)'), Passed(u, d)'
               PROVE  tlb'[d][req'[u].virt] # phys'[u]
    BY <1>1 DEF Flushed, vmVars
  <2>1. tlb[d][req[u].virt] # phys[u] /\ PushedOff(u)
    BY <1>1, <1>4 DEF IInv, Flushed, PushedOff, Passed
  <2>2. phys[u] # None /\ req[u].virt \in Pages
    BY <2>1 DEF IInv, InHand, PushedOff
  <2>3. pte[g][v] # phys[u]
    <3>1. table[PdIndex(v)] = g /\ g # None
      BY <1>g DEF IInv, FramesApart, Walked
    <3>2. Entry(v) = pte[g][v]
      BY <3>1 DEF Entry
    <3> QED
      BY <1>g, <3>2 DEF IInv, FramesApart, EntriesApart
  <2> QED
    BY <1>1, <1>3, <2>1, <2>2, <2>3 DEF vmVars
<1> QED
  BY <1>2, <1>5, <1>6 DEF IInv

\* A request that nobody was told of is owed by nobody.
LEMMA NobodyOwes ==
  ASSUME IInv, NEW t \in Threads, ~PushedOff(t), NEW c \in CPUs
  PROVE  scan[c].got # t /\ \A s \in CPUs : inbox[c][s] # t
<1>1. on[t] = None /\ t # None
  BY DEF IInv, TlbInv, OwnCpu
<1>2. None \notin CPUs /\ CPUs \subseteq Nat
  BY DEF CPUs
<1>3. \A s \in CPUs : inbox[c][s] # t
  BY <1>1, <1>2 DEF IInv, TlbInv, Referred
<1>4. scan[c].slot \in Nat
  BY DEF IInv, TlbInv, TlbTypeOK
<1>5. scan[c].got # t
  BY <1>1, <1>4 DEF IInv, TlbInv, Referred
<1> QED
  BY <1>3, <1>5

\* push_off and the first receiver.
LEMMA PushOffInv ==
  ASSUME IInv, NEW t \in Threads, NEW c \in CPUs, PushOff(t, c), UNCHANGED vmVars
  PROVE  IInv'
<1> DEFINE i == NextReceiver(c, 0)
           l == IF i = NCPU THEN "wait" ELSE "send"
           r == [req[t] EXCEPT !.pending = 0, !.i = i]
<1>0. 0 \in 0 .. NCPU
  OBVIOUS
<1>1. /\ pc[t] = "pushoff" /\ \A u \in Threads : on[u] # c
      /\ on' = [on EXCEPT ![t] = c] /\ req' = [req EXCEPT ![t] = r]
      /\ pc' = [pc EXCEPT ![t] = l] /\ UNCHANGED <<inbox, ipi, scan, tlb>>
  <2>1. req' = [req EXCEPT ![t].pending = 0, ![t].i = i]
    BY DEF PushOff
  <2>2. req' = [req EXCEPT ![t] = r]
    BY <2>1 DEF IInv, TlbInv, TlbTypeOK
  <2> QED
    BY <2>2 DEF PushOff, MayRun, InterruptsOn, LoopAt, Goto
<1>2. /\ i \in 0 .. NCPU /\ (i # NCPU => i \in CPUs \ {c})
      /\ \A d \in CPUs : d < i => d = c
  <2>1. /\ i \in 0 .. NCPU /\ (i # NCPU => i \in CPUs \ {c})
        /\ \A d \in CPUs : 0 <= d /\ d < i => d = c
    BY <1>0, Receiver
  <2> QED
    BY <2>1 DEF CPUs
<1> HIDE DEF i
<1>3. r \in ReqType /\ r.pending = 0 /\ r.i = i /\ r.virt = req[t].virt
  <2>1. req[t] \in ReqType
    BY DEF IInv, TlbInv, TlbTypeOK, ReqType
  <2> QED
    BY <1>2, <2>1 DEF ReqType
<1> HIDE DEF r
<1>4. /\ \A u \in Threads : req'[u] = IF u = t THEN r ELSE req[u]
      /\ \A u \in Threads : pc'[u] = IF u = t THEN l ELSE pc[u]
      /\ \A u \in Threads : on'[u] = IF u = t THEN c ELSE on[u]
      /\ l \in {"send", "wait"} /\ (l = "wait" <=> i = NCPU)
  BY <1>1 DEF IInv, TypeOK, TlbInv, TlbTypeOK
<1> HIDE DEF l
<1>5. TypeOK' /\ InHand' /\ FramesApart'
  <2>1. pc' \in [Threads -> Pcs]
    BY <1>1, <1>4 DEF IInv, TypeOK, Pcs
  <2>2. \A u \in Threads : pc'[u] = pc[u] \/ (Elsewhere(u) /\ Elsewhere(u)')
    BY <1>1, <1>4 DEF Elsewhere
  <2>3. \A u \in Threads : req'[u].virt = req[u].virt
    BY <1>3, <1>4
  <2> QED
    BY <2>1, <2>2, <2>3, VmKept
<1>6. \A u \in Threads \ {t} : Owes(u)' = Owes(u)
  BY <1>1, <1>4 DEF Owes
<1>7. Owes(t)' = {}
  <2>1. ~PushedOff(t)
    BY <1>1 DEF PushedOff
  <2>2. \A d \in CPUs : scan[d].got # t /\ inbox[d][c] # t
    BY <2>1, NobodyOwes
  <2> QED
    BY <1>1, <1>4, <2>2 DEF Owes
<1>8. TlbTypeOK'
  BY <1>1, <1>3 DEF IInv, TlbInv, TlbTypeOK, ReqType
<1>9. OwnCpu'
  BY <1>1, <1>4 DEF IInv, TlbInv, OwnCpu, PushedOff, CPUs
<1>10. ScanInHand'
  BY <1>1 DEF IInv, TlbInv, ScanInHand
<1>11. Referred'
  <2>1. ~PushedOff(t)
    BY <1>1 DEF PushedOff
  <2>2. \A d \in CPUs : scan[d].got # t /\ \A s \in CPUs : inbox[d][s] # t
    BY <2>1, NobodyOwes
  <2> QED
    BY <1>1, <1>4, <2>2 DEF IInv, TlbInv, TlbTypeOK, Referred
<1>12. Counted'
  <2>1. Cardinality(Owes(t)') = 0
    BY <1>7, FS_EmptySet
  <2> QED
    BY <1>3, <1>4, <1>6, <2>1 DEF IInv, TlbInv, Counted, PushedOff
<1>13. Loop'
  BY <1>2, <1>3, <1>4, <1>6, <1>7 DEF IInv, TlbInv, Loop, PushedOff, Passed
<1>14. Flushed'
  <2> SUFFICES ASSUME ~overwritten, NEW u \in Threads, PushedOff(u)',
                      NEW d \in CPUs \ ({on'[u]} \cup Owes(u)'), Passed(u, d)'
               PROVE  tlb'[d][req'[u].virt] # phys'[u]
    BY DEF Flushed, vmVars
  <2>1. CASE u = t
    BY <1>2, <1>3, <1>4, <2>1 DEF Passed
  <2>2. CASE u # t
    BY <1>1, <1>4, <1>6, <2>2 DEF IInv, Flushed, PushedOff, Passed, vmVars
  <2> QED
    BY <2>1, <2>2
<1> QED
  BY <1>5, <1>8, <1>9, <1>10, <1>11, <1>12, <1>13, <1>14 DEF IInv, TlbInv

\* A receiver more knows the request, and is counted.
LEMMA SendInv ==
  ASSUME IInv, NEW t \in Threads, Send(t), UNCHANGED vmVars
  PROVE  IInv'
<1> DEFINE i == req[t].i
           r == [req[t] EXCEPT !.pending = @ + 1]
<1>1. /\ pc[t] = "send" /\ inbox' = [inbox EXCEPT ![i][on[t]] = t]
      /\ req' = [req EXCEPT ![t].pending = @ + 1]
      /\ pc' = [pc EXCEPT ![t] = "kick"] /\ UNCHANGED <<on, ipi, scan, tlb>>
  BY DEF Send, At, Goto
<1>2. /\ i \in CPUs \ {on[t]} /\ on[t] \in CPUs /\ i \notin Owes(t)
      /\ \A c \in Owes(t) : c < i
  <2>1. PushedOff(t) /\ on[t] \in CPUs
    BY <1>1 DEF PushedOff, IInv, TlbInv, TlbTypeOK, OwnCpu
  <2>2. i \in CPUs \ {on[t]} /\ \A c \in Owes(t) : c < i
    BY <1>1, <2>1 DEF IInv, TlbInv, Loop, Passed
  <2> QED
    BY <2>1, <2>2 DEF CPUs
<1>3. /\ r \in ReqType /\ r.pending = req[t].pending + 1 /\ r.i = req[t].i
      /\ r.virt = req[t].virt /\ i = req[t].i /\ req' = [req EXCEPT ![t] = r]
      /\ req \in [Threads -> ReqType]
  <2>1. req \in [Threads -> ReqType]
    BY DEF IInv, TlbInv, TlbTypeOK, ReqType
  <2> QED
    BY <1>1, <2>1 DEF ReqType
<1> HIDE DEF r, i
<1>4. /\ \A u \in Threads : req'[u] = IF u = t THEN r ELSE req[u]
      /\ \A u \in Threads : pc'[u] = IF u = t THEN "kick" ELSE pc[u]
      /\ \A c, s \in CPUs : inbox'[c][s] = IF c = i /\ s = on[t] THEN t ELSE inbox[c][s]
      /\ inbox' \in [CPUs -> [CPUs -> Threads \cup {None}]]
  BY <1>1, <1>2, <1>3 DEF IInv, TypeOK, TlbInv, TlbTypeOK
<1>5. TypeOK' /\ InHand' /\ FramesApart'
  <2>1. pc' \in [Threads -> Pcs]
    BY <1>1 DEF IInv, TypeOK, Pcs
  <2>2. \A u \in Threads : pc'[u] = pc[u] \/ (Elsewhere(u) /\ Elsewhere(u)')
    BY <1>1, <1>4 DEF Elsewhere
  <2>3. \A u \in Threads : req'[u].virt = req[u].virt
    BY <1>3, <1>4
  <2> QED
    BY <2>1, <2>2, <2>3, VmKept
<1>6. ASSUME NEW u \in Threads, PushedOff(u)
      PROVE  Owes(u)' = IF u = t THEN Owes(t) \cup {i} ELSE Owes(u)
  <2>1. on[u] \in CPUs /\ (on[u] = on[t] => u = t)
    BY <1>6 DEF IInv, TlbInv, TlbTypeOK, OwnCpu
  <2>2. CASE u = t
    BY <1>1, <1>2, <1>4, <2>1, <2>2 DEF Owes
  <2>3. CASE u # t
    BY <1>1, <1>2, <1>4, <2>1, <2>3 DEF Owes
  <2> QED
    BY <2>2, <2>3
<1>7. \A u \in Threads : PushedOff(u)' <=> PushedOff(u)
  BY <1>1, <1>4 DEF PushedOff
<1>8. TlbTypeOK'
  <2>1. req' \in [Threads -> ReqType]
    BY <1>3
  <2> QED
    BY <1>1, <1>4, <2>1 DEF IInv, TlbInv, TlbTypeOK, ReqType
<1>9. OwnCpu' /\ ScanInHand'
  BY <1>1, <1>7 DEF IInv, TlbInv, OwnCpu, ScanInHand
<1>10. Referred'
  <2>1. scan[i].got # t
    BY <1>2 DEF Owes
  <2>2. \A c \in CPUs : scan[c].got # None => on[scan[c].got] = scan[c].slot
    BY DEF IInv, TlbInv, Referred
  <2>3. \A c, s \in CPUs : inbox'[c][s] # None => on'[inbox'[c][s]] = s
    BY <1>1, <1>2, <1>4 DEF IInv, TlbInv, Referred
  <2>4. ASSUME NEW c \in CPUs, scan[c].got # None
        PROVE  inbox'[c][scan[c].slot] # scan[c].got
    <3>1. scan[c].got \in Threads /\ scan[c].slot = on[scan[c].got] /\ scan[c].slot \in 0 .. NCPU
      BY <2>2, <2>4 DEF IInv, TlbInv, TlbTypeOK
    <3>2. scan[c].slot \in CPUs
      BY <3>1 DEF IInv, TlbInv, TlbTypeOK
    <3>3. inbox[c][scan[c].slot] # scan[c].got
      BY <2>4 DEF IInv, TlbInv, Referred
    <3> QED
      BY <1>4, <2>1, <3>2, <3>3
  <2> QED
    BY <1>1, <2>2, <2>3, <2>4 DEF Referred
<1>11. Counted'
  <2>1. req[t].pending = Cardinality(Owes(t)) /\ PushedOff(t)
    BY <1>1 DEF IInv, TlbInv, Counted, PushedOff
  <2>2. Cardinality(Owes(t) \cup {i}) = Cardinality(Owes(t)) + 1
    BY <1>2, OwesFinite, OneMore
  <2>3. ASSUME NEW u \in Threads, PushedOff(u)
        PROVE  req'[u].pending = Cardinality(Owes(u)')
    <3>1. CASE u = t
      BY <1>3, <1>4, <1>6, <2>1, <2>2, <3>1
    <3>2. CASE u # t
      BY <1>4, <1>6, <2>3, <3>2 DEF IInv, TlbInv, Counted
    <3> QED
      BY <3>1, <3>2
  <2> QED
    BY <1>7, <2>3 DEF Counted
<1>12. Loop'
  <2>1. PushedOff(t)
    BY <1>1 DEF PushedOff
  <2>2. Owes(t)' = Owes(t) \cup {i} /\ req'[t].i = i /\ pc'[t] = "kick"
    BY <1>3, <1>4, <1>6, <2>1
  <2>3. \A c \in Owes(t)' : Passed(t, c)'
    BY <1>2, <2>2 DEF Passed
  <2>4. ASSUME NEW u \in Threads \ {t}
        PROVE  /\ pc'[u] \in {"send", "kick"} => req'[u].i \in CPUs \ {on'[u]}
               /\ pc'[u] = "wait" => req'[u].i = NCPU
               /\ PushedOff(u) => \A c \in Owes(u)' : Passed(u, c)'
    BY <1>1, <1>4, <1>6 DEF IInv, TlbInv, Loop, Passed
  <2> QED
    BY <1>1, <1>2, <1>7, <2>2, <2>3, <2>4 DEF Loop
<1>13. Flushed'
  <2> SUFFICES ASSUME ~overwritten, NEW u \in Threads, PushedOff(u),
                      NEW d \in CPUs \ ({on[u]} \cup Owes(u)'), Passed(u, d)'
               PROVE  tlb[d][req'[u].virt] # phys[u]
    BY <1>1, <1>7 DEF Flushed, vmVars
  <2>1. d \notin Owes(u)
    BY <1>6
  <2>2. Passed(u, d)
    <3>1. CASE u = t
      <4>1. d # i
        BY <1>6, <3>1
      <4> QED
        BY <1>1, <1>3, <1>4, <3>1, <4>1 DEF Passed
    <3>2. CASE u # t
      BY <1>4, <3>2 DEF Passed
    <3> QED
      BY <3>1, <3>2
  <2> QED
    BY <1>3, <1>4, <2>1, <2>2 DEF IInv, Flushed
<1> QED
  BY <1>5, <1>8, <1>9, <1>10, <1>11, <1>12, <1>13 DEF IInv, TlbInv

\* The interrupt, and on to the next receiver.
LEMMA KickInv ==
  ASSUME IInv, NEW t \in Threads, Kick(t), UNCHANGED vmVars
  PROVE  IInv'
<1> DEFINE i == NextReceiver(on[t], req[t].i + 1)
           l == IF i = NCPU THEN "wait" ELSE "send"
           r == [req[t] EXCEPT !.i = i]
<1>1. /\ pc[t] = "kick" /\ ipi' = [ipi EXCEPT ![req[t].i] = TRUE]
      /\ req' = [req EXCEPT ![t].i = i]
      /\ pc' = [pc EXCEPT ![t] = l] /\ UNCHANGED <<on, inbox, scan, tlb>>
  BY DEF Kick, At, Goto, LoopAt
<1>2. PushedOff(t) /\ on[t] \in CPUs /\ req[t].i \in CPUs \ {on[t]}
  BY <1>1 DEF PushedOff, IInv, TlbInv, TlbTypeOK, OwnCpu, Loop
<1>3. req[t].i \in Nat /\ req[t].i + 1 \in 0 .. NCPU
  BY <1>2 DEF CPUs
<1>4. /\ i \in req[t].i + 1 .. NCPU /\ (i # NCPU => i \in CPUs \ {on[t]})
      /\ \A d \in CPUs : req[t].i + 1 <= d /\ d < i => d = on[t]
  BY <1>2, <1>3, Receiver
<1> HIDE DEF i
<1>5. /\ r \in ReqType /\ r.pending = req[t].pending /\ r.i = i /\ r.virt = req[t].virt
      /\ req' = [req EXCEPT ![t] = r] /\ req \in [Threads -> ReqType]
  <2>1. req \in [Threads -> ReqType]
    BY DEF IInv, TlbInv, TlbTypeOK, ReqType
  <2>2. i \in 0 .. NCPU
    BY <1>3, <1>4
  <2> QED
    BY <1>1, <2>1, <2>2 DEF ReqType
<1> HIDE DEF r
<1>6. /\ \A u \in Threads : req'[u] = IF u = t THEN r ELSE req[u]
      /\ \A u \in Threads : pc'[u] = IF u = t THEN l ELSE pc[u]
      /\ l \in {"send", "wait"} /\ (l = "wait" <=> i = NCPU)
  BY <1>1, <1>5 DEF IInv, TypeOK
<1> HIDE DEF l
<1>7. TypeOK' /\ InHand' /\ FramesApart'
  <2>1. pc' \in [Threads -> Pcs]
    BY <1>1, <1>6 DEF IInv, TypeOK, Pcs
  <2>2. \A u \in Threads : pc'[u] = pc[u] \/ (Elsewhere(u) /\ Elsewhere(u)')
    BY <1>1, <1>6 DEF Elsewhere
  <2>3. \A u \in Threads : req'[u].virt = req[u].virt
    BY <1>5, <1>6
  <2> QED
    BY <2>1, <2>2, <2>3, VmKept
<1>8. /\ \A u \in Threads : Owes(u)' = Owes(u)
      /\ \A u \in Threads : PushedOff(u)' <=> PushedOff(u)
  BY <1>1, <1>6 DEF Owes, PushedOff
<1>9. TlbTypeOK'
  <2>1. req' \in [Threads -> ReqType]
    BY <1>5
  <2> QED
    BY <1>1, <2>1 DEF IInv, TlbInv, TlbTypeOK, ReqType
<1>10. OwnCpu' /\ ScanInHand' /\ Referred'
  BY <1>1, <1>8 DEF IInv, TlbInv, OwnCpu, ScanInHand, Referred
<1>11. Counted'
  BY <1>5, <1>6, <1>8 DEF IInv, TlbInv, Counted
<1>12. Loop'
  <2>1. ASSUME NEW c \in Owes(t)
        PROVE  c < i
    <3>1. Passed(t, c) /\ c \in Nat
      BY <1>2 DEF IInv, TlbInv, Loop, Owes, CPUs
    <3> QED
      BY <1>3, <1>4, <3>1 DEF Passed
  <2>2. ASSUME NEW u \in Threads \ {t}
        PROVE  /\ pc'[u] \in {"send", "kick"} => req'[u].i \in CPUs \ {on'[u]}
               /\ pc'[u] = "wait" => req'[u].i = NCPU
               /\ PushedOff(u) => \A c \in Owes(u)' : Passed(u, c)'
    BY <1>1, <1>6, <1>8 DEF IInv, TlbInv, Loop, Passed
  <2>3. /\ pc'[t] = "send" => req'[t].i \in CPUs \ {on'[t]}
        /\ pc'[t] = "wait" => req'[t].i = NCPU
        /\ pc'[t] # "kick"
        /\ \A c \in Owes(t)' : Passed(t, c)'
    BY <1>1, <1>4, <1>5, <1>6, <1>8, <2>1 DEF Passed
  <2> QED
    BY <1>8, <2>2, <2>3 DEF Loop
<1>13. Flushed'
  <2> SUFFICES ASSUME ~overwritten, NEW u \in Threads, PushedOff(u),
                      NEW d \in CPUs \ ({on[u]} \cup Owes(u)), Passed(u, d)'
               PROVE  tlb[d][req'[u].virt] # phys[u]
    BY <1>1, <1>8 DEF Flushed, vmVars
  <2>1. Passed(u, d)
    <3>1. CASE u = t
      <4>1. d < i /\ d \in Nat
        BY <1>5, <1>6, <3>1 DEF Passed, CPUs
      <4>2. d < req[t].i \/ d = req[t].i
        BY <1>3, <1>4, <3>1, <4>1
      <4> QED
        BY <1>1, <3>1, <4>2 DEF Passed
    <3>2. CASE u # t
      BY <1>6, <3>2 DEF Passed
    <3> QED
      BY <3>1, <3>2
  <2> QED
    BY <1>5, <1>6, <2>1 DEF IInv, Flushed
<1> QED
  BY <1>7, <1>9, <1>10, <1>11, <1>12, <1>13 DEF IInv, TlbInv

\* All have answered: nobody knows the request when tlb_shootdown returns.
LEMMA ReturnsInv ==
  ASSUME IInv, NEW t \in Threads, ShootdownReturns(t, "free"), UNCHANGED vmVars
  PROVE  IInv'
<1>1. /\ pc[t] = "wait" /\ req[t].pending = 0 /\ on' = [on EXCEPT ![t] = None]
      /\ pc' = [pc EXCEPT ![t] = "free"] /\ UNCHANGED <<req, inbox, ipi, scan, tlb>>
  BY DEF ShootdownReturns, At, Goto, AllAnswered
<1>2. Owes(t) = {} /\ PushedOff(t) /\ on[t] \in CPUs
  <2>1. PushedOff(t) /\ Cardinality(Owes(t)) = 0
    BY <1>1 DEF PushedOff, IInv, TlbInv, Counted
  <2> QED
    BY <2>1, OwesFinite, FS_EmptySet DEF IInv, TlbInv, TlbTypeOK, OwnCpu
<1>3. /\ \A u \in Threads : pc'[u] = IF u = t THEN "free" ELSE pc[u]
      /\ \A u \in Threads : on'[u] = IF u = t THEN None ELSE on[u]
  BY <1>1 DEF IInv, TypeOK, TlbInv, TlbTypeOK
<1>4. TypeOK' /\ InHand' /\ FramesApart'
  <2>1. pc' \in [Threads -> Pcs]
    BY <1>1 DEF IInv, TypeOK, Pcs
  <2>2. \A u \in Threads : pc'[u] = pc[u] \/ (Elsewhere(u) /\ Elsewhere(u)')
    BY <1>1, <1>3 DEF Elsewhere
  <2> QED
    BY <1>1, <2>1, <2>2, VmKept
<1>5. \A u \in Threads \ {t} : Owes(u)' = Owes(u) /\ (PushedOff(u)' <=> PushedOff(u))
  BY <1>1, <1>3 DEF Owes, PushedOff
<1>6. ~PushedOff(t)'
  BY <1>3 DEF PushedOff
<1>7. TlbTypeOK' /\ ScanInHand'
  BY <1>1 DEF IInv, TlbInv, TlbTypeOK, ScanInHand
<1>8. OwnCpu'
  BY <1>3, <1>5, <1>6 DEF IInv, TlbInv, OwnCpu
<1>9. Referred'
  <2>1. ASSUME NEW c \in CPUs
        PROVE  scan[c].got # t /\ \A s \in CPUs : inbox[c][s] # t
    <3>1. scan[c].got # t /\ inbox[c][on[t]] # t
      BY <1>2 DEF Owes
    <3> QED
      BY <3>1 DEF IInv, TlbInv, Referred
  <2> QED
    BY <1>1, <1>3, <2>1 DEF IInv, TlbInv, TlbTypeOK, Referred
<1>10. Counted' /\ Loop'
  BY <1>1, <1>3, <1>5, <1>6 DEF IInv, TlbInv, Counted, Loop, Passed
<1>11. Flushed'
  BY <1>1, <1>3, <1>5, <1>6 DEF IInv, Flushed, Passed, vmVars
<1> QED
  BY <1>4, <1>7, <1>8, <1>9, <1>10, <1>11 DEF IInv, TlbInv

\* process_inbox begins or ends.
LEMMA ScanStep ==
  ASSUME IInv, NEW c \in CPUs, scan[c].step # "answer", NEW x \in {Scan, Idle},
         scan' = [scan EXCEPT ![c] = x], ipi' \in [CPUs -> BOOLEAN],
         UNCHANGED <<on, pc, req, inbox, tlb>>, UNCHANGED vmVars
  PROVE  IInv'
<1>1. /\ x \in [step : {"idle", "take", "answer"}, slot : 0 .. NCPU, got : Threads \cup {None}]
      /\ x.got = None /\ x.step # "answer" /\ scan[c].got = None
  BY DEF Scan, Idle, IInv, TlbInv, ScanInHand
<1>2. scan' \in [CPUs -> [step : {"idle", "take", "answer"}, slot : 0 .. NCPU,
                          got : Threads \cup {None}]]
  BY <1>1 DEF IInv, TlbInv, TlbTypeOK
<1>3. \A d \in CPUs : scan'[d] = IF d = c THEN x ELSE scan[d]
  BY DEF IInv, TlbInv, TlbTypeOK
<1>4. \A u \in Threads : Owes(u)' = Owes(u)
  BY <1>1, <1>3 DEF Owes
<1>5. TypeOK' /\ InHand' /\ FramesApart'
  <2>1. pc' \in [Threads -> Pcs]
    BY DEF IInv, TypeOK
  <2> QED
    BY <2>1, VmKept
<1>6. TlbTypeOK'
  BY <1>2 DEF IInv, TlbInv, TlbTypeOK
<1>7. OwnCpu' /\ ScanInHand' /\ Referred'
  BY <1>1, <1>3 DEF IInv, TlbInv, OwnCpu, PushedOff, ScanInHand, Referred
<1>8. Counted' /\ Loop' /\ Flushed'
  BY <1>4 DEF IInv, TlbInv, Counted, Loop, Flushed, PushedOff, Passed, vmVars
<1> QED
  BY <1>5, <1>6, <1>7, <1>8 DEF IInv, TlbInv

\* A request is taken out of its slot: the CPU still knows it.
LEMMA TakeInv ==
  ASSUME IInv, NEW c \in CPUs, Take(c), UNCHANGED vmVars
  PROVE  IInv'
<1> DEFINE s == Min(Filled(c))
           t == inbox[c][s]
           x == [step |-> "answer", slot |-> s, got |-> t]
<1>1. /\ scan[c].step = "take" /\ Filled(c) # {} /\ inbox' = [inbox EXCEPT ![c][s] = None]
      /\ scan' = [scan EXCEPT ![c] = x] /\ UNCHANGED <<on, pc, req, ipi, tlb>>
  BY DEF Take
<1>2. s \in CPUs /\ t # None
  <2>1. Filled(c) \in SUBSET Nat
    BY DEF Filled, CPUs
  <2>2. s \in Filled(c)
    BY <1>1, <2>1, SmallestOf
  <2> QED
    BY <2>2 DEF Filled
<1> HIDE DEF s
<1>3. t \in Threads /\ on[t] = s /\ scan[c].got = None
  BY <1>1, <1>2 DEF IInv, TlbInv, TlbTypeOK, Referred, ScanInHand
<1>4. /\ x \in [step : {"idle", "take", "answer"}, slot : 0 .. NCPU, got : Threads \cup {None}]
      /\ x.got = t /\ x.step = "answer" /\ x.slot = s
  BY <1>2, <1>3 DEF CPUs
<1>t. t = inbox[c][s]
  OBVIOUS
<1> HIDE DEF t, x
<1>5. /\ \A d \in CPUs : scan'[d] = IF d = c THEN x ELSE scan[d]
      /\ \A d, e \in CPUs : inbox'[d][e] = IF d = c /\ e = s THEN None ELSE inbox[d][e]
      /\ inbox' \in [CPUs -> [CPUs -> Threads \cup {None}]]
  BY <1>1, <1>2 DEF IInv, TlbInv, TlbTypeOK
<1>6. ASSUME NEW u \in Threads, PushedOff(u)
      PROVE  Owes(u)' = Owes(u)
  <2>1. on[u] \in CPUs /\ (on[u] = s => u = t)
    BY <1>2, <1>3, <1>6 DEF IInv, TlbInv, TlbTypeOK, OwnCpu
  <2>2. ASSUME NEW d \in CPUs
        PROVE  (inbox'[d][on[u]] = u \/ scan'[d].got = u) <=> (inbox[d][on[u]] = u \/ scan[d].got = u)
    BY <1>2, <1>3, <1>4, <1>5, <1>t, <2>1
  <2> QED
    BY <1>1, <2>2 DEF Owes
<1>7. TypeOK' /\ InHand' /\ FramesApart'
  <2>1. pc' \in [Threads -> Pcs]
    BY <1>1 DEF IInv, TypeOK
  <2> QED
    BY <1>1, <2>1, VmKept
<1>8. TlbTypeOK'
  BY <1>1, <1>4, <1>5 DEF IInv, TlbInv, TlbTypeOK
<1>9. OwnCpu' /\ ScanInHand'
  BY <1>1, <1>2, <1>4, <1>5, <1>t DEF IInv, TlbInv, OwnCpu, PushedOff, ScanInHand
<1>10. Referred'
  <2>1. \A d, e \in CPUs : inbox'[d][e] # None => on[inbox'[d][e]] = e
    BY <1>5 DEF IInv, TlbInv, Referred
  <2>2. ASSUME NEW d \in CPUs, scan'[d].got # None
        PROVE  on[scan'[d].got] = scan'[d].slot /\ inbox'[d][scan'[d].slot] # scan'[d].got
    <3>1. CASE d = c
      BY <1>2, <1>3, <1>4, <1>5, <1>t, <3>1
    <3>2. CASE d # c
      <4>1. /\ on[scan[d].got] = scan[d].slot /\ inbox[d][scan[d].slot] # scan[d].got
            /\ scan[d].got \in Threads
        BY <1>5, <2>2, <3>2 DEF IInv, TlbInv, TlbTypeOK, Referred
      <4>2. scan[d].slot \in CPUs
        <5>1. scan[d].slot \in Nat
          BY DEF IInv, TlbInv, TlbTypeOK
        <5> QED
          BY <4>1, <5>1 DEF IInv, TlbInv, TlbTypeOK
      <4> QED
        BY <1>5, <3>2, <4>1, <4>2
    <3> QED
      BY <3>1, <3>2
  <2> QED
    BY <1>1, <2>1, <2>2 DEF Referred
<1>11. Counted' /\ Loop' /\ Flushed'
  <2>1. \A u \in Threads : PushedOff(u)' <=> PushedOff(u)
    BY <1>1 DEF PushedOff
  <2> QED
    BY <1>1, <1>6, <2>1 DEF IInv, TlbInv, Counted, Loop, Flushed, Passed, vmVars
<1> QED
  BY <1>7, <1>8, <1>9, <1>10, <1>11 DEF IInv, TlbInv

\* The translation is dropped and the answer counted: the CPU knows the request no
\* longer, and the sender's stack is not touched again.
LEMMA AnswerInv ==
  ASSUME IInv, NEW c \in CPUs, Answer(c), UNCHANGED vmVars
  PROVE  IInv'
<1>0. scan[c].step = "answer" /\ scan[c].got \in Threads
  BY DEF Answer, IInv, TlbInv, TlbTypeOK, ScanInHand
<1>t. PICK t \in Threads : t = scan[c].got
  BY <1>0
<1> DEFINE x == [Scan EXCEPT !.slot = scan[c].slot + 1]
           r == [req[t] EXCEPT !.pending = @ - 1]
           v == req[t].virt
<1>1. /\ scan[c].step = "answer" /\ tlb' = [tlb EXCEPT ![c][v] = None]
      /\ req' = [req EXCEPT ![t].pending = @ - 1] /\ scan' = [scan EXCEPT ![c] = x]
      /\ UNCHANGED <<on, pc, inbox, ipi>>
  BY <1>0, <1>t DEF Answer
<1>2. t \in Threads /\ on[t] = scan[c].slot /\ inbox[c][on[t]] # t
  BY <1>0, <1>t DEF IInv, TlbInv, Referred
<1>3. on[t] \in CPUs /\ PushedOff(t)
  <2>1. scan[c].slot \in Nat
    BY DEF IInv, TlbInv, TlbTypeOK
  <2> QED
    BY <1>2, <2>1 DEF IInv, TlbInv, TlbTypeOK, OwnCpu
<1>4. c \in Owes(t) /\ req[t].pending = Cardinality(Owes(t)) /\ req[t].pending > 0
  <2>1. c \in Owes(t) /\ req[t].pending = Cardinality(Owes(t))
    BY <1>2, <1>3, <1>t DEF Owes, IInv, TlbInv, Counted
  <2> QED
    BY <2>1, OwesFinite, OneMore
<1>5. v \in Pages /\ phys[t] # None
  BY <1>2, <1>3 DEF IInv, InHand, PushedOff
<1>6. /\ r \in ReqType /\ r.pending = req[t].pending - 1 /\ r.i = req[t].i
      /\ r.virt = req[t].virt /\ req' = [req EXCEPT ![t] = r] /\ req \in [Threads -> ReqType]
  <2>1. req \in [Threads -> ReqType]
    BY DEF IInv, TlbInv, TlbTypeOK, ReqType
  <2>2. req[t] \in ReqType /\ req[t].pending - 1 \in Nat
    BY <1>2, <1>4, <2>1 DEF ReqType
  <2> QED
    BY <1>1, <2>1, <2>2 DEF ReqType
<1>7. /\ x \in [step : {"idle", "take", "answer"}, slot : 0 .. NCPU, got : Threads \cup {None}]
      /\ x.got = None /\ x.step = "take"
  <2>1. scan[c].slot + 1 \in 0 .. NCPU
    BY <1>2, <1>3 DEF CPUs
  <2> QED
    BY <2>1 DEF Scan, Idle
<1> HIDE DEF x, r, v
<1>8. /\ \A d \in CPUs : scan'[d] = IF d = c THEN x ELSE scan[d]
      /\ \A u \in Threads : req'[u] = IF u = t THEN r ELSE req[u]
      /\ \A d \in CPUs, w \in Pages : tlb'[d][w] \in {tlb[d][w], None}
      /\ tlb'[c][v] = None
      /\ tlb' \in [CPUs -> [Pages -> Frames \cup {None}]]
  BY <1>1, <1>5, <1>6 DEF IInv, TlbInv, TlbTypeOK
<1>9. /\ Owes(t)' = Owes(t) \ {c}
      /\ \A u \in Threads \ {t} : Owes(u)' = Owes(u)
  <2>1. ASSUME NEW u \in Threads, NEW d \in CPUs
        PROVE  (inbox'[d][on'[u]] = u \/ scan'[d].got = u)
               <=> (inbox[d][on[u]] = u \/ scan[d].got = u) /\ ~(u = t /\ d = c)
    <3>1. u # None
      OBVIOUS
    <3> QED
      BY <1>1, <1>2, <1>7, <1>8, <1>t, <3>1
  <2>2. Owes(t)' = Owes(t) \ {c}
    BY <1>2, <2>1 DEF Owes
  <2>3. ASSUME NEW u \in Threads \ {t}
        PROVE  Owes(u)' = Owes(u)
    BY <2>1 DEF Owes
  <2> QED
    BY <2>2, <2>3
<1>10. TypeOK' /\ InHand' /\ FramesApart'
  <2>1. pc' \in [Threads -> Pcs]
    BY <1>1 DEF IInv, TypeOK
  <2>2. \A u \in Threads : req'[u].virt = req[u].virt
    BY <1>6, <1>8
  <2> QED
    BY <1>1, <2>1, <2>2, VmKept
<1>11. TlbTypeOK'
  <2>1. req' \in [Threads -> ReqType]
    BY <1>6
  <2>2. scan' \in [CPUs -> [step : {"idle", "take", "answer"}, slot : 0 .. NCPU,
                            got : Threads \cup {None}]]
    BY <1>1, <1>7 DEF IInv, TlbInv, TlbTypeOK
  <2> QED
    BY <1>1, <1>8, <2>1, <2>2 DEF IInv, TlbInv, TlbTypeOK, ReqType
<1>12. OwnCpu' /\ ScanInHand' /\ Referred'
  BY <1>1, <1>7, <1>8 DEF IInv, TlbInv, OwnCpu, PushedOff, ScanInHand, Referred
<1>13. Counted'
  <2>1. Cardinality(Owes(t) \ {c}) = Cardinality(Owes(t)) - 1
    BY <1>4, OwesFinite, OneMore
  <2>2. ASSUME NEW u \in Threads, PushedOff(u)
        PROVE  req'[u].pending = Cardinality(Owes(u)')
    <3>1. CASE u = t
      BY <1>4, <1>6, <1>8, <1>9, <2>1, <3>1
    <3>2. CASE u # t
      BY <1>8, <1>9, <2>2, <3>2 DEF IInv, TlbInv, Counted
    <3> QED
      BY <3>1, <3>2
  <2> QED
    BY <1>1, <2>2 DEF Counted, PushedOff
<1>14. Loop'
  <2>1. \A u \in Threads : req'[u].i = req[u].i /\ Owes(u)' \subseteq Owes(u)
    BY <1>6, <1>8, <1>9
  <2> QED
    BY <1>1, <2>1 DEF IInv, TlbInv, Loop, PushedOff, Passed
<1>15. Flushed'
  <2> SUFFICES ASSUME ~overwritten, NEW u \in Threads, PushedOff(u),
                      NEW d \in CPUs \ ({on[u]} \cup Owes(u)'), Passed(u, d)'
               PROVE  tlb'[d][req'[u].virt] # phys[u]
    BY <1>1 DEF Flushed, PushedOff, vmVars
  <2>1. Passed(u, d) /\ req'[u].virt = req[u].virt
    BY <1>1, <1>6, <1>8 DEF Passed
  <2>2. phys[u] # None /\ req[u].virt \in Pages
    BY DEF IInv, InHand, PushedOff
  <2>3. CASE u = t /\ d = c
    BY <1>8, <2>1, <2>2, <2>3 DEF v
  <2>4. CASE ~(u = t /\ d = c)
    <3>1. d \notin Owes(u)
      BY <1>9, <2>4
    <3>2. tlb[d][req[u].virt] # phys[u]
      BY <2>1, <3>1 DEF IInv, Flushed
    <3>3. tlb'[d][req[u].virt] \in {tlb[d][req[u].virt], None}
      BY <1>8, <2>2
    <3> QED
      BY <2>1, <2>2, <3>2, <3>3
  <2> QED
    BY <2>3, <2>4
<1> QED
  BY <1>10, <1>11, <1>12, <1>13, <1>14, <1>15 DEF IInv, TlbInv

-----------------------------------------------------------------------------
\* IInv is an invariant.
THEOREM VmallocInvariant == Spec => []IInv
<1>1. Init => IInv
  <2> SUFFICES ASSUME Init PROVE IInv
    OBVIOUS
  <2>1. TypeOK
    <3>1. NoArea \in AreaType
      BY DEF NoArea, AreaType
    <3>2. NoEntries \in [Pages -> Frames \cup {None}]
      BY DEF NoEntries
    <3> QED
      BY <3>1, <3>2 DEF Init, TypeOK, Pcs
  <2>2. TlbTypeOK
    BY DEF Init, TlbInit, TlbTypeOK, NoReq, Idle
  <2>3. \A t \in Threads : ~PushedOff(t) /\ pc[t] = "user" /\ on[t] = None
    BY DEF Init, TlbInit, PushedOff
  <2>4. \A c \in CPUs : scan[c].got = None /\ scan[c].step = "idle" /\ \A s \in CPUs : inbox[c][s] = None
    BY DEF Init, TlbInit, Idle
  <2>5. OwnCpu /\ ScanInHand /\ Referred /\ Counted /\ Loop /\ Flushed
    BY <2>3, <2>4 DEF OwnCpu, ScanInHand, Referred, Counted, Loop, Flushed
  <2>6. InHand
    BY <2>3 DEF Init, InHand
  <2>7. FramesApart
    <3>1. \A v \in Pages : PdIndex(v) \in Directory
      BY DEF Directory
    <3>2. \A v \in Pages : Entry(v) = None
      BY <3>1 DEF Init, Entry
    <3>3. None \notin free /\ \A g \in Frames, v \in Pages : pte[g][v] = None
      BY DEF Init, NoEntries
    <3> QED
      BY <2>3, <3>2, <3>3 DEF Init, FramesApart, Walked, EntriesApart, TablesApart, Somewhere
  <2> QED
    BY <2>1, <2>2, <2>5, <2>6, <2>7 DEF IInv, TlbInv
<1>2. IInv /\ [Next]_vars => IInv'
  <2> SUFFICES ASSUME IInv, [Next]_vars PROVE IInv'
    OBVIOUS
  <2>1. CASE UNCHANGED vars
    <3>1. UNCHANGED tlbVars /\ UNCHANGED vmVars
      BY <2>1 DEF vars
    <3>2. panicked' \in BOOLEAN
      BY <3>1 DEF vmVars, IInv, TypeOK
    <3> QED
      BY <3>1, <3>2, PanicsInv DEF vmVars
  <2>2. ASSUME NEW t \in Threads, Vm(t)
        PROVE  IInv'
    <3>1. CASE MapPanics(t)
      BY <3>1, PanicsInv DEF MapPanics
    <3> QED
      BY <2>2, <3>1, vmallocInv, AreaActionsInv, MapPageInv, MakeTableInv, SetEntryInv, MapFailsInv,
         UnmapPageInv, FreePageInv DEF Vm
  <2>3. ASSUME NEW t \in Threads, Shootdown(t)
        PROVE  IInv'
    <3>1. CASE \E c \in CPUs : (FlushLocal(t, c) \/ PushOff(t, c)) /\ ~panicked /\ UNCHANGED vmVars
      BY <3>1, FlushLocalInv, PushOffInv
    <3>2. CASE OffStep(t, "free") /\ UNCHANGED vmVars
      <4>1. CASE WaitScans(t)
        <5>1. on[t] \in CPUs
          BY <4>1 DEF WaitScans, At, IInv, TlbInv, TlbTypeOK, OwnCpu, PushedOff
        <5>2. /\ scan[on[t]].step # "answer" /\ ipi' \in [CPUs -> BOOLEAN]
              /\ scan' = [scan EXCEPT ![on[t]] = Scan] /\ UNCHANGED <<on, pc, req, inbox, tlb>>
          BY <4>1 DEF WaitScans, At, IInv, TlbInv, TlbTypeOK
        <5> QED
          BY <3>2, <5>1, <5>2, ScanStep
      <4> QED
        BY <3>2, <4>1, SendInv, KickInv, ReturnsInv DEF OffStep
    <3> QED
      BY <2>3, <3>1, <3>2 DEF Shootdown, InterruptsOff
  <2>4. ASSUME NEW c \in CPUs, Inbox(c)
        PROVE  IInv'
    <3>1. CASE TlbIpi(c) \/ ScanEnds(c)
      <4>1. PICK x \in {Scan, Idle} :
               /\ scan[c].step # "answer" /\ ipi' \in [CPUs -> BOOLEAN]
               /\ scan' = [scan EXCEPT ![c] = x] /\ UNCHANGED <<on, pc, req, inbox, tlb>>
        BY <3>1 DEF TlbIpi, ScanEnds, IInv, TlbInv, TlbTypeOK
      <4> QED
        BY <2>4, <4>1, ScanStep DEF Inbox
    <3> QED
      BY <2>4, <3>1, TakeInv, AnswerInv DEF Inbox, CpuStep
  <2>5. ASSUME NEW x \in Touched, TlbFill(x[1], x[2])
        PROVE  IInv'
    <3>1. x[1] \in CPUs /\ x[2] \in Pages
      BY VmallocAssumption
    <3> QED
      BY <2>5, <3>1, TlbFillInv
  <2> QED
    BY <2>1, <2>2, <2>3, <2>4, <2>5 DEF Next
<1> QED
  BY <1>1, <1>2, PTL DEF Spec

\* The request on a sender's stack is referred to only while tlb_shootdown waits for it:
\* process_inbox reads and counts down no dead stack frame, with any number of CPUs.
THEOREM RequestsAlive == Spec => []RequestAlive
<1>1. IInv => RequestAlive
  <2> SUFFICES ASSUME IInv, NEW c \in CPUs, NEW s \in CPUs
               PROVE  /\ inbox[c][s] # None => PushedOff(inbox[c][s]) /\ on[inbox[c][s]] = s
                      /\ scan[c].got # None =>
                            /\ PushedOff(scan[c].got) /\ on[scan[c].got] = scan[c].slot
                            /\ req[scan[c].got].pending > 0
    BY DEF RequestAlive
  <2>1. ASSUME inbox[c][s] # None
        PROVE  PushedOff(inbox[c][s]) /\ on[inbox[c][s]] = s
    <3>1. inbox[c][s] \in Threads /\ s # None
      BY <2>1 DEF IInv, TlbInv, TlbTypeOK, CPUs
    <3> QED
      BY <2>1, <3>1 DEF IInv, TlbInv, Referred, OwnCpu
  <2>2. ASSUME NEW t \in Threads, scan[c].got = t
        PROVE  PushedOff(t) /\ on[t] = scan[c].slot /\ req[t].pending > 0
    <3>1. t # None /\ scan[c].slot # None
      BY DEF IInv, TlbInv, TlbTypeOK
    <3>2. PushedOff(t) /\ on[t] = scan[c].slot
      BY <2>2, <3>1 DEF IInv, TlbInv, Referred, OwnCpu
    <3>3. c \in Owes(t) /\ req[t].pending = Cardinality(Owes(t))
      BY <2>2, <3>2 DEF Owes, IInv, TlbInv, Counted
    <3> QED
      BY <3>2, <3>3, OwesFinite, OneMore
  <2>3. scan[c].got \in Threads \cup {None}
    BY DEF IInv, TlbInv, TlbTypeOK
  <2> QED
    BY <2>1, <2>2, <2>3
<1> QED
  BY <1>1, VmallocInvariant, PTL

\* A set whose members are all the same, and that has one, has one member.
LEMMA OneMember ==
  ASSUME NEW S
  PROVE  /\ S = {} => Cardinality(S) = 0
         /\ \A x \in S : (\A y \in S : y = x) => Cardinality(S) = 1
<1>1. S = {} => Cardinality(S) = 0
  BY FS_EmptySet
<1>2. ASSUME NEW x \in S, \A y \in S : y = x
      PROVE  Cardinality(S) = 1
  <2>1. S = {x}
    BY <1>2
  <2> QED
    BY <2>1, FS_Singleton
<1> QED
  BY <1>1, <1>2

\* Every frame is free, mapped once, a page table, or in the hand of one thread that maps or
\* unmaps it, until next_level replaces a table (vmm.c:109): vmalloc, vfree and the undoing
\* of a vmalloc that failed lose and double no frame of their own.
THEOREM FramesInOnePlace == Spec => []FrameInOnePlace
<1>1. IInv => FrameInOnePlace
  <2> SUFFICES ASSUME IInv, ~overwritten, NEW f \in Frames
               PROVE  Cardinality({v \in Pages : Entry(v) = f}) + Cardinality({r \in Directory : table[r] = f})
                        + Cardinality({t \in Threads : phys[t] = f})
                        + (IF f \in free THEN 1 ELSE 0) = 1
    BY DEF FrameInOnePlace, Mappings
  <2> DEFINE V == {v \in Pages : Entry(v) = f}
             R == {r \in Directory : table[r] = f}
             T == {t \in Threads : phys[t] = f}
  <2>0. f # None /\ EntriesApart /\ TablesApart /\ Somewhere
    BY DEF IInv, FramesApart
  <2>1. CASE f \in free
    <3>1. V = {} /\ R = {} /\ T = {}
      BY <2>0, <2>1 DEF EntriesApart, TablesApart
    <3>2. Cardinality(V) = 0 /\ Cardinality(R) = 0 /\ Cardinality(T) = 0
      BY ONLY <3>1, OneMember
    <3> QED
      BY <2>1, <3>2
  <2>2. ASSUME NEW v \in Pages, Entry(v) = f
        PROVE  Cardinality(V) = 1 /\ Cardinality(R) = 0 /\ Cardinality(T) = 0 /\ f \notin free
    <3>1. v \in V /\ (\A w \in V : w = v) /\ R = {} /\ T = {} /\ f \notin free
      BY <2>0, <2>2 DEF EntriesApart, TablesApart
    <3> QED
      BY ONLY <3>1, OneMember
  <2>3. ASSUME NEW r \in Directory, table[r] = f
        PROVE  Cardinality(V) = 0 /\ Cardinality(R) = 1 /\ Cardinality(T) = 0 /\ f \notin free
    <3>1. r \in R /\ (\A q \in R : q = r) /\ V = {} /\ T = {} /\ f \notin free
      BY <2>0, <2>3 DEF TablesApart
    <3> QED
      BY ONLY <3>1, OneMember
  <2>4. ASSUME NEW t \in Threads, phys[t] = f
        PROVE  Cardinality(V) = 0 /\ Cardinality(R) = 0 /\ Cardinality(T) = 1 /\ f \notin free
    <3>1. t \in T /\ (\A u \in T : u = t) /\ V = {} /\ R = {} /\ f \notin free
      BY <2>0, <2>4 DEF EntriesApart, TablesApart
    <3> QED
      BY ONLY <3>1, OneMember
  <2>5. \/ f \in free \/ \E v \in Pages : Entry(v) = f
        \/ \E r \in Directory : table[r] = f
        \/ \E t \in Threads : phys[t] = f
    BY <2>0 DEF Somewhere
  <2> HIDE DEF V, R, T
  <2>6. Cardinality(V) + Cardinality(R) + Cardinality(T) + (IF f \in free THEN 1 ELSE 0) = 1
    BY <2>1, <2>2, <2>3, <2>4, <2>5 DEF V, R, T
  <2> QED
    BY <2>6 DEF V, R, T
<1> QED
  BY <1>1, VmallocInvariant, PTL

\* tlb_shootdown returns to the caller, who frees the frame, only when every other CPU
\* has dropped the translation, for any number of CPUs and of shootdowns that cross, until a
\* page table is replaced (vmm.c:109).
THEOREM OthersFlushed == Spec => OtherCpusFlushed
<1>1. IInv /\ [Next]_vars =>
        [\A t \in Threads : pc[t] = "wait" /\ pc'[t] = "free" /\ ~overwritten =>
           \A c \in CPUs \ {on[t]} : tlb[c][req[t].virt] # phys[t]]_vars
  <2> SUFFICES ASSUME IInv, Next, NEW t \in Threads, pc[t] = "wait", pc'[t] = "free", ~overwritten,
                      NEW c \in CPUs \ {on[t]}
               PROVE  tlb[c][req[t].virt] # phys[t]
    BY DEF vars
  <2>1. req[t].pending = 0
    <3>1. ASSUME NEW u \in Threads, NEW l, pc[u] # "wait", pc' = [pc EXCEPT ![u] = l]
          PROVE  FALSE
      BY <3>1 DEF IInv, TypeOK
    <3>2. pc' # pc
      OBVIOUS
    <3>3. ASSUME NEW u \in Threads, Vm(u)
          PROVE  FALSE
      BY <3>1, <3>2, <3>3 DEF Vm, vmalloc, MapPage, MakeTable, SetEntry, MapPanics, MapFails, vmallocReturns, vfree,
                               UnmapPage, FreePage, UnmapReturns, VmAt, Goto, Leaves, tlbVars
    <3>4. ASSUME NEW u \in Threads, Shootdown(u)
          PROVE  req[t].pending = 0
      <4>1. CASE ShootdownReturns(u, "free")
        BY <4>1 DEF ShootdownReturns, AllAnswered, Goto, IInv, TypeOK
      <4> QED
        BY <3>1, <3>2, <3>4, <4>1 DEF Shootdown, InterruptsOff, OffStep, FlushLocal, PushOff, Send,
                                     Kick, WaitScans, At, Goto, LoopAt
    <3>5. ASSUME NEW d \in CPUs, Inbox(d)
          PROVE  FALSE
      BY <3>2, <3>5 DEF Inbox, CpuStep, TlbIpi, Take, Answer, ScanEnds
    <3>6. ASSUME NEW x \in Touched, TlbFill(x[1], x[2])
          PROVE  FALSE
      BY <3>2, <3>6 DEF TlbFill
    <3> QED
      BY <3>3, <3>4, <3>5, <3>6 DEF Next
  <2>2. Owes(t) = {}
    <3>1. Cardinality(Owes(t)) = 0
      BY <2>1 DEF IInv, TlbInv, Counted, PushedOff
    <3> QED
      BY <3>1, OwesFinite, FS_EmptySet
  <2>3. Passed(t, c)
    BY DEF IInv, TlbInv, Loop, Passed, CPUs
  <2> QED
    BY <2>2, <2>3 DEF IInv, Flushed, PushedOff
<1> QED
  BY <1>1, VmallocInvariant, PTL DEF Spec, OtherCpusFlushed
=============================================================================
