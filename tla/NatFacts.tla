------------------------------ MODULE NatFacts ------------------------------
(***************************************************************************)
(* Induction over the natural numbers in a form without operator           *)
(* parameters: instead of a predicate P the lemmas speak of the set of     *)
(* numbers for which it holds.  They rest on the fact that the finite      *)
(* subsets of a set are well-founded under inclusion, applied to the       *)
(* intervals 0 .. n.  At the end, facts about remainders and divisors.     *)
(***************************************************************************)
EXTENDS FiniteSetTheorems, TLAPS

(* Every non-empty set of natural numbers has a least element. *)
LEMMA LeastNumber ==
    ASSUME NEW T \in SUBSET Nat, T # {}
    PROVE  \E n \in T : \A k \in T : n <= k
<1> DEFINE upto == {0 .. n : n \in T}
<1>1. IsWellFoundedOn(StrictSubsetOrdering(Nat), FiniteSubsetsOf(Nat))
  BY FS_StrictSubsetOrderingWellFounded
<1>2. upto \subseteq FiniteSubsetsOf(Nat)
  <2>1. \A n \in T : IsFiniteSet(0 .. n) /\ 0 .. n \in SUBSET Nat
    BY FS_Interval
  <2>2. QED
    BY <2>1 DEF FiniteSubsetsOf
<1>3. upto # {}
  OBVIOUS
<1>4. PICK x \in upto : \A y \in upto : ~(<<y, x>> \in StrictSubsetOrdering(Nat))
  <2> HIDE DEF upto
  <2>1. QED
    BY <1>1, <1>2, <1>3, WFMin, Zenon
<1>5. PICK n \in T : x = 0 .. n
  OBVIOUS
<1>6. ASSUME NEW k \in T, k < n PROVE FALSE
  <2>1. 0 .. k \in upto
    OBVIOUS
  <2>2. 0 .. k \subseteq 0 .. n /\ 0 .. k # 0 .. n
    BY <1>6
  <2>3. <<0 .. k, x>> \in StrictSubsetOrdering(Nat)
    BY <1>5, <2>2 DEF StrictSubsetOrdering
  <2>4. QED
    BY <1>4, <2>1, <2>3
<1>7. QED
  BY <1>6

(* A set that contains 0, and with each number the next, contains all.     *)
LEMMA SetInduction ==
    ASSUME NEW S, 0 \in S, \A n \in Nat : n \in S => n + 1 \in S
    PROVE  Nat \subseteq S
<1> SUFFICES ASSUME Nat \ S # {} PROVE FALSE
    OBVIOUS
<1>1. PICK n \in Nat \ S : \A k \in Nat \ S : n <= k
  BY LeastNumber, Nat \ S \in SUBSET Nat
<1>2. n # 0 /\ n - 1 \in Nat /\ n - 1 \notin Nat \ S
  BY <1>1
<1>3. QED
  BY <1>1, <1>2
-----------------------------------------------------------------------------
(* Remainders *)

(* A number below the modulus is its own remainder. *)
LEMMA SmallRemainder ==
    ASSUME NEW m \in Nat, NEW n \in Nat, n < m
    PROVE  n % m = n
  OBVIOUS

(* Quotient and remainder of a number. *)
LEMMA DivMod ==
    ASSUME NEW m \in Nat \ {0}, NEW x \in Int
    PROVE  /\ x \div m \in Int /\ x % m \in Nat /\ x % m < m
           /\ x = m * (x \div m) + (x % m)
  OBVIOUS

(* The only multiple of m between -m and m. *)
LEMMA SmallMultiple ==
    ASSUME NEW m \in Nat \ {0}, NEW k \in Int, m * k < m, -m < m * k
    PROVE  k = 0
<1>1. CASE k >= 1
  <2>1. m * k >= m * 1
    BY <1>1
  <2>2. QED
    BY <2>1
<1>2. CASE k <= -1
  <2>1. m * k <= m * (-1)
    BY <1>2
  <2>2. QED
    BY <2>1
<1>3. QED
  BY <1>1, <1>2

(* A remainder is the only one. *)
LEMMA UniqueRemainder ==
    ASSUME NEW m \in Nat \ {0}, NEW x \in Int, NEW q \in Int, NEW r \in Nat, r < m,
           x = m * q + r
    PROVE  x % m = r
<1>1. PICK p \in Int, s \in Nat : p = x \div m /\ s = x % m /\ s < m /\ x = m * p + s
  BY DivMod
<1>2. m * (p - q) = m * p - m * q
  OBVIOUS
<1>3. m * p \in Int /\ m * q \in Int
  OBVIOUS
<1>4. m * (p - q) = r - s
  BY <1>1, <1>2, <1>3
<1>5. p - q \in Int /\ r - s < m /\ -m < r - s
  BY <1>1
<1>6. p - q = 0
  BY <1>4, <1>5, SmallMultiple
<1>7. p = q
  BY <1>6
<1>8. QED
  BY <1>1, <1>3, <1>7

(* Two numbers with one remainder differ by a multiple. *)
LEMMA SameRemainder ==
    ASSUME NEW m \in Nat \ {0}, NEW x \in Int, NEW y \in Int
    PROVE  (x - y) % m = 0 <=> x % m = y % m
<1>1. PICK p \in Int, s \in Nat : p = x \div m /\ s = x % m /\ s < m /\ x = m * p + s
  BY DivMod
<1>2. PICK q \in Int, r \in Nat : q = y \div m /\ r = y % m /\ r < m /\ y = m * q + r
  BY DivMod
<1>3. m * p \in Int /\ m * q \in Int /\ m * (p - q) = m * p - m * q /\ p - q \in Int
  OBVIOUS
<1>4. x - y = m * (p - q) + (s - r)
  BY <1>1, <1>2, <1>3
<1>5. ASSUME s = r PROVE (x - y) % m = 0
  <2>1. x - y = m * (p - q) + 0 /\ x - y \in Int
    BY <1>3, <1>4, <1>5
  <2>2. QED
    BY <1>3, <2>1, UniqueRemainder
<1>6. ASSUME (x - y) % m = 0 PROVE s = r
  <2>1. PICK k \in Int : k = (x - y) \div m /\ x - y = m * k + 0
    <3>1. x - y \in Int
      OBVIOUS
    <3>2. QED
      BY <3>1, <1>6, DivMod
  <2>2. m * k \in Int /\ m * q \in Int
    OBVIOUS
  <2>3. x = m * (k + q) + r
    <3>1. m * (k + q) = m * k + m * q
      OBVIOUS
    <3>2. QED
      BY <1>2, <2>1, <2>2, <3>1
  <2>4. x % m = r
    <3>1. k + q \in Int
      OBVIOUS
    <3>2. QED
      BY <1>2, <2>3, <3>1, UniqueRemainder
  <2>5. QED
    BY <1>1, <2>4
<1>7. QED
  BY <1>1, <1>2, <1>5, <1>6

-----------------------------------------------------------------------------
(* Numbers without a common divisor *)

(* A multiple stays one when it is multiplied. *)
LEMMA MultipleTimes ==
    ASSUME NEW m \in Nat \ {0}, NEW x \in Int, x % m = 0, NEW k \in Int
    PROVE  (x * k) % m = 0
<1>1. PICK p \in Int : x = m * p + 0
  BY DivMod
<1>2. PICK q \in Int : q = p * k
  OBVIOUS
<1>3. x * k = m * q + 0
  BY <1>1, <1>2
<1>4. x * k \in Int
  OBVIOUS
<1>5. QED
  BY <1>3, <1>4, UniqueRemainder

Coprime(g, n) == \A d \in 1 .. n : g % d = 0 /\ n % d = 0 => d = 1

(* The positive sums of multiples of g and n. *)
Combinations(g, n) == {m \in Nat \ {0} : \E k \in Int : \E j \in Int : m = g * k + n * j}

(* The least one divides both. *)
LEMMA LeastDivides ==
    ASSUME NEW g \in Nat, NEW n \in Nat, NEW x \in {g, n},
           NEW d \in Combinations(g, n), \A c \in Combinations(g, n) : d <= c
    PROVE  x % d = 0
<1>1. PICK k \in Int, j \in Int : d = g * k + n * j
  BY DEF Combinations
<1>2. d \in Nat \ {0} /\ x \in Int
  BY DEF Combinations
<1>3. PICK q \in Int, r \in Nat : r = x % d /\ r < d /\ x = d * q + r
  BY <1>2, DivMod
<1>4. SUFFICES ASSUME r # 0 PROVE FALSE
  BY <1>3
<1>5. d * q = g * (k * q) + n * (j * q)
  <2>1. d * q = (g * k) * q + (n * j) * q
    BY <1>1, <1>2
  <2>2. (g * k) * q = g * (k * q) /\ (n * j) * q = n * (j * q)
    OBVIOUS
  <2>3. QED
    BY <2>1, <2>2
<1>6. PICK a \in Int, b \in Int : a = k * q /\ b = j * q
  OBVIOUS
<1>7. r = x - (g * a + n * b)
  BY <1>2, <1>3, <1>5, <1>6
<1>8. \E u \in Int : \E v \in Int : r = g * u + n * v
  <2>1. CASE x = g
    <3>1. g * (1 - a) = g - g * a /\ n * (0 - b) = 0 - n * b
      OBVIOUS
    <3>2. r = g * (1 - a) + n * (0 - b)
      BY <1>7, <2>1, <3>1
    <3>3. 1 - a \in Int /\ 0 - b \in Int
      OBVIOUS
    <3>4. PICK u \in Int, v \in Int : u = 1 - a /\ v = 0 - b
      BY <3>3
    <3>5. r = g * u + n * v
      BY <3>2, <3>4
    <3>6. QED
      BY <3>5
  <2>2. CASE x = n
    <3>1. n * (1 - b) = n - n * b /\ g * (0 - a) = 0 - g * a
      OBVIOUS
    <3>2. r = g * (0 - a) + n * (1 - b)
      BY <1>7, <2>2, <3>1
    <3>3. 0 - a \in Int /\ 1 - b \in Int
      OBVIOUS
    <3>4. PICK u \in Int, v \in Int : u = 0 - a /\ v = 1 - b
      BY <3>3
    <3>5. r = g * u + n * v
      BY <3>2, <3>4
    <3>6. QED
      BY <3>5
  <2>3. QED
    BY <2>1, <2>2
<1>9. r \in Combinations(g, n)
  BY <1>4, <1>8 DEF Combinations
<1>10. d <= r
  BY <1>9
<1>11. QED
  BY <1>2, <1>3, <1>10

(* One is a sum of multiples of coprime numbers (Bezout). *)
LEMMA Bezout ==
    ASSUME NEW g \in Nat, NEW n \in Nat \ {0}, Coprime(g, n)
    PROVE  \E k \in Int : \E j \in Int : 1 = g * k + n * j
<1>1. n \in Combinations(g, n)
  <2>1. n = g * 0 + n * 1
    OBVIOUS
  <2>2. QED
    BY <2>1 DEF Combinations
<1>2. Combinations(g, n) \in SUBSET Nat
  BY DEF Combinations
<1>3. PICK d \in Combinations(g, n) : \A c \in Combinations(g, n) : d <= c
  BY <1>1, <1>2, LeastNumber
<1>4. g % d = 0 /\ n % d = 0
  BY <1>3, LeastDivides
<1>5. d <= n /\ d \in Nat \ {0}
  BY <1>1, <1>3 DEF Combinations
<1>6. d = 1
  BY <1>4, <1>5 DEF Coprime
<1>7. QED
  BY <1>3, <1>6 DEF Combinations

(* The multiples of a coprime number take every value modulo n. *)
LEMMA MultiplesCover ==
    ASSUME NEW g \in Nat, NEW n \in Nat \ {0}, Coprime(g, n), NEW v \in Nat, v < n
    PROVE  \E i \in 0 .. (n - 1) : (g * i) % n = v
<1>1. PICK k \in Int, j \in Int : 1 = g * k + n * j
  BY Bezout
<1>2. PICK a \in Int, b \in Int : a = k * v /\ b = j * v
  OBVIOUS
<1>3. v = g * a + n * b
  <2>1. v = (g * k + n * j) * v
    BY <1>1
  <2>2. (g * k + n * j) * v = g * (k * v) + n * (j * v)
    OBVIOUS
  <2>3. QED
    BY <1>2, <2>1, <2>2
<1>4. PICK t \in Int, i \in Nat : i < n /\ a = n * t + i
  BY DivMod
<1>5. g * a = n * (g * t) + g * i
  <2>1. g * (n * t + i) = n * (g * t) + g * i
    OBVIOUS
  <2>2. QED
    BY <1>4, <2>1
<1>6. PICK c \in Int, e \in Int : c = g * t /\ e = g * i
  OBVIOUS
<1>7. v = n * c + e + n * b
  BY <1>3, <1>5, <1>6
<1>8. n * (0 - (c + b)) = 0 - n * c - n * b
  OBVIOUS
<1>9. e = n * (0 - (c + b)) + v
  BY <1>7, <1>8
<1>10. e % n = v
  <2>1. PICK f \in Int : f = 0 - (c + b)
    OBVIOUS
  <2>2. e = n * f + v
    BY <1>9, <2>1
  <2>3. QED
    BY <2>2, UniqueRemainder
<1>11. QED
  BY <1>4, <1>6, <1>10
=============================================================================
