---------------------------- MODULE NumberLemmas ----------------------------
(***************************************************************************)
(* Facts about the Min and Max of FiniteSetsExt on sets of natural         *)
(* numbers, obtained from the well-foundedness of < on Nat, about          *)
(* remainders, and about rings whose indices wrap.                         *)
(***************************************************************************)
EXTENDS Integers, FiniteSetsExt, WellFoundedInduction, TLAPS

\* A nonempty set of naturals has a least element: what a scan upwards for the
\* first hit relies on.
LEMMA LeastNat ==
  ASSUME NEW S \in SUBSET Nat, S # {}
  PROVE  \E x \in S : \A y \in S : x <= y
<1>1. \E x \in S : \A y \in S : ~(<<y, x>> \in OpToRel(<, Nat))
  BY NatLessThanWellFounded, WFMin
<1>2. \A x, y \in Nat : y < x => <<y, x>> \in OpToRel(<, Nat)
  BY DEF OpToRel
<1>3. PICK x \in S : \A y \in S : ~(<<y, x>> \in OpToRel(<, Nat))
  BY <1>1
<1>4. \A y \in S : ~(y < x)
  BY <1>2, <1>3
<1>5. \A y \in S : x <= y
  <2> TAKE y \in S
  <2>1. x \in Nat /\ y \in Nat
    OBVIOUS
  <2> QED BY <2>1, <1>4
<1> QED BY <1>5

\* Min of a nonempty set of naturals is its least element.
LEMMA MinNat ==
  ASSUME NEW S \in SUBSET Nat, S # {}
  PROVE  Min(S) \in S /\ \A y \in S : Min(S) <= y
BY LeastNat DEF Min

\* Max of a nonempty set of naturals with an upper bound is its greatest element.
LEMMA MaxNat ==
  ASSUME NEW S \in SUBSET Nat, S # {}, NEW n \in Nat, \A y \in S : y <= n
  PROVE  Max(S) \in S /\ \A y \in S : Max(S) >= y
<1> DEFINE T == {n - y : y \in S}
<1>1. T \in SUBSET Nat /\ T # {}
  <2>1. \A y \in S : n - y \in Nat
    OBVIOUS
  <2> QED BY <2>1
<1>2. PICK t \in T : \A u \in T : t <= u
  BY <1>1, LeastNat
<1>3. PICK x \in S : t = n - x
  BY <1>2
<1>4. \A y \in S : x >= y
  <2> TAKE y \in S
  <2>1. n - y \in T
    OBVIOUS
  <2>2. n - x <= n - y
    BY <2>1, <1>2, <1>3
  <2>3. x \in Nat /\ y \in Nat
    OBVIOUS
  <2> QED BY <2>2, <2>3
<1> QED BY <1>4 DEF Max

\* The minimum of two, the C idiom for an upper clamp.
LEMMA MinPair ==
  ASSUME NEW a \in Int, NEW b \in Int
  PROVE  Min({a, b}) = IF a <= b THEN a ELSE b
BY DEF Min

\* The maximum of two, the C idiom for a lower clamp.
LEMMA MaxPair ==
  ASSUME NEW a \in Int, NEW b \in Int
  PROVE  Max({a, b}) = IF a >= b THEN a ELSE b
BY DEF Max
-----------------------------------------------------------------------------
\* Quotient and remainder.
LEMMA DivRest ==
  ASSUME NEW x \in Int, NEW n \in Nat \ {0}
  PROVE  \E q \in Int, r \in 0 .. n - 1 : x = n * q + r /\ x % n = r
<1>1. x \div n \in Int /\ x % n \in 0 .. n - 1
  OBVIOUS
<1>2. x = n * (x \div n) + (x % n)
  OBVIOUS
<1> QED BY <1>1, <1>2

\* What determines a remainder.
LEMMA RestIs ==
  ASSUME NEW x \in Int, NEW k \in Int, NEW n \in Nat \ {0}, NEW r \in 0 .. n - 1,
         x = n * k + r
  PROVE  x % n = r
OBVIOUS

\* A multiple does not change the remainder.
LEMMA RestShift ==
  \A n \in Nat \ {0} : \A k, x, y \in Int : y = x + n * k => y % n = x % n
<1> SUFFICES ASSUME NEW n \in Nat \ {0}, NEW k \in Int, NEW x \in Int, NEW y \in Int,
                    y = x + n * k
             PROVE  y % n = x % n
  OBVIOUS
<1>1. PICK q \in Int, r \in 0 .. n - 1 : x = n * q + r /\ x % n = r
  BY DivRest
<1>2. q + k \in Int /\ y = n * (q + k) + r
  BY <1>1
<1>3. y % n = r
  BY <1>1, <1>2, RestIs
<1> QED BY <1>1, <1>3

\* Places less than a round apart are different.
LEMMA RestApart ==
  ASSUME NEW a \in Int, NEW n \in Nat \ {0}, NEW i \in 0 .. n - 1, NEW j \in 0 .. n - 1,
         (a + i) % n = (a + j) % n
  PROVE  i = j
<1>1. a + i \in Int /\ a + j \in Int
  OBVIOUS
<1>2. PICK p \in Int, r \in 0 .. n - 1 : a + i = n * p + r /\ (a + i) % n = r
  BY <1>1, DivRest
<1>3. PICK q \in Int, s \in 0 .. n - 1 : a + j = n * q + s /\ (a + j) % n = s
  BY <1>1, DivRest
<1>4. a + i = n * p + r /\ a + j = n * q + r
  BY <1>2, <1>3
<1>5. i - j = n * (p - q) /\ p - q \in Int
  BY <1>4
<1>6. i - j < n /\ i - j > -n
  OBVIOUS
<1>7. p - q = 0
  <2> DEFINE d == p - q
  <2>1. d \in Int /\ n * d < n /\ n * d > -n
    BY <1>5, <1>6
  <2> HIDE DEF d
  <2>2. d < 1 /\ d > -1
    BY <2>1
  <2> QED BY <2>1, <2>2 DEF d
<1> QED BY <1>5, <1>7

\* The distance of two ring indices.
LEMMA WrapDistance ==
  ASSUME NEW m \in Nat \ {0}, NEW a \in 0 .. m - 1, NEW b \in 0 .. m - 1
  PROVE  (a - b) % m = IF a >= b THEN a - b ELSE a - b + m
<1>2. a >= b => (a - b) % m = a - b
  OBVIOUS
<1>3. ASSUME a < b PROVE (a - b) % m = a - b + m
  <2>1. a - b \in Int /\ a - b + m \in 0 .. m - 1
    BY <1>3
  <2>2. a - b = m * (-1) + (a - b + m) /\ -1 \in Int
    OBVIOUS
  <2> QED BY <2>1, <2>2, RestIs
<1> QED BY <1>2, <1>3

\* The step of a ring index.
LEMMA WrapStep ==
  ASSUME NEW m \in Nat \ {0}, NEW a \in 0 .. m - 1
  PROVE  (a + 1) % m = IF a + 1 = m THEN 0 ELSE a + 1
OBVIOUS

\* How the distance changes when one of the two indices steps.
LEMMA WrapMoves ==
  ASSUME NEW m \in Nat \ {0}, NEW a \in 0 .. m - 1, NEW b \in 0 .. m - 1
  PROVE  /\ (a + 1) % m \in 0 .. m - 1
         /\ (a - b) % m \in 0 .. m - 1
         /\ ((a - b) % m) + 1 < m => (((a + 1) % m) - b) % m = ((a - b) % m) + 1
         /\ a # b => /\ (a - b) % m > 0
                     /\ (a - ((b + 1) % m)) % m = ((a - b) % m) - 1
         /\ (a - b) % m > 0 => a # b
<1> DEFINE c == (a + 1) % m
           d == (b + 1) % m
<1>1. c = (IF a + 1 = m THEN 0 ELSE a + 1) /\ d = (IF b + 1 = m THEN 0 ELSE b + 1)
  BY WrapStep, Zenon
<1>2. /\ c = (IF a + 1 = m THEN 0 ELSE a + 1) /\ c \in 0 .. m - 1
      /\ d = (IF b + 1 = m THEN 0 ELSE b + 1) /\ d \in 0 .. m - 1
  <2> HIDE DEF c, d
  <2> QED BY <1>1
<1> HIDE DEF c, d
<1>3. /\ (a - b) % m = IF a >= b THEN a - b ELSE a - b + m
      /\ (c - b) % m = IF c >= b THEN c - b ELSE c - b + m
      /\ (a - d) % m = IF a >= d THEN a - d ELSE a - d + m
  BY <1>2, WrapDistance
<1> QED BY <1>2, <1>3 DEF c, d

\* The ring's size divides the modulus of its indices.
Divides(z, m) == m % z = 0

\* The slots of a ring do not see that the indices wrap.
LEMMA WrapSlots ==
  \A z, m \in Nat \ {0} : Divides(z, m) =>
     \A a, b \in 0 .. m - 1 : \A i \in Int :
        /\ (a + i) % z \in 0 .. z - 1
        /\ (((a + 1) % m) + i) % z = (a + (i + 1)) % z
        /\ (b + ((a - b) % m)) % z = a % z
<1> SUFFICES ASSUME NEW z \in Nat \ {0}, NEW m \in Nat \ {0}, Divides(z, m),
                    NEW a \in 0 .. m - 1, NEW b \in 0 .. m - 1, NEW i \in Int
             PROVE  /\ (a + i) % z \in 0 .. z - 1
                    /\ (((a + 1) % m) + i) % z = (a + (i + 1)) % z
                    /\ (b + ((a - b) % m)) % z = a % z
  OBVIOUS
<1>2. PICK k \in Int : m = z * k
  <2>1. \E q \in Int, r \in 0 .. z - 1 : m = z * q + r /\ m % z = r
    <3>1. m \in Int
      OBVIOUS
    <3> QED BY <3>1, DivRest
  <2> QED BY <2>1 DEF Divides
<1>3. k \in Int /\ z \in Nat \ {0}
  BY <1>2
<1>s. \A x, y \in Int : y = x + z * k => y % z = x % z
  BY <1>3, RestShift, Zenon
<1>4. (a + i) % z \in 0 .. z - 1
  OBVIOUS
<1>5. (((a + 1) % m) + i) % z = (a + (i + 1)) % z
  <2>1. CASE a + 1 = m
    <3> DEFINE y == a + (i + 1)
    <3>1. ((a + 1) % m) + i = i /\ y \in Int /\ y = i + z * k
      BY <1>2, <2>1, WrapStep
    <3> HIDE DEF y
    <3>2. y % z = i % z
      BY <1>s, <3>1, Zenon
    <3> QED BY <3>1, <3>2 DEF y
  <2>2. CASE a + 1 # m
    <3>1. ((a + 1) % m) + i = a + (i + 1)
      BY <2>2, WrapStep
    <3> QED BY <3>1
  <2> QED BY <2>1, <2>2
<1>6. (b + ((a - b) % m)) % z = a % z
  <2>1. CASE a >= b
    <3>1. (a - b) % m = a - b
      BY <2>1, WrapDistance
    <3>2. b + ((a - b) % m) = a
      BY <3>1
    <3> QED BY <3>2
  <2>2. CASE a < b
    <3>1. (a - b) % m = a - b + m
      BY <2>2, WrapDistance
    <3> DEFINE y == b + ((a - b) % m)
    <3>2. y \in Int /\ y = a + z * k /\ a \in Int
      BY <1>2, <3>1
    <3> HIDE DEF y
    <3>3. y % z = a % z
      BY <1>s, <3>2, Zenon
    <3> QED BY <3>3 DEF y
  <2> QED BY <2>1, <2>2
<1> QED BY <1>4, <1>5, <1>6
-----------------------------------------------------------------------------
\* A ring of z slots whose indices wrap at m: the index after a, how far a is ahead of b,
\* the i-th item from b on, and the ring with v at a.
RingNext(a, m) == (a + 1) % m
RingGap(a, b, m) == (a - b) % m
RingItem(r, z, b, i) == r[(b + i) % z]
RingPut(r, z, a, v) == [r EXCEPT ![a % z] = v]

\* A ring that has room takes an item at its end and keeps the others.
LEMMA RingPush ==
  ASSUME NEW z \in Nat \ {0}, NEW m \in Nat \ {0}, Divides(z, m),
         NEW a \in 0 .. m - 1, NEW b \in 0 .. m - 1, NEW r, DOMAIN r = 0 .. z - 1, NEW v,
         RingGap(a, b, m) < z
  PROVE  /\ RingGap(a, b, m) \in Nat /\ DOMAIN RingPut(r, z, a, v) = 0 .. z - 1
         /\ RingItem(RingPut(r, z, a, v), z, b, RingGap(a, b, m)) = v
         /\ \A i \in 0 .. RingGap(a, b, m) - 1 :
              RingItem(RingPut(r, z, a, v), z, b, i) = RingItem(r, z, b, i)
<1> DEFINE d == (a - b) % m
<1>1. d \in 0 .. z - 1
  BY DEF RingGap
<1>2. (b + d) % z = a % z
  BY WrapSlots
<1> HIDE DEF d
<1>3. \A i \in 0 .. d : (b + i) % z \in 0 .. z - 1
  BY <1>1
<1>4. \A i \in 0 .. d - 1 : (b + i) % z # (b + d) % z
  <2> TAKE i \in 0 .. d - 1
  <2>1. i \in 0 .. z - 1 /\ b \in Int /\ i # d
    BY <1>1
  <2> QED BY <1>1, <2>1, RestApart
<1>5. d \in 0 .. d
  BY <1>1
<1>6. \A i \in 0 .. d - 1 : i \in 0 .. d
  BY <1>1
<1>7. RingGap(a, b, m) = d
  BY DEF RingGap, d
<1>8. RingItem(RingPut(r, z, a, v), z, b, d) = v
  BY <1>2, <1>3, <1>5 DEF RingItem, RingPut
<1>9. \A i \in 0 .. d - 1 : RingItem(RingPut(r, z, a, v), z, b, i) = RingItem(r, z, b, i)
  BY <1>2, <1>3, <1>4, <1>6 DEF RingItem, RingPut
<1>10. DOMAIN RingPut(r, z, a, v) = 0 .. z - 1
  BY DEF RingPut
<1>11. d \in Nat
  BY <1>1
<1> QED BY <1>7, <1>8, <1>9, <1>10, <1>11, Zenon

\* How the length of a ring changes.
LEMMA RingLength ==
  ASSUME NEW m \in Nat \ {0}, NEW a \in 0 .. m - 1, NEW b \in 0 .. m - 1
  PROVE  /\ RingNext(a, m) \in 0 .. m - 1 /\ RingGap(a, b, m) \in 0 .. m - 1
         /\ RingGap(a, b, m) + 1 < m => RingGap(RingNext(a, m), b, m) = RingGap(a, b, m) + 1
         /\ RingGap(a, b, m) + 1 < m <=> RingNext(a, m) # b
         /\ a # b <=> RingGap(a, b, m) > 0
         /\ a # b => RingGap(a, RingNext(b, m), m) = RingGap(a, b, m) - 1
<1>1. RingGap(a, b, m) + 1 < m <=> RingNext(a, m) # b
  <2>1. (a - b) % m = IF a >= b THEN a - b ELSE a - b + m
    BY WrapDistance
  <2>2. (a + 1) % m = IF a + 1 = m THEN 0 ELSE a + 1
    BY WrapStep
  <2> QED BY <2>1, <2>2 DEF RingGap, RingNext
<1> QED BY <1>1, WrapMoves DEF RingGap, RingNext

\* Dropping the first item moves the others up.
LEMMA RingPop ==
  ASSUME NEW z \in Nat \ {0}, NEW m \in Nat \ {0}, Divides(z, m),
         NEW b \in 0 .. m - 1, NEW r, NEW i \in Nat
  PROVE  RingItem(r, z, RingNext(b, m), i) = RingItem(r, z, b, i + 1)
<1>1. \A x, y \in 0 .. m - 1 : \A j \in Int :
         /\ (x + j) % z \in 0 .. z - 1
         /\ (((x + 1) % m) + j) % z = (x + (j + 1)) % z
         /\ (y + ((x - y) % m)) % z = x % z
  BY WrapSlots, Zenon
<1>2. i \in Int
  OBVIOUS
<1>3. (((b + 1) % m) + i) % z = (b + (i + 1)) % z
  BY <1>1, <1>2, Zenon
<1> QED BY <1>3 DEF RingItem, RingNext

\* Where the first item is, and the place after the last.
LEMMA RingEnds ==
  ASSUME NEW z \in Nat \ {0}, NEW m \in Nat \ {0}, Divides(z, m),
         NEW a \in 0 .. m - 1, NEW b \in 0 .. m - 1, NEW r
  PROVE  /\ RingItem(r, z, b, 0) = r[b % z]
         /\ RingItem(r, z, b, RingGap(a, b, m)) = r[a % z]
<1>1. \A x, y \in 0 .. m - 1 : \A j \in Int :
         /\ (x + j) % z \in 0 .. z - 1
         /\ (((x + 1) % m) + j) % z = (x + (j + 1)) % z
         /\ (y + ((x - y) % m)) % z = x % z
  BY WrapSlots, Zenon
<1>2. b + 0 = b
  OBVIOUS
<1>3. (b + ((a - b) % m)) % z = a % z
  BY <1>1, 0 \in Int, Zenon
<1> QED BY <1>2, <1>3 DEF RingItem, RingGap
=============================================================================
