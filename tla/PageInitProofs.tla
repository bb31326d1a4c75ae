--------------------------- MODULE PageInitProofs ---------------------------
(***************************************************************************)
(* The page list and the heap's bounds for every memory map: types, which  *)
(* pages are chained, their order, and what lies inside what.              *)
(***************************************************************************)
EXTENDS PageInit, Numbers, TLAPS

LEMMA PageSizes ==
  /\ PageSize \in Nat \ {0} /\ PageSize \in Nat /\ PageSize > 0
  /\ E820_MAX_ENTRIES \in Nat /\ E820_MAX_ENTRIES > 0
  /\ DescSize \in Nat
BY PageInitAssumption

-----------------------------------------------------------------------------
(* The least and the greatest of a set of numbers. *)

LEMMA MinFact ==
  ASSUME NEW S \in SUBSET Nat, S # {}
  PROVE  Min(S) \in S /\ \A y \in S : Min(S) <= y
<1>1. PICK x \in S : \A y \in S : x <= y
  BY LeastNatural
<1> QED
  BY <1>1 DEF Min

LEMMA MaxFact ==
  ASSUME NEW S \in SUBSET Nat, S # {}, NEW b \in Nat, \A x \in S : x <= b
  PROVE  Max(S) \in S /\ \A y \in S : y <= Max(S)
<1>1. PICK U \in SUBSET Nat : U = {u \in Nat : \A x \in S : x <= u}
  <2>1. {u \in Nat : \A x \in S : x <= u} \in SUBSET Nat
    OBVIOUS
  <2> QED
    BY <2>1
<1>2. PICK u \in U : \A v \in U : u <= v
  <2>1. b \in U
    BY <1>1
  <2> QED
    BY <2>1, LeastNatural
<1>3. u \in Nat /\ \A x \in S : x <= u
  BY <1>1
<1>4. u \in S
  <2>1. SUFFICES ASSUME u \notin S
                 PROVE  FALSE
    OBVIOUS
  <2>2. ASSUME NEW x \in S
        PROVE  x \in Nat /\ x < u
    <3>1. x \in Nat /\ x <= u /\ x # u
      BY <1>3, <2>1
    <3> QED
      BY <1>3, <3>1
  <2>3. u - 1 \in Nat /\ \A x \in S : x <= u - 1
    <3>1. PICK x \in S : x \in Nat /\ x < u
      BY <2>2
    <3>2. u - 1 \in Nat
      BY <1>3, <3>1
    <3> QED
      BY <1>3, <2>2, <3>2
  <2>4. u - 1 \in U
    BY <1>1, <2>3
  <2> QED
    BY <1>2, <1>3, <2>3, <2>4
<1>5. \E m \in S : \A y \in S : m >= y
  BY <1>3, <1>4
<1>6. Max(S) \in S /\ \A y \in S : Max(S) >= y
  BY <1>5 DEF Max
<1> QED
  BY <1>6

\* Numbers at the indexes of a sequence have a bound.
LEMMA BoundFact ==
  ASSUME NEW n \in Nat, NEW f, \A i \in 1..n : f[i] \in Nat
  PROVE  \E b \in Nat : \A i \in 1..n : f[i] <= b
<1>1. SUFFICES ASSUME ~ \E b \in Nat : \A i \in 1..n : f[i] <= b
               PROVE  FALSE
  OBVIOUS
<1>2. PICK S \in SUBSET Nat : S = {m \in 0..n : ~ \E b \in Nat : \A i \in 1..m : f[i] <= b}
  <2>1. {m \in 0..n : ~ \E b \in Nat : \A i \in 1..m : f[i] <= b} \in SUBSET Nat
    OBVIOUS
  <2> QED
    BY <2>1
<1>3. n \in S
  BY <1>1, <1>2
<1>4. PICK m \in S : \A k \in S : m <= k
  BY <1>3, LeastNatural
<1>5. m \in 0..n /\ ~ \E b \in Nat : \A i \in 1..m : f[i] <= b
  BY <1>2
<1>6. m # 0
  <2>1. m = 0 => \A i \in 1..m : f[i] <= 0
    OBVIOUS
  <2> QED
    BY <1>5, <2>1
<1>7. m - 1 \in 0..n /\ m - 1 \notin S /\ m \in 1..n
  BY <1>4, <1>5, <1>6
<1>8. PICK c \in Nat : \A i \in 1..(m - 1) : f[i] <= c
  BY <1>2, <1>7
<1>9. PICK b \in Nat : b >= c /\ b >= f[m]
  <2>1. f[m] \in Nat
    BY <1>7
  <2>2. c >= c /\ f[m] >= f[m] /\ (c >= f[m] \/ f[m] >= c)
    BY <2>1
  <2> QED
    BY <2>1, <2>2
<1>10. ASSUME NEW i \in 1..m
       PROVE  f[i] <= b
  <2>1. CASE i = m
    BY <1>7, <1>9, <2>1
  <2>2. CASE i # m
    <3>1. i \in 1..(m - 1) /\ i \in 1..n
      BY <1>7, <2>2
    <3> QED
      BY <1>8, <1>9, <3>1
  <2> QED
    BY <2>1, <2>2
<1> QED
  BY <1>5, <1>10

-----------------------------------------------------------------------------
(* Page boundaries. *)

LEMMA MultipleFact ==
  ASSUME NEW q \in Int
  PROVE  PageSize * q \in Int /\ (PageSize * q) % PageSize = 0 /\ q * PageSize = PageSize * q
<1>1. PageSize * q \in Int /\ q * PageSize = PageSize * q /\ PageSize * q + 0 = PageSize * q
  BY PageSizes
<1>2. 0 \in 0..(PageSize - 1)
  BY PageSizes
<1>3. (PageSize * q + 0) % PageSize = 0
  BY <1>2, PageSizes, ModUnique
<1> QED
  BY <1>1, <1>3

LEMMA AlignUpFact ==
  ASSUME NEW a \in Nat
  PROVE  \E q \in Nat : /\ AlignUp(a) = PageSize * q
                       /\ AlignUp(a) \in Nat /\ AlignUp(a) >= a /\ AlignUp(a) < a + PageSize
<1>1. PICK n \in Nat : n = a + PageSize - 1
  BY PageSizes
<1>2. PICK q \in Int, r \in 0..(PageSize - 1) : q = n \div PageSize /\ r = n % PageSize /\ n = PageSize * q + r
  BY PageSizes, DivFact, ModFact
<1>3. PageSize * q \in Int /\ q * PageSize = PageSize * q
  BY MultipleFact
<1>4. PageSize * q >= a /\ PageSize * q < a + PageSize
  BY <1>1, <1>2, <1>3, PageSizes
<1>5. q >= 0
  <2>1. PageSize * 0 = 0 /\ (0 <= q <=> PageSize * 0 <= PageSize * q)
    BY PageSizes, ProductOrder
  <2> QED
    BY <1>2, <1>3, <1>4, <2>1
<1>6. AlignUp(a) = PageSize * q
  BY <1>1, <1>2, <1>3 DEF AlignUp
<1>7. q \in Nat /\ PageSize * q \in Nat
  BY <1>2, <1>3, <1>4, <1>5
<1> QED
  BY <1>4, <1>6, <1>7

LEMMA AlignDownFact ==
  ASSUME NEW a \in Nat
  PROVE  \E q \in Nat : /\ AlignDown(a) = PageSize * q
                       /\ AlignDown(a) \in Nat /\ AlignDown(a) <= a /\ a < AlignDown(a) + PageSize
<1>1. PICK q \in Int, r \in 0..(PageSize - 1) : q = a \div PageSize /\ r = a % PageSize /\ a = PageSize * q + r
  BY PageSizes, DivFact, ModFact
<1>2. PageSize * q \in Int /\ q * PageSize = PageSize * q
  BY MultipleFact
<1>3. PageSize * q <= a /\ a < PageSize * q + PageSize
  BY <1>1, <1>2, PageSizes
<1>4. q >= 0
  <2>1. SUFFICES ASSUME q < 0
                 PROVE  FALSE
    BY <1>1
  <2>2. PageSize * 0 >= PageSize * q + PageSize /\ PageSize * 0 = 0
    BY <1>1, <2>1, PageSizes, Product
  <2> QED
    BY <1>2, <1>3, <2>2, PageSizes
<1>5. PageSize * q >= 0
  <2>1. PageSize * 0 = 0 /\ (0 <= q <=> PageSize * 0 <= PageSize * q)
    BY <1>1, PageSizes, ProductOrder
  <2> QED
    BY <1>4, <2>1
<1>6. AlignDown(a) = PageSize * q
  BY <1>1, <1>2 DEF AlignDown
<1> QED
  BY <1>1, <1>2, <1>3, <1>4, <1>5, <1>6
-----------------------------------------------------------------------------
(* The pages of one region. *)

InSeq(x, s) == \E k \in 1..Len(s) : s[k] = x
Spaced(s) == \A i, j \in 1..Len(s) : i < j => s[i] + PageSize <= s[j]

\* The whole pages a RAM region has room for.
PageIn(p, r) ==
  /\ r.type = RAM /\ p \in Nat /\ p % PageSize = 0
  /\ r.address <= p /\ p + PageSize <= RegionEnd(r)

LEMMA RegionFact ==
  ASSUME NEW r \in Region
  PROVE  r.address \in Nat /\ r.length \in Nat /\ r.type \in Nat /\ RegionEnd(r) \in Nat
BY DEF Region, RegionEnd

\* The pages in terms of multiples of the page size.
LEMMA PagesFact ==
  ASSUME NEW r \in Region
  PROVE  \E a \in Nat, n \in Nat :
           /\ Len(PagesOf(r)) = n /\ PagesOf(r) \in Seq(Nat)
           /\ \A k \in 1..n : PagesOf(r)[k] = PageSize * (a + (k - 1))
           /\ AlignUp(r.address) = PageSize * a
           /\ n > 0 => r.type = RAM /\ AlignDown(RegionEnd(r)) = PageSize * (a + n)
           /\ r.type = RAM /\ n = 0 => AlignDown(RegionEnd(r)) <= PageSize * a
<1>1. r.address \in Nat /\ RegionEnd(r) \in Nat
  BY RegionFact
<1>2. PICK a \in Nat : AlignUp(r.address) = PageSize * a
  BY <1>1, AlignUpFact
<1>3. PICK b \in Nat : AlignDown(RegionEnd(r)) = PageSize * b
  BY <1>1, AlignDownFact
<1>4. PageSize * a \in Int /\ PageSize * b \in Int
  BY MultipleFact
<1>5. PICK n \in Nat :
        /\ n = PageCount(r)
        /\ n > 0 => r.type = RAM /\ n = b - a
        /\ r.type = RAM /\ n = 0 => PageSize * b <= PageSize * a
  <2>1. CASE r.type # RAM \/ PageSize * b <= PageSize * a
    <3>1. PageCount(r) = 0
      BY <1>2, <1>3, <2>1 DEF PageCount
    <3> QED
      BY <2>1, <3>1
  <2>2. CASE ~(r.type # RAM \/ PageSize * b <= PageSize * a)
    <3>1. PageCount(r) = (PageSize * b - PageSize * a) \div PageSize
      BY <1>2, <1>3, <2>2 DEF PageCount
    <3>2. PageSize * b - PageSize * a = PageSize * (b - a) + 0
      BY <1>4, PageSizes
    <3>3. b - a \in Int /\ 0 \in 0..(PageSize - 1)
      BY PageSizes
    <3>4. PageCount(r) = b - a
      BY <3>1, <3>2, <3>3, PageSizes, ModUnique
    <3>5. ~(b <= a)
      BY <2>2, PageSizes, ProductOrder
    <3>6. b - a \in Nat /\ b - a > 0
      BY <3>5
    <3> QED
      BY <2>2, <3>4, <3>6
  <2> QED
    BY <2>1, <2>2
<1>6. ASSUME NEW k \in 1..n
      PROVE  PageSize * a + (k - 1) * PageSize = PageSize * (a + (k - 1)) /\ PageSize * (a + (k - 1)) \in Nat
  <2>1. k - 1 \in Nat
    OBVIOUS
  <2> QED
    BY <2>1, PageSizes
<1>7. PagesOf(r) = [k \in 1..n |-> PageSize * a + (k - 1) * PageSize]
  BY <1>2, <1>5 DEF PagesOf
<1>8. \A k \in 1..n : PagesOf(r)[k] = PageSize * (a + (k - 1)) /\ PagesOf(r)[k] \in Nat
  BY <1>6, <1>7
<1>9. PagesOf(r) \in [1..n -> Nat]
  BY <1>7, <1>8
<1>10. PagesOf(r) \in Seq(Nat) /\ Len(PagesOf(r)) = n
  BY <1>9
<1>11. n > 0 => b = a + n
  BY <1>5
<1> QED
  BY <1>2, <1>3, <1>5, <1>8, <1>10, <1>11

\* The pages chained for a region are the whole ones in it, if it is RAM.
LEMMA PagesOfMembers ==
  ASSUME NEW r \in Region, NEW p
  PROVE  InSeq(p, PagesOf(r)) <=> PageIn(p, r)
<1>1. r.address \in Nat /\ RegionEnd(r) \in Nat
  BY RegionFact
<1>2. PICK a \in Nat, n \in Nat :
        /\ Len(PagesOf(r)) = n /\ PagesOf(r) \in Seq(Nat)
        /\ \A k \in 1..n : PagesOf(r)[k] = PageSize * (a + (k - 1))
        /\ AlignUp(r.address) = PageSize * a
        /\ n > 0 => r.type = RAM /\ AlignDown(RegionEnd(r)) = PageSize * (a + n)
        /\ r.type = RAM /\ n = 0 => AlignDown(RegionEnd(r)) <= PageSize * a
  BY PagesFact
<1>3. PICK first \in Nat : /\ first = AlignUp(r.address) /\ first = PageSize * a
                          /\ first >= r.address /\ first < r.address + PageSize
  <2>1. /\ AlignUp(r.address) \in Nat /\ AlignUp(r.address) >= r.address
        /\ AlignUp(r.address) < r.address + PageSize
    BY <1>1, AlignUpFact
  <2> QED
    BY <1>2, <2>1
<1>4. PICK b \in Nat, last \in Nat :
        /\ last = AlignDown(RegionEnd(r)) /\ last = PageSize * b
        /\ last <= RegionEnd(r) /\ RegionEnd(r) < last + PageSize
  BY <1>1, AlignDownFact
<1>5. ASSUME NEW k \in 1..n, p = PagesOf(r)[k]
      PROVE  PageIn(p, r)
  <2>1. PICK c \in Nat : c = a + (k - 1)
    OBVIOUS
  <2>2. p = PageSize * c /\ p \in Nat /\ p % PageSize = 0
    <3>1. p = PageSize * c
      BY <1>2, <1>5, <2>1
    <3>2. p \in Nat
      BY <1>2, <1>5
    <3> QED
      BY <3>1, <3>2, MultipleFact
  <2>3. a <= c /\ c + 1 <= a + n /\ n > 0
    BY <2>1
  <2>4. first <= p
    BY <1>3, <2>2, <2>3, PageSizes, ProductOrder
  <2>5. p + PageSize <= last
    <3>1. c + 1 \in Int /\ a + n \in Int /\ PageSize * (c + 1) = PageSize * c + PageSize
      BY PageSizes
    <3>2. PageSize * (c + 1) <= PageSize * (a + n)
      BY <2>3, <3>1, PageSizes, ProductOrder
    <3> QED
      BY <1>2, <1>4, <2>2, <2>3, <3>1, <3>2
  <2> QED
    <3>1. r.address <= p /\ p + PageSize <= RegionEnd(r)
      BY <1>1, <1>3, <1>4, <2>2, <2>4, <2>5, PageSizes
    <3>2. r.type = RAM
      BY <1>2, <2>3
    <3> QED
      BY <2>2, <3>1, <3>2 DEF PageIn
<1>6. ASSUME PageIn(p, r)
      PROVE  InSeq(p, PagesOf(r))
  <2>1. r.type = RAM /\ p \in Nat /\ p % PageSize = 0 /\ r.address <= p /\ p + PageSize <= RegionEnd(r)
    BY <1>6 DEF PageIn
  <2>2. PICK c \in Int : p = PageSize * c
    <3>1. p \div PageSize \in Int /\ p = PageSize * (p \div PageSize) + 0
      BY <2>1, PageSizes, DivFact
    <3>2. PageSize * (p \div PageSize) \in Int
      BY <3>1, PageSizes
    <3> QED
      BY <3>1, <3>2
  <2>3. a <= c
    <3>1. SUFFICES ASSUME a > c
                   PROVE  FALSE
      OBVIOUS
    <3>2. PageSize * a >= PageSize * c + PageSize
      BY <3>1, PageSizes, Product
    <3> QED
      BY <1>1, <1>3, <2>1, <2>2, <3>2, PageSizes
  <2>4. c + 1 <= b
    <3>1. SUFFICES ASSUME c >= b
                   PROVE  FALSE
      OBVIOUS
    <3>2. PageSize * b <= PageSize * c
      BY <3>1, PageSizes, ProductOrder
    <3> QED
      BY <1>1, <1>4, <2>1, <2>2, <3>2, PageSizes
  <2>5. n > 0 /\ b = a + n
    <3>1. n # 0
      <4>1. SUFFICES ASSUME n = 0
                     PROVE  FALSE
        OBVIOUS
      <4>2. PageSize * b <= PageSize * a
        BY <1>2, <1>4, <2>1, <4>1
      <4>3. b <= a
        BY <4>2, PageSizes, ProductOrder
      <4> QED
        BY <2>3, <2>4, <4>3
    <3>2. PageSize * b = PageSize * (a + n)
      BY <1>2, <1>4, <3>1
    <3>3. b <= a + n /\ a + n <= b
      BY <3>2, PageSizes, ProductOrder
    <3> QED
      BY <3>1, <3>3
  <2>6. PICK k \in 1..n : c = a + (k - 1)
    <3>1. c - a + 1 \in 1..n /\ c = a + ((c - a + 1) - 1)
      BY <2>3, <2>4, <2>5
    <3> QED
      BY <3>1
  <2>7. p = PagesOf(r)[k]
    BY <1>2, <2>2, <2>6
  <2> QED
    BY <1>2, <2>7 DEF InSeq
<1> QED
  BY <1>2, <1>5, <1>6 DEF InSeq

LEMMA PagesOfSpaced ==
  ASSUME NEW r \in Region
  PROVE  Spaced(PagesOf(r))
<1>1. PICK a \in Nat, n \in Nat :
        /\ Len(PagesOf(r)) = n
        /\ \A k \in 1..n : PagesOf(r)[k] = PageSize * (a + (k - 1))
  BY PagesFact
<1>2. ASSUME NEW i \in 1..n, NEW j \in 1..n, i < j
      PROVE  PagesOf(r)[i] + PageSize <= PagesOf(r)[j]
  <2>1. PICK c \in Int, d \in Int : c = a + (i - 1) /\ d = a + (j - 1) /\ d > c
    BY <1>2
  <2>2. PageSize * d >= PageSize * c + PageSize /\ PageSize * d \in Int /\ PageSize * c \in Int
    BY <2>1, PageSizes, Product, ProductOrder
  <2> QED
    BY <1>1, <2>1, <2>2, PageSizes
<1> QED
  BY <1>1, <1>2 DEF Spaced
Distinct(s) == \A i, j \in 1..Len(s) : s[i] = s[j] => i = j

LEMMA PagesOfDistinct ==
  ASSUME NEW r \in Region
  PROVE  Distinct(PagesOf(r))
<1>1. PICK n \in Nat : n = Len(PagesOf(r)) /\ PagesOf(r) \in Seq(Nat)
  BY PagesFact
<1>2. ASSUME NEW i \in 1..n, NEW j \in 1..n, i < j
      PROVE  PagesOf(r)[i] # PagesOf(r)[j]
  <2>1. PagesOf(r)[i] + PageSize <= PagesOf(r)[j] /\ PagesOf(r)[i] \in Nat
    BY <1>1, <1>2, PagesOfSpaced DEF Spaced
  <2> QED
    BY <2>1, PageSizes
<1>3. ASSUME NEW i \in 1..n, NEW j \in 1..n, PagesOf(r)[i] = PagesOf(r)[j]
      PROVE  i = j
  <2>1. ~(i < j) /\ ~(j < i)
    BY <1>2, <1>3
  <2> QED
    BY <2>1
<1> QED
  BY <1>1, <1>3 DEF Distinct

-----------------------------------------------------------------------------
(* Flattening. *)

LEMMA ConcatFact ==
  ASSUME NEW s \in Seq(Nat), NEW t \in Seq(Nat)
  PROVE  /\ s \o t \in Seq(Nat) /\ Len(s \o t) = Len(s) + Len(t)
         /\ Len(s) \in Nat /\ Len(t) \in Nat
         /\ \A k \in 1..Len(s) : (s \o t)[k] = s[k]
         /\ \A k \in (Len(s) + 1)..(Len(s) + Len(t)) : (s \o t)[k] = t[k - Len(s)]
OBVIOUS

LEMMA ConcatMembers ==
  ASSUME NEW s \in Seq(Nat), NEW t \in Seq(Nat), NEW x
  PROVE  InSeq(x, s \o t) <=> InSeq(x, s) \/ InSeq(x, t)
<1>1. PICK z : z = s \o t
  OBVIOUS
<1>2. PICK m \in Nat, n \in Nat : m = Len(s) /\ n = Len(t)
  BY ConcatFact
<1>3. /\ Len(z) = m + n
      /\ \A k \in 1..m : z[k] = s[k]
      /\ \A k \in (m + 1)..(m + n) : z[k] = t[k - m]
  BY <1>1, <1>2, ConcatFact
<1>4. ASSUME NEW k \in 1..(m + n), z[k] = x
      PROVE  InSeq(x, s) \/ InSeq(x, t)
  <2>1. CASE k <= m
    <3>1. k \in 1..m
      BY <2>1
    <3> QED
      BY <1>2, <1>3, <1>4, <3>1 DEF InSeq
  <2>2. CASE k > m
    <3>1. k \in (m + 1)..(m + n) /\ k - m \in 1..n
      BY <2>2
    <3>2. t[k - m] = x
      BY <1>3, <1>4, <3>1
    <3> QED
      BY <1>2, <3>1, <3>2 DEF InSeq
  <2> QED
    BY <2>1, <2>2
<1>5. ASSUME NEW k \in 1..m, s[k] = x
      PROVE  InSeq(x, z)
  <2>1. k \in 1..(m + n) /\ z[k] = x
    BY <1>3, <1>5
  <2> QED
    BY <1>3, <2>1 DEF InSeq
<1>6. ASSUME NEW k \in 1..n, t[k] = x
      PROVE  InSeq(x, z)
  <2>1. k + m \in (m + 1)..(m + n) /\ (k + m) - m = k /\ k + m \in 1..(m + n)
    OBVIOUS
  <2>2. z[k + m] = x
    BY <1>3, <1>6, <2>1
  <2> QED
    BY <1>3, <2>1, <2>2 DEF InSeq
<1>7. InSeq(x, z) => InSeq(x, s) \/ InSeq(x, t)
  BY <1>3, <1>4 DEF InSeq
<1>8. InSeq(x, s) \/ InSeq(x, t) => InSeq(x, z)
  BY <1>2, <1>5, <1>6 DEF InSeq
<1> QED
  BY <1>1, <1>7, <1>8

LEMMA ConcatSpaced ==
  ASSUME NEW s \in Seq(Nat), NEW t \in Seq(Nat), Spaced(s), Spaced(t),
         \A x, y \in Nat : InSeq(x, s) /\ InSeq(y, t) => x + PageSize <= y
  PROVE  Spaced(s \o t)
<1>1. PICK z : z = s \o t
  OBVIOUS
<1>2. PICK m \in Nat, n \in Nat : m = Len(s) /\ n = Len(t)
  BY ConcatFact
<1>3. /\ Len(z) = m + n
      /\ \A k \in 1..m : z[k] = s[k]
      /\ \A k \in (m + 1)..(m + n) : z[k] = t[k - m]
  BY <1>1, <1>2, ConcatFact
<1>4. ASSUME NEW i \in 1..(m + n), NEW j \in 1..(m + n), i < j
      PROVE  z[i] + PageSize <= z[j]
  <2>1. CASE j <= m
    <3>1. i \in 1..m /\ j \in 1..m
      BY <1>4, <2>1
    <3> QED
      BY <1>2, <1>3, <1>4, <3>1 DEF Spaced
  <2>2. CASE i > m
    <3>1. i \in (m + 1)..(m + n) /\ j \in (m + 1)..(m + n) /\ i - m \in 1..n /\ j - m \in 1..n /\ i - m < j - m
      BY <1>4, <2>2
    <3>2. t[i - m] + PageSize <= t[j - m]
      BY <1>2, <3>1 DEF Spaced
    <3> QED
      BY <1>3, <3>1, <3>2
  <2>3. CASE i <= m /\ j > m
    <3>1. i \in 1..m /\ j \in (m + 1)..(m + n) /\ j - m \in 1..n
      BY <2>3
    <3>2. z[i] = s[i] /\ z[j] = t[j - m] /\ s[i] \in Nat /\ t[j - m] \in Nat
      BY <1>2, <1>3, <3>1
    <3>3. InSeq(s[i], s) /\ InSeq(t[j - m], t)
      BY <1>2, <3>1 DEF InSeq
    <3> QED
      BY <3>2, <3>3
  <2> QED
    BY <2>1, <2>2, <2>3
<1>5. Spaced(z)
  BY <1>3, <1>4 DEF Spaced
<1> QED
  BY <1>1, <1>5

LEMMA ConcatDistinct ==
  ASSUME NEW s \in Seq(Nat), NEW t \in Seq(Nat), Distinct(s), Distinct(t),
         \A x \in Nat : ~(InSeq(x, s) /\ InSeq(x, t))
  PROVE  Distinct(s \o t)
<1>1. PICK z : z = s \o t
  OBVIOUS
<1>2. PICK m \in Nat, n \in Nat : m = Len(s) /\ n = Len(t)
  BY ConcatFact
<1>3. /\ Len(z) = m + n
      /\ \A k \in 1..m : z[k] = s[k]
      /\ \A k \in (m + 1)..(m + n) : z[k] = t[k - m]
  BY <1>1, <1>2, ConcatFact
<1>4. ASSUME NEW i \in 1..m, NEW j \in (m + 1)..(m + n)
      PROVE  z[i] # z[j]
  <2>1. j - m \in 1..n
    OBVIOUS
  <2>2. z[i] = s[i] /\ z[j] = t[j - m] /\ s[i] \in Nat /\ t[j - m] \in Nat
    BY <1>2, <1>3, <2>1
  <2>3. InSeq(s[i], s) /\ InSeq(t[j - m], t)
    BY <1>2, <2>1 DEF InSeq
  <2> QED
    BY <2>2, <2>3
<1>5. ASSUME NEW i \in 1..(m + n), NEW j \in 1..(m + n), z[i] = z[j]
      PROVE  i = j
  <2>1. CASE i <= m /\ j <= m
    <3>1. i \in 1..m /\ j \in 1..m
      BY <2>1
    <3> QED
      BY <1>2, <1>3, <1>5, <3>1 DEF Distinct
  <2>2. CASE i > m /\ j > m
    <3>1. i \in (m + 1)..(m + n) /\ j \in (m + 1)..(m + n) /\ i - m \in 1..n /\ j - m \in 1..n
      BY <2>2
    <3>2. t[i - m] = t[j - m]
      BY <1>3, <1>5, <3>1
    <3>3. i - m = j - m
      BY <1>2, <3>1, <3>2 DEF Distinct
    <3> QED
      BY <3>3
  <2>3. CASE i <= m /\ j > m
    <3>1. i \in 1..m /\ j \in (m + 1)..(m + n)
      BY <2>3
    <3> QED
      BY <1>4, <1>5, <3>1
  <2>4. CASE i > m /\ j <= m
    <3>1. j \in 1..m /\ i \in (m + 1)..(m + n)
      BY <2>4
    <3> QED
      BY <1>4, <1>5, <3>1
  <2> QED
    BY <2>1, <2>2, <2>3, <2>4
<1>6. Distinct(z)
  BY <1>3, <1>5 DEF Distinct
<1> QED
  BY <1>1, <1>6

\* The sequences up to the i-th, one after the other.
Flattens(f, ss, n) == f = [i \in 1..n |-> IF i = 1 THEN ss[i] ELSE f[i - 1] \o ss[i]]

LEMMA FlattenExists ==
  ASSUME NEW n \in Nat, NEW ss
  PROVE  \E f : Flattens(f, ss, n)
<1>1. SUFFICES ASSUME ~ \E f : Flattens(f, ss, n)
               PROVE  FALSE
  OBVIOUS
<1>2. PICK S \in SUBSET Nat : S = {m \in Nat : ~ \E f : Flattens(f, ss, m)}
  <2>1. {m \in Nat : ~ \E f : Flattens(f, ss, m)} \in SUBSET Nat
    OBVIOUS
  <2> QED
    BY <2>1
<1>3. n \in S
  BY <1>1, <1>2
<1>4. PICK m \in S : \A k \in S : m <= k
  BY <1>3, LeastNatural
<1>5. m \in Nat /\ ~ \E f : Flattens(f, ss, m)
  BY <1>2
<1>6. CASE m = 0
  <2>1. PICK f : f = [i \in 1..0 |-> ss[i]]
    OBVIOUS
  <2>2. f = [i \in 1..m |-> IF i = 1 THEN ss[i] ELSE f[i - 1] \o ss[i]]
    BY <1>6, <2>1
  <2> QED
    BY <1>5, <2>2 DEF Flattens
<1>7. CASE m # 0
  <2>1. m - 1 \in Nat /\ m - 1 \notin S
    BY <1>4, <1>5, <1>7
  <2>2. PICK g : Flattens(g, ss, m - 1)
    BY <1>2, <2>1
  <2>3. ASSUME NEW i \in 1..(m - 1)
        PROVE  g[i] = IF i = 1 THEN ss[i] ELSE g[i - 1] \o ss[i]
    BY <2>2 DEF Flattens
  <2>4. PICK f : f = [i \in 1..m |-> IF i = 1 THEN ss[i] ELSE g[i - 1] \o ss[i]]
    OBVIOUS
  <2>5. ASSUME NEW i \in 1..(m - 1)
        PROVE  i \in 1..m /\ f[i] = g[i]
    <3>1. i \in 1..m
      BY <1>5
    <3> QED
      BY <2>3, <2>4, <3>1
  <2>6. ASSUME NEW i \in 1..m
        PROVE  f[i] = IF i = 1 THEN ss[i] ELSE f[i - 1] \o ss[i]
    <3>1. CASE i = 1
      BY <2>4, <3>1
    <3>2. CASE i # 1
      <4>1. i - 1 \in 1..(m - 1)
        BY <1>5, <3>2
      <4> QED
        BY <2>4, <2>5, <3>2, <4>1
    <3> QED
      BY <3>1, <3>2
  <2>7. f = [i \in 1..m |-> f[i]]
    BY <2>4
  <2>8. f = [i \in 1..m |-> IF i = 1 THEN ss[i] ELSE f[i - 1] \o ss[i]]
    BY <2>6, <2>7
  <2> QED
    BY <1>5, <2>8 DEF Flattens
<1> QED
  BY <1>6, <1>7

LEMMA FlattenFact ==
  ASSUME NEW n \in Nat, n > 0, NEW ss, Len(ss) = n
  PROVE  \E f : Flattens(f, ss, n) /\ FlattenSeq(ss) = f[n]
<1>1. PICK f : f = CHOOSE g : g = [i \in 1..Len(ss) |-> IF i = 1 THEN ss[i] ELSE g[i - 1] \o ss[i]]
  OBVIOUS
<1>2. \E g : g = [i \in 1..Len(ss) |-> IF i = 1 THEN ss[i] ELSE g[i - 1] \o ss[i]]
  BY FlattenExists DEF Flattens
<1>3. Flattens(f, ss, n)
  BY <1>1, <1>2 DEF Flattens
<1>4. FlattenSeq(ss) = f[n]
  BY <1>1 DEF FlattenSeq
<1> QED
  BY <1>3, <1>4

\* What is in the first m sequences.
Within(x, ss, m) == \E j \in 1..m : InSeq(x, ss[j])

LEMMA FlattenMembers ==
  ASSUME NEW n \in Nat, NEW ss \in [1..n -> Seq(Nat)], NEW f, Flattens(f, ss, n), NEW m \in 1..n
  PROVE  f[m] \in Seq(Nat) /\ \A x \in Nat : InSeq(x, f[m]) <=> Within(x, ss, m)
<1>1. SUFFICES ASSUME ~(f[m] \in Seq(Nat) /\ \A x \in Nat : InSeq(x, f[m]) <=> Within(x, ss, m))
               PROVE  FALSE
  OBVIOUS
<1>2. PICK S \in SUBSET Nat :
        S = {k \in 1..n : ~(f[k] \in Seq(Nat) /\ \A x \in Nat : InSeq(x, f[k]) <=> Within(x, ss, k))}
  <2>1. {k \in 1..n : ~(f[k] \in Seq(Nat) /\ \A x \in Nat : InSeq(x, f[k]) <=> Within(x, ss, k))} \in SUBSET Nat
    OBVIOUS
  <2> QED
    BY <2>1
<1>3. m \in S
  BY <1>1, <1>2
<1>4. PICK k \in S : \A j \in S : k <= j
  BY <1>3, LeastNatural
<1>5. k \in 1..n /\ ~(f[k] \in Seq(Nat) /\ \A x \in Nat : InSeq(x, f[k]) <=> Within(x, ss, k))
  BY <1>2
<1>6. f[k] = IF k = 1 THEN ss[k] ELSE f[k - 1] \o ss[k]
  BY <1>5 DEF Flattens
<1>7. ss[k] \in Seq(Nat)
  BY <1>5
<1>8. CASE k = 1
  <2>1. \A x \in Nat : InSeq(x, ss[1]) <=> Within(x, ss, 1)
    BY DEF Within
  <2> QED
    BY <1>5, <1>6, <1>7, <1>8, <2>1
<1>9. CASE k # 1
  <2>1. k - 1 \in 1..n /\ k - 1 \notin S /\ k - 1 \in Nat
    BY <1>4, <1>5, <1>9
  <2>2. f[k - 1] \in Seq(Nat) /\ \A x \in Nat : InSeq(x, f[k - 1]) <=> Within(x, ss, k - 1)
    BY <1>2, <2>1
  <2>3. f[k] = f[k - 1] \o ss[k] /\ f[k] \in Seq(Nat)
    BY <1>6, <1>7, <1>9, <2>2, ConcatFact
  <2>4. ASSUME NEW x \in Nat
        PROVE  InSeq(x, f[k]) <=> Within(x, ss, k)
    <3>1. InSeq(x, f[k]) <=> InSeq(x, f[k - 1]) \/ InSeq(x, ss[k])
      BY <1>7, <2>2, <2>3, ConcatMembers
    <3>2. Within(x, ss, k) <=> Within(x, ss, k - 1) \/ InSeq(x, ss[k])
      <4>1. \A j : j \in 1..k <=> j \in 1..(k - 1) \/ j = k
        BY <1>5
      <4> QED
        BY <4>1 DEF Within
    <3> QED
      BY <2>2, <3>1, <3>2
  <2> QED
    BY <1>5, <2>3, <2>4
<1> QED
  BY <1>8, <1>9

LEMMA FlattenSpaced ==
  ASSUME NEW n \in Nat, NEW ss \in [1..n -> Seq(Nat)], NEW f, Flattens(f, ss, n), NEW m \in 1..n,
         \A j \in 1..n : Spaced(ss[j]),
         \A i, j \in 1..n : i < j =>
           \A x, y \in Nat : InSeq(x, ss[i]) /\ InSeq(y, ss[j]) => x + PageSize <= y
  PROVE  Spaced(f[m])
<1>1. SUFFICES ASSUME ~Spaced(f[m])
               PROVE  FALSE
  OBVIOUS
<1>2. PICK S \in SUBSET Nat : S = {k \in 1..n : ~Spaced(f[k])}
  <2>1. {k \in 1..n : ~Spaced(f[k])} \in SUBSET Nat
    OBVIOUS
  <2> QED
    BY <2>1
<1>3. m \in S
  BY <1>1, <1>2
<1>4. PICK k \in S : \A j \in S : k <= j
  BY <1>3, LeastNatural
<1>5. k \in 1..n /\ ~Spaced(f[k])
  BY <1>2
<1>6. f[k] = IF k = 1 THEN ss[k] ELSE f[k - 1] \o ss[k]
  BY <1>5 DEF Flattens
<1>7. ss[k] \in Seq(Nat) /\ Spaced(ss[k])
  BY <1>5
<1>8. CASE k = 1
  BY <1>5, <1>6, <1>7, <1>8
<1>9. CASE k # 1
  <2>1. k - 1 \in 1..n /\ k - 1 \notin S
    BY <1>4, <1>5, <1>9
  <2>2. Spaced(f[k - 1])
    BY <1>2, <2>1
  <2>3. f[k - 1] \in Seq(Nat) /\ \A x \in Nat : InSeq(x, f[k - 1]) <=> Within(x, ss, k - 1)
    BY <2>1, FlattenMembers
  <2>4. ASSUME NEW x \in Nat, NEW y \in Nat, InSeq(x, f[k - 1]), InSeq(y, ss[k])
        PROVE  x + PageSize <= y
    <3>1. PICK j \in 1..(k - 1) : InSeq(x, ss[j])
      BY <2>3, <2>4 DEF Within
    <3>2. j \in 1..n /\ j < k
      BY <1>5, <3>1
    <3> QED
      BY <1>5, <2>4, <3>1, <3>2
  <2>5. Spaced(f[k - 1] \o ss[k])
    BY <1>7, <2>2, <2>3, <2>4, ConcatSpaced
  <2> QED
    BY <1>5, <1>6, <1>9, <2>5
<1> QED
  BY <1>8, <1>9

LEMMA FlattenDistinct ==
  ASSUME NEW n \in Nat, NEW ss \in [1..n -> Seq(Nat)], NEW f, Flattens(f, ss, n), NEW m \in 1..n,
         \A j \in 1..n : Distinct(ss[j]),
         \A i, j \in 1..n : i < j => \A x \in Nat : ~(InSeq(x, ss[i]) /\ InSeq(x, ss[j]))
  PROVE  Distinct(f[m])
<1>1. SUFFICES ASSUME ~Distinct(f[m])
               PROVE  FALSE
  OBVIOUS
<1>2. PICK S \in SUBSET Nat : S = {k \in 1..n : ~Distinct(f[k])}
  <2>1. {k \in 1..n : ~Distinct(f[k])} \in SUBSET Nat
    OBVIOUS
  <2> QED
    BY <2>1
<1>3. m \in S
  BY <1>1, <1>2
<1>4. PICK k \in S : \A j \in S : k <= j
  BY <1>3, LeastNatural
<1>5. k \in 1..n /\ ~Distinct(f[k])
  BY <1>2
<1>6. f[k] = IF k = 1 THEN ss[k] ELSE f[k - 1] \o ss[k]
  BY <1>5 DEF Flattens
<1>7. ss[k] \in Seq(Nat) /\ Distinct(ss[k])
  BY <1>5
<1>8. CASE k = 1
  BY <1>5, <1>6, <1>7, <1>8
<1>9. CASE k # 1
  <2>1. k - 1 \in 1..n /\ k - 1 \notin S
    BY <1>4, <1>5, <1>9
  <2>2. Distinct(f[k - 1])
    BY <1>2, <2>1
  <2>3. f[k - 1] \in Seq(Nat) /\ \A x \in Nat : InSeq(x, f[k - 1]) <=> Within(x, ss, k - 1)
    BY <2>1, FlattenMembers
  <2>4. ASSUME NEW x \in Nat, InSeq(x, f[k - 1]), InSeq(x, ss[k])
        PROVE  FALSE
    <3>1. PICK j \in 1..(k - 1) : InSeq(x, ss[j])
      BY <2>3, <2>4 DEF Within
    <3>2. j \in 1..n /\ j < k
      BY <1>5, <3>1
    <3> QED
      BY <1>5, <2>4, <3>1, <3>2
  <2>5. Distinct(f[k - 1] \o ss[k])
    BY <1>7, <2>2, <2>3, <2>4, ConcatDistinct
  <2> QED
    BY <1>5, <1>6, <1>9, <2>5
<1> QED
  BY <1>8, <1>9

-----------------------------------------------------------------------------
(* The page list of a map. *)

PagesOfEach(map) == [i \in 1..Len(map) |-> PagesOf(map[i])]

LEMMA EachFact ==
  ASSUME NEW map \in Seq(Region)
  PROVE  /\ Len(map) \in Nat /\ \A i \in 1..Len(map) : map[i] \in Region
         /\ PagesOfEach(map) \in [1..Len(map) -> Seq(Nat)] /\ Len(PagesOfEach(map)) = Len(map)
         /\ \A i \in 1..Len(map) : PagesOfEach(map)[i] = PagesOf(map[i])
         /\ Chained(map) = FlattenSeq(PagesOfEach(map))
<1>1. Len(map) \in Nat /\ \A i \in 1..Len(map) : map[i] \in Region
  OBVIOUS
<1>2. \A i \in 1..Len(map) : PagesOf(map[i]) \in Seq(Nat)
  BY <1>1, PagesFact
<1>3. PagesOfEach(map) \in [1..Len(map) -> Seq(Nat)] /\ \A i \in 1..Len(map) : PagesOfEach(map)[i] = PagesOf(map[i])
  BY <1>2 DEF PagesOfEach
<1>4. Len(PagesOfEach(map)) = Len(map)
  BY <1>1, <1>3
<1> QED
  BY <1>1, <1>3, <1>4 DEF PagesOfEach, Chained

\* init_page chains the whole pages of the RAM regions, and nothing else.
LEMMA ChainedMembers ==
  ASSUME NEW map \in Seq(Region)
  PROVE  /\ Chained(map) \in Seq(Nat)
         /\ \A p \in Nat : InSeq(p, Chained(map)) <=> \E i \in 1..Len(map) : PageIn(p, map[i])
<1>0. PICK n \in Nat : n = Len(map)
  BY EachFact
<1>1. PICK ss \in [1..n -> Seq(Nat)] : n = Len(map) /\ ss = PagesOfEach(map) /\ Len(ss) = n
  BY <1>0, EachFact
<1>2. \A i \in 1..n : map[i] \in Region /\ ss[i] = PagesOf(map[i])
  BY <1>1, EachFact
<1>3. Chained(map) = FlattenSeq(ss)
  BY <1>1, EachFact
<1>4. ASSUME NEW p \in Nat
      PROVE  Within(p, ss, n) <=> \E i \in 1..n : PageIn(p, map[i])
  <2>1. \A i \in 1..n : InSeq(p, ss[i]) <=> PageIn(p, map[i])
    BY <1>2, PagesOfMembers
  <2> QED
    BY <2>1 DEF Within
<1>5. CASE n = 0
  <2>1. ss = <<>>
    BY <1>1, <1>5
  <2>2. Chained(map) = <<>>
    BY <1>1, <1>3, <1>5, <2>1 DEF FlattenSeq
  <2>3. ~ \E p \in Nat : InSeq(p, Chained(map))
    BY <2>2 DEF InSeq
  <2>4. Chained(map) \in Seq(Nat)
    BY <2>2
  <2>5. ~ \E i \in 1..Len(map) : TRUE
    BY <1>1, <1>5
  <2> QED
    BY <2>3, <2>4, <2>5
<1>6. CASE n # 0
  <2>1. n > 0 /\ n \in 1..n
    BY <1>6
  <2>2. PICK f : Flattens(f, ss, n) /\ FlattenSeq(ss) = f[n]
    BY <1>1, <2>1, FlattenFact
  <2>3. f[n] \in Seq(Nat) /\ \A x \in Nat : InSeq(x, f[n]) <=> Within(x, ss, n)
    BY <2>1, <2>2, FlattenMembers
  <2> QED
    BY <1>1, <1>3, <1>4, <2>2, <2>3
<1> QED
  BY <1>5, <1>6

LEMMA SortedFact ==
  ASSUME NEW map \in Seq(Region), Sorted(map), NEW i \in 1..Len(map), NEW j \in 1..Len(map), i < j,
         NEW x, NEW y, PageIn(x, map[i]), PageIn(y, map[j])
  PROVE  x + PageSize <= y
<1>1. RegionEnd(map[i]) <= map[j].address
  BY DEF Sorted
<1>2. /\ x \in Nat /\ y \in Nat
      /\ x + PageSize <= RegionEnd(map[i]) /\ map[j].address <= y
  BY DEF PageIn
<1>3. RegionEnd(map[i]) \in Nat /\ map[j].address \in Nat
  BY EachFact, RegionFact
<1> QED
  BY <1>1, <1>2, <1>3, PageSizes

\* Over a sorted map the pages are chained in ascending order, none overlapping another.
LEMMA ChainedSpaced ==
  ASSUME NEW map \in Seq(Region), Sorted(map)
  PROVE  Spaced(Chained(map))
<1>0. PICK n \in Nat : n = Len(map)
  BY EachFact
<1>1. PICK ss \in [1..n -> Seq(Nat)] : n = Len(map) /\ ss = PagesOfEach(map) /\ Len(ss) = n
  BY <1>0, EachFact
<1>2. \A i \in 1..n : map[i] \in Region /\ ss[i] = PagesOf(map[i])
  BY <1>1, EachFact
<1>3. Chained(map) = FlattenSeq(ss)
  BY <1>1, EachFact
<1>4. CASE n = 0
  <2>1. ss = <<>>
    BY <1>1, <1>4
  <2>2. Chained(map) = <<>>
    BY <1>1, <1>3, <1>4, <2>1 DEF FlattenSeq
  <2> QED
    BY <2>2 DEF Spaced
<1>5. CASE n # 0
  <2>1. n > 0 /\ n \in 1..n
    BY <1>5
  <2>2. PICK f : Flattens(f, ss, n) /\ FlattenSeq(ss) = f[n]
    BY <1>1, <2>1, FlattenFact
  <2>3. \A j \in 1..n : Spaced(ss[j])
    BY <1>2, PagesOfSpaced
  <2>4. ASSUME NEW i \in 1..n, NEW j \in 1..n, i < j,
               NEW x \in Nat, NEW y \in Nat, InSeq(x, ss[i]), InSeq(y, ss[j])
        PROVE  x + PageSize <= y
    <3>1. PageIn(x, map[i]) /\ PageIn(y, map[j])
      BY <1>2, <2>4, PagesOfMembers
    <3> QED
      BY <1>1, <2>4, <3>1, SortedFact
  <2>5. Spaced(f[n])
    BY <2>1, <2>2, <2>3, <2>4, FlattenSpaced
  <2> QED
    BY <1>3, <2>2, <2>5
<1> QED
  BY <1>4, <1>5
\* No page is whole in two regions.
SharesNone(map) == \A i, j \in 1..Len(map) : i # j => \A p \in Nat : ~(PageIn(p, map[i]) /\ PageIn(p, map[j]))

\* Over a map whose regions share no page, in whatever order, none is chained twice.
LEMMA ChainedDistinct ==
  ASSUME NEW map \in Seq(Region), SharesNone(map)
  PROVE  Distinct(Chained(map))
<1>0. PICK n \in Nat : n = Len(map)
  BY EachFact
<1>1. PICK ss \in [1..n -> Seq(Nat)] : n = Len(map) /\ ss = PagesOfEach(map) /\ Len(ss) = n
  BY <1>0, EachFact
<1>2. \A i \in 1..n : map[i] \in Region /\ ss[i] = PagesOf(map[i])
  BY <1>1, EachFact
<1>3. Chained(map) = FlattenSeq(ss)
  BY <1>1, EachFact
<1>4. CASE n = 0
  <2>1. ss = <<>>
    BY <1>1, <1>4
  <2>2. Chained(map) = <<>>
    BY <1>1, <1>3, <1>4, <2>1 DEF FlattenSeq
  <2> QED
    BY <2>2 DEF Distinct
<1>5. CASE n # 0
  <2>1. n > 0 /\ n \in 1..n
    BY <1>5
  <2>2. PICK f : Flattens(f, ss, n) /\ FlattenSeq(ss) = f[n]
    BY <1>1, <2>1, FlattenFact
  <2>3. \A j \in 1..n : Distinct(ss[j])
    BY <1>2, PagesOfDistinct
  <2>4. ASSUME NEW i \in 1..n, NEW j \in 1..n, i < j, NEW x \in Nat, InSeq(x, ss[i]), InSeq(x, ss[j])
        PROVE  FALSE
    <3>1. PageIn(x, map[i]) /\ PageIn(x, map[j]) /\ i # j
      BY <1>2, <2>4, PagesOfMembers
    <3> QED
      BY <1>1, <3>1 DEF SharesNone
  <2>5. Distinct(f[n])
    BY <2>1, <2>2, <2>3, <2>4, FlattenDistinct
  <2> QED
    BY <1>3, <2>2, <2>5
<1> QED
  BY <1>4, <1>5

-----------------------------------------------------------------------------
(* The heap's bounds and the array's place. *)

LEMMA EndsBound ==
  ASSUME NEW map \in Seq(Region)
  PROVE  \E b \in Nat : \A i \in 1..Len(map) : RegionEnd(map[i]) <= b
<1>1. PICK n \in Nat : n = Len(map)
  BY EachFact
<1>2. PICK f : f = [i \in 1..n |-> RegionEnd(map[i])]
  OBVIOUS
<1>3. \A i \in 1..n : f[i] = RegionEnd(map[i]) /\ f[i] \in Nat
  BY <1>1, <1>2, EachFact, RegionFact
<1>4. \E b \in Nat : \A i \in 1..n : f[i] <= b
  BY <1>3, BoundFact
<1> QED
  BY <1>1, <1>3, <1>4

\* The greatest end of the regions at some indexes.
LEMMA GreatestEnd ==
  ASSUME NEW map \in Seq(Region), NEW I \in SUBSET (1..Len(map)), NEW Z \in SUBSET {0},
         NEW S, S = Z \cup {RegionEnd(map[i]) : i \in I}, S # {}
  PROVE  Max(S) \in Nat /\ \A i \in I : RegionEnd(map[i]) <= Max(S)
<1>1. \A i \in I : RegionEnd(map[i]) \in Nat
  BY EachFact, RegionFact
<1>2. S \in SUBSET Nat
  <2>1. SUFFICES ASSUME NEW x \in S PROVE x \in Nat
    OBVIOUS
  <2>2. CASE x \in Z
    <3>1. x = 0
      BY <2>2
    <3> QED
      BY <3>1
  <2>3. CASE \E i \in I : x = RegionEnd(map[i])
    BY <1>1, <2>3
  <2>4. x \in Z \/ \E i \in I : x = RegionEnd(map[i])
    OBVIOUS
  <2> QED
    BY <2>2, <2>3, <2>4
<1>3. PICK b \in Nat : \A i \in 1..Len(map) : RegionEnd(map[i]) <= b
  BY EndsBound
<1>4. \A x \in S : x <= b
  BY <1>3
<1>5. Max(S) \in S /\ \A y \in S : y <= Max(S)
  BY <1>2, <1>4, MaxFact
<1> QED
  BY <1>2, <1>5

LEMMA HeapEndFact ==
  ASSUME NEW map \in Seq(Region), RamEntries(map) # {}
  PROVE  HeapEnd(map) \in Nat /\ \A i \in RamEntries(map) : RegionEnd(map[i]) <= HeapEnd(map)
<1>1. PICK S : S = {RegionEnd(map[i]) : i \in RamEntries(map)}
  OBVIOUS
<1>2. RamEntries(map) \in SUBSET (1..Len(map)) /\ {} \in SUBSET {0} /\ S = {} \cup {RegionEnd(map[i]) : i \in RamEntries(map)} /\ S # {}
  BY <1>1 DEF RamEntries
<1>3. Max(S) \in Nat /\ \A i \in RamEntries(map) : RegionEnd(map[i]) <= Max(S)
  BY <1>2, GreatestEnd
<1> QED
  BY <1>1, <1>3 DEF HeapEnd

LEMMA HolderFact ==
  ASSUME NEW map \in Seq(Region), Holders(map) # {}
  PROVE  /\ ArraySize(map) \in Nat
         /\ Min(Holders(map)) \in Holders(map) /\ \A i \in Holders(map) : Min(Holders(map)) <= i
         /\ Holders(map) \subseteq RamEntries(map) /\ RamEntries(map) \subseteq 1..Len(map)
         /\ ArrayAddress(map) \in Nat
<1>1. RamEntries(map) \subseteq 1..Len(map) /\ Holders(map) \subseteq RamEntries(map)
  BY DEF RamEntries, Holders
<1>2. Holders(map) \in SUBSET Nat
  BY <1>1
<1>3. Min(Holders(map)) \in Holders(map) /\ \A i \in Holders(map) : Min(Holders(map)) <= i
  BY <1>2, MinFact
<1>4. ArrayAddress(map) \in Nat
  BY <1>1, <1>3, EachFact, RegionFact DEF ArrayAddress
<1>5. ArraySize(map) \in Nat
  <2>1. Chained(map) \in Seq(Nat)
    BY ChainedMembers
  <2>2. Len(Chained(map)) \in Nat
    BY <2>1
  <2> QED
    BY <2>2, PageSizes DEF ArraySize
<1> QED
  BY <1>1, <1>3, <1>4, <1>5

-----------------------------------------------------------------------------
(* The invariant: each function's results in terms of what it was given. *)

MapsRead ==
  /\ stage \in {"bios", "map", "pages"}
  /\ e820_buf \in Seq(Region) /\ Len(e820_buf) = E820_MAX_ENTRIES + 1
  /\ e820 \in Seq(Region) /\ Len(e820) <= E820_MAX_ENTRIES
  /\ stage # "bios" => e820 = SubSeq(e820_buf, 1, KeptLength(e820_buf))

Untouched ==
  pages_struct = NoArray /\ free_pages_list = <<>> /\ kernel_heap_start = 0 /\ kernel_heap_end = 0

SetUp ==
  /\ Holders(e820) # {}
  /\ pages_struct = ArrayAddress(e820)
  /\ free_pages_list = Chained(e820)
  /\ IF free_pages_list = <<>>
       THEN kernel_heap_start = 0 /\ kernel_heap_end = 0
       ELSE kernel_heap_start = AlignUp(Head(free_pages_list)) /\ kernel_heap_end = HeapEnd(e820)

InitInv ==
  /\ MapsRead
  /\ stage # "pages" => Untouched
  /\ stage = "pages" => Untouched \/ SetUp

LEMMA InitInvInit ==
  ASSUME Init
  PROVE  InitInv
<1>1. PICK map \in Seq(Region) : e820_buf = ReadE820(map)
  BY PageInitAssumption DEF Init
<1>2. PICK n \in Nat : n = E820_MAX_ENTRIES + 1
  BY PageSizes
<1>3. PICK buf : buf = ReadE820(map)
  OBVIOUS
<1>4. buf \in [1..n -> Region]
  <2>1. NoRegion \in Region /\ [NoRegion EXCEPT !.address = 1] \in Region
    BY DEF NoRegion, Region
  <2>2. ASSUME NEW i \in 1..n
        PROVE  (IF i <= Len(map) THEN map[i]
                ELSE IF i = Max({1, Len(map)}) + 1 THEN [NoRegion EXCEPT !.address = 1]
                ELSE NoRegion) \in Region
    <3>1. i <= Len(map) => i \in 1..Len(map)
      BY EachFact
    <3> QED
      BY <2>1, <3>1, EachFact
  <2> QED
    BY <1>2, <1>3, <2>2 DEF ReadE820
<1>5. buf \in Seq(Region) /\ Len(buf) = n
  BY <1>4
<1>6. <<>> \in Seq(Region) /\ Len(<<>>) <= E820_MAX_ENTRIES
  BY PageSizes
<1> QED
  BY <1>1, <1>2, <1>3, <1>5, <1>6 DEF Init, InitInv, MapsRead, Untouched

LEMMA KeptFact ==
  ASSUME NEW buf
  PROVE  /\ KeptLength(buf) \in 1..E820_MAX_ENTRIES
         /\ KeptLength(buf) = E820_MAX_ENTRIES \/ Ends(buf[KeptLength(buf) + 1])
<1>1. PICK S \in SUBSET Nat : S = {i \in 1..E820_MAX_ENTRIES : i = E820_MAX_ENTRIES \/ Ends(buf[i + 1])}
  <2>1. {i \in 1..E820_MAX_ENTRIES : i = E820_MAX_ENTRIES \/ Ends(buf[i + 1])} \in SUBSET Nat
    OBVIOUS
  <2> QED
    BY <2>1
<1>2. E820_MAX_ENTRIES \in S
  BY <1>1, PageSizes
<1>3. Min(S) \in S
  BY <1>2, MinFact
<1> QED
  BY <1>1, <1>3 DEF KeptLength

LEMMA InitMemoryMapSafe ==
  ASSUME InitInv, InitMemoryMap
  PROVE  InitInv'
<1>1. PICK n \in 1..E820_MAX_ENTRIES : n = KeptLength(e820_buf)
  BY KeptFact
<1>2. e820_buf \in Seq(Region) /\ Len(e820_buf) = E820_MAX_ENTRIES + 1
  BY DEF InitInv, MapsRead
<1>3. SubSeq(e820_buf, 1, n) \in Seq(Region) /\ Len(SubSeq(e820_buf, 1, n)) = n
  <2>1. \A i \in 1..n : i \in 1..Len(e820_buf)
    BY <1>1, <1>2, PageSizes
  <2> QED
    BY <1>2, <2>1
<1>4. e820' \in Seq(Region) /\ Len(e820') <= E820_MAX_ENTRIES
  BY <1>1, <1>3, PageSizes DEF InitMemoryMap
<1> QED
  BY <1>4 DEF InitMemoryMap, InitInv, MapsRead, Untouched

LEMMA InitPageSafe ==
  ASSUME InitInv, InitPage
  PROVE  InitInv'
<1>1. MapsRead'
  BY DEF InitInv, MapsRead, InitPage
<1>2. Untouched
  BY DEF InitInv, InitPage
<1>3. CASE Holders(e820) = {}
  <2>1. Untouched'
    BY <1>2, <1>3 DEF InitPage, Untouched
  <2> QED
    BY <1>1, <2>1 DEF InitInv, InitPage
<1>4. CASE Holders(e820) # {}
  <2>1. SetUp'
    BY <1>2, <1>4 DEF InitPage, SetUp, Untouched
  <2> QED
    BY <1>1, <2>1 DEF InitInv, InitPage
<1> QED
  BY <1>3, <1>4

LEMMA InitInvariant == Spec => []InitInv
<1>1. Init => InitInv
  BY InitInvInit
<1>2. InitInv /\ [Next]_vars => InitInv'
  <2>1. ASSUME InitInv, UNCHANGED vars
        PROVE  InitInv'
    BY <2>1 DEF vars, InitInv, MapsRead, Untouched, SetUp
  <2> QED
    BY <2>1, InitMemoryMapSafe, InitPageSafe DEF Next
<1> QED
  BY <1>1, <1>2, PTL DEF Spec

-----------------------------------------------------------------------------
(* What the start-up of memory guarantees. *)

LEMMA UpFact ==
  ASSUME InitInv, Up
  PROVE  /\ SetUp /\ e820 \in Seq(Region) /\ free_pages_list \in Seq(Nat)
         /\ \A p \in Nat : p \in Listed <=> \E i \in 1..Len(e820) : PageIn(p, e820[i])
         /\ Listed \subseteq Nat
<1>1. SetUp /\ e820 \in Seq(Region)
  BY DEF InitInv, Up, Untouched, MapsRead
<1>2. free_pages_list = Chained(e820)
  BY <1>1 DEF SetUp
<1>3. free_pages_list \in Seq(Nat)
  BY <1>1, <1>2, ChainedMembers
<1>4. \A p \in Nat : p \in Listed <=> InSeq(p, free_pages_list)
  BY DEF Listed, InSeq
<1>5. Listed \subseteq Nat
  BY <1>3 DEF Listed
<1> QED
  BY <1>1, <1>2, <1>3, <1>4, <1>5, ChainedMembers

LEMMA InitTypes == InitInv => InitTypeOK
<1> SUFFICES ASSUME InitInv
             PROVE  InitTypeOK
  OBVIOUS
<1>1. CASE Untouched
  <2>1. <<>> \in Seq(Nat)
    OBVIOUS
  <2> QED
    BY <1>1, <2>1 DEF InitInv, MapsRead, Untouched, InitTypeOK
<1>2. CASE SetUp
  <2>1. e820 \in Seq(Region)
    BY DEF InitInv, MapsRead
  <2>2. pages_struct \in Nat
    BY <1>2, <2>1, HolderFact DEF SetUp
  <2>3. free_pages_list \in Seq(Nat)
    BY <1>2, <2>1, ChainedMembers DEF SetUp
  <2>4. kernel_heap_start \in Nat /\ kernel_heap_end \in Nat
    <3>1. CASE free_pages_list = <<>>
      BY <1>2, <3>1 DEF SetUp
    <3>2. CASE free_pages_list # <<>>
      <4>1. Head(free_pages_list) \in Nat
        BY <2>3, <3>2
      <4>2. AlignUp(Head(free_pages_list)) \in Nat
        BY <4>1, AlignUpFact
      <4>3. RamEntries(e820) # {}
        BY <1>2, <2>1, HolderFact DEF SetUp
      <4>4. HeapEnd(e820) \in Nat
        BY <2>1, <4>3, HeapEndFact
      <4> QED
        BY <1>2, <3>2, <4>2, <4>4 DEF SetUp
    <3> QED
      BY <3>1, <3>2
  <2> QED
    BY <2>2, <2>3, <2>4 DEF InitInv, MapsRead, InitTypeOK
<1> QED
  BY <1>1, <1>2 DEF InitInv, MapsRead

\* The copy is the buffer up to where it ends.
LEMMA CopyFact ==
  ASSUME InitInv, Up
  PROVE  /\ \A i \in 1..E820_MAX_ENTRIES : e820_buf[i] \in Region
         /\ \E n \in 1..E820_MAX_ENTRIES :
              /\ Len(e820) = n /\ \A i \in 1..n : e820[i] = e820_buf[i]
              /\ n = E820_MAX_ENTRIES \/ Ends(e820_buf[n + 1])
<1>1. PICK n \in 1..E820_MAX_ENTRIES :
        n = KeptLength(e820_buf) /\ (n = E820_MAX_ENTRIES \/ Ends(e820_buf[n + 1]))
  BY KeptFact
<1>2. /\ e820_buf \in Seq(Region) /\ Len(e820_buf) = E820_MAX_ENTRIES + 1
      /\ e820 = SubSeq(e820_buf, 1, n)
  BY <1>1 DEF InitInv, MapsRead, Up
<1>3. \A i \in 1..E820_MAX_ENTRIES : e820_buf[i] \in Region
  BY <1>2, PageSizes
<1>4. Len(e820) = n /\ \A i \in 1..n : e820[i] = e820_buf[i]
  BY <1>1, <1>2, PageSizes
<1> QED
  BY <1>1, <1>3, <1>4

\* A page whole in one region overlaps no other region if the two are apart.
LEMMA PageInApart ==
  ASSUME NEW r \in Region, NEW q \in Region, ~Overlap(r, q), NEW p, PageIn(p, r)
  PROVE  ~Overlap(PageAt(p), q)
<1>1. /\ r.address \in Nat /\ r.length \in Nat /\ RegionEnd(r) = r.address + r.length
      /\ q.address \in Nat /\ q.length \in Nat /\ RegionEnd(q) \in Nat
  BY RegionFact DEF RegionEnd
<1>2. p \in Nat /\ r.address <= p /\ p + PageSize <= RegionEnd(r)
  BY DEF PageIn
<1>3. PageAt(p).address = p /\ RegionEnd(PageAt(p)) = p + PageSize
  BY DEF PageAt, RegionEnd
<1>4. SUFFICES ASSUME q.length > 0, p < RegionEnd(q), q.address < p + PageSize
               PROVE  FALSE
  BY <1>3 DEF Overlap
<1>5. r.length > 0 /\ r.address < RegionEnd(q) /\ q.address < RegionEnd(r)
  BY <1>1, <1>2, <1>4, PageSizes
<1> QED
  BY <1>4, <1>5 DEF Overlap

LEMMA InitPagesAreRam == InitInv => PagesAreRam
<1> SUFFICES ASSUME InitInv, Up
             PROVE  /\ \A p \in Listed : \E r \in Reported : Whole(p, r)
                    /\ Apart =>
                         /\ \A p \in Listed, r \in Reported : r.type # RAM => ~Overlap(PageAt(p), r)
                         /\ \A k, l \in 1..Len(free_pages_list) :
                              free_pages_list[k] = free_pages_list[l] => k = l
                    /\ \A i \in 1..E820_MAX_ENTRIES : \A p \in 0..RegionEnd(e820_buf[i]) :
                         Whole(p, e820_buf[i]) => p \in Listed \/ \E j \in 2..i : Ends(e820_buf[j])
  BY DEF PagesAreRam
<1>1. PICK n \in 1..E820_MAX_ENTRIES :
        /\ Len(e820) = n /\ \A i \in 1..n : e820[i] = e820_buf[i]
        /\ n = E820_MAX_ENTRIES \/ Ends(e820_buf[n + 1])
  BY CopyFact
<1>2. /\ SetUp /\ e820 \in Seq(Region) /\ Listed \subseteq Nat
      /\ \A p \in Nat : p \in Listed <=> \E i \in 1..n : PageIn(p, e820[i])
  BY <1>1, UpFact
<1>3. \A i \in 1..n : i \in 1..E820_MAX_ENTRIES /\ e820[i] = e820_buf[i]
  BY <1>1, PageSizes
<1>4. \A i \in 1..E820_MAX_ENTRIES : e820_buf[i] \in Region /\ RegionEnd(e820_buf[i]) \in Nat
  BY CopyFact, RegionFact
<1>5. ASSUME NEW p \in Listed
      PROVE  \E i \in 1..n : PageIn(p, e820_buf[i])
  BY <1>2, <1>3
<1>6. ASSUME NEW p \in Listed
      PROVE  \E r \in Reported : Whole(p, r)
  BY <1>3, <1>5 DEF PageIn, Whole, Reported
<1>7. ASSUME Apart, NEW p \in Listed, NEW j \in 1..E820_MAX_ENTRIES, e820_buf[j].type # RAM
      PROVE  ~Overlap(PageAt(p), e820_buf[j])
  <2>1. PICK i \in 1..n : PageIn(p, e820_buf[i])
    BY <1>5
  <2>2. i \in 1..E820_MAX_ENTRIES /\ i # j
    BY <1>3, <1>7, <2>1 DEF PageIn
  <2>3. ~Overlap(e820_buf[i], e820_buf[j])
    BY <1>7, <2>2 DEF Apart
  <2> QED
    BY <1>4, <2>1, <2>2, <2>3, PageInApart
<1>8. ASSUME Apart
      PROVE  Distinct(free_pages_list)
  <2>1. ASSUME NEW i \in 1..n, NEW j \in 1..n, i # j, NEW p \in Nat,
               PageIn(p, e820_buf[i]), PageIn(p, e820_buf[j])
        PROVE  FALSE
    <3>1. ~Overlap(e820_buf[i], e820_buf[j])
      BY <1>3, <1>8, <2>1 DEF Apart
    <3>2. ~Overlap(PageAt(p), e820_buf[j])
      BY <1>3, <1>4, <2>1, <3>1, PageInApart
    <3>3. /\ e820_buf[j].address \in Nat /\ e820_buf[j].length \in Nat
          /\ e820_buf[j].address <= p /\ p + PageSize <= RegionEnd(e820_buf[j])
          /\ RegionEnd(e820_buf[j]) = e820_buf[j].address + e820_buf[j].length
      BY <1>3, <1>4, <2>1, RegionFact DEF PageIn, RegionEnd
    <3>4. /\ PageAt(p).length = PageSize /\ PageAt(p).address = p /\ RegionEnd(PageAt(p)) = p + PageSize
          /\ e820_buf[j].length > 0 /\ p < RegionEnd(e820_buf[j]) /\ e820_buf[j].address < p + PageSize
      BY <3>3, PageSizes DEF PageAt, RegionEnd
    <3> QED
      BY <3>2, <3>4, PageSizes DEF Overlap
  <2>2. SharesNone(e820)
    BY <1>1, <1>3, <2>1 DEF SharesNone
  <2> QED
    BY <1>2, <2>2, ChainedDistinct DEF SetUp
<1>9. ASSUME NEW i \in 1..E820_MAX_ENTRIES, NEW p \in 0..RegionEnd(e820_buf[i]), Whole(p, e820_buf[i])
      PROVE  p \in Listed \/ \E j \in 2..i : Ends(e820_buf[j])
  <2>1. p \in Nat /\ PageIn(p, e820_buf[i])
    BY <1>4, <1>9 DEF Whole, PageIn
  <2>2. CASE i <= n
    <3>1. i \in 1..n
      BY <2>2
    <3> QED
      BY <1>2, <1>3, <2>1, <3>1
  <2>3. CASE i > n
    <3>1. n # E820_MAX_ENTRIES /\ n + 1 \in 2..i
      BY <2>3, PageSizes
    <3> QED
      BY <1>1, <3>1
  <2> QED
    BY <2>2, <2>3
<1>10. \A r \in Reported : \E j \in 1..E820_MAX_ENTRIES : r = e820_buf[j]
  BY DEF Reported
<1> QED
  BY <1>6, <1>7, <1>8, <1>9, <1>10 DEF Distinct

LEMMA InitPoolAscending == InitInv => PoolAscending
<1> SUFFICES ASSUME InitInv, Up, Sorted(e820)
             PROVE  \A i, j \in 1..Len(free_pages_list) :
                      i < j => free_pages_list[i] + PageSize <= free_pages_list[j]
  BY DEF PoolAscending
<1>1. SetUp /\ e820 \in Seq(Region)
  BY UpFact
<1>2. Spaced(free_pages_list)
  BY <1>1, ChainedSpaced DEF SetUp
<1> QED
  BY <1>2 DEF Spaced

LEMMA InitHeapCovers == InitInv => HeapCoversPages
<1> SUFFICES ASSUME InitInv, Up, Sorted(e820), NEW p \in Listed
             PROVE  kernel_heap_start <= p /\ p + PageSize <= kernel_heap_end
  BY DEF HeapCoversPages
<1>1. /\ SetUp /\ e820 \in Seq(Region) /\ free_pages_list \in Seq(Nat) /\ p \in Nat
      /\ \A q \in Nat : q \in Listed <=> \E i \in 1..Len(e820) : PageIn(q, e820[i])
  BY UpFact
<1>2. PICK k \in 1..Len(free_pages_list) : p = free_pages_list[k]
  BY DEF Listed
<1>3. free_pages_list # <<>> /\ 1 \in 1..Len(free_pages_list) /\ Len(free_pages_list) \in Nat
  BY <1>1, <1>2
<1>4. PICK h \in Nat : h = free_pages_list[1] /\ h = Head(free_pages_list) /\ h \in Listed
  <2>1. free_pages_list[1] \in Nat /\ Head(free_pages_list) = free_pages_list[1]
    BY <1>1, <1>3
  <2> QED
    BY <1>3, <2>1 DEF Listed
<1>5. h <= p
  <2>1. CASE k = 1
    BY <1>2, <1>4, <2>1
  <2>2. CASE k # 1
    <3>1. 1 < k
      BY <1>3, <2>2
    <3>2. h + PageSize <= p
      BY <1>2, <1>3, <1>4, <3>1, InitPoolAscending DEF PoolAscending
    <3> QED
      BY <1>1, <3>2, PageSizes
  <2> QED
    BY <2>1, <2>2
<1>6. AlignUp(h) = h
  <2>1. h % PageSize = 0
    BY <1>1, <1>4 DEF PageIn
  <2>2. PICK q \in Nat : /\ AlignUp(h) = PageSize * q /\ AlignUp(h) \in Nat
                        /\ AlignUp(h) >= h /\ AlignUp(h) < h + PageSize
    BY AlignUpFact
  <2>3. AlignUp(h) % PageSize = 0
    BY <2>2, MultipleFact
  <2>4. ~(AlignUp(h) > h)
    <3>1. AlignUp(h) > h => AlignUp(h) >= h + PageSize
      <4>1. PICK u \in Int : u = AlignUp(h)
        BY <2>2
      <4>2. h \in Int /\ u % PageSize = h % PageSize
        BY <1>1, <1>4, <2>1, <2>3, <4>1
      <4>3. u > h => u >= h + PageSize
        BY <4>2, PageSizes, ModApart
      <4> QED
        BY <4>1, <4>3
    <3> QED
      BY <2>2, <3>1, PageSizes
  <2> QED
    BY <2>2, <2>4
<1>7. kernel_heap_start <= p
  BY <1>1, <1>3, <1>4, <1>5, <1>6 DEF SetUp
<1>8. PICK i \in 1..Len(e820) : PageIn(p, e820[i])
  BY <1>1
<1>9. i \in RamEntries(e820) /\ p + PageSize <= RegionEnd(e820[i]) /\ RegionEnd(e820[i]) \in Nat
  BY <1>1, <1>8, EachFact, RegionFact DEF PageIn, RamEntries
<1>10. HeapEnd(e820) \in Nat /\ RegionEnd(e820[i]) <= HeapEnd(e820)
  BY <1>1, <1>9, HeapEndFact
<1>11. p + PageSize <= HeapEnd(e820)
  BY <1>1, <1>9, <1>10, PageSizes
<1> QED
  BY <1>1, <1>3, <1>7, <1>11 DEF SetUp

LEMMA InitArrayApart == InitInv => ArrayApart
<1> SUFFICES ASSUME InitInv, Up, Sorted(e820), LowMemory(e820), NEW p \in Listed
             PROVE  pages_struct + ArraySize(e820) <= p
  BY DEF ArrayApart
<1>1. /\ SetUp /\ e820 \in Seq(Region) /\ p \in Nat
      /\ \A q \in Nat : q \in Listed <=> \E i \in 1..Len(e820) : PageIn(q, e820[i])
  BY UpFact
<1>2. PICK i \in 1..Len(e820) : PageIn(p, e820[i])
  BY <1>1
<1>3. 1 \in 1..Len(e820) /\ Len(e820) \in Nat
  BY <1>1, <1>2
<1>4. /\ e820[1].address \in Nat /\ e820[1].length \in Nat /\ RegionEnd(e820[1]) \in Nat
      /\ e820[i].address \in Nat /\ RegionEnd(e820[i]) \in Nat
  BY <1>1, <1>3, EachFact, RegionFact
<1>5. 1 \in Holders(e820)
  BY <1>3 DEF LowMemory, Holders, RamEntries
<1>6. ArraySize(e820) \in Nat /\ pages_struct = e820[1].address
  <2>1. /\ ArraySize(e820) \in Nat /\ Min(Holders(e820)) \in 1..Len(e820)
        /\ Min(Holders(e820)) <= 1
    BY <1>1, <1>5, HolderFact
  <2>2. Min(Holders(e820)) = 1
    BY <2>1
  <2> QED
    BY <1>1, <2>1, <2>2 DEF SetUp, ArrayAddress
<1>7. pages_struct + ArraySize(e820) <= RegionEnd(e820[1])
  BY <1>4, <1>6 DEF LowMemory, RegionEnd
<1>8. i # 1
  <2>1. RegionEnd(e820[1]) < PageSize
    BY DEF LowMemory
  <2>2. p + PageSize <= RegionEnd(e820[i])
    BY <1>2 DEF PageIn
  <2> QED
    BY <1>1, <1>4, <2>1, <2>2, PageSizes
<1>9. RegionEnd(e820[1]) <= e820[i].address
  <2>1. 1 < i
    BY <1>3, <1>8
  <2> QED
    BY <1>3, <2>1 DEF Sorted
<1>10. e820[i].address <= p
  BY <1>2 DEF PageIn
<1> QED
  BY <1>1, <1>4, <1>6, <1>7, <1>9, <1>10

\* Where one region of a sorted map has all the whole pages, the list leaves no hole
\* between them, which is what the heap needs besides the order to stay within RAM.
OneRegionHasAll(map) == \E i \in 1..Len(map) : \A p \in Listed : PageIn(p, map[i])
PoolAdjoins ==
  Up /\ Sorted(e820) /\ OneRegionHasAll(e820) =>
    \A k \in 1..(Len(free_pages_list) - 1) : free_pages_list[k + 1] = free_pages_list[k] + PageSize

LEMMA InitPoolAdjoins == InitInv => PoolAdjoins
<1> SUFFICES ASSUME InitInv, Up, Sorted(e820), OneRegionHasAll(e820),
                    NEW k \in 1..(Len(free_pages_list) - 1)
             PROVE  free_pages_list[k + 1] = free_pages_list[k] + PageSize
  BY DEF PoolAdjoins
<1>1. /\ e820 \in Seq(Region) /\ free_pages_list \in Seq(Nat) /\ Len(free_pages_list) \in Nat
      /\ \A p \in Nat : p \in Listed <=> \E i \in 1..Len(e820) : PageIn(p, e820[i])
  BY UpFact
<1>2. k \in 1..Len(free_pages_list) /\ k + 1 \in 1..Len(free_pages_list)
  BY <1>1
<1>3. PICK p \in Nat, q \in Nat : p = free_pages_list[k] /\ q = free_pages_list[k + 1]
  BY <1>1, <1>2
<1>4. p \in Listed /\ q \in Listed
  BY <1>2, <1>3 DEF Listed
<1>5. PICK i \in 1..Len(e820) : PageIn(p, e820[i]) /\ PageIn(q, e820[i])
  BY <1>4 DEF OneRegionHasAll
<1>6. PICK r \in Nat : r = p + PageSize
  BY PageSizes
<1>7. r <= q
  BY <1>2, <1>3, <1>6, InitPoolAscending DEF PoolAscending
\* The page after p is in the region too, so it is on the list, and not before q.
<1>8. r \in Listed
  <2>1. /\ e820[i].address \in Nat /\ RegionEnd(e820[i]) \in Nat /\ e820[i].type = RAM
        /\ p % PageSize = 0 /\ e820[i].address <= p /\ q + PageSize <= RegionEnd(e820[i])
    BY <1>1, <1>5, EachFact, RegionFact DEF PageIn
  <2>2. r % PageSize = 0
    <3>1. (0 + PageSize) % PageSize = 0 /\ ((p % PageSize) + PageSize) % PageSize = (p + PageSize) % PageSize
      <4>1. p \in Int /\ PageSize \in Int /\ PageSize * 1 + 0 = PageSize /\ 0 \in 0..(PageSize - 1)
        BY PageSizes
      <4>2. (PageSize * 1 + 0) % PageSize = 0
        BY <4>1, PageSizes, ModUnique
      <4>3. ((p % PageSize) + PageSize) % PageSize = (p + PageSize) % PageSize
        BY <4>1, PageSizes, ModPlus
      <4> QED
        BY <4>1, <4>2, <4>3
    <3> QED
      BY <1>6, <2>1, <3>1
  <2>3. e820[i].address <= r /\ r + PageSize <= RegionEnd(e820[i])
    BY <1>6, <1>7, <2>1, PageSizes
  <2>4. PageIn(r, e820[i])
    BY <2>1, <2>2, <2>3 DEF PageIn
  <2> QED
    BY <1>1, <2>4
<1>9. PICK m \in 1..Len(free_pages_list) : r = free_pages_list[m]
  BY <1>8 DEF Listed
<1>10. ~(m <= k)
  <2>1. m < k => r + PageSize <= p
    BY <1>2, <1>3, <1>9, InitPoolAscending DEF PoolAscending
  <2>2. m = k => r = p
    BY <1>3, <1>9
  <2> QED
    BY <1>6, <2>1, <2>2, PageSizes, <1>2
<1>11. q <= r
  <2>1. k + 1 < m => q + PageSize <= r
    BY <1>2, <1>3, <1>9, InitPoolAscending DEF PoolAscending
  <2>2. k + 1 = m => q = r
    BY <1>3, <1>9
  <2> QED
    BY <1>2, <1>10, <2>1, <2>2, PageSizes
<1> QED
  BY <1>3, <1>6, <1>7, <1>11

\* The list, the array's place and the heap's bounds are numbers, and the copy of the
\* map is no longer than its buffer, for every map.
THEOREM InitTyped == Spec => []InitTypeOK
BY InitInvariant, InitTypes, PTL

\* For every map whatever, each page chained is wholly RAM of one region the BIOS
\* reported, and only the early end of the copy leaves one out; for every map without
\* overlap, sorted or not, none reaches into another region or is chained twice.
THEOREM ListIsRam == Spec => []PagesAreRam
BY InitInvariant, InitPagesAreRam, PTL

\* For every sorted map the list is what the heap's theorems assume of its pool.
THEOREM ListAscends == Spec => []PoolAscending
BY InitInvariant, InitPoolAscending, PTL

\* For every sorted map the bounds free checks against take in every page.
THEOREM HeapBounds == Spec => []HeapCoversPages
BY InitInvariant, InitHeapCovers, PTL

\* Where the first region is low memory, the struct Page array overlaps no page.
THEOREM ArrayKeepsApart == Spec => []ArrayApart
BY InitInvariant, InitArrayApart, PTL

\* Where one region has all the pages they adjoin, as the heap's theorem on what it
\* hands out assumes.
THEOREM ListAdjoins == Spec => []PoolAdjoins
BY InitInvariant, InitPoolAdjoins, PTL
=============================================================================
