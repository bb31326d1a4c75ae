------------------------------ MODULE Numbers ------------------------------
(***************************************************************************)
(* Facts about remainders, quotients and least numbers that the proofs of  *)
(* several components need: addresses are rounded to pages, rings wrap and *)
(* cells are counted along the rows of a screen.                           *)
(***************************************************************************)
EXTENDS Integers, WellFoundedInduction, TLAPS

(* Quotients and remainders. *)

LEMMA ModFact ==
  ASSUME NEW a \in Int, NEW m \in Nat \ {0}
  PROVE  a % m \in 0..(m - 1)
OBVIOUS

LEMMA DivFact ==
  ASSUME NEW a \in Int, NEW m \in Nat \ {0}
  PROVE  a \div m \in Int /\ a = m * (a \div m) + (a % m)
OBVIOUS

LEMMA Product ==
  ASSUME NEW a \in Int, NEW b \in Int, NEW m \in Nat \ {0}, a > b
  PROVE  m * a >= m * b + m
OBVIOUS

LEMMA ProductOrder ==
  ASSUME NEW a \in Int, NEW b \in Int, NEW m \in Nat \ {0}
  PROVE  m * a \in Int /\ m * b \in Int /\ (a <= b <=> m * a <= m * b)
<1>1. m * a \in Int /\ m * b \in Int /\ m \in Nat /\ m > 0
  OBVIOUS
<1>2. a > b => m * a >= m * b + m
  BY Product
<1>3. b > a => m * b >= m * a + m
  BY Product
<1>4. a = b => m * a = m * b
  OBVIOUS
<1> QED
  BY <1>1, <1>2, <1>3, <1>4

LEMMA ModUnique ==
  ASSUME NEW q \in Int, NEW m \in Nat \ {0}, NEW r \in 0..(m - 1)
  PROVE  (m * q + r) % m = r /\ (m * q + r) \div m = q
OBVIOUS

\* Numbers with one remainder are a multiple of the modulus apart.
LEMMA ModApart ==
  ASSUME NEW a \in Int, NEW b \in Int, NEW m \in Nat \ {0}, a % m = b % m, a > b
  PROVE  a >= b + m
<1> DEFINE qa == a \div m  qb == b \div m
<1>1. /\ qa \in Int /\ qb \in Int /\ a % m \in Int
      /\ a = m * qa + (a % m) /\ b = m * qb + (a % m)
  BY DivFact, ModFact
<1> HIDE DEF qa, qb
<1>2. qa > qb
  <2>1. SUFFICES ASSUME ~(qa > qb)
                 PROVE  FALSE
    OBVIOUS
  <2>2. CASE qa = qb
    BY <1>1, <2>2
  <2>3. CASE qb > qa
    <3>1. m * qb >= m * qa + m
      BY <1>1, <2>3, Product
    <3>2. m * qa \in Int /\ m * qb \in Int
      BY <1>1
    <3> QED
      BY <1>1, <3>1, <3>2
  <2> QED
    BY <1>1, <2>1, <2>2, <2>3
<1>3. m * qa >= m * qb + m /\ m * qa \in Int /\ m * qb \in Int
  BY <1>1, <1>2, Product
<1> QED
  BY <1>1, <1>3

LEMMA ModPlus ==
  ASSUME NEW a \in Int, NEW b \in Int, NEW m \in Nat \ {0}
  PROVE  ((a % m) + b) % m = (a + b) % m
<1> DEFINE r == a % m  q == a \div m  p == (r + b) \div m  s == (r + b) % m
<1>1. r \in 0..(m - 1) /\ q \in Int /\ a = m * q + r
  BY DivFact, ModFact
<1>2. r + b \in Int
  BY <1>1
<1>3. s \in 0..(m - 1) /\ p \in Int /\ r + b = m * p + s
  BY <1>2, DivFact, ModFact
<1> HIDE DEF r, q, p, s
<1>4. m * q \in Int /\ m * p \in Int /\ m * (q + p) = m * q + m * p /\ q + p \in Int
  BY <1>1, <1>3
<1>5. a + b = m * (q + p) + s
  BY <1>1, <1>3, <1>4
<1>6. (m * (q + p) + s) % m = s
  BY <1>3, <1>4, ModUnique
<1> QED
  BY <1>5, <1>6 DEF s, r

-----------------------------------------------------------------------------
(* Least numbers: what the proofs have in place of induction. *)

LEMMA LeastNatural ==
  ASSUME NEW S \in SUBSET Nat, S # {}
  PROVE  \E x \in S : \A y \in S : x <= y
<1>1. OpToRel(<, Nat) = {ss \in Nat \X Nat : ss[1] < ss[2]}
  BY Zenon DEF OpToRel
<1>2. IsWellFoundedOn({ss \in Nat \X Nat : ss[1] < ss[2]}, Nat)
  BY <1>1, NatLessThanWellFounded, Zenon
<1>3. PICK x \in S : \A y \in S : <<y, x>> \notin {ss \in Nat \X Nat : ss[1] < ss[2]}
  BY <1>2, WFMin
<1>4. ASSUME NEW y \in S
      PROVE  x <= y
  <2>1. x \in Nat /\ y \in Nat /\ <<y, x>> \in Nat \X Nat
    OBVIOUS
  <2>2. <<y, x>> \notin {ss \in Nat \X Nat : ss[1] < ss[2]}
    BY <1>3
  <2>3. ~(y < x)
    BY <2>1, <2>2
  <2> QED
    BY <2>1, <2>3
<1> QED
  BY <1>4
=============================================================================
