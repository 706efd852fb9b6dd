------------------------------ MODULE Arithmetic ------------------------------
(***************************************************************************)
(* Lemmas the proofs share: remainders by a number that is not a literal,  *)
(* and the least element of a set of naturals, from which the proofs about *)
(* recursive functions derive their inductions.                            *)
(***************************************************************************)
EXTENDS Integers, WellFoundedInduction, TLAPS

(* What % and \div say, in the form the other lemmas use.                  *)
LEMMA DivMod ==
  ASSUME NEW a \in Int, NEW w \in Nat \ {0}
  PROVE  a % w \in 0..(w - 1) /\ a \div w \in Int /\ a = w * (a \div w) + (a % w)
OBVIOUS

(* The remainder is the only number below w that differs from a by a       *)
(* multiple of w.                                                          *)
LEMMA ModUnique ==
  ASSUME NEW a \in Int, NEW w \in Nat \ {0}, NEW q \in Int, NEW r \in 0..(w - 1),
         a = w * q + r
  PROVE  a % w = r
<1> DEFINE p == a \div w
           s == a % w
<1>1. p \in Int /\ s \in 0..(w - 1) /\ a = w * p + s
  BY DivMod
<1> HIDE DEF p, s
<1>2. CASE p > q
  <2>1. PICK k \in Nat : p = q + 1 + k
    BY <1>1, <1>2
  <2>2. w * p = w * q + w + w * k
    BY <2>1
  <2>3. w * k >= 0
    OBVIOUS
  <2>4. QED
    BY <1>1, <2>2, <2>3
<1>3. CASE p < q
  <2>1. PICK k \in Nat : q = p + 1 + k
    BY <1>1, <1>3
  <2>2. w * q = w * p + w + w * k
    BY <1>1, <2>1
  <2>3. w * k >= 0
    OBVIOUS
  <2>4. QED
    BY <1>1, <2>2, <2>3
<1>4. CASE p = q
  BY <1>1, <1>4 DEF s
<1>5. QED
  BY <1>1, <1>2, <1>3, <1>4

(* Reducing a summand first changes nothing.                               *)
LEMMA ModAdd ==
  ASSUME NEW a \in Int, NEW b \in Int, NEW w \in Nat \ {0}
  PROVE  ((a % w) + b) % w = (a + b) % w
<1> DEFINE p == a \div w
           x == a % w
           q == (x + b) \div w
           y == (x + b) % w
<1>1. p \in Int /\ x \in 0..(w - 1) /\ a = w * p + x
  BY DivMod
<1> HIDE DEF p, x
<1>2. q \in Int /\ y \in 0..(w - 1) /\ x + b = w * q + y
  <2>1. x + b \in Int
    BY <1>1
  <2>2. QED
    BY <2>1, DivMod
<1> HIDE DEF q, y
<1>3. a + b = w * (p + q) + y
  <2>1. w * (p + q) = w * p + w * q
    BY <1>1, <1>2
  <2>2. QED
    BY <1>1, <1>2, <2>1
<1>4. (a + b) % w = y
  <2> DEFINE c == a + b
             m == p + q
  <2>1. c \in Int /\ m \in Int /\ c = w * m + y
    BY <1>1, <1>2, <1>3
  <2> HIDE DEF c, m
  <2>2. c % w = y
    BY <1>2, <2>1, ModUnique
  <2>3. QED
    BY <2>2 DEF c
<1>5. QED
  BY <1>4 DEF x, y

(* A number in range is its own remainder.                                 *)
LEMMA ModSmall ==
  ASSUME NEW w \in Nat \ {0}, NEW r \in 0..(w - 1)
  PROVE  r % w = r
<1>1. r = w * 0 + r
  OBVIOUS
<1>2. QED
  BY <1>1, ModUnique

(* Adding a multiple of w to a multiple of w gives a multiple of w.        *)
LEMMA ModZero ==
  ASSUME NEW a \in Int, NEW b \in Int, NEW w \in Nat \ {0}, a % w = 0, b % w = 0
  PROVE  (a + b) % w = 0
<1>1. ((a % w) + b) % w = (a + b) % w
  BY ModAdd
<1>2. QED
  BY <1>1

(* The quotient is the only number that leaves a remainder.                *)
LEMMA DivUnique ==
  ASSUME NEW a \in Int, NEW w \in Nat \ {0}, NEW q \in Int, NEW r \in 0..(w - 1),
         a = w * q + r
  PROVE  a \div w = q
<1> DEFINE p == a \div w
           s == a % w
<1>1. p \in Int /\ s \in 0..(w - 1) /\ a = w * p + s
  BY DivMod
<1>2. s = r
  BY ModUnique
<1> HIDE DEF p, s
<1>3. CASE p > q
  <2>1. PICK k \in Nat : p = q + 1 + k
    BY <1>1, <1>3
  <2>2. w * p = w * q + w + w * k
    BY <2>1
  <2>3. w * k >= 0
    OBVIOUS
  <2>4. QED
    BY <1>1, <1>2, <2>2, <2>3
<1>4. CASE p < q
  <2>1. PICK k \in Nat : q = p + 1 + k
    BY <1>1, <1>4
  <2>2. w * q = w * p + w + w * k
    BY <1>1, <2>1
  <2>3. w * k >= 0
    OBVIOUS
  <2>4. QED
    BY <1>1, <1>2, <2>2, <2>3
<1>5. p = q
  BY <1>1, <1>3, <1>4
<1>6. QED
  BY <1>5 DEF p

(* Dividing in two steps: what the first leaves is carried to the second.  *)
LEMMA DivAdd ==
  ASSUME NEW a \in Int, NEW b \in Int, NEW w \in Nat \ {0}
  PROVE  (a + b) \div w = (a \div w) + (((a % w) + b) \div w)
<1> DEFINE p == a \div w
           x == a % w
           q == (x + b) \div w
           y == (x + b) % w
           c == a + b
           m == p + q
<1>1. p \in Int /\ x \in 0..(w - 1) /\ a = w * p + x
  BY DivMod
<1> HIDE DEF p, x
<1>2. q \in Int /\ y \in 0..(w - 1) /\ x + b = w * q + y
  <2>1. x + b \in Int
    BY <1>1
  <2>2. QED
    BY <2>1, DivMod
<1> HIDE DEF q, y
<1>3. c \in Int /\ m \in Int /\ c = w * m + y
  <2>1. w * (p + q) = w * p + w * q
    BY <1>1, <1>2
  <2>2. QED
    BY <1>1, <1>2, <2>1
<1> HIDE DEF c, m
<1>4. c \div w = m
  BY <1>2, <1>3, DivUnique
<1>5. QED
  BY <1>4 DEF c, m, p, q, x

(* Reducing by a multiple of w first changes nothing.                      *)
LEMMA ModMod ==
  ASSUME NEW a \in Int, NEW v \in Nat \ {0}, NEW w \in Nat \ {0}, v % w = 0
  PROVE  (a % v) % w = a % w
<1> DEFINE k == v \div w
           p == a \div v
           x == a % v
           q == x \div w
           y == x % w
<1>1. k \in Int /\ v = w * k
  <2>1. k \in Int /\ v = w * k + (v % w)
    BY DivMod
  <2> HIDE DEF k
  <2>2. w * k \in Int
    BY <2>1
  <2>3. QED
    BY <2>1, <2>2
<1>2. p \in Int /\ x \in 0..(v - 1) /\ a = v * p + x
  BY DivMod
<1> HIDE DEF p, x, k
<1>3. q \in Int /\ y \in 0..(w - 1) /\ x = w * q + y
  <2>1. x \in Int
    BY <1>2
  <2>2. QED
    BY <2>1, DivMod
<1> HIDE DEF q, y
<1> DEFINE m == k * p + q
<1>4. m \in Int /\ a = w * m + y
  <2>1. v * p = w * (k * p)
    BY <1>1, <1>2
  <2>2. k * p \in Int
    BY <1>1, <1>2
  <2>3. w * (k * p + q) = w * (k * p) + w * q
    BY <2>2, <1>3
  <2>4. QED
    BY <1>2, <1>3, <2>1, <2>2, <2>3
<1> HIDE DEF m
<1>5. a % w = y
  BY <1>3, <1>4, ModUnique
<1>6. QED
  BY <1>5 DEF x, y

(* The least-number principle.  An induction picks the least number for    *)
(* which the claim fails.                                                  *)
LEMMA NatLeast ==
  ASSUME NEW S \in SUBSET Nat, S # {}
  PROVE  \E m \in S : \A x \in S : m <= x
<1> DEFINE R == OpToRel(<, Nat)
<1>1. IsWellFoundedOn(R, Nat)
  BY NatLessThanWellFounded
<1>2. \A y, m \in Nat : <<y, m>> \in R <=> y < m
  BY DEF OpToRel
<1> HIDE DEF R
<1>3. PICK m \in S : \A y \in S : ~ (<<y, m>> \in R)
  BY <1>1, WFMin
<1>4. ASSUME NEW y \in S PROVE m <= y
  <2>1. y \in Nat /\ m \in Nat /\ ~ (y < m)
    BY <1>2, <1>3
  <2>2. QED
    BY <2>1
<1>5. QED
  BY <1>4
=============================================================================
