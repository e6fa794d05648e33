-------------------------- MODULE IntegerDivision --------------------------
(***************************************************************************)
(* Facts about integer division that the address arithmetic of the library *)
(* rests on: the layout of the shadow memory and the places of a ring.     *)
(***************************************************************************)
EXTENDS Integers, TLAPS

\* The quotient and the remainder of a division, and what they add up to.
LEMMA Division ==
  ASSUME NEW a \in Nat, NEW k \in Nat \ {0}
  PROVE  /\ a \div k \in Nat
         /\ a % k \in Nat
         /\ a % k < k
         /\ a = (a \div k) * k + (a % k)
  BY SMT

\* The product of naturals is one.
LEMMA ProductNat ==
  ASSUME NEW a \in Nat, NEW b \in Nat
  PROVE  a * b \in Nat
  BY SMT

\* The product of positive numbers is positive.
LEMMA ProductPos ==
  ASSUME NEW a \in Nat \ {0}, NEW b \in Nat \ {0}
  PROVE  a * b \in Nat \ {0}
  BY SMT

\* Multiplication by a natural keeps the order.
LEMMA ProductMonotone ==
  ASSUME NEW a \in Int, NEW b \in Int, NEW k \in Nat, a <= b
  PROVE  a * k <= b * k
  BY SMT

\* A number is q times k and r, r < k, for one q and one r.
LEMMA QuotientUnique ==
  ASSUME NEW k \in Nat \ {0}, NEW q \in Nat, NEW r \in Nat, r < k
  PROVE  /\ (q * k + r) \div k = q
         /\ (q * k + r) % k = r
<1> DEFINE a == q * k + r
           x == a \div k
           y == a % k
<1>1. q * k \in Nat
  BY ProductNat
<1>2. a \in Nat
  BY <1>1
<1>3. x \in Nat /\ y \in Nat /\ y < k /\ a = x * k + y
  BY <1>2, Division
<1> HIDE DEF x, y
<1>4. CASE x < q
  <2>1. (x + 1) * k <= q * k
    BY <1>3, <1>4, ProductMonotone
  <2>2. (x + 1) * k = x * k + k /\ x * k \in Nat
    BY <1>3
  <2> QED BY <1>1, <1>3, <2>1, <2>2
<1>5. CASE q < x
  <2>1. (q + 1) * k <= x * k
    BY <1>3, <1>5, ProductMonotone
  <2>2. (q + 1) * k = q * k + k /\ x * k \in Nat
    BY <1>3
  <2> QED BY <1>1, <1>3, <2>1, <2>2
<1>6. CASE q = x
  BY <1>1, <1>3, <1>6 DEF x, y
<1> QED BY <1>3, <1>4, <1>5, <1>6

\* A quotient is below b when the number is below b times the divisor.
LEMMA QuotientBound ==
  ASSUME NEW a \in Nat, NEW k \in Nat \ {0}, NEW b \in Nat, a < b * k
  PROVE  a \div k < b
<1> DEFINE q == a \div k
<1>1. q \in Nat /\ a % k \in Nat /\ a = q * k + (a % k)
  BY Division
<1> HIDE DEF q
<1>2. CASE b <= q
  <2>1. b * k <= q * k
    BY <1>1, <1>2, ProductMonotone
  <2>2. b * k \in Nat /\ q * k \in Nat
    BY <1>1, ProductNat
  <2> QED BY <1>1, <2>1, <2>2
<1> QED BY <1>1, <1>2 DEF q

\* A number with quotient below b is below b times the divisor.
LEMMA ProductBound ==
  ASSUME NEW a \in Nat, NEW k \in Nat \ {0}, NEW b \in Nat, a \div k < b
  PROVE  a < b * k
<1> DEFINE q == a \div k
<1>1. q \in Nat /\ a % k \in Nat /\ a % k < k /\ a = q * k + (a % k)
  BY Division
<1>2. q < b
  OBVIOUS
<1> HIDE DEF q
<1>3. (q + 1) * k <= b * k
  BY <1>1, <1>2, ProductMonotone
<1>4. (q + 1) * k = q * k + k /\ q * k \in Nat /\ b * k \in Nat
  BY <1>1
<1> QED BY <1>1, <1>3, <1>4

\* A place less than once around a ring of k places is there already, or one
\* turn too far.
LEMMA RingPlace ==
  ASSUME NEW k \in Nat \ {0}, NEW a \in Nat, a < 2 * k
  PROVE  a % k = IF a < k THEN a ELSE a - k
<1>1. CASE a < k
  <2>1. 0 * k + a = a
    BY SMT
  <2>2. (0 * k + a) % k = a
    BY <1>1, QuotientUnique
  <2> QED BY <1>1, <2>1, <2>2
<1>2. CASE a >= k
  <2>1. a - k \in Nat /\ a - k < k /\ 1 * k + (a - k) = a
    BY <1>2
  <2>2. (1 * k + (a - k)) % k = a - k
    BY <2>1, QuotientUnique
  <2> QED BY <1>2, <2>1, <2>2
<1> QED BY <1>1, <1>2

\* Blocks of k cells that start at multiples of k do not overlap.
LEMMA BlocksApart ==
  ASSUME NEW k \in Nat \ {0}, NEW a \in Nat, NEW b \in Nat,
         NEW i \in 0 .. k - 1, NEW j \in 0 .. k - 1, a # b
  PROVE  a * k + i # b * k + j
  BY QuotientUnique

\* The blocks before the n-th fit in n * k cells.
LEMMA BlocksFit ==
  ASSUME NEW k \in Nat \ {0}, NEW n \in Nat, NEW a \in 0 .. n - 1,
         NEW i \in 0 .. k - 1
  PROVE  a * k + i \in 0 .. n * k - 1
<1>1. (a + 1) * k <= n * k /\ (a + 1) * k = a * k + k
  BY ProductMonotone
<1>2. a * k \in Nat /\ n * k \in Nat
  BY ProductNat
<1> QED BY <1>1, <1>2

=============================================================================
