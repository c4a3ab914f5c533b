------------------------- MODULE LiquidityV2_proofs --------------------------
(***************************************************************************)
(* Proofs about LiquidityV2, for any calls, accounts, amounts, fee share   *)
(* and number of locked pool tokens: its type invariant, that a group is   *)
(* executed within the tolerance and refused only for a reason, that what  *)
(* a pool token stands for never shrinks, and that the accounts hold all   *)
(* the pool tokens but the locked ones.                                    *)
(***************************************************************************)
EXTENDS LiquidityV2, AmmMath_proofs

-----------------------------------------------------------------------------
(* The arithmetic of a deposit.                                             *)

\* Products of ordered numbers are ordered.
LEMMA ProductOrder ==
  ASSUME NEW a \in Nat, NEW b \in Nat, NEW c \in Nat, NEW d \in Nat, a <= b, c <= d
  PROVE  a * c \in Nat /\ b * d \in Nat /\ a * c <= b * d
<1>1. a * c <= b * c /\ c * b <= d * b /\ a * c \in Nat /\ d * b \in Nat
  BY ProductMonotonic
<1>2. b * c = c * b /\ d * b = b * d
  BY Z3
<1>3. b * c \in Int
  BY Z3
<1> QED
  BY <1>1, <1>2, <1>3

LEMMA StrictProductOrder ==
  ASSUME NEW a \in Nat, NEW b \in Nat, NEW c \in Nat, NEW d \in Nat, a < b, c < d
  PROVE  a * c < b * d
<1>1. a * c <= b * c /\ (c + 1) * b <= d * b /\ a * c \in Nat /\ d * b \in Nat
  BY ProductMonotonic
<1>2. b * c = c * b /\ d * b = b * d /\ (c + 1) * b = c * b + b
  BY Z3
<1>3. c * b \in Int
  BY Z3
<1> QED
  BY <1>1, <1>2, <1>3

\* A square root that lies within the bounds is found there.
LEMMA RootWithinType ==
  ASSUME NEW lo \in Nat, NEW hi \in Nat, NEW n \in Nat,
         lo * lo <= n, n < (hi + 1) * (hi + 1)
  PROVE  /\ RootWithin(lo, hi, n) \in Nat
         /\ lo <= RootWithin(lo, hi, n)
         /\ RootWithin(lo, hi, n) * RootWithin(lo, hi, n) <= n
         /\ n < (RootWithin(lo, hi, n) + 1) * (RootWithin(lo, hi, n) + 1)
<1> DEFINE T == {r \in Nat : n < (r + 1) * (r + 1)}
<1>1. hi \in T
  OBVIOUS
<1>2. PICK r \in T : \A k \in T : r <= k
  BY <1>1, LeastElement
<1>3. r \in Nat /\ r <= hi /\ n < (r + 1) * (r + 1)
  BY <1>1, <1>2
<1>4. r * r <= n
  <2>1. CASE r = 0
    BY <2>1
  <2>2. CASE r > 0
    <3>1. r - 1 \in Nat /\ r - 1 \notin T
      BY <1>2, <1>3, <2>2
    <3>2. ~(n < (r - 1 + 1) * (r - 1 + 1))
      BY <3>1
    <3>3. r - 1 + 1 = r /\ r * r \in Int
      BY <1>3, Z3
    <3> QED
      BY <3>2, <3>3
  <2> QED
    BY <1>3, <2>1, <2>2
<1>5. lo <= r
  <2> SUFFICES ASSUME r + 1 <= lo  PROVE FALSE
    BY <1>3
  <2>1. (r + 1) * (r + 1) <= lo * lo /\ (r + 1) * (r + 1) \in Nat /\ lo * lo \in Nat
    BY <1>3, ProductOrder
  <2> QED
    BY <1>3, <2>1
<1>6. \E x \in lo .. hi : x * x <= n /\ n < (x + 1) * (x + 1)
  BY <1>3, <1>4, <1>5
<1> DEFINE w == RootWithin(lo, hi, n)
<1>7. w \in lo .. hi /\ w * w <= n /\ n < (w + 1) * (w + 1)
  BY <1>6 DEF RootWithin
<1> QED
  BY <1>7

\* The bounds IssuedAfter searches between are right: the root is at least what is
\* issued, and at most that times the growth of the sum of the deposited amounts.
LEMMA RootFits ==
  ASSUME NEW x \in Nat \ {0}, NEW y \in Nat \ {0}, NEW L \in Nat \ {0},
         NEW i \in Nat, NEW j \in Nat
  PROVE  LET n  == ((x + i) * (y + j) * L * L) \div (x * y)
             hi == L * (1 + i + j)
         IN  /\ n \in Nat
             /\ L * L <= n
             /\ n < (hi + 1) * (hi + 1)
             /\ (x * y) * n <= ((x + i) * (y + j)) * (L * L)
             /\ ((x + i) * (y + j)) * (L * L) < (x * y) * n + x * y
<1> DEFINE d == x * y
           grown == (x + i) * (y + j)
           m == (x + i) * (y + j) * L * L
           n == m \div d
           s == L * L
           hi == L * (1 + i + j)
<1>1. d \in Nat \ {0} /\ grown \in Nat /\ d <= grown
  <2>1. x * y \in Nat /\ grown \in Nat /\ x * y <= grown
    BY ProductOrder
  <2>2. x * y # 0
    BY Z3
  <2> QED
    BY <2>1, <2>2
<1>2. s \in Nat /\ s > 0
  BY Z3
<1>3. m = grown * s
  <2>1. grown \in Int
    BY <1>1
  <2>2. (grown * L) * L = grown * (L * L)
    BY <2>1, Z3
  <2> QED
    BY <2>2
<1>4. grown <= d * ((1 + i) * (1 + j)) /\ (1 + i) * (1 + j) \in Nat
  <2>1. x + i <= x * (1 + i) /\ y + j <= y * (1 + j)
    BY Z3
  <2>2. x * (1 + i) \in Nat /\ y * (1 + j) \in Nat
    BY ProductMonotonic
  <2>3. grown <= (x * (1 + i)) * (y * (1 + j))
    BY <2>1, <2>2, ProductOrder
  <2>4. (x * (1 + i)) * (y * (1 + j)) = (x * y) * ((1 + i) * (1 + j))
    BY Z3
  <2>5. (1 + i) * (1 + j) \in Nat
    BY ProductMonotonic
  <2> QED
    BY <2>3, <2>4, <2>5
<1>5. hi \in Nat /\ hi * hi = ((1 + i + j) * (1 + i + j)) * s
  <2>1. hi \in Nat
    BY ProductMonotonic
  <2>2. (L * (1 + i + j)) * (L * (1 + i + j)) = ((1 + i + j) * (1 + i + j)) * (L * L)
    BY Z3
  <2> QED
    BY <2>1, <2>2
<1>6. (1 + i) * (1 + j) <= (1 + i + j) * (1 + i + j)
  BY ProductOrder
<1> HIDE DEF d, grown, s, hi
<1>7. grown * s \in Nat
  BY <1>1, <1>2, ProductMonotonic
<1>8. n = (grown * s) \div d
  BY <1>3
<1> HIDE DEF n, m
<1>9. n \in Nat /\ d * n <= grown * s /\ grown * s < d * n + d
  BY <1>1, <1>7, <1>8, DivBound
<1>10. s <= n
  <2> SUFFICES ASSUME n + 1 <= s  PROVE FALSE
    BY <1>2, <1>9
  <2>1. d * (n + 1) <= grown * s
    BY <1>1, <1>2, <1>9, ProductOrder
  <2>2. d * (n + 1) = d * n + d
    BY <1>1, <1>9, Z3
  <2>3. d * n \in Int
    BY <1>1, <1>9, Z3
  <2> QED
    BY <1>1, <1>7, <1>9, <2>1, <2>2, <2>3
<1>11. n <= hi * hi
  <2> DEFINE f == (1 + i) * (1 + j)
             g == (1 + i + j) * (1 + i + j)
  <2>1. f \in Nat /\ g \in Nat /\ f <= g
    BY <1>4, <1>6, ProductMonotonic
  <2>2. grown <= d * f /\ hi * hi = g * s
    BY <1>4, <1>5
  <2> HIDE DEF f, g
  <2>3. f * s <= g * s /\ f * s \in Nat /\ g * s \in Nat
    BY <1>2, <2>1, ProductOrder
  <2>4. d * f \in Nat
    BY <1>1, <2>1, ProductMonotonic
  <2>5. grown * s <= (d * f) * s /\ (d * f) * s \in Nat
    BY <1>1, <1>2, <2>2, <2>4, ProductOrder
  <2>6. (d * f) * s = d * (f * s)
    BY <1>1, <1>2, <2>1, Z3
  <2>7. n <= f * s
    <3> SUFFICES ASSUME f * s + 1 <= n  PROVE FALSE
      BY <1>9, <2>3
    <3>1. d * (f * s + 1) <= d * n /\ d * n \in Nat
      BY <1>1, <1>9, <2>3, ProductOrder
    <3>2. d * (f * s + 1) = d * (f * s) + d
      BY <1>1, <2>3, Z3
    <3>3. d * (f * s) \in Int
      BY <2>5, <2>6
    <3> QED
      BY <1>1, <1>7, <1>9, <2>5, <2>6, <3>1, <3>2, <3>3
  <2> QED
    BY <1>9, <2>2, <2>3, <2>7
<1>12. hi * hi < (hi + 1) * (hi + 1) /\ hi * hi \in Nat /\ (hi + 1) * (hi + 1) \in Nat
  BY <1>5, StrictProductOrder, ProductMonotonic
<1> QED
  BY <1>9, <1>10, <1>11, <1>12 DEF d, grown, m, n, s, hi

\* Amounts, taken apart.
LEMMA AmountsParts ==
  ASSUME NEW p \in Amounts
  PROVE  p[1] \in Nat /\ p[2] \in Nat /\ p[3] \in Nat
  BY DEF Amounts, Holdings

\* A pool in use.
Live(p) == p \in Amounts /\ p[1] > 0 /\ p[2] > 0 /\ p[3] > 0

\* The product of the reserves per square of the issued tokens is no less in q than in p.
NoLess(q, p) == q[1] * q[2] * p[3] * p[3] >= p[1] * p[2] * q[3] * q[3]

\* The terms of NoLess, bracketed as the lemmas below compare them.
LEMMA Regroup ==
  ASSUME NEW a \in Nat, NEW b \in Nat, NEW c \in Nat
  PROVE  a * b * c * c = (a * b) * (c * c) /\ (a * b) * (c * c) \in Nat
  BY ProductMonotonic, Z3

\* The tokens issued after a deposit: at least those before, and the greatest number
\* whose square has not outgrown the product of the reserves.
LEMMA IssuedAfterBounds ==
  ASSUME NEW p, Live(p), NEW in \in Amounts
  PROVE  /\ IssuedAfter(p, in) \in Nat
         /\ p[3] <= IssuedAfter(p, in)
         /\ (p[1] * p[2]) * (IssuedAfter(p, in) * IssuedAfter(p, in))
              <= ((p[1] + in[1]) * (p[2] + in[2])) * (p[3] * p[3])
         /\ ((p[1] + in[1]) * (p[2] + in[2])) * (p[3] * p[3])
              < (p[1] * p[2]) * ((IssuedAfter(p, in) + 1) * (IssuedAfter(p, in) + 1))
<1> DEFINE x == p[1]
           y == p[2]
           L == p[3]
           i == in[1]
           j == in[2]
           n == ((x + i) * (y + j) * L * L) \div (x * y)
           hi == L * (1 + i + j)
           r == RootWithin(L, hi, n)
<1>1. /\ x \in Nat \ {0} /\ y \in Nat \ {0} /\ L \in Nat \ {0}
      /\ i \in Nat /\ j \in Nat
  BY AmountsParts DEF Live
<1>2. IssuedAfter(p, in) = r
  BY DEF IssuedAfter
<1> HIDE DEF x, y, L, i, j
<1>3. /\ n \in Nat /\ L * L <= n /\ n < (hi + 1) * (hi + 1)
      /\ (x * y) * n <= ((x + i) * (y + j)) * (L * L)
      /\ ((x + i) * (y + j)) * (L * L) < (x * y) * n + x * y
  BY <1>1, RootFits
<1>4. hi \in Nat
  BY <1>1, ProductMonotonic
<1> HIDE DEF n, hi
<1>5. r \in Nat /\ L <= r /\ r * r <= n /\ n < (r + 1) * (r + 1)
  BY <1>1, <1>3, <1>4, RootWithinType
<1> HIDE DEF r
<1>6. (x * y) * (r * r) <= ((x + i) * (y + j)) * (L * L)
  <2>1. x * y \in Nat /\ r * r \in Nat /\ (x + i) * (y + j) \in Nat /\ L * L \in Nat
    BY <1>1, <1>5, ProductMonotonic
  <2>2. /\ (x * y) * (r * r) <= (x * y) * n
        /\ (x * y) * (r * r) \in Nat /\ (x * y) * n \in Nat
    BY <1>3, <1>5, <2>1, ProductOrder
  <2>3. ((x + i) * (y + j)) * (L * L) \in Nat
    BY <2>1, ProductMonotonic
  <2> QED
    BY <1>3, <2>2, <2>3
<1>7. ((x + i) * (y + j)) * (L * L) < (x * y) * ((r + 1) * (r + 1))
  <2>1. /\ x * y \in Nat /\ (r + 1) * (r + 1) \in Nat
        /\ ((x + i) * (y + j)) * (L * L) \in Int
    BY <1>1, <1>5, ProductMonotonic, Z3
  <2>2. n + 1 <= (r + 1) * (r + 1)
    BY <1>3, <1>5, <2>1
  <2>3. /\ (x * y) * (n + 1) <= (x * y) * ((r + 1) * (r + 1))
        /\ (x * y) * ((r + 1) * (r + 1)) \in Nat
    BY <1>3, <2>1, <2>2, ProductOrder
  <2>4. (x * y) * (n + 1) = (x * y) * n + x * y /\ (x * y) * n \in Int
    BY <1>3, <2>1, Z3
  <2> QED
    BY <1>3, <2>1, <2>3, <2>4
<1> QED
  BY <1>2, <1>5, <1>6, <1>7 DEF x, y, L, i, j

\* An asset of which the deposit holds too little to be swapped from: the issued
\* tokens have outgrown its reserve.
LEMMA TooLittle ==
  ASSUME NEW x \in Nat \ {0}, NEW i \in Nat, NEW L \in Nat \ {0}, NEW r \in Nat, L <= r
  PROVE  /\ i - ((r - L) * (x + i)) \div r \in Int
         /\ i - ((r - L) * (x + i)) \div r < 0 => L * (x + i) < r * x
<1> DEFINE m == (r - L) * (x + i)
           q == m \div r
<1>1. m \in Nat
  BY ProductMonotonic
<1>2. m = r * x + r * i - L * (x + i)
  BY Z3
<1>3. r * x \in Nat /\ r * i \in Nat /\ L * (x + i) \in Nat
  BY ProductMonotonic
<1> HIDE DEF m
<1>4. q \in Nat /\ r * q <= m
  BY <1>1, DivBound
<1> HIDE DEF q
<1>5. i - q < 0 => L * (x + i) < r * x
  <2> SUFFICES ASSUME i + 1 <= q  PROVE L * (x + i) < r * x
    BY <1>4
  <2>1. r * (i + 1) <= r * q /\ r * q \in Nat
    BY <1>4, ProductOrder
  <2>2. r * (i + 1) = r * i + r
    BY Z3
  <2> QED
    BY <1>1, <1>2, <1>3, <1>4, <2>1, <2>2
<1> QED
  BY <1>4, <1>5 DEF q, m

(***************************************************************************)
(* The amount swapped inside the pool is not negative: of one asset the    *)
(* deposit holds no less than its part.                                    *)
(***************************************************************************)
LEMMA SwappedInsideBounds ==
  ASSUME NEW p, Live(p), NEW in \in Amounts
  PROVE  LET r == IssuedAfter(p, in)
         IN  /\ SwappedInside(p, in, r, 1) \in Int /\ SwappedInside(p, in, r, 2) \in Int
             /\ SwappedInside(p, in, r, 1) >= 0 \/ SwappedInside(p, in, r, 2) >= 0
<1> DEFINE r == IssuedAfter(p, in)
           x == p[1]
           y == p[2]
           L == p[3]
           i == in[1]
           j == in[2]
<1>1. /\ x \in Nat \ {0} /\ y \in Nat \ {0} /\ L \in Nat \ {0}
      /\ i \in Nat /\ j \in Nat
  BY AmountsParts DEF Live
<1>2. r \in Nat /\ L <= r /\ (x * y) * (r * r) <= ((x + i) * (y + j)) * (L * L)
  BY IssuedAfterBounds
<1>3. /\ SwappedInside(p, in, r, 1) = i - ((r - L) * (x + i)) \div r
      /\ SwappedInside(p, in, r, 2) = j - ((r - L) * (y + j)) \div r
  BY DEF SwappedInside
<1> DEFINE s1 == SwappedInside(p, in, r, 1)
           s2 == SwappedInside(p, in, r, 2)
<1> HIDE DEF r, x, y, L, i, j, s1, s2
<1>4. /\ s1 \in Int /\ s2 \in Int
      /\ s1 < 0 => L * (x + i) < r * x
      /\ s2 < 0 => L * (y + j) < r * y
  BY <1>1, <1>2, <1>3, TooLittle DEF s1, s2
<1>5. s1 >= 0 \/ s2 >= 0
  <2> SUFFICES ASSUME s1 < 0, s2 < 0  PROVE FALSE
    BY <1>4
  <2>1. /\ L * (x + i) \in Nat /\ L * (y + j) \in Nat
        /\ r * x \in Nat /\ r * y \in Nat
    BY <1>1, <1>2, ProductMonotonic
  <2>2. (L * (x + i)) * (L * (y + j)) < (r * x) * (r * y)
    BY <1>4, <2>1, StrictProductOrder
  <2>3. /\ (L * (x + i)) * (L * (y + j)) = ((x + i) * (y + j)) * (L * L)
        /\ (r * x) * (r * y) = (x * y) * (r * r)
    BY <1>1, <1>2, Z3
  <2>4. ((x + i) * (y + j)) * (L * L) \in Int /\ (x * y) * (r * r) \in Int
    BY <1>1, <1>2, Z3
  <2> QED
    BY <1>2, <2>2, <2>3, <2>4
<1> QED
  BY <1>4, <1>5 DEF s1, s2, r

\* A fee on the pool's own swap is withheld, never added.
LEMMA MintBounds ==
  ASSUME NEW p, Live(p), NEW in \in Amounts
  PROVE  Mint(p, in) \in Int /\ Mint(p, in) <= IssuedAfter(p, in) - p[3]
<1> DEFINE r == IssuedAfter(p, in)
           swapped == [a \in Assets |-> SwappedInside(p, in, r, a)]
           s   == IF swapped[1] > swapped[2] THEN 1 ELSE 2
           fee == InternalSwapFee(swapped[s])
           w   == (fee * r) \div (2 * (p[s] + in[s]))
<1>1. Mint(p, in) = r - p[3] - w
  BY DEF Mint
<1>2. r \in Nat /\ p[3] \in Nat
  BY IssuedAfterBounds, AmountsParts DEF Live
<1>3. swapped[s] \in Nat
  <2>1. swapped[1] = SwappedInside(p, in, r, 1) /\ swapped[2] = SwappedInside(p, in, r, 2)
    BY DEF Assets
  <2>2. swapped[1] \in Int /\ swapped[2] \in Int /\ (swapped[1] >= 0 \/ swapped[2] >= 0)
    BY <2>1, SwappedInsideBounds
  <2> HIDE DEF swapped
  <2> QED
    BY <2>2
<1>4. 2 * (p[s] + in[s]) \in Nat \ {0}
  BY AmountsParts DEF Live
<1> DEFINE v == swapped[s]
           d == 2 * (p[s] + in[s])
<1>5. fee \in Nat
  <2>1. fee = (v * FeeShare) \div (10000 - FeeShare)
    BY DEF InternalSwapFee
  <2> HIDE DEF v
  <2>2. v \in Nat /\ FeeShare \in Nat /\ 10000 - FeeShare \in Nat \ {0}
    BY <1>3, FeeAssumption DEF v
  <2>3. v * FeeShare \in Nat
    BY <2>2, ProductMonotonic
  <2> QED
    BY <2>1, <2>2, <2>3, DivBound
<1>6. w = (fee * r) \div d
  OBVIOUS
<1>7. d \in Nat \ {0}
  BY <1>4
<1> HIDE DEF w, d, fee, r
<1>8. fee * r \in Nat
  BY <1>2, <1>5, ProductMonotonic
<1>9. w \in Nat
  BY <1>6, <1>7, <1>8, DivBound
<1> QED
  BY <1>1, <1>2, <1>9 DEF r

\* With a fee share of no more than a half, the fee withheld is no more than what the
\* deposit issues: x is the reserve, i the deposit of the asset that is swapped, L the
\* tokens issued before and r after, v the swapped amount's fee.
LEMMA WithheldAtMostIssued ==
  ASSUME NEW x \in Nat \ {0}, NEW i \in Nat, NEW L \in Nat \ {0}, NEW r \in Nat, L <= r,
         (x + i) * (L * L) < x * ((r + 1) * (r + 1)),
         NEW v \in Nat, v <= i
  PROVE  (v * r) \div (2 * (x + i)) <= r - L
<1> DEFINE k == r - L + 1
           d == 2 * (x + i)
           w == (v * r) \div d
<1>1. k \in Nat \ {0} /\ r + 1 = L + k /\ d \in Nat \ {0}
  OBVIOUS
<1> HIDE DEF k
<1>2. i * (L + k) < d * k
  <2> SUFFICES ASSUME i * (L + k) >= d * k  PROVE FALSE
    BY <1>1, Z3
  <2>1. i * L >= 2 * (x * k) + i * k
    BY <1>1, Z3
  <2>2. (x + i) * (L * L) = x * (L * L) + (i * L) * L
    BY Z3
  <2>3. x * ((L + k) * (L + k)) = x * (L * L) + 2 * (x * k) * L + (x * k) * k
    BY <1>1, Z3
  <2>4. (i * L) * L < 2 * (x * k) * L + (x * k) * k
    <3>1. x * (L * L) \in Int /\ (i * L) * L \in Int /\ 2 * (x * k) * L \in Int /\ (x * k) * k \in Int
      BY <1>1, Z3
    <3> QED
      BY <1>1, <2>2, <2>3, <3>1
  <2> DEFINE a == i * L
             b == x * k
             e == i * k
  <2>5. a \in Nat /\ b \in Nat /\ e \in Nat /\ b > 0
    BY <1>1, ProductMonotonic, Z3
  <2>6. a >= 2 * b + e
    BY <2>1
  <2>7. a * L < 2 * b * L + b * k
    BY <2>4
  <2>8. e * L = a * k
    BY <1>1, Z3
  <2> HIDE DEF a, b, e
  <2>9. (2 * b + e) * L <= a * L
    BY <1>1, <2>5, <2>6, ProductOrder
  <2>10. (2 * b + e) * L = 2 * b * L + e * L
    BY <1>1, <2>5, Z3
  <2>11. 2 * b * L \in Int /\ e * L \in Int /\ a * L \in Int /\ b * k \in Int
    BY <1>1, <2>5, Z3
  <2>12. a * k < b * k
    BY <2>7, <2>8, <2>9, <2>10, <2>11
  <2>13. b * k <= a * k /\ b * k \in Nat /\ a * k \in Nat
    BY <1>1, <2>5, <2>6, ProductOrder
  <2> QED
    BY <2>12, <2>13
<1>3. v * r < d * k
  <2>1. v * r <= i * (L + k) /\ v * r \in Nat /\ i * (L + k) \in Nat
    BY <1>1, ProductOrder
  <2> HIDE DEF d
  <2>2. d * k \in Int
    BY <1>1, Z3
  <2> QED
    BY <1>2, <2>1, <2>2
<1> HIDE DEF d
<1>4. v * r \in Nat
  BY ProductMonotonic
<1>5. w \in Nat /\ d * w <= v * r
  BY <1>1, <1>4, DivBound
<1> HIDE DEF w
<1>6. w < k
  <2> SUFFICES ASSUME k <= w  PROVE FALSE
    BY <1>1, <1>5
  <2>1. d * k <= d * w /\ d * k \in Nat /\ d * w \in Nat
    BY <1>1, <1>5, ProductOrder
  <2> QED
    BY <1>3, <1>4, <1>5, <2>1
<1> QED
  BY <1>1, <1>6 DEF w, d, k

\* What the growth of one reserve says of the tokens issued.
LEMMA GrowthOfOne ==
  ASSUME NEW x \in Nat \ {0}, NEW y \in Nat \ {0}, NEW i \in Nat, NEW j \in Nat,
         NEW s \in Nat, NEW t \in Nat, ((x + i) * (y + j)) * s < (x * y) * t
  PROVE  (x + i) * s < x * t
<1>1. (x + i) * s \in Nat /\ x * t \in Nat
  BY ProductMonotonic
<1>2. SUFFICES ASSUME x * t <= (x + i) * s  PROVE FALSE
  BY <1>1
<1> DEFINE a == x * t
           b == (x + i) * s
<1>3. a \in Nat /\ b \in Nat /\ a <= b
  BY <1>1, <1>2
<1>4. (x * y) * t = a * y /\ ((x + i) * (y + j)) * s = b * (y + j)
  BY Z3
<1> HIDE DEF a, b
<1>5. a * y <= b * (y + j) /\ a * y \in Nat /\ b * (y + j) \in Nat
  BY <1>3, ProductOrder
<1> QED
  BY <1>4, <1>5

(***************************************************************************)
(* As long as the fee share is no more than a half, a deposit issues no    *)
(* fewer than zero tokens.  (With a higher share the fee on what is        *)
(* swapped can be worth more than the deposit.)                            *)
(***************************************************************************)
LEMMA MintNotNegative ==
  ASSUME FeeShare <= 5000, NEW p, Live(p), NEW in \in Amounts
  PROVE  Mint(p, in) \in Nat
<1> DEFINE r == IssuedAfter(p, in)
           swapped == [a \in Assets |-> SwappedInside(p, in, r, a)]
           s   == IF swapped[1] > swapped[2] THEN 1 ELSE 2
           v == swapped[s]
           fee == InternalSwapFee(v)
           L == p[3]
           x == p[s]
           i == in[s]
           w == (fee * r) \div (2 * (x + i))
<1>1. Mint(p, in) = r - L - w
  BY DEF Mint
<1>2. /\ r \in Nat /\ L <= r
      /\ ((p[1] + in[1]) * (p[2] + in[2])) * (L * L) < (p[1] * p[2]) * ((r + 1) * (r + 1))
  BY IssuedAfterBounds
<1>3. /\ p[1] \in Nat \ {0} /\ p[2] \in Nat \ {0} /\ L \in Nat \ {0}
      /\ in[1] \in Nat /\ in[2] \in Nat
  BY AmountsParts DEF Live
<1>4. s \in Assets /\ s \in {1, 2}
  BY DEF Assets
<1>5. v = i - ((r - L) * (x + i)) \div r
  BY <1>4 DEF SwappedInside
<1>6. v \in Nat
  <2>1. swapped[1] = SwappedInside(p, in, r, 1) /\ swapped[2] = SwappedInside(p, in, r, 2)
    BY DEF Assets
  <2>2. swapped[1] \in Int /\ swapped[2] \in Int /\ (swapped[1] >= 0 \/ swapped[2] >= 0)
    BY <2>1, SwappedInsideBounds
  <2> HIDE DEF swapped
  <2> QED
    BY <2>2
<1>7. x \in Nat \ {0} /\ i \in Nat
  BY <1>3, <1>4
<1>8. (x + i) * (L * L) < x * ((r + 1) * (r + 1))
  <2>1. L * L \in Nat /\ (r + 1) * (r + 1) \in Nat
    BY <1>2, <1>3, ProductMonotonic
  <2>2. CASE s = 1
    BY <1>2, <1>3, <2>1, <2>2, GrowthOfOne
  <2>3. CASE s = 2
    <3>1. /\ (p[1] + in[1]) * (p[2] + in[2]) = (p[2] + in[2]) * (p[1] + in[1])
          /\ p[1] * p[2] = p[2] * p[1]
      BY <1>3, Z3
    <3>2. ((p[2] + in[2]) * (p[1] + in[1])) * (L * L) < (p[2] * p[1]) * ((r + 1) * (r + 1))
      BY <1>2, <3>1
    <3>3. (p[2] + in[2]) * (L * L) < p[2] * ((r + 1) * (r + 1))
      <4> HIDE DEF L, r
      <4> QED
        BY <1>3, <2>1, <3>2, GrowthOfOne
    <3> QED
      BY <2>3, <3>3
  <2> QED
    BY <1>4, <2>2, <2>3
<1> DEFINE m == (r - L) * (x + i)
<1>9. v = i - m \div r
  BY <1>5
<1>10. fee = (v * FeeShare) \div (10000 - FeeShare)
  BY DEF InternalSwapFee
<1>11. w = (fee * r) \div (2 * (x + i))
  OBVIOUS
<1> HIDE DEF v, r, L, x, i, w, fee
<1>12. v <= i
  <2>1. m \in Nat /\ r \in Nat \ {0}
    BY <1>2, <1>3, <1>7, ProductMonotonic
  <2> HIDE DEF m
  <2>2. m \div r \in Nat
    BY <2>1, DivBound
  <2> QED
    BY <1>7, <1>9, <2>2
<1>13. fee \in Nat /\ fee <= v
  <2> DEFINE f == 10000 - FeeShare
             n == v * FeeShare
  <2>1. FeeShare \in Nat /\ f \in Nat \ {0} /\ FeeShare <= f
    BY FeeAssumption
  <2> HIDE DEF f
  <2>2. n \in Nat /\ n <= v * f /\ v * f \in Nat
    BY <1>6, <2>1, ProductOrder
  <2>3. fee = n \div f
    BY <1>10 DEF f
  <2> HIDE DEF n
  <2>4. fee \in Nat /\ f * fee <= n
    BY <2>1, <2>2, <2>3, DivBound
  <2>5. fee <= v
    <3> SUFFICES ASSUME v + 1 <= fee  PROVE FALSE
      BY <1>6, <2>4
    <3>1. f * (v + 1) <= f * fee /\ f * fee \in Nat
      BY <1>6, <2>1, <2>4, ProductOrder
    <3>2. f * (v + 1) = v * f + f
      BY <1>6, <2>1, Z3
    <3> QED
      BY <2>1, <2>2, <2>4, <3>1, <3>2
  <2> QED
    BY <2>4, <2>5
<1>14. w <= r - L
  <2>1. fee <= i
    BY <1>6, <1>7, <1>12, <1>13
  <2> QED
    BY <1>2, <1>3, <1>7, <1>8, <1>11, <1>13, <2>1, WithheldAtMostIssued
<1>15. w \in Nat
  <2>1. fee * r \in Nat /\ 2 * (x + i) \in Nat \ {0}
    BY <1>2, <1>7, <1>13, ProductMonotonic
  <2> QED
    BY <1>11, <2>1, DivBound
<1> QED
  BY <1>1, <1>2, <1>3, <1>14, <1>15

(***************************************************************************)
(* A deposit that issues no fewer than zero tokens leaves everybody's      *)
(* share of the pool worth no less.                                        *)
(***************************************************************************)
LEMMA DepositKeepsValue ==
  ASSUME NEW p, Live(p), NEW in \in Amounts, in[3] = 0, NEW q \in Amounts,
         q[1] = p[1] + in[1], q[2] = p[2] + in[2], q[3] = p[3] + Mint(p, in),
         Mint(p, in) >= 0
  PROVE  NoLess(q, p)
<1> DEFINE r == IssuedAfter(p, in)
           k == p[1] * p[2]
           l == (p[1] + in[1]) * (p[2] + in[2])
           s == p[3] * p[3]
<1>1. /\ p[1] \in Nat /\ p[2] \in Nat /\ p[3] \in Nat
      /\ in[1] \in Nat /\ in[2] \in Nat
      /\ q[1] \in Nat /\ q[2] \in Nat /\ q[3] \in Nat
  BY AmountsParts DEF Live
<1>2. r \in Nat /\ p[3] <= r /\ k * (r * r) <= l * s
  BY IssuedAfterBounds
<1>3. q[3] <= r
  BY <1>1, <1>2, MintBounds
<1>4. k \in Nat /\ l \in Nat /\ s \in Nat
  BY <1>1, ProductMonotonic
<1>5. q[1] * q[2] * p[3] * p[3] = l * s
  BY <1>1, Regroup
<1>6. p[1] * p[2] * q[3] * q[3] = k * (q[3] * q[3])
  BY <1>1, Regroup
<1> HIDE DEF r, k, l, s
<1>7. q[3] * q[3] <= r * r /\ q[3] * q[3] \in Nat /\ r * r \in Nat
  BY <1>1, <1>2, <1>3, ProductOrder
<1>8. /\ k * (q[3] * q[3]) <= k * (r * r)
      /\ k * (q[3] * q[3]) \in Nat /\ k * (r * r) \in Nat /\ l * s \in Nat
  BY <1>4, <1>7, ProductOrder
<1>9. k * (q[3] * q[3]) <= l * s
  BY <1>2, <1>8
<1> QED
  BY <1>5, <1>6, <1>8, <1>9 DEF NoLess
-----------------------------------------------------------------------------
(* The arithmetic of a withdrawal and of a swap.                            *)

\* An account's part is at most the reserve; while it leaves someone tokens, it is
\* less, and what stays of the reserve is no less per token.
LEMMA ShareBounds ==
  ASSUME NEW p \in Amounts, NEW lp \in Nat, NEW a \in Assets
  PROVE  /\ p[a] \in Nat /\ Share(p, lp, a) \in Nat
         /\ Share(p, lp, a) <= p[a]
         /\ Live(p) /\ LeavesSomeone(p, lp) =>
              /\ Share(p, lp, a) < p[a]
              /\ p[a] * (p[3] - lp) <= p[3] * (p[a] - Share(p, lp, a))
         /\ ~LeavesSomeone(p, lp) => Share(p, lp, a) = p[a]
<1>1. p[a] \in Nat /\ p[3] \in Nat /\ LockedTokens \in Nat
  BY FeeAssumption DEF Amounts, Holdings, Assets
<1>2. CASE ~LeavesSomeone(p, lp)
  BY <1>1, <1>2 DEF Share
<1>3. CASE LeavesSomeone(p, lp)
  <2> DEFINE x == p[a]
             L == p[3]
             s == (lp * x) \div L
  <2>1. /\ Share(p, lp, a) = s /\ lp < L
        /\ x \in Nat /\ L \in Nat \ {0}
        /\ Live(p) => x > 0
    BY <1>1, <1>3 DEF Share, LeavesSomeone, PoolToken, Live, Assets
  <2>2. x = p[a] /\ L = p[3]
    OBVIOUS
  <2> HIDE DEF x, L
  <2>3. lp * x \in Nat
    BY <2>1, ProductMonotonic
  <2>4. s \in Nat /\ L * s <= lp * x
    BY <2>1, <2>3, DivBound
  <2> HIDE DEF s
  <2>5. lp * x <= L * x /\ L * x \in Nat
    BY <2>1, ProductOrder
  <2>6. x > 0 => lp * x < L * x
    BY <2>1, Z3
  <2>7. s <= x /\ (x > 0 => s < x)
    <3>1. ASSUME x < s
          PROVE  FALSE
      <4>1. L * (x + 1) <= L * s /\ L * s \in Nat
        BY <2>1, <2>4, <3>1, ProductOrder
      <4>2. L * (x + 1) = L * x + L
        BY <2>1, Z3
      <4> QED
        BY <2>1, <2>3, <2>4, <2>5, <4>1, <4>2
    <3>2. ASSUME x > 0, s = x
          PROVE  FALSE
      BY <2>3, <2>4, <2>5, <2>6, <3>2
    <3> QED
      BY <2>1, <2>4, <3>1, <3>2
  <2>8. x * (L - lp) <= L * (x - s)
    <3>1. x * (L - lp) = L * x - lp * x /\ L * (x - s) = L * x - L * s
      BY <2>1, <2>4, Z3
    <3>2. L * s \in Nat
      BY <2>1, <2>4, ProductMonotonic
    <3> QED
      BY <2>3, <2>4, <2>5, <3>1, <3>2
  <2> QED
    BY <1>3, <2>1, <2>2, <2>4, <2>7, <2>8
<1> QED
  BY <1>2, <1>3

(***************************************************************************)
(* A withdrawal that leaves reserves with no smaller a product than what   *)
(* its shares leave keeps the worth of the others' tokens.                 *)
(***************************************************************************)
LEMMA WithdrawalKeepsValue ==
  ASSUME NEW p, Live(p), NEW lp \in Nat, LeavesSomeone(p, lp), NEW q \in Amounts,
         q[3] = p[3] - lp,
         q[1] * q[2] >= (p[1] - Share(p, lp, 1)) * (p[2] - Share(p, lp, 2))
  PROVE  NoLess(q, p)
<1> DEFINE x == p[1]
           y == p[2]
           L == p[3]
           l == q[3]
           u == p[1] - Share(p, lp, 1)
           v == p[2] - Share(p, lp, 2)
           k == q[1] * q[2]
<1>1. /\ x \in Nat /\ y \in Nat /\ L \in Nat /\ l \in Nat
      /\ q[1] \in Nat /\ q[2] \in Nat
  BY AmountsParts DEF Live
<1>2. /\ u \in Nat /\ v \in Nat
      /\ x * (L - lp) <= L * u /\ y * (L - lp) <= L * v
  BY ShareBounds DEF Live, Assets
<1>3. k >= u * v /\ k \in Nat /\ l = L - lp
  BY <1>1, ProductMonotonic
<1>4. q[1] * q[2] * p[3] * p[3] = k * (L * L)
  BY <1>1, Regroup
<1>5. p[1] * p[2] * q[3] * q[3] = (x * y) * (l * l)
  BY <1>1, Regroup
<1> HIDE DEF x, y, L, l, u, v, k
<1>6. x * l <= L * u /\ y * l <= L * v
  BY <1>2, <1>3
<1>7. /\ x * l \in Nat /\ y * l \in Nat /\ L * u \in Nat /\ L * v \in Nat
      /\ u * v \in Nat /\ L * L \in Nat
  BY <1>1, <1>2, ProductMonotonic
<1>8. (x * l) * (y * l) <= (L * u) * (L * v)
  BY <1>6, <1>7, ProductOrder
<1>9. /\ (x * l) * (y * l) = (x * y) * (l * l)
      /\ (L * u) * (L * v) = (u * v) * (L * L)
  BY <1>1, <1>2, Z3
<1>10. /\ (u * v) * (L * L) <= k * (L * L)
       /\ (u * v) * (L * L) \in Nat /\ k * (L * L) \in Nat
  BY <1>3, <1>7, ProductOrder
<1>11. (x * y) * (l * l) \in Int
  BY <1>1, Z3
<1> QED
  BY <1>4, <1>5, <1>8, <1>9, <1>10, <1>11 DEF NoLess

\* A fixed input swap, of nothing included: its output is -1 when nothing goes in or
\* nothing could come out.
LEMMA SwapBounds ==
  ASSUME NEW inS \in Nat, NEW outS \in Nat, NEW input \in Nat, inS + input > 0
  PROVE  LET out == FixedInputOut(inS, outS, input, FeeShare)
         IN  /\ out \in Int /\ -1 <= out /\ out < outS
             /\ input = 0 \/ outS = 0 => out = -1
             /\ inS * outS <= (inS + input) * (outS - out)
<1> DEFINE fee == FixedInputFee(input, FeeShare)
           x == input - fee
           out == FixedInputOut(inS, outS, input, FeeShare)
<1>1. out = OutputOfFixedInput(inS, outS, x)
  BY DEF FixedInputOut
<1>2. FeeShare \in Nat /\ FeeShare < 10000
  BY FeeAssumption
<1>3. CASE input = 0
  <2>1. x = 0 /\ inS + x = inS
    <3>1. input * FeeShare = 0
      BY <1>2, <1>3
    <3>2. fee = 0
      BY <3>1 DEF FixedInputFee
    <3> QED
      BY <1>3, <3>2
  <2> DEFINE k == inS * outS
             q == k \div inS
  <2>2. out = outS - q - 1
    <3> HIDE DEF x, out
    <3> QED
      BY <1>1, <2>1 DEF OutputOfFixedInput
  <2>3. k \in Nat /\ inS \in Nat \ {0}
    BY <1>3, ProductMonotonic
  <2>4. k = inS * outS
    OBVIOUS
  <2> HIDE DEF k
  <2>5. q \in Nat /\ inS * q <= k /\ k < inS * q + inS
    BY <2>3, DivBound
  <2> HIDE DEF q
  <2>6. q = outS
    <3>1. ASSUME q < outS
          PROVE  FALSE
      <4>1. inS * (q + 1) <= inS * outS
        BY <2>3, <2>5, <3>1, ProductOrder
      <4>2. inS * (q + 1) = inS * q + inS /\ inS * q \in Int
        BY <2>3, <2>5, Z3
      <4> QED
        BY <2>3, <2>4, <2>5, <4>1, <4>2
    <3>2. ASSUME outS < q
          PROVE  FALSE
      <4>1. inS * (outS + 1) <= inS * q
        BY <2>3, <2>5, <3>2, ProductOrder
      <4>2. inS * (outS + 1) = inS * outS + inS /\ inS * q \in Int
        BY <2>3, <2>5, Z3
      <4> QED
        BY <2>3, <2>4, <2>5, <4>1, <4>2
    <3> QED
      BY <2>5, <3>1, <3>2
  <2>7. out = -1
    BY <2>2, <2>6
  <2>8. inS * outS <= (inS + input) * (outS - out)
    <3>1. inS * (outS + 1) = inS * outS + inS
      BY Z3
    <3>2. inS + input = inS /\ outS - out = outS + 1
      BY <1>3, <2>7
    <3> QED
      BY <2>3, <2>4, <3>1, <3>2
  <2> QED
    BY <2>7, <2>8
<1>4. CASE input # 0
  <2>1. x \in Nat \ {0} /\ x <= input
    <3>1. fee \in 0 .. input - 1
      BY <1>2, <1>4, FixedInputFeeBounds
    <3> QED
      BY <3>1
  <2> HIDE DEF x
  <2> DEFINE y == OutputOfFixedInput(inS, outS, x)
  <2>2. /\ y \in Int /\ y <= outS - 1
        /\ outS > 0 => y >= 0
        /\ outS = 0 => y = -1
        /\ (inS + x) * (outS - y) > inS * outS
    BY <2>1, FixedInputKeepsProduct
  <2>3. out = y
    BY <1>1 DEF x
  <2> HIDE DEF y, out
  <2>4. (inS + x) * (outS - y) <= (inS + input) * (outS - y)
    BY <2>1, <2>2, ProductOrder
  <2>5. /\ inS * outS \in Int /\ (inS + x) * (outS - y) \in Int
        /\ (inS + input) * (outS - y) \in Int
    BY <2>1, <2>2, Z3
  <2>6. inS * outS <= (inS + input) * (outS - y)
    BY <2>2, <2>4, <2>5
  <2> QED
    BY <1>4, <2>2, <2>3, <2>6 DEF out
<1> QED
  BY <1>3, <1>4

LEMMA OtherAsset ==
  ASSUME NEW a \in Assets
  PROVE  /\ Other(a) \in Assets /\ Other(Other(a)) = a
         /\ (a = 1 /\ Other(a) = 2) \/ (a = 2 /\ Other(a) = 1)
  BY DEF Other, Assets

\* The swap of a withdrawal in one asset, as the quote and the pool compute it.
LEMMA InternalSwapBounds ==
  ASSUME NEW p \in Amounts, NEW lp \in Nat, NEW a \in Assets, p[Other(a)] > 0
  PROVE  LET out  == InternalSwapOut(p, lp, a)
             b    == Other(a)
             left == [c \in Assets |-> p[c] - Share(p, lp, c)]
         IN  /\ out \in Int /\ -1 <= out /\ out < left[a]
             /\ ~LeavesSomeone(p, lp) => out = -1
             /\ left[1] * left[2] <= p[b] * (left[a] - out)
<1> DEFINE b == Other(a)
           left == [c \in Assets |-> p[c] - Share(p, lp, c)]
           out == InternalSwapOut(p, lp, a)
           inS == left[b]
           outS == left[a]
           input == Share(p, lp, b)
<1>1. b \in Assets /\ ((a = 1 /\ b = 2) \/ (a = 2 /\ b = 1))
  BY OtherAsset
<1>2. /\ inS \in Nat /\ outS \in Nat /\ input \in Nat /\ inS + input = p[b]
      /\ ~LeavesSomeone(p, lp) => outS = 0
  BY <1>1, ShareBounds
<1>3. out = FixedInputOut(inS, outS, input, FeeShare)
  BY <1>1 DEF InternalSwapOut
<1>4. left[1] * left[2] = inS * outS
  <2>1. inS * outS = outS * inS
    BY <1>2, Z3
  <2> QED
    BY <1>1, <2>1
<1>5. /\ inS + input > 0
  BY <1>2
<1> HIDE DEF inS, outS, input, out
<1>6. /\ out \in Int /\ -1 <= out /\ out < outS
      /\ outS = 0 => out = -1
      /\ inS * outS <= (inS + input) * (outS - out)
  BY <1>2, <1>3, <1>5, SwapBounds
<1> QED
  BY <1>2, <1>4, <1>6 DEF out, outS
-----------------------------------------------------------------------------
(* Groups, and what one does to the pool.                                   *)

\* What generateTxns makes of a quote.
ValidGroup(g) ==
  /\ g \in Groups
  /\ g.op = "bootstrap" => g.in = Nothing
  /\ g.op = "initial" =>
       /\ g.in[1] > 0 /\ g.in[2] > 0 /\ g.in[3] = 0
       /\ g.quoted = Only(PoolToken, FirstMint(g.in))
  /\ g.op \in {"flexible", "single"} => g.in[3] = 0
  /\ g.op \in {"remove", "removeSingle"} => g.in[1] = 0 /\ g.in[2] = 0
  /\ g.op = "removeSingle" => g.want \in Assets
  /\ g.op # "initial" => \A a \in Holdings :
       100 * g.min[a] >= g.quoted[a] * (100 - g.slippage) - 100

\* What the pool asks of a group before it executes it (see Executable).
Feasible(g, p) ==
  /\ g.op = "initial" => p[3] = 0
  /\ g.op \in {"flexible", "single", "remove", "removeSingle"} => p[3] > 0
  /\ g.op = "removeSingle" => InternalSwapOut(p, g.in[3], g.want) >= 0
  /\ Yield(g.op, p, g.in, g.want) \in Amounts

SoundPool(p) == p \in Amounts /\ (p[3] > 0 => Live(p))

\* A pool that may follow p.
SoundAfter(q, p) == SoundPool(q) /\ (p[3] > 0 /\ q[3] > 0 => NoLess(q, p))

LEMMA OnlyType ==
  ASSUME NEW a \in Holdings, NEW n \in Int
  PROVE  /\ Only(a, n) \in [Holdings -> Int] /\ Nothing \in Amounts
         /\ Nothing \in [Holdings -> Int]
         /\ n >= 0 => Only(a, n) \in Amounts
         /\ Only(a, n)[a] = n
         /\ \A b \in Holdings \ {a} : Only(a, n)[b] = 0
         /\ \A b \in Holdings : Nothing[b] = 0
  BY DEF Only, Nothing, Amounts, Holdings

LEMMA PoolTokensOnly ==
  ASSUME NEW n \in Int
  PROVE  /\ Only(PoolToken, n) \in [Holdings -> Int]
         /\ Only(PoolToken, n)[1] = 0 /\ Only(PoolToken, n)[2] = 0
         /\ Only(PoolToken, n)[3] = n
  BY DEF Only, Nothing, PoolToken, Holdings

\* The reserves and the tokens a group leaves.
LEMMA PoolAfterParts ==
  ASSUME NEW g, NEW p
  PROVE  LET out == Yield(g.op, p, g.in, g.want)
             q   == PoolAfter(g, p)
         IN  /\ q[1] = p[1] + g.in[1] - out[1]
             /\ q[2] = p[2] + g.in[2] - out[2]
             /\ g.op = "initial" => q[3] = out[3] + LockedTokens
             /\ g.op \in {"remove", "removeSingle"} =>
                  q[3] = IF LeavesSomeone(p, g.in[3]) THEN p[3] - g.in[3] ELSE 0
             /\ g.op \in {"bootstrap", "flexible", "single"} => q[3] = p[3] + out[3]
             /\ q[1] \in Nat /\ q[2] \in Nat /\ q[3] \in Nat => q \in Amounts
  BY DEF PoolAfter, PoolToken, Holdings, Amounts

LEMMA BootstrapLeavesSound ==
  ASSUME NEW g, ValidGroup(g), g.op = "bootstrap", NEW p, SoundPool(p)
  PROVE  SoundAfter(PoolAfter(g, p), p)
<1> DEFINE q == PoolAfter(g, p)
<1>1. Yield(g.op, p, g.in, g.want) = Nothing /\ g.in = Nothing
  BY DEF Yield, ValidGroup
<1>2. Nothing[1] = 0 /\ Nothing[2] = 0 /\ Nothing[3] = 0
  BY DEF Nothing, Holdings
<1>3. p \in Amounts /\ p[1] \in Nat /\ p[2] \in Nat /\ p[3] \in Nat
  BY AmountsParts DEF SoundPool
<1>4. q[1] = p[1] /\ q[2] = p[2] /\ q[3] = p[3] /\ q \in Amounts
  BY <1>1, <1>2, <1>3, PoolAfterParts
<1> HIDE DEF q
<1>5. p[1] * p[2] * p[3] * p[3] \in Nat
  BY <1>3, Regroup
<1> QED
  BY <1>3, <1>4, <1>5 DEF SoundAfter, SoundPool, Live, NoLess, q

LEMMA FirstMintType ==
  ASSUME NEW in, in[1] \in Nat, in[2] \in Nat
  PROVE  /\ FirstMint(in) \in Int
         /\ Only(PoolToken, FirstMint(in)) \in [Holdings -> Int]
<1>1. GeometricMean(in[1], in[2]) \in Nat
  BY GeometricMeanType
<1>2. FirstMint(in) \in Int
  BY <1>1, FeeAssumption DEF FirstMint
<1> QED
  BY <1>2, PoolTokensOnly

LEMMA InitialLeavesSound ==
  ASSUME NEW g, ValidGroup(g), g.op = "initial", NEW p, SoundPool(p), Feasible(g, p)
  PROVE  SoundAfter(PoolAfter(g, p), p)
<1> DEFINE q == PoolAfter(g, p)
           out == Yield(g.op, p, g.in, g.want)
<1>1. /\ p[1] \in Nat /\ p[2] \in Nat /\ p[3] = 0
      /\ g.in[1] \in Nat /\ g.in[2] \in Nat /\ g.in[1] > 0 /\ g.in[2] > 0
  BY AmountsParts DEF SoundPool, Feasible, ValidGroup, Groups
<1>2. out = Only(PoolToken, FirstMint(g.in)) /\ out \in Amounts
  BY DEF Yield, Feasible
<1>3. out[1] = 0 /\ out[2] = 0 /\ out[3] \in Nat
  BY <1>1, <1>2, FirstMintType, PoolTokensOnly, AmountsParts
<1>4. q[1] > 0 /\ q[2] > 0 /\ q \in Amounts
  BY <1>1, <1>3, PoolAfterParts, FeeAssumption
<1> HIDE DEF q
<1> QED
  BY <1>1, <1>4 DEF SoundAfter, SoundPool, Live, q

LEMMA DepositLeavesSound ==
  ASSUME NEW g, ValidGroup(g), g.op \in {"flexible", "single"},
         NEW p, SoundPool(p), Feasible(g, p)
  PROVE  SoundAfter(PoolAfter(g, p), p)
<1> DEFINE q == PoolAfter(g, p)
           out == Yield(g.op, p, g.in, g.want)
<1>1. /\ Live(p) /\ g.in \in Amounts /\ g.in[3] = 0
      /\ p[1] \in Nat /\ p[2] \in Nat /\ p[3] \in Nat
      /\ g.in[1] \in Nat /\ g.in[2] \in Nat
  BY AmountsParts DEF SoundPool, Feasible, ValidGroup, Groups
<1>2. out = Only(PoolToken, Mint(p, g.in)) /\ out \in Amounts
  BY DEF Yield, Feasible
<1>3. Mint(p, g.in) \in Int
  BY <1>1, MintBounds
<1>4. out[1] = 0 /\ out[2] = 0 /\ out[3] = Mint(p, g.in) /\ Mint(p, g.in) >= 0
  BY <1>2, <1>3, PoolTokensOnly, AmountsParts
<1>5. /\ q[1] = p[1] + g.in[1] /\ q[2] = p[2] + g.in[2]
      /\ q[3] = p[3] + Mint(p, g.in) /\ q \in Amounts
  BY <1>1, <1>3, <1>4, PoolAfterParts
<1> HIDE DEF q, out
<1>6. NoLess(q, p)
  BY <1>1, <1>4, <1>5, DepositKeepsValue
<1>7. Live(q)
  BY <1>1, <1>3, <1>4, <1>5 DEF Live
<1> QED
  BY <1>6, <1>7 DEF SoundAfter, SoundPool, Live, q

LEMMA RemoveLeavesSound ==
  ASSUME NEW g, ValidGroup(g), g.op = "remove", NEW p, SoundPool(p), Feasible(g, p)
  PROVE  SoundAfter(PoolAfter(g, p), p)
<1> DEFINE q == PoolAfter(g, p)
           out == Yield(g.op, p, g.in, g.want)
           lp == g.in[3]
<1>1. /\ Live(p) /\ p \in Amounts /\ g.in[1] = 0 /\ g.in[2] = 0 /\ lp \in Nat
      /\ p[1] \in Nat /\ p[2] \in Nat /\ p[3] \in Nat
  BY AmountsParts DEF SoundPool, Feasible, ValidGroup, Groups
<1>2. out = Burn(p, lp)
  BY DEF Yield, PoolToken
<1>3. out[1] = Share(p, lp, 1) /\ out[2] = Share(p, lp, 2)
  BY <1>2 DEF Burn, Holdings, PoolToken
<1>4. /\ Share(p, lp, 1) \in Nat /\ Share(p, lp, 1) <= p[1]
      /\ Share(p, lp, 2) \in Nat /\ Share(p, lp, 2) <= p[2]
      /\ LeavesSomeone(p, lp) => Share(p, lp, 1) < p[1] /\ Share(p, lp, 2) < p[2]
  BY <1>1, ShareBounds DEF Assets
<1>5. LeavesSomeone(p, lp) => lp < p[3]
  BY <1>1, FeeAssumption DEF LeavesSomeone, PoolToken
<1>6. /\ q[1] = p[1] - Share(p, lp, 1) /\ q[2] = p[2] - Share(p, lp, 2)
      /\ q[3] = (IF LeavesSomeone(p, lp) THEN p[3] - lp ELSE 0)
      /\ q \in Amounts
  <2>1. /\ q[1] = p[1] - Share(p, lp, 1) /\ q[2] = p[2] - Share(p, lp, 2)
        /\ q[3] = (IF LeavesSomeone(p, lp) THEN p[3] - lp ELSE 0)
    <3> HIDE DEF out
    <3> QED
      BY <1>1, <1>3, <1>4, PoolAfterParts DEF out
  <2>2. q[1] \in Nat /\ q[2] \in Nat /\ q[3] \in Nat
    BY <1>1, <1>4, <1>5, <2>1
  <2> QED
    BY <2>1, <2>2, PoolAfterParts
<1> HIDE DEF q, out, lp
<1>7. CASE LeavesSomeone(p, lp)
  <2>1. Live(q)
    BY <1>1, <1>4, <1>5, <1>6, <1>7 DEF Live
  <2>2. q[1] * q[2] >= (p[1] - Share(p, lp, 1)) * (p[2] - Share(p, lp, 2))
    <3>1. q[1] * q[2] \in Nat
      BY <2>1, AmountsParts, ProductMonotonic DEF Live
    <3> QED
      BY <1>6, <3>1
  <2>3. NoLess(q, p)
    BY <1>1, <1>6, <1>7, <2>2, WithdrawalKeepsValue
  <2> QED
    BY <2>1, <2>3 DEF SoundAfter, SoundPool, Live, q
<1>8. CASE ~LeavesSomeone(p, lp)
  BY <1>6, <1>8 DEF SoundAfter, SoundPool, q
<1> QED
  BY <1>7, <1>8

LEMMA RemoveSingleLeavesSound ==
  ASSUME NEW g, ValidGroup(g), g.op = "removeSingle", NEW p, SoundPool(p), Feasible(g, p)
  PROVE  SoundAfter(PoolAfter(g, p), p)
<1> DEFINE q == PoolAfter(g, p)
           out == Yield(g.op, p, g.in, g.want)
           lp == g.in[3]
           a == g.want
           b == Other(a)
           left == [c \in Assets |-> p[c] - Share(p, lp, c)]
           swapped == InternalSwapOut(p, lp, a)
<1>1. /\ Live(p) /\ p \in Amounts /\ g.in[1] = 0 /\ g.in[2] = 0 /\ lp \in Nat
      /\ p[1] \in Nat /\ p[2] \in Nat /\ p[3] \in Nat /\ p[1] > 0 /\ p[2] > 0
      /\ a \in Assets /\ swapped >= 0
  BY AmountsParts DEF SoundPool, Feasible, ValidGroup, Groups, Live
<1>2. /\ b \in Assets
      /\ (a = 1 /\ b = 2) \/ (a = 2 /\ b = 1)
  BY <1>1, OtherAsset
<1>3. p[b] > 0 /\ p[b] \in Nat
  BY <1>1, <1>2
<1>4. /\ swapped \in Int /\ swapped < left[a]
      /\ ~LeavesSomeone(p, lp) => swapped = -1
      /\ left[1] * left[2] <= p[b] * (left[a] - swapped)
  BY <1>1, <1>3, InternalSwapBounds
<1>5. LeavesSomeone(p, lp) /\ lp < p[3]
  BY <1>1, <1>4, FeeAssumption DEF LeavesSomeone, PoolToken
<1>6. /\ left[1] = p[1] - Share(p, lp, 1) /\ left[2] = p[2] - Share(p, lp, 2)
      /\ left[a] = p[a] - Share(p, lp, a)
      /\ Share(p, lp, a) \in Nat
  BY <1>1, ShareBounds DEF Assets
<1>7. out = Only(a, Share(p, lp, a) + swapped)
  BY DEF Yield, PoolToken, BurnForOne
<1>8. out[a] = Share(p, lp, a) + swapped /\ out[b] = 0
  BY <1>1, <1>2, <1>4, <1>6, <1>7, OnlyType DEF Holdings
<1>9. /\ q[b] = p[b] /\ q[a] = left[a] - swapped
      /\ q[3] = p[3] - lp /\ q \in Amounts
  <2>1. q[1] = p[1] - out[1] /\ q[2] = p[2] - out[2] /\ q[3] = p[3] - lp
    <3>1. out[1] \in Int /\ out[2] \in Int
      BY <1>1, <1>2, <1>4, <1>6, <1>8
    <3> QED
      BY <1>1, <1>5, <3>1, PoolAfterParts
  <2> HIDE DEF q, out, left, swapped
  <2>2. q[b] = p[b] /\ q[a] = left[a] - swapped
    BY <1>1, <1>2, <1>4, <1>6, <1>8, <2>1
  <2>3. p[a] \in Nat
    BY <1>1, <1>2
  <2>4. q[1] \in Nat /\ q[2] \in Nat /\ q[3] \in Nat
    BY <1>1, <1>2, <1>3, <1>4, <1>5, <1>6, <2>1, <2>2, <2>3
  <2> QED
    BY <2>1, <2>2, <2>4, PoolAfterParts DEF q
<1> HIDE DEF q, out, lp, a, b, left, swapped
<1>10. Live(q)
  <2>1. left[a] \in Int
    <3>1. p[a] \in Nat
      BY <1>1, <1>2
    <3> QED
      BY <1>6, <3>1
  <2> QED
    BY <1>1, <1>2, <1>3, <1>4, <1>5, <1>9, <2>1 DEF Live
<1>11. q[1] * q[2] >= left[1] * left[2]
  <2>1. q[1] \in Nat /\ q[2] \in Nat
    BY <1>9, AmountsParts
  <2>2. q[1] * q[2] = q[b] * q[a]
    BY <1>2, <2>1, Z3
  <2>3. q[1] * q[2] \in Int
    BY <2>1, Z3
  <2>4. left[1] \in Int /\ left[2] \in Int
    BY <1>1, <1>6, ShareBounds DEF Assets
  <2>5. left[1] * left[2] \in Int
    BY <2>4, Z3
  <2> QED
    BY <1>4, <1>9, <2>2, <2>3, <2>5
<1>12. NoLess(q, p)
  BY <1>1, <1>5, <1>6, <1>9, <1>11, WithdrawalKeepsValue
<1> QED
  BY <1>10, <1>12 DEF SoundAfter, SoundPool, Live, q

LEMMA GroupLeavesSound ==
  ASSUME NEW g, ValidGroup(g), NEW p, SoundPool(p), Feasible(g, p)
  PROVE  SoundAfter(PoolAfter(g, p), p)
<1>1. g.op \in Ops
  BY DEF ValidGroup, Groups
<1> QED
  BY <1>1, BootstrapLeavesSound, InitialLeavesSound, DepositLeavesSound,
     RemoveLeavesSound, RemoveSingleLeavesSound DEF Ops

\* Another account's swap.
LEMMA SwapLeavesSound ==
  ASSUME NEW p \in Amounts, Live(p), NEW a \in Assets, NEW amount \in Nat \ {0},
         FixedInputOut(p[a], p[Other(a)], amount, FeeShare) >= 0
  PROVE  LET out == FixedInputOut(p[a], p[Other(a)], amount, FeeShare)
         IN  SoundAfter([p EXCEPT ![a] = @ + amount, ![Other(a)] = @ - out], p)
<1> DEFINE b == Other(a)
           out == FixedInputOut(p[a], p[b], amount, FeeShare)
           q == [p EXCEPT ![a] = @ + amount, ![b] = @ - out]
<1>1. /\ p[1] \in Nat /\ p[2] \in Nat /\ p[3] \in Nat
      /\ p[1] > 0 /\ p[2] > 0 /\ p[3] > 0
  BY AmountsParts DEF Live
<1>2. b \in Assets /\ ((a = 1 /\ b = 2) \/ (a = 2 /\ b = 1))
  BY OtherAsset
<1>3. p[a] \in Nat /\ p[b] \in Nat /\ p[a] > 0 /\ p[b] > 0
  BY <1>1, <1>2
<1>4. out \in Nat /\ out < p[b] /\ p[a] * p[b] <= (p[a] + amount) * (p[b] - out)
  <2> DEFINE inS == p[a]
             outS == p[b]
             x == FixedInputOut(inS, outS, amount, FeeShare)
  <2>1. inS \in Nat /\ outS \in Nat /\ inS + amount > 0 /\ amount # 0 /\ x >= 0
    BY <1>3
  <2> HIDE DEF inS, outS
  <2>2. x \in Int /\ x < outS /\ inS * outS <= (inS + amount) * (outS - x)
    BY <2>1, SwapBounds
  <2> QED
    BY <2>1, <2>2 DEF inS, outS
<1> HIDE DEF out
<1>5. q[a] = p[a] + amount /\ q[b] = p[b] - out /\ q[3] = p[3] /\ q \in Amounts
  <2> HIDE DEF b
  <2> QED
    BY <1>2, <1>3, <1>4 DEF Amounts, Holdings
<1> HIDE DEF q, b
<1>6. q[1] * q[2] >= p[1] * p[2]
  <2>1. q[a] * q[b] = q[b] * q[a] /\ p[a] * p[b] = p[b] * p[a]
    BY <1>3, <1>4, <1>5, Z3
  <2>2. q[a] * q[b] \in Int /\ p[a] * p[b] \in Int
    BY <1>3, <1>4, <1>5, Z3
  <2> QED
    BY <1>2, <1>4, <1>5, <2>1, <2>2
<1>7. Live(q)
  BY <1>1, <1>2, <1>3, <1>4, <1>5 DEF Live
<1>8. NoLess(q, p)
  <2> DEFINE k == p[1] * p[2]
             l == q[1] * q[2]
             s == p[3] * p[3]
  <2>1. q[1] \in Nat /\ q[2] \in Nat
    BY <1>5, AmountsParts
  <2>2. /\ q[1] * q[2] * p[3] * p[3] = l * s
        /\ p[1] * p[2] * q[3] * q[3] = k * s
    BY <1>1, <1>5, <2>1, Regroup
  <2>3. k \in Nat /\ l \in Nat /\ s \in Nat /\ k <= l
    BY <1>1, <1>6, <2>1, ProductMonotonic
  <2> HIDE DEF k, l, s
  <2>4. k * s <= l * s /\ k * s \in Nat /\ l * s \in Nat
    BY <2>3, ProductOrder
  <2> QED
    BY <2>2, <2>4 DEF NoLess
<1> QED
  BY <1>7, <1>8 DEF SoundAfter, SoundPool, Live, q, b, out
-----------------------------------------------------------------------------
(* The invariant.  A group is valid once it is made, is not sent before     *)
(* that, and what it brought satisfied it.                                  *)

Honoured ==
  \A c \in Calls : fate[c] = "applied" =>
    IF group[c].op = "initial" THEN got[c] = group[c].quoted
    ELSE \A a \in Holdings : got[c][a] >= group[c].min[a]

Functional ==
  /\ fate = [c \in Calls |-> fate[c]]
  /\ got = [c \in Calls |-> got[c]]
  /\ pc = [c \in Calls |-> pc[c]]
  /\ group = [c \in Calls |-> group[c]]

Ordered ==
  \A c \in Calls : /\ pc[c] # "idle" => ValidGroup(group[c])
                   /\ pc[c] = "generated" => fate[c] = "unsent"

IInv == TypeOK /\ Functional /\ SoundPool(pool) /\ Ordered /\ Honoured

LEMMA InitEstablishes == Init => IInv
<1> SUFFICES ASSUME Init  PROVE IInv
  OBVIOUS
<1>1. PICK start \in Starts :
        /\ created = start.created /\ pool = start.pool
        /\ wallet = [u \in Accounts |-> start.wallet]
  BY DEF Init
<1>2. /\ swaps = 0
      /\ fate = [c \in Calls |-> "unsent"] /\ got = [c \in Calls |-> None]
      /\ pc = [c \in Calls |-> "idle"] /\ group = [c \in Calls |-> None]
  BY DEF Init
<1>3. created \in BOOLEAN /\ pool \in Amounts /\ wallet \in [Accounts -> Amounts]
  BY <1>1, StartAssumption DEF Amounts
<1>4. pool[3] > 0 => pool[1] > 0 /\ pool[2] > 0
  BY <1>1, StartAssumption DEF PoolToken
<1>5. TypeOK
  <2>1. swaps \in 0 .. MaxSwaps
    BY <1>2, AmountAssumption
  <2> QED
    BY <1>2, <1>3, <2>1 DEF TypeOK
<1>6. SoundPool(pool)
  BY <1>3, <1>4 DEF SoundPool, Live
<1> QED
  BY <1>2, <1>5, <1>6 DEF IInv, Functional, Ordered, Honoured
-----------------------------------------------------------------------------
(* Making a group.                                                          *)

LEMMA MadePreserves ==
  ASSUME IInv, NEW c \in Calls, NEW op \in Ops, NEW in \in Amounts, NEW want \in 0 .. 2,
         NEW min \in [Holdings -> Int], NEW slippage \in 0 .. 100,
         NEW quoted \in [Holdings -> Int],
         op = "bootstrap" => in = Nothing,
         op = "initial" =>
           /\ in[1] > 0 /\ in[2] > 0 /\ in[3] = 0
           /\ quoted = Only(PoolToken, FirstMint(in)),
         op \in {"flexible", "single"} => in[3] = 0,
         op \in {"remove", "removeSingle"} => in[1] = 0 /\ in[2] = 0,
         op = "removeSingle" => want \in Assets,
         op # "initial" => \A a \in Holdings :
           100 * min[a] >= quoted[a] * (100 - slippage) - 100,
         Prepare(c, op, in, want, min, slippage, quoted)
  PROVE  IInv'
<1> DEFINE g == [op |-> op, in |-> in, want |-> want, min |-> min, slippage |-> slippage,
                 quoted |-> quoted, seen |-> pool]
<1>1. /\ pc[c] = "idle" /\ Encodable(min)
      /\ group' = [group EXCEPT ![c] = g]
      /\ pc' = [pc EXCEPT ![c] = "generated"]
      /\ created' = created /\ pool' = pool /\ wallet' = wallet /\ swaps' = swaps
      /\ fate' = fate /\ got' = got
  BY DEF Prepare, chainVars
<1>2. min \in Amounts
  BY <1>1 DEF Encodable, Amounts
<1>3. /\ g.op = op /\ g.in = in /\ g.want = want /\ g.min = min
      /\ g.slippage = slippage /\ g.quoted = quoted /\ g \in Groups
  BY <1>2 DEF Groups, IInv, TypeOK
<1> HIDE DEF g
<1>4. ValidGroup(g)
  BY <1>3 DEF ValidGroup
<1>5. fate[c] = "unsent"
  BY <1>1 DEF IInv, TypeOK
<1>6. TypeOK'
  BY <1>1, <1>3, <1>5 DEF IInv, TypeOK, Functional
<1>7. Functional'
  BY <1>1 DEF IInv, Functional
<1>8. Ordered'
  BY <1>1, <1>4, <1>5 DEF IInv, Ordered, Functional
<1>9. Honoured'
  BY <1>1, <1>5 DEF IInv, Honoured, Functional
<1> QED
  BY <1>1, <1>6, <1>7, <1>8, <1>9 DEF IInv

\* Amounts of which one is bounded, the others nothing.
LEMMA OnlyWithin ==
  ASSUME NEW a \in Holdings, NEW n \in Int, NEW m \in Int, NEW slippage \in 0 .. 100,
         100 * m >= n * (100 - slippage) - 100
  PROVE  \A h \in Holdings :
           100 * Only(a, m)[h] >= Only(a, n)[h] * (100 - slippage) - 100
<1> TAKE h \in Holdings
<1>1. CASE h = a
  BY <1>1, OnlyType
<1>2. CASE h # a
  BY <1>2, OnlyType
<1> QED
  BY <1>1, <1>2

LEMMA SlippageRange ==
  ASSUME NEW slippage \in Slippages
  PROVE  slippage \in 0 .. 100 /\ slippage \in Nat /\ slippage <= 100
  BY AmountAssumption

LEMMA PrepareBootstrapPreserves ==
  ASSUME IInv, NEW c \in Calls, PrepareBootstrap(c)
  PROVE  IInv'
<1>1. Prepare(c, "bootstrap", Nothing, 0, Nothing, 0, Nothing)
  BY DEF PrepareBootstrap
<1>2. /\ Nothing \in Amounts /\ Nothing \in [Holdings -> Int]
      /\ \A a \in Holdings : Nothing[a] = 0
  BY DEF Nothing, Amounts
<1>3. \A a \in Holdings : 100 * Nothing[a] >= Nothing[a] * (100 - 0) - 100
  BY <1>2
<1>4. "bootstrap" \in Ops /\ 0 \in 0 .. 2 /\ 0 \in 0 .. 100
  BY DEF Ops
<1> QED
  BY <1>1, <1>2, <1>3, <1>4, MadePreserves

LEMMA BothType ==
  ASSUME NEW d, d[1] \in Int, d[2] \in Int
  PROVE  /\ Both(d) \in [Holdings -> Int]
         /\ Both(d)[1] = d[1] /\ Both(d)[2] = d[2] /\ Both(d)[3] = 0
         /\ d[1] >= 0 /\ d[2] >= 0 => Both(d) \in Amounts
  BY DEF Both, Nothing, Holdings, Amounts

LEMMA PrepareInitialPreserves ==
  ASSUME IInv, NEW c \in Calls, NEW d \in FirstDeposits, PrepareInitial(c, d)
  PROVE  IInv'
<1> DEFINE in == Both(d)
           out == Only(PoolToken, FirstMint(in))
<1>1. d[1] \in Nat /\ d[2] \in Nat /\ d[1] > 0 /\ d[2] > 0
  BY AmountAssumption DEF Assets
<1>2. in \in Amounts /\ in[1] = d[1] /\ in[2] = d[2] /\ in[3] = 0
  BY <1>1, BothType
<1>3. out \in [Holdings -> Int]
  BY <1>1, <1>2, FirstMintType
<1>4. Yield("initial", pool, in, 0) = out
  BY DEF Yield
<1>5. Prepare(c, "initial", in, 0, Nothing, 0, out)
  BY <1>4 DEF PrepareInitial
<1>6. Nothing \in [Holdings -> Int]
  BY DEF Nothing
<1>7. "initial" \in Ops /\ 0 \in 0 .. 2 /\ 0 \in 0 .. 100
  BY DEF Ops
<1> DEFINE z == out
<1>8. z = Only(PoolToken, FirstMint(in))
  OBVIOUS
<1> HIDE DEF z, in
<1> QED
  BY <1>1, <1>2, <1>3, <1>5, <1>6, <1>7, <1>8, MadePreserves DEF z

LEMMA PrepareDepositPreserves ==
  ASSUME IInv, NEW c \in Calls, NEW op \in {"flexible", "single"},
         NEW in \in Amounts, in[3] = 0, NEW slippage \in Slippages,
         PrepareDeposit(c, op, in, slippage)
  PROVE  IInv'
<1> DEFINE n == Mint(pool, in)
           out == Only(PoolToken, n)
<1>1. Live(pool)
  <2>1. pool[3] # 0
    BY DEF PrepareDeposit, Usable, Empty, PoolToken
  <2>2. pool[3] \in Nat
    BY AmountsParts DEF IInv, TypeOK
  <2> QED
    BY <2>1, <2>2 DEF IInv, SoundPool
<1>2. n \in Int
  BY <1>1, MintBounds
<1>3. Yield(op, pool, in, 0) = out
  BY DEF Yield
<1> HIDE DEF n
<1>4. out[PoolToken] = n /\ out \in [Holdings -> Int] /\ PoolToken \in Holdings
  BY <1>2, PoolTokensOnly DEF PoolToken, Holdings
<1>5. PICK min \in MinPoolTokens(n, slippage) :
        Prepare(c, op, in, 0, Only(PoolToken, min), slippage, out)
  BY <1>3, <1>4 DEF PrepareDeposit
<1>6. min \in Int /\ 100 * min >= n * (100 - slippage) - 100
  <2>1. min \in SlippageAmounts("negative", slippage, n)
    BY <1>5 DEF MinPoolTokens
  <2> QED
    BY <1>2, <2>1, NegativeSlippage, SlippageRange
<1>7. /\ Only(PoolToken, min) \in [Holdings -> Int]
      /\ \A a \in Holdings :
           100 * Only(PoolToken, min)[a] >= out[a] * (100 - slippage) - 100
  BY <1>2, <1>4, <1>6, OnlyType, OnlyWithin, SlippageRange
<1>8. op \in Ops /\ 0 \in 0 .. 2 /\ slippage \in 0 .. 100
  BY SlippageRange DEF Ops
<1> DEFINE m == Only(PoolToken, min)
<1> HIDE DEF out, m
<1> QED
  BY <1>4, <1>5, <1>7, <1>8, MadePreserves DEF m

LEMMA PrepareRemovePreserves ==
  ASSUME IInv, NEW c \in Calls, NEW lp \in Burns, NEW slippage \in Slippages,
         PrepareRemove(c, lp, slippage)
  PROVE  IInv'
<1> DEFINE in == Only(PoolToken, lp)
           out == Burn(pool, lp)
<1>1. lp \in Nat /\ pool \in Amounts
  BY AmountAssumption DEF IInv, TypeOK
<1>2. in \in Amounts /\ in[1] = 0 /\ in[2] = 0 /\ in[3] = lp /\ in[PoolToken] = lp
  BY <1>1, OnlyType DEF PoolToken, Holdings
<1>3. Yield("remove", pool, in, 0) = out
  BY <1>2 DEF Yield
<1>4. /\ out \in [Holdings -> Int] /\ out[1] \in Int /\ out[2] \in Int /\ out[3] = 0
  <2>1. \A a \in Assets : Share(pool, lp, a) \in Int
    BY <1>1, ShareBounds
  <2> QED
    BY <2>1 DEF Burn, Holdings, Assets, PoolToken
<1>5. PICK min1 \in MinOut(out[1], slippage), min2 \in MinOut(out[2], slippage) :
        Prepare(c, "remove", in, 0, Both(<<min1, min2>>), slippage, out)
  <2>1. Reserves = pool
    BY DEF PrepareRemove, Reserves
  <2> QED
    BY <1>3, <2>1 DEF PrepareRemove
<1> DEFINE min == Both(<<min1, min2>>)
<1>6. /\ min1 \in Int /\ 100 * min1 >= out[1] * (100 - slippage) - 100
      /\ min2 \in Int /\ 100 * min2 >= out[2] * (100 - slippage) - 100
  <2>1. /\ min1 \in SlippageAmounts("negative", slippage, out[1])
        /\ min2 \in SlippageAmounts("negative", slippage, out[2])
    BY <1>5 DEF MinOut
  <2> HIDE DEF out
  <2> QED
    BY <1>4, <2>1, NegativeSlippage, SlippageRange
<1>7. min \in [Holdings -> Int] /\ min[1] = min1 /\ min[2] = min2 /\ min[3] = 0
  <2>1. <<min1, min2>>[1] = min1 /\ <<min1, min2>>[2] = min2
    OBVIOUS
  <2> QED
    BY <1>6, <2>1, BothType
<1>8. "remove" \in Ops /\ 0 \in 0 .. 2 /\ slippage \in 0 .. 100
  BY SlippageRange DEF Ops
<1> HIDE DEF in, out, min
<1>9. ASSUME NEW a \in Holdings
      PROVE  100 * min[a] >= out[a] * (100 - slippage) - 100
  <2>1. CASE a = 1
    BY <1>6, <1>7, <2>1
  <2>2. CASE a = 2
    BY <1>6, <1>7, <2>2
  <2>3. CASE a = 3
    BY <1>4, <1>7, <1>8, <2>3
  <2> QED
    BY <2>1, <2>2, <2>3 DEF Holdings
<1> QED
  BY <1>2, <1>4, <1>5, <1>7, <1>8, <1>9, MadePreserves DEF min

LEMMA PrepareRemoveSinglePreserves ==
  ASSUME IInv, NEW c \in Calls, NEW lp \in Burns, NEW a \in Assets,
         NEW slippage \in Slippages, PrepareRemoveSingle(c, lp, a, slippage)
  PROVE  IInv'
<1> DEFINE in == Only(PoolToken, lp)
           n == Share(pool, lp, a) + InternalSwapOut(pool, lp, a)
           out == Only(a, n)
<1>1. lp \in Nat /\ pool \in Amounts /\ a \in Holdings /\ PoolToken \in Holdings
  BY AmountAssumption DEF IInv, TypeOK, Assets, Holdings, PoolToken
<1>2. in \in Amounts /\ in[1] = 0 /\ in[2] = 0 /\ in[3] = lp /\ in[PoolToken] = lp
  BY <1>1, OnlyType DEF PoolToken, Holdings
<1>3. Yield("removeSingle", pool, in, a) = out
  BY <1>2 DEF Yield, BurnForOne
<1>4. Reserves = pool /\ pool[Other(a)] > 0
  BY DEF PrepareRemoveSingle, Reserves
<1>5. n \in Int
  <2>1. Share(pool, lp, a) \in Nat
    BY <1>1, ShareBounds
  <2>2. InternalSwapOut(pool, lp, a) \in Int
    BY <1>1, <1>4, InternalSwapBounds
  <2> QED
    BY <2>1, <2>2
<1> HIDE DEF n
<1>6. out \in [Holdings -> Int] /\ out[a] = n
  BY <1>1, <1>5, OnlyType
<1>7. PICK min \in MinOut(n, slippage) :
        Prepare(c, "removeSingle", in, a, Only(a, min), slippage, out)
  BY <1>3, <1>4, <1>6 DEF PrepareRemoveSingle
<1>8. min \in Int /\ 100 * min >= n * (100 - slippage) - 100
  <2>1. min \in SlippageAmounts("negative", slippage, n)
    BY <1>7 DEF MinOut
  <2> QED
    BY <1>5, <2>1, NegativeSlippage, SlippageRange
<1>9. /\ Only(a, min) \in [Holdings -> Int]
      /\ \A h \in Holdings : 100 * Only(a, min)[h] >= out[h] * (100 - slippage) - 100
  BY <1>1, <1>5, <1>8, OnlyType, OnlyWithin, SlippageRange
<1>10. "removeSingle" \in Ops /\ a \in 0 .. 2 /\ slippage \in 0 .. 100
  BY SlippageRange DEF Ops, Assets
<1> DEFINE m == Only(a, min)
<1> HIDE DEF in, out, m
<1> QED
  BY <1>2, <1>6, <1>7, <1>9, <1>10, MadePreserves DEF m

LEMMA PreparingPreserves ==
  ASSUME IInv, NEW c \in Calls, Preparing(c)
  PROVE  IInv'
<1>1. CASE PrepareBootstrap(c)
  BY <1>1, PrepareBootstrapPreserves
<1>2. ASSUME NEW d \in FirstDeposits, PrepareInitial(c, d)
      PROVE  IInv'
  BY <1>2, PrepareInitialPreserves
<1>3. ASSUME NEW slippage \in Slippages, NEW d \in Deposits, PrepareFlexible(c, d, slippage)
      PROVE  IInv'
  <2>1. d[1] \in Nat /\ d[2] \in Nat
    BY AmountAssumption DEF Assets
  <2>2. Both(d) \in Amounts /\ Both(d)[3] = 0
    BY <2>1, BothType
  <2>3. PrepareDeposit(c, "flexible", Both(d), slippage)
    BY <1>3 DEF PrepareFlexible
  <2> QED
    BY <2>2, <2>3, PrepareDepositPreserves
<1>4. ASSUME NEW slippage \in Slippages, NEW a \in Assets, NEW n \in SingleDeposits,
             PrepareSingle(c, a, n, slippage)
      PROVE  IInv'
  <2>1. n \in Nat /\ a \in Holdings /\ 3 \in Holdings /\ a # 3
    BY AmountAssumption DEF Assets, Holdings
  <2>2. Only(a, n) \in Amounts /\ Only(a, n)[3] = 0
    BY <2>1, OnlyType
  <2>3. PrepareDeposit(c, "single", Only(a, n), slippage)
    BY <1>4 DEF PrepareSingle
  <2> QED
    BY <2>2, <2>3, PrepareDepositPreserves
<1>5. ASSUME NEW slippage \in Slippages, NEW lp \in Burns, PrepareRemove(c, lp, slippage)
      PROVE  IInv'
  BY <1>5, PrepareRemovePreserves
<1>6. ASSUME NEW slippage \in Slippages, NEW a \in Assets, NEW lp \in Burns,
             PrepareRemoveSingle(c, lp, a, slippage)
      PROVE  IInv'
  BY <1>6, PrepareRemoveSinglePreserves
<1> QED
  BY <1>1, <1>2, <1>3, <1>4, <1>5, <1>6 DEF Preparing
-----------------------------------------------------------------------------
(* Executing it.                                                            *)

\* A step of signTxns and execute, which changes no group and, at most, hands one to
\* the node.
LEMMA ExecutingPreserves ==
  ASSUME IInv, NEW c \in Calls, Executing(c)
  PROVE  IInv' /\ pool' = pool
<1>1. /\ created' = created /\ pool' = pool /\ wallet' = wallet /\ swaps' = swaps
      /\ got' = got /\ group' = group
  BY DEF Executing, Send, SendFails, ExecuteFails, Report, ReportPool, chainVars
<1>2. /\ pc[c] \in {"generated", "waiting"}
      /\ \E x \in {"waiting", "failed", "done"} : pc' = [pc EXCEPT ![c] = x]
  BY DEF Executing, Send, SendFails, ExecuteFails, Report, ReportPool
<1>3. \/ fate' = fate
      \/ pc[c] = "generated" /\ fate' = [fate EXCEPT ![c] = "pending"]
  BY DEF Executing, Send, SendFails, ExecuteFails, Report, ReportPool, chainVars
<1>4. pc[c] = "generated" => fate[c] = "unsent"
  BY DEF IInv, Ordered
<1>5. TypeOK'
  <2>1. ASSUME NEW d \in Calls
        PROVE  /\ fate'[d] \in {"unsent", "pending", "applied", "refused"}
               /\ pc'[d] \in {"idle", "generated", "waiting", "done", "failed"}
               /\ IF pc'[d] = "idle" THEN group'[d] = None /\ fate'[d] = "unsent"
                  ELSE group'[d] \in Groups
               /\ IF fate'[d] = "applied" THEN got'[d] \in Amounts ELSE got'[d] = None
    BY <1>1, <1>2, <1>3, <1>4 DEF IInv, TypeOK, Functional
  <2> QED
    BY <1>1, <2>1 DEF IInv, TypeOK
<1>6. Functional'
  BY <1>1, <1>2, <1>3 DEF IInv, Functional
<1>7. Ordered'
  BY <1>1, <1>2, <1>3 DEF IInv, Ordered, Functional
<1>8. Honoured'
  BY <1>1, <1>3 DEF IInv, Honoured, Functional
<1> QED
  BY <1>1, <1>5, <1>6, <1>7, <1>8 DEF IInv

LEMMA RejectPreserves ==
  ASSUME IInv, NEW c \in Calls, Reject(c)
  PROVE  IInv' /\ pool' = pool
<1>1. /\ fate[c] = "pending" /\ fate' = [fate EXCEPT ![c] = "refused"]
      /\ created' = created /\ pool' = pool /\ wallet' = wallet /\ swaps' = swaps
      /\ got' = got /\ pc' = pc /\ group' = group
  BY DEF Reject, callVars
<1>2. pc[c] \notin {"idle", "generated"}
  BY <1>1 DEF IInv, TypeOK, Ordered
<1>3. TypeOK' /\ Functional'
  BY <1>1, <1>2 DEF IInv, TypeOK, Functional
<1>4. Ordered' /\ Honoured'
  BY <1>1, <1>2 DEF IInv, Ordered, Honoured, Functional
<1> QED
  BY <1>1, <1>3, <1>4 DEF IInv

LEMMA OtherSwapPreserves ==
  ASSUME IInv, NEW a \in Assets, NEW amount \in Swaps, OtherSwap(a, amount)
  PROVE  IInv' /\ SoundAfter(pool', pool)
<1>1. /\ swaps < MaxSwaps /\ swaps' = swaps + 1
      /\ created' = created /\ wallet' = wallet /\ fate' = fate /\ got' = got
      /\ pc' = pc /\ group' = group
  BY DEF OtherSwap, callVars
<1>2. pool \in Amounts /\ pool[3] # 0
  BY DEF OtherSwap, Usable, Empty, PoolToken, IInv, TypeOK
<1>3. Live(pool)
  BY <1>2, AmountsParts DEF IInv, SoundPool
<1>4. amount \in Nat \ {0}
  BY AmountAssumption
<1>5. SoundAfter(pool', pool)
  BY <1>2, <1>3, <1>4, SwapLeavesSound DEF OtherSwap
<1>6. SoundPool(pool') /\ pool' \in Amounts
  BY <1>5 DEF SoundAfter, SoundPool
<1>7. swaps' \in 0 .. MaxSwaps
  BY <1>1, AmountAssumption DEF IInv, TypeOK
<1>8. TypeOK'
  BY <1>1, <1>6, <1>7 DEF IInv, TypeOK
<1>9. Functional' /\ Ordered' /\ Honoured'
  BY <1>1 DEF IInv, Functional, Ordered, Honoured
<1> QED
  BY <1>5, <1>6, <1>8, <1>9 DEF IInv

\* The pool executes only what it can.
LEMMA ExecutableIsFeasible ==
  ASSUME IInv, NEW c \in Calls, fate[c] = "pending", Executable(c)
  PROVE  /\ ValidGroup(group[c]) /\ Feasible(group[c], pool)
         /\ Owner[c] \in Accounts
         /\ \A a \in Holdings :
              /\ wallet[Owner[c]][a] >= group[c].in[a]
              /\ Yield(group[c].op, pool, group[c].in, group[c].want)[a] >= group[c].min[a]
<1> DEFINE g == group[c]
<1>1. ValidGroup(g)
  BY DEF IInv, TypeOK, Ordered
<1>2. g.op \in Ops
  BY <1>1 DEF ValidGroup, Groups
<1>3. g.op = "initial" => pool[3] = 0
  BY DEF Executable, Empty, PoolToken
<1>4. g.op = "removeSingle" => Usable(pool) /\ InternalSwapOut(pool, g.in[3], g.want) >= 0
  BY DEF Executable, PoolToken
<1>5. g.op \in {"flexible", "single", "remove"} => Usable(pool)
  BY DEF Executable
<1>6. Usable(pool) => pool[3] > 0
  BY AmountsParts DEF Usable, Empty, PoolToken, IInv, TypeOK
<1>7. Yield(g.op, pool, g.in, g.want) \in Amounts
  BY DEF Executable
<1>8. Owner[c] \in Accounts
  BY DEF Accounts
<1>9. \A a \in Holdings :
        /\ wallet[Owner[c]][a] >= g.in[a]
        /\ Yield(g.op, pool, g.in, g.want)[a] >= g.min[a]
  BY DEF Executable
<1> QED
  BY <1>1, <1>3, <1>4, <1>5, <1>6, <1>7, <1>8, <1>9 DEF Feasible

LEMMA ApplyPreserves ==
  ASSUME IInv, NEW c \in Calls, Apply(c)
  PROVE  IInv' /\ SoundAfter(pool', pool)
<1> DEFINE g == group[c]
           u == Owner[c]
           out == Yield(g.op, pool, g.in, g.want)
           w == [a \in Holdings |-> wallet[u][a] - g.in[a] + out[a]]
<1>1. /\ fate[c] = "pending" /\ fate' = [fate EXCEPT ![c] = "applied"]
      /\ got' = [got EXCEPT ![c] = out]
      /\ created' = (created \/ g.op = "bootstrap")
      /\ pool' = PoolAfter(g, pool)
      /\ wallet' = [wallet EXCEPT ![u] = w]
      /\ swaps' = swaps /\ pc' = pc /\ group' = group /\ Executable(c)
  BY DEF Apply, callVars
<1>2. /\ ValidGroup(g) /\ Feasible(g, pool) /\ u \in Accounts
      /\ \A a \in Holdings : wallet[u][a] >= g.in[a] /\ out[a] >= g.min[a]
  BY <1>1, ExecutableIsFeasible
<1>3. SoundAfter(pool', pool)
  BY <1>1, <1>2, GroupLeavesSound DEF IInv
<1>4. SoundPool(pool') /\ pool' \in Amounts
  BY <1>3 DEF SoundAfter, SoundPool
<1>5. out \in Amounts /\ g.in \in Amounts /\ wallet[u] \in Amounts
  BY <1>2 DEF Feasible, ValidGroup, Groups, IInv, TypeOK
<1>6. pc[c] \notin {"idle", "generated"}
  BY <1>1 DEF IInv, TypeOK, Ordered
<1>7. g.op = "initial" => out = g.quoted
  BY <1>2 DEF Yield, ValidGroup
<1> HIDE DEF out
<1>8. w \in Amounts
  <2>1. ASSUME NEW a \in Holdings
        PROVE  wallet[u][a] - g.in[a] + out[a] \in Nat
    <3>1. wallet[u][a] \in Nat /\ g.in[a] \in Nat /\ out[a] \in Nat
      BY <1>5 DEF Amounts
    <3> QED
      BY <1>2, <3>1
  <2> QED
    BY <2>1 DEF Amounts
<1> HIDE DEF w
<1>9. TypeOK'
  <2>1. created' \in BOOLEAN
    BY <1>1 DEF IInv, TypeOK
  <2>2. wallet' \in [Accounts -> Amounts]
    BY <1>1, <1>2, <1>8 DEF IInv, TypeOK
  <2> QED
    BY <1>1, <1>4, <1>5, <1>6, <2>1, <2>2 DEF IInv, TypeOK, Functional
<1>10. Functional' /\ Ordered'
  BY <1>1, <1>6 DEF IInv, Functional, Ordered
<1>11. Honoured'
  <2> SUFFICES ASSUME NEW d \in Calls, fate'[d] = "applied"
               PROVE  IF group'[d].op = "initial" THEN got'[d] = group'[d].quoted
                      ELSE \A a \in Holdings : got'[d][a] >= group'[d].min[a]
    BY DEF Honoured
  <2>1. CASE d = c
    BY <1>1, <1>2, <1>7, <2>1 DEF IInv, Functional
  <2>2. CASE d # c
    BY <1>1, <2>2 DEF IInv, Functional, Honoured
  <2> QED
    BY <2>1, <2>2
<1> QED
  BY <1>3, <1>4, <1>9, <1>10, <1>11 DEF IInv

\* A step keeps the invariant, and leaves the pool alone or as it may be left.
LEMMA StepIsSound ==
  ASSUME IInv, [Next]_vars
  PROVE  IInv' /\ (pool' = pool \/ SoundAfter(pool', pool))
<1>1. ASSUME NEW c \in Calls, Preparing(c)
      PROVE  IInv' /\ pool' = pool
  <2>1. IInv'
    BY <1>1, PreparingPreserves
  <2>2. pool' = pool
    BY <1>1 DEF Preparing, PrepareBootstrap, PrepareInitial, PrepareFlexible,
       PrepareSingle, PrepareDeposit, PrepareRemove, PrepareRemoveSingle, Prepare,
       chainVars
  <2> QED
    BY <2>1, <2>2
<1>2. ASSUME NEW c \in Calls, Executing(c)
      PROVE  IInv' /\ pool' = pool
  BY <1>2, ExecutingPreserves
<1>3. CASE ChainNext
  BY <1>3, ApplyPreserves, RejectPreserves, OtherSwapPreserves DEF ChainNext
<1>4. CASE UNCHANGED vars
  <2>1. /\ created' = created /\ pool' = pool /\ wallet' = wallet /\ swaps' = swaps
        /\ fate' = fate /\ got' = got /\ pc' = pc /\ group' = group
    BY <1>4 DEF vars, chainVars, callVars
  <2>2. TypeOK' /\ Functional' /\ Ordered' /\ Honoured'
    BY <2>1 DEF IInv, TypeOK, Functional, Ordered, Honoured
  <2> QED
    BY <2>1, <2>2 DEF IInv
<1> QED
  BY <1>1, <1>2, <1>3, <1>4 DEF Next

THEOREM InvariantHolds == Spec => []IInv
<1>1. IInv /\ [Next]_vars => IInv'
  BY StepIsSound
<1> QED
  BY <1>1, InitEstablishes, PTL DEF Spec
-----------------------------------------------------------------------------
(* The tokens of the accounts.                                              *)

\* The pool tokens in wallets w.
HeldIn(w) == Total([u \in Accounts |-> w[u][3]], Accounts)

LEMMA AccountsFinite == IsFiniteSet(Accounts)
<1>1. IsFiniteSet(Calls)
  BY OwnerAssumption
<1>2. [c \in Calls |-> Owner[c]] \in Surjection(Calls, Accounts)
  BY DEF Surjection, Accounts
<1> QED
  BY <1>1, <1>2, FS_Surjection

LEMMA SumOfTokens ==
  ASSUME NEW w
  PROVE  MapThenSumSet(LAMBDA u : w[u][PoolToken], Accounts) = HeldIn(w)
<1> DEFINE S == Accounts
           t == [u \in S |-> w[u][3]]
           E(f) == f = [s \in SUBSET S |->
                          IF s = {} THEN 0
                          ELSE w[CHOOSE x \in s : TRUE][3] + f[s \ {CHOOSE x \in s : TRUE}]]
<1>1. \A s \in SUBSET S : s # {} => t[Pick(s)] = w[CHOOSE x \in s : TRUE][3]
  BY PickIn DEF Pick
<1>2. ASSUME NEW f  PROVE E(f) <=> Sums(f, t, S)
  <2>1. [s \in SUBSET S |-> IF s = {} THEN 0
                            ELSE w[CHOOSE x \in s : TRUE][3] + f[s \ {CHOOSE x \in s : TRUE}]]
          = [s \in SUBSET S |-> IF s = {} THEN 0 ELSE t[Pick(s)] + f[s \ {Pick(s)}]]
    BY <1>1 DEF Pick
  <2> HIDE DEF t
  <2> QED
    BY <2>1 DEF Sums
<1>3. PICK f : Sums(f, t, S)
  BY AccountsFinite, SumsExists
<1>4. E(CHOOSE g : E(g))
  <2>1. E(f)
    BY <1>2, <1>3
  <2> HIDE DEF E
  <2> QED
    BY <2>1
<1>5. Sums(CHOOSE g : E(g), t, S)
  BY <1>2, <1>4
<1>6. Total(t, S) = (CHOOSE g : E(g))[S]
  <2> HIDE DEF t, E
  <2> QED
    BY <1>5, AccountsFinite, TotalIsSum
<1>7. MapThenSumSet(LAMBDA u : w[u][PoolToken], S) = (CHOOSE g : E(g))[S]
  BY DEF MapThenSumSet, MapThenFoldSet, PoolToken
<1> QED
  BY <1>6, <1>7 DEF HeldIn

LEMMA HeldIsHeldIn == Held(Accounts) = HeldIn(wallet) /\ Held(Accounts)' = HeldIn(wallet')
  BY SumOfTokens DEF Held, MapThenSumSet, MapThenFoldSet
-----------------------------------------------------------------------------
(* What a group is made from.                                               *)

(***************************************************************************)
(* The quote of a group is that of the pool it saw, which was one the      *)
(* operation is for, and its bounds ask for no more than the quote.        *)
(***************************************************************************)
Priced(g) ==
  /\ g.quoted = Yield(g.op, g.seen, g.in, g.want)
  /\ g.op = "initial" => g.seen[3] = 0 /\ g.quoted[3] > 0
  /\ g.op \in {"flexible", "single"} => g.seen[3] > 0
  /\ g.op \in {"remove", "removeSingle"} => g.in[3] > 0
  /\ g.op = "removeSingle" => g.seen[Other(g.want)] > 0
  /\ \A a \in Holdings : g.quoted[a] >= 0 => g.min[a] <= g.quoted[a]

Placed ==
  \A c \in Calls : pc[c] # "idle" =>
    Priced(group[c]) /\ (group[c].op # "bootstrap" => created)

LEMMA MadePriced ==
  ASSUME IInv, NEW c \in Calls, NEW op, NEW in, NEW want, NEW min, NEW slippage, NEW quoted,
         Prepare(c, op, in, want, min, slippage, quoted),
         quoted = Yield(op, pool, in, want),
         op = "initial" => pool[3] = 0 /\ quoted[3] > 0,
         op \in {"flexible", "single"} => pool[3] > 0,
         op \in {"remove", "removeSingle"} => in[3] > 0,
         op = "removeSingle" => pool[Other(want)] > 0,
         \A a \in Holdings : quoted[a] >= 0 => min[a] <= quoted[a],
         op # "bootstrap" => created
  PROVE  Priced(group'[c]) /\ (group'[c].op # "bootstrap" => created)
<1> DEFINE g == [op |-> op, in |-> in, want |-> want, min |-> min, slippage |-> slippage,
                 quoted |-> quoted, seen |-> pool]
<1>1. group' = [group EXCEPT ![c] = g]
  BY DEF Prepare
<1>2. group'[c] = g
  BY <1>1 DEF IInv, Functional
<1>3. /\ g.op = op /\ g.in = in /\ g.want = want /\ g.min = min
      /\ g.quoted = quoted /\ g.seen = pool
  OBVIOUS
<1> HIDE DEF g
<1> QED
  BY <1>2, <1>3 DEF Priced

LEMMA DepositPriced ==
  ASSUME IInv, NEW c \in Calls, NEW op \in {"flexible", "single"},
         NEW in \in Amounts, NEW slippage \in Slippages,
         PrepareDeposit(c, op, in, slippage)
  PROVE  Priced(group'[c]) /\ (group'[c].op # "bootstrap" => created)
<1> DEFINE n == Mint(pool, in)
           out == Only(PoolToken, n)
<1>1. Live(pool) /\ created
  <2>1. created /\ pool[3] # 0
    BY DEF PrepareDeposit, Usable, Empty, PoolToken
  <2>2. pool[3] \in Nat
    BY AmountsParts DEF IInv, TypeOK
  <2> QED
    BY <2>1, <2>2 DEF IInv, SoundPool
<1>2. n \in Int
  BY <1>1, MintBounds
<1>3. Yield(op, pool, in, 0) = out
  BY DEF Yield
<1> HIDE DEF n
<1>4. /\ out[PoolToken] = n /\ PoolToken \in Holdings
      /\ \A a \in Holdings \ {PoolToken} : out[a] = 0
  BY <1>2, OnlyType DEF PoolToken, Holdings
<1>5. PICK min \in MinPoolTokens(n, slippage) :
        Prepare(c, op, in, 0, Only(PoolToken, min), slippage, out)
  BY <1>3, <1>4 DEF PrepareDeposit
<1>6. min \in Int /\ (n >= 0 => min <= n)
  <2>1. min \in SlippageAmounts("negative", slippage, n)
    BY <1>5 DEF MinPoolTokens
  <2> QED
    BY <1>2, <2>1, NegativeSlippage, SlippageRange
<1>7. \A a \in Holdings : out[a] >= 0 => Only(PoolToken, min)[a] <= out[a]
  BY <1>2, <1>4, <1>6, OnlyType
<1>8. pool[3] > 0
  BY <1>1 DEF Live
<1> DEFINE m == Only(PoolToken, min)
<1> HIDE DEF out, m
<1> QED
  BY <1>1, <1>3, <1>5, <1>7, <1>8, MadePriced DEF m

LEMMA RemovePriced ==
  ASSUME IInv, NEW c \in Calls, NEW lp \in Burns, NEW slippage \in Slippages,
         PrepareRemove(c, lp, slippage)
  PROVE  Priced(group'[c]) /\ (group'[c].op # "bootstrap" => created)
<1> DEFINE in == Only(PoolToken, lp)
           out == Burn(pool, lp)
<1>1. lp \in Nat /\ lp > 0 /\ pool \in Amounts
  BY AmountAssumption DEF IInv, TypeOK
<1>2. in[3] = lp /\ in[PoolToken] = lp
  BY <1>1, OnlyType DEF PoolToken, Holdings
<1>3. Yield("remove", pool, in, 0) = out
  BY <1>2 DEF Yield
<1>4. /\ out[1] \in Nat /\ out[2] \in Nat /\ out[3] = 0
  <2>1. \A a \in Assets : Share(pool, lp, a) \in Nat
    BY <1>1, ShareBounds
  <2> QED
    BY <2>1 DEF Burn, Holdings, Assets, PoolToken
<1>5. created
  BY DEF PrepareRemove
<1>6. PICK min1 \in MinOut(out[1], slippage), min2 \in MinOut(out[2], slippage) :
        Prepare(c, "remove", in, 0, Both(<<min1, min2>>), slippage, out)
  <2>1. Reserves = pool
    BY DEF PrepareRemove, Reserves
  <2> QED
    BY <1>3, <2>1 DEF PrepareRemove
<1> DEFINE min == Both(<<min1, min2>>)
<1>7. min1 \in Int /\ min2 \in Int /\ min1 <= out[1] /\ min2 <= out[2]
  <2>1. /\ min1 \in SlippageAmounts("negative", slippage, out[1])
        /\ min2 \in SlippageAmounts("negative", slippage, out[2])
    BY <1>6 DEF MinOut
  <2> HIDE DEF out
  <2> QED
    BY <1>4, <2>1, NegativeSlippage, SlippageRange
<1>8. min[1] = min1 /\ min[2] = min2 /\ min[3] = 0
  <2>1. <<min1, min2>>[1] = min1 /\ <<min1, min2>>[2] = min2
    OBVIOUS
  <2> QED
    BY <1>7, <2>1, BothType
<1> HIDE DEF out, min, in
<1>9. \A a \in Holdings : min[a] <= out[a]
  BY <1>4, <1>7, <1>8 DEF Holdings
<1> QED
  BY <1>1, <1>2, <1>3, <1>5, <1>6, <1>9, MadePriced DEF min

LEMMA RemoveSinglePriced ==
  ASSUME IInv, NEW c \in Calls, NEW lp \in Burns, NEW a \in Assets,
         NEW slippage \in Slippages, PrepareRemoveSingle(c, lp, a, slippage)
  PROVE  Priced(group'[c]) /\ (group'[c].op # "bootstrap" => created)
<1> DEFINE in == Only(PoolToken, lp)
           n == Share(pool, lp, a) + InternalSwapOut(pool, lp, a)
           out == Only(a, n)
<1>1. lp \in Nat /\ lp > 0 /\ pool \in Amounts /\ a \in Holdings /\ PoolToken \in Holdings
  BY AmountAssumption DEF IInv, TypeOK, Assets, Holdings, PoolToken
<1>2. in[3] = lp /\ in[PoolToken] = lp
  BY <1>1, OnlyType DEF PoolToken, Holdings
<1>3. Yield("removeSingle", pool, in, a) = out
  BY <1>2 DEF Yield, BurnForOne
<1>4. Reserves = pool /\ pool[Other(a)] > 0 /\ created
  BY DEF PrepareRemoveSingle, Reserves
<1>5. n \in Int
  <2>1. Share(pool, lp, a) \in Nat
    BY <1>1, ShareBounds
  <2>2. InternalSwapOut(pool, lp, a) \in Int
    BY <1>1, <1>4, InternalSwapBounds
  <2> QED
    BY <2>1, <2>2
<1> HIDE DEF n
<1>6. out[a] = n /\ \A b \in Holdings \ {a} : out[b] = 0
  BY <1>1, <1>5, OnlyType
<1>7. PICK min \in MinOut(n, slippage) :
        Prepare(c, "removeSingle", in, a, Only(a, min), slippage, out)
  BY <1>3, <1>4, <1>6 DEF PrepareRemoveSingle
<1>8. min \in Int /\ (n >= 0 => min <= n)
  <2>1. min \in SlippageAmounts("negative", slippage, n)
    BY <1>7 DEF MinOut
  <2> QED
    BY <1>5, <2>1, NegativeSlippage, SlippageRange
<1>9. \A b \in Holdings : out[b] >= 0 => Only(a, min)[b] <= out[b]
  <2> TAKE b \in Holdings
  <2>1. Only(a, min)[a] = min /\ (b # a => Only(a, min)[b] = 0)
    BY <1>1, <1>8, OnlyType
  <2> HIDE DEF out
  <2> QED
    BY <1>6, <1>8, <2>1
<1> DEFINE m == Only(a, min)
<1> HIDE DEF in, out, m
<1> QED
  BY <1>1, <1>2, <1>3, <1>4, <1>7, <1>9, MadePriced DEF m

LEMMA PreparedIsPriced ==
  ASSUME IInv, NEW c \in Calls, Preparing(c)
  PROVE  Priced(group'[c]) /\ (group'[c].op # "bootstrap" => created)
<1>1. CASE PrepareBootstrap(c)
  <2>1. Prepare(c, "bootstrap", Nothing, 0, Nothing, 0, Nothing)
    BY <1>1 DEF PrepareBootstrap
  <2>2. Nothing = Yield("bootstrap", pool, Nothing, 0)
    BY DEF Yield
  <2>3. \A a \in Holdings : Nothing[a] <= Nothing[a]
    BY DEF Nothing
  <2> QED
    BY <2>1, <2>2, <2>3, MadePriced
<1>2. ASSUME NEW d \in FirstDeposits, PrepareInitial(c, d)
      PROVE  Priced(group'[c]) /\ (group'[c].op # "bootstrap" => created)
  <2> DEFINE out == Yield("initial", pool, Both(d), 0)
  <2>1. Prepare(c, "initial", Both(d), 0, Nothing, 0, out) /\ created /\ pool[3] = 0
    BY <1>2 DEF PrepareInitial, Empty, PoolToken
  <2>2. FirstMint(d) > 0 /\ d[1] \in Int /\ d[2] \in Int
    BY <1>2, AmountAssumption DEF PrepareInitial, Assets
  <2>3. FirstMint(Both(d)) = FirstMint(d)
    BY <2>2, BothType DEF FirstMint
  <2>4. out = Only(PoolToken, FirstMint(d))
    BY <2>3 DEF Yield
  <2>5. FirstMint(d) \in Int
    BY <1>2, AmountAssumption, FirstMintType DEF Assets
  <2>6. out[3] = FirstMint(d) /\ out[1] = 0 /\ out[2] = 0
    BY <2>4, <2>5, PoolTokensOnly
  <2>7. \A a \in Holdings : Nothing[a] <= out[a]
    <3> HIDE DEF out
    <3> QED
      BY <2>2, <2>5, <2>6 DEF Holdings, Nothing
  <2> DEFINE z == out
  <2>8. z = Yield("initial", pool, Both(d), 0) /\ z[3] > 0
    BY <2>2, <2>6
  <2> HIDE DEF z
  <2> QED
    BY <2>1, <2>7, <2>8, MadePriced DEF z
<1>3. ASSUME NEW slippage \in Slippages, NEW d \in Deposits, PrepareFlexible(c, d, slippage)
      PROVE  Priced(group'[c]) /\ (group'[c].op # "bootstrap" => created)
  <2>1. d[1] \in Nat /\ d[2] \in Nat
    BY AmountAssumption DEF Assets
  <2>2. Both(d) \in Amounts
    BY <2>1, BothType
  <2> QED
    BY <1>3, <2>2, DepositPriced DEF PrepareFlexible
<1>4. ASSUME NEW slippage \in Slippages, NEW a \in Assets, NEW n \in SingleDeposits,
             PrepareSingle(c, a, n, slippage)
      PROVE  Priced(group'[c]) /\ (group'[c].op # "bootstrap" => created)
  <2>1. n \in Nat /\ a \in Holdings
    BY AmountAssumption DEF Assets, Holdings
  <2>2. Only(a, n) \in Amounts
    BY <2>1, OnlyType
  <2> QED
    BY <1>4, <2>2, DepositPriced DEF PrepareSingle
<1>5. ASSUME NEW slippage \in Slippages, NEW lp \in Burns, PrepareRemove(c, lp, slippage)
      PROVE  Priced(group'[c]) /\ (group'[c].op # "bootstrap" => created)
  BY <1>5, RemovePriced
<1>6. ASSUME NEW slippage \in Slippages, NEW a \in Assets, NEW lp \in Burns,
             PrepareRemoveSingle(c, lp, a, slippage)
      PROVE  Priced(group'[c]) /\ (group'[c].op # "bootstrap" => created)
  BY <1>6, RemoveSinglePriced
<1> QED
  BY <1>1, <1>2, <1>3, <1>4, <1>5, <1>6 DEF Preparing

LEMMA PlacedStep ==
  ASSUME IInv, Placed, [Next]_vars
  PROVE  Placed'
<1>1. ASSUME NEW c \in Calls, Preparing(c)
      PROVE  Placed'
  <2>1. /\ created' = created
        /\ \A d \in Calls \ {c} : pc'[d] = pc[d] /\ group'[d] = group[d]
    BY <1>1 DEF Preparing, PrepareBootstrap, PrepareInitial, PrepareFlexible,
       PrepareSingle, PrepareDeposit, PrepareRemove, PrepareRemoveSingle, Prepare,
       chainVars, IInv, Functional
  <2>2. Priced(group'[c]) /\ (group'[c].op # "bootstrap" => created)
    BY <1>1, PreparedIsPriced
  <2> QED
    BY <2>1, <2>2 DEF Placed, Priced
<1>2. CASE group' = group /\ (created => created')
           /\ \A c \in Calls : pc'[c] # "idle" => pc[c] # "idle"
  BY <1>2 DEF Placed, Priced
<1>3. ASSUME NEW c \in Calls, Executing(c)
      PROVE  Placed'
  <2>1. pc[c] # "idle" /\ group' = group /\ created' = created
    BY <1>3 DEF Executing, Send, SendFails, ExecuteFails, Report, ReportPool, chainVars
  <2>2. \A d \in Calls \ {c} : pc'[d] = pc[d]
    BY <1>3 DEF Executing, Send, SendFails, ExecuteFails, Report, ReportPool, IInv, Functional
  <2> QED
    BY <1>2, <2>1, <2>2
<1>4. CASE ChainNext
  <2>1. group' = group /\ pc' = pc /\ (created => created')
    <3>1. ASSUME NEW c \in Calls, Apply(c) \/ Reject(c)
          PROVE  group' = group /\ pc' = pc /\ (created => created')
      <4>1. group' = group /\ pc' = pc
        BY <3>1 DEF Apply, Reject, callVars
      <4>2. created => created'
        <5>1. CASE Reject(c)
          BY <5>1 DEF Reject
        <5>2. CASE Apply(c)
          <6>1. created' = (created \/ group[c].op = "bootstrap")
            BY <5>2 DEF Apply
          <6> QED
            BY <6>1, Zenon
        <5> QED
          BY <3>1, <5>1, <5>2
      <4> QED
        BY <4>1, <4>2
    <3>2. ASSUME NEW a \in Assets, NEW amount \in Swaps, OtherSwap(a, amount)
          PROVE  group' = group /\ pc' = pc /\ (created => created')
      BY <3>2 DEF OtherSwap, callVars
    <3> QED
      BY <1>4, <3>1, <3>2 DEF ChainNext
  <2> QED
    BY <1>2, <2>1
<1>5. CASE UNCHANGED vars
  BY <1>2, <1>5 DEF vars, chainVars, callVars
<1> QED
  BY <1>1, <1>3, <1>4, <1>5 DEF Next
-----------------------------------------------------------------------------
(* What the accounts hold is all there is, but for the locked tokens.       *)

\* The tokens of the wallets and of the pool, the locked ones aside.
Covered(q, w) ==
  IF q[3] = 0 THEN HeldIn(w) = 0 /\ q[1] = 0 /\ q[2] = 0
  ELSE HeldIn(w) > 0 /\ q[3] = HeldIn(w) + LockedTokens

LEMMA CoveredIsNothingStranded ==
  /\ NothingStrandedNorTaken <=> Covered(pool, wallet)
  /\ NothingStrandedNorTaken' <=> Covered(pool', wallet')
  BY HeldIsHeldIn DEF NothingStrandedNorTaken, Covered, Empty, PoolToken

LEMMA InitCovered == Init => Covered(pool, wallet)
<1> SUFFICES ASSUME Init  PROVE Covered(pool, wallet)
  OBVIOUS
<1>1. PICK start \in Starts :
        /\ created = start.created /\ pool = start.pool
        /\ wallet = [u \in Accounts |-> start.wallet]
  BY DEF Init
<1> DEFINE n == start.wallet[3]
           t == [u \in Accounts |-> wallet[u][3]]
<1>2. n \in Nat /\ pool[3] \in Nat /\ LockedTokens \in Nat
  BY <1>1, StartAssumption, FeeAssumption DEF Holdings
<1>3. \A u \in Accounts : t[u] = n
  BY <1>1
<1>4. HeldIn(wallet) = Cardinality(Accounts) * n
  <2> HIDE DEF n
  <2>1. Total(t, Accounts) = Cardinality(Accounts) * n
    <3> HIDE DEF t
    <3> QED
      BY <1>2, <1>3, AccountsFinite, TotalOfEqual
  <2> QED
    BY <2>1 DEF HeldIn
<1>5. CASE pool[3] > 0
  <2>1. pool[3] > LockedTokens /\ pool[3] = LockedTokens + Cardinality(Accounts) * n
    BY <1>1, <1>5, StartAssumption DEF PoolToken
  <2>2. Cardinality(Accounts) \in Nat
    BY AccountsFinite, FS_CardinalityType
  <2> DEFINE c == Cardinality(Accounts)
             h == c * n
  <2>3. h \in Nat
    <3> HIDE DEF n, c
    <3> QED
      BY <1>2, <2>2, ProductMonotonic DEF c
  <2>4. HeldIn(wallet) = h /\ pool[3] = LockedTokens + h
    BY <1>4, <2>1
  <2> HIDE DEF h
  <2> QED
    BY <1>2, <1>5, <2>1, <2>3, <2>4 DEF Covered
<1>6. CASE ~(pool[3] > 0)
  <2>1. pool = [a \in Holdings |-> 0] /\ n = 0
    BY <1>1, <1>6, StartAssumption DEF PoolToken
  <2>2. pool[1] = 0 /\ pool[2] = 0 /\ pool[3] = 0
    BY <2>1 DEF Holdings
  <2>3. Cardinality(Accounts) \in Nat
    BY AccountsFinite, FS_CardinalityType
  <2>4. HeldIn(wallet) = 0
    <3> DEFINE c == Cardinality(Accounts)
    <3>1. HeldIn(wallet) = c * 0 /\ c \in Nat
      BY <1>4, <2>1, <2>3
    <3> HIDE DEF c
    <3> QED
      BY <3>1, Z3
  <2> QED
    BY <2>2, <2>4 DEF Covered
<1> QED
  BY <1>5, <1>6

LEMMA HeldBounds ==
  ASSUME NEW w \in [Accounts -> Amounts], NEW u \in Accounts
  PROVE  HeldIn(w) \in Nat /\ w[u][3] \in Nat /\ w[u][3] <= HeldIn(w)
<1> DEFINE t == [v \in Accounts |-> w[v][3]]
<1>1. \A v \in Accounts : t[v] \in Nat
  BY AmountsParts
<1>2. t[u] = w[u][3] /\ t[u] \in Nat
  BY <1>1
<1> HIDE DEF t
<1>3. Total(t, Accounts) \in Nat /\ Total(t, Accounts) >= t[u]
  BY <1>1, AccountsFinite, TotalNat, TotalCovers
<1> QED
  BY <1>2, <1>3 DEF HeldIn, t

LEMMA HeldAfter ==
  ASSUME NEW w \in [Accounts -> Amounts], NEW u \in Accounts, NEW x \in Amounts
  PROVE  HeldIn([w EXCEPT ![u] = x]) = HeldIn(w) - w[u][3] + x[3]
<1> DEFINE t == [v \in Accounts |-> w[v][3]]
           r == [v \in Accounts |-> [w EXCEPT ![u] = x][v][3]]
<1>1. /\ \A v \in Accounts : t[v] \in Int /\ r[v] \in Int
      /\ \A v \in Accounts \ {u} : r[v] = t[v]
      /\ t[u] = w[u][3] /\ r[u] = x[3]
  BY AmountsParts
<1> HIDE DEF t, r
<1>2. Total(r, Accounts) = Total(t, Accounts) - t[u] + r[u]
  BY <1>1, AccountsFinite, TotalChanged
<1> QED
  BY <1>1, <1>2 DEF HeldIn, t, r

LEMMA ApplyCovered ==
  ASSUME IInv, Placed, Covered(pool, wallet), NEW c \in Calls, Apply(c)
  PROVE  Covered(pool', wallet')
<1> DEFINE g == group[c]
           p == pool
           u == Owner[c]
           out == Yield(g.op, p, g.in, g.want)
           x == [a \in Holdings |-> wallet[u][a] - g.in[a] + out[a]]
           h == HeldIn(wallet)
           lp == g.in[3]
<1>1. /\ fate[c] = "pending" /\ Executable(c)
      /\ pool' = PoolAfter(g, p)
      /\ wallet' = [wallet EXCEPT ![u] = x]
  BY DEF Apply
<1>2. /\ ValidGroup(g) /\ Feasible(g, p) /\ u \in Accounts
      /\ \A a \in Holdings : wallet[u][a] >= g.in[a]
  BY <1>1, ExecutableIsFeasible
<1>3. out \in Amounts /\ g.in \in Amounts /\ wallet \in [Accounts -> Amounts] /\ p \in Amounts
  BY <1>2 DEF Feasible, ValidGroup, Groups, IInv, TypeOK
<1>4. Priced(g)
  <2>1. pc[c] # "idle"
    BY <1>1 DEF IInv, TypeOK
  <2> QED
    BY <2>1 DEF Placed
<1>5. /\ out[1] \in Nat /\ out[2] \in Nat /\ out[3] \in Nat
      /\ g.in[1] \in Nat /\ g.in[2] \in Nat /\ lp \in Nat
      /\ p[1] \in Nat /\ p[2] \in Nat /\ p[3] \in Nat /\ LockedTokens \in Nat
      /\ wallet[u][3] \in Nat /\ wallet[u][3] >= lp
  BY <1>2, <1>3, AmountsParts, FeeAssumption DEF Holdings
<1>6. x \in Amounts /\ x[3] = wallet[u][3] - lp + out[3]
  <2>1. ASSUME NEW a \in Holdings
        PROVE  wallet[u][a] - g.in[a] + out[a] \in Nat
    <3>1. wallet[u][a] \in Nat /\ g.in[a] \in Nat /\ out[a] \in Nat
      BY <1>2, <1>3 DEF Amounts
    <3> HIDE DEF out
    <3> QED
      BY <1>2, <3>1
  <2> QED
    BY <2>1 DEF Amounts, Holdings
<1> HIDE DEF x
<1>7. h \in Nat /\ wallet[u][3] <= h
  BY <1>2, <1>3, HeldBounds
<1>8. HeldIn(wallet') = h - lp + out[3]
  <2>1. HeldIn(wallet') = h - wallet[u][3] + x[3]
    BY <1>1, <1>2, <1>3, <1>6, HeldAfter
  <2> HIDE DEF h, out, lp
  <2> QED
    BY <1>5, <1>6, <1>7, <2>1
<1> DEFINE q == PoolAfter(g, p)
<1>9. /\ q[1] = p[1] + g.in[1] - out[1]
      /\ q[2] = p[2] + g.in[2] - out[2]
      /\ g.op = "initial" => q[3] = out[3] + LockedTokens
      /\ g.op \in {"remove", "removeSingle"} =>
           q[3] = IF LeavesSomeone(p, lp) THEN p[3] - lp ELSE 0
      /\ g.op \in {"bootstrap", "flexible", "single"} => q[3] = p[3] + out[3]
  BY PoolAfterParts
<1>10. Covered(p, wallet)
  OBVIOUS
<1>11. LeavesSomeone(p, lp) <=> p[3] > lp + LockedTokens
  BY DEF LeavesSomeone, PoolToken
<1>12. pool' = q /\ g.op \in Ops
  BY <1>1, <1>2 DEF ValidGroup, Groups
<1>13. CASE g.op = "bootstrap"
  <2>1. out = Nothing /\ g.in = Nothing
    BY <1>2, <1>13 DEF Yield, ValidGroup
  <2>2. out[1] = 0 /\ out[2] = 0 /\ out[3] = 0 /\ g.in[1] = 0 /\ g.in[2] = 0 /\ lp = 0
    BY <2>1 DEF Nothing, Holdings
  <2> HIDE DEF out, q, lp, p, h
  <2>3. q[1] = p[1] /\ q[2] = p[2] /\ q[3] = p[3] /\ HeldIn(wallet') = h
    BY <1>5, <1>7, <1>8, <1>9, <1>13, <2>2
  <2> QED
    BY <1>10, <1>12, <2>3 DEF Covered, h
<1>14. CASE g.op = "initial"
  <2>1. out = Only(PoolToken, FirstMint(g.in)) /\ out = g.quoted /\ p[3] = 0 /\ lp = 0
    BY <1>2, <1>14 DEF Yield, ValidGroup, Feasible
  <2>2. out[3] > 0
    BY <1>4, <1>14, <2>1 DEF Priced
  <2>3. h = 0
    BY <1>10, <2>1 DEF Covered
  <2> HIDE DEF out, q, lp, p, h
  <2>4. q[3] = HeldIn(wallet') + LockedTokens /\ HeldIn(wallet') > 0 /\ q[3] # 0
    BY <1>5, <1>8, <1>9, <1>14, <2>1, <2>2, <2>3
  <2> QED
    BY <1>12, <2>4 DEF Covered
<1>15. CASE g.op \in {"flexible", "single"}
  <2>1. p[3] > 0 /\ lp = 0
    BY <1>2, <1>15 DEF Feasible, ValidGroup
  <2>2. h > 0 /\ p[3] = h + LockedTokens
    BY <1>10, <2>1 DEF Covered
  <2> HIDE DEF out, q, lp, p, h
  <2>3. q[3] = HeldIn(wallet') + LockedTokens /\ HeldIn(wallet') > 0 /\ q[3] # 0
    BY <1>5, <1>7, <1>8, <1>9, <1>15, <2>1, <2>2
  <2> QED
    BY <1>12, <2>3 DEF Covered
<1>16. CASE g.op \in {"remove", "removeSingle"}
  <2>1. p[3] > 0 /\ g.in[1] = 0 /\ g.in[2] = 0
    BY <1>2, <1>16 DEF Feasible, ValidGroup
  <2>2. h > 0 /\ p[3] = h + LockedTokens
    BY <1>10, <2>1 DEF Covered
  <2>3. out[3] = 0
    <3>1. CASE g.op = "remove"
      BY <3>1 DEF Yield, Burn, Holdings, PoolToken
    <3>2. CASE g.op = "removeSingle"
      <4>1. g.want \in Holdings /\ g.want # 3
        BY <1>2, <3>2 DEF ValidGroup, Assets, Holdings
      <4> QED
        BY <3>2, <4>1 DEF Yield, BurnForOne, Only, Nothing, Holdings
    <3> QED
      BY <1>16, <3>1, <3>2
  <2>4. CASE LeavesSomeone(p, lp)
    <3> HIDE DEF out, q, lp, p, h
    <3>1. q[3] = HeldIn(wallet') + LockedTokens /\ HeldIn(wallet') > 0 /\ q[3] # 0
      BY <1>5, <1>7, <1>8, <1>9, <1>11, <1>16, <2>2, <2>3, <2>4
    <3> QED
      BY <1>12, <3>1 DEF Covered
  <2>5. CASE ~LeavesSomeone(p, lp)
    <3>1. g.op = "remove"
      <4>1. g.op = "removeSingle" => p[Other(g.want)] > 0 /\ g.want \in Assets
        <5>1. g.op = "removeSingle" => g.want \in Assets
          BY <1>2 DEF ValidGroup
        <5>2. Live(p)
          BY <2>1 DEF IInv, SoundPool
        <5> QED
          BY <5>1, <5>2, OtherAsset DEF Live
      <4>2. g.op = "removeSingle" => InternalSwapOut(p, lp, g.want) = -1
        BY <1>3, <1>5, <2>5, <4>1, InternalSwapBounds
      <4>3. g.op = "removeSingle" => InternalSwapOut(p, lp, g.want) >= 0
        BY <1>2 DEF Feasible
      <4> QED
        BY <1>16, <4>2, <4>3
    <3>2. out[1] = p[1] /\ out[2] = p[2]
      <4>1. out = Burn(p, lp)
        BY <3>1 DEF Yield, PoolToken
      <4>2. out[1] = Share(p, lp, 1) /\ out[2] = Share(p, lp, 2)
        BY <4>1 DEF Burn, Holdings, PoolToken
      <4> QED
        BY <2>5, <4>2 DEF Share
    <3> HIDE DEF out, q, lp, p, h
    <3>3. q[1] = 0 /\ q[2] = 0 /\ q[3] = 0 /\ HeldIn(wallet') = 0
      BY <1>5, <1>7, <1>8, <1>9, <1>11, <2>1, <2>2, <2>3, <2>5, <3>1, <3>2
    <3> QED
      BY <1>12, <3>3 DEF Covered
  <2> QED
    BY <2>4, <2>5
<1> QED
  BY <1>12, <1>13, <1>14, <1>15, <1>16 DEF Ops

LEMMA CoveredStep ==
  ASSUME IInv, Placed, Covered(pool, wallet), [Next]_vars
  PROVE  Covered(pool', wallet')
<1>1. ASSUME NEW c \in Calls, Preparing(c)
      PROVE  pool' = pool /\ wallet' = wallet
  BY <1>1 DEF Preparing, PrepareBootstrap, PrepareInitial, PrepareFlexible,
     PrepareSingle, PrepareDeposit, PrepareRemove, PrepareRemoveSingle, Prepare, chainVars
<1>2. ASSUME NEW c \in Calls, Executing(c)
      PROVE  pool' = pool /\ wallet' = wallet
  BY <1>2 DEF Executing, Send, SendFails, ExecuteFails, Report, ReportPool, chainVars
<1>3. ASSUME NEW c \in Calls, Reject(c)
      PROVE  pool' = pool /\ wallet' = wallet
  BY <1>3 DEF Reject
<1>4. ASSUME NEW a \in Assets, NEW amount \in Swaps, OtherSwap(a, amount)
      PROVE  Covered(pool', wallet')
  <2>1. wallet' = wallet /\ pool[3] # 0
    BY <1>4 DEF OtherSwap, Usable, Empty, PoolToken
  <2>2. pool'[3] = pool[3]
    <3>1. Other(a) # 3 /\ a # 3 /\ pool \in Amounts
      BY OtherAsset DEF Assets, IInv, TypeOK
    <3>2. \E n : pool' = [pool EXCEPT ![a] = @ + amount, ![Other(a)] = @ - n]
      BY <1>4 DEF OtherSwap
    <3> QED
      BY <3>1, <3>2 DEF Amounts, Holdings
  <2> QED
    BY <2>1, <2>2 DEF Covered
<1>5. CASE UNCHANGED vars
  BY <1>5 DEF vars, chainVars
<1> QED
  BY <1>1, <1>2, <1>3, <1>4, <1>5, ApplyCovered DEF Next, ChainNext

SInv == IInv /\ Placed /\ NothingStrandedNorTaken

LEMMA StrongInvariantHolds == Spec => []SInv
<1>1. Init => Placed /\ NothingStrandedNorTaken
  BY InitCovered, CoveredIsNothingStranded DEF Init, Placed
<1>2. IInv /\ Placed /\ NothingStrandedNorTaken /\ [Next]_vars
        => Placed' /\ NothingStrandedNorTaken'
  BY PlacedStep, CoveredStep, CoveredIsNothingStranded
<1> QED
  BY <1>1, <1>2, InvariantHolds, PTL DEF Spec, SInv

LEMMA PreparingLeavesChain ==
  ASSUME NEW c \in Calls, Preparing(c)
  PROVE  UNCHANGED chainVars
  BY DEF Preparing, PrepareBootstrap, PrepareInitial, PrepareFlexible,
     PrepareSingle, PrepareDeposit, PrepareRemove, PrepareRemoveSingle, Prepare

LEMMA InternalSwapType ==
  ASSUME NEW p \in Amounts, NEW lp \in Nat, NEW a \in Assets, p[Other(a)] > 0
  PROVE  InternalSwapOut(p, lp, a) \in Int
<1> DEFINE out == InternalSwapOut(p, lp, a)
<1>1. out \in Int /\ -1 <= out
  BY InternalSwapBounds
<1> QED
  BY <1>1

\* A group whose pool is as it was priced is executed, unless it cannot be paid for or
\* is one of the exceptions of RefusedOnlyIfMoved.
LEMMA UnmovedIsExecutable ==
  ASSUME FeeShare <= 5000, SInv, NEW c \in Calls, fate[c] = "pending",
         pool = group[c].seen, group[c].op = "bootstrap" => ~created,
         \A a \in Holdings : wallet[Owner[c]][a] >= group[c].in[a],
         group[c].op = "removeSingle" =>
           InternalSwapOut(pool, group[c].in[PoolToken], group[c].want) >= 0
  PROVE  Executable(c)
<1> DEFINE g == group[c]
           p == pool
           lp == g.in[3]
           u == Owner[c]
           out == Yield(g.op, p, g.in, g.want)
<1>1. pc[c] # "idle"
  BY DEF SInv, IInv, TypeOK
<1>2. ValidGroup(g) /\ Priced(g) /\ (g.op # "bootstrap" => created)
  BY <1>1 DEF SInv, IInv, Ordered, Placed
<1>3. /\ p \in Amounts /\ g.in \in Amounts /\ lp \in Nat
      /\ p[1] \in Nat /\ p[2] \in Nat /\ p[3] \in Nat
      /\ wallet \in [Accounts -> Amounts] /\ u \in Accounts
  BY <1>2, AmountsParts DEF SInv, IInv, TypeOK, ValidGroup, Groups, Accounts
<1>4. g.quoted = out /\ g.op \in Ops
  BY <1>2 DEF Priced, ValidGroup, Groups
<1>5. SUFFICES
        /\ CASE g.op = "bootstrap" -> ~created
             [] g.op = "initial" -> created /\ Empty(pool)
             [] g.op = "removeSingle" -> Usable(pool) /\ InternalSwapOut(p, lp, g.want) >= 0
             [] OTHER -> Usable(pool)
        /\ out \in Amounts
  <2>1. ASSUME out \in Amounts, NEW a \in Holdings
        PROVE  out[a] >= g.min[a]
    <3>1. out[a] >= 0
      BY <2>1 DEF Amounts
    <3> HIDE DEF out
    <3> QED
      BY <1>2, <1>4, <3>1 DEF Priced
  <2> HIDE DEF out
  <2> QED
    BY <2>1 DEF Executable, out, PoolToken
<1>6. CASE g.op = "bootstrap"
  BY <1>6, OnlyType DEF Yield, Nothing, Amounts
<1>7. CASE g.op = "initial"
  <2>1. created /\ Empty(pool) /\ g.quoted[3] > 0
    BY <1>2, <1>7 DEF Empty, PoolToken, Priced
  <2>2. FirstMint(g.in) \in Int /\ out = Only(PoolToken, FirstMint(g.in))
    BY <1>2, <1>3, <1>7, AmountsParts, FirstMintType DEF Yield
  <2>3. out[3] = FirstMint(g.in)
    BY <2>2, PoolTokensOnly
  <2>4. FirstMint(g.in) >= 0
    BY <1>4, <2>1, <2>2, <2>3
  <2>5. out \in Amounts
    BY <2>2, <2>4, OnlyType DEF PoolToken, Holdings
  <2> QED
    BY <1>7, <2>1, <2>5
<1>8. CASE g.op \in {"flexible", "single"}
  <2>1. p[3] > 0 /\ created
    BY <1>2, <1>8 DEF Priced
  <2>2. Usable(pool)
    BY <1>3, <2>1 DEF Usable, Empty, PoolToken
  <2>3. Mint(p, g.in) \in Nat
    BY <1>3, <2>1, MintNotNegative DEF SInv, IInv, SoundPool
  <2>4. out = Only(PoolToken, Mint(p, g.in))
    BY <1>8 DEF Yield
  <2>5. out \in Amounts
    BY <2>3, <2>4, OnlyType DEF PoolToken, Holdings
  <2> QED
    BY <1>8, <2>2, <2>5
<1>9. CASE g.op = "remove"
  <2>1. lp > 0 /\ created
    BY <1>2, <1>9 DEF Priced
  <2>2. Usable(pool)
    <3>1. wallet[u][3] >= lp
      BY DEF Holdings
    <3>2. p[3] = 0 => HeldIn(wallet) = 0
      BY CoveredIsNothingStranded DEF SInv, Covered
    <3>3. HeldIn(wallet) \in Nat /\ wallet[u][3] \in Nat /\ wallet[u][3] <= HeldIn(wallet)
      BY <1>3, HeldBounds
    <3>4. p[3] # 0
      BY <1>3, <2>1, <3>1, <3>2, <3>3
    <3> QED
      BY <2>1, <3>4 DEF Usable, Empty, PoolToken
  <2>3. out = Burn(p, lp)
    BY <1>9 DEF Yield, PoolToken
  <2>4. \A a \in Assets : Share(p, lp, a) \in Nat
    BY <1>3, ShareBounds
  <2>5. out \in Amounts
    BY <2>3, <2>4 DEF Burn, Amounts, Holdings, Assets, PoolToken
  <2> QED
    BY <1>9, <2>2, <2>5
<1>10. CASE g.op = "removeSingle"
  <2> DEFINE swapped == InternalSwapOut(p, lp, g.want)
             n == Share(p, lp, g.want) + swapped
  <2>1. /\ g.want \in Assets /\ p[Other(g.want)] > 0 /\ created
    BY <1>2, <1>10 DEF Priced, ValidGroup
  <2>2. swapped \in Int /\ swapped >= 0 /\ Share(p, lp, g.want) \in Nat
    <3>1. swapped >= 0
      BY <1>10 DEF PoolToken
    <3>2. Share(p, lp, g.want) \in Nat
      BY <1>3, <2>1, ShareBounds
    <3> DEFINE a == g.want
    <3>3. a \in Assets /\ p[Other(a)] > 0
      BY <2>1
    <3> HIDE DEF lp, a, p
    <3>4. InternalSwapOut(p, lp, a) \in Int
      BY <1>3, <3>3, InternalSwapType
    <3> QED
      BY <3>1, <3>2, <3>4 DEF a
  <2>3. Usable(pool)
    <3>1. p[3] # 0
      BY <2>1, OtherAsset, CoveredIsNothingStranded DEF SInv, Covered
    <3> QED
      BY <2>1, <3>1 DEF Usable, Empty, PoolToken
  <2>4. out = Only(g.want, n)
    BY <1>10 DEF Yield, BurnForOne, PoolToken
  <2>5. n \in Nat
    BY <2>2
  <2> HIDE DEF n, swapped
  <2>6. out \in Amounts
    BY <2>1, <2>4, <2>5, OnlyType DEF Assets, Holdings
  <2> QED
    BY <1>10, <2>2, <2>3, <2>6 DEF swapped
<1> QED
  BY <1>4, <1>6, <1>7, <1>8, <1>9, <1>10 DEF Ops
-----------------------------------------------------------------------------
(* The theorems.                                                            *)

(***************************************************************************)
(* No reserve, wallet or amount of a group is ever negative, so every      *)
(* group generateTxns builds can be encoded.                               *)
(***************************************************************************)
THEOREM TypeCorrect == Spec => []TypeOK
<1>1. IInv => TypeOK
  BY DEF IInv
<1> QED
  BY <1>1, InvariantHolds, PTL

(***************************************************************************)
(* Of any number of deposits, withdrawals and swaps, in any order and      *)
(* priced from any earlier reserves, none makes the product of the         *)
(* reserves per square of the issued tokens fall: the truncations and the  *)
(* fees of the quotes all go the pool's way.                               *)
(***************************************************************************)
THEOREM ShareValueKept == Spec => ShareValueNeverFalls
<1> DEFINE A == ~Empty(pool) /\ pool'[PoolToken] > 0 =>
                  pool'[1] * pool'[2] * pool[PoolToken] * pool[PoolToken]
                    >= pool[1] * pool[2] * pool'[PoolToken] * pool'[PoolToken]
<1>1. IInv /\ [Next]_vars => [A]_pool
  <2> SUFFICES ASSUME IInv, [Next]_vars, pool' # pool, ~Empty(pool), pool'[PoolToken] > 0
               PROVE  NoLess(pool', pool)
    BY DEF NoLess, PoolToken
  <2>1. SoundAfter(pool', pool)
    BY StepIsSound
  <2>2. pool[3] > 0
    BY AmountsParts DEF Empty, PoolToken, IInv, TypeOK
  <2> QED
    BY <2>1, <2>2 DEF SoundAfter, PoolToken
<1> QED
  BY <1>1, InvariantHolds, PTL DEF Spec, ShareValueNeverFalls

(***************************************************************************)
(* A first deposit brings what was quoted; every other operation no less   *)
(* than the quote and the tolerance allow, whatever moved the pool first.  *)
(***************************************************************************)
THEOREM AllWithinTolerance == Spec => []ExecutedWithinTolerance
<1>1. IInv => ExecutedWithinTolerance
  <2> SUFFICES ASSUME IInv, NEW c \in Calls, fate[c] = "applied",
                      group[c].op # "initial", NEW a \in Holdings
               PROVE  100 * got[c][a] >= group[c].quoted[a] * (100 - group[c].slippage) - 100
    BY DEF ExecutedWithinTolerance, IInv, Honoured
  <2> DEFINE g == group[c]
             low == g.quoted[a] * (100 - g.slippage)
  <2>1. ValidGroup(g) /\ got[c] \in Amounts
    BY DEF IInv, TypeOK, Ordered
  <2>2. /\ g.min[a] \in Nat /\ g.quoted[a] \in Int /\ g.slippage \in Nat
        /\ got[c][a] \in Nat /\ got[c][a] >= g.min[a]
    BY <2>1 DEF ValidGroup, Groups, Amounts, IInv, Honoured
  <2>3. 100 * g.min[a] >= low - 100
    BY <2>1 DEF ValidGroup
  <2>4. low \in Int
    BY <2>2, Z3
  <2> HIDE DEF low, g
  <2> QED
    BY <2>2, <2>3, <2>4 DEF low, g
<1> QED
  BY <1>1, InvariantHolds, PTL

(***************************************************************************)
(* Of any deposits and withdrawals, in any order, what is issued stays     *)
(* what the accounts hold and the locked tokens: the pool is empty exactly *)
(* when nobody holds anything of it.                                       *)
(***************************************************************************)
THEOREM NothingStranded == Spec => []NothingStrandedNorTaken
<1>1. SInv => NothingStrandedNorTaken
  BY DEF SInv
<1> QED
  BY <1>1, StrongInvariantHolds, PTL

(***************************************************************************)
(* A group whose pool nobody has moved since it was priced, and that can   *)
(* be paid for, is executed: the arithmetic of the quote is that of the    *)
(* pool, the bounds are no higher than the quote, and the quote is not     *)
(* negative.  The last needs a fee share of at most a half.                *)
(***************************************************************************)
THEOREM RefusedForAReason ==
  ASSUME FeeShare <= 5000
  PROVE  Spec => RefusedOnlyIfMoved
<1> DEFINE A == \A c \in Calls : fate[c] = "pending" /\ fate'[c] = "refused" =>
       LET g == group[c]
       IN  \/ pool # g.seen
           \/ g.op = "bootstrap" /\ created
           \/ \E a \in Holdings : wallet[Owner[c]][a] < g.in[a]
           \/ /\ g.op = "removeSingle"
              /\ InternalSwapOut(g.seen, g.in[PoolToken], g.want) < 0
<1>1. SInv /\ [Next]_vars => [A]_fate
  <2> SUFFICES ASSUME SInv, [Next]_vars, fate' # fate, NEW c \in Calls,
                      fate[c] = "pending", fate'[c] = "refused",
                      pool = group[c].seen, ~(group[c].op = "bootstrap" /\ created),
                      ~ \E a \in Holdings : wallet[Owner[c]][a] < group[c].in[a],
                      ~ /\ group[c].op = "removeSingle"
                        /\ InternalSwapOut(group[c].seen, group[c].in[PoolToken],
                                           group[c].want) < 0
               PROVE  FALSE
    OBVIOUS
  <2>1. Reject(c)
    <3>1. ~UNCHANGED vars
      BY DEF vars, chainVars
    <3>2. ASSUME NEW d \in Calls, Preparing(d)
          PROVE  FALSE
      BY <3>2, PreparingLeavesChain DEF chainVars
    <3>3. ASSUME NEW d \in Calls, Executing(d)
          PROVE  FALSE
      <4>1. \/ fate' = fate \/ fate' = [fate EXCEPT ![d] = "pending"]
        BY <3>3 DEF Executing, Send, SendFails, ExecuteFails, Report, ReportPool, chainVars
      <4> QED
        BY <4>1 DEF SInv, IInv, Functional
    <3>4. ASSUME NEW d \in Calls, Apply(d)
          PROVE  FALSE
      <4>1. fate' = [fate EXCEPT ![d] = "applied"]
        BY <3>4 DEF Apply
      <4> QED
        BY <4>1 DEF SInv, IInv, Functional
    <3>5. ASSUME NEW a \in Assets, NEW amount \in Swaps, OtherSwap(a, amount)
          PROVE  FALSE
      BY <3>5 DEF OtherSwap
    <3>6. PICK d \in Calls : Reject(d)
      BY <3>1, <3>2, <3>3, <3>4, <3>5 DEF Next, ChainNext
    <3>7. fate' = [fate EXCEPT ![d] = "refused"]
      BY <3>6 DEF Reject
    <3>8. d = c
      BY <3>7 DEF SInv, IInv, Functional
    <3> QED
      BY <3>6, <3>8
  <2> DEFINE g == group[c]
             u == Owner[c]
  <2>2. \A a \in Holdings : wallet[u][a] \in Nat /\ g.in[a] \in Nat
    <3>1. pc[c] # "idle" /\ u \in Accounts
      BY DEF SInv, IInv, TypeOK, Accounts
    <3> QED
      BY <3>1 DEF SInv, IInv, TypeOK, Groups, Amounts
  <2>3. \A a \in Holdings : wallet[u][a] >= g.in[a]
    BY <2>2
  <2>4. g.op = "removeSingle" => InternalSwapOut(pool, g.in[PoolToken], g.want) \in Int
    <3> SUFFICES ASSUME g.op = "removeSingle"
                 PROVE  InternalSwapOut(pool, g.in[PoolToken], g.want) \in Int
      OBVIOUS
    <3>1. pc[c] # "idle"
      BY DEF SInv, IInv, TypeOK
    <3>2. g.want \in Assets /\ g.in[3] \in Nat /\ pool[Other(g.want)] > 0
      BY <3>1, <2>2 DEF SInv, IInv, Ordered, ValidGroup, Placed, Priced, Holdings
    <3>3. pool \in Amounts
      BY DEF SInv, IInv, TypeOK
    <3> DEFINE a == g.want
               lp == g.in[3]
    <3>4. a \in Assets /\ lp \in Nat /\ pool[Other(a)] > 0
      BY <3>2
    <3> HIDE DEF a, lp
    <3>5. InternalSwapOut(pool, lp, a) \in Int
      BY <3>3, <3>4, InternalSwapType
    <3> QED
      BY <3>5 DEF a, lp, PoolToken
  <2>5. g.op = "removeSingle" => InternalSwapOut(pool, g.in[PoolToken], g.want) >= 0
    BY <2>4
  <2> QED
    BY <2>1, <2>3, <2>5, UnmovedIsExecutable DEF Reject
<1> QED
  BY <1>1, StrongInvariantHolds, PTL DEF Spec, RefusedOnlyIfMoved
=============================================================================
