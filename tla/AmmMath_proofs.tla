--------------------------- MODULE AmmMath_proofs ---------------------------
(***************************************************************************)
(* What the SDK's arithmetic guarantees for every reserve, amount and fee: *)
(* of a v2 swap, the two bounds on the constant product and the signs of   *)
(* the fees; that slippage moves an amount the way the user chose, by no   *)
(* more than what was chosen and the rounding; and that the quotes of a    *)
(* v1.1 pool are natural numbers.  And, for the modules that add amounts   *)
(* up, what a sum over a finite set does when the set or a value changes.  *)
(***************************************************************************)
EXTENDS AmmMath, TLAPS, WellFoundedInduction, FiniteSetTheorems

\* What a quotient is, in the form every lemma below uses it.
LEMMA DivBound ==
  ASSUME NEW n \in Nat, NEW d \in Nat \ {0}
  PROVE  /\ n \div d \in Nat
         /\ d * (n \div d) <= n
         /\ n < d * (n \div d) + d
  BY Z3

\* A product is monotonic in each factor (the provers need it spelled out).
LEMMA ProductMonotonic ==
  ASSUME NEW a \in Nat, NEW b \in Nat, NEW c \in Nat, a <= b
  PROVE  /\ a * c <= b * c
         /\ a * c \in Nat
  BY Z3

(***************************************************************************)
(* Fixed input (calculateFixedInputSwap's output): the output never        *)
(* empties the pool, is negative only for an empty one, and leaves the     *)
(* product of the reserves, the fee left aside, strictly larger.           *)
(***************************************************************************)
LEMMA FixedInputKeepsProduct ==
  ASSUME NEW inS \in Nat, NEW outS \in Nat, NEW x \in Nat \ {0}
  PROVE  /\ OutputOfFixedInput(inS, outS, x) \in Int
         /\ OutputOfFixedInput(inS, outS, x) <= outS - 1
         /\ outS > 0 => OutputOfFixedInput(inS, outS, x) >= 0
         /\ outS = 0 => OutputOfFixedInput(inS, outS, x) = -1
         /\ (inS + x) * (outS - OutputOfFixedInput(inS, outS, x)) > inS * outS
<1> DEFINE q == (inS * outS) \div (inS + x)
<1>1. inS * outS \in Nat /\ inS + x \in Nat \ {0} /\ x * outS \in Nat
  BY ProductMonotonic
<1>2. /\ q \in Nat
      /\ (inS + x) * q <= inS * outS
      /\ inS * outS < (inS + x) * q + (inS + x)
  BY <1>1, DivBound
<1>3. OutputOfFixedInput(inS, outS, x) = outS - q - 1
  BY DEF OutputOfFixedInput
<1> HIDE DEF q
<1>4. outS > 0 => q < outS
  <2> SUFFICES ASSUME outS > 0, q >= outS  PROVE FALSE
    BY <1>2
  <2>1. outS * (inS + x) <= q * (inS + x)
    BY <1>1, <1>2, ProductMonotonic
  <2>2. outS * (inS + x) = inS * outS + x * outS
    BY Z3
  <2>3. x * outS > 0
    BY Z3
  <2>4. q * (inS + x) = (inS + x) * q
    BY <1>2, Z3
  <2> QED
    BY <1>1, <1>2, <2>1, <2>2, <2>3, <2>4
<1>5. outS = 0 => q = 0
  <2> SUFFICES ASSUME outS = 0, q >= 1  PROVE FALSE
    BY <1>2
  <2>1. 1 * (inS + x) <= q * (inS + x)
    BY <1>1, <1>2, ProductMonotonic
  <2>2. inS * outS = 0 /\ q * (inS + x) = (inS + x) * q
    BY <1>2, Z3
  <2> QED
    BY <1>1, <1>2, <2>1, <2>2
<1>6. (inS + x) * (q + 1) = (inS + x) * q + (inS + x)
  BY <1>2, Z3
<1>7. outS - (outS - q - 1) = q + 1
  BY <1>2
<1> QED
  BY <1>1, <1>2, <1>3, <1>4, <1>5, <1>6, <1>7

(***************************************************************************)
(* Fixed output (calculateFixedOutputSwap's swap amount): short of the     *)
(* whole supply, the input before the fee is positive and makes the        *)
(* product of the reserves strictly larger.                                *)
(***************************************************************************)
LEMMA FixedOutputKeepsProduct ==
  ASSUME NEW inS \in Nat, NEW outS \in Nat, NEW out \in Nat, out < outS
  PROVE  /\ SwapAmountOfFixedOutput(inS, outS, out) \in Nat \ {0}
         /\ (inS + SwapAmountOfFixedOutput(inS, outS, out)) * (outS - out)
              > inS * outS
<1> DEFINE d == outS - out
           q == (inS * outS) \div d
<1>1. inS * outS \in Nat /\ d \in Nat \ {0}
  BY ProductMonotonic
<1>2. q \in Nat /\ d * q <= inS * outS /\ inS * outS < d * q + d
  BY <1>1, DivBound
<1>3. SwapAmountOfFixedOutput(inS, outS, out) = q - inS + 1
  BY DEF SwapAmountOfFixedOutput
<1>4. d <= outS
  OBVIOUS
<1>5. outS - out = d
  OBVIOUS
<1> HIDE DEF q, d
<1>6. q >= inS
  <2> SUFFICES ASSUME q + 1 <= inS  PROVE FALSE
    BY <1>2
  <2>1. (q + 1) * d <= inS * d
    BY <1>1, <1>2, ProductMonotonic
  <2>2. d * inS <= outS * inS
    BY <1>1, <1>4, ProductMonotonic
  <2>3. /\ (q + 1) * d = d * q + d
        /\ d * inS = inS * d
        /\ outS * inS = inS * outS
    BY <1>1, <1>2, Z3
  <2>4. d * q \in Nat /\ inS * d \in Nat
    BY <1>1, <1>2, Z3
  <2> QED
    BY <1>1, <1>2, <2>1, <2>2, <2>3, <2>4
<1>7. (q + 1) * d = d * q + d
  BY <1>1, <1>2, Z3
<1>8. inS + (q - inS + 1) = q + 1
  BY <1>2
<1> QED
  BY <1>2, <1>3, <1>5, <1>6, <1>7, <1>8

(***************************************************************************)
(* The fees: the total fee of a positive input leaves some of it to swap,  *)
(* and the fee a fixed output adds is never negative.                      *)
(***************************************************************************)
LEMMA FixedInputFeeBounds ==
  ASSUME NEW input \in Nat \ {0}, NEW feeShare \in Nat, feeShare < 10000
  PROVE  FixedInputFee(input, feeShare) \in 0 .. input - 1
<1> DEFINE n == input * feeShare
           f == n \div 10000
<1>1. n \in Nat /\ n <= 9999 * input
  <2>1. feeShare * input \in Nat /\ feeShare * input <= 9999 * input
    BY ProductMonotonic
  <2>2. n = feeShare * input
    BY Z3
  <2> QED
    BY <2>1, <2>2
<1>2. FixedInputFee(input, feeShare) = f
  BY DEF FixedInputFee
<1> HIDE DEF n
<1>3. f \in Nat /\ 10000 * f <= n
  BY <1>1
<1> HIDE DEF f
<1> QED
  BY <1>1, <1>2, <1>3

LEMMA FixedOutputFeeBounds ==
  ASSUME NEW swapAmount \in Nat, NEW feeShare \in Nat, feeShare < 10000
  PROVE  FixedOutputFee(swapAmount, feeShare) \in Nat
<1> DEFINE d == 10000 - feeShare
           n == swapAmount * 10000
           q == n \div d
<1>1. n \in Nat /\ d \in Nat \ {0} /\ d <= 10000
  OBVIOUS
<1>2. FixedOutputFee(swapAmount, feeShare) = q - swapAmount
  BY DEF FixedOutputFee
<1>3. n = swapAmount * 10000
  OBVIOUS
<1> HIDE DEF d, n
<1>4. q \in Nat /\ n < d * q + d
  BY <1>1, DivBound
<1> HIDE DEF q
<1>5. q >= swapAmount
  <2> SUFFICES ASSUME q + 1 <= swapAmount  PROVE FALSE
    BY <1>4
  <2>1. d * (q + 1) <= 10000 * (q + 1)
    BY <1>1, <1>4, ProductMonotonic
  <2>2. d * (q + 1) = d * q + d
    BY <1>1, <1>4, Z3
  <2>3. d * q \in Nat
    BY <1>1, <1>4, ProductMonotonic
  <2> QED
    BY <1>1, <1>3, <1>4, <2>1, <2>2, <2>3
<1> QED
  BY <1>2, <1>4, <1>5

(***************************************************************************)
(* applySlippageToAmount with "negative", the bound of a fixed input: no   *)
(* more than the quoted amount, and less than it only by the slippage and  *)
(* one unit.                                                               *)
(***************************************************************************)
LEMMA NegativeSlippage ==
  ASSUME NEW percent \in Nat, percent <= 100, NEW amount \in Int,
         NEW bounded \in SlippageAmounts("negative", percent, amount)
  PROVE  /\ bounded \in Int
         /\ amount \in Nat => bounded \in Nat /\ bounded <= amount
         /\ 100 * bounded >= amount * (100 - percent) - 100
<1> DEFINE f == 100 - percent
           product == amount * f
           exact == product \div 100
<1>1. /\ bounded \in {exact, exact - 1}
      /\ bounded = exact - 1 => product % 100 = 0 /\ product > 0
  BY DEF SlippageAmounts, SlippageFactor
<1>2. f \in Nat /\ f <= 100
  OBVIOUS
<1>3. product = amount * (100 - percent)
  OBVIOUS
<1>4. product \in Int /\ (amount \in Nat => product \in Nat /\ product <= 100 * amount)
  <2>1. product \in Int
    BY <1>2, Z3
  <2>2. ASSUME amount \in Nat
        PROVE  product \in Nat /\ product <= 100 * amount
    <3>1. f * amount <= 100 * amount /\ f * amount \in Nat
      BY <1>2, <2>2, ProductMonotonic
    <3>2. product = f * amount
      BY <1>2, <2>2, Z3
    <3> QED
      BY <2>2, <3>1, <3>2
  <2> QED
    BY <2>1, <2>2
<1> HIDE DEF f, product
<1>5. /\ exact \in Int /\ 100 * exact <= product /\ product <= 100 * exact + 99
      /\ product % 100 = 0 => product = 100 * exact
  BY <1>4
<1> HIDE DEF exact
<1> QED
  BY <1>1, <1>3, <1>4, <1>5

(***************************************************************************)
(* applySlippageToAmount with "positive", what a fixed output sends: at    *)
(* least the quoted amount, whichever way the factor was rounded, and no   *)
(* more than the slippage above it.                                        *)
(***************************************************************************)
LEMMA PositiveSlippage ==
  ASSUME NEW percent \in Nat, percent <= 100, NEW amount \in Nat,
         NEW sent \in SlippageAmounts("positive", percent, amount)
  PROVE  /\ sent \in Nat
         /\ amount <= sent
         /\ 100 * sent <= amount * (100 + percent)
<1> DEFINE product == amount * (100 + percent)
           exact == product \div 100
<1>1. /\ sent \in {exact, exact - 1}
      /\ sent = exact - 1 => product % 100 = 0 /\ percent # 0 /\ product > 0
  BY DEF SlippageAmounts, SlippageFactor
<1>2. amount * percent \in Nat /\ product = 100 * amount + amount * percent
  BY ProductMonotonic, Z3
<1>3. amount > 0 /\ percent # 0 => amount * percent > 0
  BY Z3
<1>4. product = amount * (100 + percent)
  OBVIOUS
<1> HIDE DEF product
<1>5. /\ exact \in Int /\ 100 * exact <= product /\ product <= 100 * exact + 99
      /\ product % 100 = 0 => product = 100 * exact
  BY <1>2
<1> HIDE DEF exact
<1>6. amount = 0 => product = 0
  BY <1>4
<1> QED
  BY <1>1, <1>2, <1>3, <1>4, <1>5, <1>6
-----------------------------------------------------------------------------
(* The v1.1 arithmetic.                                                     *)

LEMMA V11FixedInputType ==
  ASSUME NEW inS \in Nat, NEW outS \in Nat, NEW in \in Nat \ {0}
  PROVE  V11FixedInputOut(inS, outS, in) \in Nat /\ V11FixedInputOut(inS, outS, in) <= outS
<1> DEFINE fee == (in * 3) \div 1000
           d == inS + (in - fee)
           q == (inS * outS) \div d
<1>1. fee \in Nat /\ 1000 * fee <= in * 3
  BY DivBound
<1>2. d \in Nat \ {0} /\ inS <= d
  BY <1>1
<1>3. inS * outS \in Nat
  BY ProductMonotonic
<1> HIDE DEF d
<1>4. q \in Nat /\ d * q <= inS * outS
  BY <1>2, <1>3, DivBound
<1> HIDE DEF q
<1>5. q <= outS
  <2> SUFFICES ASSUME outS + 1 <= q  PROVE FALSE
    BY <1>4
  <2>1. inS * outS <= d * outS /\ (outS + 1) * d <= q * d
    BY <1>2, <1>4, ProductMonotonic
  <2>2. (outS + 1) * d = d * outS + d /\ q * d = d * q /\ d * outS \in Int
    BY <1>2, <1>4, Z3
  <2> QED
    BY <1>2, <1>3, <1>4, <2>1, <2>2
<1> QED
  BY <1>4, <1>5 DEF V11FixedInputOut, q, d

LEMMA V11FixedOutputType ==
  ASSUME NEW inS \in Nat, NEW outS \in Nat, NEW out \in Nat, out < outS
  PROVE  V11FixedOutputIn(inS, outS, out) \in Nat
<1> DEFINE d == outS - out
           n == inS * outS
           q == n \div d
<1>1. d \in Nat \ {0} /\ n \in Nat
  BY ProductMonotonic
<1>2. d * inS <= n
  <2>1. d * inS <= outS * inS
    BY <1>1, ProductMonotonic
  <2>2. outS * inS = n
    BY Z3
  <2> QED
    BY <2>1, <2>2
<1> HIDE DEF n
<1>3. q \in Nat /\ n < d * q + d
  BY <1>1, DivBound
<1> HIDE DEF d, q
<1>4. q >= inS
  <2> SUFFICES ASSUME q + 1 <= inS  PROVE FALSE
    BY <1>3
  <2>1. (q + 1) * d <= inS * d
    BY <1>1, <1>3, ProductMonotonic
  <2>2. (q + 1) * d = d * q + d /\ inS * d = d * inS
    BY <1>1, <1>3, Z3
  <2>3. d * q \in Int /\ d * inS \in Int
    BY <1>1, <1>3, Z3
  <2> QED
    BY <1>1, <1>2, <1>3, <2>1, <2>2, <2>3
<1>5. ((q - inS) * 1000) \div 997 \in Nat
  <2>1. (q - inS) * 1000 \in Nat
    BY <1>3, <1>4
  <2> QED
    BY <2>1, DivBound
<1> QED
  BY <1>5 DEF V11FixedOutputIn, n, d, q

\* The least element of a set of natural numbers.
LEMMA LeastElement ==
  ASSUME NEW T, T \subseteq Nat, T # {}
  PROVE  \E m \in T : \A k \in T : m <= k
<1> DEFINE R == OpToRel(<, Nat)
<1>1. \E m \in T : \A k \in T : ~(<<k, m>> \in R)
  BY NatLessThanWellFounded, WFMin
<1>2. \A k, m \in Nat : k < m => <<k, m>> \in R
  BY DEF OpToRel
<1> HIDE DEF R
<1>3. PICK m \in T : \A k \in T : ~(<<k, m>> \in R)
  BY <1>1
<1>4. ASSUME NEW k \in T
      PROVE  m <= k
  <2>1. k \in Nat /\ m \in Nat /\ ~(k < m)
    BY <1>2, <1>3
  <2> QED
    BY <2>1
<1> QED
  BY <1>4

LEMMA V11BurnType ==
  ASSUME NEW p \in [1 .. 3 -> Nat], NEW lp \in Nat
  PROVE  V11BurnOut(p, lp) \in [1 .. 3 -> Nat] /\ V11BurnOut(p, lp)[3] = 0
<1>1. ASSUME NEW a \in 1 .. 3, p[3] # 0
      PROVE  (lp * p[a]) \div p[3] \in Nat
  <2>1. lp \in Nat /\ p[a] \in Nat /\ p[3] \in Nat \ {0}
    BY <1>1
  <2>2. lp * p[a] \in Nat
    BY <2>1, ProductMonotonic
  <2> QED
    BY <2>1, <2>2, DivBound
<1> QED
  BY <1>1 DEF V11BurnOut

\* No more is due for pool tokens that were issued than there is.
LEMMA V11BurnAtMost ==
  ASSUME NEW p \in [1 .. 3 -> Nat], NEW lp \in Nat, lp <= p[3]
  PROVE  \A a \in 1 .. 3 : V11BurnOut(p, lp)[a] <= p[a]
<1> SUFFICES ASSUME NEW a \in 1 .. 3, a # 3, p[3] # 0
             PROVE  (lp * p[a]) \div p[3] <= p[a]
  BY DEF V11BurnOut
<1> DEFINE m == p[a]
           d == p[3]
           q == (lp * m) \div d
<1>1. m \in Nat /\ d \in Nat \ {0} /\ lp <= d
  OBVIOUS
<1> HIDE DEF m, d
<1>2. lp * m \in Nat /\ lp * m <= d * m
  BY <1>1, ProductMonotonic
<1>3. q \in Nat /\ d * q <= lp * m
  BY <1>1, <1>2, DivBound
<1> HIDE DEF q
<1>4. q <= m
  <2> SUFFICES ASSUME m + 1 <= q  PROVE FALSE
    BY <1>1, <1>3
  <2>1. (m + 1) * d <= q * d
    BY <1>1, <1>3, ProductMonotonic
  <2>2. (m + 1) * d = d * m + d /\ q * d = d * q /\ d * m \in Int
    BY <1>1, <1>3, Z3
  <2> QED
    BY <1>1, <1>2, <1>3, <2>1, <2>2
<1> QED
  BY <1>4 DEF q, m, d

(***************************************************************************)
(* The integer square root of a first deposit exists: GeometricMean is the *)
(* largest number whose square fits into the product.                      *)
(***************************************************************************)
LEMMA GeometricMeanType ==
  ASSUME NEW m \in Nat, NEW n \in Nat
  PROVE  /\ GeometricMean(m, n) \in Nat
         /\ GeometricMean(m, n) * GeometricMean(m, n) <= m * n
         /\ m * n < (GeometricMean(m, n) + 1) * (GeometricMean(m, n) + 1)
<1> DEFINE T == {r \in Nat : m * n < (r + 1) * (r + 1)}
<1>1. m * n \in Nat /\ m + n \in Nat
  BY ProductMonotonic
<1>2. m + n \in T
  BY <1>1, Z3
<1>3. PICK r \in T : \A k \in T : r <= k
  BY <1>2, LeastElement
<1>4. r \in Nat /\ r <= m + n /\ m * n < (r + 1) * (r + 1)
  BY <1>2, <1>3
<1>5. r * r <= m * n
  <2>1. CASE r = 0
    BY <1>1, <2>1
  <2>2. CASE r > 0
    <3>1. r - 1 \in Nat /\ r - 1 \notin T
      BY <1>3, <1>4, <2>2
    <3>2. ~(m * n < (r - 1 + 1) * (r - 1 + 1))
      BY <3>1
    <3>3. r - 1 + 1 = r /\ r * r \in Int
      BY <1>4, Z3
    <3> QED
      BY <1>1, <3>2, <3>3
  <2> QED
    BY <1>4, <2>1, <2>2
<1>6. LowerOf(m, n) <= r
  <2> SUFFICES ASSUME r + 1 <= LowerOf(m, n)  PROVE FALSE
    BY <1>4 DEF LowerOf
  <2>1. r + 1 <= m /\ r + 1 <= n
    BY <1>4 DEF LowerOf
  <2>2. (r + 1) * (r + 1) <= m * (r + 1) /\ (r + 1) * m <= n * m
    BY <1>4, <2>1, ProductMonotonic
  <2>3. /\ m * (r + 1) = (r + 1) * m /\ n * m = m * n
        /\ (r + 1) * (r + 1) \in Int /\ m * (r + 1) \in Int
    BY <1>4, Z3
  <2> QED
    BY <1>1, <1>4, <2>2, <2>3
<1>7. r \in LowerOf(m, n) .. (m + n)
  BY <1>4, <1>6 DEF LowerOf
<1>8. \E x \in LowerOf(m, n) .. (m + n) :
        x * x <= m * n /\ m * n < (x + 1) * (x + 1)
  BY <1>4, <1>5, <1>7
<1> DEFINE g == GeometricMean(m, n)
<1>9. g \in LowerOf(m, n) .. (m + n) /\ g * g <= m * n /\ m * n < (g + 1) * (g + 1)
  BY <1>8 DEF GeometricMean
<1> QED
  BY <1>9 DEF LowerOf

\* A deposit's quote, when getQuote does not throw.
LEMMA V11MintType ==
  ASSUME NEW p \in [1 .. 3 -> Nat], NEW in \in [1 .. 3 -> Nat],
         IF p[3] = 0 THEN V11MintOut(p, in) > 0 ELSE p[1] > 0 /\ p[2] > 0
  PROVE  V11MintOut(p, in) \in Nat
<1>1. CASE p[3] = 0
  <2>1. GeometricMean(in[1], in[2]) \in Nat
    <3>1. in[1] \in Nat /\ in[2] \in Nat
      OBVIOUS
    <3> QED
      BY <3>1, GeometricMeanType
  <2>2. V11MintOut(p, in) = GeometricMean(in[1], in[2]) - 1000
    BY <1>1 DEF V11MintOut
  <2> QED
    BY <1>1, <2>1, <2>2
<1>2. CASE p[3] # 0
  <2>1. /\ in[1] \in Nat /\ in[2] \in Nat /\ p[3] \in Nat
        /\ p[1] \in Nat \ {0} /\ p[2] \in Nat \ {0}
    BY <1>2
  <2>2. in[1] * p[3] \in Nat /\ in[2] * p[3] \in Nat
    BY <2>1, ProductMonotonic
  <2>3. (in[1] * p[3]) \div p[1] \in Nat /\ (in[2] * p[3]) \div p[2] \in Nat
    BY <2>1, <2>2, DivBound
  <2> QED
    BY <1>2, <2>3 DEF V11MintOut, LowerOf
<1> QED
  BY <1>1, <1>2
-----------------------------------------------------------------------------
(***************************************************************************)
(* Sums over finite sets.  MapThenSumSet adds up the values of an operator *)
(* by choosing one element after the other; Total(w, S) is the same sum of *)
(* the values of a function, which the lemmas below are about.  Each is    *)
(* proved on the smallest subset it would fail for.                        *)
(***************************************************************************)

\* A non-empty collection of subsets of a finite set has one that contains no other.
LEMMA SmallestSubset ==
  ASSUME NEW S, IsFiniteSet(S), NEW B, B \subseteq SUBSET S, B # {}
  PROVE  \E T \in B : \A U \in B : U \subseteq T => U = T
<1> DEFINE R == StrictSubsetOrdering(S)
<1>1. IsWellFoundedOn(R, SUBSET S)
  BY FS_StrictSubsetOrderingWellFounded, FS_FiniteSubsetsOfFinite
<1>2. \A U, T \in SUBSET S : U \subseteq T /\ U # T => <<U, T>> \in R
  BY DEF StrictSubsetOrdering
<1> HIDE DEF R
<1>3. PICK T \in B : \A U \in B : ~(<<U, T>> \in R)
  BY <1>1, WFMin
<1> QED
  BY <1>2, <1>3

Pick(s) == CHOOSE x \in s : TRUE
Sums(f, w, S) == f = [s \in SUBSET S |-> IF s = {} THEN 0 ELSE w[Pick(s)] + f[s \ {Pick(s)}]]

LEMMA PickIn == \A s : s # {} => Pick(s) \in s
  BY DEF Pick

LEMMA SumsAt ==
  ASSUME NEW f, NEW w, NEW S, Sums(f, w, S), NEW T \in SUBSET S
  PROVE  f[T] = IF T = {} THEN 0 ELSE w[Pick(T)] + f[T \ {Pick(T)}]
  BY Zenon DEF Sums

\* Two summing functions agree where both are defined.
LEMMA SumsUnique ==
  ASSUME NEW S, IsFiniteSet(S), NEW w, NEW f, NEW g, NEW V, NEW W,
         Sums(f, w, V), Sums(g, w, W), S \subseteq V, S \subseteq W
  PROVE  f[S] = g[S]
<1> DEFINE B == {T \in SUBSET S : f[T] # g[T]}
<1>1. SUFFICES ASSUME B # {}  PROVE FALSE
  OBVIOUS
<1>2. PICK T \in B : \A U \in B : U \subseteq T => U = T
  <2> B \subseteq SUBSET S
    OBVIOUS
  <2> HIDE DEF B
  <2> QED
    BY <1>1, SmallestSubset
<1>3. T \in SUBSET V /\ T \in SUBSET W /\ T \in SUBSET S /\ f[T] # g[T]
  OBVIOUS
<1>4. T # {}
  BY <1>3, SumsAt
<1>5. f[T \ {Pick(T)}] = g[T \ {Pick(T)}]
  BY <1>2, <1>3, <1>4, PickIn
<1>6. /\ f[T] = w[Pick(T)] + f[T \ {Pick(T)}]
      /\ g[T] = w[Pick(T)] + g[T \ {Pick(T)}]
  BY <1>3, <1>4, SumsAt
<1> QED
  BY <1>3, <1>5, <1>6

\* There is one for every finite set.
LEMMA SumsExists ==
  ASSUME NEW S, IsFiniteSet(S), NEW w
  PROVE  \E f : Sums(f, w, S)
<1> DEFINE B == {T \in SUBSET S : ~ \E f : Sums(f, w, T)}
<1>1. SUFFICES ASSUME B # {}  PROVE FALSE
  OBVIOUS
<1>2. PICK T \in B : \A U \in B : U \subseteq T => U = T
  <2> B \subseteq SUBSET S
    OBVIOUS
  <2> HIDE DEF B
  <2> QED
    BY <1>1, SmallestSubset
<1>3. T \in SUBSET S /\ ~ \E f : Sums(f, w, T)
  OBVIOUS
<1>4. \A U \in SUBSET T : U # T => \E f : Sums(f, w, U)
  BY <1>2, <1>3
<1> HIDE DEF B
<1> DEFINE h(U) == CHOOSE f : Sums(f, w, U)
           Less(U) == U \ {Pick(U)}
           v(U) == IF U = {} THEN 0 ELSE w[Pick(U)] + h(Less(U))[Less(U)]
           f == [U \in SUBSET T |-> v(U)]
<1>5. \A U \in SUBSET T : U # T => Sums(h(U), w, U)
  BY <1>4
<1>6. \A U \in SUBSET T : U # {} => /\ Less(U) \in SUBSET T /\ Less(U) # T
                                    /\ Less(U) \subseteq U /\ Pick(U) \in U
  BY PickIn
<1>7. \A U \in SUBSET T : IsFiniteSet(U)
  BY <1>3, FS_Subset
<1>8. ASSUME NEW U \in SUBSET T, U # T
      PROVE  h(U)[U] = v(U)
  <2>1. Sums(h(U), w, U)
    BY <1>5, <1>8
  <2>2. CASE U = {}
    BY <2>1, <2>2, SumsAt
  <2>3. CASE U # {}
    <3>1. /\ Less(U) \in SUBSET T /\ Less(U) # T /\ Less(U) \subseteq U
      BY <1>6, <2>3
    <3>2. Sums(h(Less(U)), w, Less(U)) /\ IsFiniteSet(Less(U))
      BY <1>5, <1>7, <3>1
    <3> HIDE DEF h
    <3>3. h(U)[U] = w[Pick(U)] + h(U)[Less(U)]
      BY <2>1, <2>3, SumsAt
    <3> HIDE DEF Less
    <3>4. h(U)[Less(U)] = h(Less(U))[Less(U)]
      BY <2>1, <3>1, <3>2, SumsUnique
    <3> QED
      BY <2>3, <3>3, <3>4
  <2> QED
    BY <2>2, <2>3
<1>9. \A U \in SUBSET T : f[U] = IF U = {} THEN 0 ELSE w[Pick(U)] + f[Less(U)]
  <2> HIDE DEF h
  <2> SUFFICES ASSUME NEW U \in SUBSET T, U # {}
               PROVE  h(Less(U))[Less(U)] = v(Less(U))
    BY <1>6
  <2>1. Less(U) \in SUBSET T /\ Less(U) # T
    BY <1>6
  <2> HIDE DEF Less, v
  <2> QED
    BY <1>8, <2>1
<1>10. f = [U \in SUBSET T |-> IF U = {} THEN 0 ELSE w[Pick(U)] + f[Less(U)]]
  <2> DOMAIN f = SUBSET T /\ f = [U \in SUBSET T |-> f[U]]
    OBVIOUS
  <2> HIDE DEF f, v, Less
  <2> QED
    BY <1>9
<1> QED
  BY <1>3, <1>10 DEF Sums

\* The total of w over S.
Total(w, S) == (CHOOSE f : Sums(f, w, S))[S]

LEMMA TotalIsSum ==
  ASSUME NEW S, IsFiniteSet(S), NEW w, NEW f, NEW V, Sums(f, w, V), S \subseteq V
  PROVE  Total(w, S) = f[S]
<1>1. Sums(CHOOSE g : Sums(g, w, S), w, S)
  BY SumsExists
<1> QED
  BY <1>1, SumsUnique DEF Total

LEMMA TotalEmpty ==
  ASSUME NEW w
  PROVE  Total(w, {}) = 0
<1>1. PICK f : Sums(f, w, {})
  BY SumsExists, FS_EmptySet
<1> QED
  BY <1>1, TotalIsSum, SumsAt, FS_EmptySet

LEMMA TotalPicked ==
  ASSUME NEW S, IsFiniteSet(S), S # {}, NEW w
  PROVE  Total(w, S) = w[Pick(S)] + Total(w, S \ {Pick(S)})
<1>1. PICK f : Sums(f, w, S)
  BY SumsExists
<1>2. IsFiniteSet(S \ {Pick(S)})
  BY FS_Difference
<1>3. Total(w, S) = f[S] /\ Total(w, S \ {Pick(S)}) = f[S \ {Pick(S)}]
  BY <1>1, <1>2, TotalIsSum
<1> QED
  BY <1>1, <1>3, SumsAt

\* The total depends on the values within S only.
LEMMA TotalSame ==
  ASSUME NEW S, IsFiniteSet(S), NEW w, NEW v, \A x \in S : w[x] = v[x]
  PROVE  Total(w, S) = Total(v, S)
<1> DEFINE B == {T \in SUBSET S : Total(w, T) # Total(v, T)}
<1>1. SUFFICES ASSUME B # {}  PROVE FALSE
  OBVIOUS
<1>2. PICK T \in B : \A U \in B : U \subseteq T => U = T
  <2> B \subseteq SUBSET S
    OBVIOUS
  <2> HIDE DEF B
  <2> QED
    BY <1>1, SmallestSubset
<1>3. T \in SUBSET S /\ Total(w, T) # Total(v, T) /\ IsFiniteSet(T)
  BY FS_Subset
<1>4. T # {}
  BY <1>3, TotalEmpty
<1>5. Pick(T) \in T /\ w[Pick(T)] = v[Pick(T)]
  BY <1>3, <1>4, PickIn
<1>6. Total(w, T \ {Pick(T)}) = Total(v, T \ {Pick(T)})
  BY <1>2, <1>3, <1>5
<1> QED
  BY <1>3, <1>4, <1>5, <1>6, TotalPicked

LEMMA TotalInt ==
  ASSUME NEW S, IsFiniteSet(S), NEW w, \A x \in S : w[x] \in Int
  PROVE  Total(w, S) \in Int
<1> DEFINE B == {T \in SUBSET S : Total(w, T) \notin Int}
<1>1. SUFFICES ASSUME B # {}  PROVE FALSE
  OBVIOUS
<1>2. PICK T \in B : \A U \in B : U \subseteq T => U = T
  <2> B \subseteq SUBSET S
    OBVIOUS
  <2> HIDE DEF B
  <2> QED
    BY <1>1, SmallestSubset
<1>3. T \in SUBSET S /\ Total(w, T) \notin Int /\ IsFiniteSet(T)
  BY FS_Subset
<1>4. T # {}
  BY <1>3, TotalEmpty
<1>5. Pick(T) \in T /\ w[Pick(T)] \in Int
  BY <1>3, <1>4, PickIn
<1>6. Total(w, T \ {Pick(T)}) \in Int
  BY <1>2, <1>3, <1>5
<1>7. Total(w, T) = w[Pick(T)] + Total(w, T \ {Pick(T)})
  BY <1>3, <1>4, TotalPicked
<1> HIDE DEF B
<1> QED
  BY <1>3, <1>5, <1>6, <1>7

LEMMA TotalNat ==
  ASSUME NEW S, IsFiniteSet(S), NEW w, \A x \in S : w[x] \in Nat
  PROVE  Total(w, S) \in Nat
<1> DEFINE B == {T \in SUBSET S : Total(w, T) \notin Nat}
<1>1. SUFFICES ASSUME B # {}  PROVE FALSE
  OBVIOUS
<1>2. PICK T \in B : \A U \in B : U \subseteq T => U = T
  <2> B \subseteq SUBSET S
    OBVIOUS
  <2> HIDE DEF B
  <2> QED
    BY <1>1, SmallestSubset
<1>3. T \in SUBSET S /\ Total(w, T) \notin Nat /\ IsFiniteSet(T)
  BY FS_Subset
<1>4. T # {}
  BY <1>3, TotalEmpty
<1>5. Pick(T) \in T /\ w[Pick(T)] \in Nat
  BY <1>3, <1>4, PickIn
<1>6. Total(w, T \ {Pick(T)}) \in Nat
  BY <1>2, <1>3, <1>5
<1>7. Total(w, T) = w[Pick(T)] + Total(w, T \ {Pick(T)})
  BY <1>3, <1>4, TotalPicked
<1> HIDE DEF B
<1> QED
  BY <1>3, <1>5, <1>6, <1>7

\* Whichever element is taken first.
LEMMA TotalSplit ==
  ASSUME NEW S, IsFiniteSet(S), NEW w, \A x \in S : w[x] \in Int, NEW y \in S
  PROVE  Total(w, S) = w[y] + Total(w, S \ {y})
<1> DEFINE B == {T \in SUBSET S : \E x \in T : Total(w, T) # w[x] + Total(w, T \ {x})}
<1>1. SUFFICES ASSUME B # {}  PROVE FALSE
  OBVIOUS
<1>2. PICK T \in B : \A U \in B : U \subseteq T => U = T
  <2> B \subseteq SUBSET S
    OBVIOUS
  <2> HIDE DEF B
  <2> QED
    BY <1>1, SmallestSubset
<1>3. PICK x \in T : Total(w, T) # w[x] + Total(w, T \ {x})
  OBVIOUS
<1>4. T \in SUBSET S /\ T # {} /\ Pick(T) \in T
  BY PickIn
<1> DEFINE p == Pick(T)
<1>5. /\ IsFiniteSet(T) /\ IsFiniteSet(T \ {x})
      /\ IsFiniteSet(T \ {p}) /\ IsFiniteSet(T \ {x, p})
  BY <1>4, FS_Subset
<1>6. Total(w, T) = w[p] + Total(w, T \ {p})
  BY <1>4, <1>5, TotalPicked
<1>7. p # x
  BY <1>3, <1>6
<1>8. \A U \in SUBSET T : \A z \in U : U # T => Total(w, U) = w[z] + Total(w, U \ {z})
  BY <1>2, <1>4
<1>9. (T \ {p}) \ {x} = T \ {x, p} /\ (T \ {x}) \ {p} = T \ {x, p}
  OBVIOUS
<1> HIDE DEF B, p
<1>10. Total(w, T \ {p}) = w[x] + Total(w, T \ {x, p})
  <2>1. T \ {p} \in SUBSET T /\ T \ {p} # T /\ x \in T \ {p}
    BY <1>4, <1>7 DEF p
  <2> QED
    BY <1>8, <1>9, <2>1
<1>11. Total(w, T \ {x}) = w[p] + Total(w, T \ {x, p})
  <2>1. T \ {x} \in SUBSET T /\ T \ {x} # T /\ p \in T \ {x}
    BY <1>4, <1>7 DEF p
  <2> QED
    BY <1>8, <1>9, <2>1
<1>12. w[x] \in Int /\ w[p] \in Int /\ Total(w, T \ {x, p}) \in Int
  BY <1>4, <1>5, TotalInt DEF p
<1> QED
  BY <1>3, <1>6, <1>10, <1>11, <1>12

\* Giving one element another value, adding one and leaving one out.
LEMMA TotalChanged ==
  ASSUME NEW S, IsFiniteSet(S), NEW y \in S,
         NEW w, \A x \in S : w[x] \in Int, NEW v, \A x \in S : v[x] \in Int,
         \A x \in S \ {y} : v[x] = w[x]
  PROVE  Total(v, S) = Total(w, S) - w[y] + v[y]
<1>1. IsFiniteSet(S \ {y})
  BY FS_Difference
<1>2. Total(v, S \ {y}) = Total(w, S \ {y}) /\ Total(w, S \ {y}) \in Int
  BY <1>1, TotalSame, TotalInt
<1>3. Total(v, S) = v[y] + Total(v, S \ {y}) /\ Total(w, S) = w[y] + Total(w, S \ {y})
  BY TotalSplit
<1> QED
  BY <1>2, <1>3

LEMMA TotalAdded ==
  ASSUME NEW S, IsFiniteSet(S), NEW y, y \notin S, NEW T, T = S \cup {y},
         NEW w, \A x \in S : w[x] \in Int, NEW v, v[y] \in Int, \A x \in S : v[x] = w[x]
  PROVE  Total(v, T) = Total(w, S) + v[y]
<1>1. IsFiniteSet(T) /\ T \ {y} = S /\ y \in T
  BY FS_AddElement
<1>2. Total(v, S) = Total(w, S) /\ Total(w, S) \in Int
  BY TotalSame, TotalInt
<1>3. \A x \in T : v[x] \in Int
  OBVIOUS
<1>4. Total(v, T) = v[y] + Total(v, S)
  BY <1>1, <1>3, TotalSplit
<1> QED
  BY <1>2, <1>4

LEMMA TotalLeftOut ==
  ASSUME NEW S, IsFiniteSet(S), NEW y \in S,
         NEW w, \A x \in S : w[x] \in Int, NEW v, \A x \in S \ {y} : v[x] = w[x]
  PROVE  Total(v, S \ {y}) = Total(w, S) - w[y]
<1>1. IsFiniteSet(S \ {y})
  BY FS_Difference
<1>2. Total(v, S \ {y}) = Total(w, S \ {y}) /\ Total(w, S \ {y}) \in Int
  BY <1>1, TotalSame, TotalInt
<1>3. Total(w, S) = w[y] + Total(w, S \ {y})
  BY TotalSplit
<1> QED
  BY <1>2, <1>3

LEMMA TotalCovers ==
  ASSUME NEW S, IsFiniteSet(S), NEW y \in S, NEW w, \A x \in S : w[x] \in Nat
  PROVE  Total(w, S) >= w[y]
<1>1. IsFiniteSet(S \ {y})
  BY FS_Difference
<1>2. Total(w, S) = w[y] + Total(w, S \ {y}) /\ Total(w, S \ {y}) \in Nat
  BY <1>1, TotalSplit, TotalNat
<1> QED
  BY <1>2

LEMMA TotalOfEqual ==
  ASSUME NEW S, IsFiniteSet(S), NEW w, NEW n \in Int, \A x \in S : w[x] = n
  PROVE  Total(w, S) = Cardinality(S) * n
<1> DEFINE B == {T \in SUBSET S : Total(w, T) # Cardinality(T) * n}
<1>1. SUFFICES ASSUME B # {}  PROVE FALSE
  OBVIOUS
<1>2. PICK T \in B : \A U \in B : U \subseteq T => U = T
  <2> B \subseteq SUBSET S
    OBVIOUS
  <2> HIDE DEF B
  <2> QED
    BY <1>1, SmallestSubset
<1>3. T \in SUBSET S /\ Total(w, T) # Cardinality(T) * n /\ IsFiniteSet(T)
  BY FS_Subset
<1>4. T # {}
  <2>1. Cardinality({}) = 0 /\ 0 * n = 0
    BY FS_EmptySet
  <2> QED
    BY <1>3, <2>1, TotalEmpty
<1>5. Pick(T) \in T /\ w[Pick(T)] = n
  BY <1>3, <1>4, PickIn
<1> DEFINE U == T \ {Pick(T)}
<1>6. Total(w, U) = Cardinality(U) * n
  BY <1>2, <1>3, <1>5
<1>7. Total(w, T) = n + Total(w, U)
  BY <1>3, <1>4, <1>5, TotalPicked
<1>8. Cardinality(U) = Cardinality(T) - 1 /\ Cardinality(T) \in Nat
  BY <1>3, <1>5, FS_RemoveElement, FS_CardinalityType
<1> HIDE DEF B, U
<1> DEFINE c == Cardinality(T)
<1>9. (c - 1) * n = c * n - n /\ c * n \in Int
  <2>1. c \in Nat
    BY <1>8
  <2> HIDE DEF c
  <2> QED
    BY <2>1, Z3
<1> QED
  BY <1>3, <1>6, <1>7, <1>8, <1>9
=============================================================================
