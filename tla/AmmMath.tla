------------------------------ MODULE AmmMath -------------------------------
(***************************************************************************)
(* The integer arithmetic of Tinyman's pools as the SDK computes it: the   *)
(* swap of a v2 pool (src/src/swap/v2/index.ts, 572-715), the swap and the *)
(* liquidity of a v1.1 pool (the getQuotes of swap/v1_1, add-liquidity/    *)
(* v1_1 and remove-liquidity/v1_1), and slippage (util/util.ts).  Amounts  *)
(* are in base units, fee shares in basis points, slippage in percent.     *)
(*                                                                         *)
(* bigint division truncates; every division below has a non-negative      *)
(* dividend and a positive divisor, where \div agrees with it.  Number()   *)
(* is exact for the amounts considered (below 2^46); where the code then   *)
(* multiplies by a fraction that no double holds, the outcomes it can have *)
(* are a set.                                                              *)
(***************************************************************************)
EXTENDS Integers

SwapTypes == {"FixedInput", "FixedOutput"}

\* ceil(1 / 0.003): the smallest input a v2 pool takes.
MinSwapAssetInAmount == 334

\* With the fee taken for 0.3 rather than 0.3 percent.
IsSwapAssetInAmountLow_PercentFee(amount) == amount < 4
IsSwapAssetInAmountLow(amount) == amount < MinSwapAssetInAmount

FixedInputFee(input, feeShare) == (input * feeShare) \div 10000

\* What the input pushes out of the pool, once the fee is taken from it.
OutputOfFixedInput_Unrounded(inputSupply, outputSupply, swapAmount) ==
  outputSupply - ((inputSupply * outputSupply) \div (inputSupply + swapAmount))
OutputOfFixedInput(inputSupply, outputSupply, swapAmount) ==
  outputSupply
    - ((inputSupply * outputSupply) \div (inputSupply + swapAmount)) - 1

FixedInputOut(inputSupply, outputSupply, input, feeShare) ==
  OutputOfFixedInput(inputSupply, outputSupply,
                     input - FixedInputFee(input, feeShare))

\* The input, before the fee, that makes the pool give up exactly `output`.
SwapAmountOfFixedOutput(inputSupply, outputSupply, output) ==
  ((inputSupply * outputSupply) \div (outputSupply - output)) - inputSupply + 1

FixedOutputFee(swapAmount, feeShare) ==
  ((swapAmount * 10000) \div (10000 - feeShare)) - swapAmount

FixedOutputIn(inputSupply, outputSupply, output, feeShare) ==
  LET swapAmount == SwapAmountOfFixedOutput(inputSupply, outputSupply, output)
  IN  swapAmount + FixedOutputFee(swapAmount, feeShare)

(***************************************************************************)
(* v1.1: a fee of 3/1000, and truncation in the caller's favour.           *)
(***************************************************************************)
V11FixedInputOut(inS, outS, in) ==
  outS - ((inS * outS) \div (inS + (in - (in * 3) \div 1000)))
V11FixedOutputIn(inS, outS, out) ==
  ((((inS * outS) \div (outS - out)) - inS) * 1000) \div 997

\* Liquidity: p holds the reserves of assets 1 and 2 and the pool tokens issued
\* (p[3]).  Of a first deposit the pool keeps 1000 pool tokens.
LowerOf(m, n) == IF m < n THEN m ELSE n
GeometricMean(m, n) ==
  CHOOSE r \in LowerOf(m, n) .. (m + n) : r * r <= m * n /\ m * n < (r + 1) * (r + 1)

V11MintOut(p, in) ==
  IF p[3] = 0 THEN GeometricMean(in[1], in[2]) - 1000
  ELSE LowerOf((in[1] * p[3]) \div p[1], (in[2] * p[3]) \div p[2])
V11BurnOut(p, lp) ==
  [a \in 1 .. 3 |-> IF a = 3 \/ p[3] = 0 THEN 0 ELSE (lp * p[a]) \div p[3]]

(***************************************************************************)
(* applySlippageToAmount: floor(Number(amount) * (1 -+ slippage)).  The    *)
(* factor is rounded to a double, so when the exact product is an integer  *)
(* the floor may also be one less; the factors 0, 1 and 2 are exact.       *)
(***************************************************************************)
SlippageFactor(type, percent) ==
  IF type = "negative" THEN 100 - percent ELSE 100 + percent

SlippageAmounts(type, percent, amount) ==
  LET product == amount * SlippageFactor(type, percent)
      exact   == product \div 100
  IN  IF percent \notin {0, 100} /\ product % 100 = 0 /\ product > 0
      THEN {exact, exact - 1}
      ELSE {exact}
=============================================================================
