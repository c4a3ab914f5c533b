--------------------------- MODULE MCLiquidityV2 ----------------------------
(***************************************************************************)
(* Instance of LiquidityV2 for TLC: a call of each of two accounts, on a   *)
(* pool that is not there yet, is there without liquidity, or is in use.   *)
(* Fees are 10%, and 10 tokens are locked, so that both show with reserves *)
(* small enough for the products of the properties.                        *)
(***************************************************************************)
EXTENDS LiquidityV2

MCCalls == {"c1", "c2"}
MCOwner == [c \in MCCalls |-> IF c = "c1" THEN "u" ELSE "v"]
MCFirstDeposits == {<<40, 30>>}
MCDeposits == {<<50, 20>>}
MCStarts ==
  {[created |-> FALSE, pool |-> <<0, 0, 0>>, wallet |-> <<90, 80, 0>>],
   [created |-> TRUE, pool |-> <<0, 0, 0>>, wallet |-> <<90, 80, 0>>],
   [created |-> TRUE, pool |-> <<90, 60, 100>>, wallet |-> <<90, 80, 45>>]}
=============================================================================
