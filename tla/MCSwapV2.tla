------------------------------ MODULE MCSwapV2 ------------------------------
(***************************************************************************)
(* Instance of SwapV2 for TLC.  100 is below the smallest input a v2 pool  *)
(* takes, so its quotes fail; 1500 moves a pool of 15000 by 10%, far more  *)
(* than the slippage; 10000 is all there is of asset 2, and more of asset  *)
(* 1 than a user can pay.                                                  *)
(***************************************************************************)
EXTENDS SwapV2

MCPools == {<<15000, 10000>>, <<0, 0>>}
=============================================================================
