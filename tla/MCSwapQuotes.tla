---------------------------- MODULE MCSwapQuotes ----------------------------
(***************************************************************************)
(* Instance of SwapQuotes for TLC.  The pools are near each other in price *)
(* so that each source can win, one is small enough for its supply to be   *)
(* the limit, and the router answers for the right and the wrong assets,   *)
(* with amounts present and missing, and fails in every way it can.        *)
(***************************************************************************)
EXTENDS SwapQuotes

Ready(in, out) == [ready |-> TRUE, held |-> TRUE, reserves |-> <<in, out>>]

MCV11Pools ==
  {NoPool, Ready(15000, 10000), Ready(100, 1500),
   [Ready(10, 10) EXCEPT !.ready = FALSE]}
MCV2Pools ==
  {NoPool, Ready(14000, 10000), Ready(1500, 100), Ready(0, 0),
   [Ready(10, 10) EXCEPT !.held = FALSE]}

MCRouterAnswers ==
  [kind : {"route"}, hasTxns : {TRUE}, type : SwapTypes,
   assetIn : {1, 2}, assetOut : {1, 2, 3}, in : {0, 100, 1500}, out : {0, 100, 1500}]
  \cup [kind : {"route"}, hasTxns : {FALSE}, type : {"FixedInput"}, assetIn : {1},
        assetOut : {2}, in : {0}, out : {0}]
  \cup RouterFailures
=============================================================================
