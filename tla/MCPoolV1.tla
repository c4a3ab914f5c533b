------------------------------ MODULE MCPoolV1 ------------------------------
(***************************************************************************)
(* Instance of PoolV1 for TLC: two calls of the same user on an Algo pool, *)
(* who has some excess already; the pool may still be empty.               *)
(***************************************************************************)
EXTENDS PoolV1

MCCalls == {"c1", "c2"}
MCOwner == [c \in MCCalls |-> "u"]
MCDeposits == {<<1300, 1100>>, <<900, 800>>}
MCStarts ==
  {[pool |-> <<15000, 10000, 12000>>, wallet |-> <<6000, 4000, 2000>>],
   [pool |-> <<0, 0, 0>>, wallet |-> <<6000, 4000, 0>>]}
MCInitialExcess == <<5, 7, 0>>
=============================================================================
