------------------------------ MODULE MCOrders -------------------------------
(***************************************************************************)
(* Two calls of a user who has no order application, a new one that holds  *)
(* nothing, one that was sent more than it must keep before any order was  *)
(* put in it, or one with an open order that pays in Algo.                 *)
(***************************************************************************)
EXTENDS Orders, TLC

CONSTANTS c1, c2

Put(kind, asset, target, amount, times) ==
  [op |-> "put", kind |-> kind, asset |-> asset, target |-> target,
   amount |-> amount, times |-> times]

MCAsks ==
  c1 :> {Put("o", "algo", "gold", 20, 1), Put("r", "gold", "algo", 8, 2),
         [op |-> "create"], [op |-> "update"]}
  @@ c2 :> {Put("o", "gold", "algo", 6, 1), Put("r", "algo", "gold", 9, 2),
            [op |-> "create"],
            [op |-> "cancel", kind |-> "o", id |-> 0], [op |-> "claim", kind |-> "o", id |-> 0]}

MCBoxCost == [o |-> 4, r |-> 5]

App == [version |-> 1, program |-> 1, count |-> 0, orders |-> <<>>, optedIn |-> {},
        holds |-> [algo |-> 0, gold |-> 0]]

MCStarts ==
  {[entry |-> {}, apps |-> <<>>],
   [entry |-> {1}, apps |-> <<App>>],
   [entry |-> {1}, apps |-> <<[App EXCEPT !.holds["algo"] = 9]>>],
   [entry |-> {1},
    apps |-> <<[App EXCEPT
                  !.count = 1, !.optedIn = {"gold"}, !.holds = [algo |-> 44, gold |-> 0],
                  !.orders = Box("o", 0) :> [asset |-> "algo", target |-> "gold", each |-> 30,
                                             left |-> 30, collected |-> 0]]>>]}
==============================================================================
