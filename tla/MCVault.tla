------------------------------- MODULE MCVault -------------------------------
(***************************************************************************)
(* One account with two calls under way and one other account, weeks of 4  *)
(* seconds and boxes of 4 rows.  The vault starts empty of the account's   *)
(* locks, with a lock whose rows just fill a box, or with one row free.    *)
(***************************************************************************)
EXTENDS Vault, TLC

CONSTANTS c1, c2, u

MCAsks == c1 :> {"create", "increase", "extend", "both", "withdraw", "tinyPower", "totalPower"}
            @@ c2 :> {"increase"}
MCOwner == c1 :> u @@ c2 :> u
MCCost == [state |-> 7, power |-> 60, tp |-> 50, sc |-> 3]
MCOtherLocks == {[amount |-> 20, end |-> 24]}

Row(t, b, s) == [timestamp |-> t, bias |-> b, slope |-> s]
Nobody == [exists |-> FALSE, amount |-> 0, end |-> 0, powers |-> <<>>, log |-> <<>>]

\* A lock until 12 made at 1, its amount raised a little at 2, 3 and so on.
Locked(n) ==
  [exists |-> TRUE, amount |-> 5 * n, end |-> 12,
   powers |-> [i \in 1 .. n |-> Row(i, getBias(getSlope(5 * i), 12 - i), getSlope(5 * i))],
   log    |-> [i \in 1 .. n |-> [timestamp |-> i, amount |-> 5 * i, end |-> 12]]]

MCStarts ==
  {[now |-> 4, total |-> <<Row(1, 0, 0), Row(2, 0, 0), Row(4, 0, 0)>>,
    slopeDelta |-> <<>>, account |-> [w \in Users |-> Nobody]]}
  \cup {[now |-> 6,
         total |-> Locked(n).powers \o <<Row(5, getBias(getSlope(5 * n), 7), getSlope(5 * n))>>,
         slopeDelta |-> 12 :> getSlope(5 * n), account |-> [w \in Users |-> Locked(n)]]
        : n \in {3, 4}}
==============================================================================
