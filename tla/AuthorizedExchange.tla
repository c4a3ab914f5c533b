------------------------- MODULE AuthorizedExchange -------------------------
(***************************************************************************)
(* What a swap promises its user, whatever happens to the pool in between: *)
(* the wallet changes only by an exchange the user authorized, at most     *)
(* once for each authorization, with the fixed side exactly as quoted and  *)
(* the other side within the slippage the user chose.                      *)
(*                                                                         *)
(* The pool, the quotes and the node are not visible here.  An order is a  *)
(* record [id, user, type, assetIn, quotedIn, quotedOut, slippage, ...].   *)
(***************************************************************************)
EXTENDS Integers

CONSTANTS Users, Assets

VARIABLES wallet,    \* wallet[u][a]: what user u holds of asset a
          orders,    \* the authorized exchanges that may happen now
          executed   \* those that have happened

vars == <<wallet, orders, executed>>

Other(a) == CHOOSE b \in Assets : b # a

\* One base unit of the bounded side is the allowance for rounding.
WithinLimits(o, paid, got) ==
  IF o.type = "FixedInput"
  THEN /\ paid = o.quotedIn
       /\ 100 * got >= o.quotedOut * (100 - o.slippage) - 100
  ELSE /\ got = o.quotedOut
       /\ 100 * paid <= o.quotedIn * (100 + o.slippage)

Init ==
  /\ wallet \in [Users -> [Assets -> Nat]]
  /\ orders = {}
  /\ executed = {}

Authorize(o) ==
  /\ \A p \in orders \cup executed : p.id # o.id
  /\ orders' = orders \cup {o}
  /\ UNCHANGED <<wallet, executed>>

Withdraw(o) ==
  /\ orders' = orders \ {o}
  /\ UNCHANGED <<wallet, executed>>

Exchange(o) ==
  LET paid == wallet[o.user][o.assetIn] - wallet'[o.user][o.assetIn]
      got  == wallet'[o.user][Other(o.assetIn)] - wallet[o.user][Other(o.assetIn)]
  IN  /\ orders' = orders \ {o}
      /\ executed' = executed \cup {o}
      /\ WithinLimits(o, paid, got)
      /\ wallet' \in [Users -> [Assets -> Nat]]
      /\ \A u \in Users \ {o.user} : wallet'[u] = wallet[u]

Next ==
  \/ \E o \in orders' : Authorize(o)
  \/ \E o \in orders : Withdraw(o) \/ Exchange(o)

Spec == Init /\ [][Next]_vars
=============================================================================
