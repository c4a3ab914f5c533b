---------------------------- MODULE PoolV1_proofs ----------------------------
(***************************************************************************)
(* Proofs about PoolV1, for any calls of any users, pool and amounts.      *)
(* From IInv: the type invariant, and that every executed group is within  *)
(* the tolerance the user gave.  From SInv, which adds what is on the      *)
(* chain, who holds the pool tokens, and what a call knows of its user's   *)
(* excess: what execute reports is what its group brought, and a group the *)
(* user can pay is refused only if another one came first.                 *)
(***************************************************************************)
EXTENDS PoolV1, AmmMath_proofs

\* The amounts other than the one of asset a are zero.
OnlyOf(f, a) == \A h \in Holdings \ {a} : f[h] = 0

\* What a group takes is no more than the contract owes for it on the pool the SDK saw.
Priced(g) ==
  LET p == g.seen
      a == g.assetIn
      b == Other(g.assetIn)
  IN  /\ g.op = "FixedInput" =>
           /\ a \in Assets /\ g.pays[a] > 0 /\ OnlyOf(g.pays, a) /\ OnlyOf(g.takes, b)
           /\ g.takes[b] <= V11FixedInputOut(p[a], p[b], g.pays[a])
      /\ g.op = "FixedOutput" =>
           /\ a \in Assets /\ OnlyOf(g.pays, a) /\ OnlyOf(g.takes, b)
           /\ g.takes[b] < p[b] /\ V11FixedOutputIn(p[a], p[b], g.takes[b]) <= g.pays[a]
      /\ g.op = "mint" =>
           /\ g.pays[PoolToken] = 0 /\ OnlyOf(g.takes, PoolToken)
           /\ g.takes[PoolToken] <= V11MintOut(p, g.pays)
      /\ g.op = "burn" =>
           /\ OnlyOf(g.pays, PoolToken) /\ g.takes[PoolToken] = 0
           /\ \A h \in Assets : g.takes[h] <= V11BurnOut(p, g.pays[PoolToken])[h]

\* What slippage lets generateTxns make of a quote; a redeem pays nothing in.
WellMade(g) ==
  /\ g \in Groups /\ Priced(g)
  /\ g.op = "redeem" => g.pays = Nothing
  /\ g.slippage <= 100
  /\ \A a \in Holdings :
       /\ 100 * g.pays[a] <= g.quoted.pays[a] * (100 + g.slippage)
       /\ 100 * g.takes[a] >= g.quoted.due[a] * (100 - g.slippage) - 100

\* What call c makes; a redeem takes what the pool owes.
IsGroup(c, g) ==
  /\ WellMade(g) /\ g.call = c /\ g.user = Owner[c]
  /\ g.op = "redeem" => \A a \in Holdings : excess[Owner[c]][a] >= g.takes[a]

AllWellMade ==
  /\ \A c \in Calls : pc[c] # "idle" => WellMade(group[c])
  /\ \A g \in pending \cup refused : WellMade(g)
  /\ \A k \in DOMAIN chain : WellMade(chain[k].group)

\* A group other than a redeem is executed only if at least what it takes is due.
Honoured ==
  \A k \in DOMAIN chain : chain[k].group.op # "redeem" =>
    \A a \in Holdings : chain[k].due[a] >= chain[k].group.takes[a]

Functional ==
  /\ wallet = [u \in Users |-> wallet[u]]
  /\ excess = [u \in Users |-> excess[u]]
  /\ pc = [c \in Calls |-> pc[c]]
  /\ group = [c \in Calls |-> group[c]]
  /\ before = [c \in Calls |-> before[c]]
  /\ report = [c \in Calls |-> report[c]]

IInv == TypeOK /\ Functional /\ AllWellMade /\ Honoured
-----------------------------------------------------------------------------
(* Making a group.                                                          *)

LEMMA OnlyType ==
  ASSUME NEW a \in Holdings, NEW n \in Nat
  PROVE  /\ Only(a, n) \in Amounts /\ Nothing \in Amounts
         /\ Only(a, n)[a] = n
         /\ \A b \in Holdings \ {a} : Only(a, n)[b] = 0
         /\ \A b \in Holdings : Nothing[b] = 0
  BY DEF Only, Nothing, Amounts, Holdings

\* An exact amount is within any tolerance.
LEMMA ExactIsWithin ==
  ASSUME NEW n \in Nat, NEW slippage \in Nat, slippage <= 100
  PROVE  /\ 100 * n <= n * (100 + slippage)
         /\ 100 * n >= n * (100 - slippage) - 100
<1>1. n * slippage \in Nat
  BY ProductMonotonic
<1>2. n * (100 + slippage) = 100 * n + n * slippage
  BY Z3
<1>3. n * (100 - slippage) = 100 * n - n * slippage
  BY Z3
<1> QED
  BY <1>1, <1>2, <1>3

\* Of groups that pay or take one asset: if its amount is within the tolerance,
\* or the quoted one, so is every amount.
LEMMA OnlyIsWithin ==
  ASSUME NEW a \in Holdings, NEW n \in Nat, NEW quoted \in Nat,
         NEW slippage \in Nat, slippage <= 100, NEW h \in Holdings
  PROVE  /\ n = quoted \/ 100 * n <= quoted * (100 + slippage)
           => 100 * Only(a, n)[h] <= Only(a, quoted)[h] * (100 + slippage)
         /\ n = quoted \/ 100 * n >= quoted * (100 - slippage) - 100
           => 100 * Only(a, n)[h] >= Only(a, quoted)[h] * (100 - slippage) - 100
<1>1. /\ Only(a, n)[h] = (IF h = a THEN n ELSE 0)
      /\ Only(a, quoted)[h] = (IF h = a THEN quoted ELSE 0)
  BY OnlyType
<1>2. CASE h = a
  BY <1>1, <1>2, ExactIsWithin
<1>3. CASE h # a
  BY <1>1, <1>3
<1> QED
  BY <1>2, <1>3

LEMMA SlippageRange ==
  ASSUME NEW slippage \in Slippages
  PROVE  slippage \in Nat /\ slippage <= 100
  BY AmountAssumption

LEMMA OwnerIsUser == \A c \in Calls : Owner[c] \in Users
  BY DEF Users

\* A group made of well typed amounts each within the tolerance is well made.
LEMMA GroupIsWellMade ==
  ASSUME TypeOK, NEW c \in Calls, NEW op \in Ops, NEW assetIn \in 0 .. 2,
         NEW pays \in Amounts, NEW takes \in Amounts,
         NEW slippage \in Nat, slippage <= 100,
         NEW qpays \in Amounts, NEW qdue \in Amounts,
         op = "redeem" =>
           pays = Nothing /\ \A a \in Holdings : excess[Owner[c]][a] >= takes[a],
         Priced(Group(c, op, assetIn, pays, takes, slippage, [pays |-> qpays, due |-> qdue])),
         \A a \in Holdings :
           /\ 100 * pays[a] <= qpays[a] * (100 + slippage)
           /\ 100 * takes[a] >= qdue[a] * (100 - slippage) - 100
  PROVE  IsGroup(c, Group(c, op, assetIn, pays, takes, slippage,
                          [pays |-> qpays, due |-> qdue]))
<1> DEFINE g == Group(c, op, assetIn, pays, takes, slippage,
                      [pays |-> qpays, due |-> qdue])
<1>1. g \in Groups
  BY OwnerIsUser DEF Group, Groups, TypeOK
<1>2. /\ g.call = c /\ g.user = Owner[c] /\ g.op = op
      /\ g.pays = pays /\ g.takes = takes /\ g.slippage = slippage
      /\ g.quoted.pays = qpays /\ g.quoted.due = qdue
  BY DEF Group
<1> HIDE DEF g
<1> QED
  BY <1>1, <1>2 DEF IsGroup, WellMade, g

\* The parts of a group that its pricing is about.
LEMMA GroupParts ==
  ASSUME NEW c, NEW op, NEW assetIn, NEW pays, NEW takes, NEW slippage, NEW quoted
  PROVE  LET g == Group(c, op, assetIn, pays, takes, slippage, quoted)
         IN  /\ g.op = op /\ g.assetIn = assetIn /\ g.pays = pays /\ g.takes = takes
             /\ g.seen = pool
  BY DEF Group

LEMMA FixedInputIsWellMade ==
  ASSUME TypeOK, NEW c \in Calls, NEW a \in Assets, NEW amount \in SwapAmounts,
         NEW slippage \in Slippages, PrepareFixedInput(c, a, amount, slippage)
  PROVE  \E g : IsGroup(c, g) /\ Prepare(c, g)
<1> DEFINE out == V11FixedInputOut(pool[a], pool[Other(a)], amount)
<1>1. /\ a \in Holdings /\ Other(a) \in Holdings /\ a \in 0 .. 2
      /\ pool[a] \in Nat /\ pool[Other(a)] \in Nat /\ amount \in Nat \ {0}
  BY AmountAssumption DEF TypeOK, Amounts, Holdings, Assets, Other
<1>2. slippage \in Nat /\ slippage <= 100
  BY SlippageRange
<1>3. out \in Nat /\ out = V11FixedInputOut(pool[a], pool[Other(a)], amount)
  BY <1>1, V11FixedInputType
<1>4. PICK take \in FixedInputTake(slippage, out) :
        Prepare(c, Group(c, "FixedInput", a, Only(a, amount), Only(Other(a), take),
                         slippage, [pays |-> Only(a, amount), due |-> Only(Other(a), out)]))
  BY DEF PrepareFixedInput
<1> HIDE DEF out
<1>5. take \in Nat /\ take <= out /\ 100 * take >= out * (100 - slippage) - 100
  BY <1>2, <1>3, <1>4, NegativeSlippage DEF FixedInputTake
<1>6. "FixedInput" \in Ops
  BY DEF Ops, SwapTypes
<1>7. /\ Only(a, amount) \in Amounts /\ Only(Other(a), take) \in Amounts
      /\ Only(Other(a), out) \in Amounts
  BY <1>1, <1>3, <1>5, OnlyType
<1>8. \A h \in Holdings :
        /\ 100 * Only(a, amount)[h] <= Only(a, amount)[h] * (100 + slippage)
        /\ 100 * Only(Other(a), take)[h]
             >= Only(Other(a), out)[h] * (100 - slippage) - 100
  BY <1>1, <1>2, <1>3, <1>5, OnlyIsWithin
<1> DEFINE g == Group(c, "FixedInput", a, Only(a, amount), Only(Other(a), take),
                      slippage, [pays |-> Only(a, amount), due |-> Only(Other(a), out)])
<1>9. Priced(g)
  <2>1. /\ g.op = "FixedInput" /\ g.assetIn = a /\ g.pays = Only(a, amount)
        /\ g.takes = Only(Other(a), take) /\ g.seen = pool
    BY GroupParts
  <2>2. /\ OnlyOf(Only(a, amount), a) /\ OnlyOf(Only(Other(a), take), Other(a))
        /\ Only(a, amount)[a] = amount /\ Only(Other(a), take)[Other(a)] = take
    BY <1>1, <1>5, OnlyType DEF OnlyOf
  <2> HIDE DEF g
  <2> QED
    BY <1>1, <1>3, <1>5, <2>1, <2>2 DEF Priced
<1>10. IsGroup(c, Group(c, "FixedInput", a, Only(a, amount), Only(Other(a), take),
                       slippage, [pays |-> Only(a, amount), due |-> Only(Other(a), out)]))
  BY <1>1, <1>2, <1>6, <1>7, <1>8, <1>9, GroupIsWellMade
<1> QED
  BY <1>4, <1>10

LEMMA FixedOutputIsWellMade ==
  ASSUME TypeOK, NEW c \in Calls, NEW a \in Assets, NEW amount \in SwapAmounts,
         NEW slippage \in Slippages, PrepareFixedOutput(c, a, amount, slippage)
  PROVE  \E g : IsGroup(c, g) /\ Prepare(c, g)
<1> DEFINE in == V11FixedOutputIn(pool[a], pool[Other(a)], amount)
<1>1. /\ a \in Holdings /\ Other(a) \in Holdings /\ a \in 0 .. 2
      /\ pool[a] \in Nat /\ pool[Other(a)] \in Nat /\ amount \in Nat
      /\ amount < pool[Other(a)]
  BY AmountAssumption DEF TypeOK, Amounts, Holdings, Assets, Other, PrepareFixedOutput
<1>2. slippage \in Nat /\ slippage <= 100
  BY SlippageRange
<1>3. in \in Nat /\ in = V11FixedOutputIn(pool[a], pool[Other(a)], amount)
  BY <1>1, V11FixedOutputType
<1>4. PICK pay \in FixedOutputPay(slippage, in) :
        Prepare(c, Group(c, "FixedOutput", a, Only(a, pay), Only(Other(a), amount),
                         slippage, [pays |-> Only(a, in), due |-> Only(Other(a), amount)]))
  BY DEF PrepareFixedOutput
<1> HIDE DEF in
<1>5. pay \in Nat /\ in <= pay /\ 100 * pay <= in * (100 + slippage)
  BY <1>2, <1>3, <1>4, PositiveSlippage DEF FixedOutputPay
<1>6. "FixedOutput" \in Ops
  BY DEF Ops, SwapTypes
<1>7. /\ Only(a, pay) \in Amounts /\ Only(Other(a), amount) \in Amounts
      /\ Only(a, in) \in Amounts
  BY <1>1, <1>3, <1>5, OnlyType
<1>8. \A h \in Holdings :
        /\ 100 * Only(a, pay)[h] <= Only(a, in)[h] * (100 + slippage)
        /\ 100 * Only(Other(a), amount)[h]
             >= Only(Other(a), amount)[h] * (100 - slippage) - 100
  BY <1>1, <1>2, <1>3, <1>5, OnlyIsWithin
<1> DEFINE g == Group(c, "FixedOutput", a, Only(a, pay), Only(Other(a), amount),
                      slippage, [pays |-> Only(a, in), due |-> Only(Other(a), amount)])
<1>9. Priced(g)
  <2>1. /\ g.op = "FixedOutput" /\ g.assetIn = a /\ g.pays = Only(a, pay)
        /\ g.takes = Only(Other(a), amount) /\ g.seen = pool
    BY GroupParts
  <2>2. /\ OnlyOf(Only(a, pay), a) /\ OnlyOf(Only(Other(a), amount), Other(a))
        /\ Only(a, pay)[a] = pay /\ Only(Other(a), amount)[Other(a)] = amount
    BY <1>1, <1>5, OnlyType DEF OnlyOf
  <2> HIDE DEF g
  <2> QED
    BY <1>1, <1>3, <1>5, <2>1, <2>2 DEF Priced
<1>10. IsGroup(c, Group(c, "FixedOutput", a, Only(a, pay), Only(Other(a), amount),
                       slippage, [pays |-> Only(a, in), due |-> Only(Other(a), amount)]))
  BY <1>1, <1>2, <1>6, <1>7, <1>8, <1>9, GroupIsWellMade
<1> QED
  BY <1>4, <1>10

LEMMA MintIsWellMade ==
  ASSUME TypeOK, NEW c \in Calls, NEW deposit \in Deposits,
         NEW slippage \in Slippages, PrepareMint(c, deposit, slippage)
  PROVE  \E g : IsGroup(c, g) /\ Prepare(c, g)
<1> DEFINE pays == [Nothing EXCEPT ![1] = deposit[1], ![2] = deposit[2]]
           out  == V11MintOut(pool, pays)
<1>1. pays \in Amounts /\ pool \in Amounts /\ pays[PoolToken] = 0
  <2>1. deposit \in [Assets -> Nat \ {0}]
    BY AmountAssumption
  <2>2. deposit[1] \in Nat /\ deposit[2] \in Nat
    BY <2>1 DEF Assets
  <2> QED
    BY <2>2 DEF Nothing, Amounts, Holdings, TypeOK, PoolToken
<1>2. slippage \in Nat /\ slippage <= 100
  BY SlippageRange
<1>3. PICK take \in SlippageAmounts("negative", slippage, out) :
        Prepare(c, Group(c, "mint", 0, pays, Only(PoolToken, take),
                         slippage, [pays |-> pays, due |-> Only(PoolToken, out)]))
  BY DEF PrepareMint
<1>4. MintQuoted(out)
  BY DEF PrepareMint
<1> HIDE DEF pays
<1>5. out \in Nat
  <2>1. pool \in [1 .. 3 -> Nat] /\ pays \in [1 .. 3 -> Nat]
    BY <1>1 DEF Amounts, Holdings
  <2>2. IF pool[3] = 0 THEN out > 0 ELSE pool[1] > 0 /\ pool[2] > 0
    BY <1>4 DEF MintQuoted, Liquid, PoolToken
  <2> QED
    BY <2>1, <2>2, V11MintType
<1>6. out = V11MintOut(pool, pays)
  OBVIOUS
<1> HIDE DEF out
<1>7. take \in Nat /\ take <= out /\ 100 * take >= out * (100 - slippage) - 100
  BY <1>2, <1>3, <1>5, NegativeSlippage
<1>8. PoolToken \in Holdings /\ "mint" \in Ops /\ 0 \in 0 .. 2
  BY DEF Ops, PoolToken, Holdings
<1>9. Only(PoolToken, take) \in Amounts /\ Only(PoolToken, out) \in Amounts
  BY <1>5, <1>7, <1>8, OnlyType
<1>10. \A h \in Holdings :
        /\ 100 * pays[h] <= pays[h] * (100 + slippage)
        /\ 100 * Only(PoolToken, take)[h]
             >= Only(PoolToken, out)[h] * (100 - slippage) - 100
  <2>1. \A h \in Holdings : pays[h] \in Nat
    BY <1>1 DEF Amounts
  <2> QED
    BY <2>1, <1>2, <1>5, <1>7, <1>8, OnlyIsWithin, ExactIsWithin
<1> DEFINE g == Group(c, "mint", 0, pays, Only(PoolToken, take), slippage,
                      [pays |-> pays, due |-> Only(PoolToken, out)])
<1>11. Priced(g)
  <2>1. /\ g.op = "mint" /\ g.pays = pays
        /\ g.takes = Only(PoolToken, take) /\ g.seen = pool
    BY GroupParts
  <2>2. /\ OnlyOf(Only(PoolToken, take), PoolToken) /\ Only(PoolToken, take)[PoolToken] = take
    BY <1>7, <1>8, OnlyType DEF OnlyOf
  <2> HIDE DEF g
  <2> QED
    BY <1>1, <1>7, <1>6, <2>1, <2>2 DEF Priced
<1>12. IsGroup(c, Group(c, "mint", 0, pays, Only(PoolToken, take),
                        slippage, [pays |-> pays, due |-> Only(PoolToken, out)]))
  BY <1>1, <1>2, <1>8, <1>9, <1>10, <1>11, GroupIsWellMade
<1> QED
  BY <1>3, <1>12

LEMMA BurnIsWellMade ==
  ASSUME TypeOK, NEW c \in Calls, NEW lp \in Burns,
         NEW slippage \in Slippages, PrepareBurn(c, lp, slippage)
  PROVE  \E g : IsGroup(c, g) /\ Prepare(c, g)
<1> DEFINE out == V11BurnOut(pool, lp)
<1>1. lp \in Nat /\ pool \in [1 .. 3 -> Nat]
  BY AmountAssumption DEF TypeOK, Amounts, Holdings
<1>2. slippage \in Nat /\ slippage <= 100
  BY SlippageRange
<1>3. out \in Amounts /\ out[3] = 0
  BY <1>1, V11BurnType DEF Amounts, Holdings
<1>4. PICK take1 \in SlippageAmounts("negative", slippage, out[1]),
           take2 \in SlippageAmounts("negative", slippage, out[2]) :
        Prepare(c, Group(c, "burn", 0, Only(PoolToken, lp),
                         [Nothing EXCEPT ![1] = take1, ![2] = take2],
                         slippage, [pays |-> Only(PoolToken, lp), due |-> out]))
  BY DEF PrepareBurn
<1>5. out = V11BurnOut(pool, lp)
  OBVIOUS
<1> HIDE DEF out
<1>6. out[1] \in Nat /\ out[2] \in Nat
  BY <1>3 DEF Amounts, Holdings
<1>7. /\ take1 \in Nat /\ take1 <= out[1] /\ 100 * take1 >= out[1] * (100 - slippage) - 100
      /\ take2 \in Nat /\ take2 <= out[2] /\ 100 * take2 >= out[2] * (100 - slippage) - 100
  BY <1>2, <1>4, <1>6, NegativeSlippage
<1> DEFINE takes == [Nothing EXCEPT ![1] = take1, ![2] = take2]
<1>8. /\ takes \in Amounts
      /\ takes[1] = take1 /\ takes[2] = take2 /\ takes[3] = 0
  BY <1>7 DEF Nothing, Amounts, Holdings
<1>9. PoolToken \in Holdings /\ "burn" \in Ops /\ 0 \in 0 .. 2
  BY DEF Ops, PoolToken, Holdings
<1>10. Only(PoolToken, lp) \in Amounts
  BY <1>1, <1>9, OnlyType
<1> HIDE DEF takes
<1>11. \A h \in Holdings :
        /\ 100 * Only(PoolToken, lp)[h] <= Only(PoolToken, lp)[h] * (100 + slippage)
        /\ 100 * takes[h] >= out[h] * (100 - slippage) - 100
  <2> TAKE h \in Holdings
  <2>1. 100 * Only(PoolToken, lp)[h] <= Only(PoolToken, lp)[h] * (100 + slippage)
    BY <1>1, <1>2, <1>9, OnlyIsWithin
  <2>2. h \in {1, 2, 3}
    BY DEF Holdings
  <2>3. 100 * takes[h] >= out[h] * (100 - slippage) - 100
    BY <1>2, <1>3, <1>7, <1>8, <2>2
  <2> QED
    BY <2>1, <2>3
<1> DEFINE g == Group(c, "burn", 0, Only(PoolToken, lp), takes, slippage,
                      [pays |-> Only(PoolToken, lp), due |-> out])
<1>12. Priced(g)
  <2>1. /\ g.op = "burn" /\ g.pays = Only(PoolToken, lp) /\ g.takes = takes /\ g.seen = pool
    BY GroupParts
  <2>2. /\ OnlyOf(Only(PoolToken, lp), PoolToken) /\ Only(PoolToken, lp)[PoolToken] = lp
    BY <1>1, <1>9, OnlyType DEF OnlyOf
  <2>3. takes[PoolToken] = 0 /\ \A h \in Assets : takes[h] <= out[h]
    <3>1. \A h \in Assets : h = 1 \/ h = 2
      BY DEF Assets
    <3> QED
      BY <1>7, <1>8, <3>1 DEF PoolToken
  <2> HIDE DEF g
  <2> QED
    BY <1>5, <2>1, <2>2, <2>3 DEF Priced
<1>13. IsGroup(c, Group(c, "burn", 0, Only(PoolToken, lp), takes,
                        slippage, [pays |-> Only(PoolToken, lp), due |-> out]))
  BY <1>2, <1>3, <1>8, <1>9, <1>10, <1>11, <1>12, GroupIsWellMade
<1> QED
  BY <1>4, <1>13 DEF takes

LEMMA RedeemIsWellMade ==
  ASSUME TypeOK, NEW c \in Calls, NEW a \in Holdings, PrepareRedeem(c, a)
  PROVE  \E g : IsGroup(c, g) /\ Prepare(c, g)
<1> DEFINE n == excess[Owner[c]][a]
<1>1. n \in Nat
  BY OwnerIsUser DEF TypeOK, Amounts
<1>2. Prepare(c, Group(c, "redeem", 0, Nothing, Only(a, n), 0,
                       [pays |-> Nothing, due |-> Only(a, n)]))
  BY DEF PrepareRedeem
<1>3. n = excess[Owner[c]][a]
  OBVIOUS
<1> HIDE DEF n
<1>4. /\ Only(a, n) \in Amounts /\ Nothing \in Amounts
      /\ "redeem" \in Ops /\ 0 \in 0 .. 2 /\ 0 \in Nat
  BY <1>1, OnlyType DEF Ops
<1>5. \A h \in Holdings :
        /\ 100 * Nothing[h] <= Nothing[h] * (100 + 0)
        /\ 100 * Only(a, n)[h] >= Only(a, n)[h] * (100 - 0) - 100
  <2>1. \A h \in Holdings : Nothing[h] \in Nat /\ Only(a, n)[h] \in Nat
    BY <1>4 DEF Amounts
  <2> QED
    BY <2>1
<1> DEFINE g == Group(c, "redeem", 0, Nothing, Only(a, n), 0,
                      [pays |-> Nothing, due |-> Only(a, n)])
<1>6. Priced(g)
  <2>1. g.op = "redeem"
    BY GroupParts
  <2> HIDE DEF g
  <2> QED
    BY <2>1 DEF Priced
<1>7. \A h \in Holdings : excess[Owner[c]][h] >= Only(a, n)[h]
  <2>1. Only(a, n)[a] = n /\ \A h \in Holdings \ {a} : Only(a, n)[h] = 0
    BY <1>1, OnlyType
  <2>2. \A h \in Holdings : excess[Owner[c]][h] \in Nat
    BY OwnerIsUser DEF TypeOK, Amounts
  <2> QED
    BY <1>3, <2>1, <2>2
<1>8. IsGroup(c, Group(c, "redeem", 0, Nothing, Only(a, n), 0,
                       [pays |-> Nothing, due |-> Only(a, n)]))
  BY <1>4, <1>5, <1>6, <1>7, GroupIsWellMade
<1> QED
  BY <1>2, <1>8

\* Whatever a call prepares.
LEMMA PreparingMakesGroup ==
  ASSUME TypeOK, NEW c \in Calls, Preparing(c)
  PROVE  \E g : IsGroup(c, g) /\ Prepare(c, g)
BY FixedInputIsWellMade, FixedOutputIsWellMade, MintIsWellMade, BurnIsWellMade,
   RedeemIsWellMade DEF Preparing
-----------------------------------------------------------------------------
(* The invariant.                                                           *)

LEMMA InitEstablishes == Init => IInv
<1> SUFFICES ASSUME Init  PROVE IInv
  OBVIOUS
<1>1. PICK start \in Starts :
        pool = start.pool /\ wallet = [u \in Users |-> start.wallet]
  BY DEF Init
<1>2. start.pool \in Amounts /\ start.wallet \in Amounts /\ InitialExcess \in Amounts
  BY PoolAssumption DEF Amounts
<1>3. /\ excess = [u \in Users |-> InitialExcess]
      /\ pending = {} /\ refused = {} /\ chain = <<>>
      /\ pc = [c \in Calls |-> "idle"]
      /\ group = [c \in Calls |-> None]
      /\ before = [c \in Calls |-> None]
      /\ report = [c \in Calls |-> None]
  BY DEF Init
<1>4. TypeOK
  BY <1>1, <1>2, <1>3 DEF TypeOK
<1>5. Functional
  BY <1>1, <1>3 DEF Functional
<1>6. AllWellMade /\ Honoured
  BY <1>3 DEF AllWellMade, Honoured
<1> QED
  BY <1>4, <1>5, <1>6 DEF IInv

LEMMA PreparePreserves ==
  ASSUME IInv, NEW c \in Calls, NEW g, IsGroup(c, g), Prepare(c, g)
  PROVE  IInv'
<1>1. /\ pc' = [pc EXCEPT ![c] = "generated"]
      /\ group' = [group EXCEPT ![c] = g]
      /\ pool' = pool /\ wallet' = wallet /\ excess' = excess /\ pending' = pending
      /\ chain' = chain /\ refused' = refused /\ before' = before /\ report' = report
  BY DEF Prepare, chainVars
<1>2. g \in Groups /\ g.call = c /\ g.user = Owner[c] /\ WellMade(g)
  BY DEF IsGroup, WellMade
<1>3. TypeOK'
  BY <1>1, <1>2 DEF IInv, TypeOK, Functional
<1>4. Functional'
  BY <1>1 DEF IInv, Functional
<1>5. AllWellMade'
  BY <1>1, <1>2 DEF IInv, AllWellMade, Functional
<1>6. Honoured'
  BY <1>1 DEF IInv, Honoured
<1> QED
  BY <1>3, <1>4, <1>5, <1>6 DEF IInv

\* A step of execute, which changes no group and, at most, hands one to the node.
LEMMA ExecutingPreserves ==
  ASSUME IInv, NEW c \in Calls, Executing(c)
  PROVE  IInv'
<1>1. /\ pool' = pool /\ wallet' = wallet /\ excess' = excess
      /\ chain' = chain /\ refused' = refused /\ group' = group
  BY DEF Executing, SignTxns, ReadBefore, Send, Fails, SeeConfirmed, SeeRefused,
         ReadAfter, chainVars
<1>2. /\ pc[c] # "idle"
      /\ \E x \in {"signed", "sending", "waiting", "confirmed", "done", "failed"} :
           pc' = [pc EXCEPT ![c] = x]
  BY DEF Executing, SignTxns, ReadBefore, Send, Fails, SeeConfirmed, SeeRefused, ReadAfter
<1>3. pending' = pending \/ pending' = pending \cup {group[c]}
  BY DEF Executing, SignTxns, ReadBefore, Send, Fails, SeeConfirmed, SeeRefused,
         ReadAfter, chainVars
<1>4. before' = before \/ before' = [before EXCEPT ![c] = Read(Owner[c])]
  BY DEF Executing, SignTxns, ReadBefore, Send, Fails, SeeConfirmed, SeeRefused, ReadAfter
<1>5. report' = report \/ \E x : report' = [report EXCEPT ![c] = x]
  BY DEF Executing, SignTxns, ReadBefore, Send, Fails, SeeConfirmed, SeeRefused, ReadAfter
<1>6. Read(Owner[c]) \in [excess : Amounts, at : Nat]
  BY OwnerIsUser DEF Read, IInv, TypeOK
<1>7. group[c] \in Groups /\ WellMade(group[c])
  BY <1>2 DEF IInv, TypeOK, AllWellMade
<1>8. TypeOK'
  <2>1. pending' \cup refused' \subseteq Groups
    BY <1>1, <1>3, <1>7 DEF IInv, TypeOK
  <2>2. ASSUME NEW d \in Calls
        PROVE  /\ pc'[d] \in {"idle", "generated", "signed", "sending", "waiting",
                               "confirmed", "done", "failed"}
               /\ IF pc'[d] = "idle" THEN group'[d] = None
                  ELSE group'[d] \in Groups /\ group'[d].call = d
                       /\ group'[d].user = Owner[d]
    BY <1>1, <1>2 DEF IInv, TypeOK, Functional
  <2>3. ASSUME NEW d \in Calls
        PROVE  before'[d] = None \/ before'[d] \in [excess : Amounts, at : Nat]
    BY <1>4, <1>6 DEF IInv, TypeOK, Functional
  <2> QED
    BY <1>1, <2>1, <2>2, <2>3 DEF IInv, TypeOK
<1>9. Functional'
  BY <1>1, <1>2, <1>4, <1>5 DEF IInv, Functional
<1>10. AllWellMade'
  <2>1. \A d \in Calls : pc'[d] # "idle" => pc[d] # "idle"
    BY <1>2 DEF IInv, Functional
  <2> QED
    BY <1>1, <1>3, <1>7, <2>1 DEF IInv, AllWellMade
<1>11. Honoured'
  BY <1>1 DEF IInv, Honoured
<1> QED
  BY <1>8, <1>9, <1>10, <1>11 DEF IInv

LEMMA RejectPreserves ==
  ASSUME IInv, NEW g, Reject(g)
  PROVE  IInv'
<1>1. /\ g \in pending /\ pending' = pending \ {g} /\ refused' = refused \cup {g}
      /\ pool' = pool /\ wallet' = wallet /\ excess' = excess /\ chain' = chain
      /\ pc' = pc /\ group' = group /\ before' = before /\ report' = report
  BY DEF Reject
<1>2. TypeOK' /\ Functional'
  BY <1>1 DEF IInv, TypeOK, Functional
<1>3. AllWellMade' /\ Honoured'
  BY <1>1 DEF IInv, AllWellMade, Honoured
<1> QED
  BY <1>2, <1>3 DEF IInv

LEMMA EntryType ==
  ASSUME NEW S, NEW s \in Seq(S), NEW k \in DOMAIN s
  PROVE  s[k] \in S
<1>1. DOMAIN s = 1 .. Len(s)
  OBVIOUS
<1>2. k \in 1 .. Len(s)
  BY <1>1
<1> QED
  BY <1>2

\* The arithmetic of an executed group.
LEMMA AccountsStayNatural ==
  ASSUME NEW f \in Amounts, NEW pays \in Amounts, NEW takes \in Amounts,
         \A a \in Holdings : f[a] >= pays[a]
  PROVE  /\ Plus(Minus(f, pays), takes) \in Amounts
         /\ Minus(Plus(f, takes), pays) \in Amounts
BY DEF Plus, Minus, Amounts

LEMMA ApplyPreserves ==
  ASSUME IInv, NEW g, Apply(g)
  PROVE  IInv'
<1> DEFINE due == Due(g, pool)
           entry == [group |-> g, due |-> due]
           u == g.user
<1>1. /\ g \in pending /\ Executable(g) /\ pending' = pending \ {g}
      /\ chain' = Append(chain, entry)
      /\ pool' = PoolAfter(g, pool)
      /\ wallet' = [wallet EXCEPT ![u] = Plus(Minus(wallet[u], g.pays), g.takes)]
      /\ excess' = [excess EXCEPT ![u] = Minus(Plus(excess[u], due), g.takes)]
      /\ refused' = refused /\ pc' = pc /\ group' = group
      /\ before' = before /\ report' = report
  BY DEF Apply
<1>2. g \in Groups /\ WellMade(g)
  BY <1>1 DEF IInv, AllWellMade, TypeOK
<1>3. /\ u \in Users /\ g.pays \in Amounts /\ g.takes \in Amounts
      /\ wallet[u] \in Amounts /\ excess[u] \in Amounts /\ pool \in Amounts
  BY <1>2 DEF Groups, IInv, TypeOK
<1>4. due \in Amounts /\ PoolAfter(g, pool) \in Amounts
  <2>1. CASE g.op = "redeem"
    <3>1. Due(g, pool) = Nothing /\ g.pays = Nothing
      BY <1>2, <2>1 DEF Due, WellMade
    <3>2. Nothing \in Amounts /\ \A a \in Holdings : Nothing[a] = 0
      BY DEF Nothing, Amounts
    <3>3. Nothing[1] = 0 /\ Nothing[2] = 0 /\ Nothing[PoolToken] = 0
      BY <3>2 DEF PoolToken, Holdings
    <3>4. PoolAfter(g, pool) \in Amounts
      BY <1>3, <3>1, <3>3 DEF PoolAfter, Amounts, PoolToken, Holdings
    <3> QED
      BY <3>1, <3>2, <3>4
  <2>2. CASE g.op # "redeem"
    BY <1>1, <2>2 DEF Executable
  <2> QED
    BY <2>1, <2>2
<1>5. \A a \in Holdings :
        /\ wallet[u][a] >= g.pays[a]
        /\ excess[u][a] + due[a] >= g.takes[a]
        /\ g.op # "redeem" => due[a] >= g.takes[a]
  <2> TAKE a \in Holdings
  <2>1. excess[u][a] \in Nat /\ due[a] \in Nat /\ g.takes[a] \in Nat
    BY <1>3, <1>4 DEF Amounts
  <2>2. /\ wallet[u][a] >= g.pays[a]
        /\ IF g.op = "redeem" THEN excess[u][a] >= g.takes[a] ELSE due[a] >= g.takes[a]
    BY <1>1 DEF Executable
  <2> QED
    BY <2>1, <2>2
<1> HIDE DEF due
<1>6. Plus(Minus(wallet[u], g.pays), g.takes) \in Amounts
  BY <1>3, <1>5, AccountsStayNatural
<1>7. Minus(Plus(excess[u], due), g.takes) \in Amounts
  BY <1>3, <1>4, <1>5 DEF Plus, Minus, Amounts
<1>8. TypeOK'
  <2>1. \A v \in Users : wallet'[v] \in Amounts /\ excess'[v] \in Amounts
    BY <1>1, <1>3, <1>6, <1>7 DEF IInv, TypeOK, Functional
  <2>2. chain' \in Seq([group : Groups, due : Amounts])
    BY <1>1, <1>2, <1>4 DEF IInv, TypeOK
  <2> QED
    BY <1>1, <1>4, <2>1, <2>2 DEF IInv, TypeOK
<1>9. Functional'
  BY <1>1 DEF IInv, Functional
<1>10. \A k \in DOMAIN chain' :
         \/ k \in DOMAIN chain /\ chain'[k] = chain[k]
         \/ chain'[k] = entry
  <2>1. chain \in Seq([group : Groups, due : Amounts])
    BY DEF IInv, TypeOK
  <2>2. /\ DOMAIN chain = 1 .. Len(chain) /\ DOMAIN chain' = 1 .. Len(chain) + 1
        /\ \A k \in 1 .. Len(chain) : chain'[k] = chain[k]
        /\ chain'[Len(chain) + 1] = entry /\ Len(chain) \in Nat
    BY <1>1, <1>2, <1>4, <2>1
  <2> QED
    BY <2>2
<1>11. AllWellMade'
  <2>1. \A k \in DOMAIN chain' : WellMade(chain'[k].group)
    BY <1>2, <1>10 DEF IInv, AllWellMade
  <2> QED
    BY <1>1, <2>1 DEF IInv, AllWellMade
<1>12. Honoured'
  BY <1>5, <1>10 DEF IInv, Honoured
<1> QED
  BY <1>8, <1>9, <1>11, <1>12 DEF IInv

THEOREM IInvInductive == IInv /\ [Next]_vars => IInv'
<1> SUFFICES ASSUME IInv, [Next]_vars  PROVE IInv'
  OBVIOUS
<1>1. ASSUME NEW c \in Calls, Preparing(c)
      PROVE  IInv'
  BY <1>1, PreparingMakesGroup, PreparePreserves DEF IInv
<1>2. ASSUME NEW c \in Calls, Executing(c)
      PROVE  IInv'
  BY <1>2, ExecutingPreserves
<1>3. CASE ChainNext
  BY <1>3, ApplyPreserves, RejectPreserves DEF ChainNext
<1>4. CASE UNCHANGED vars
  BY <1>4 DEF vars, chainVars, IInv, TypeOK, Functional, AllWellMade, Honoured
<1> QED
  BY <1>1, <1>2, <1>3, <1>4 DEF Next

THEOREM InvariantHolds == Spec => []IInv
  BY InitEstablishes, IInvInductive, PTL DEF Spec
-----------------------------------------------------------------------------
(* The theorems.                                                            *)

(***************************************************************************)
(* No amount of a group, a reserve, a wallet or an excess is ever          *)
(* negative, so that every group generateTxns builds can be encoded.       *)
(***************************************************************************)
THEOREM TypeCorrect == Spec => []TypeOK
<1>1. IInv => TypeOK
  BY DEF IInv
<1> QED
  BY <1>1, InvariantHolds, PTL

(***************************************************************************)
(* Whatever else the pool executed between a quote and its group, a swap,  *)
(* a deposit or a withdrawal cost at most the quote and the tolerance, and *)
(* brought at least the quote less the tolerance, excess included.         *)
(***************************************************************************)
THEOREM TradesStayWithinTolerance == Spec => []TradesWithinTolerance
<1>1. IInv => TradesWithinTolerance
  <2> SUFFICES ASSUME IInv, NEW k \in DOMAIN chain, chain[k].group.op # "redeem",
                      NEW a \in Holdings
               PROVE  LET g    == chain[k].group
                          due  == chain[k].due
                          back == IF g.op = "FixedOutput"
                                  THEN Only(g.assetIn, due[g.assetIn]) ELSE Nothing
                      IN  /\ 100 * (g.pays[a] - back[a])
                               <= g.quoted.pays[a] * (100 + g.slippage)
                          /\ 100 * due[a] >= g.quoted.due[a] * (100 - g.slippage) - 100
    BY DEF TradesWithinTolerance
  <2> DEFINE g    == chain[k].group
             due  == chain[k].due
             back == IF g.op = "FixedOutput"
                     THEN Only(g.assetIn, due[g.assetIn]) ELSE Nothing
             low  == g.quoted.due[a] * (100 - g.slippage)
             high == g.quoted.pays[a] * (100 + g.slippage)
  <2>1. WellMade(g) /\ due \in Amounts
    <3>1. chain \in Seq([group : Groups, due : Amounts])
      BY DEF IInv, TypeOK
    <3>2. chain[k] \in [group : Groups, due : Amounts]
      BY <3>1, EntryType
    <3> QED
      BY <3>2 DEF IInv, AllWellMade
  <2>2. /\ g \in Groups /\ 100 * g.pays[a] <= high
        /\ 100 * g.takes[a] >= low - 100
    BY <2>1 DEF WellMade
  <2>3. /\ g.pays[a] \in Nat /\ g.takes[a] \in Nat /\ due[a] \in Nat
        /\ g.quoted.due[a] \in Nat /\ g.quoted.pays[a] \in Nat /\ g.slippage \in Nat
    BY <2>1, <2>2 DEF Groups, Amounts
  <2>4. due[a] >= g.takes[a]
    BY DEF IInv, Honoured
  <2>5. back[a] \in Nat
    <3>1. back[a] = 0 \/ back[a] = due[a]
      BY DEF Only, Nothing, Holdings
    <3> QED
      BY <2>3, <3>1
  <2>6. low \in Int /\ high \in Int
    BY <2>3, Z3
  <2> HIDE DEF low, high, back, due, g
  <2>7. 100 * (g.pays[a] - back[a]) <= high /\ 100 * due[a] >= low - 100
    BY <2>2, <2>3, <2>4, <2>5, <2>6
  <2> QED
    BY <2>7 DEF low, high, back, due, g
<1> QED
  BY <1>1, InvariantHolds, PTL
-----------------------------------------------------------------------------
(* Every group is executed at most once.                                    *)

Past == {"waiting", "confirmed", "done", "failed"}

\* Only calls that have sent their group have one on the chain or pending, and it is not
\* both or twice on the chain.
Once ==
  /\ \A g \in pending : g = group[g.call] /\ pc[g.call] \in Past
  /\ \A k \in DOMAIN chain :
       /\ chain[k].group = group[chain[k].group.call] /\ pc[chain[k].group.call] \in Past
       /\ chain[k].group \notin pending
       /\ \A j \in DOMAIN chain : chain[j].group = chain[k].group => j = k

\* The pool tokens issued cover those of the users and those owed to them.
Held(w, e) == [u \in Users |-> w[u][PoolToken] + e[u][PoolToken]]
Covered == Total(Held(wallet, excess), Users) <= pool[PoolToken]

\* The pool still owes what a redeem takes, or the user has redeemed.
Backed(c) ==
  pc[c] # "idle" /\ group[c].op = "redeem" =>
    \/ \E k \in DOMAIN chain : chain[k].group.op = "redeem" /\ chain[k].group.user = Owner[c]
    \/ \A a \in Holdings : excess[Owner[c]][a] >= group[c].takes[a]

\* No other group of the call's user has been executed since the call's first read.
Quiet(c) ==
  \A k \in before[c].at + 1 .. Len(chain) :
    chain[k].group.user = Owner[c] => chain[k].group = group[c]

Gained(c, k, a) == chain[k].due[a] - group[c].takes[a]

\* Between its two reads, the user's excess is what was read, and what the call's own
\* group has brought.
Tracked(c) ==
  pc[c] \in {"sending", "waiting", "confirmed"} /\ group[c].op # "redeem" =>
    /\ before[c] \in [excess : Amounts, at : 0 .. Len(chain)]
    /\ \A k \in DOMAIN chain : chain[k].group = group[c] => k > before[c].at
    /\ Quiet(c) =>
         /\ Executed(group[c]) \/ excess[Owner[c]] = before[c].excess
         /\ \A k \in DOMAIN chain : chain[k].group = group[c] => \A a \in Holdings :
              excess[Owner[c]][a] = before[c].excess[a] + Gained(c, k, a)

\* What UndisturbedReportIsExact says of one call.
Exact(c) ==
  \A k \in DOMAIN chain :
    LET g    == group[c]
        due  == chain[k].due
        made == report[c].made
    IN  /\ pc[c] = "done" /\ g.op # "redeem" /\ chain[k].group = g /\ Undisturbed(c)
        /\ g.op \in SwapTypes => ExcessOf(g) = {2}
        => /\ \A a \in ExcessOf(g) : made.excess[a] = due[a] - g.takes[a]
           /\ g.op = "FixedInput" /\ HasAlgo => made.out = due[2]
           /\ g.op = "FixedOutput" /\ HasAlgo => made.in = g.pays[2] - due[2]
           /\ g.op = "burn" /\ HasAlgo => made.out[2] = due[2]

Reported(c) ==
  /\ pc[c] = "confirmed" => Executed(group[c])
  /\ pc[c] = "done" /\ group[c].op # "redeem" =>
       /\ Executed(group[c]) /\ before[c].at \in Nat /\ report[c].at \in Nat
       /\ report[c].at <= Len(chain)
       /\ Exact(c)

SInv ==
  /\ IInv /\ Once /\ Covered
  /\ \A c \in Calls : Backed(c) /\ Tracked(c) /\ Reported(c)
-----------------------------------------------------------------------------
(* What the contract makes of a group on the pool the SDK saw.              *)

LEMMA PoolAfterParts ==
  ASSUME NEW g \in Groups, NEW p \in Amounts, Due(g, p) \in Amounts
  PROVE  /\ DOMAIN PoolAfter(g, p) = Holdings
         /\ PoolAfter(g, p)[1] = p[1] + g.pays[1] - Due(g, p)[1]
         /\ PoolAfter(g, p)[2] = p[2] + g.pays[2] - Due(g, p)[2]
         /\ PoolAfter(g, p)[PoolToken] = p[PoolToken] + Due(g, p)[PoolToken] - g.pays[PoolToken]
         /\ /\ p[1] + g.pays[1] >= Due(g, p)[1] /\ p[2] + g.pays[2] >= Due(g, p)[2]
            /\ p[PoolToken] + Due(g, p)[PoolToken] >= g.pays[PoolToken]
            => PoolAfter(g, p) \in Amounts
<1> DEFINE due == Due(g, p)
           x == p[1] + g.pays[1] - due[1]
           y == p[2] + g.pays[2] - due[2]
           z == p[3] + due[3] - g.pays[3]
<1>1. g.pays \in Amounts
  BY DEF Groups
<1>2. PoolAfter(g, p) = [p EXCEPT ![1] = x, ![2] = y, ![3] = z]
  BY DEF PoolAfter, PoolToken
<1>3. x \in Int /\ y \in Int /\ z \in Int
  BY <1>1 DEF Amounts, Holdings
<1>4. /\ p[1] + g.pays[1] >= due[1] => x >= 0
      /\ p[2] + g.pays[2] >= due[2] => y >= 0
      /\ p[3] + due[3] >= g.pays[3] => z >= 0
  BY <1>1 DEF Amounts, Holdings
<1>5. x = p[1] + g.pays[1] - due[1] /\ y = p[2] + g.pays[2] - due[2]
      /\ z = p[3] + due[3] - g.pays[3]
  OBVIOUS
<1> HIDE DEF due, x, y, z
<1>6. DOMAIN PoolAfter(g, p) = Holdings /\ PoolAfter(g, p)[1] = x /\ PoolAfter(g, p)[2] = y
      /\ PoolAfter(g, p)[3] = z
  BY <1>2 DEF Amounts, Holdings
<1>7. x >= 0 /\ y >= 0 /\ z >= 0 => PoolAfter(g, p) \in Amounts
  BY <1>2, <1>3 DEF Amounts, Holdings
<1> QED
  BY <1>4, <1>5, <1>6, <1>7 DEF PoolToken, due

Fits(g, p) ==
  /\ g.op = "FixedOutput" => p[Other(g.assetIn)] > g.takes[Other(g.assetIn)]
  /\ Due(g, p) \in Amounts /\ PoolAfter(g, p) \in Amounts
  /\ \A a \in Holdings : Due(g, p)[a] >= g.takes[a]

LEMMA HoldingsAre == Holdings = {1, 2, 3} /\ Assets = {1, 2} /\ PoolToken = 3
  BY DEF Holdings, Assets, PoolToken

LEMMA FixedInputFits ==
  ASSUME NEW g \in Groups, Priced(g), g.op = "FixedInput"
  PROVE  Fits(g, g.seen)
<1> DEFINE p == g.seen
           a == g.assetIn
           b == Other(g.assetIn)
           out == V11FixedInputOut(p[a], p[b], g.pays[a])
<1>1. p \in Amounts /\ g.pays \in Amounts /\ g.takes \in Amounts
  BY DEF Groups
<1>2. /\ a \in Assets /\ g.pays[a] > 0 /\ OnlyOf(g.pays, a) /\ OnlyOf(g.takes, b)
      /\ g.takes[b] <= out
  BY DEF Priced
<1>3. a \in Holdings /\ b \in Holdings /\ b \in Assets /\ a # b
  BY <1>2, HoldingsAre DEF Other
<1>4. Due(g, p) = Only(b, out)
  BY DEF Due
<1>5. out \in Nat /\ out <= p[b]
  <2>1. p[a] \in Nat /\ p[b] \in Nat /\ g.pays[a] \in Nat \ {0}
    <3>1. \A h \in Holdings : p[h] \in Nat /\ g.pays[h] \in Nat
      BY <1>1 DEF Amounts
    <3> QED
      BY <1>2, <1>3, <3>1
  <2> HIDE DEF p, a, b
  <2> QED
    BY <2>1, V11FixedInputType
<1> HIDE DEF out
<1>6. /\ Due(g, p) \in Amounts /\ Due(g, p)[b] = out
      /\ \A h \in Holdings \ {b} : Due(g, p)[h] = 0
  BY <1>3, <1>4, <1>5, OnlyType
<1>7. \A h \in Holdings : p[h] \in Nat /\ g.pays[h] \in Nat /\ g.takes[h] \in Nat
  BY <1>1 DEF Amounts
<1>8. \A h \in Holdings : Due(g, p)[h] >= g.takes[h]
  BY <1>2, <1>3, <1>5, <1>6, <1>7 DEF OnlyOf
<1>9. g.pays[3] = 0
  BY <1>2, <1>3, HoldingsAre DEF OnlyOf
<1> HIDE DEF a, b, p
<1>10. /\ p[1] + g.pays[1] >= Due(g, p)[1] /\ p[2] + g.pays[2] >= Due(g, p)[2]
       /\ p[3] + Due(g, p)[3] >= g.pays[3]
  BY <1>3, <1>5, <1>6, <1>7, <1>9, HoldingsAre
<1>11. PoolAfter(g, p) \in Amounts
  BY <1>1, <1>6, <1>10, PoolAfterParts, HoldingsAre
<1> QED
  BY <1>6, <1>8, <1>11 DEF Fits, p

LEMMA FixedOutputFits ==
  ASSUME NEW g \in Groups, Priced(g), g.op = "FixedOutput"
  PROVE  Fits(g, g.seen)
<1> DEFINE p == g.seen
           a == g.assetIn
           b == Other(g.assetIn)
           in == V11FixedOutputIn(p[a], p[b], g.takes[b])
           due == [Only(b, g.takes[b]) EXCEPT ![a] = g.pays[a] - in]
<1>1. p \in Amounts /\ g.pays \in Amounts /\ g.takes \in Amounts
  BY DEF Groups
<1>2. /\ a \in Assets /\ OnlyOf(g.pays, a) /\ OnlyOf(g.takes, b)
      /\ g.takes[b] < p[b] /\ in <= g.pays[a]
  BY DEF Priced
<1>3. a \in Holdings /\ b \in Holdings /\ b \in Assets /\ a # b
  BY <1>2, HoldingsAre DEF Other
<1>4. Due(g, p) = due
  BY DEF Due
<1>5. \A h \in Holdings : p[h] \in Nat /\ g.pays[h] \in Nat /\ g.takes[h] \in Nat
  BY <1>1 DEF Amounts
<1>6. in \in Nat
  BY <1>2, <1>3, <1>5, V11FixedOutputType
<1> HIDE DEF in
<1>7. /\ due \in Amounts /\ due[a] = g.pays[a] - in /\ due[b] = g.takes[b]
      /\ \A h \in Holdings \ {a, b} : due[h] = 0
  <2>1. /\ Only(b, g.takes[b]) \in Amounts /\ Only(b, g.takes[b])[b] = g.takes[b]
        /\ \A h \in Holdings \ {b} : Only(b, g.takes[b])[h] = 0
    BY <1>3, <1>5, OnlyType
  <2>2. g.pays[a] - in \in Nat
    BY <1>2, <1>3, <1>5, <1>6
  <2> QED
    BY <1>3, <2>1, <2>2 DEF Amounts
<1> HIDE DEF due
<1>8. \A h \in Holdings : due[h] >= g.takes[h]
  <2> TAKE h \in Holdings
  <2>1. CASE h = b
    BY <1>3, <1>5, <1>7, <2>1
  <2>2. CASE h # b
    <3>1. g.takes[h] = 0 /\ due[h] \in Nat
      BY <1>2, <1>7, <2>2 DEF OnlyOf, Amounts
    <3> QED
      BY <3>1
  <2> QED
    BY <2>1, <2>2
<1>9. g.pays[3] = 0
  BY <1>2, <1>3, HoldingsAre DEF OnlyOf
<1> HIDE DEF a, b, p
<1>10. /\ p[1] + g.pays[1] >= due[1] /\ p[2] + g.pays[2] >= due[2]
       /\ p[3] + due[3] >= g.pays[3]
  <2>1. p[a] + g.pays[a] >= due[a] /\ p[b] + g.pays[b] >= due[b]
    <3>1. /\ p[a] \in Nat /\ g.pays[a] \in Nat /\ p[b] \in Nat /\ g.pays[b] \in Nat
          /\ g.takes[b] \in Nat /\ g.takes[b] < p[b]
          /\ due[a] = g.pays[a] - in /\ due[b] = g.takes[b]
      BY <1>2, <1>3, <1>5, <1>7
    <3> QED
      BY <1>6, <3>1
  <2>2. p[3] \in Nat /\ due[3] = 0
    <3>1. 3 \in Holdings \ {a, b}
      BY <1>2, <1>3, HoldingsAre
    <3> QED
      BY <1>5, <1>7, <3>1
  <2>3. (a = 1 /\ b = 2) \/ (a = 2 /\ b = 1)
    BY <1>2, <1>3, HoldingsAre
  <2> QED
    BY <1>9, <2>1, <2>2, <2>3
<1>11. PoolAfter(g, p) \in Amounts
  BY <1>1, <1>4, <1>7, <1>10, PoolAfterParts, HoldingsAre
<1> QED
  BY <1>2, <1>3, <1>4, <1>5, <1>7, <1>8, <1>11 DEF Fits, p, b

LEMMA MintFits ==
  ASSUME NEW g \in Groups, Priced(g), g.op = "mint", Liquid(g.seen)
  PROVE  Fits(g, g.seen)
<1> DEFINE p == g.seen
           out == V11MintOut(p, g.pays)
<1>1. p \in Amounts /\ g.pays \in Amounts /\ g.takes \in Amounts
  BY DEF Groups
<1>2. /\ g.pays[3] = 0 /\ OnlyOf(g.takes, 3) /\ g.takes[3] <= out
  BY HoldingsAre DEF Priced
<1>3. Due(g, p) = Only(3, out)
  BY HoldingsAre DEF Due
<1>4. \A h \in Holdings : p[h] \in Nat /\ g.pays[h] \in Nat /\ g.takes[h] \in Nat
  BY <1>1 DEF Amounts
<1>5. out \in Nat
  BY <1>1, <1>4, V11MintType, HoldingsAre DEF Liquid, Amounts, Holdings
<1> HIDE DEF out
<1>6. /\ Due(g, p) \in Amounts /\ Due(g, p)[3] = out
      /\ \A h \in Holdings \ {3} : Due(g, p)[h] = 0
  BY <1>3, <1>5, OnlyType, HoldingsAre
<1>7. \A h \in Holdings : Due(g, p)[h] >= g.takes[h]
  BY <1>2, <1>4, <1>5, <1>6, HoldingsAre DEF OnlyOf
<1>8. PoolAfter(g, p) \in Amounts
  <2> HIDE DEF p
  <2>1. /\ p[1] + g.pays[1] >= Due(g, p)[1] /\ p[2] + g.pays[2] >= Due(g, p)[2]
        /\ p[3] + Due(g, p)[3] >= g.pays[3]
    BY <1>2, <1>4, <1>5, <1>6, HoldingsAre
  <2> QED
    BY <1>1, <1>6, <2>1, PoolAfterParts, HoldingsAre
<1> QED
  BY <1>6, <1>7, <1>8 DEF Fits

LEMMA BurnFits ==
  ASSUME NEW g \in Groups, Priced(g), g.op = "burn", g.pays[PoolToken] <= g.seen[PoolToken]
  PROVE  Fits(g, g.seen)
<1> DEFINE p == g.seen
           out == V11BurnOut(p, g.pays[3])
<1>1. p \in Amounts /\ g.pays \in Amounts /\ g.takes \in Amounts
  BY DEF Groups
<1>2. g.takes[3] = 0 /\ (\A h \in Assets : g.takes[h] <= out[h]) /\ g.pays[3] <= p[3]
  BY HoldingsAre DEF Priced
<1>3. Due(g, p) = out
  BY HoldingsAre DEF Due
<1>4. \A h \in Holdings : p[h] \in Nat /\ g.pays[h] \in Nat /\ g.takes[h] \in Nat
  BY <1>1 DEF Amounts
<1>5. out \in Amounts /\ out[3] = 0 /\ \A h \in Holdings : out[h] <= p[h]
  BY <1>1, <1>2, <1>4, V11BurnType, V11BurnAtMost, HoldingsAre DEF Amounts, Holdings
<1> HIDE DEF out
<1>6. \A h \in Holdings : out[h] >= g.takes[h]
  BY <1>2, <1>4, <1>5, HoldingsAre DEF Amounts
<1>7. PoolAfter(g, p) \in Amounts
  <2> HIDE DEF p
  <2>0. \A h \in Holdings : out[h] \in Nat
    BY <1>5 DEF Amounts
  <2>1. /\ p[1] + g.pays[1] >= out[1] /\ p[2] + g.pays[2] >= out[2]
        /\ p[3] + out[3] >= g.pays[3]
    BY <1>2, <1>4, <1>5, <2>0, HoldingsAre
  <2> QED
    BY <1>1, <1>3, <1>5, <2>1, PoolAfterParts, HoldingsAre
<1> QED
  BY <1>3, <1>5, <1>6, <1>7 DEF Fits
\* What execute makes of an excess that grew by what the group brought.
LEMMA ReportOfGain ==
  ASSUME NEW g \in Groups, Priced(g), g.op # "redeem",
         NEW b \in Amounts, NEW now \in Amounts, NEW due \in Amounts,
         \A a \in Holdings : now[a] = b[a] + (due[a] - g.takes[a]) /\ due[a] >= g.takes[a],
         g.op \in SwapTypes => ExcessOf(g) = {2}
  PROVE  LET made == ExecutionReport(g, b, now)
         IN  /\ \A a \in ExcessOf(g) : made.excess[a] = due[a] - g.takes[a]
             /\ g.op = "FixedInput" /\ HasAlgo => made.out = due[2]
             /\ g.op = "FixedOutput" /\ HasAlgo => made.in = g.pays[2] - due[2]
             /\ g.op = "burn" /\ HasAlgo => made.out[2] = due[2]
<1> DEFINE made == ExecutionReport(g, b, now)
<1>1. \A h \in Holdings : /\ g.pays[h] \in Nat /\ g.takes[h] \in Nat /\ due[h] \in Nat
                          /\ b[h] \in Nat /\ now[h] \in Nat
  BY DEF Groups, Amounts
<1>2. \A h \in Holdings : Delta(b, now, h) = due[h] - g.takes[h]
  BY <1>1 DEF Delta
<1>3. g.op \in {"FixedInput", "FixedOutput", "mint", "burn"}
  BY DEF Groups, Ops, SwapTypes
<1>4. CASE g.op \in SwapTypes
  <2>1. made = SwapReport(g, b, now)
    BY <1>4 DEF ExecutionReport, SwapTypes
  <2> DEFINE d == Delta(b, now, 2)
             in == ReadAmount(g.assetIn, g.pays[g.assetIn])
             out == ReadAmount(Other(g.assetIn), g.takes[Other(g.assetIn)])
             x == IF g.op = "FixedInput" THEN in ELSE in - d
             y == IF g.op = "FixedInput" THEN out + d ELSE out
             e == Only(2, d)
             i == ReadAssetId(g.assetIn)
             o == ReadAssetId(Other(g.assetIn))
  <2>2. \A h : ReadAssetId(h) # 1
    BY DEF ReadAssetId, Algo
  <2>3. made = [assetIn |-> i, assetOut |-> o, in |-> x, out |-> y, excess |-> e]
    BY <2>1, <2>2 DEF SwapReport
  <2>4. d = due[2] - g.takes[2] /\ d \in Nat
    BY <1>1, <1>2, HoldingsAre
  <2>5. e[2] = d
    <3> HIDE DEF d
    <3> QED
      BY <2>4, OnlyType, HoldingsAre
  <2>6. (g.op = "FixedInput" /\ HasAlgo => y = due[2])
        /\ (g.op = "FixedOutput" /\ HasAlgo => x = g.pays[2] - due[2])
    <3>1. CASE g.op = "FixedInput"
      <4>1. Other(g.assetIn) = 2
        BY <1>4, <3>1 DEF ExcessOf
      <4>2. HasAlgo => out = g.takes[2]
        BY <4>1 DEF ReadAmount
      <4> HIDE DEF d, out, in
      <4> QED
        BY <1>1, <2>4, <3>1, <4>2, HoldingsAre
    <3>2. CASE g.op = "FixedOutput"
      <4>1. g.assetIn = 2
        BY <1>4, <3>2 DEF ExcessOf
      <4>2. HasAlgo => in = g.pays[2]
        BY <4>1 DEF ReadAmount
      <4>3. g.takes[2] = 0
        BY <3>2, <4>1, HoldingsAre DEF Priced, OnlyOf, Other
      <4> HIDE DEF d, out, in
      <4> QED
        BY <1>1, <2>4, <3>2, <4>2, <4>3, HoldingsAre
    <3> QED
      BY <1>4, <3>1, <3>2 DEF SwapTypes
  <2> HIDE DEF d, in, out, x, y, e, i, o
  <2>7. made.in = x /\ made.out = y /\ made.excess = e
    BY <2>3
  <2>8. \A a \in ExcessOf(g) : made.excess[a] = due[a] - g.takes[a]
    BY <1>4, <2>4, <2>5, <2>7
  <2> QED
    BY <1>4, <2>6, <2>7, <2>8 DEF SwapTypes
<1>5. CASE g.op = "mint"
  <2> DEFINE d == Delta(b, now, 3)
             e == Only(3, d)
             y == ReadAmount(3, g.takes[3]) + d
  <2>1. made = [out |-> y, excess |-> e]
    BY <1>5, HoldingsAre DEF ExecutionReport, MintReport
  <2>2. d = due[3] - g.takes[3] /\ d \in Nat
    BY <1>1, <1>2, HoldingsAre
  <2>3. e[3] = d
    <3> HIDE DEF d
    <3> QED
      BY <2>2, OnlyType, HoldingsAre
  <2> HIDE DEF d, e, y
  <2>4. made.excess = e /\ ExcessOf(g) = {3}
    BY <1>5, <2>1, HoldingsAre DEF ExcessOf
  <2> QED
    BY <1>5, <2>2, <2>3, <2>4
<1>6. CASE g.op = "burn"
  <2> DEFINE d == [Nothing EXCEPT ![1] = Delta(b, now, 1), ![2] = Delta(b, now, 2)]
             y == [a \in Assets |-> ReadAmount(a, g.takes[a]) + d[a]]
  <2>1. made = [out |-> y, excess |-> d]
    BY <1>6 DEF ExecutionReport, BurnReport
  <2>2. d[1] = due[1] - g.takes[1] /\ d[2] = due[2] - g.takes[2]
    BY <1>2, HoldingsAre DEF Nothing
  <2>3. HasAlgo => y[2] = due[2]
    <3>1. y[2] = ReadAmount(2, g.takes[2]) + d[2]
      BY HoldingsAre
    <3> HIDE DEF y, d
    <3>2. HasAlgo => ReadAmount(2, g.takes[2]) = g.takes[2]
      BY DEF ReadAmount
    <3> QED
      BY <1>1, <2>2, <3>1, <3>2, HoldingsAre
  <2> HIDE DEF d, y
  <2>4. made.excess = d /\ made.out = y /\ ExcessOf(g) = {1, 2}
    BY <1>6, <2>1, HoldingsAre DEF ExcessOf
  <2> QED
    BY <1>6, <2>2, <2>3, <2>4
<1> QED
  BY <1>3, <1>4, <1>5, <1>6 DEF SwapTypes
-----------------------------------------------------------------------------
(* The steps.                                                               *)

\* What a group of a call that has started is.
LEMMA GroupOf ==
  ASSUME IInv, NEW c \in Calls, pc[c] # "idle"
  PROVE  group[c] \in Groups /\ group[c].call = c /\ group[c].user = Owner[c] /\ Priced(group[c])
  BY DEF IInv, TypeOK, AllWellMade, WellMade

LEMMA ChainParts ==
  ASSUME IInv
  PROVE  /\ DOMAIN chain = 1 .. Len(chain) /\ Len(chain) \in Nat
         /\ \A k \in DOMAIN chain : chain[k].group \in Groups /\ chain[k].due \in Amounts
         /\ \A g \in pending : g \in Groups
<1>1. chain \in Seq([group : Groups, due : Amounts])
  BY DEF IInv, TypeOK
<1>2. \A k \in DOMAIN chain : chain[k] \in [group : Groups, due : Amounts]
  BY <1>1, EntryType
<1> QED
  BY <1>1, <1>2 DEF IInv, TypeOK

\* Nothing is on the chain or pending of a call that has not sent.
LEMMA NotSent ==
  ASSUME SInv, NEW c \in Calls, pc[c] \notin Past
  PROVE  /\ \A k \in DOMAIN chain : chain[k].group.call # c /\ chain[k].group # group[c]
         /\ \A g \in pending : g.call # c
<1>1. \A k \in DOMAIN chain : chain[k].group.call # c
  BY DEF SInv, Once
<1>2. ASSUME NEW k \in DOMAIN chain, chain[k].group = group[c]
      PROVE  FALSE
  <2>1. CASE pc[c] = "idle"
    <3>1. group[c] = None
      BY <2>1 DEF SInv, IInv, TypeOK
    <3>2. chain[k].group \in Groups
      BY ChainParts DEF SInv
    <3>3. "call" \in DOMAIN chain[k].group
      BY <3>2 DEF Groups
    <3>4. "call" \notin DOMAIN None
      BY DEF None
    <3> QED
      BY <1>2, <3>1, <3>3, <3>4
  <2>2. CASE pc[c] # "idle"
    BY <1>1, <1>2, <2>2, GroupOf DEF SInv
  <2> QED
    BY <2>1, <2>2
<1> QED
  BY <1>1, <1>2 DEF SInv, Once

\* What a call knows depends on itself and the chain.
LEMMA OtherCalls ==
  ASSUME SInv, NEW d \in Calls, chain' = chain, excess' = excess,
         pc'[d] = pc[d], group'[d] = group[d], before'[d] = before[d], report'[d] = report[d]
  PROVE  Backed(d)' /\ Tracked(d)' /\ Reported(d)'
<1>1. Backed(d) /\ Tracked(d) /\ Reported(d)
  BY DEF SInv
<1>2. Executed(group[d])' <=> Executed(group[d])
  BY DEF Executed
<1>3. Backed(d)'
  BY <1>1 DEF Backed
<1>4. Quiet(d)' <=> Quiet(d)
  BY DEF Quiet
<1>5. Tracked(d)'
  BY <1>1, <1>2, <1>4 DEF Tracked, Gained
<1>6. Undisturbed(d)' <=> Undisturbed(d)
  BY DEF Undisturbed
<1>7. Exact(d)' <=> Exact(d)
  BY <1>6 DEF Exact
<1> QED
  BY <1>1, <1>2, <1>3, <1>5, <1>7 DEF Reported

LEMMA PrepareKeeps ==
  ASSUME SInv, NEW c \in Calls, NEW g, IsGroup(c, g), Prepare(c, g)
  PROVE  SInv'
<1>1. /\ pc[c] = "idle" /\ pc' = [pc EXCEPT ![c] = "generated"]
      /\ group' = [group EXCEPT ![c] = g]
      /\ pool' = pool /\ wallet' = wallet /\ excess' = excess /\ pending' = pending
      /\ chain' = chain /\ refused' = refused /\ before' = before /\ report' = report
  BY DEF Prepare, chainVars
<1>2. Functional /\ IInv'
  BY PreparePreserves DEF SInv, IInv
<1>3. /\ pc'[c] = "generated" /\ group'[c] = g
      /\ \A d \in Calls \ {c} : pc'[d] = pc[d] /\ group'[d] = group[d]
  BY <1>1, <1>2 DEF Functional
<1>4. (\A k \in DOMAIN chain : chain[k].group.call # c) /\ \A h \in pending : h.call # c
  BY <1>1, NotSent DEF Past
<1>5. /\ \A k \in DOMAIN chain : chain[k].group.call \in Calls
      /\ \A h \in pending : h.call \in Calls
  BY ChainParts DEF SInv, Groups
<1>6. Once'
  BY <1>1, <1>3, <1>4, <1>5 DEF SInv, Once
<1>7. Covered'
  BY <1>1 DEF SInv, Covered, Held
<1>8. Backed(c)'
  BY <1>1, <1>3 DEF Backed, IsGroup
<1>9. Tracked(c)' /\ Reported(c)'
  BY <1>3 DEF Tracked, Reported
<1>10. \A d \in Calls \ {c} : Backed(d)' /\ Tracked(d)' /\ Reported(d)'
  BY <1>1, <1>3, OtherCalls
<1> QED
  BY <1>2, <1>6, <1>7, <1>8, <1>9, <1>10 DEF SInv
-----------------------------------------------------------------------------
\* The second read of a call that nothing disturbed reports exactly what its group brought.
LEMMA ReadAfterIsExact ==
  ASSUME SInv, NEW c \in Calls, ReadAfter(c)
  PROVE  Reported(c)'
<1>1. /\ pc[c] = "confirmed" /\ pc' = [pc EXCEPT ![c] = "done"]
      /\ report' = [report EXCEPT ![c] =
           [made |-> ExecutionReport(group[c], before[c].excess, excess[Owner[c]]),
            at   |-> Len(chain)]]
      /\ chain' = chain /\ group' = group /\ before' = before
  BY DEF ReadAfter, chainVars
<1>2. Functional /\ IInv /\ Honoured
  BY DEF SInv, IInv
<1> DEFINE made == ExecutionReport(group[c], before[c].excess, excess[Owner[c]])
<1>3. pc'[c] = "done" /\ report'[c] = [made |-> made, at |-> Len(chain)]
  BY <1>1, <1>2 DEF Functional
<1>4. report'[c].made = made /\ report'[c].at = Len(chain) /\ Len(chain) \in Nat
  BY <1>2, <1>3, ChainParts
<1> HIDE DEF made
<1>5. Executed(group[c])
  BY <1>1 DEF SInv, Reported
<1>6. CASE group[c].op # "redeem"
  <2>1. /\ before[c] \in [excess : Amounts, at : 0 .. Len(chain)]
        /\ Quiet(c) => \A k \in DOMAIN chain : chain[k].group = group[c] =>
             \A a \in Holdings : excess[Owner[c]][a] = before[c].excess[a] + Gained(c, k, a)
    BY <1>1, <1>6 DEF SInv, Tracked
  <2>2. Undisturbed(c)' => Quiet(c)
    BY <1>1, <1>4 DEF Undisturbed, Quiet
  <2>3. ASSUME NEW k \in DOMAIN chain, chain[k].group = group[c], Undisturbed(c)',
               group[c].op \in SwapTypes => ExcessOf(group[c]) = {2}
        PROVE  /\ \A a \in ExcessOf(group[c]) :
                    made.excess[a] = chain[k].due[a] - group[c].takes[a]
               /\ group[c].op = "FixedInput" /\ HasAlgo => made.out = chain[k].due[2]
               /\ group[c].op = "FixedOutput" /\ HasAlgo =>
                    made.in = group[c].pays[2] - chain[k].due[2]
               /\ group[c].op = "burn" /\ HasAlgo => made.out[2] = chain[k].due[2]
    <3> DEFINE g == group[c]
               b == before[c].excess
               now == excess[Owner[c]]
               due == chain[k].due
    <3>1. g \in Groups /\ Priced(g) /\ g.op # "redeem"
      BY <1>1, <1>2, <1>6, GroupOf
    <3>2. b \in Amounts /\ due \in Amounts /\ now \in Amounts
      BY <1>2, <2>1, ChainParts, OwnerIsUser DEF IInv, TypeOK
    <3>3. \A a \in Holdings : due[a] >= g.takes[a]
      BY <1>2, <1>6, <2>3 DEF Honoured
    <3>4. \A a \in Holdings : now[a] = b[a] + (due[a] - g.takes[a])
      BY <2>1, <2>2, <2>3 DEF Gained
    <3>5. made = ExecutionReport(g, b, now)
      BY DEF made
    <3>6. g.op \in SwapTypes => ExcessOf(g) = {2}
      BY <2>3
    <3> HIDE DEF g, b, now, due
    <3>7. /\ \A a \in ExcessOf(g) : made.excess[a] = due[a] - g.takes[a]
          /\ g.op = "FixedInput" /\ HasAlgo => made.out = due[2]
          /\ g.op = "FixedOutput" /\ HasAlgo => made.in = g.pays[2] - due[2]
          /\ g.op = "burn" /\ HasAlgo => made.out[2] = due[2]
      BY <3>1, <3>2, <3>3, <3>4, <3>5, <3>6, ReportOfGain
    <3> QED
      BY <3>7 DEF g, due
  <2>4. Exact(c)'
    BY <1>1, <1>4, <2>3 DEF Exact
  <2>5. before'[c].at \in Nat
    BY <1>1, <1>4, <2>1
  <2> QED
    BY <1>1, <1>3, <1>4, <1>5, <2>4, <2>5 DEF Reported, Executed
<1>7. CASE group[c].op = "redeem"
  BY <1>1, <1>3, <1>7 DEF Reported
<1> QED
  BY <1>6, <1>7

LEMMA ExecutingKeeps ==
  ASSUME SInv, NEW c \in Calls, Executing(c)
  PROVE  SInv'
<1>1. /\ pool' = pool /\ wallet' = wallet /\ excess' = excess
      /\ chain' = chain /\ refused' = refused /\ group' = group
  BY DEF Executing, SignTxns, ReadBefore, Send, Fails, SeeConfirmed, SeeRefused,
         ReadAfter, chainVars
<1>2. IInv /\ IInv' /\ Functional
  BY ExecutingPreserves DEF SInv, IInv
<1>3. /\ pc[c] # "idle"
      /\ \E x : pc' = [pc EXCEPT ![c] = x] /\ (pc[c] \in Past => x \in Past)
  BY DEF Executing, SignTxns, ReadBefore, Send, Fails, SeeConfirmed, SeeRefused, ReadAfter, Past
<1>4. \/ pending' = pending
      \/ /\ pc[c] = "sending" /\ pending' = pending \cup {group[c]}
         /\ pc' = [pc EXCEPT ![c] = "waiting"] \/ pc' = [pc EXCEPT ![c] = "failed"]
  BY DEF Executing, SignTxns, ReadBefore, Send, Fails, SeeConfirmed, SeeRefused,
         ReadAfter, chainVars
<1>5. /\ \A d \in Calls \ {c} : pc'[d] = pc[d] /\ before'[d] = before[d] /\ report'[d] = report[d]
      /\ pc[c] \in Past => pc'[c] \in Past
  <2>1. before' = before \/ \E x : before' = [before EXCEPT ![c] = x]
    BY DEF Executing, SignTxns, ReadBefore, Send, Fails, SeeConfirmed, SeeRefused, ReadAfter
  <2>2. report' = report \/ \E x : report' = [report EXCEPT ![c] = x]
    BY DEF Executing, SignTxns, ReadBefore, Send, Fails, SeeConfirmed, SeeRefused, ReadAfter
  <2> QED
    BY <1>2, <1>3, <2>1, <2>2 DEF Functional
<1>6. group[c] \in Groups /\ group[c].call = c
  BY <1>2, <1>3, GroupOf
<1>7. /\ \A k \in DOMAIN chain : chain[k].group.call \in Calls
      /\ \A h \in pending : h.call \in Calls
  BY <1>2, ChainParts DEF Groups
<1>8. \A d \in Calls : pc[d] \in Past => pc'[d] \in Past
  BY <1>5
<1>9. Once'
  <2>1. \A h \in pending : h = group'[h.call] /\ pc'[h.call] \in Past
    BY <1>1, <1>7, <1>8 DEF SInv, Once
  <2>2. \A k \in DOMAIN chain :
          /\ chain[k].group = group[chain[k].group.call] /\ pc'[chain[k].group.call] \in Past
          /\ chain[k].group \notin pending
          /\ \A j \in DOMAIN chain : chain[j].group = chain[k].group => j = k
    BY <1>7, <1>8 DEF SInv, Once
  <2>3. CASE pending' = pending
    BY <1>1, <2>1, <2>2, <2>3 DEF Once
  <2>4. CASE pc[c] = "sending" /\ pending' = pending \cup {group[c]}
             /\ (pc' = [pc EXCEPT ![c] = "waiting"] \/ pc' = [pc EXCEPT ![c] = "failed"])
    <3>1. pc'[c] \in Past
      BY <1>2, <2>4 DEF Functional, Past
    <3>2. \A k \in DOMAIN chain : chain[k].group # group[c]
      BY <2>4, NotSent DEF Past
    <3>3. \A h \in pending' : h = group'[h.call] /\ pc'[h.call] \in Past
      BY <1>1, <1>6, <2>1, <2>4, <3>1
    <3>4. \A k \in DOMAIN chain : chain[k].group \notin pending'
      BY <2>2, <2>4, <3>2
    <3> QED
      BY <1>1, <2>2, <3>3, <3>4 DEF Once
  <2> QED
    BY <1>4, <2>3, <2>4
<1>10. Covered'
  BY <1>1 DEF SInv, Covered, Held
<1>11. Backed(c)'
  BY <1>1, <1>3 DEF SInv, Backed
<1>12. \A d \in Calls \ {c} : Backed(d)' /\ Tracked(d)' /\ Reported(d)'
  BY <1>1, <1>5, OtherCalls
<1>13. Tracked(c)' /\ Reported(c)'
  <2>1. CASE SignTxns(c)
    <3>1. \/ pc'[c] = "failed" \/ pc'[c] = "signed"
          \/ pc'[c] = "sending" /\ group[c].op = "redeem"
      BY <1>2, <2>1 DEF SignTxns, Functional
    <3> QED
      BY <1>1, <3>1 DEF Tracked, Reported
  <2>2. CASE ReadBefore(c)
    <3>1. pc[c] = "signed" /\ pc'[c] = "sending" /\ before'[c] = Read(Owner[c])
      BY <1>2, <2>2 DEF ReadBefore, Functional
    <3>2. \A k \in DOMAIN chain : chain[k].group # group[c]
      BY <3>1, NotSent DEF Past
    <3>3. /\ before'[c] \in [excess : Amounts, at : 0 .. Len(chain)]
          /\ before'[c].excess = excess[Owner[c]]
      BY <1>2, <3>1, ChainParts, OwnerIsUser DEF Read, IInv, TypeOK
    <3>4. Tracked(c)'
      BY <1>1, <3>2, <3>3 DEF Tracked
    <3> QED
      BY <3>1, <3>4 DEF Reported
  <2>3. CASE Send(c)
    <3>1. pc[c] = "sending" /\ pc'[c] = "waiting" /\ before' = before
      BY <1>2, <2>3 DEF Send, Functional
    <3>2. Tracked(c)
      BY DEF SInv
    <3>3. Tracked(c)'
      BY <1>1, <3>1, <3>2 DEF Tracked, Quiet, Executed, Gained
    <3> QED
      BY <3>1, <3>3 DEF Reported
  <2>4. CASE Fails(c) \/ SeeRefused(c)
    <3>1. pc'[c] = "failed"
      BY <1>2, <2>4 DEF Fails, SeeRefused, Functional
    <3> QED
      BY <3>1 DEF Tracked, Reported
  <2>5. CASE SeeConfirmed(c)
    <3>1. /\ pc[c] = "waiting" /\ Executed(group[c]) /\ before' = before
          /\ pc'[c] = IF group[c].op = "redeem" THEN "done" ELSE "confirmed"
      BY <1>2, <2>5 DEF SeeConfirmed, Functional
    <3>2. Tracked(c)
      BY DEF SInv
    <3>3. Tracked(c)'
      BY <1>1, <3>1, <3>2 DEF Tracked, Quiet, Executed, Gained
    <3>4. Executed(group[c])'
      BY <1>1, <3>1 DEF Executed
    <3>5. pc'[c] = "done" => group'[c].op = "redeem"
      BY <1>1, <3>1
    <3> QED
      BY <3>3, <3>4, <3>5 DEF Reported
  <2>6. CASE ReadAfter(c)
    <3>1. pc'[c] = "done"
      BY <1>2, <2>6 DEF ReadAfter, Functional
    <3> QED
      BY <2>6, <3>1, ReadAfterIsExact DEF Tracked
  <2> QED
    BY <2>1, <2>2, <2>3, <2>4, <2>5, <2>6 DEF Executing
<1> QED
  BY <1>2, <1>9, <1>10, <1>11, <1>12, <1>13 DEF SInv

\* The chain after a group is executed.
LEMMA Extended ==
  ASSUME IInv, NEW e \in [group : Groups, due : Amounts], chain' = Append(chain, e)
  PROVE  /\ Len(chain) \in Nat /\ Len(chain') = Len(chain) + 1
         /\ DOMAIN chain = 1 .. Len(chain) /\ DOMAIN chain' = 1 .. Len(chain) + 1
         /\ \A k \in 1 .. Len(chain) : chain'[k] = chain[k]
         /\ chain'[Len(chain) + 1] = e
         /\ \A k \in DOMAIN chain' : k = Len(chain) + 1 \/ k \in DOMAIN chain
<1>1. chain \in Seq([group : Groups, due : Amounts])
  BY DEF IInv, TypeOK
<1>2. /\ Len(chain) \in Nat /\ Len(chain') = Len(chain) + 1
      /\ DOMAIN chain = 1 .. Len(chain) /\ DOMAIN chain' = 1 .. Len(chain) + 1
      /\ \A k \in 1 .. Len(chain) : chain'[k] = chain[k]
      /\ chain'[Len(chain) + 1] = e
  BY <1>1
<1> HIDE <1>1
<1>3. \A k \in DOMAIN chain' : k = Len(chain) + 1 \/ k \in DOMAIN chain
  BY <1>2
<1> QED
  BY <1>2, <1>3

LEMMA UsersFinite == IsFiniteSet(Users)
<1>1. [c \in Calls |-> Owner[c]] \in Surjection(Calls, Users)
  BY DEF Surjection, Users
<1> QED
  BY <1>1, IssuedAssumption, FS_Surjection

LEMMA HeldType ==
  ASSUME TypeOK
  PROVE  \A u \in Users : Held(wallet, excess)[u] \in Nat
<1> SUFFICES ASSUME NEW u \in Users  PROVE Held(wallet, excess)[u] \in Nat
  OBVIOUS
<1>1. wallet[u][PoolToken] \in Nat /\ excess[u][PoolToken] \in Nat
  BY HoldingsAre DEF TypeOK, Amounts
<1> QED
  BY <1>1 DEF Held

LEMMA ApplyParts ==
  ASSUME SInv, NEW g, Apply(g)
  PROVE  /\ g \in Groups /\ g \in pending /\ pending' = pending \ {g} /\ Due(g, pool) \in Amounts
         /\ [group |-> g, due |-> Due(g, pool)] \in [group : Groups, due : Amounts]
         /\ chain' = Append(chain, [group |-> g, due |-> Due(g, pool)])
         /\ pool' = PoolAfter(g, pool)
         /\ pc' = pc /\ group' = group /\ before' = before /\ report' = report
         /\ \A u \in Users \ {g.user} : wallet'[u] = wallet[u] /\ excess'[u] = excess[u]
         /\ \A a \in Holdings :
              /\ wallet'[g.user][a] = (wallet[g.user][a] - g.pays[a]) + g.takes[a]
              /\ excess'[g.user][a] = (excess[g.user][a] + Due(g, pool)[a]) - g.takes[a]
              /\ g.op # "redeem" => Due(g, pool)[a] >= g.takes[a]
<1> DEFINE due == Due(g, pool)
           w == Plus(Minus(wallet[g.user], g.pays), g.takes)
           e == Minus(Plus(excess[g.user], due), g.takes)
<1>1. /\ g \in pending /\ pending' = pending \ {g} /\ Executable(g)
      /\ chain' = Append(chain, [group |-> g, due |-> due])
      /\ pool' = PoolAfter(g, pool)
      /\ wallet' = [wallet EXCEPT ![g.user] = w]
      /\ excess' = [excess EXCEPT ![g.user] = e]
      /\ pc' = pc /\ group' = group /\ before' = before /\ report' = report
  BY DEF Apply
<1>2. IInv /\ Functional /\ TypeOK
  BY DEF SInv, IInv
<1>3. g \in Groups /\ g.user \in Users /\ (g.op = "redeem" => g.pays = Nothing)
  BY <1>1, <1>2 DEF IInv, TypeOK, Groups, AllWellMade, WellMade
<1>4. due \in Amounts
  <2>1. CASE g.op = "redeem"
    BY <2>1 DEF Due, Nothing, Amounts
  <2>2. CASE g.op # "redeem"
    BY <1>1, <2>2 DEF Executable
  <2> QED
    BY <2>1, <2>2
<1>5. \A a \in Holdings :
        /\ w[a] = (wallet[g.user][a] - g.pays[a]) + g.takes[a]
        /\ e[a] = (excess[g.user][a] + due[a]) - g.takes[a]
  BY DEF Plus, Minus
<1>6. \A a \in Holdings : g.op # "redeem" => due[a] >= g.takes[a]
  BY <1>1 DEF Executable
<1> HIDE DEF w, e
<1>7. /\ wallet'[g.user] = w /\ excess'[g.user] = e
      /\ \A u \in Users \ {g.user} : wallet'[u] = wallet[u] /\ excess'[u] = excess[u]
  BY <1>1, <1>2, <1>3 DEF Functional
<1> QED
  BY <1>1, <1>3, <1>4, <1>5, <1>6, <1>7

\* Pool tokens are issued as they are due and burnt as they are paid.
LEMMA ApplyKeepsCovered ==
  ASSUME SInv, NEW g, Apply(g)
  PROVE  Covered'
<1> DEFINE due == Due(g, pool)
           u == g.user
           h == Held(wallet, excess)
           i == Held(wallet', excess')
<1>1. TypeOK /\ TypeOK' /\ g \in Groups /\ u \in Users /\ pool \in Amounts /\ due \in Amounts
  BY ApplyParts, ApplyPreserves DEF SInv, IInv, TypeOK, Groups
<1>2. (\A v \in Users : h[v] \in Nat) /\ \A v \in Users : i[v] \in Nat
  <2>1. \A v \in Users : h[v] \in Nat
    BY <1>1, HeldType
  <2>2. \A v \in Users : i[v] \in Nat
    <3>1. \A v \in Users : wallet'[v][3] \in Nat /\ excess'[v][3] \in Nat
      BY <1>1, HoldingsAre DEF TypeOK, Amounts
    <3> QED
      BY <3>1, HoldingsAre DEF Held
  <2> QED
    BY <2>1, <2>2
<1>3. \A v \in Users \ {u} : i[v] = h[v]
  <2> SUFFICES ASSUME NEW v \in Users \ {u}  PROVE i[v] = h[v]
    OBVIOUS
  <2>1. wallet'[v] = wallet[v] /\ excess'[v] = excess[v]
    BY ApplyParts
  <2>2. i[v] = wallet'[v][PoolToken] + excess'[v][PoolToken]
    BY DEF Held
  <2>3. h[v] = wallet[v][PoolToken] + excess[v][PoolToken]
    BY DEF Held
  <2> HIDE DEF h, i
  <2> QED
    BY <2>1, <2>2, <2>3
<1>4. /\ wallet[u][3] \in Nat /\ excess[u][3] \in Nat /\ g.pays[3] \in Nat /\ g.takes[3] \in Nat
      /\ due[3] \in Nat /\ pool[3] \in Nat
  <2>1. /\ wallet[u] \in Amounts /\ excess[u] \in Amounts /\ g.pays \in Amounts
        /\ g.takes \in Amounts
    BY <1>1 DEF TypeOK, Groups
  <2>2. \A f \in Amounts : f[3] \in Nat
    BY HoldingsAre DEF Amounts
  <2> HIDE DEF due, u
  <2> QED
    BY <1>1, <2>1, <2>2
<1>5. /\ wallet'[u][3] = (wallet[u][3] - g.pays[3]) + g.takes[3]
      /\ excess'[u][3] = (excess[u][3] + due[3]) - g.takes[3]
  BY ApplyParts, HoldingsAre
<1>6. h[u] = wallet[u][3] + excess[u][3] /\ i[u] = wallet'[u][3] + excess'[u][3]
  <2>1. h[u] = wallet[u][PoolToken] + excess[u][PoolToken]
    BY <1>1 DEF Held
  <2>2. i[u] = wallet'[u][PoolToken] + excess'[u][PoolToken]
    BY <1>1 DEF Held
  <2> HIDE DEF h, i
  <2> QED
    BY <2>1, <2>2, HoldingsAre
<1>7. pool'[3] = pool[3] + due[3] - g.pays[3]
  <2>1. pool' = PoolAfter(g, pool)
    BY ApplyParts
  <2>2. PoolAfter(g, pool)[3] = pool[3] + due[3] - g.pays[3]
    BY <1>1, PoolAfterParts, HoldingsAre
  <2> QED
    BY <2>1, <2>2
<1>8. Total(h, Users) <= pool[3]
  BY HoldingsAre DEF SInv, Covered
<1>9. Covered' <=> Total(i, Users) <= pool'[3]
  BY HoldingsAre DEF Covered, Held
<1> HIDE DEF due, u, h, i
<1>10. Total(i, Users) = Total(h, Users) - h[u] + i[u] /\ Total(h, Users) \in Int
  BY <1>1, <1>2, <1>3, UsersFinite, TotalChanged, TotalInt
<1>11. i[u] = h[u] + due[3] - g.pays[3]
  BY <1>4, <1>5, <1>6
<1>12. h[u] \in Nat
  BY <1>1, <1>2
<1> QED
  BY <1>4, <1>7, <1>8, <1>9, <1>10, <1>11, <1>12

LEMMA ApplyKeepsOnce ==
  ASSUME SInv, NEW g, Apply(g)
  PROVE  Once'
<1> DEFINE n == Len(chain) + 1
<1>1. /\ g \in pending /\ pending' = pending \ {g} /\ pc' = pc /\ group' = group
      /\ n \notin DOMAIN chain /\ (\A k \in DOMAIN chain' : k = n \/ k \in DOMAIN chain)
      /\ (\A k \in DOMAIN chain : chain'[k] = chain[k]) /\ chain'[n].group = g
  <2> DEFINE e == [group |-> g, due |-> Due(g, pool)]
  <2>1. /\ g \in pending /\ pending' = pending \ {g} /\ pc' = pc /\ group' = group
        /\ e \in [group : Groups, due : Amounts] /\ chain' = Append(chain, e)
    BY ApplyParts
  <2>2. e.group = g
    OBVIOUS
  <2> HIDE DEF e
  <2>3. /\ n \notin DOMAIN chain /\ (\A k \in DOMAIN chain' : k = n \/ k \in DOMAIN chain)
        /\ (\A k \in DOMAIN chain : chain'[k] = chain[k]) /\ chain'[n] = e
    <3>1. IInv
      BY DEF SInv
    <3>2. /\ Len(chain) \in Nat /\ DOMAIN chain = 1 .. Len(chain)
          /\ \A k \in 1 .. Len(chain) : chain'[k] = chain[k]
          /\ chain'[n] = e
          /\ \A k \in DOMAIN chain' : k = n \/ k \in DOMAIN chain
      BY <2>1, <3>1, Extended
    <3> QED
      BY <3>2
  <2> QED
    BY <2>1, <2>2, <2>3
<1>2. Once
  BY DEF SInv
<1> HIDE DEF n
<1>3. \A k \in DOMAIN chain : chain[k].group # g
  BY <1>1, <1>2 DEF Once
<1>4. \A h \in pending' : h = group'[h.call] /\ pc'[h.call] \in Past
  BY <1>1, <1>2 DEF Once
<1>5. ASSUME NEW k \in DOMAIN chain'
      PROVE  /\ chain'[k].group = group'[chain'[k].group.call]
             /\ pc'[chain'[k].group.call] \in Past /\ chain'[k].group \notin pending'
             /\ \A j \in DOMAIN chain' : chain'[j].group = chain'[k].group => j = k
  <2>1. CASE k = n
    BY <1>1, <1>2, <1>3, <2>1 DEF Once
  <2>2. CASE k \in DOMAIN chain
    <3>1. chain'[k] = chain[k] /\ chain[k].group # g
      BY <1>1, <1>3, <2>2
    <3> QED
      BY <1>1, <1>2, <2>2, <3>1 DEF Once
  <2> QED
    BY <1>1, <2>1, <2>2
<1> QED
  BY <1>4, <1>5 DEF Once

\* The entry that executing a group puts at the end of the chain.
LEMMA NewEntry ==
  ASSUME SInv, NEW g, Apply(g)
  PROVE  LET n == Len(chain) + 1
         IN  /\ Len(chain) \in Nat /\ Len(chain') = n
             /\ DOMAIN chain = 1 .. Len(chain) /\ DOMAIN chain' = 1 .. n
             /\ n \notin DOMAIN chain /\ n \in DOMAIN chain'
             /\ \A k \in DOMAIN chain' : k = n \/ k \in DOMAIN chain
             /\ \A k \in DOMAIN chain : k \in DOMAIN chain' /\ chain'[k] = chain[k]
             /\ chain'[n].group = g /\ chain'[n].due = Due(g, pool)
             /\ \A k \in DOMAIN chain : chain[k].group # g
<1> DEFINE e == [group |-> g, due |-> Due(g, pool)]
           n == Len(chain) + 1
<1>1. /\ g \in pending /\ e \in [group : Groups, due : Amounts] /\ chain' = Append(chain, e)
  BY ApplyParts
<1>2. e.group = g /\ e.due = Due(g, pool)
  OBVIOUS
<1>3. \A k \in DOMAIN chain : chain[k].group # g
  BY <1>1 DEF SInv, Once
<1> HIDE DEF e
<1>4. IInv
  BY DEF SInv
<1>5. /\ Len(chain) \in Nat /\ DOMAIN chain = 1 .. Len(chain) /\ DOMAIN chain' = 1 .. n
      /\ Len(chain') = n
      /\ \A k \in 1 .. Len(chain) : chain'[k] = chain[k]
      /\ chain'[n] = e
      /\ \A k \in DOMAIN chain' : k = n \/ k \in DOMAIN chain
  BY <1>1, <1>4, Extended
<1>6. n \notin DOMAIN chain /\ n \in DOMAIN chain' /\ \A k \in DOMAIN chain : k \in DOMAIN chain'
  BY <1>5
<1> HIDE DEF n
<1>7. \A k \in DOMAIN chain : chain'[k] = chain[k]
  BY <1>5
<1> QED
  BY <1>2, <1>3, <1>5, <1>6, <1>7 DEF n

LEMMA ApplyKeepsBacked ==
  ASSUME SInv, NEW g, Apply(g), NEW d \in Calls
  PROVE  Backed(d)'
<1> SUFFICES ASSUME pc[d] # "idle", group[d].op = "redeem",
                    ~ \E k \in DOMAIN chain' :
                        chain'[k].group.op = "redeem" /\ chain'[k].group.user = Owner[d]
             PROVE  \A a \in Holdings : excess'[Owner[d]][a] >= group[d].takes[a]
  BY ApplyParts DEF Backed
<1>1. ~ \E k \in DOMAIN chain :
          chain[k].group.op = "redeem" /\ chain[k].group.user = Owner[d]
  BY NewEntry
<1>2. \A a \in Holdings : excess[Owner[d]][a] >= group[d].takes[a]
  BY <1>1 DEF SInv, Backed
<1>3. Owner[d] \in Users
  BY OwnerIsUser
<1>4. CASE Owner[d] # g.user
  <2>1. excess'[Owner[d]] = excess[Owner[d]]
    BY <1>3, <1>4, ApplyParts
  <2> QED
    BY <1>2, <2>1
<1>5. CASE Owner[d] = g.user
  <2>1. g.op # "redeem"
    BY <1>5, NewEntry
  <2> SUFFICES ASSUME NEW a \in Holdings
               PROVE  excess'[Owner[d]][a] >= group[d].takes[a]
    OBVIOUS
  <2>2. /\ excess'[g.user][a] = (excess[g.user][a] + Due(g, pool)[a]) - g.takes[a]
        /\ Due(g, pool)[a] >= g.takes[a]
    BY <2>1, ApplyParts
  <2>3. g \in Groups /\ Due(g, pool) \in Amounts
    BY ApplyParts
  <2>4. excess[Owner[d]] \in Amounts
    BY <1>3 DEF SInv, IInv, TypeOK
  <2>5. group[d] \in Groups
    BY GroupOf DEF SInv
  <2>6. /\ excess[g.user][a] \in Nat /\ Due(g, pool)[a] \in Nat /\ g.takes[a] \in Nat
        /\ group[d].takes[a] \in Nat
    BY <1>5, <2>3, <2>4, <2>5 DEF Groups, Amounts
  <2>7. excess[g.user][a] >= group[d].takes[a]
    BY <1>2, <1>5
  <2> QED
    BY <1>5, <2>2, <2>6, <2>7
<1> QED
  BY <1>4, <1>5

\* Two calls have different groups.
LEMMA OwnGroup ==
  ASSUME SInv, NEW d \in Calls, pc[d] # "idle", NEW g \in pending, g = group[d]
  PROVE  g.user = Owner[d] /\ ~Executed(group[d])
<1>1. g.user = Owner[d]
  BY GroupOf DEF SInv
<1>2. ~Executed(group[d])
  BY DEF Executed, SInv, Once
<1> QED
  BY <1>1, <1>2

LEMMA ApplyKeepsTracked ==
  ASSUME SInv, NEW g, Apply(g), NEW d \in Calls
  PROVE  Tracked(d)'
<1> DEFINE n == Len(chain) + 1
<1> SUFFICES ASSUME pc[d] \in {"sending", "waiting", "confirmed"}, group[d].op # "redeem"
             PROVE  /\ before[d] \in [excess : Amounts, at : 0 .. n]
                    /\ \A k \in DOMAIN chain' : chain'[k].group = group[d] => k > before[d].at
                    /\ Quiet(d)' =>
                         /\ Executed(group[d])' \/ excess'[Owner[d]] = before[d].excess
                         /\ \A k \in DOMAIN chain' : chain'[k].group = group[d] =>
                              \A a \in Holdings : excess'[Owner[d]][a] =
                                before[d].excess[a] + (chain'[k].due[a] - group[d].takes[a])
  <2>1. pc' = pc /\ group' = group /\ before' = before
    BY ApplyParts
  <2>2. Len(chain') = n
    BY NewEntry
  <2> HIDE DEF n
  <2> QED
    BY <2>1, <2>2 DEF Tracked, Gained
<1>1. /\ before[d] \in [excess : Amounts, at : 0 .. Len(chain)]
      /\ \A k \in DOMAIN chain : chain[k].group = group[d] => k > before[d].at
      /\ Quiet(d) =>
           /\ Executed(group[d]) \/ excess[Owner[d]] = before[d].excess
           /\ \A k \in DOMAIN chain : chain[k].group = group[d] => \A a \in Holdings :
                excess[Owner[d]][a] = before[d].excess[a] + (chain[k].due[a] - group[d].takes[a])
  BY DEF SInv, Tracked, Gained
<1>2. /\ Len(chain) \in Nat /\ DOMAIN chain = 1 .. Len(chain) /\ DOMAIN chain' = 1 .. n
      /\ Len(chain') = n
      /\ \A k \in DOMAIN chain' : k = n \/ k \in DOMAIN chain
      /\ \A k \in DOMAIN chain : k \in DOMAIN chain' /\ chain'[k] = chain[k]
      /\ n \in DOMAIN chain' /\ chain'[n].group = g /\ chain'[n].due = Due(g, pool)
      /\ \A k \in DOMAIN chain : chain[k].group # g
  BY NewEntry
<1>3. before[d] \in [excess : Amounts, at : 0 .. n] /\ before[d].at \in Nat /\ before[d].at < n
      /\ before[d].excess \in Amounts
  BY <1>1, <1>2
<1>4. g \in pending /\ group' = group /\ before' = before /\ g \in Groups
      /\ Due(g, pool) \in Amounts
  BY ApplyParts
<1>5. group[d] \in Groups
  BY GroupOf DEF SInv
<1>6. \A k \in DOMAIN chain' : chain'[k].group = group[d] => k > before[d].at
  BY <1>1, <1>2, <1>3
<1>7. Quiet(d)' => Quiet(d) /\ (g.user = Owner[d] => g = group[d])
  <2> SUFFICES ASSUME Quiet(d)'
               PROVE  Quiet(d) /\ (g.user = Owner[d] => g = group[d])
    OBVIOUS
  <2>1. \A k \in before[d].at + 1 .. n :
          chain'[k].group.user = Owner[d] => chain'[k].group = group[d]
    BY <1>2, <1>4 DEF Quiet
  <2>2. n \in before[d].at + 1 .. n
    BY <1>2, <1>3
  <2>3. \A k \in before[d].at + 1 .. Len(chain) :
          k \in DOMAIN chain /\ k \in before[d].at + 1 .. n
    BY <1>2, <1>3
  <2> HIDE DEF n
  <2>4. Quiet(d)
    BY <1>2, <2>1, <2>3 DEF Quiet
  <2> QED
    BY <1>2, <2>1, <2>2, <2>4
<1>8. Executed(group[d]) => Executed(group[d])'
  BY <1>2, <1>4 DEF Executed
<1> HIDE DEF n
<1>9. Owner[d] \in Users
  BY OwnerIsUser
<1>10. ASSUME Quiet(d)'
       PROVE  /\ Executed(group[d])' \/ excess'[Owner[d]] = before[d].excess
              /\ \A k \in DOMAIN chain' : chain'[k].group = group[d] =>
                   \A a \in Holdings : excess'[Owner[d]][a] =
                     before[d].excess[a] + (chain'[k].due[a] - group[d].takes[a])
  <2>1. CASE g = group[d]
    <3>1. g.user = Owner[d] /\ ~Executed(group[d])
      BY <1>4, <2>1, OwnGroup
    <3>2. excess[Owner[d]] = before[d].excess
      BY <1>1, <1>7, <1>10, <3>1
    <3>3. Executed(group[d])'
      BY <1>2, <1>4, <2>1 DEF Executed
    <3>4. \A k \in DOMAIN chain' : chain'[k].group = group[d] => k = n
      BY <1>2, <2>1
    <3>5. ASSUME NEW a \in Holdings
          PROVE  excess'[Owner[d]][a] =
                   before[d].excess[a] + (Due(g, pool)[a] - group[d].takes[a])
      <4>1. excess'[g.user][a] = (excess[g.user][a] + Due(g, pool)[a]) - g.takes[a]
        BY ApplyParts
      <4>2. before[d].excess[a] \in Nat /\ Due(g, pool)[a] \in Nat /\ g.takes[a] \in Nat
        BY <1>3, <1>4 DEF Groups, Amounts
      <4> QED
        BY <2>1, <3>1, <3>2, <4>1, <4>2
    <3> QED
      BY <1>2, <3>3, <3>4, <3>5
  <2>2. CASE g # group[d]
    <3>1. g.user # Owner[d]
      BY <1>7, <1>10, <2>2
    <3>2. excess'[Owner[d]] = excess[Owner[d]]
      BY <1>9, <3>1, ApplyParts
    <3>3. \A k \in DOMAIN chain' : chain'[k].group = group[d] =>
            k \in DOMAIN chain /\ chain'[k] = chain[k]
      BY <1>2, <2>2
    <3> QED
      BY <1>1, <1>7, <1>8, <1>10, <3>2, <3>3
  <2> QED
    BY <2>1, <2>2
<1> QED
  BY <1>3, <1>6, <1>10 DEF n

LEMMA ApplyKeepsReported ==
  ASSUME SInv, NEW g, Apply(g), NEW d \in Calls
  PROVE  Reported(d)'
<1> DEFINE n == Len(chain) + 1
<1>1. Reported(d)
  BY DEF SInv
<1>2. /\ Len(chain) \in Nat /\ DOMAIN chain = 1 .. Len(chain) /\ Len(chain') = n
      /\ \A k \in DOMAIN chain' : k = n \/ k \in DOMAIN chain
      /\ \A k \in DOMAIN chain : k \in DOMAIN chain' /\ chain'[k] = chain[k]
      /\ chain'[n].group = g
  BY NewEntry
<1>3. /\ g \in pending /\ pc' = pc /\ group' = group /\ before' = before /\ report' = report
  BY ApplyParts
<1>4. Executed(group[d]) => Executed(group[d])'
  BY <1>2, <1>3 DEF Executed
<1>5. CASE pc[d] = "done" /\ group[d].op # "redeem"
  <2>1. /\ Executed(group[d]) /\ before[d].at \in Nat /\ report[d].at \in Nat
        /\ report[d].at <= Len(chain) /\ Exact(d)
    BY <1>1, <1>5 DEF Reported
  <2>2. g # group[d]
    BY <1>3, <1>5, <2>1, OwnGroup
  <2>3. \A k \in DOMAIN chain' : chain'[k].group = group[d] =>
          k \in DOMAIN chain /\ chain'[k] = chain[k]
    BY <1>2, <2>2
  <2>4. report[d].at <= Len(chain')
    BY <1>2, <2>1
  <2>5. \A k \in before[d].at + 1 .. report[d].at : k \in DOMAIN chain
    BY <1>2, <2>1
  <2> HIDE DEF n
  <2>6. Undisturbed(d)' => Undisturbed(d)
    BY <1>2, <1>3, <2>5 DEF Undisturbed
  <2>7. Exact(d)'
    BY <1>3, <2>1, <2>3, <2>6 DEF Exact
  <2> QED
    BY <1>3, <1>4, <1>5, <2>1, <2>4, <2>7 DEF Reported
<1>6. CASE ~(pc[d] = "done" /\ group[d].op # "redeem")
  BY <1>1, <1>3, <1>4, <1>6 DEF Reported
<1> QED
  BY <1>5, <1>6

LEMMA RejectKeeps ==
  ASSUME SInv, NEW g, Reject(g)
  PROVE  SInv'
<1>1. /\ pending' = pending \ {g}
      /\ pool' = pool /\ wallet' = wallet /\ excess' = excess /\ chain' = chain
      /\ pc' = pc /\ group' = group /\ before' = before /\ report' = report
  BY DEF Reject
<1>2. IInv'
  BY RejectPreserves DEF SInv
<1>3. Once' /\ Covered'
  BY <1>1 DEF SInv, Once, Covered, Held
<1>4. \A d \in Calls : Backed(d)' /\ Tracked(d)' /\ Reported(d)'
  BY <1>1, OtherCalls
<1> QED
  BY <1>2, <1>3, <1>4 DEF SInv

LEMMA InitSInv == Init => SInv
<1> SUFFICES ASSUME Init  PROVE SInv
  OBVIOUS
<1>1. IInv
  BY InitEstablishes
<1>2. PICK start \in Starts :
        pool = start.pool /\ wallet = [u \in Users |-> start.wallet]
  BY DEF Init
<1>3. /\ excess = [u \in Users |-> InitialExcess] /\ pending = {} /\ chain = <<>>
      /\ pc = [c \in Calls |-> "idle"]
  BY DEF Init
<1>4. Once
  BY <1>3 DEF Once
<1>5. Covered
  <2> DEFINE m == start.wallet[PoolToken] + InitialExcess[PoolToken]
  <2>1. start.wallet \in Amounts /\ InitialExcess \in Amounts
    BY PoolAssumption DEF Amounts
  <2>2. m \in Nat
    <3>1. start.wallet[PoolToken] \in Nat /\ InitialExcess[PoolToken] \in Nat
      BY <2>1, HoldingsAre DEF Amounts
    <3> QED
      BY <3>1
  <2>3. Cardinality(Users) * m <= pool[PoolToken]
    BY <1>2, IssuedAssumption
  <2>4. \A u \in Users : Held(wallet, excess)[u] = m
    BY <1>2, <1>3 DEF Held
  <2> HIDE DEF m
  <2>5. Total(Held(wallet, excess), Users) = Cardinality(Users) * m
    BY <2>2, <2>4, UsersFinite, TotalOfEqual
  <2> QED
    BY <2>3, <2>5 DEF Covered
<1>6. \A c \in Calls : Backed(c) /\ Tracked(c) /\ Reported(c)
  BY <1>3 DEF Backed, Tracked, Reported
<1> QED
  BY <1>1, <1>4, <1>5, <1>6 DEF SInv

THEOREM SInvInductive == SInv /\ [Next]_vars => SInv'
<1> SUFFICES ASSUME SInv, [Next]_vars  PROVE SInv'
  OBVIOUS
<1>1. ASSUME NEW c \in Calls, Preparing(c)
      PROVE  SInv'
  BY <1>1, PreparingMakesGroup, PrepareKeeps DEF SInv, IInv
<1>2. ASSUME NEW c \in Calls, Executing(c)
      PROVE  SInv'
  BY <1>2, ExecutingKeeps
<1>3. ASSUME NEW g \in pending, Apply(g)
      PROVE  SInv'
  <2>1. IInv'
    BY <1>3, ApplyPreserves DEF SInv
  <2>2. \A d \in Calls : Backed(d)' /\ Tracked(d)' /\ Reported(d)'
    BY <1>3, ApplyKeepsBacked, ApplyKeepsTracked, ApplyKeepsReported
  <2> QED
    BY <1>3, <2>1, <2>2, ApplyKeepsCovered, ApplyKeepsOnce DEF SInv
<1>4. ASSUME NEW g \in pending, Reject(g)
      PROVE  SInv'
  BY <1>4, RejectKeeps
<1>5. CASE UNCHANGED vars
  <2>1. /\ pool' = pool /\ wallet' = wallet /\ excess' = excess /\ chain' = chain
        /\ pending' = pending
        /\ pc' = pc /\ group' = group /\ before' = before /\ report' = report
    BY <1>5 DEF vars, chainVars
  <2>2. IInv'
    BY IInvInductive DEF SInv
  <2>3. Once' /\ Covered'
    BY <2>1 DEF SInv, Once, Covered, Held
  <2>4. \A d \in Calls : Backed(d)' /\ Tracked(d)' /\ Reported(d)'
    BY <2>1, OtherCalls
  <2> QED
    BY <2>2, <2>3, <2>4 DEF SInv
<1> QED
  BY <1>1, <1>2, <1>3, <1>4, <1>5 DEF Next, ChainNext

LEMMA ReachableReports == Spec => []SInv
  BY InitSInv, SInvInductive, PTL DEF Spec
-----------------------------------------------------------------------------
\* A user cannot pay more pool tokens than were issued.
LEMMA BurnIsIssued ==
  ASSUME SInv, NEW u \in Users
  PROVE  wallet[u][PoolToken] <= pool[PoolToken]
<1> DEFINE h == Held(wallet, excess)
<1>1. \A v \in Users : h[v] \in Nat
  BY HeldType DEF SInv, IInv
<1>2. h[u] = wallet[u][PoolToken] + excess[u][PoolToken]
  BY DEF Held
<1>3. wallet[u][PoolToken] \in Nat /\ excess[u][PoolToken] \in Nat /\ pool[PoolToken] \in Nat
  BY HoldingsAre DEF SInv, IInv, TypeOK, Amounts
<1>4. Total(h, Users) <= pool[PoolToken]
  BY DEF SInv, Covered
<1> HIDE DEF h
<1>5. Total(h, Users) >= h[u] /\ Total(h, Users) \in Int
  BY <1>1, UsersFinite, TotalCovers, TotalInt
<1> QED
  BY <1>2, <1>3, <1>4, <1>5

\* A group whose pool is the one its call saw, and which its user can pay, is executed.
LEMMA UnmovedIsExecutable ==
  ASSUME SInv, NEW g \in pending, \A a \in Holdings : wallet[g.user][a] >= g.pays[a],
         IF g.op = "redeem"
         THEN ~ \E k \in DOMAIN chain :
                  chain[k].group.op = "redeem" /\ chain[k].group.user = g.user
         ELSE pool = g.seen /\ Liquid(g.seen)
  PROVE  Executable(g)
<1>1. g \in Groups /\ Priced(g) /\ g.user \in Users
  BY DEF SInv, IInv, AllWellMade, WellMade, TypeOK, Groups
<1>2. CASE g.op = "redeem"
  <2>1. g.call \in Calls /\ g = group[g.call] /\ pc[g.call] \in Past
    BY <1>1 DEF SInv, Once, Groups
  <2>2. pc[g.call] # "idle"
    BY <2>1 DEF Past
  <2>3. g.user = Owner[g.call]
    BY <2>1, <2>2, GroupOf DEF SInv
  <2>4. \A a \in Holdings : excess[g.user][a] >= g.takes[a]
    BY <1>2, <2>1, <2>2, <2>3 DEF SInv, Backed
  <2> QED
    BY <1>2, <2>4 DEF Executable
<1>3. CASE g.op # "redeem"
  <2>1. pool = g.seen /\ Liquid(g.seen)
    BY <1>3
  <2>2. g.op \in {"FixedInput", "FixedOutput", "mint", "burn"}
    BY <1>1, <1>3 DEF Groups, Ops, SwapTypes
  <2>3. Fits(g, pool)
    <3>1. CASE g.op = "FixedInput"
      BY <1>1, <2>1, <3>1, FixedInputFits
    <3>2. CASE g.op = "FixedOutput"
      BY <1>1, <2>1, <3>2, FixedOutputFits
    <3>3. CASE g.op = "mint"
      BY <1>1, <2>1, <3>3, MintFits
    <3>4. CASE g.op = "burn"
      <4>1. /\ wallet[g.user][PoolToken] >= g.pays[PoolToken]
            /\ wallet[g.user][PoolToken] <= pool[PoolToken]
        BY <1>1, BurnIsIssued, HoldingsAre
      <4>2. /\ wallet[g.user][PoolToken] \in Nat /\ g.pays[PoolToken] \in Nat
            /\ pool[PoolToken] \in Nat
        <5>1. wallet[g.user] \in Amounts /\ g.pays \in Amounts /\ pool \in Amounts
          BY <1>1 DEF SInv, IInv, TypeOK, Groups
        <5> QED
          BY <5>1, HoldingsAre DEF Amounts
      <4>3. g.pays[PoolToken] <= g.seen[PoolToken]
        BY <2>1, <4>1, <4>2
      <4> QED
        BY <1>1, <2>1, <3>4, <4>3, BurnFits
    <3> QED
      BY <2>2, <3>1, <3>2, <3>3, <3>4
  <2> QED
    BY <1>3, <2>1, <2>3 DEF Fits, Executable
<1> QED
  BY <1>2, <1>3

(***************************************************************************)
(* The contract refuses a group that its user can pay only if another      *)
(* group was executed since the SDK priced it: nothing getQuote and        *)
(* generateTxns compute, at any reserves, amounts and slippage, is more    *)
(* than the contract owes at the state they read.                          *)
(***************************************************************************)
THEOREM RefusedOnlyWhenMoved == Spec => RefusedOnlyIfMoved
<1> DEFINE A == \A g \in refused' \ refused :
       \/ \E a \in Holdings : wallet[g.user][a] < g.pays[a]
       \/ g.op = "redeem" /\ \E k \in DOMAIN chain :
            chain[k].group.op = "redeem" /\ chain[k].group.user = g.user
       \/ g.op # "redeem" /\ (pool # g.seen \/ ~Liquid(g.seen))
<1>1. SInv /\ [Next]_vars => A
  <2> SUFFICES ASSUME SInv, [Next]_vars, NEW g \in refused' \ refused,
                      ~ \E a \in Holdings : wallet[g.user][a] < g.pays[a],
                      ~ (g.op = "redeem" /\ \E k \in DOMAIN chain :
                           chain[k].group.op = "redeem" /\ chain[k].group.user = g.user),
                      ~ (g.op # "redeem" /\ (pool # g.seen \/ ~Liquid(g.seen)))
               PROVE  FALSE
    OBVIOUS
  <2>1. PICK h \in pending : Reject(h)
    <3>1. ASSUME NEW c \in Calls, Preparing(c)
          PROVE  refused' = refused
      BY <3>1 DEF Preparing, PrepareFixedInput, PrepareFixedOutput, PrepareMint, PrepareBurn,
                  PrepareRedeem, Prepare, chainVars
    <3>2. ASSUME NEW c \in Calls, Executing(c)
          PROVE  refused' = refused
      BY <3>2 DEF Executing, SignTxns, ReadBefore, Send, Fails, SeeConfirmed, SeeRefused,
                  ReadAfter, chainVars
    <3>3. ASSUME NEW h \in pending, Apply(h)
          PROVE  refused' = refused
      BY <3>3 DEF Apply
    <3>4. CASE UNCHANGED vars
      BY <3>4 DEF vars, chainVars
    <3> QED
      BY <3>1, <3>2, <3>3, <3>4 DEF Next, ChainNext
  <2>2. g \in pending /\ ~Executable(g)
    BY <2>1 DEF Reject
  <2>3. \A a \in Holdings : wallet[g.user][a] >= g.pays[a]
    <3>1. g \in Groups /\ g.user \in Users
      BY <2>2 DEF SInv, IInv, TypeOK, Groups
    <3>2. \A a \in Holdings : wallet[g.user][a] \in Nat /\ g.pays[a] \in Nat
      BY <3>1 DEF SInv, IInv, TypeOK, Amounts, Groups
    <3> QED
      BY <3>2
  <2> QED
    BY <2>2, <2>3, UnmovedIsExecutable
<1>2. SInv /\ [Next]_vars => [A]_vars
  BY <1>1
<1>3. Init => SInv
  BY InitSInv
<1>4. SInv /\ [Next]_vars => SInv'
  BY SInvInductive
<1> HIDE DEF A
<1>5. Spec => [][A]_vars
  BY <1>2, <1>3, <1>4, PTL DEF Spec
<1> QED
  BY <1>5 DEF A, RefusedOnlyIfMoved

(***************************************************************************)
(* Whatever calls of other users, and of the same user before and after,   *)
(* are executed: the excess that execute reports is exactly what its group *)
(* brought, and so are the amounts it can read, unless another group of    *)
(* the user was executed between its two reads.                            *)
(***************************************************************************)
THEOREM ReportIsExact == Spec => []UndisturbedReportIsExact
<1>1. SInv => UndisturbedReportIsExact
  <2> SUFFICES ASSUME SInv, NEW c \in Calls, pc[c] = "done", group[c].op # "redeem"
               PROVE  Exact(c)
    BY DEF UndisturbedReportIsExact, Exact
  <2> QED
    BY DEF SInv, Reported
<1> QED
  BY <1>1, ReachableReports, PTL
=============================================================================
