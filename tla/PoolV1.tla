------------------------------- MODULE PoolV1 -------------------------------
(***************************************************************************)
(* Swapping with, adding to, removing from and redeeming from a v1.1 pool  *)
(* (swap/v1_1, add-liquidity/v1_1, remove-liquidity/v1_1 and redeem.ts     *)
(* under src/src).  A v1.1 group pays out what the caller was quoted less  *)
(* the slippage; what the pool owes beyond that it keeps as the user's     *)
(* excess, which a redeem group fetches later.                             *)
(*                                                                         *)
(* execute learns what a group brought by reading the user's excess before *)
(* it sends the group and again once it is confirmed.  Other calls of the  *)
(* same user run meanwhile.                                                *)
(*                                                                         *)
(* The chain is external: Due is the v1.1 validator contract as the SDK    *)
(* relies on it, with the arithmetic of the SDK's quotes.  A call prepares *)
(* one group; its reads of the pool and the construction of the group      *)
(* (getQuote, then generateTxns) are one step, since the group depends on  *)
(* nothing read later.                                                     *)
(***************************************************************************)
EXTENDS AmmMath, Sequences, FiniteSets

CONSTANTS Calls,          \* calls of the SDK, each doing one operation
          Owner,          \* Owner[c]: the user call c is made for
          SwapAmounts, Deposits, Burns,  \* what the calls may ask for
          Slippages,      \* slippage tolerances, in percent
          HasAlgo,        \* asset 2 is Algo, paid by payment transactions
          Starts,         \* what there may be at first: the reserves and issued
                          \* pool tokens, and what each user holds
          InitialExcess   \* what the pool owes each user at first

Assets == 1 .. 2
PoolToken == 3
Holdings == 1 .. 3
Other(a) == 3 - a
Users == {Owner[c] : c \in Calls}

ASSUME OwnerAssumption == DOMAIN Owner = Calls
ASSUME AmountAssumption ==
  /\ SwapAmounts \cup Burns \subseteq Nat \ {0}
  /\ Deposits \subseteq [Assets -> Nat \ {0}]
  /\ Slippages \subseteq 0 .. 100
ASSUME PoolAssumption ==
  /\ HasAlgo \in BOOLEAN
  /\ Starts \subseteq [pool : [Holdings -> Nat], wallet : [Holdings -> Nat]]
  /\ InitialExcess \in [Holdings -> Nat]
\* The users, who are alike at first, have no more pool tokens than were issued.
ASSUME IssuedAssumption ==
  /\ IsFiniteSet(Calls)
  /\ \A start \in Starts :
       Cardinality(Users) * (start.wallet[PoolToken] + InitialExcess[PoolToken])
         <= start.pool[PoolToken]

VARIABLES
  pool,     \* chain: reserves of the two assets, and issued pool tokens
  wallet,   \* chain: wallet[u][a]
  excess,   \* chain: excess[u][a], what the pool owes u
  pending,  \* chain: groups the node holds
  chain,    \* chain: the executed groups in order, with what was due for each
  refused,  \* chain: groups the contract refused
  pc,       \* pc[c]: where call c is
  group,    \* group[c]: its transaction group
  before,   \* before[c]: the first read of the excess
  report    \* report[c]: what execute returned

chainVars == <<pool, wallet, excess, pending, chain, refused>>
vars == <<chainVars, pc, group, before, report>>

None == [none |-> TRUE]
Amounts == [Holdings -> Nat]
Nothing == [a \in Holdings |-> 0]
Only(a, n) == [Nothing EXCEPT ![a] = n]

Plus(f, g) == [a \in Holdings |-> f[a] + g[a]]
Minus(f, g) == [a \in Holdings |-> f[a] - g[a]]
-----------------------------------------------------------------------------
(* What the contract makes of a group, given the reserves it finds.         *)

Liquid(p) == p[1] > 0 /\ p[2] > 0 /\ p[PoolToken] > 0

\* What the user is owed for a group, change included.
Due(g, p) ==
  CASE g.op = "FixedInput" ->
         Only(Other(g.assetIn),
              V11FixedInputOut(p[g.assetIn], p[Other(g.assetIn)], g.pays[g.assetIn]))
    [] g.op = "FixedOutput" ->
         LET out    == g.takes[Other(g.assetIn)]
             needed == V11FixedOutputIn(p[g.assetIn], p[Other(g.assetIn)], out)
         IN  [Only(Other(g.assetIn), out)
                EXCEPT ![g.assetIn] = g.pays[g.assetIn] - needed]
    [] g.op = "mint" -> Only(PoolToken, V11MintOut(p, g.pays))
    [] g.op = "burn" -> V11BurnOut(p, g.pays[PoolToken])
    [] g.op = "redeem" -> Nothing

\* The reserves take what is paid and give what is due; pool tokens are burnt
\* as they are paid and issued as they are due.
PoolAfter(g, p) ==
  LET due == Due(g, p)
  IN  [p EXCEPT ![1] = @ + g.pays[1] - due[1], ![2] = @ + g.pays[2] - due[2],
                ![PoolToken] = @ + due[PoolToken] - g.pays[PoolToken]]

\* Amounts on the chain are unsigned: a group that would make one negative fails.
Executable(g) ==
  /\ \A a \in Holdings : wallet[g.user][a] >= g.pays[a]
  /\ IF g.op = "redeem"
     THEN \A a \in Holdings : excess[g.user][a] >= g.takes[a]
     ELSE /\ Liquid(pool) \/ (g.op = "mint" /\ pool[PoolToken] = 0)
          /\ g.op = "FixedOutput" => pool[Other(g.assetIn)] > g.takes[Other(g.assetIn)]
          /\ Due(g, pool) \in Amounts /\ PoolAfter(g, pool) \in Amounts
          /\ \A a \in Holdings : Due(g, pool)[a] >= g.takes[a]

Apply(g) ==
  /\ g \in pending
  /\ Executable(g)
  /\ pending' = pending \ {g}
  /\ chain' = Append(chain, [group |-> g, due |-> Due(g, pool)])
  /\ pool' = PoolAfter(g, pool)
  /\ wallet' = [wallet EXCEPT ![g.user] = Plus(Minus(wallet[g.user], g.pays), g.takes)]
  /\ excess' = [excess EXCEPT ![g.user] =
                  Minus(Plus(excess[g.user], Due(g, pool)), g.takes)]
  /\ UNCHANGED <<refused, pc, group, before, report>>

Reject(g) ==
  /\ g \in pending
  /\ ~Executable(g)
  /\ pending' = pending \ {g}
  /\ refused' = refused \cup {g}
  /\ UNCHANGED <<pool, wallet, excess, chain, pc, group, before, report>>
-----------------------------------------------------------------------------
(* Preparing a group: the pool or the excess is read, priced, and turned    *)
(* into transactions.                                                       *)

Group(c, op, assetIn, pays, takes, slippage, quoted) ==
  [call |-> c, user |-> Owner[c], op |-> op, assetIn |-> assetIn, pays |-> pays,
   takes |-> takes, slippage |-> slippage, quoted |-> quoted, seen |-> pool]

Prepare(c, g) ==
  /\ pc[c] = "idle"
  /\ pc' = [pc EXCEPT ![c] = "generated"]
  /\ group' = [group EXCEPT ![c] = g]
  /\ UNCHANGED <<chainVars, before, report>>

\* getFixedInputSwapQuote; generateTxns lowers the output by the slippage.
FixedInputTake_Nothing(slippage, out) == {0}
FixedInputTake(slippage, out) == SlippageAmounts("negative", slippage, out)
PrepareFixedInput(c, a, amount, slippage) ==
  LET out == V11FixedInputOut(pool[a], pool[Other(a)], amount)
  IN  \E take \in FixedInputTake(slippage, out) :
        Prepare(c, Group(c, "FixedInput", a, Only(a, amount), Only(Other(a), take),
                         slippage, [pays |-> Only(a, amount), due |-> Only(Other(a), out)]))

\* getFixedOutputSwapQuote, which throws unless the pool holds more than is
\* asked; generateTxns raises the input by the slippage.
FixedOutputPay_Lowered(slippage, in) == SlippageAmounts("negative", slippage, in)
FixedOutputPay(slippage, in) == SlippageAmounts("positive", slippage, in)
PrepareFixedOutput(c, a, amount, slippage) ==
  /\ amount < pool[Other(a)]
  /\ LET in == V11FixedOutputIn(pool[a], pool[Other(a)], amount)
     IN  \E pay \in FixedOutputPay(slippage, in) :
           Prepare(c, Group(c, "FixedOutput", a, Only(a, pay), Only(Other(a), amount),
                            slippage, [pays |-> Only(a, in), due |-> Only(Other(a), amount)]))

\* AddLiquidityV1_1: the quote of a first deposit throws when it is too small,
\* and any other (RangeError) when there is none of an asset to compare it with.
MintQuoted_Always(out) == TRUE
MintQuoted(out) == IF pool[PoolToken] = 0 THEN out > 0 ELSE Liquid(pool)
PrepareMint(c, deposit, slippage) ==
  LET pays == [Nothing EXCEPT ![1] = deposit[1], ![2] = deposit[2]]
      out  == V11MintOut(pool, pays)
  IN  /\ MintQuoted(out)
      /\ \E take \in SlippageAmounts("negative", slippage, out) :
           Prepare(c, Group(c, "mint", 0, pays, Only(PoolToken, take),
                            slippage, [pays |-> pays, due |-> Only(PoolToken, out)]))

\* RemoveLiquidityV1_1: both outputs are lowered by the slippage.
PrepareBurn(c, lp, slippage) ==
  LET out == V11BurnOut(pool, lp)
  IN  \E take1 \in SlippageAmounts("negative", slippage, out[1]),
         take2 \in SlippageAmounts("negative", slippage, out[2]) :
        Prepare(c, Group(c, "burn", 0, Only(PoolToken, lp),
                         [Nothing EXCEPT ![1] = take1, ![2] = take2],
                         slippage, [pays |-> Only(PoolToken, lp), due |-> out]))

\* getAccountExcess, then generateRedeemTxns for all of one asset's excess.
PrepareRedeem(c, a) ==
  /\ excess[Owner[c]][a] > 0
  /\ LET all == Only(a, excess[Owner[c]][a])
     IN  Prepare(c, Group(c, "redeem", 0, Nothing, all, 0, [pays |-> Nothing, due |-> all]))
-----------------------------------------------------------------------------
(* Signing and executing.                                                   *)

\* A redeem is signed and sent by the same call, and reads no excess.
SignTxns(c) ==
  /\ pc[c] = "generated"
  /\ pc' \in {[pc EXCEPT ![c] = IF group[c].op = "redeem" THEN "sending" ELSE "signed"],
              [pc EXCEPT ![c] = "failed"]}
  /\ UNCHANGED <<chainVars, group, before, report>>

\* getAccountExcessWithinPool.  `at` says when, for the properties.
Read(u) == [excess |-> excess[u], at |-> Len(chain)]

ReadBefore(c) ==
  /\ pc[c] = "signed"
  /\ before' = [before EXCEPT ![c] = Read(Owner[c])]
  /\ pc' = [pc EXCEPT ![c] = "sending"]
  /\ UNCHANGED <<chainVars, group, report>>

Send(c) ==
  /\ pc[c] = "sending"
  /\ pending' = pending \cup {group[c]}
  /\ pc' = [pc EXCEPT ![c] = "waiting"]
  /\ UNCHANGED <<pool, wallet, excess, chain, refused, group, before, report>>

\* Either read fails, or sending does, before or after the node took the group;
\* execute throws a TinymanError.  After the group is confirmed, too.
Fails(c) ==
  /\ \/ pc[c] \in {"signed", "sending", "confirmed"} /\ UNCHANGED pending
     \/ pc[c] = "sending" /\ pending' = pending \cup {group[c]}
  /\ pc' = [pc EXCEPT ![c] = "failed"]
  /\ UNCHANGED <<pool, wallet, excess, chain, refused, group, before, report>>

Executed(g) == \E k \in DOMAIN chain : chain[k].group = g

SeeConfirmed(c) ==
  /\ pc[c] = "waiting"
  /\ Executed(group[c])
  /\ pc' = [pc EXCEPT ![c] = IF group[c].op = "redeem" THEN "done" ELSE "confirmed"]
  /\ UNCHANGED <<chainVars, group, before, report>>

SeeRefused(c) ==
  /\ pc[c] = "waiting"
  /\ group[c] \in refused
  /\ pc' = [pc EXCEPT ![c] = "failed"]
  /\ UNCHANGED <<chainVars, group, before, report>>

\* The delta of an asset's excess, never negative.
Delta_Total(b, now, a) == now[a]
Delta(b, now, a) == IF now[a] < b[a] THEN 0 ELSE now[a] - b[a]

\* An amount of a transaction is read from its payment: 0 for an asset transfer.
ReadAmount(a, n) == IF HasAlgo /\ a = 2 THEN n ELSE 0

\* The id of a swap's asset is read from assetConfig, which neither a payment
\* nor a transfer has, so it is always Algo's; and what is not asset 1 is taken
\* for asset 2.
Algo == IF HasAlgo THEN 2 ELSE 0
ReadAssetId(a) == Algo

SwapReport(g, b, now) ==
  LET id   == ReadAssetId(IF g.op = "FixedInput" THEN Other(g.assetIn) ELSE g.assetIn)
      held == IF id = 1 THEN 1 ELSE 2
      d    == Delta(b, now, held)
      in   == ReadAmount(g.assetIn, g.pays[g.assetIn])
      out  == ReadAmount(Other(g.assetIn), g.takes[Other(g.assetIn)])
  IN  [assetIn |-> ReadAssetId(g.assetIn), assetOut |-> ReadAssetId(Other(g.assetIn)),
       in  |-> IF g.op = "FixedInput" THEN in ELSE in - d,
       out |-> IF g.op = "FixedInput" THEN out + d ELSE out,
       excess |-> Only(held, d)]

MintReport(g, b, now) ==
  LET d == Delta(b, now, PoolToken)
  IN  [out |-> ReadAmount(PoolToken, g.takes[PoolToken]) + d, excess |-> Only(PoolToken, d)]

BurnReport(g, b, now) ==
  LET d == [Nothing EXCEPT ![1] = Delta(b, now, 1), ![2] = Delta(b, now, 2)]
  IN  [out |-> [a \in Assets |-> ReadAmount(a, g.takes[a]) + d[a]], excess |-> d]

ExecutionReport(g, b, now) ==
  IF g.op = "mint" THEN MintReport(g, b, now)
  ELSE IF g.op = "burn" THEN BurnReport(g, b, now)
  ELSE SwapReport(g, b, now)

ReadAfter(c) ==
  /\ pc[c] = "confirmed"
  /\ report' = [report EXCEPT ![c] =
       [made |-> ExecutionReport(group[c], before[c].excess, excess[Owner[c]]),
        at   |-> Len(chain)]]
  /\ pc' = [pc EXCEPT ![c] = "done"]
  /\ UNCHANGED <<chainVars, group, before>>
-----------------------------------------------------------------------------
Init ==
  /\ \E start \in Starts :
       pool = start.pool /\ wallet = [u \in Users |-> start.wallet]
  /\ excess = [u \in Users |-> InitialExcess]
  /\ pending = {} /\ refused = {} /\ chain = <<>>
  /\ pc = [c \in Calls |-> "idle"]
  /\ group = [c \in Calls |-> None]
  /\ before = [c \in Calls |-> None]
  /\ report = [c \in Calls |-> None]

Preparing(c) ==
  \/ \E a \in Assets, amount \in SwapAmounts, slippage \in Slippages :
       \/ PrepareFixedInput(c, a, amount, slippage)
       \/ PrepareFixedOutput(c, a, amount, slippage)
  \/ \E deposit \in Deposits, slippage \in Slippages : PrepareMint(c, deposit, slippage)
  \/ \E lp \in Burns, slippage \in Slippages : PrepareBurn(c, lp, slippage)
  \/ \E a \in Holdings : PrepareRedeem(c, a)

Executing(c) ==
  \/ SignTxns(c) \/ ReadBefore(c) \/ Send(c) \/ Fails(c)
  \/ SeeConfirmed(c) \/ SeeRefused(c) \/ ReadAfter(c)

ChainNext == \E g \in pending : Apply(g) \/ Reject(g)

Next == (\E c \in Calls : Preparing(c) \/ Executing(c)) \/ ChainNext

Spec == Init /\ [][Next]_vars
-----------------------------------------------------------------------------
(* Properties.                                                              *)

Ops == SwapTypes \cup {"mint", "burn", "redeem"}
Groups == [call : Calls, user : Users, op : Ops, assetIn : 0 .. 2, pays : Amounts,
           takes : Amounts, slippage : Nat, quoted : [pays : Amounts, due : Amounts],
           seen : Amounts]

\* The state has the shape its variables are described with.  No amount of a group
\* is ever negative (building its transactions would throw).
TypeOK ==
  /\ pool \in Amounts
  /\ \A u \in Users : wallet[u] \in Amounts /\ excess[u] \in Amounts
  /\ pending \cup refused \subseteq Groups
  /\ chain \in Seq([group : Groups, due : Amounts])
  /\ \A c \in Calls :
       /\ pc[c] \in {"idle", "generated", "signed", "sending", "waiting", "confirmed",
                     "done", "failed"}
       /\ IF pc[c] = "idle" THEN group[c] = None
          ELSE group[c] \in Groups /\ group[c].call = c /\ group[c].user = Owner[c]
       /\ before[c] = None \/ before[c] \in [excess : Amounts, at : Nat]

\* What slippage is for, in every operation: whatever moved the pool between the
\* quote and the group's execution, the user gave no more than the quote and the
\* tolerance allow, and got no less than they allow (rounded down), counting what
\* the pool holds for the user as excess.
TradesWithinTolerance ==
  \A k \in DOMAIN chain :
    LET g    == chain[k].group
        due  == chain[k].due
        back == IF g.op = "FixedOutput" THEN Only(g.assetIn, due[g.assetIn]) ELSE Nothing
    IN  g.op # "redeem" => \A a \in Holdings :
          /\ 100 * (g.pays[a] - back[a]) <= g.quoted.pays[a] * (100 + g.slippage)
          /\ 100 * due[a] >= g.quoted.due[a] * (100 - g.slippage) - 100

\* The contract refuses a group only when something changed since the SDK priced
\* it: the reserves, or the user's excess, by another redeem; or when the user
\* cannot pay, or the pool was empty when the swap was priced.
RefusedOnlyIfMoved ==
  [][\A g \in refused' \ refused :
       \/ \E a \in Holdings : wallet[g.user][a] < g.pays[a]
       \/ g.op = "redeem" /\ \E k \in DOMAIN chain :
            chain[k].group.op = "redeem" /\ chain[k].group.user = g.user
       \/ g.op # "redeem" /\ (pool # g.seen \/ ~Liquid(g.seen))]_vars

\* No other group of the call's user was executed between the call's two reads.
Undisturbed(c) ==
  \A k \in before[c].at + 1 .. report[c].at :
    chain[k].group.user = Owner[c] => chain[k].group = group[c]

ExcessOf(g) ==
  CASE g.op = "FixedInput" -> {Other(g.assetIn)}
    [] g.op = "FixedOutput" -> {g.assetIn}
    [] g.op = "mint" -> {PoolToken}
    [] g.op = "burn" -> Assets

\* execute tells the user the excess that the executed group brought (swap/
\* types.ts:152, "Excess amount for the current swap"), and the amounts it adds it
\* to are the executed ones where it can read them, that is Algo's, unless
\* another group of the user got in between.  (Of the swaps, only those whose
\* excess is of asset 2; SwapReportNamesItsAssets is about the others.)
UndisturbedReportIsExact ==
  \A c \in Calls : \A k \in DOMAIN chain :
    LET g    == group[c]
        due  == chain[k].due
        made == report[c].made
    IN  /\ pc[c] = "done" /\ g.op # "redeem" /\ chain[k].group = g /\ Undisturbed(c)
        /\ g.op \in SwapTypes => ExcessOf(g) = {2}
        => /\ \A a \in ExcessOf(g) : made.excess[a] = due[a] - g.takes[a]
           /\ g.op = "FixedInput" /\ HasAlgo => made.out = due[2]
           /\ g.op = "FixedOutput" /\ HasAlgo => made.in = g.pays[2] - due[2]
           /\ g.op = "burn" /\ HasAlgo => made.out[2] = due[2]

\* What swap/types.ts:143 says of an executed swap's assetOutID: "The ID of the
\* swap's output asset."
SwapReportNamesItsAssets ==
  \A c \in Calls : pc[c] = "done" /\ group[c].op \in SwapTypes =>
    report[c].made.assetOut = Other(group[c].assetIn)
=============================================================================
