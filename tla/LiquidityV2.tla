---------------------------- MODULE LiquidityV2 -----------------------------
(***************************************************************************)
(* The life of a Tinyman v2 pool: an account bootstraps it (bootstrap/v2), *)
(* makes the first deposit, deposits both assets in any ratio or only one  *)
(* (initial, flexible and with-single-asset in add-liquidity/v2), and      *)
(* withdraws both assets or only one (remove-liquidity/v2, all under       *)
(* src/src).  Every operation is the same four calls: getQuote and         *)
(* generateTxns, which read the pool once, then signTxns, then execute.    *)
(* Other calls and other accounts' swaps go through in between.            *)
(*                                                                         *)
(* The chain is external: Yield and PoolAfter are the v2 contract as the   *)
(* SDK relies on it, with the arithmetic of the quotes on the reserves     *)
(* it finds, and a group is executed as a whole or not at all.  (The part  *)
(* of a fee that is the protocol's is left in the reserves here.)          *)
(***************************************************************************)
EXTENDS AmmMath, FiniteSets, FiniteSetsExt

CONSTANTS Calls,         \* calls of the SDK, each doing one operation
          Owner,         \* Owner[c]: the account call c is made for
          FeeShare,      \* total_fee_share, in basis points
          LockedTokens,  \* V2_LOCKED_POOL_TOKENS
          FirstDeposits, Deposits, SingleDeposits, Burns,  \* what calls ask for
          Slippages,     \* slippage tolerances, in percent
          Swaps,         \* inputs of other accounts' swaps
          MaxSwaps,      \* bound: swaps of other accounts
          Starts         \* what there may be at first: the pool, and wallets

Assets == 1 .. 2
PoolToken == 3
Holdings == 1 .. 3
Other(a) == 3 - a
Accounts == {Owner[c] : c \in Calls}

ASSUME OwnerAssumption == IsFiniteSet(Calls) /\ DOMAIN Owner = Calls
ASSUME FeeAssumption == FeeShare \in 0 .. 9999 /\ LockedTokens \in Nat
ASSUME AmountAssumption ==
  /\ FirstDeposits \cup Deposits \subseteq [Assets -> Nat \ {0}]
  /\ SingleDeposits \cup Burns \cup Swaps \subseteq Nat \ {0}
  /\ Slippages \subseteq 0 .. 100 /\ MaxSwaps \in Nat
\* What is issued and not locked is in the accounts' wallets, which are alike.
ASSUME StartAssumption ==
  \A start \in Starts :
    /\ start.created \in BOOLEAN
    /\ start.pool \in [Holdings -> Nat] /\ start.wallet \in [Holdings -> Nat]
    /\ IF start.pool[PoolToken] > 0
       THEN /\ start.pool[1] > 0 /\ start.pool[2] > 0
            /\ start.pool[PoolToken] > LockedTokens
            /\ start.pool[PoolToken]
                 = LockedTokens + Cardinality(Accounts) * start.wallet[PoolToken]
       ELSE start.pool = [a \in Holdings |-> 0] /\ start.wallet[PoolToken] = 0

None == [none |-> TRUE]
Amounts == [Holdings -> Nat]
Nothing == [a \in Holdings |-> 0]
Only(a, n) == [Nothing EXCEPT ![a] = n]
Both(d) == [Nothing EXCEPT ![1] = d[1], ![2] = d[2]]
-----------------------------------------------------------------------------
(* The arithmetic of the quotes.  p holds the reserves and, as p[3], the    *)
(* pool tokens issued.                                                      *)

\* floor of the square root of n, known to be in lo .. hi.
RootWithin(lo, hi, n) == CHOOSE r \in lo .. hi : r * r <= n /\ n < (r + 1) * (r + 1)

\* calculateV2InitialLiquidityAmount, and the check of initial.getQuote before it.
FirstMint(in) == GeometricMean(in[1], in[2]) - LockedTokens

\* calculateSubsequentAddLiquidity.  The deposit is worth the growth of the root of
\* the product; what it holds too much of one asset is swapped inside the pool, and
\* the fee of that swap is withheld as pool tokens.
IssuedAfter_RoundedUp(p, in) ==
  1 + RootWithin(p[3], p[3] * (1 + in[1] + in[2]),
                 ((p[1] + in[1]) * (p[2] + in[2]) * p[3] * p[3]) \div (p[1] * p[2]))
IssuedAfter(p, in) ==
  RootWithin(p[3], p[3] * (1 + in[1] + in[2]),
             ((p[1] + in[1]) * (p[2] + in[2]) * p[3] * p[3]) \div (p[1] * p[2]))

SwappedInside(p, in, issued, a) ==
  in[a] - ((issued - p[3]) * (p[a] + in[a])) \div issued

InternalSwapFee(swapAmount) == (swapAmount * FeeShare) \div (10000 - FeeShare)

Mint(p, in) ==
  LET issued == IssuedAfter(p, in)
      swapped == [a \in Assets |-> SwappedInside(p, in, issued, a)]
      s   == IF swapped[1] > swapped[2] THEN 1 ELSE 2
      fee == InternalSwapFee(swapped[s])
  IN  issued - p[3] - (fee * issued) \div (2 * (p[s] + in[s]))

\* calculateRemoveLiquidityOutputAmounts: who holds all but the locked pool tokens
\* gets everything.
LeavesSomeone_ButTheLocked(p, lp) == p[3] > lp
LeavesSomeone(p, lp) == p[3] > lp + LockedTokens
Share(p, lp, a) == IF LeavesSomeone(p, lp) THEN (lp * p[a]) \div p[3] ELSE p[a]
Burn(p, lp) == [a \in Holdings |-> IF a = PoolToken THEN 0 ELSE Share(p, lp, a)]

\* getSingleAssetRemoveLiquidityQuote: the other asset's part is swapped against what
\* the withdrawal leaves.  The swap's output is -1 when there is nothing to swap or
\* nothing is left.
InternalSwapOut(p, lp, a) ==
  FixedInputOut(p[Other(a)] - Share(p, lp, Other(a)), p[a] - Share(p, lp, a),
                Share(p, lp, Other(a)), FeeShare)
BurnForOne(p, lp, a) == Only(a, Share(p, lp, a) + InternalSwapOut(p, lp, a))

\* What an operation yields on pool p; negative where the quote would be.
Yield(op, p, in, want) ==
  CASE op = "initial" -> Only(PoolToken, FirstMint(in))
    [] op \in {"flexible", "single"} -> Only(PoolToken, Mint(p, in))
    [] op = "remove" -> Burn(p, in[PoolToken])
    [] op = "removeSingle" -> BurnForOne(p, in[PoolToken], want)
    [] op = "bootstrap" -> Nothing
-----------------------------------------------------------------------------
VARIABLES
  created,  \* chain: the pool's account has joined the validator application
  pool,     \* chain: reserves of the two assets, and issued pool tokens
  wallet,   \* chain: wallet[u][a]
  swaps,    \* chain: swaps others have made
  fate,     \* chain: fate[c], what became of call c's group
  got,      \* chain: got[c], what the group brought its user
  pc,       \* pc[c]: where call c is
  group,    \* group[c]: its transaction group
  report    \* report[c]: what execute returned

chainVars == <<created, pool, wallet, swaps, fate, got>>
callVars == <<pc, group, report>>
vars == <<chainVars, callVars>>

Empty(p) == p[PoolToken] = 0
Usable(p) == created /\ ~Empty(p)
-----------------------------------------------------------------------------
(* Preparing a group.  The pool is read and priced, and the quote turned    *)
(* into transactions; generateTxns reads nothing but transaction fees.      *)

\* encodeUint64 throws on what a quote below zero leads to.
Encodable_Any(min) == TRUE
Encodable(min) == \A a \in Holdings : min[a] >= 0

Prepare(c, op, in, want, min, slippage, quoted) ==
  /\ pc[c] = "idle"
  /\ Encodable(min)
  /\ group' = [group EXCEPT ![c] =
       [op |-> op, in |-> in, want |-> want, min |-> min, slippage |-> slippage,
        quoted |-> quoted, seen |-> pool]]
  /\ pc' = [pc EXCEPT ![c] = "generated"]
  /\ UNCHANGED <<chainVars, report>>

\* BootstrapV2.generateTxns throws when the pool is there.
NotThere == ~created
PrepareBootstrap(c) ==
  NotThere /\ Prepare(c, "bootstrap", Nothing, 0, Nothing, 0, Nothing)

\* initial.getQuote.  The slippage it returns goes into no transaction.
PrepareInitial(c, d) ==
  /\ created /\ Empty(pool)
  /\ FirstMint(d) > 0
  /\ LET out == Yield("initial", pool, Both(d), 0)
     IN  Prepare(c, "initial", Both(d), 0, Nothing, 0, out)

\* minPoolTokenAssetAmountWithSlippage: the amount less ceil(amount * slippage), whose
\* product may be one above the exact one (see AmmMath).
MinPoolTokens_Raised(out, slippage) == SlippageAmounts("positive", slippage, out)
MinPoolTokens(out, slippage) == SlippageAmounts("negative", slippage, out)

PrepareDeposit(c, op, in, slippage) ==
  /\ Usable(pool)
  /\ LET out == Yield(op, pool, in, 0)
     IN  \E min \in MinPoolTokens(out[PoolToken], slippage) :
           Prepare(c, op, in, 0, Only(PoolToken, min), slippage, out)
PrepareFlexible(c, d, slippage) == PrepareDeposit(c, "flexible", Both(d), slippage)
PrepareSingle(c, a, n, slippage) == PrepareDeposit(c, "single", Only(a, n), slippage)

\* generateTxns and generateSingleAssetOutTxns lower the amounts by the slippage.
MinOut_Missing(out, slippage) == {0}
MinOut(out, slippage) == SlippageAmounts("negative", slippage, out)

\* getPoolReserves.  A withdrawal is not told that the pool is empty.
Reserves == IF created THEN pool ELSE Nothing

PrepareRemove(c, lp, slippage) ==
  /\ created
  /\ LET out == Yield("remove", Reserves, Only(PoolToken, lp), 0)
     IN  \E min1 \in MinOut(out[1], slippage), min2 \in MinOut(out[2], slippage) :
           Prepare(c, "remove", Only(PoolToken, lp), 0, Both(<<min1, min2>>), slippage, out)

\* (A RangeError when the swap would divide by nothing.)
PrepareRemoveSingle(c, lp, a, slippage) ==
  /\ created /\ Reserves[Other(a)] > 0
  /\ LET out == Yield("removeSingle", Reserves, Only(PoolToken, lp), a)
     IN  \E min \in MinOut(out[a], slippage) :
           Prepare(c, "removeSingle", Only(PoolToken, lp), a, Only(a, min), slippage, out)
-----------------------------------------------------------------------------
(* Signing and executing.                                                   *)

\* signTxns, then execute, which sends and waits.
Send(c) ==
  /\ pc[c] = "generated"
  /\ fate' = [fate EXCEPT ![c] = "pending"]
  /\ pc' = [pc EXCEPT ![c] = "waiting"]
  /\ UNCHANGED <<created, pool, wallet, swaps, got, group, report>>

\* The user declines to sign, or sending throws, before or after the node took the
\* group.
SendFails(c) ==
  /\ pc[c] = "generated"
  /\ fate' \in {fate, [fate EXCEPT ![c] = "pending"]}
  /\ pc' = [pc EXCEPT ![c] = "failed"]
  /\ UNCHANGED <<created, pool, wallet, swaps, got, group, report>>

\* The node's refusal is seen; or, of a bootstrap, the id of the pool token is not
\* found in the confirmed transaction or the pool cannot be read.
ExecuteFails(c) ==
  /\ pc[c] = "waiting"
  /\ fate[c] = "refused" \/ (fate[c] = "applied" /\ group[c].op = "bootstrap")
  /\ pc' = [pc EXCEPT ![c] = "failed"]
  /\ UNCHANGED <<chainVars, group, report>>

\* getAppCallInnerAssetData: what the inner transactions of the group's own call sent
\* to the sender; a failure to read them is swallowed.
InnerAssets(c) == got[c]

\* A deposit reports the pool tokens among them, a withdrawal all of them.
Report(c) ==
  /\ pc[c] = "waiting" /\ fate[c] = "applied" /\ group[c].op # "bootstrap"
  /\ report' \in {[report EXCEPT ![c] = [assets |-> {InnerAssets(c)}]],
                  [report EXCEPT ![c] = [assets |-> {}]]}
  /\ pc' = [pc EXCEPT ![c] = "done"]
  /\ UNCHANGED <<chainVars, group>>

\* A bootstrap reports the pool as it is by then.
ReportPool(c) ==
  /\ pc[c] = "waiting" /\ fate[c] = "applied" /\ group[c].op = "bootstrap"
  /\ report' = [report EXCEPT ![c] = [ready |-> created, pool |-> pool]]
  /\ pc' = [pc EXCEPT ![c] = "done"]
  /\ UNCHANGED <<chainVars, group>>
-----------------------------------------------------------------------------
(* The chain.                                                               *)

PoolAfter(g, p) ==
  LET out == Yield(g.op, p, g.in, g.want)
      issued ==
        CASE g.op = "initial" -> out[PoolToken] + LockedTokens
          [] g.op \in {"remove", "removeSingle"} ->
               IF LeavesSomeone(p, g.in[PoolToken]) THEN p[PoolToken] - g.in[PoolToken] ELSE 0
          [] OTHER -> p[PoolToken] + out[PoolToken]
  IN  [a \in Holdings |-> IF a = PoolToken THEN issued ELSE p[a] + g.in[a] - out[a]]

\* Amounts on the chain are unsigned: what would make one negative fails.
Executable(c) ==
  LET g == group[c]
  IN  /\ \A a \in Holdings : wallet[Owner[c]][a] >= g.in[a]
      /\ CASE g.op = "bootstrap" -> ~created
           [] g.op = "initial" -> created /\ Empty(pool)
           [] g.op = "removeSingle" ->
                Usable(pool) /\ InternalSwapOut(pool, g.in[PoolToken], g.want) >= 0
           [] OTHER -> Usable(pool)
      /\ LET out == Yield(g.op, pool, g.in, g.want)
         IN  out \in Amounts /\ \A a \in Holdings : out[a] >= g.min[a]

Apply(c) ==
  LET g   == group[c]
      out == Yield(g.op, pool, g.in, g.want)
  IN  /\ fate[c] = "pending"
      /\ Executable(c)
      /\ fate' = [fate EXCEPT ![c] = "applied"]
      /\ got' = [got EXCEPT ![c] = out]
      /\ created' = (created \/ g.op = "bootstrap")
      /\ pool' = PoolAfter(g, pool)
      /\ wallet' = [wallet EXCEPT ![Owner[c]] =
                      [a \in Holdings |-> @[a] - g.in[a] + out[a]]]
      /\ UNCHANGED <<swaps, callVars>>

Reject(c) ==
  /\ fate[c] = "pending"
  /\ ~Executable(c)
  /\ fate' = [fate EXCEPT ![c] = "refused"]
  /\ UNCHANGED <<created, pool, wallet, swaps, got, callVars>>

\* Another account's fixed input swap.
OtherSwap(a, amount) ==
  LET out == FixedInputOut(pool[a], pool[Other(a)], amount, FeeShare)
  IN  /\ swaps < MaxSwaps
      /\ Usable(pool) /\ out >= 0
      /\ swaps' = swaps + 1
      /\ pool' = [pool EXCEPT ![a] = @ + amount, ![Other(a)] = @ - out]
      /\ UNCHANGED <<created, wallet, fate, got, callVars>>
-----------------------------------------------------------------------------
Init ==
  /\ \E start \in Starts :
       /\ created = start.created /\ pool = start.pool
       /\ wallet = [u \in Accounts |-> start.wallet]
  /\ swaps = 0
  /\ fate = [c \in Calls |-> "unsent"]
  /\ got = [c \in Calls |-> None]
  /\ pc = [c \in Calls |-> "idle"]
  /\ group = [c \in Calls |-> None]
  /\ report = [c \in Calls |-> None]

Preparing(c) ==
  \/ PrepareBootstrap(c)
  \/ \E d \in FirstDeposits : PrepareInitial(c, d)
  \/ \E slippage \in Slippages :
       \/ \E d \in Deposits : PrepareFlexible(c, d, slippage)
       \/ \E a \in Assets, n \in SingleDeposits : PrepareSingle(c, a, n, slippage)
       \/ \E lp \in Burns : PrepareRemove(c, lp, slippage)
       \/ \E a \in Assets, lp \in Burns : PrepareRemoveSingle(c, lp, a, slippage)

Executing(c) ==
  Send(c) \/ SendFails(c) \/ ExecuteFails(c) \/ Report(c) \/ ReportPool(c)

ChainNext ==
  \/ \E c \in Calls : Apply(c) \/ Reject(c)
  \/ \E a \in Assets, amount \in Swaps : OtherSwap(a, amount)

Next == (\E c \in Calls : Preparing(c) \/ Executing(c)) \/ ChainNext

Spec == Init /\ [][Next]_vars
-----------------------------------------------------------------------------
(* Properties.                                                              *)

Ops == {"bootstrap", "initial", "flexible", "single", "remove", "removeSingle"}
Groups == [op : Ops, in : Amounts, want : 0 .. 2, min : Amounts, slippage : 0 .. 100,
           quoted : [Holdings -> Int], seen : Amounts]

\* The state has the shape its variables are described with; every amount on the
\* chain and in a group is unsigned.
TypeOK ==
  /\ created \in BOOLEAN /\ pool \in Amounts /\ wallet \in [Accounts -> Amounts]
  /\ swaps \in 0 .. MaxSwaps
  /\ \A c \in Calls :
       /\ fate[c] \in {"unsent", "pending", "applied", "refused"}
       /\ pc[c] \in {"idle", "generated", "waiting", "done", "failed"}
       /\ IF pc[c] = "idle" THEN group[c] = None /\ fate[c] = "unsent"
          ELSE group[c] \in Groups
       /\ IF fate[c] = "applied" THEN got[c] \in Amounts ELSE got[c] = None

(***************************************************************************)
(* What a pool token stands for never shrinks while anyone holds one: the  *)
(* product of the reserves per square of the issued tokens does not fall,  *)
(* however deposits, withdrawals and swaps priced from old reserves are    *)
(* interleaved.  It is what the truncated root, the withheld fee and the   *)
(* truncated shares are for.                                               *)
(***************************************************************************)
ShareValueNeverFalls ==
  [][~Empty(pool) /\ pool'[PoolToken] > 0 =>
       pool'[1] * pool'[2] * pool[PoolToken] * pool[PoolToken]
         >= pool[1] * pool[2] * pool'[PoolToken] * pool'[PoolToken]]_pool

Held(S) == MapThenSumSet(LAMBDA u : wallet[u][PoolToken], S)

(***************************************************************************)
(* The locked tokens of the first deposit and the test for the last        *)
(* withdrawal count the same tokens: as long as the pool has liquidity     *)
(* someone can withdraw it, and the withdrawal that takes everything,      *)
(* locked part included, is that of an account which holds all there is.   *)
(***************************************************************************)
NothingStrandedNorTaken ==
  IF Empty(pool) THEN Held(Accounts) = 0 /\ pool[1] = 0 /\ pool[2] = 0
  ELSE Held(Accounts) > 0 /\ pool[PoolToken] = Held(Accounts) + LockedTokens

(***************************************************************************)
(* Whatever moved the pool between the quote and the execution, the        *)
(* account got no less than the quote less the slippage, rounded down; a   *)
(* first deposit, whose group carries no bound, exactly what was quoted.   *)
(***************************************************************************)
ExecutedWithinTolerance ==
  \A c \in Calls : fate[c] = "applied" =>
    LET g == group[c]
    IN  IF g.op = "initial" THEN got[c] = g.quoted
        ELSE \A a \in Holdings :
               100 * got[c][a] >= g.quoted[a] * (100 - g.slippage) - 100

(***************************************************************************)
(* A group is refused only when the pool is not as it was priced (or was   *)
(* created meanwhile), or the account cannot pay.  The exception is a      *)
(* withdrawal in one asset when the other's part is nothing, or is         *)
(* everything: its quote counts on an internal swap with an output of -1.  *)
(***************************************************************************)
RefusedOnlyIfMoved ==
  [][\A c \in Calls : fate[c] = "pending" /\ fate'[c] = "refused" =>
       LET g == group[c]
       IN  \/ pool # g.seen
           \/ g.op = "bootstrap" /\ created
           \/ \E a \in Holdings : wallet[Owner[c]][a] < g.in[a]
           \/ /\ g.op = "removeSingle"
              /\ InternalSwapOut(g.seen, g.in[PoolToken], g.want) < 0]_fate
=============================================================================
