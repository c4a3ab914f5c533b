------------------------------- MODULE SwapV2 -------------------------------
(***************************************************************************)
(* The life of a direct swap on a Tinyman v2 pool, for several users of    *)
(* one pool: the caller fetches the pool's state, getQuote prices the swap *)
(* against that copy, generateTxns turns the quote into a transaction      *)
(* group, the user signs it, execute submits it, waits for the node and    *)
(* reports (src/src/swap/v2/index.ts).  Every step is a call of its own,   *)
(* and other users' swaps go through in between.                           *)
(*                                                                         *)
(* The chain is external: Apply and Reject are the v2 validator contract   *)
(* as the SDK relies on it (it recomputes the swap from the reserves it    *)
(* finds, compares with the bound in the call's arguments and returns the  *)
(* change of a fixed output swap), and a group executes as a whole or not  *)
(* at all.                                                                 *)
(***************************************************************************)
EXTENDS AmmMath

CONSTANTS Users,
          Amounts,         \* amounts a user asks to swap
          Slippages,       \* slippage tolerances, in percent
          FeeShare,        \* total_fee_share of the pool, in basis points
          ProtocolRatio,   \* protocol_fee_ratio: the protocol's part of a fee
          InitialPools,    \* reserves the pool may start with
          InitialWallet,   \* what each user starts with, of each asset
          MaxSwaps         \* bound: swaps a user attempts

Assets == 1 .. 2
Other(a) == 3 - a

ASSUME FeeAssumption == FeeShare \in 0 .. 9999 /\ ProtocolRatio \in Nat \ {0}
ASSUME AmountAssumption == Amounts \subseteq Nat \ {0} /\ Slippages \subseteq 0 .. 100
ASSUME PoolAssumption == InitialPools \subseteq [Assets -> Nat]
ASSUME WalletAssumption == InitialWallet \in Nat
ASSUME BoundAssumption == MaxSwaps \in Nat

VARIABLES
  pool,       \* chain: the reserves of the pool, by asset
  wallet,     \* chain: wallet[u][a]
  pending,    \* chain: groups the node accepted and no block holds yet
  applied,    \* chain: executed groups, each with what it moved
  rejected,   \* chain: groups the contract refused when last tried
  expired,    \* chain: groups whose validity window ended first
  pc,         \* pc[u]: how far u's swap is
  swaps,      \* swaps[u]: swaps u has begun
  info,       \* info[u]: the copy of the reserves u holds
  quote,      \* quote[u]: the quote u holds
  group,      \* group[u]: the transaction group made from the quote
  report      \* report[u]: what execute returned

chainVars == <<pool, wallet, pending, applied, rejected, expired>>
userVars == <<pc, swaps, info, quote, group, report>>
vars == <<chainVars, userVars>>

None == [none |-> TRUE]
-----------------------------------------------------------------------------
(* The quote: get{FixedInput,FixedOutput}DirectSwapQuote.                   *)

DirectSwapQuote(type, reserves, assetIn, amount) ==
  LET inS  == reserves[assetIn]
      outS == reserves[Other(assetIn)]
      in   == IF type = "FixedInput" THEN amount
              ELSE FixedOutputIn(inS, outS, amount, FeeShare)
      out  == IF type = "FixedOutput" THEN amount
              ELSE FixedInputOut(inS, outS, amount, FeeShare)
  IN  [type |-> type, assetIn |-> assetIn, in |-> in, out |-> out,
       seen |-> reserves]

\* calculateFixedOutputSwap divides by outputSupply - amount before the amount
\* is compared with the supply, so asking for all of it is a RangeError; past
\* the supply the comparison answers, whatever the quotient was.
QuoteFails(type, reserves, assetIn, amount) ==
  IF type = "FixedOutput" /\ amount >= reserves[Other(assetIn)] THEN TRUE
  ELSE LET q == DirectSwapQuote(type, reserves, assetIn, amount)
       IN  q.out > reserves[Other(assetIn)] \/ IsSwapAssetInAmountLow(q.in)
-----------------------------------------------------------------------------
(* The caller and the SDK.                                                  *)

\* poolUtils.v2.getPoolInfo: the reserves as of now; a swap begins.
FetchPool(u) ==
  /\ pc[u] \in {"idle", "done"}
  /\ swaps[u] < MaxSwaps
  /\ swaps' = [swaps EXCEPT ![u] = @ + 1]
  /\ info' = [info EXCEPT ![u] = pool]
  /\ pc' = [pc EXCEPT ![u] = "info"]
  /\ report' = [report EXCEPT ![u] = None]
  /\ UNCHANGED <<chainVars, quote, group>>

GetQuote(u, type, assetIn, amount) ==
  /\ pc[u] = "info"
  /\ ~QuoteFails(type, info[u], assetIn, amount)
  /\ quote' = [quote EXCEPT ![u] = DirectSwapQuote(type, info[u], assetIn, amount)]
  /\ pc' = [pc EXCEPT ![u] = "quoted"]
  /\ UNCHANGED <<chainVars, swaps, info, group, report>>

QuoteRejected(u, type, assetIn, amount) ==
  /\ pc[u] = "info"
  /\ QuoteFails(type, info[u], assetIn, amount)
  /\ pc' = [pc EXCEPT ![u] = "idle"]
  /\ UNCHANGED <<chainVars, swaps, info, quote, group, report>>

\* The amounts generateTxns may put in the input transaction and in the call.
SentAmounts_Swapped(q, slippage) ==
  IF q.type = "FixedInput" THEN {q.in} ELSE SlippageAmounts("negative", slippage, q.in)
SentAmounts(q, slippage) ==
  IF q.type = "FixedInput" THEN {q.in} ELSE SlippageAmounts("positive", slippage, q.in)

BoundAmounts_Missing(q, slippage) == IF q.type = "FixedOutput" THEN {q.out} ELSE {0}
BoundAmounts(q, slippage) ==
  IF q.type = "FixedOutput" THEN {q.out} ELSE SlippageAmounts("negative", slippage, q.out)

\* encodeUint64 refuses a negative bound, which the quote of a pool without
\* liquidity yields (its output is -1).
Encodable_Any(bound) == TRUE
Encodable(bound) == bound >= 0

GenerateTxns(u, slippage) ==
  /\ pc[u] = "quoted"
  /\ \E sent \in SentAmounts(quote[u], slippage),
        bound \in BoundAmounts(quote[u], slippage) :
       /\ Encodable(bound)
       /\ group' = [group EXCEPT ![u] =
            [id |-> <<u, swaps[u]>>, user |-> u, type |-> quote[u].type,
             assetIn |-> quote[u].assetIn, quotedIn |-> quote[u].in,
             quotedOut |-> quote[u].out, slippage |-> slippage,
             sent |-> sent, bound |-> bound, seen |-> quote[u].seen]]
  /\ pc' = [pc EXCEPT ![u] = "generated"]
  /\ UNCHANGED <<chainVars, swaps, info, quote, report>>

GenerateFails(u, slippage) ==
  /\ pc[u] = "quoted"
  /\ \E bound \in BoundAmounts(quote[u], slippage) : ~Encodable(bound)
  /\ pc' = [pc EXCEPT ![u] = "idle"]
  /\ UNCHANGED <<chainVars, swaps, info, quote, group, report>>

\* initiatorSigner: the user approves, or declines and the promise rejects.
SignTxns(u) ==
  /\ pc[u] = "generated"
  /\ pc' \in {[pc EXCEPT ![u] = "signed"], [pc EXCEPT ![u] = "idle"]}
  /\ UNCHANGED <<chainVars, swaps, info, quote, group, report>>

\* What the node takes: a group it holds, has executed or is past the validity
\* of is refused by its transaction ids; a rejected one may be sent again.
Submittable(g) ==
  /\ g \notin pending \cup expired
  /\ \A x \in applied : x.group # g

\* sendRawTransaction reaches the node and so does its answer the caller ...
Send(u) ==
  /\ pc[u] = "signed"
  /\ Submittable(group[u])
  /\ pending' = pending \cup {group[u]}
  /\ rejected' = rejected \ {group[u]}
  /\ pc' = [pc EXCEPT ![u] = "waiting"]
  /\ UNCHANGED <<pool, wallet, applied, expired, swaps, info, quote, group, report>>

\* ... or the call throws: the node refused, or the request was lost, or only
\* its answer was.  The caller gives up, or calls execute again as before.
SendThrows(u) ==
  /\ pc[u] = "signed"
  /\ \/ UNCHANGED <<pending, rejected>>
     \/ /\ Submittable(group[u])
        /\ pending' = pending \cup {group[u]}
        /\ rejected' = rejected \ {group[u]}
  /\ pc' \in {[pc EXCEPT ![u] = "idle"], pc}
  /\ UNCHANGED <<pool, wallet, applied, expired, swaps, info, quote, group, report>>

\* What execute makes of the confirmed group: the quoted input less the change
\* among the inner transactions, and the output among them.  A failure to fetch
\* them is swallowed, and then neither is known.
ExecutionReport_Quoted(q, x, fetched) == [in |-> q.in, out |-> {q.out}]
ExecutionReport(q, x, fetched) ==
  LET change == IF fetched THEN x.group.sent - x.paid ELSE 0
  IN  [in |-> q.in - change, out |-> IF fetched THEN {x.got} ELSE {}]

Report(u) ==
  /\ pc[u] = "waiting"
  /\ \E x \in applied, fetched \in BOOLEAN :
       /\ x.group = group[u]
       /\ report' = [report EXCEPT ![u] = ExecutionReport(quote[u], x, fetched)]
  /\ pc' = [pc EXCEPT ![u] = "done"]
  /\ UNCHANGED <<chainVars, swaps, info, quote, group>>

\* The pool error of the pending transaction is thrown.
ReportRejection(u) ==
  /\ pc[u] = "waiting"
  /\ group[u] \in rejected
  /\ pc' = [pc EXCEPT ![u] = "idle"]
  /\ UNCHANGED <<chainVars, swaps, info, quote, group, report>>
-----------------------------------------------------------------------------
(* The chain.                                                               *)

\* What the contract makes of a group, given the reserves it finds.
Paid(g, reserves) ==
  IF g.type = "FixedInput" THEN g.sent
  ELSE FixedOutputIn(reserves[g.assetIn], reserves[Other(g.assetIn)], g.bound, FeeShare)
Got(g, reserves) ==
  IF g.type = "FixedOutput" THEN g.bound
  ELSE FixedInputOut(reserves[g.assetIn], reserves[Other(g.assetIn)], g.sent, FeeShare)

\* The part of the fee that leaves the reserves.
ProtocolFee(g, reserves) ==
  LET paid == Paid(g, reserves)
      fee  == IF g.type = "FixedInput" THEN FixedInputFee(paid, FeeShare)
              ELSE paid - SwapAmountOfFixedOutput(reserves[g.assetIn],
                                                  reserves[Other(g.assetIn)], g.bound)
  IN  fee \div ProtocolRatio

Executable(g) ==
  /\ wallet[g.user][g.assetIn] >= g.sent
  /\ IF g.type = "FixedInput"
     THEN Got(g, pool) >= g.bound
     ELSE pool[Other(g.assetIn)] > g.bound /\ Paid(g, pool) <= g.sent

Apply(g) ==
  LET paid == Paid(g, pool)
      got  == Got(g, pool)
  IN  /\ g \in pending
      /\ Executable(g)
      /\ pending' = pending \ {g}
      /\ applied' = applied \cup {[group |-> g, paid |-> paid, got |-> got]}
      /\ pool' = [pool EXCEPT ![g.assetIn] = @ + paid - ProtocolFee(g, pool),
                              ![Other(g.assetIn)] = @ - got]
      /\ wallet' = [wallet EXCEPT ![g.user][g.assetIn] = @ - paid,
                                  ![g.user][Other(g.assetIn)] = @ + got]
      /\ UNCHANGED <<rejected, expired, userVars>>

Reject(g) ==
  /\ g \in pending
  /\ ~Executable(g)
  /\ pending' = pending \ {g}
  /\ rejected' = rejected \cup {g}
  /\ UNCHANGED <<pool, wallet, applied, expired, userVars>>

Expire(g) ==
  /\ g \in pending
  /\ pending' = pending \ {g}
  /\ expired' = expired \cup {g}
  /\ UNCHANGED <<pool, wallet, applied, rejected, userVars>>
-----------------------------------------------------------------------------
Init ==
  /\ pool \in InitialPools
  /\ wallet = [u \in Users |-> [a \in Assets |-> InitialWallet]]
  /\ pending = {} /\ applied = {} /\ rejected = {} /\ expired = {}
  /\ pc = [u \in Users |-> "idle"]
  /\ swaps = [u \in Users |-> 0]
  /\ info = [u \in Users |-> None]
  /\ quote = [u \in Users |-> None]
  /\ group = [u \in Users |-> None]
  /\ report = [u \in Users |-> None]

Quoting(u) ==
  \E type \in SwapTypes, assetIn \in Assets, amount \in Amounts :
    GetQuote(u, type, assetIn, amount) \/ QuoteRejected(u, type, assetIn, amount)

Generating(u) ==
  \E slippage \in Slippages : GenerateTxns(u, slippage) \/ GenerateFails(u, slippage)

UserNext(u) ==
  \/ FetchPool(u) \/ Quoting(u) \/ Generating(u) \/ SignTxns(u)
  \/ Send(u) \/ SendThrows(u) \/ Report(u) \/ ReportRejection(u)

ChainNext == \E g \in pending : Apply(g) \/ Reject(g) \/ Expire(g)

Next == (\E u \in Users : UserNext(u)) \/ ChainNext

Spec == Init /\ [][Next]_vars
-----------------------------------------------------------------------------
(* Properties.                                                              *)

Quotes == [type : SwapTypes, assetIn : Assets, in : Nat, out : Nat \cup {-1},
           seen : [Assets -> Nat]]
Groups == [id : Users \X Nat, user : Users, type : SwapTypes, assetIn : Assets,
           quotedIn : Nat, quotedOut : Nat \cup {-1}, slippage : Slippages,
           sent : Nat, bound : Nat, seen : [Assets -> Nat]]

(***************************************************************************)
(* The types of the state.  A reserve, a balance and every amount in a     *)
(* group are unsigned on the chain: none of them may go below zero.        *)
(***************************************************************************)
TypeOK ==
  /\ pool \in [Assets -> Nat]
  /\ wallet \in [Users -> [Assets -> Nat]]
  /\ pending \cup rejected \cup expired \subseteq Groups
  /\ \A x \in applied : x.group \in Groups /\ x.paid \in Nat /\ x.got \in Nat
  /\ pc \in [Users -> {"idle", "info", "quoted", "generated", "signed", "waiting", "done"}]
  /\ swaps \in [Users -> 0 .. MaxSwaps]
  /\ \A u \in Users :
       /\ pc[u] = "info" => info[u] \in [Assets -> Nat]
       /\ pc[u] \in {"quoted", "generated", "signed", "waiting"} => quote[u] \in Quotes
       /\ pc[u] \in {"generated", "signed", "waiting", "done"} => group[u] \in Groups

(***************************************************************************)
(* Swapping never takes value out of the pool: whatever the order in which *)
(* quotes made from stale reserves are executed, the product of the        *)
(* reserves does not decrease.  This is what the rounding of both          *)
(* calculations, against the user, is for.                                 *)
(***************************************************************************)
ConstantProduct == [][pool'[1] * pool'[2] >= pool[1] * pool[2]]_pool

(***************************************************************************)
(* A signed group is refused only for a reason: the pool is no longer what *)
(* the quote was made from, or the user cannot pay.  The quote, the        *)
(* rounding of applySlippageToAmount and the contract's comparison agree   *)
(* on a pool nobody else has touched, at every slippage from 0 to 100.     *)
(* The exception is the quote of an empty pool, an output of -1, which     *)
(* only a slippage of 100 makes a bound of 0 that can be encoded.          *)
(***************************************************************************)
RefusedOnlyIfPoolMoved ==
  [][\A g \in rejected' \ rejected :
       \/ pool # g.seen
       \/ wallet[g.user][g.assetIn] < g.sent
       \/ g.quotedOut < 0]_rejected

(***************************************************************************)
(* What execute reports is what happened: the output, when the inner       *)
(* transactions could be read, and the input of a fixed input swap, are    *)
(* those of the user's own group, whatever else the chain applied.         *)
(***************************************************************************)
ReportsTheExchange ==
  \A u \in Users : pc[u] = "done" =>
    \E x \in applied :
      /\ x.group = group[u]
      /\ report[u].out \in {{}, {x.got}}
      /\ group[u].type = "FixedInput" => report[u].in = x.paid

(***************************************************************************)
(* execute documents "The actual spent amount is the input amount minus    *)
(* the change (refunded) amount" (swap/v2/index.ts, 190): when the inner   *)
(* transactions could be read, the reported input is what the user spent.  *)
(***************************************************************************)
ReportedInputIsSpent ==
  \A u \in Users : pc[u] = "done" /\ report[u].out # {} =>
    \E x \in applied : x.group = group[u] /\ report[u].in = x.paid

(***************************************************************************)
(* A swap implements the exchange its user authorized: executed at most    *)
(* once however often the group is sent, as quoted on the fixed side and   *)
(* within the slippage on the other, or not at all.                        *)
(***************************************************************************)
Exchange == INSTANCE AuthorizedExchange WITH
  orders <- pending,
  executed <- {x.group : x \in applied}

ImplementsExchange == Exchange!Spec
=============================================================================
