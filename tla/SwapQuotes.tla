----------------------------- MODULE SwapQuotes -----------------------------
(***************************************************************************)
(* Choosing a swap quote: getQuote of src/src/swap/utils.ts asks the v1.1  *)
(* pool, the v2 pool and the swap router for a price and settles in two    *)
(* rounds.  SwapV2's round waits for its own pool's quote and the router's *)
(* answer (Promise.allSettled) and keeps the better one; the outer round   *)
(* waits for that and the v1.1 quote and keeps the better one again.  A    *)
(* round whose two sources both fail chooses which error to throw.         *)
(*                                                                         *)
(* The pools' quotes are computed as the request is made, from the copies  *)
(* of the pools the caller passes.  The router is external, its answer is  *)
(* checked by getSwapRoute when it comes, and there is no limit to how     *)
(* long it may take.                                                       *)
(*                                                                         *)
(* A rate is a fraction, out over in, and compared as one.  Both sides are *)
(* in base units: the decimals scale every rate of a request alike.  The   *)
(* zero amounts that give Infinity (x / 0) and NaN (0 / 0) compare as      *)
(* JavaScript's > does: NaN with nothing, Infinity above every number.     *)
(***************************************************************************)
EXTENDS AmmMath

CONSTANTS Amounts,       \* amounts that may be asked for
          V11Pools,      \* v1.1 pools the caller may pass
          V2Pools,       \* v2 pools the caller may pass
          FeeShare,      \* total_fee_share of the v2 pool, in basis points
          RouterAnswers  \* what the swap router may answer

Assets == 1 .. 3     \* the pair is 1 and 2; the router may mention others
Pair == 1 .. 2
Other(a) == 3 - a

\* NoPool: the caller found none.  Otherwise a pool of the pair, or of two
\* other assets (held is FALSE then), ready or not.
NoPool == [none |-> TRUE]
PoolCopies == [ready : BOOLEAN, held : BOOLEAN, reserves : [Pair -> Nat]]

\* What fetch makes of the router's answer; 0 stands for a missing amount.
RouterErrors == {"SwapRouterStaleDataError", "SwapRouterNoRouteError",
  "SwapRouterLowSwapAmountError", "SwapRouterInsufficientReservesError",
  "SwapRouterPoolHasNoLiquidityError", "UnknownError"}
RouterRoutes == [kind : {"route"}, hasTxns : BOOLEAN, type : SwapTypes,
                 assetIn : Assets, assetOut : Assets, in : Nat, out : Nat]
RouterFailures == [kind : {"api error"}, error : RouterErrors]
                    \cup [kind : {"unreachable"}]

ASSUME AmountAssumption == Amounts \subseteq Nat \ {0}
ASSUME FeeAssumption == FeeShare \in 0 .. 9999
ASSUME PoolAssumption == V11Pools \cup V2Pools \subseteq PoolCopies \cup {NoPool}
ASSUME RouterAssumption == RouterAnswers \subseteq RouterRoutes \cup RouterFailures

VARIABLES
  request,  \* what was asked for
  v11,      \* the promise of the v1.1 pool's quote
  direct,   \* the promise of the v2 pool's quote
  router,   \* the promise of the router's quote
  v2,       \* SwapV2's promise: the better of direct and router
  result    \* getQuote's promise: the better of v11 and v2

vars == <<request, v11, direct, router, v2, result>>

NoRequest == [none |-> TRUE]
Pending == [status |-> "pending"]
Fulfilled(q) == [status |-> "fulfilled", value |-> q]
Rejected(e) == [status |-> "rejected", reason |-> e]

IsPending(p) == p.status = "pending"
IsFulfilled(p) == p.status = "fulfilled"
IsRejected(p) == p.status = "rejected"

Requests == [type : SwapTypes, assetIn : Pair, amount : Amounts]
-----------------------------------------------------------------------------
(* The quotes of the two pools.                                             *)

Quote(source, r, in, out) ==
  [source |-> source, assetIn |-> r.assetIn, assetOut |-> Other(r.assetIn),
   in |-> in, out |-> out]

InSupply(r, pool) == pool.reserves[r.assetIn]
OutSupply(r, pool) == pool.reserves[Other(r.assetIn)]

\* Asking for all of the supply divides by zero, which is no SwapQuoteError.
V11Outcome(r, pool) ==
  IF pool = NoPool THEN Rejected("NoAvailablePoolError")
  ELSE IF ~pool.ready THEN Rejected("NoAvailablePoolError")
  ELSE IF ~pool.held THEN Rejected("AssetDoesNotBelongToPoolError")
  ELSE IF r.type = "FixedInput"
    THEN Fulfilled(Quote("v1.1", r, r.amount,
           V11FixedInputOut(InSupply(r, pool), OutSupply(r, pool), r.amount)))
  ELSE IF r.amount > OutSupply(r, pool)
    THEN Rejected("OutputAmountExceedsAvailableLiquidityError")
  ELSE IF r.amount = OutSupply(r, pool) THEN Rejected("RangeError")
  ELSE Fulfilled(Quote("v1.1", r,
         V11FixedOutputIn(InSupply(r, pool), OutSupply(r, pool), r.amount), r.amount))

DirectOutcome(r, pool) ==
  IF pool = NoPool THEN Rejected("NoAvailablePoolError")
  ELSE IF ~pool.ready THEN Rejected("NoAvailablePoolError")
  ELSE IF ~pool.held THEN Rejected("AssetDoesNotBelongToPoolError")
  ELSE IF r.type = "FixedOutput" /\ r.amount > OutSupply(r, pool)
    THEN Rejected("OutputAmountExceedsAvailableLiquidityError")
  ELSE IF r.type = "FixedOutput" /\ r.amount = OutSupply(r, pool)
    THEN Rejected("RangeError")
  ELSE LET in  == IF r.type = "FixedInput" THEN r.amount
                  ELSE FixedOutputIn(InSupply(r, pool), OutSupply(r, pool),
                                     r.amount, FeeShare)
           out == IF r.type = "FixedOutput" THEN r.amount
                  ELSE FixedInputOut(InSupply(r, pool), OutSupply(r, pool),
                                     r.amount, FeeShare)
       IN  IF IsSwapAssetInAmountLow(in) THEN Rejected("LowSwapAmountError")
           ELSE Fulfilled(Quote("v2", r, in, out))
-----------------------------------------------------------------------------
(* The router's answer: getSwapRoute.                                       *)

\* The test of swap-router.ts 167-175 as JavaScript reads it: the conditions on
\* the assets and the type select which amount is compared, and that comparison
\* alone decides.
MatchesRequest(a, r) ==
  IF \/ a.assetIn # r.assetIn
     \/ a.assetOut # Other(r.assetIn)
     \/ a.type = "FixedInput"
  THEN r.amount = a.in
  ELSE r.amount = a.out

RouterOutcome(r, a) ==
  IF a.kind = "unreachable" THEN Rejected("Network error")
  ELSE IF a.kind = "api error" THEN Rejected(a.error)
  ELSE IF ~a.hasTxns THEN Rejected("SwapRouterNoRouteError")
  ELSE IF ~MatchesRequest(a, r) THEN Rejected("UnknownError")
  ELSE Fulfilled([source |-> "router", assetIn |-> a.assetIn, assetOut |-> a.assetOut,
                  in |-> a.in, out |-> a.out])
-----------------------------------------------------------------------------
(* Settling a round: validateQuotes, then getBestQuote.                     *)

\* getSwapQuoteRate(a) > getSwapQuoteRate(b), for in >= 0.
HigherRate(a, b) == a.out * b.in > b.out * a.in

\* isSwapQuoteErrorCausedByAmount: an error of another class is not.
CausedByAmount(e) ==
  e \in {"SwapRouterInsufficientReservesError", "SwapRouterLowSwapAmountError",
         "OutputAmountExceedsAvailableLiquidityError", "LowSwapAmountError"}

\* The first quote keeps a tie.
BestQuote_Latest(a, b) == b
BestQuote(a, b) == IF HigherRate(b, a) THEN b ELSE a

ErrorToThrow_Second(a, b) == b
ErrorToThrow(a, b) == IF CausedByAmount(a) /\ ~CausedByAmount(b) THEN a ELSE b

Settle(p, q) ==
  IF IsFulfilled(p) /\ IsFulfilled(q) THEN Fulfilled(BestQuote(p.value, q.value))
  ELSE IF IsFulfilled(p) THEN p
  ELSE IF IsFulfilled(q) THEN q
  ELSE Rejected(ErrorToThrow(p.reason, q.reason))
-----------------------------------------------------------------------------
Init ==
  /\ request = NoRequest
  /\ v11 = Pending /\ direct = Pending /\ router = Pending
  /\ v2 = Pending /\ result = Pending

\* getFixed{Input,Output}SwapQuote: both pools answer at once, the router's
\* request leaves.
GetQuote(r, v11Pool, v2Pool) ==
  /\ request = NoRequest
  /\ request' = r
  /\ v11' = V11Outcome(r, v11Pool)
  /\ direct' = DirectOutcome(r, v2Pool)
  /\ UNCHANGED <<router, v2, result>>

RouterAnswersWith(a) ==
  /\ request # NoRequest
  /\ IsPending(router)
  /\ router' = RouterOutcome(request, a)
  /\ UNCHANGED <<request, v11, direct, v2, result>>

SettleV2 ==
  /\ IsPending(v2)
  /\ ~IsPending(direct) /\ ~IsPending(router)
  /\ v2' = Settle(direct, router)
  /\ UNCHANGED <<request, v11, direct, router, result>>

SettleAll ==
  /\ IsPending(result)
  /\ ~IsPending(v11) /\ ~IsPending(v2)
  /\ result' = Settle(v11, v2)
  /\ UNCHANGED <<request, v11, direct, router, v2>>

Next ==
  \/ \E r \in Requests, p \in V11Pools, q \in V2Pools : GetQuote(r, p, q)
  \/ \E a \in RouterAnswers : RouterAnswersWith(a)
  \/ SettleV2
  \/ SettleAll

Spec == Init /\ [][Next]_vars
-----------------------------------------------------------------------------
(* Properties.                                                              *)

Errors == RouterErrors \cup {"NoAvailablePoolError", "LowSwapAmountError",
  "AssetDoesNotBelongToPoolError", "OutputAmountExceedsAvailableLiquidityError",
  "RangeError", "Network error"}
Quotes == [source : {"v1.1", "v2", "router"}, assetIn : Assets, assetOut : Assets,
           in : Nat, out : Int]
Promises == {Pending} \cup [status : {"fulfilled"}, value : Quotes]
              \cup [status : {"rejected"}, reason : Errors]

Given(r, q) == IF r.type = "FixedInput" THEN q.in ELSE q.out

\* The state has the shape its variables are described with; what a pool quotes
\* is for the assets and the amount asked for, and a v2 quote's input is not one
\* the pool would find too low.
TypeOK ==
  /\ request \in Requests \cup {NoRequest}
  /\ {v11, direct, router, v2, result} \subseteq Promises
  /\ \A p \in {v11, direct} : IsFulfilled(p) =>
       /\ p.value.assetIn = request.assetIn
       /\ p.value.assetOut = Other(request.assetIn)
       /\ Given(request, p.value) = request.amount
  /\ IsFulfilled(direct) => direct.value.in >= MinSwapAssetInAmount

Sources == {v11, direct, router}

\* The two rounds together are one auction (the comments at swap/utils.ts:72 and
\* common/utils.ts:146): the quote returned is one that a source made, no source
\* made a quote of a higher rate, and an error is thrown only when every source
\* failed.
BestQuoteWins ==
  /\ IsFulfilled(result) =>
       /\ result \in Sources
       /\ \A p \in Sources : IsFulfilled(p) => ~HigherRate(p.value, result.value)
  /\ IsRejected(result) => result \in Sources /\ \A p \in Sources : IsRejected(p)

\* When every source failed, what the user is told of the amount.  An error that
\* says another amount may succeed survives both rounds, whichever source it came
\* from and whatever the other two failed with.  The RangeError of a pool asked for
\* all of its supply is caused by the amount as well, but it is no SwapQuoteError
\* and isSwapQuoteErrorCausedByAmount does not know it: it never reaches the user,
\* who is told what the router failed with.
AmountErrorIsReported ==
  IsRejected(result) =>
    /\ result.reason # "RangeError"
    /\ IF \E p \in Sources : CausedByAmount(p.reason)
       THEN CausedByAmount(result.reason)
       ELSE result = router

\* What the error at swap-router.ts:178 says of a router quote that gets past it,
\* as far as the assets go: it matches the requested swap.
RouterQuoteIsForTheAssets ==
  IsFulfilled(router) => /\ router.value.assetIn = request.assetIn
                         /\ router.value.assetOut = Other(request.assetIn)
=============================================================================
