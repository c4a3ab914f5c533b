# Verification of tinyman-js-sdk

TLA+ specifications of the Tinyman SDK for JavaScript, TLC configurations that
model-check them on small instances, and TLAPS proofs of their main properties
for every value of the constants. Source paths below are relative to `src/src/`.

## 1. The system

The SDK runs in the caller's process and keeps almost no state. It reads the
chain (algod) and two HTTP services (the swap router, the indexer), computes a
price, builds an atomic group of transactions, hands it to a wallet for
signing, sends it, polls for the confirmation and reports what happened. All
the contracts it talks to are elsewhere. So what is hard here is not
shared memory but *distance*: every number in a group was read some time before
the group is executed, other accounts' groups and the same account's other
calls are executed in between, each request may fail after it took effect, and
what the user is told is pieced together from a later read.

| Component | Code | State it keeps or reads | Operations |
|---|---|---|---|
| AMM arithmetic, slippage | `swap/v2/index.ts` 572-715, `swap/v1_1`, `add-liquidity/v1_1`, `remove-liquidity/v1_1`, `util/util.ts` 105-125 | none | quotes of swaps, mints, burns; `applySlippageToAmount` |
| Direct v2 swap | `swap/v2/index.ts` | copy of the pool, quote, group | `getQuote`, `generateTxns`, `signTxns`, `execute` |
| Quote choice and router | `swap/utils.ts`, `swap/common/utils.ts`, `swap/v2/router/` | five promises | `getQuote`, `getBestQuote`, `validateQuotes`, `getSwapRoute` |
| Sending and confirmation | `util/util.ts` 71-103, 229-258, `redeem.ts` 63-176 | confirmed groups so far | `sendAndWaitRawTransaction`, `waitForConfirmation`, `redeemAllExcessAsset` |
| v1.1 pool | `swap/v1_1`, `add-liquidity/v1_1`, `remove-liquidity/v1_1`, `redeem.ts`, `util/account/accountUtils.ts` | excess before and after | swap, mint, burn, redeem |
| v2 liquidity | `add-liquidity/v2`, `remove-liquidity/v2` | copy of the pool | flexible, single-asset, initial deposit; withdrawal of both or one asset |
| Pool information, bootstrap | `util/pool`, `bootstrap`, `validator.ts` | cache of v1.1 pool tokens | `getPoolInfo`, `getPoolReserves`, bootstrap |
| Orders | `order/index.ts` | order application id, cached lazily | create the application, put, cancel and collect orders, recurring orders, update |
| Liquid staking | `liquid-stake/` | none | mint, burn, claim, increase and decrease stake |
| Vault | `governance/index.ts`, `governance/vault/` | none (decoded boxes) | create, increase, extend, withdraw a lock; power at a time |
| Votes and rewards | `governance/{proposal-voting,staking-voting,rewards}` | none | propose, cast a vote, claim |
| Folks lending | `folks-lending-pools/` | none | wrapped deposit and withdrawal, interest |
| Client base | `util/client/base/` | none | boxes, opt-ins, fee of a group |
| Errors, configuration, assets, exports | `util/error`, `config.ts`, `util/asset`, `contract`, `index.ts` | client name | wording, constants |

How they interact: a swap is *quote choice* (which calls the v1.1 and v2
quotes and the router), then the chosen pool's `generateTxns`, then `signTxns`,
then `execute`, which uses *sending and confirmation*. Liquidity, redeem,
orders, staking and governance each read, build a group, and (where the SDK
executes for the caller) send it through the same functions. Slippage is applied
when a group is generated. The validator contracts recompute every amount from
the reserves they find and refuse a group that breaks its bound.

Which behaviours are hard, and the properties that make each part correct:

- *Stale reads*: the pool moves between the quote and the execution. A group
  must be executed within what the user accepted or not at all
  (`ImplementsExchange`, `TradesWithinTolerance`), and must not be refused when
  nothing moved (`RefusedOnlyIfPoolMoved`, `RefusedOnlyIfMoved`).
- *Rounding*: every division truncates; v2 subtracts or adds one to be on the
  pool's side, v1.1 is not that careful; slippage goes through doubles
  (`ConstantProduct`, and the two above).
- *Retries*: `execute` throws when the answer of a send is lost. Sending again
  must not execute twice (`ImplementsExchange`).
- *Concurrent calls of one account*: v1.1 reports a difference of two reads
  (`UndisturbedReportIsExact`).
- *Several groups at once*: `Promise.all` in `redeemAllExcessAsset`
  (`ResolvedMeansConfirmed`, `SentInOrder`, `EverySubmissionEnds`).
- *Answers in any order*: three quotes over two rounds (`BestQuoteWins`,
  `AmountErrorIsReported`).
- *Shares*: what a pool token stands for must survive every rounding and every
  order of deposits, withdrawals and swaps (`ShareValueNeverFalls`), and the
  last withdrawal is the only one that takes everything
  (`NothingStrandedNorTaken`).
- *Boxes foretold*: orders and governance name and pay for the boxes a contract
  will use, from reads that are old by then and from the local clock
  (`QuietGroupExecutes`, `NextTotalBoxSuffices`, `PaysForItsBoxes`,
  `PaysForWhatItMakes`, `OrdersFunded`, `NeverPaidTwice`, `EstimateIsCost`).
- *Histories read piecemeal*: the row of power a vote counts with is searched in
  boxes read one after the other while rows are added (`PowerReadIsReal`,
  `PowerIndexStaysRight`), and the total of all power is taken on from the last
  row found, week by week, as the vault itself does (`TotalReadIsReal`).
- *Errors taken for answers*: a failed lookup counts as "there is none", or is
  answered with 0 (`OrdersFunded`, `NeverPaidTwice` and `RefusedOnlyIfMoved` of
  `Orders`, whose lookups may all fail).

`PROJECT.json` lists every hazard at its line.

## 2. The modules

| Module | What it is |
|---|---|
| `AmmMath` | the arithmetic, as operators |
| `SwapV2` | v2 swaps of several users on one pool, from the pool read to the report |
| `AuthorizedExchange` | what a swap promises, with no pool, quote or node in sight; `SwapV2` implements it |
| `SwapQuotes` | one quote request to three sources, settled in two rounds |
| `Submission` | concurrent submissions of signed groups and the polling loop |
| `PoolV1` | all v1.1 operations of several calls, with the excess accounting |
| `LiquidityV2` | a v2 pool from its bootstrap to its last withdrawal, with every kind of deposit and withdrawal |
| `Orders` | a user's order application, seen by several clients: finding, creating and updating it, putting, cancelling and collecting orders |
| `Vault` | locks, their history of power in boxes, the groups that change them and the reads of power |
| `Voting` | votes, claims and proposals on top of `Vault` (EXTENDS it, so locks change meanwhile) |
| `MC*` | the instances TLC checks |
| `*_proofs` | theorems and their TLAPS proofs; `Promises_proofs` is about `Submission` and `SwapQuotes`, `Governance_proofs` about `Vault` and `Voting`, `Locks_proofs` about the groups of `Vault` |

The contracts, algod and the router are not in this repository. They
are modelled from how the code relies on them (marked external in the map):
the contract computes with the same formulas as the quotes, on the reserves it
finds, and a group is executed as a whole or not at all.

### AmmMath
Operators only. `bigint` division truncates toward zero; every division in use
has a non-negative dividend and a positive divisor, where `\div` agrees.
`applySlippageToAmount` is `floor(Number(amount) * (1 +- slippage))`: the factor
is a rounded double, so when the exact product is an integer, the floor may be
one less. `SlippageAmounts` is the *set* of outcomes, and the actions choose from it.

### SwapV2
`pc[u]` follows a user's swap: `FetchPool` (`getPoolInfo`), `GetQuote` or
`QuoteRejected`, `GenerateTxns` or `GenerateFails`, `SignTxns`, `Send` or
`SendThrows`, `Report` or `ReportRejection`. Each is one call of the
SDK, or the part of `execute` between two awaits, and steps of other users and
of the chain (`Apply`, `Reject`, `Expire`) go in between. `SendThrows` covers
a request that was lost and one whose answer was; the caller may then call
`execute` again with the same signed group, which the node refuses if it
knows the group. `info[u]` and `quote[u]` are the copies the caller holds. A record
in `applied` keeps what was moved, for the properties.

### AuthorizedExchange
An order may be authorized, withdrawn, or executed. Executing it changes only
its user's wallet, by exactly the quoted amount on the fixed side and within
the slippage on the other. `SwapV2` maps `pending` to the orders and
the groups in `applied` to the executed ones. The allowance of one base unit on the output
side is the rounding of the slippage.

### SwapQuotes
The two pools answer when the request is made; the router answers at any time,
with any of `RouterAnswers` (routes for the right or wrong assets, amounts
present or missing, errors, nothing at all). `SettleV2` and `SettleAll` are the
two `Promise.allSettled` rounds. Rates are compared as fractions by
cross-multiplication, which also gives JavaScript's answers for a zero amount.

### Submission
`stage[i]` and `at[i]` are item i's place in the loop of
`sendAndWaitRawTransaction`; `batch` and `value` are the promise that
`redeemAllExcessAsset` returns. The node may confirm a group, drop it with an error,
or forget it. A poll without an answer changes nothing and is no action.

### PoolV1
A call prepares one of five kinds of groups, has it signed, reads the excess,
sends, waits, reads the excess again and reports. Several calls belong to
one user. `chain` is the sequence of executed groups with what the contract owed for
each, so that a property can compare a report with what really happened
between the two reads. Reading and generating are one step because
`generateTxns` uses nothing that was read after the quote.

### LiquidityV2
A call bootstraps, makes the first deposit, deposits (`PrepareFlexible`,
`PrepareSingle`) or withdraws (`PrepareRemove`, `PrepareRemoveSingle`).
Preparing is one step since `getQuote` and `generateTxns` work on the pool the
caller passes. `Send`, `SendFails`, `ExecuteFails`, `Report` and `ReportPool`
are the parts of `execute` between awaits. `Mint`, `Burn` and `BurnForOne` are
the quotes, and the contract (`Apply`) computes them again on the pool it finds.
The root is the greatest integer whose square does not exceed its argument; `parseInt(Math.sqrt(...))`
agrees as long as the doubles involved are exact. `SlippageAmounts` also stands
for the deposit's `amount - ceil(amount * slippage)`. The part of a fee that is the
protocol's stays in the reserves.

### Orders
`pc[c]` follows one call from `initializeOrderingClient` to a group, an action
per await: for a put the application (`checkOrderAppAvailability`), the count, the opt-ins,
the box, the balance. `apps` holds every order application created and `entry` the one the
registry names. `Fill` stands for those who fill orders, `Release` for new
versions, whose program is published apart from the registry's number.
Each lookup that swallows errors has a `failed` parameter. Creating an application asks
neither the client nor the registry whether there is one, so `Ask` does not either, and a user may
come to have several. `getPutTriggerOrderTransactionFee` may be asked for both kinds of
orders, prices each as a trigger order, and answers 0 without an application or when a read threw.

### Vault
`total` and `account[u].powers` are the rows the vault keeps in boxes of
`ArrayLen`; `log` is the lock each row was made for, which only properties read. A call reads
the account state, the global state and, when needed, the slope change, then builds its
group by a local clock that may lag. A group is its calls, the boxes
each transaction names, and what it pays. `Execute` requires that the
boxes the vault touches are named, not more to a transaction than allowed, and
paid for. `ReadBox` reads one box of history, with the rows it has by then.
A failed read of the account state is a parameter of it; `FailGlobalState` is the failed read of the
global state, which `getTotalTinyPower` answers with 0. `AnswerTotalPower` runs its loop over the weeks
(`getTotalTinyPower`), in one step: for a time gone by the slope changes it reads are of weeks gone by, which nothing changes
any more; for a time to come, which no property is about, others might change one between two reads.
Seconds are whole (the code's `Date.now() / 1000` is not), and a box of slope
changes stands for one week.

### Voting
A call votes, claims or proposes. It reads the proposal, the account state, the box names or rewards state, and
the history of power a box at a time, and prepares a `ballot` with the rows it found. `RightIndex` is
the contract's check of a row: it was made by the time asked for, and the next one, in the
same box or the next, was not. `CastVote`, `StakingVote`, `ClaimReward` and `CreateProposal` are the
`prepare...` functions, `Generate...` the calls of the client that look up what these need. Votes of
others may make an option's box meanwhile. `surplus` is what a contract was paid beyond the cost of its boxes: a
claim that makes several sheets and pays for one is executed when the surplus covers the
others (`PaysFairly`). A call is for the account of its client.

## 3. What TLC checks

| Run | Instance | What it shows |
|---|---|---|
| `swap_v2` | 2 users, 1 swap each, both kinds and directions, amounts 100 / 1500 / 10000, slippage 0 / 1 / 100, pools 15000 x 10000 and empty | types; the product of the reserves never falls; refusals have a cause; reports are of the user's own group; the swap implements the authorized exchange |
| `submission` | 3 items, one with 2 groups | resolved means confirmed; groups of an item leave in order; every submission ends |
| `swap_quotes` | 1 request, 4 v1.1 and 5 v2 pools, all router answers | the best quote wins; an amount error is reported |
| `pool_v1` | 2 calls of one user, five operations, slippage 0 / 10, a pool in use and an empty one, some excess to begin with | tolerance; refusals have a cause; undisturbed reports are exact |
| `liquidity_v2` | 2 calls of 2 accounts, 1 other swap; a pool not there, empty, or in use | types; share value never falls; the locked tokens keep the last share withdrawable; tolerance; refusals have a cause |
| `orders` | 2 clients of one user, 2 assets, 1 fill, 2 versions; no application, a new one, or one with an open order | orders are funded; no minimum balance is paid twice; refusals have a cause; the price asked for is the cost |
| `vault` | 2 calls of one account, 1 lock of another, boxes of 4 rows, weeks of 4 seconds, lags 0 and 1; no lock, a box just filled, or a row free; powers asked for at 8 and at 21 | groups name and pay for what they use; powers read are real, and so are totals |
| `voting` | 2 calls of one account, one of which may raise the lock; 5 proposals, up to 3 reward periods, 2 votes or claims to a sheet | the row of power stays right; refusals and overpayments only in the known cases |
| `swap_report`, `submission_forgotten`, `router_match`, `pool_v1_report` | the same instances, with other constants where the case needs them | the four disagreements of section 5 |

Why these bounds. Interference needs two actors: one whose group is in flight
and one that moves the pool. 1500 moves a pool of 15000 by a tenth, beyond a
slippage of 1% and about the slippage of 10% used for v1.1, so refusals and
executions both occur; 100 is below the least v2 input; 10000 is the whole
supply of asset 2, where the division by zero is, and more than the wallet. Slippage 0 leaves no
room for a rounding error, and 100 makes every bound 0. Three items
with one of two groups give every order of two submissions and a third that
fails meanwhile. The pools in `swap_quotes` are priced so that each source can
win and each error occurs. In `liquidity_v2` fees are 10% and 10 tokens are
locked, so that both show in small numbers: burns of 1 token round to nothing, burns
of 45 take all an account has. In `vault` and `voting` boxes of 4 rows
fill up within a run, the instants (8, 12 and 22 in `vault`) lie one, two and four weeks after the
start, so that a total asked for at 21 is found by a loop over up to four weeks in which locks
made before end, and a slope unit of 8 to a lock time of 12 makes every product round. In
`orders` the application may begin without even its own minimum balance, and an
open order's Algo is part of its balance. Each user's swaps are capped by `MaxSwaps`, each
v1.1 call does one operation, like every call of the modules added after
it; `MaxOthers`, `MaxFills`, `MaxVersion`, `MaxPeriods` and the sets `Instants` and `Times` cap what goes on around
them; there is no other cut-off.

Deadlock checking is off in all configurations: the calls are finite, and the
system stops when they are done.

Fairness is assumed in `Submission` only. The signer answers and so does a send (the SDK
awaits both, and an HTTP request ends in an answer or an error); the polling
loop runs every second without end, so it sees an answer that stays; and
the network confirms or refuses a group it holds. None is assumed that the
group is *remembered*: `EverySubmissionEnds` has `NothingForgotten` as its
premise, and `EveryWaitEnds` shows why. `SwapQuotes` has no liveness since
the request to the router has no timeout.

Each property is also checked against a mutant of the code it is
about (the definitions named `X_What` before `X`): a dropped rounding, a swapped
sign, an off-by-one; TLC finds each violated.

## 4. What is proved

For every value of the constants that satisfies the modules' named assumptions
(amounts and reserves natural, fee share below 10000, slippage 0 to 100):

- `SwapV2_proofs`: `TypeCorrect`, `ProductNeverDecreases`,
  `UndisturbedSwapIsNotRefused`, `ReportIsTheExchange` and
  `SwapImplementsExchange`, so all five properties of the run.
  The inductive invariant is `TypeOK /\ ByUser /\ QuotesPriced /\ GroupsPriced
  /\ IdsTaken`: that a user's group carries the user's name, that the quote a
  user holds is the price of the reserves it says it has seen, that every group
  in flight is made from such a quote with amounts the slippage allows, and that
  no two groups share an identifier. None follows from `TypeOK`:
  a refusal can only be traced to a moved pool through the quote,
  and "at most once" rests on the identifiers.
- `Promises_proofs`, about `Submission`: `SubmissionTypeCorrect`, `ResolvedIsConfirmed`,
  `GroupsLeaveInOrder`. The invariant says of each item which of its groups are
  confirmed, which one is in flight and that the rest are unsent, and of the
  batch that it is resolved only with all items.
- `Promises_proofs`, about `SwapQuotes`: `TypeCorrect`, `BestOfThree`, `AmountErrorSurvives`. The
  invariant adds that both rounds were settled from what their sources hold, and that no
  rate is NaN: for the order of rates to be transitive over two rounds, no quote may
  have two zero amounts, and the check of the router's answer is what keeps
  such a quote out. `AmountErrorSurvives` says which error is left when every source failed: one known to be
  caused by the amount, or else the router's. The `RangeError` of a pool asked for its whole supply is neither, and never gets through.
- `PoolV1_proofs`: `TypeCorrect`, `TradesStayWithinTolerance`, `ReportIsExact`,
  `RefusedOnlyWhenMoved`, so all but the run that expects a violation. `IInv`
  adds to the types that a group belongs to its call, that its amounts are those its
  operation's quote and slippage allow and no more than the contract owes on the
  reserves the quote was made from (`Priced`), and that each executed group was honoured.
  `SInv` adds four parts. `Once`: a group is executed at most once, and only after it was sent.
  `Covered`: the issued pool tokens are at least those in wallets and excesses together
  (a sum over the users), or a withdrawal could ask the pool for more than there is.
  `Backed`: what a redeem takes is owed until some redeem of the user is executed.
  `Tracked`: between a call's two reads its user's excess is what was read and what the
  call's own group brought, unless another group of the user came in between. None holds
  without the others: the report is exact only because its group brought what it did once.
  `IssuedAssumption` says of the start what `Covered` says later.
- `LiquidityV2_proofs`: `TypeCorrect`, `ShareValueKept`, `AllWithinTolerance`,
  `NothingStranded`, `RefusedForAReason`, so every property of the run. The
  invariant adds that a pool in use has both assets, that each group is what its
  operation's quote and slippage make of it, that nothing is sent before it is made,
  and that each executed group brought what it asked for. The share value rests on one
  lemma per operation. A deposit: the root is within the bounds it is searched in, one
  of the two amounts swapped inside the pool is not negative, so the fee withheld is
  not either, and the issued tokens are at most the root. A withdrawal: what stays of
  each reserve is at least in proportion, and the internal swap keeps the product.
  `NothingStranded` follows the sum of the tokens in wallets through every step.
  Initial states are those `StartAssumption` allows: what is issued is what the accounts
  hold and the locked tokens. `RefusedForAReason` assumes in addition a fee share of at
  most a half (`FeeShare <= 5000`, in 10000ths): with more, the
  fee on what a deposit swaps inside the pool can be worth more than the deposit, and its quote is negative.
- `Orders_proofs`: `OrdersTypeOK`, `OrdersAreFunded`, `EstimateHolds`, `NoneOverpaid`,
  `RefusedOnlyWhenMoved`, so every property of the run, in two layers.
  `IInv` says where each call is with its request and that its group is for its client's application.
  `FInv` adds that every application is `Sound`: its orders are well made and
  numbered below its count, and it holds what they are owed and its own minimum balance; and that every call is
  `Informed`: what it read of count, boxes, opt-ins and balance compares with the
  application as it is now in the direction that makes its group valid (the count has not
  gone down, an asset opted in stays so, and if nobody put an order meanwhile the lack it
  computed still covers the box). `NoneOverpaid` compares what a group pays with what the application
  lacks when it executes: no put came in between, so that only fills, claims and cancellations did, and of these
  each takes what it owes along (`Surplus` stays). `EarlierAssumption` says the
  same of applications there were before.
- `AmmMath_proofs`: the lemmas these rest on: bounds and signs of each quote, that a swap's
  rounding never lowers the product, that a fixed output's input is enough and
  grows with the output, what slippage may do to an amount, and the type of a
  geometric mean chosen as a least element. A second part is about sums over finite
  sets. The library's induction theorems cannot be instantiated, so induction is replaced by
  choosing a smallest set for which a statement fails; from that it follows
  that a sum exists, that it does not depend on the order, and how it changes
  when one term does, or when an element comes or goes.

- `Governance_proofs`, about `Vault`: `PowerAnsweredIsReal`, `NextBoxSuffices`. The inductive invariant `VInv` says of the chain that
  every history is in order, none of its rows later than now, and that each row of power is that of the
  lock in the log (`ChainOK`); and of each call how what it has seen relates to
  what there is by now (`CallOK`): an account state counts rows the account had; rows of total power
  added after a global state was read are of that time or later, or of a week's beginning; what
  was read box by box is a beginning of the history, complete up to the count
  (`ReadBy`); a group names the last box of total power seen and the next. It is
  kept because histories only grow, which every step of the vault and every group is shown to respect (`Grows`). The answer
  differs from the lock's power by one at most: the slope and the bias are rounded separately
  (`LockPower`, `DivOfSum`). Recursive functions over
  rows and weeks (`Checkpoints`, `getTotalTinyPower`) are
  handled by one lemma that such a function exists (`Unfolding`) and one that what holds at
  first and is kept holds of all (`Stays`), both by choosing a least counterexample.

- `Locks_proofs`, about `Vault` too: `VaultTypesHold`, `QuietGroupsExecute`,
  `QuietGroupsPay`: all properties of the run but one. `TInv` is `VInv` with two more parts.
  `VTyped` has `LocksEnd`: a lock ends where a week begins, at a slope change that is at least the sum
  of the slopes of the locks that end there (a sum over the accounts). Without it an extension could
  take more from a slope change than there is, and a lock's end might have no box.
  `AllKnow` says of each call what it knows *if nothing was added since it read*, which is decided by
  counts alone: the account state it saw is the one there is, the time of the last row of total power is
  the one it saw, the slope change is the one it read, and its group is the one the
  operation makes of these (`BuiltFrom`). It is kept because an addition to a history always
  raises its count (`Shows`), and makes the premise false for good.
  With it, what the SDK foretells is compared with what the vault does, on the same state. The
  weeks foretold are those whose rows the vault will make (`WeeksReached`), so the number of rows a call
  adds is known (`RowsAdded`). The boxes of rows are those of the numbers below a count (`Rowed`), so
  that new ones appear exactly when there are more rows than free places
  (`freeSpaceCount`). From these, what a call touches (`CallTouches`) is covered by what its part names
  (`Covers`), and what it makes costs what it pays (`SingleCost`, `TwiceCost`), one lemma per operation
  (`CreateRight`, `IncreaseRight`, `ExtendRight`, `WithdrawRight`). `BothRight` follows a group of two calls through the state
  between them: the second part counts the first one's row without a second read, and pays for every box
  the rows of both need. `AnsweredByVault` then says that only the vault ends a call whose group is built.
  These theorems assume a finite set of calls, boxes of at least 4 rows (the code has 21: a
  group adds up to four, which must not skip a box), at least 8 references to a transaction (the chain's
  limit), a positive least amount of a lock (a lock of no amount is none), and that the locks of others end where weeks begin, as the
  contract demands; `StartAssumption` asks `LocksEnd` of the vault at first.

- `Governance_proofs`, about `Voting`: `VotingTypesHold`, `PowerIndexHolds`,
  `BallotRefusedOnlyIfKnown`, `BallotPaysFairly`, so every property of the run. The inductive invariant
  `WInv` contains `VInv`, which the voting steps keep too: they change no history, and the
  steps of the vault's calls leave the votes alone. It adds what the three contracts keep
  (`ContractsOK`: proposals never change once made, marks are well made, no contract was paid less
  than its boxes cost) and of each call (`VoteOK`): the proposal it read is the contract's still;
  the box names it read are among those there are (boxes are never deleted); the
  history it read contains every row made before its read of the account
  (`HistorySeen`, from `ReadBy`); and the group is the one its operation makes of these
  (`IsBallot`), with the rows `Chosen` for its times: each the last one by its time. A row is only ever added
  at the present time or later, so for a time before that read the choice stays right
  (`ChosenLater`), however many rows come. That is `PowerIndexHolds`, and the
  contract's check of the row (`RightIndex`) then succeeds: `BallotRefusedOnlyIfKnown` goes through
  the causes a contract can refuse for one by one, and shows that every box a method
  touches is one the group names (`AllNamed`, `TouchedIs`), that the payment covers the boxes it
  makes, and that 8 references are enough, or else names the exception. A vote's sheet is the same by both divisors
  in the first sheet because `SheetBits <= StakingSpan` (24 * 8 and 1024 * 8 bits).

Only model-checked: `EverySubmissionEnds`, since liveness under fairness is beyond the prover, and
`TotalReadIsReal`, which compares two loops over weeks. Every other property of a passing run is a theorem.

## 5. Disagreements found

1. `swap/v2/index.ts` 191: for a fixed output swap, `execute` subtracts the change from the
   *quoted* input, but the group paid the input raised by the slippage, so the
   reported input is too low by that margin (comment at 190).
2. `util/util.ts` 76: `waitForConfirmation` never returns for a group whose
   validity ended, or that was forgotten, before a poll saw it decided (comment at 66).
3. `swap/v2/router/swap-router.ts` 167-175: the conditional operator binds weaker
   than `||`, so a route for other assets is accepted if an amount agrees (message at 178).
4. `swap/v1_1/index.ts` 603, 610: the report's asset ids are read from
   `assetConfig` and are always Algo's (`swap/types.ts` 141, 143).

Each of these has a run. Others show as an exception a property makes, so that
it holds for everything else:

- `governance/vault/utils.ts` 17: the first week to begin after a row made within a week
  is left out, and so are its boxes and their cost (`WeeksForetold`, which also excludes
  more than two weeks: an increase then names more than eight boxes, `vault/transactions.ts` 255).
- `governance/vault/transactions.ts` 366-368: an extension to a week whose slope change is 0
  pays for its box again, the change 0 being falsy (`PaysForItsBoxes`); the combined increase and extension may pay twice for
  one box of total power.
- `governance/index.ts` 119: the total power by the very first row is 0, as its index is. 133-144: the
  weeks of the loop begin with the row's own, so that a row made within a week gives a negative time and
  throws once a week has begun (`TotalPowerThrows`); what falls due with a row made as a week began is
  taken off a second time (146-152), so that the answer may be above the total, or 0 when no slope is left by that
  (155-158); and the week of the time asked for, with its last, partial week, is never reached, so the answer is an upper
  bound: the total as the week before began (`TotalReadIsReal`).
- `governance/index.ts` 107-109: a failed read of the vault's global state, swallowed at 198-213, is answered with a
  total power of 0 (`FailGlobalState`, which `TotalReadIsReal` is not about). Line 848 then asks for a share of it as the power a proposal needs.
- `governance/staking-voting/transactions.ts` 71: past the first sheet, another box than the sheet
  whose size is paid for (`RefusedOnlyIfKnown`). Line 143 is never reached with the at most
  13 boxes there are.
- `governance/index.ts` 602-621: a claim that needs two new sheets pays for one, so it is refused
  unless earlier payments were too high, and one that ends where a sheet ends pays for a sheet it does not use.
- `governance/proposal-voting/transactions.ts` 88: a proposal names only the last box of total
  power, unlike the vault's groups ("Always pass the next total power box ref"), so a row added meanwhile may
  make it fail.
- `remove-liquidity/v2/index.ts` 71-82: a withdrawal of one asset whose other part rounds to nothing counts on
  an internal swap of -1 (`RefusedOnlyIfMoved`). Lines 105-110 describe the swap of the
  other direction with the first direction's assets; only a display.
- `add-liquidity/v2/initial.ts`: the slippage of a first deposit goes into no transaction.
- `swap/v2/index.ts` 407, `swap/v1_1/index.ts` 446: for a fixed output swap of a pool's whole supply the division by
  zero throws a `RangeError` before the amount is compared with the supply. It is caused by the amount, but
  `isSwapQuoteErrorCausedByAmount` does not know it, so when every source fails the user is told
  what the router failed with (`AmountErrorIsReported` says so).
- `order/index.ts` 99: every error, and not only that of a missing box, counts as no application ("Ignore the error
  if the box is not found", 100), and 218-280 prepares an application whether or not there is one: a second one
  takes the entry of the first, whose orders the client then no longer finds. No property forbids it, since nothing in the code does.
- `order/index.ts` 327-330: the price foretold is of a trigger order's box (80 bytes, `order/constants.ts` 17) whatever the
  `type` is, so that of a recurring order (88 bytes, 72) is too low by the difference (`EstimateIsCost` says by how
  much), and 350 answers 0 when a read fails.
- `order/index.ts` 380, 398: two puts prepared at once name the same box, and the later one is refused; a failed look at
  an asset held pays for its opt-in again (`NeverPaidTwice`).
  `orderAppId` of `PutTriggerOrderParams` (`order/types.ts` 8-9) is not read.

## 6. Plan

Done: `AmmMath`, `SwapV2`, `AuthorizedExchange`, `Submission`, `SwapQuotes`,
`PoolV1`, `LiquidityV2`, `Orders`, `Vault`, `Voting` and their proofs.

Left, in this order:

1. `LiquidStake`: mint, burn, stake and claim, each from separate reads of the global and
   the user state; a period's end is compared with the local clock. To check:
   the answer shown is what the group yields when nothing moved.
2. `FolksLending`: the deposit index extrapolated to the local clock against the
   block's time; the conversions there and back never gain.
3. The v1.1 bootstrap and its funding transaction.
4. `getCumulativeTinyPower` and the power needed to propose.

## 7. What is not modelled, and why

- Price impact, rates for display, wording of errors, analytics notes,
  account minimum balances and Algo fees of swaps: no property here depends on them.
  (Balances and fees that decide whether a group is valid are in `Orders`, box
  payments in `Vault` and `Voting`.) Opcode budgets and pooled fees of governance groups are left out.
- Liquid staking and Folks lending: see the plan.
- The v1.1 bootstrap: a group signed with a generated logic signature; its race is that of
  v2. `getPlatformFeeRate`, `getCumulativeTinyPower`,
  `getRequiredTinyPowerToCreateProposal` and `uploadProposalMetadata`: reads, or a request with no state.
- Calls with a `userAddress` other than the client's. `governance/index.ts` 485-496 then reads
  one account's count and the other's boxes.
- Decoding of boxes. `Buffer.readUIntBE(0, 8)` in the governance storages reads more
  than the six bytes Node allows, and `Struct.getField` slices the
  underlying `ArrayBuffer` without its offset (`util/client/base/utils.ts` 49); whether these
  work depends on the `Buffer` implementation of the build.
- `generateSwapRouterTxns`: it decodes transactions the router made; their effect
  is the router contract's. Sending them is `Submission`.
- Exact double arithmetic: the outcomes it can have are a set (see `AmmMath`); amounts above 2^46 are
  outside the model.
- Assets with clawback or freeze, and other ways for a balance to change
  besides these operations.
- `stake.ts`, `config.ts`, `index.ts`, asset and contract constants: no state.
