------------------------------- MODULE Orders --------------------------------
(***************************************************************************)
(* Limit and recurring orders (order/index.ts, with the helpers of         *)
(* util/client/base/baseClient.ts, under src/src).                         *)
(*                                                                         *)
(* A user's orders live in an application of the user's own, which a       *)
(* registry names.  An order is a box of that application, called after    *)
(* the number of orders put so far, and the application pays for the box   *)
(* and for the assets it holds out of its Algo balance, where the Algo of  *)
(* open orders lies too.  A call learns all this by one request to the     *)
(* node after the other, while the user's other calls, the filling of      *)
(* orders and the release of new versions go on.                           *)
(*                                                                         *)
(* The registry, the order application and those who fill orders are       *)
(* external, modelled as the SDK relies on them.  There is one user, with  *)
(* a client (an OrderingClient) for each call.                             *)
(***************************************************************************)
EXTENDS Integers, Sequences, FiniteSets, FiniteSetsExt

CONSTANTS Calls,        \* calls of the SDK, each on a client of its own
          Assets, Algo, \* the assets, Algo among them
          Asks,         \* Asks[c]: what c may do
          Estimating,   \* the calls that ask for the price of an order first
          BoxCost,      \* BoxCost[kind]: minimum balance of an order's box
          AssetCost,    \* minimum balance of holding an asset
          AccountCost,  \* minimum balance of an account
          Fee,          \* the fee of one transaction
          MaxVersion, MaxFills,  \* how many versions and fills there may be
          Starts        \* what the registry may name at first, and that application

Kinds == {"o", "r"}
Puts == [op : {"put"}, kind : Kinds, asset : Assets, target : Assets,
         amount : Nat, times : Nat \ {0}]
Handles == [op : {"cancel", "claim"}, kind : Kinds, id : Nat]

ASSUME AssetAssumption == Algo \in Assets /\ IsFiniteSet(Assets)
ASSUME AskAssumption ==
  /\ \A c \in Calls : Asks[c] \subseteq Puts \cup Handles \cup [op : {"create", "update"}]
  /\ \A c \in Calls : \A r \in Asks[c] : r.op = "put" /\ r.kind = "o" => r.times = 1
ASSUME CostAssumption ==
  BoxCost \in [Kinds -> Nat] /\ {AssetCost, AccountCost, Fee, MaxVersion, MaxFills} \subseteq Nat
ASSUME StartAssumption ==
  \A start \in Starts :
    /\ start.apps \in Seq({start.apps[i] : i \in DOMAIN start.apps})
    /\ start.entry \subseteq DOMAIN start.apps /\ \A i, j \in start.entry : i = j
    /\ \A i \in DOMAIN start.apps : "orders" \in DOMAIN start.apps[i]

Order == [asset : Assets, target : Assets, each : Nat, left : Nat, collected : Nat]

\* What an order application may look like.
IsOrderApp(app) ==
  /\ app \in [version : Nat, program : Nat, count : Nat, orders : {app.orders},
              optedIn : SUBSET (Assets \ {Algo}), holds : [Assets -> Nat]]
  /\ DOMAIN app.orders \subseteq Kinds \X (0 .. app.count - 1)
  /\ app.orders \in [DOMAIN app.orders -> Order]

VARIABLES
  entry,      \* chain: the application the registry names, if any
  apps,       \* chain: the order applications created
  latest,     \* chain: the version the registry approves
  published,  \* the version of the program on the web
  fills,      \* how many fills there were
  pc, req,    \* pc[c], req[c]: where call c is, and what it does
  appId,      \* appId[c]: the application of c's client, if any
  seen,       \* seen[c]: what the call read
  estimate,   \* estimate[c]: the price asked for
  group       \* group[c]: the transaction group prepared

chainVars == <<entry, apps, latest, published, fills>>
vars == <<chainVars, pc, req, appId, seen, estimate, group>>

None == [none |-> TRUE]
Only(S) == CHOOSE x \in S : TRUE
AtLeast0(n) == IF n < 0 THEN 0 ELSE n
-----------------------------------------------------------------------------
(* The chain.                                                               *)

Box(kind, id) == <<kind, id>>
OrdersIn(app) == DOMAIN app.orders

MinBalance(app) ==
  AccountCost + AssetCost * Cardinality(app.optedIn)
    + MapThenSumSet(LAMBDA b : BoxCost[b[1]], OrdersIn(app))

\* What an application owes its user of an asset: what is left of the orders
\* that pay in it, and what those that ask for it collected.
Owed(o, a) == (IF o.asset = a THEN o.left ELSE 0) + (IF o.target = a THEN o.collected ELSE 0)
Promised(app, a) == MapThenSumSet(LAMBDA b : Owed(app.orders[b], a), OrdersIn(app))

\* An application that was put orders in holds all it owes to them, and of Algo its
\* own minimum balance besides.
Funded(app) ==
  app.count > 0 => \A a \in Assets :
    app.holds[a] >= Promised(app, a) + (IF a = Algo THEN MinBalance(app) ELSE 0)

\* What the user has at first, earlier calls have left.
ASSUME EarlierAssumption ==
  \A start \in Starts : \A i \in DOMAIN start.apps :
    IsOrderApp(start.apps[i]) /\ Funded(start.apps[i])

NewApp(g) == [version |-> g.version, program |-> g.program, count |-> 0, orders |-> <<>>,
              optedIn |-> {}, holds |-> [a \in Assets |-> 0]]

WithOrder(app, g) ==
  [app EXCEPT !.count = @ + 1,
              !.orders = [b \in DOMAIN @ \cup {g.box} |->
                            IF b = g.box
                            THEN [asset |-> g.asset, target |-> g.target, each |-> g.each,
                                  left |-> g.each * g.times, collected |-> 0]
                            ELSE @[b]],
              !.optedIn = @ \cup g.optIns,
              !.holds = [a \in Assets |-> @[a] + (IF a = Algo THEN g.pay ELSE 0)
                                               + (IF a = g.asset THEN g.amount ELSE 0)]]

Without(app, box) ==
  [app EXCEPT !.orders = [b \in DOMAIN @ \ {box} |-> @[b]],
              !.holds = [a \in Assets |-> @[a] - Owed(app.orders[box], a)]]

Claimed(app, box) ==
  [app EXCEPT !.orders[box].collected = 0,
              !.holds[app.orders[box].target] = @ - app.orders[box].collected]

Solvent(app) == app.holds[Algo] >= MinBalance(app) /\ \A a \in Assets : app.holds[a] >= 0

AppAfter(g) ==
  CASE g.op = "put"    -> WithOrder(apps[g.app], g)
    [] g.op = "cancel" -> Without(apps[g.app], g.box)
    [] g.op = "claim"  -> Claimed(apps[g.app], g.box)
    [] g.op = "update" -> [apps[g.app] EXCEPT !.version = g.version, !.program = g.program]

Executable(g) ==
  CASE g.op = "put" ->
         /\ g.box = Box(g.kind, apps[g.app].count)
         /\ {g.asset, g.target} \subseteq {Algo} \cup apps[g.app].optedIn \cup g.optIns
         /\ Solvent(AppAfter(g))
    [] g.op \in {"cancel", "claim"} -> g.box \in OrdersIn(apps[g.app]) /\ Solvent(AppAfter(g))
    [] g.op = "update" -> g.program = g.version
    [] g.op = "create" -> g.program = g.version /\ (entry = {} => g.paysEntry)

\* The user signs and sends the group, which is executed some time later...
Execute(c) ==
  /\ pc[c] = "built" /\ Executable(group[c])
  /\ IF group[c].op = "create"
     THEN apps' = Append(apps, NewApp(group[c])) /\ entry' = {Len(apps) + 1}
     ELSE apps' = [apps EXCEPT ![group[c].app] = AppAfter(group[c])] /\ UNCHANGED entry
  /\ pc' = [pc EXCEPT ![c] = "executed"]
  /\ UNCHANGED <<latest, published, fills, req, appId, seen, estimate, group>>

\* ... or refused.
Refuse(c) ==
  /\ pc[c] = "built" /\ ~Executable(group[c])
  /\ pc' = [pc EXCEPT ![c] = "refused"]
  /\ UNCHANGED <<chainVars, req, appId, seen, estimate, group>>

\* Part of an order is filled, one for one; a recurring order by its amount.
Filled(app, b, k) ==
  [app EXCEPT !.orders[b].left = @ - k, !.orders[b].collected = @ + k,
              !.holds = [a \in Assets |-> @[a] - (IF a = app.orders[b].asset THEN k ELSE 0)
                                               + (IF a = app.orders[b].target THEN k ELSE 0)]]

Fill(i, b, k) ==
  /\ fills < MaxFills
  /\ k \in 1 .. apps[i].orders[b].left
  /\ k \in {apps[i].orders[b].each, apps[i].orders[b].each \div 2}
  /\ b[1] = "r" => k = apps[i].orders[b].each
  /\ fills' = fills + 1
  /\ apps' = [apps EXCEPT ![i] = Filled(@, b, k)]
  /\ UNCHANGED <<entry, latest, published, pc, req, appId, seen, estimate, group>>

\* A release: the program on the web and the version in the registry follow
\* each other in either order.
Release ==
  /\ \/ published <= latest /\ published < MaxVersion
          /\ published' = published + 1 /\ UNCHANGED latest
     \/ latest <= published /\ latest < MaxVersion
          /\ latest' = latest + 1 /\ UNCHANGED published
  /\ UNCHANGED <<entry, apps, fills, pc, req, appId, seen, estimate, group>>
-----------------------------------------------------------------------------
(* The client.  An action ends where the code awaits.                       *)

Go(c, place) == pc' = [pc EXCEPT ![c] = place]

\* getOrderApplicationId: any error is taken for there being none.
getOrderApplicationId(failed) == IF failed THEN {} ELSE entry

initializeOrderingClient(c, failed) ==
  /\ pc[c] = "new"
  /\ appId' = [appId EXCEPT ![c] = getOrderApplicationId(failed)]
  /\ Go(c, "ready")
  /\ UNCHANGED <<chainVars, req, seen, estimate, group>>

\* A method of the client is called.  Creating an application is prepared for a
\* user who has one as well.
Ask(c, r) ==
  /\ pc[c] = "ready"
  /\ req' = [req EXCEPT ![c] = r]
  /\ Go(c, r.op)
  /\ UNCHANGED <<chainVars, appId, seen, estimate, group>>

AppOf(c) == apps[Only(appId[c])]

\* getAssetsToOptInToOrderingClient; a failed look at an asset counts as none.
AssetsToOptIn(app, r, failed) ==
  {a \in {r.asset, r.target} \ {Algo} : a \notin app.optedIn \/ a \in failed}

calculateMinBalance_WithoutAssets(assets, kind) == BoxCost[kind]
calculateMinBalance(assets, kind) == AssetCost * assets + BoxCost[kind]

\* MINIMUM_PUT_ORDER_TRANSACTION_COUNT and what opting in adds.
EstimatedFee_OptInsAlone(n) == (5 + n) * Fee
EstimatedFee(n) == (5 + n + (IF n > 0 THEN 1 ELSE 0)) * Fee

\* Whatever the kind of the order, its box is priced as a trigger order's.  The
\* price is 0 as long as the client has no application, and when a read threw.
\* The reads are one step: of the order's number only a box name is made.
getPutTriggerOrderTransactionFee(c, threw, failed) ==
  /\ pc[c] = "put" /\ c \in Estimating /\ estimate[c] = {}
  /\ failed \subseteq {req[c].asset, req[c].target}
  /\ IF appId[c] = {} \/ threw
     THEN estimate' = [estimate EXCEPT ![c] = {0}] /\ UNCHANGED seen
     ELSE LET optIns == AssetsToOptIn(AppOf(c), req[c], failed)
              n      == Cardinality(optIns)
          IN  /\ estimate' = [estimate EXCEPT ![c] =
                                {EstimatedFee(n) + calculateMinBalance(n, "o")}]
              /\ seen' = [seen EXCEPT ![c].estimatedFor = {optIns}]
  /\ UNCHANGED <<chainVars, pc, req, appId, group>>

\* It throws, like the other steps that need one, when no application is found.
checkOrderAppAvailability(c, failed) ==
  /\ pc[c] = "put"
  /\ LET id == IF appId[c] = {} THEN getOrderApplicationId(failed) ELSE appId[c]
     IN  id # {} /\ appId' = [appId EXCEPT ![c] = id]
  /\ Go(c, "available")
  /\ UNCHANGED <<chainVars, req, seen, estimate, group>>

getOrderCount(c) ==
  /\ pc[c] = "available"
  /\ seen' = [seen EXCEPT ![c].count = AppOf(c).count]
  /\ Go(c, "counted")
  /\ UNCHANGED <<chainVars, req, appId, estimate, group>>

ReadOptIns(c, failed) ==
  /\ pc[c] = "counted"
  /\ failed \subseteq {req[c].asset, req[c].target}
  /\ seen' = [seen EXCEPT ![c].optIns = AssetsToOptIn(AppOf(c), req[c], failed)]
  /\ Go(c, "optIns")
  /\ UNCHANGED <<chainVars, req, appId, estimate, group>>

\* boxExists: any error is taken for there being no box.
OrderBox(c) == Box(req[c].kind, seen[c].count)
boxExists(c, failed) ==
  /\ pc[c] = "optIns"
  /\ seen' = [seen EXCEPT ![c].boxThere = OrderBox(c) \in OrdersIn(AppOf(c)) /\ ~failed]
  /\ Go(c, "boxRead")
  /\ UNCHANGED <<chainVars, req, appId, estimate, group>>

\* By accountInformation; the Algo of open orders counts towards the balance.
requiredAmountToCoverMinBalance_Signed(app) == MinBalance(app) - app.holds[Algo]
requiredAmountToCoverMinBalance_Whole(app) == MinBalance(app)
requiredAmountToCoverMinBalance(app) == AtLeast0(MinBalance(app) - app.holds[Algo])

TotalAmount_OfOne(r) == r.amount
TotalAmount(r) == r.amount * r.times

\* preparePutTriggerOrderTransactions and preparePutRecurringOrderTransactions.
PreparePut(c) ==
  /\ pc[c] = "boxRead"
  /\ LET n == Cardinality(seen[c].optIns)
         lacking == requiredAmountToCoverMinBalance(AppOf(c))
         transactions == (IF seen[c].boxThere THEN 2 ELSE 3) + (IF n > 0 THEN 1 ELSE 0)
     IN  group' = [group EXCEPT ![c] =
           [op |-> "put", app |-> Only(appId[c]), kind |-> req[c].kind, box |-> OrderBox(c),
            asset |-> req[c].asset, target |-> req[c].target, each |-> req[c].amount,
            times |-> req[c].times, amount |-> TotalAmount(req[c]), optIns |-> seen[c].optIns,
            lacking |-> lacking,
            pay |-> IF seen[c].boxThere THEN 0
                    ELSE lacking + calculateMinBalance(n, req[c].kind),
            fee |-> (transactions + 2 + n) * Fee]]
  /\ Go(c, "built")
  /\ UNCHANGED <<chainVars, req, appId, seen, estimate>>

\* prepareCancelOrderTransactions and prepareClaimCollectedTargetAmount read
\* the order's box, and throw when there is none.
PrepareHandle(c) ==
  /\ pc[c] \in {"cancel", "claim"} /\ appId[c] # {}
  /\ Box(req[c].kind, req[c].id) \in OrdersIn(AppOf(c))
  /\ group' = [group EXCEPT ![c] = [op |-> req[c].op, app |-> Only(appId[c]),
                                    box |-> Box(req[c].kind, req[c].id)]]
  /\ Go(c, "built")
  /\ UNCHANGED <<chainVars, req, appId, seen, estimate>>

\* shouldUpdateOrderingApp reads the version approved...
shouldUpdateOrderingApp(c) ==
  /\ pc[c] = "update" /\ appId[c] # {}
  /\ seen' = [seen EXCEPT ![c].version = latest]
  /\ Go(c, "compare")
  /\ UNCHANGED <<chainVars, req, appId, estimate, group>>

\* ... and the application's; the user updates when told to.
CompareVersions(c) ==
  /\ pc[c] = "compare"
  /\ Go(c, IF seen[c].version # AppOf(c).version THEN "outdated" ELSE "upToDate")
  /\ UNCHANGED <<chainVars, req, appId, seen, estimate, group>>

getLatestOrderAppVersion(c) ==
  /\ pc[c] \in {"outdated", "create"}
  /\ seen' = [seen EXCEPT ![c].version = latest]
  /\ Go(c, IF pc[c] = "create" THEN "entry" ELSE "programs")
  /\ UNCHANGED <<chainVars, req, appId, estimate, group>>

entryBoxExists(c, failed) ==
  /\ pc[c] = "entry"
  /\ seen' = [seen EXCEPT ![c].boxThere = entry # {} /\ ~failed]
  /\ Go(c, "programs")
  /\ UNCHANGED <<chainVars, req, appId, estimate, group>>

\* getCompiledPrograms, the last await of prepareUpdateOrderingAppTransactions
\* and of prepareCreateOrderAppTransactions.
PrepareProgram(c) ==
  /\ pc[c] = "programs"
  /\ group' = [group EXCEPT ![c] =
       IF req[c].op = "update"
       THEN [op |-> "update", app |-> Only(appId[c]), version |-> seen[c].version,
             program |-> published]
       ELSE [op |-> "create", version |-> seen[c].version, program |-> published,
             paysEntry |-> ~seen[c].boxThere]]
  /\ Go(c, "built")
  /\ UNCHANGED <<chainVars, req, appId, seen, estimate>>

\* No application or no order is found, or the node failed: the call throws.
Throw(c) ==
  /\ pc[c] \in {"put", "available", "counted", "boxRead", "cancel", "claim", "update",
                "compare", "outdated", "create", "programs"}
  /\ Go(c, "threw")
  /\ UNCHANGED <<chainVars, req, appId, seen, estimate, group>>
-----------------------------------------------------------------------------
Unread == [count |-> 0, optIns |-> {}, boxThere |-> FALSE, version |-> 0,
           estimatedFor |-> {}]

Init ==
  /\ \E start \in Starts : entry = start.entry /\ apps = start.apps
  /\ latest = 1 /\ published = 1 /\ fills = 0
  /\ pc = [c \in Calls |-> "new"]
  /\ req = [c \in Calls |-> None]
  /\ appId = [c \in Calls |-> {}]
  /\ seen = [c \in Calls |-> Unread]
  /\ estimate = [c \in Calls |-> {}]
  /\ group = [c \in Calls |-> None]

Next ==
  \/ Release
  \/ \E i \in DOMAIN apps : \E b \in OrdersIn(apps[i]) :
       \E k \in 1 .. apps[i].orders[b].left : Fill(i, b, k)
  \/ \E c \in Calls :
       \/ \E r \in Asks[c] : Ask(c, r)
       \/ \E failed \in BOOLEAN :
            \/ initializeOrderingClient(c, failed)
            \/ checkOrderAppAvailability(c, failed)
            \/ boxExists(c, failed)
            \/ entryBoxExists(c, failed)
       \/ getOrderCount(c)
       \/ \E failed \in SUBSET Assets :
            \/ ReadOptIns(c, failed)
            \/ \E threw \in BOOLEAN : getPutTriggerOrderTransactionFee(c, threw, failed)
       \/ PreparePut(c)
       \/ PrepareHandle(c)
       \/ shouldUpdateOrderingApp(c)
       \/ CompareVersions(c)
       \/ getLatestOrderAppVersion(c)
       \/ PrepareProgram(c)
       \/ Throw(c)
       \/ Execute(c)
       \/ Refuse(c)

Spec == Init /\ [][Next]_vars
-----------------------------------------------------------------------------
(* Properties.                                                              *)

TypeOK ==
  /\ entry \subseteq DOMAIN apps /\ {latest, published} \subseteq Nat
  /\ \A i \in DOMAIN apps : IsOrderApp(apps[i])
  /\ \A c \in Calls :
       /\ appId[c] \subseteq DOMAIN apps
       /\ pc[c] = "built" /\ req[c].op = "put" => group[c].pay \in Nat /\ group[c].fee \in Nat

\* An application holds all it owes to its orders, and of Algo its own minimum
\* balance besides: the Algo of one order never pays for the box of another
\* (requiredAmountToCoverMinBalance, calculateMinBalance, totalAmount).
OrdersFunded == \A i \in DOMAIN apps : Funded(apps[i])

\* What the Algo of an application comes to beyond what it owes and must keep.
Surplus(app) == app.holds[Algo] - Promised(app, Algo) - MinBalance(app)

\* The user pays no minimum balance twice.  A put leaves the application what it
\* had to spare, or nothing where it lacked something, though the order count, the
\* opt-ins, the box and the balance were read one after the other and the group
\* executed later; but for the opt-in to an asset already held, which is made when
\* a look at the asset failed (requiredAmountToCoverMinBalance,
\* calculateMinBalance, totalAmount).
NeverPaidTwice ==
  [][\A c \in Calls : pc[c] = "built" /\ pc'[c] = "executed" /\ req[c].op = "put" =>
       LET i == Only(appId[c])
           inVain == apps[i].optedIn \cap group[c].optIns
       IN  Surplus(apps'[i]) = AtLeast0(Surplus(apps[i])) + AssetCost * Cardinality(inVain)]_vars

\* A put is refused only when another one came first, a cancellation or a claim
\* only when the order is gone, and a new program only when it is not of the
\* version the registry told: reads that were overtaken otherwise, or failed
\* and were taken for an answer, still make a group that executes.
RefusedOnlyIfMoved ==
  [][\A c \in Calls : pc[c] = "built" /\ pc'[c] = "refused" =>
       CASE req[c].op = "put" -> AppOf(c).count # seen[c].count
         [] req[c].op \in {"cancel", "claim"} ->
              Box(req[c].kind, req[c].id) \notin OrdersIn(AppOf(c))
         [] OTHER -> group[c].program # group[c].version]_vars

\* What getPutTriggerOrderTransactionFee foretells of an order, as long as the same
\* assets are still to be opted in, is what the group takes from the user besides
\* the order's amount and what the application lacked before.  Of a recurring order
\* it is less by all that its box costs more than a trigger order's.
EstimateIsCost ==
  \A c \in Calls :
    /\ pc[c] = "built" /\ req[c].op = "put" /\ ~seen[c].boxThere
    /\ seen[c].estimatedFor = {seen[c].optIns}
    => estimate[c] = {group[c].fee + group[c].pay - group[c].lacking
                        - (BoxCost[req[c].kind] - BoxCost["o"])}
==============================================================================
