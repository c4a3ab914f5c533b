---------------------------- MODULE Orders_proofs ----------------------------
(***************************************************************************)
(* Proofs about Orders, for any calls, assets, costs, releases and fills,  *)
(* in two layers.  IInv says where each call is and which application its  *)
(* group is about.  FInv adds what each application holds, owes and must   *)
(* keep (Sound), and how what a call has read compares with the chain by   *)
(* now (Informed); of it follow the types, the funding, what puts pay, the *)
(* prices foretold and the reasons of refusals.                            *)
(***************************************************************************)
EXTENDS Orders, AmmMath_proofs, SequenceTheorems

Functional ==
  /\ pc = [c \in Calls |-> pc[c]]
  /\ req = [c \in Calls |-> req[c]]
  /\ appId = [c \in Calls |-> appId[c]]
  /\ seen = [c \in Calls |-> seen[c]]
  /\ group = [c \in Calls |-> group[c]]

\* What has been created is a sequence of applications, each with its orders.
Created ==
  /\ \E S : apps \in Seq(S)
  /\ \A i \in DOMAIN apps : "orders" \in DOMAIN apps[i]
  /\ entry \subseteq DOMAIN apps /\ \A i, j \in entry : i = j

Putting == {"put", "available", "counted", "optIns", "boxRead"}

\* A call is where its request takes it, and its group is for the client's application.
OnItsWay(c) ==
  /\ pc[c] \in Putting => req[c].op = "put"
  /\ pc[c] \in Putting \ {"put"} => appId[c] # {}
  /\ pc[c] \in {"cancel", "claim", "update"} => req[c].op = pc[c]
  /\ pc[c] \in {"compare", "outdated"} => req[c].op = "update" /\ appId[c] # {}
  /\ pc[c] \in {"create", "entry"} => req[c].op = "create"
  /\ pc[c] = "programs" => req[c].op = "create" \/ (req[c].op = "update" /\ appId[c] # {})
  /\ pc[c] = "built" =>
       /\ group[c].op = req[c].op
       /\ group[c].op = "create" \/
            /\ group[c].op \in {"put", "cancel", "claim", "update"}
            /\ appId[c] # {} /\ group[c].app = Only(appId[c])

IInv ==
  /\ Functional /\ Created
  /\ \A c \in Calls : OnItsWay(c)

LEMMA InitEstablishes == Init => IInv
<1> SUFFICES ASSUME Init  PROVE IInv
  OBVIOUS
<1>1. PICK start \in Starts : entry = start.entry /\ apps = start.apps
  BY DEF Init
<1>2. /\ pc = [c \in Calls |-> "new"] /\ req = [c \in Calls |-> None]
      /\ appId = [c \in Calls |-> {}] /\ seen = [c \in Calls |-> Unread]
      /\ group = [c \in Calls |-> None]
  BY DEF Init
<1>3. Functional
  BY <1>2 DEF Functional
<1>4. Created
  BY <1>1, StartAssumption DEF Created
<1>5. \A c \in Calls : OnItsWay(c)
  BY <1>2 DEF OnItsWay, Putting
<1> QED
  BY <1>3, <1>4, <1>5 DEF IInv

\* A fill changes an application, and no call.
LEMMA FillFrame ==
  ASSUME NEW i, NEW b, NEW k, Fill(i, b, k)
  PROVE  /\ entry' = entry /\ pc' = pc /\ req' = req /\ appId' = appId
         /\ seen' = seen /\ group' = group
  BY DEF Fill

\* It leaves a sequence of applications.
LEMMA FillKeepsCreated ==
  ASSUME IInv, NEW i \in DOMAIN apps, NEW b \in OrdersIn(apps[i]), NEW k, Fill(i, b, k)
  PROVE  Created'
<1>1. PICK S : apps \in Seq(S)
  BY DEF IInv, Created
<1>2. "orders" \in DOMAIN apps[i]
  BY DEF IInv, Created
<1> DEFINE x == Filled(apps[i], b, k)
<1>3. apps' = [apps EXCEPT ![i] = x]
  BY DEF Fill
<1>4. "orders" \in DOMAIN x
  BY <1>2 DEF Filled
<1> HIDE DEF x
<1>5. apps' \in Seq(S \cup {x})
  BY <1>1, <1>3
<1> QED
  BY <1>1, <1>3, <1>4, <1>5, FillFrame DEF IInv, Created

\* What a step must keep.
Kept == Functional' /\ Created' /\ \A c \in Calls : OnItsWay(c)'

\* A step of one call that leaves the chain alone keeps everything if the call stays on
\* its way.
LEMMA OwnStepKeeps ==
  ASSUME IInv, NEW c \in Calls, entry' = entry, apps' = apps, Functional',
         \A d \in Calls \ {c} :
           /\ pc'[d] = pc[d] /\ req'[d] = req[d] /\ appId'[d] = appId[d]
           /\ seen'[d] = seen[d] /\ group'[d] = group[d],
         OnItsWay(c)'
  PROVE  Kept
<1>1. Created'
  BY DEF IInv, Created
<1>2. \A d \in Calls : OnItsWay(d)'
  BY DEF IInv, OnItsWay, Putting
<1> QED
  BY <1>1, <1>2 DEF Kept

LEMMA InitializeKeeps ==
  ASSUME IInv, NEW c \in Calls, NEW failed \in BOOLEAN, initializeOrderingClient(c, failed)
  PROVE  Kept
<1>1. /\ appId' = [appId EXCEPT ![c] = getOrderApplicationId(failed)]
      /\ pc' = [pc EXCEPT ![c] = "ready"]
      /\ entry' = entry /\ apps' = apps /\ req' = req /\ seen' = seen /\ group' = group
  BY DEF initializeOrderingClient, Go, chainVars
<1>2. Functional'
  BY <1>1 DEF IInv, Functional
<1>3. pc'[c] = "ready"
  BY <1>1 DEF IInv, Functional
<1>4. OnItsWay(c)'
  BY <1>3 DEF OnItsWay, Putting
<1>5. \A d \in Calls \ {c} :
        /\ pc'[d] = pc[d] /\ req'[d] = req[d] /\ appId'[d] = appId[d]
        /\ seen'[d] = seen[d] /\ group'[d] = group[d]
  BY <1>1 DEF IInv, Functional
<1> QED
  BY <1>1, <1>2, <1>4, <1>5, OwnStepKeeps

LEMMA AskKeeps ==
  ASSUME IInv, NEW c \in Calls, NEW r \in Asks[c], Ask(c, r)
  PROVE  Kept
<1>1. /\ pc[c] = "ready" /\ req' = [req EXCEPT ![c] = r] /\ pc' = [pc EXCEPT ![c] = r.op]
      /\ entry' = entry /\ apps' = apps /\ appId' = appId /\ seen' = seen /\ group' = group
  BY DEF Ask, Go, chainVars
<1>2. r.op \in {"put", "cancel", "claim", "create", "update"}
  BY AskAssumption DEF Puts, Handles
<1>3. Functional'
  BY <1>1 DEF IInv, Functional
<1>4. pc'[c] = r.op /\ req'[c] = r
  BY <1>1 DEF IInv, Functional
<1>5. OnItsWay(c)'
  BY <1>1, <1>2, <1>4 DEF IInv, OnItsWay, Putting
<1>6. \A d \in Calls \ {c} :
        /\ pc'[d] = pc[d] /\ req'[d] = req[d] /\ appId'[d] = appId[d]
        /\ seen'[d] = seen[d] /\ group'[d] = group[d]
  BY <1>1 DEF IInv, Functional
<1> QED
  BY <1>1, <1>3, <1>5, <1>6, OwnStepKeeps

LEMMA CheckAvailabilityKeeps ==
  ASSUME IInv, NEW c \in Calls, NEW failed \in BOOLEAN, checkOrderAppAvailability(c, failed)
  PROVE  Kept
<1> DEFINE id == IF appId[c] = {} THEN getOrderApplicationId(failed) ELSE appId[c]
<1>1. /\ pc[c] = "put" /\ id # {} /\ appId' = [appId EXCEPT ![c] = id]
      /\ pc' = [pc EXCEPT ![c] = "available"]
      /\ entry' = entry /\ apps' = apps /\ req' = req /\ seen' = seen /\ group' = group
  BY DEF checkOrderAppAvailability, Go, chainVars
<1> HIDE DEF id
<1>2. Functional'
  BY <1>1 DEF IInv, Functional
<1>3. pc'[c] = "available" /\ appId'[c] = id
  BY <1>1 DEF IInv, Functional
<1>4. OnItsWay(c)'
  BY <1>1, <1>3 DEF IInv, OnItsWay, Putting
<1>5. \A d \in Calls \ {c} :
        /\ pc'[d] = pc[d] /\ req'[d] = req[d] /\ appId'[d] = appId[d]
        /\ seen'[d] = seen[d] /\ group'[d] = group[d]
  BY <1>1 DEF IInv, Functional
<1> QED
  BY <1>1, <1>2, <1>4, <1>5, OwnStepKeeps

\* A step that reads.
LEMMA ReadingKeeps ==
  ASSUME IInv, NEW c \in Calls,
         entry' = entry, apps' = apps, req' = req, appId' = appId, group' = group,
         seen' = [seen EXCEPT ![c] = seen'[c]],
         NEW x, pc' = [pc EXCEPT ![c] = x],
         \/ x = pc[c] /\ pc[c] = "put"
         \/ pc[c] \in Putting \ {"put"} /\ x \in Putting \ {"put"}
         \/ pc[c] = "update" /\ x = "compare" /\ appId[c] # {}
         \/ pc[c] = "compare" /\ x \in {"outdated", "upToDate"}
         \/ pc[c] \in {"outdated", "entry"} /\ x = "programs"
         \/ pc[c] = "create" /\ x = "entry"
  PROVE  Kept
<1>1. Functional' /\ pc'[c] = x
  BY DEF IInv, Functional
<1>2. OnItsWay(c)
  BY DEF IInv
<1>3. OnItsWay(c)'
  BY <1>1, <1>2 DEF OnItsWay, Putting
<1>4. \A d \in Calls \ {c} :
        /\ pc'[d] = pc[d] /\ req'[d] = req[d] /\ appId'[d] = appId[d]
        /\ seen'[d] = seen[d] /\ group'[d] = group[d]
  BY DEF IInv, Functional
<1> QED
  BY <1>1, <1>3, <1>4, OwnStepKeeps

LEMMA ReadersKeep ==
  ASSUME IInv, NEW c \in Calls,
         \/ getOrderCount(c)
         \/ \E failed \in SUBSET Assets, threw \in BOOLEAN :
              ReadOptIns(c, failed) \/ getPutTriggerOrderTransactionFee(c, threw, failed)
         \/ \E failed \in BOOLEAN : boxExists(c, failed) \/ entryBoxExists(c, failed)
         \/ shouldUpdateOrderingApp(c) \/ CompareVersions(c) \/ getLatestOrderAppVersion(c)
  PROVE  Kept
<1>1. /\ entry' = entry /\ apps' = apps /\ req' = req /\ appId' = appId /\ group' = group
  BY DEF getPutTriggerOrderTransactionFee, getOrderCount, ReadOptIns, boxExists,
     entryBoxExists, shouldUpdateOrderingApp, CompareVersions, getLatestOrderAppVersion,
     chainVars
<1>2. \/ seen' = seen
      \/ \E y : seen' = [seen EXCEPT ![c].estimatedFor = y]
      \/ \E y : seen' = [seen EXCEPT ![c].count = y]
      \/ \E y : seen' = [seen EXCEPT ![c].optIns = y]
      \/ \E y : seen' = [seen EXCEPT ![c].boxThere = y]
      \/ \E y : seen' = [seen EXCEPT ![c].version = y]
  BY DEF getPutTriggerOrderTransactionFee, getOrderCount, ReadOptIns, boxExists,
     entryBoxExists, shouldUpdateOrderingApp, CompareVersions, getLatestOrderAppVersion
<1>3. seen = [d \in Calls |-> seen[d]]
  BY DEF IInv, Functional
<1>4. seen' = [seen EXCEPT ![c] = seen'[c]]
  <2>1. CASE seen' = seen
    BY <1>3, <2>1
  <2>2. ASSUME NEW y, NEW s,
               s \in {[seen[c] EXCEPT !.estimatedFor = y], [seen[c] EXCEPT !.count = y],
                      [seen[c] EXCEPT !.optIns = y], [seen[c] EXCEPT !.boxThere = y],
                      [seen[c] EXCEPT !.version = y]},
               seen' = [seen EXCEPT ![c] = s]
        PROVE  seen' = [seen EXCEPT ![c] = seen'[c]]
    BY <1>3, <2>2
  <2> QED
    BY <1>2, <2>1, <2>2
<1> DEFINE Moves(x) ==
             \/ x = pc[c] /\ pc[c] = "put"
             \/ pc[c] \in Putting \ {"put"} /\ x \in Putting \ {"put"}
             \/ pc[c] = "update" /\ x = "compare" /\ appId[c] # {}
             \/ pc[c] = "compare" /\ x \in {"outdated", "upToDate"}
             \/ pc[c] \in {"outdated", "entry"} /\ x = "programs"
             \/ pc[c] = "create" /\ x = "entry"
<1>5. \E x : pc' = [pc EXCEPT ![c] = x] /\ Moves(x)
  <2>1. CASE \E failed \in SUBSET Assets, threw \in BOOLEAN :
                getPutTriggerOrderTransactionFee(c, threw, failed)
    <3>1. pc' = [pc EXCEPT ![c] = pc[c]] /\ pc[c] = "put"
      BY <2>1 DEF getPutTriggerOrderTransactionFee, IInv, Functional
    <3> QED
      BY <3>1
  <2>2. CASE \/ getOrderCount(c)
             \/ \E failed \in SUBSET Assets : ReadOptIns(c, failed)
             \/ \E failed \in BOOLEAN : boxExists(c, failed)
    BY <2>2 DEF getOrderCount, ReadOptIns, boxExists, Go, Putting
  <2>3. CASE \/ \E failed \in BOOLEAN : entryBoxExists(c, failed)
             \/ shouldUpdateOrderingApp(c) \/ CompareVersions(c)
             \/ getLatestOrderAppVersion(c)
    BY <2>3 DEF entryBoxExists, shouldUpdateOrderingApp, CompareVersions,
       getLatestOrderAppVersion, Go
  <2> QED
    BY <2>1, <2>2, <2>3
<1> QED
  BY <1>1, <1>4, <1>5, ReadingKeeps

\* A step that prepares a group, or ends the call.
LEMMA PreparersKeep ==
  ASSUME IInv, NEW c \in Calls,
         PreparePut(c) \/ PrepareHandle(c) \/ PrepareProgram(c) \/ Throw(c) \/ Refuse(c)
  PROVE  Kept
<1>1. /\ entry' = entry /\ apps' = apps /\ req' = req /\ appId' = appId /\ seen' = seen
  BY DEF PreparePut, PrepareHandle, PrepareProgram, Throw, Refuse, chainVars
<1>2. \/ /\ pc' = [pc EXCEPT ![c] = "built"]
         /\ \E g : group' = [group EXCEPT ![c] = g] /\ g.op = req[c].op
              /\ \/ g.op = "create"
                 \/ /\ g.op \in {"put", "cancel", "claim", "update"}
                    /\ appId[c] # {} /\ g.app = Only(appId[c])
      \/ group' = group /\ \E x \in {"threw", "refused"} : pc' = [pc EXCEPT ![c] = x]
  <2>1. OnItsWay(c)
    BY DEF IInv
  <2>2. CASE PreparePut(c)
    <3>1. pc[c] \in Putting \ {"put"} /\ req[c].op = "put" /\ appId[c] # {}
      BY <2>1, <2>2 DEF PreparePut, OnItsWay, Putting
    <3>2. pc' = [pc EXCEPT ![c] = "built"]
      BY <2>2 DEF PreparePut, Go
    <3> DEFINE n       == Cardinality(seen[c].optIns)
               lacking == requiredAmountToCoverMinBalance(AppOf(c))
               pay     == IF seen[c].boxThere THEN 0
                          ELSE lacking + calculateMinBalance(n, req[c].kind)
               fee     == ((IF seen[c].boxThere THEN 2 ELSE 3)
                             + (IF n > 0 THEN 1 ELSE 0) + 2 + n) * Fee
               total   == TotalAmount(req[c])
               box     == OrderBox(c)
               g       == [op |-> "put", app |-> Only(appId[c]), kind |-> req[c].kind,
                           box |-> box, asset |-> req[c].asset, target |-> req[c].target,
                           each |-> req[c].amount, times |-> req[c].times,
                           amount |-> total, optIns |-> seen[c].optIns,
                           lacking |-> lacking, pay |-> pay, fee |-> fee]
    <3>3. group' = [group EXCEPT ![c] = g]
      BY <2>2, Zenon DEF PreparePut
    <3> HIDE DEF n, lacking, pay, fee, total, box
    <3>4. g.op = "put" /\ g.app = Only(appId[c])
      OBVIOUS
    <3> HIDE DEF g
    <3> QED
      BY <3>1, <3>2, <3>3, <3>4
  <2>3. CASE PrepareHandle(c)
    <3> DEFINE box == Box(req[c].kind, req[c].id)
               g   == [op |-> req[c].op, app |-> Only(appId[c]), box |-> box]
    <3>1. pc' = [pc EXCEPT ![c] = "built"] /\ group' = [group EXCEPT ![c] = g]
      BY <2>3 DEF PrepareHandle, Go
    <3>2. req[c].op \in {"cancel", "claim"} /\ appId[c] # {}
      BY <2>1, <2>3 DEF PrepareHandle, OnItsWay
    <3> HIDE DEF box
    <3>3. g.op = req[c].op /\ g.app = Only(appId[c])
      OBVIOUS
    <3> HIDE DEF g
    <3> QED
      BY <3>1, <3>2, <3>3
  <2>4. CASE PrepareProgram(c)
    <3>1. pc' = [pc EXCEPT ![c] = "built"]
      BY <2>4 DEF PrepareProgram, Go
    <3>2. CASE req[c].op = "update"
      <4> DEFINE g == [op |-> "update", app |-> Only(appId[c]), version |-> seen[c].version,
                       program |-> published]
      <4>1. group' = [group EXCEPT ![c] = g]
        BY <2>4, <3>2 DEF PrepareProgram
      <4>2. appId[c] # {}
        BY <2>1, <2>4, <3>2 DEF PrepareProgram, OnItsWay
      <4>3. g.op = "update" /\ g.app = Only(appId[c])
        OBVIOUS
      <4> HIDE DEF g
      <4> QED
        BY <3>1, <3>2, <4>1, <4>2, <4>3
    <3>3. CASE req[c].op # "update"
      <4> DEFINE g == [op |-> "create", version |-> seen[c].version, program |-> published,
                       paysEntry |-> ~seen[c].boxThere]
      <4>1. group' = [group EXCEPT ![c] = g]
        BY <2>4, <3>3 DEF PrepareProgram
      <4>2. req[c].op = "create"
        BY <2>1, <2>4, <3>3 DEF PrepareProgram, OnItsWay
      <4>3. g.op = "create"
        OBVIOUS
      <4> HIDE DEF g
      <4> QED
        BY <3>1, <4>1, <4>2, <4>3
    <3> QED
      BY <3>2, <3>3
  <2>5. CASE Throw(c) \/ Refuse(c)
    BY <2>5 DEF Throw, Refuse, Go, chainVars
  <2> QED
    BY <2>2, <2>3, <2>4, <2>5
<1>3. pc[c] \notin {"new", "ready"}
  BY DEF PreparePut, PrepareHandle, PrepareProgram, Throw, Refuse
<1>4. Functional'
  BY <1>1, <1>2 DEF IInv, Functional
<1>5. OnItsWay(c)'
  <2>1. OnItsWay(c)
    BY DEF IInv
  <2>2. CASE pc' = [pc EXCEPT ![c] = "built"]
    <3>1. pc'[c] = "built" /\ \E g : group'[c] = g /\ g.op = req[c].op
            /\ \/ g.op = "create"
               \/ /\ g.op \in {"put", "cancel", "claim", "update"}
                  /\ appId[c] # {} /\ g.app = Only(appId[c])
      <4>1. pc'[c] = "built"
        BY <2>2 DEF IInv, Functional
      <4> QED
        BY <1>2, <2>2, <4>1 DEF IInv, Functional
    <3> QED
      BY <1>1, <1>3, <2>1, <3>1 DEF OnItsWay, Putting
  <2>3. CASE \E x \in {"threw", "refused"} : pc' = [pc EXCEPT ![c] = x]
    <3>1. pc'[c] \in {"threw", "refused"}
      BY <2>3 DEF IInv, Functional
    <3> QED
      BY <1>1, <1>3, <2>1, <3>1 DEF OnItsWay, Putting
  <2> QED
    BY <1>2, <2>2, <2>3
<1>6. \A d \in Calls \ {c} :
        /\ pc'[d] = pc[d] /\ req'[d] = req[d] /\ appId'[d] = appId[d]
        /\ seen'[d] = seen[d] /\ group'[d] = group[d]
  BY <1>1, <1>2 DEF IInv, Functional
<1> QED
  BY <1>1, <1>4, <1>5, <1>6, OwnStepKeeps

\* What a group makes of its application has orders.
LEMMA AppAfterOrders ==
  ASSUME NEW g, g.op \in {"put", "cancel", "claim", "update"},
         "orders" \in DOMAIN apps[g.app]
  PROVE  "orders" \in DOMAIN AppAfter(g)
<1>1. CASE g.op = "put"
  <2>1. AppAfter(g) = WithOrder(apps[g.app], g)
    BY <1>1 DEF AppAfter
  <2> QED
    BY <1>1, <2>1 DEF WithOrder
<1>2. CASE g.op = "cancel"
  <2>1. AppAfter(g) = Without(apps[g.app], g.box)
    BY <1>2 DEF AppAfter
  <2> QED
    BY <1>2, <2>1 DEF Without
<1>3. CASE g.op = "claim"
  <2>1. AppAfter(g) = Claimed(apps[g.app], g.box)
    BY <1>3 DEF AppAfter
  <2> QED
    BY <1>3, <2>1 DEF Claimed
<1>4. CASE g.op = "update"
  <2>1. AppAfter(g) = [apps[g.app] EXCEPT !.version = g.version, !.program = g.program]
    BY <1>4 DEF AppAfter
  <2> QED
    BY <1>4, <2>1
<1> QED
  BY <1>1, <1>2, <1>3, <1>4

\* Replacing an element of a sequence.
LEMMA Replaced ==
  ASSUME NEW S, NEW s \in Seq(S), NEW i, NEW x \in S
  PROVE  /\ [s EXCEPT ![i] = x] \in Seq(S) /\ DOMAIN [s EXCEPT ![i] = x] = DOMAIN s
         /\ \A j \in DOMAIN s : [s EXCEPT ![i] = x][j] = IF j = i THEN x ELSE s[j]
<1>1. s \in [1 .. Len(s) -> S] /\ Len(s) \in Nat
  OBVIOUS
<1>2. [s EXCEPT ![i] = x] \in [1 .. Len(s) -> S]
  BY <1>1
<1>3. [s EXCEPT ![i] = x] \in Seq(S)
  BY <1>1, <1>2, SeqDef
<1> QED
  BY <1>1, <1>3

LEMMA ExecuteKeeps ==
  ASSUME IInv, NEW c \in Calls, Execute(c)
  PROVE  Kept
<1> DEFINE g == group[c]
<1>1. /\ pc[c] = "built" /\ pc' = [pc EXCEPT ![c] = "executed"]
      /\ req' = req /\ appId' = appId /\ seen' = seen /\ group' = group
  BY DEF Execute
<1>2. /\ g.op = req[c].op
      /\ g.op = "create" \/
           /\ g.op \in {"put", "cancel", "claim", "update"}
           /\ appId[c] # {} /\ g.app = Only(appId[c])
      /\ OnItsWay(c)
  BY <1>1 DEF IInv, OnItsWay
<1>3. Functional' /\ pc'[c] = "executed"
  BY <1>1 DEF IInv, Functional
<1>4. ASSUME NEW d \in Calls
      PROVE  OnItsWay(d)'
  <2>1. OnItsWay(d)
    BY DEF IInv
  <2>2. CASE d = c
    BY <1>1, <1>3, <2>1, <2>2 DEF OnItsWay, Putting
  <2>3. CASE d # c
    <3>1. pc'[d] = pc[d]
      BY <1>1, <2>3 DEF IInv, Functional
    <3> QED
      BY <1>1, <2>1, <3>1 DEF OnItsWay, Putting
  <2> QED
    BY <2>2, <2>3
<1>5. PICK S : apps \in Seq(S)
  BY DEF IInv, Created
<1>6. CASE g.op = "create"
  <2>1. apps' = Append(apps, NewApp(g)) /\ entry' = {Len(apps) + 1}
    BY <1>6 DEF Execute
  <2>2. "orders" \in DOMAIN NewApp(g)
    BY DEF NewApp
  <2> DEFINE x == NewApp(g)
  <2> HIDE DEF x
  <2>3. /\ apps' \in Seq(S \cup {x}) /\ apps \in Seq(S \cup {x})
        /\ DOMAIN apps' = DOMAIN apps \cup {Len(apps) + 1}
        /\ \A i \in DOMAIN apps : apps'[i] = apps[i]
        /\ apps'[Len(apps) + 1] = x
    <3>1. apps \in Seq(S \cup {x})
      BY <1>5
    <3>2. apps' = Append(apps, x)
      BY <2>1 DEF x
    <3> QED
      BY <3>1, <3>2
  <2>4. Created'
    BY <2>1, <2>2, <2>3 DEF IInv, Created, x
  <2> QED
    BY <1>3, <1>4, <2>4 DEF Kept
<1>7. CASE g.op # "create"
  <2> DEFINE x == AppAfter(g)
  <2>1. apps' = [apps EXCEPT ![g.app] = x] /\ entry' = entry
    BY <1>7 DEF Execute
  <2>2. g.app \in DOMAIN apps => "orders" \in DOMAIN x
    <3>1. g.app \in DOMAIN apps => "orders" \in DOMAIN apps[g.app]
      BY DEF IInv, Created
    <3> QED
      BY <1>2, <1>7, <3>1, AppAfterOrders
  <2> HIDE DEF x
  <2>3. /\ DOMAIN apps' = DOMAIN apps /\ apps' \in Seq(S \cup {x})
        /\ \A i \in DOMAIN apps : apps'[i] = IF i = g.app THEN x ELSE apps[i]
    <3>1. apps \in Seq(S \cup {x})
      BY <1>5
    <3>2. x \in S \cup {x}
      OBVIOUS
    <3> QED
      BY <2>1, <3>1, <3>2, Replaced, Zenon
  <2>4. Created'
    BY <2>1, <2>2, <2>3 DEF IInv, Created
  <2> QED
    BY <1>3, <1>4, <2>4 DEF Kept
<1> QED
  BY <1>6, <1>7

\* A step of no call.
LEMMA OthersKeep ==
  ASSUME IInv,
         \/ Release \/ UNCHANGED vars
         \/ \E i \in DOMAIN apps : \E b \in OrdersIn(apps[i]) :
              \E k \in 1 .. apps[i].orders[b].left : Fill(i, b, k)
  PROVE  Kept
<1>1. /\ entry' = entry /\ pc' = pc /\ req' = req /\ appId' = appId
      /\ seen' = seen /\ group' = group
  BY FillFrame DEF Release, vars, chainVars
<1>2. Created'
  <2>1. CASE Release \/ UNCHANGED vars
    <3>1. apps' = apps
      BY <2>1 DEF Release, vars, chainVars
    <3> QED
      BY <1>1, <3>1 DEF IInv, Created
  <2>2. CASE \E i \in DOMAIN apps : \E b \in OrdersIn(apps[i]) :
               \E k \in 1 .. apps[i].orders[b].left : Fill(i, b, k)
    BY <2>2, FillKeepsCreated
  <2> QED
    BY <2>1, <2>2
<1>3. Functional'
  BY <1>1 DEF IInv, Functional
<1>4. \A c \in Calls : OnItsWay(c)'
  BY <1>1 DEF IInv, OnItsWay, Putting
<1> QED
  BY <1>2, <1>3, <1>4 DEF Kept

THEOREM IInvInductive == IInv /\ [Next]_vars => IInv'
<1> SUFFICES ASSUME IInv, [Next]_vars  PROVE IInv'
  OBVIOUS
<1>1. ASSUME NEW c \in Calls, NEW r \in Asks[c], Ask(c, r)
      PROVE  Kept
  BY <1>1, AskKeeps
<1>2. ASSUME NEW c \in Calls, NEW failed \in BOOLEAN,
             initializeOrderingClient(c, failed) \/ checkOrderAppAvailability(c, failed)
      PROVE  Kept
  BY <1>2, InitializeKeeps, CheckAvailabilityKeeps
<1>3. Kept
  BY <1>1, <1>2, ReadersKeep, PreparersKeep, ExecuteKeeps, OthersKeep DEF Next
<1> QED
  BY <1>3 DEF Kept, IInv

-----------------------------------------------------------------------------
(* What orders cost and are owed.                                           *)

Owing(f, a) == [b \in DOMAIN f |-> Owed(f[b], a)]
OwedFor(f, a) == Total(Owing(f, a), DOMAIN f)

Costing(S) == [b \in S |-> BoxCost[b[1]]]
CostOf(S) == Total(Costing(S), S)

\* MapThenSumSet, for the sums of this module.
LEMMA PromisedIsTotal ==
  ASSUME NEW app, IsFiniteSet(DOMAIN app.orders), NEW a
  PROVE  Promised(app, a) = OwedFor(app.orders, a)
<1> DEFINE f == app.orders
           S == DOMAIN f
           t == Owing(f, a)
           o(s) == Owed(f[CHOOSE x \in s : TRUE], a)
           E(g) == g = [s \in SUBSET S |->
                          IF s = {} THEN 0 ELSE o(s) + g[s \ {CHOOSE x \in s : TRUE}]]
<1>1. \A s \in SUBSET S : s # {} => t[Pick(s)] = o(s)
  BY PickIn DEF Pick, Owing
<1>2. ASSUME NEW g  PROVE E(g) <=> Sums(g, t, S)
  <2> HIDE DEF t, o
  <2>1. [s \in SUBSET S |-> IF s = {} THEN 0 ELSE o(s) + g[s \ {CHOOSE x \in s : TRUE}]]
          = [s \in SUBSET S |-> IF s = {} THEN 0 ELSE t[Pick(s)] + g[s \ {Pick(s)}]]
    BY <1>1 DEF Pick
  <2> QED
    BY <2>1 DEF Sums
<1>3. PICK g : Sums(g, t, S)
  BY SumsExists
<1>4. E(CHOOSE h : E(h))
  <2>1. E(g)
    BY <1>2, <1>3
  <2> HIDE DEF E
  <2> QED
    BY <2>1
<1>5. Sums(CHOOSE h : E(h), t, S)
  BY <1>2, <1>4
<1>6. Total(t, S) = (CHOOSE h : E(h))[S]
  <2> HIDE DEF t, E
  <2> QED
    BY <1>5, TotalIsSum
<1>7. Promised(app, a) = (CHOOSE h : E(h))[S]
  BY DEF Promised, OrdersIn, MapThenSumSet, MapThenFoldSet, Owed
<1> QED
  BY <1>6, <1>7 DEF OwedFor

LEMMA CostIsTotal ==
  ASSUME NEW S, IsFiniteSet(S)
  PROVE  MapThenSumSet(LAMBDA b : BoxCost[b[1]], S) = CostOf(S)
<1> DEFINE t == Costing(S)
           E(g) == g = [s \in SUBSET S |->
                          IF s = {} THEN 0
                          ELSE BoxCost[(CHOOSE x \in s : TRUE)[1]]
                                 + g[s \ {CHOOSE x \in s : TRUE}]]
<1>1. \A s \in SUBSET S : s # {} => t[Pick(s)] = BoxCost[(CHOOSE x \in s : TRUE)[1]]
  BY PickIn DEF Pick, Costing
<1>2. ASSUME NEW g  PROVE E(g) <=> Sums(g, t, S)
  <2> HIDE DEF t
  <2>1. [s \in SUBSET S |-> IF s = {} THEN 0
                            ELSE BoxCost[(CHOOSE x \in s : TRUE)[1]]
                                   + g[s \ {CHOOSE x \in s : TRUE}]]
          = [s \in SUBSET S |-> IF s = {} THEN 0 ELSE t[Pick(s)] + g[s \ {Pick(s)}]]
    BY <1>1 DEF Pick
  <2> QED
    BY <2>1 DEF Sums
<1>3. PICK g : Sums(g, t, S)
  BY SumsExists
<1>4. E(CHOOSE h : E(h))
  <2>1. E(g)
    BY <1>2, <1>3
  <2> HIDE DEF E
  <2> QED
    BY <2>1
<1>5. Sums(CHOOSE h : E(h), t, S)
  BY <1>2, <1>4
<1>6. Total(t, S) = (CHOOSE h : E(h))[S]
  <2> HIDE DEF t, E
  <2> QED
    BY <1>5, TotalIsSum
<1>7. MapThenSumSet(LAMBDA b : BoxCost[b[1]], S) = (CHOOSE h : E(h))[S]
  BY DEF MapThenSumSet, MapThenFoldSet
<1> QED
  BY <1>6, <1>7 DEF CostOf

LEMMA MinBalanceIsTotal ==
  ASSUME NEW app, IsFiniteSet(DOMAIN app.orders)
  PROVE  MinBalance(app) = AccountCost + AssetCost * Cardinality(app.optedIn)
                             + CostOf(DOMAIN app.orders)
<1>1. MapThenSumSet(LAMBDA b : BoxCost[b[1]], DOMAIN app.orders) = CostOf(DOMAIN app.orders)
  BY CostIsTotal
<1> QED
  BY <1>1, Zenon DEF MinBalance, OrdersIn

\* The parts of an application, and their types.
LEMMA AppParts ==
  ASSUME NEW app, IsOrderApp(app)
  PROVE  /\ app = [version |-> app.version, program |-> app.program, count |-> app.count,
                   orders |-> app.orders, optedIn |-> app.optedIn, holds |-> app.holds]
         /\ app.version \in Nat /\ app.program \in Nat /\ app.count \in Nat
         /\ app.holds \in [Assets -> Nat] /\ app.optedIn \in SUBSET (Assets \ {Algo})
         /\ IsFiniteSet(app.optedIn) /\ Cardinality(app.optedIn) \in Nat
         /\ app.orders \in [DOMAIN app.orders -> Order]
         /\ IsFiniteSet(DOMAIN app.orders)
         /\ \A b \in DOMAIN app.orders :
              b[1] \in Kinds /\ b[2] \in Nat /\ b[2] < app.count
         /\ app.count = 0 => DOMAIN app.orders = {}
<1>1. /\ app \in [version : Nat, program : Nat, count : Nat, orders : {app.orders},
                  optedIn : SUBSET (Assets \ {Algo}), holds : [Assets -> Nat]]
      /\ DOMAIN app.orders \subseteq Kinds \X (0 .. app.count - 1)
      /\ app.orders \in [DOMAIN app.orders -> Order]
  BY DEF IsOrderApp
<1>2. /\ app = [version |-> app.version, program |-> app.program, count |-> app.count,
                orders |-> app.orders, optedIn |-> app.optedIn, holds |-> app.holds]
      /\ app.version \in Nat /\ app.program \in Nat /\ app.count \in Nat
      /\ app.holds \in [Assets -> Nat] /\ app.optedIn \in SUBSET (Assets \ {Algo})
  BY <1>1
<1>3. IsFiniteSet(app.optedIn) /\ Cardinality(app.optedIn) \in Nat
  BY <1>2, AssetAssumption, FS_Subset, FS_CardinalityType
<1>4. IsFiniteSet(DOMAIN app.orders)
  <2>1. IsFiniteSet(Kinds)
    <3>1. IsFiniteSet({"o"})
      BY FS_Singleton
    <3>2. IsFiniteSet({"o"} \cup {"r"})
      BY <3>1, FS_AddElement, Zenon
    <3> QED
      BY <3>2 DEF Kinds
  <2>2. IsFiniteSet(0 .. app.count - 1)
    <3>1. 0 \in Int /\ app.count - 1 \in Int
      BY <1>2
    <3> QED
      BY <3>1, FS_Interval, Zenon
  <2>3. IsFiniteSet(Kinds \X (0 .. app.count - 1))
    BY <2>1, <2>2, FS_Product
  <2> QED
    BY <1>1, <2>3, FS_Subset
<1>5. \A b \in DOMAIN app.orders : b[1] \in Kinds /\ b[2] \in 0 .. app.count - 1
  BY <1>1
<1> QED
  BY <1>1, <1>2, <1>3, <1>4, <1>5

LEMMA OwedType ==
  ASSUME NEW o \in Order, NEW a
  PROVE  Owed(o, a) \in Nat
  BY DEF Owed, Order

LEMMA OwingType ==
  ASSUME NEW f, \A x \in DOMAIN f : f[x] \in Order, NEW a
  PROVE  \A b \in DOMAIN f : Owing(f, a)[b] = Owed(f[b], a) /\ Owing(f, a)[b] \in Nat
  BY OwedType DEF Owing

\* What is owed for one order is part of what is owed for all.
LEMMA OwedForOrder ==
  ASSUME NEW f, f \in [DOMAIN f -> Order], IsFiniteSet(DOMAIN f), NEW a
  PROVE  /\ OwedFor(f, a) \in Nat
         /\ \A b \in DOMAIN f : Owed(f[b], a) <= OwedFor(f, a)
<1>1. \A b \in DOMAIN f : Owing(f, a)[b] = Owed(f[b], a) /\ Owing(f, a)[b] \in Nat
  BY OwingType
<1> DEFINE t == Owing(f, a)
           S == DOMAIN f
<1> HIDE DEF t
<1>2. \A b \in S : t[b] = Owed(f[b], a) /\ t[b] \in Nat
  BY <1>1 DEF t
<1>3. Total(t, S) \in Nat /\ \A b \in S : Total(t, S) >= t[b]
  BY <1>2, TotalNat, TotalCovers
<1>4. OwedFor(f, a) = Total(t, S)
  BY DEF OwedFor, t
<1> QED
  BY <1>2, <1>3, <1>4

\* One order changed, one taken out.
LEMMA OwedForChanged ==
  ASSUME NEW f, f \in [DOMAIN f -> Order], IsFiniteSet(DOMAIN f), NEW a,
         NEW b \in DOMAIN f, NEW o \in Order
  PROVE  OwedFor([f EXCEPT ![b] = o], a) = OwedFor(f, a) - Owed(f[b], a) + Owed(o, a)
<1> DEFINE h == [f EXCEPT ![b] = o]
           t == Owing(f, a)
           u == Owing(h, a)
           S == DOMAIN f
<1>1. DOMAIN h = S /\ h \in [S -> Order] /\ h[b] = o /\ \A x \in S \ {b} : h[x] = f[x]
  OBVIOUS
<1> HIDE DEF h
<1>2. /\ \A x \in S : t[x] \in Int /\ u[x] \in Int
      /\ \A x \in S \ {b} : u[x] = t[x]
      /\ t[b] = Owed(f[b], a) /\ u[b] = Owed(o, a)
  BY <1>1, OwingType
<1> HIDE DEF t, u
<1>3. Total(u, S) = Total(t, S) - t[b] + u[b]
  BY <1>2, TotalChanged
<1> QED
  BY <1>1, <1>2, <1>3 DEF OwedFor, t, u, h

LEMMA OwedForLess ==
  ASSUME NEW f, f \in [DOMAIN f -> Order], IsFiniteSet(DOMAIN f), NEW a, NEW b \in DOMAIN f
  PROVE  OwedFor([x \in DOMAIN f \ {b} |-> f[x]], a) = OwedFor(f, a) - Owed(f[b], a)
<1> DEFINE S == DOMAIN f
           h == [x \in S \ {b} |-> f[x]]
           t == Owing(f, a)
           u == Owing(h, a)
<1>1. DOMAIN h = S \ {b} /\ h \in [S \ {b} -> Order] /\ \A x \in S \ {b} : h[x] = f[x]
  OBVIOUS
<1> HIDE DEF h
<1>2. /\ \A x \in S : t[x] \in Int
      /\ \A x \in S \ {b} : u[x] = t[x]
      /\ t[b] = Owed(f[b], a)
  BY <1>1, OwingType
<1> HIDE DEF t, u
<1>3. Total(u, S \ {b}) = Total(t, S) - t[b]
  BY <1>2, TotalLeftOut
<1> QED
  BY <1>1, <1>2, <1>3 DEF OwedFor, t, u, h

\* h is f, with an order in one more box.
OneMore(f, h, b) ==
  /\ IsFiniteSet(DOMAIN f) /\ b \notin DOMAIN f /\ DOMAIN h = DOMAIN f \cup {b}
  /\ \A x \in DOMAIN h : h[x] \in Order
  /\ \A x \in DOMAIN f : h[x] = f[x]

LEMMA OwedForMore ==
  ASSUME NEW f, NEW h, NEW b, OneMore(f, h, b), NEW a
  PROVE  OwedFor(h, a) = OwedFor(f, a) + Owed(h[b], a)
<1> DEFINE S == DOMAIN f
           T == DOMAIN h
           t == Owing(f, a)
           u == Owing(h, a)
<1>1. /\ IsFiniteSet(S) /\ b \notin S /\ T = S \cup {b}
      /\ \A x \in T : h[x] \in Order
      /\ \A x \in S : h[x] = f[x]
  BY DEF OneMore
<1>2. /\ \A x \in S : t[x] = Owed(f[x], a) /\ t[x] \in Int
      /\ \A x \in T : u[x] = Owed(h[x], a) /\ u[x] \in Int
  BY <1>1, OwingType
<1>3. (\A x \in S : t[x] \in Int) /\ u[b] \in Int /\ (\A x \in S : u[x] = t[x])
      /\ u[b] = Owed(h[b], a)
  BY <1>1, <1>2
<1>4. IsFiniteSet(S) /\ b \notin S /\ T = S \cup {b}
  BY <1>1
<1> HIDE DEF S, T, t, u
<1>5. Total(u, T) = Total(t, S) + u[b]
  BY <1>3, <1>4, TotalAdded
<1> QED
  BY <1>3, <1>5 DEF OwedFor, S, T, t, u

LEMMA CostingType ==
  ASSUME NEW S, \A b \in S : b[1] \in Kinds
  PROVE  \A b \in S : Costing(S)[b] = BoxCost[b[1]] /\ Costing(S)[b] \in Nat
  BY CostAssumption DEF Costing

LEMMA CostOfSet ==
  ASSUME NEW S, IsFiniteSet(S), \A b \in S : b[1] \in Kinds
  PROVE  CostOf(S) \in Nat
<1>1. \A b \in S : Costing(S)[b] \in Nat
  BY CostingType
<1> DEFINE t == Costing(S)
<1> HIDE DEF t
<1>2. Total(t, S) \in Nat
  BY <1>1, TotalNat DEF t
<1> QED
  BY <1>2 DEF CostOf, t

\* A box more or less.
LEMMA CostOfMoreOrLess ==
  ASSUME NEW S, IsFiniteSet(S), \A x \in S : x[1] \in Kinds, NEW b
  PROVE  /\ b \in S => CostOf(S \ {b}) = CostOf(S) - BoxCost[b[1]]
         /\ b \notin S /\ b[1] \in Kinds => CostOf(S \cup {b}) = CostOf(S) + BoxCost[b[1]]
<1>1. \A x \in S : Costing(S)[x] = BoxCost[x[1]] /\ Costing(S)[x] \in Int
  BY CostingType
<1>2. CASE b \in S
  <2> DEFINE t == Costing(S)
             u == Costing(S \ {b})
  <2>1. \A x \in S \ {b} : u[x] = t[x]
    BY DEF Costing
  <2>2. t[b] = BoxCost[b[1]] /\ \A x \in S : t[x] \in Int
    BY <1>1, <1>2
  <2> HIDE DEF t, u
  <2>3. Total(u, S \ {b}) = Total(t, S) - t[b]
    BY <1>2, <2>1, <2>2, TotalLeftOut
  <2> QED
    BY <1>2, <2>2, <2>3 DEF CostOf, t, u
<1>3. CASE b \notin S /\ b[1] \in Kinds
  <2> DEFINE t == Costing(S)
             T == S \cup {b}
             u == Costing(T)
  <2>1. \A x \in S : u[x] = t[x]
    BY DEF Costing
  <2>2. /\ \A x \in S : t[x] \in Int
        /\ u[b] = BoxCost[b[1]] /\ u[b] \in Int
    BY <1>1, <1>3, CostAssumption DEF Costing
  <2>3. b \notin S /\ T = S \cup {b}
    BY <1>3
  <2> HIDE DEF t, u, T
  <2>4. Total(u, T) = Total(t, S) + u[b]
    <3>1. IsFiniteSet(S) /\ b \notin S /\ T = S \cup {b}
      BY <2>3
    <3>2. u[b] \in Int
      BY <2>2
    <3>3. \A x \in S : t[x] \in Int
      BY <2>2
    <3> QED
      BY <2>1, <3>1, <3>2, <3>3, TotalAdded
  <2> QED
    BY <1>3, <2>2, <2>3, <2>4 DEF CostOf, t, u
<1> QED
  BY <1>2, <1>3

\* The sums of an application, in these terms.
LEMMA AppSums ==
  ASSUME NEW app, IsOrderApp(app)
  PROVE  /\ \A a : Promised(app, a) = OwedFor(app.orders, a) /\ OwedFor(app.orders, a) \in Nat
         /\ MinBalance(app) = AccountCost + AssetCost * Cardinality(app.optedIn)
                                + CostOf(DOMAIN app.orders)
         /\ CostOf(DOMAIN app.orders) \in Nat
         /\ AssetCost * Cardinality(app.optedIn) \in Nat
         /\ MinBalance(app) \in Nat
<1>1. /\ app.orders \in [DOMAIN app.orders -> Order] /\ IsFiniteSet(DOMAIN app.orders)
      /\ Cardinality(app.optedIn) \in Nat
      /\ \A b \in DOMAIN app.orders : b[1] \in Kinds
  BY AppParts
<1>2. \A a : Promised(app, a) = OwedFor(app.orders, a) /\ OwedFor(app.orders, a) \in Nat
  BY <1>1, PromisedIsTotal, OwedForOrder
<1>3. MinBalance(app) = AccountCost + AssetCost * Cardinality(app.optedIn)
                          + CostOf(DOMAIN app.orders)
  BY <1>1, MinBalanceIsTotal
<1>4. CostOf(DOMAIN app.orders) \in Nat
  BY <1>1, CostOfSet
<1>5. AccountCost \in Nat /\ AssetCost \in Nat
  BY CostAssumption
<1> DEFINE m == Cardinality(app.optedIn)
           n == CostOf(DOMAIN app.orders)
<1>6. m \in Nat /\ n \in Nat /\ MinBalance(app) = AccountCost + AssetCost * m + n
  BY <1>1, <1>3, <1>4
<1>7. AssetCost * m \in Nat
  <2> HIDE DEF m
  <2> QED
    BY <1>5, <1>6, ProductMonotonic
<1> QED
  BY <1>2, <1>3, <1>4, <1>5, <1>6, <1>7

-----------------------------------------------------------------------------
(* What becomes of an application.                                          *)

AppFields(v, p, n, f, s, h) ==
  [version |-> v, program |-> p, count |-> n, orders |-> f, optedIn |-> s, holds |-> h]

LEMMA OfItsFields ==
  ASSUME NEW app, IsOrderApp(app)
  PROVE  app = AppFields(app.version, app.program, app.count, app.orders, app.optedIn, app.holds)
  BY AppParts, Zenon DEF AppFields

\* When such a record is an application.
LEMMA AppFieldsFit ==
  ASSUME NEW v \in Nat, NEW p \in Nat, NEW n \in Nat, NEW f, NEW s \in SUBSET (Assets \ {Algo}),
         NEW h \in [Assets -> Nat],
         f \in [DOMAIN f -> Order], DOMAIN f \subseteq Kinds \X (0 .. n - 1)
  PROVE  IsOrderApp(AppFields(v, p, n, f, s, h))
  BY DEF IsOrderApp, AppFields

\* An order put, as its box holds it.
NewOrder(g) == [asset |-> g.asset, target |-> g.target, each |-> g.each,
                left |-> g.each * g.times, collected |-> 0]

\* The ways in which fields of an application are written.
AllWritten(app, n, f, s, h) ==
  [app EXCEPT !.count = n, !.orders = f, !.optedIn = s, !.holds = h]
OrdersWritten(app, f, h) == [app EXCEPT !.orders = f, !.holds = h]
OrderWritten(app, b, l, k, h) ==
  [app EXCEPT !.orders[b].left = l, !.orders[b].collected = k, !.holds = h]
CollectedWritten(app, b, k, a, x) == [app EXCEPT !.orders[b].collected = k, !.holds[a] = x]

LEMMA FieldsWritten ==
  ASSUME NEW app, IsOrderApp(app), NEW n, NEW f, NEW s, NEW h
  PROVE  /\ AllWritten(app, n, f, s, h) = AppFields(app.version, app.program, n, f, s, h)
         /\ OrdersWritten(app, f, h)
              = AppFields(app.version, app.program, app.count, f, app.optedIn, h)
<1>1. PICK v, p, n0, f0, s0, h0 : app = AppFields(v, p, n0, f0, s0, h0)
  BY OfItsFields
<1>2. /\ app.version = v /\ app.program = p /\ app.count = n0 /\ app.orders = f0
      /\ app.optedIn = s0 /\ app.holds = h0
  BY <1>1 DEF AppFields
<1>3. [app EXCEPT !.count = n] = AppFields(v, p, n, f0, s0, h0)
  BY <1>1 DEF AppFields
<1>4. [AppFields(v, p, n, f0, s0, h0) EXCEPT !.orders = f] = AppFields(v, p, n, f, s0, h0)
  BY DEF AppFields
<1>5. [AppFields(v, p, n, f, s0, h0) EXCEPT !.optedIn = s] = AppFields(v, p, n, f, s, h0)
  BY DEF AppFields
<1>6. [AppFields(v, p, n, f, s, h0) EXCEPT !.holds = h] = AppFields(v, p, n, f, s, h)
  BY DEF AppFields
<1>7. [app EXCEPT !.orders = f] = AppFields(v, p, n0, f, s0, h0)
  BY <1>1 DEF AppFields
<1>8. [AppFields(v, p, n0, f, s0, h0) EXCEPT !.holds = h] = AppFields(v, p, n0, f, s0, h)
  BY DEF AppFields
<1>9. [app EXCEPT !.count = n, !.orders = f, !.optedIn = s, !.holds = h]
        = [[[[app EXCEPT !.count = n] EXCEPT !.orders = f] EXCEPT !.optedIn = s] EXCEPT !.holds = h]
  BY Zenon
<1>10. [app EXCEPT !.orders = f, !.holds = h] = [[app EXCEPT !.orders = f] EXCEPT !.holds = h]
  BY Zenon
<1>11. [app EXCEPT !.count = n, !.orders = f, !.optedIn = s, !.holds = h]
         = AppFields(v, p, n, f, s, h)
  BY <1>3, <1>4, <1>5, <1>6, <1>9, Zenon
<1>12. [app EXCEPT !.orders = f, !.holds = h] = AppFields(v, p, n0, f, s0, h)
  BY <1>7, <1>8, <1>10, Zenon
<1> QED
  BY <1>2, <1>11, <1>12, Zenon DEF AllWritten, OrdersWritten

\* One order of an application, and what it holds.
LEMMA OneOrderWritten ==
  ASSUME NEW app, IsOrderApp(app), NEW b, NEW l, NEW k, NEW h, NEW g,
         g = [[app.orders EXCEPT ![b].left = l] EXCEPT ![b].collected = k]
  PROVE  OrderWritten(app, b, l, k, h)
           = AppFields(app.version, app.program, app.count, g, app.optedIn, h)
<1>1. PICK v, p, n, f, s, h0 : app = AppFields(v, p, n, f, s, h0)
  BY OfItsFields
<1>2. /\ app.version = v /\ app.program = p /\ app.count = n /\ app.orders = f
      /\ app.optedIn = s
  BY <1>1 DEF AppFields
<1> DEFINE f1 == [f EXCEPT ![b].left = l]
<1>3. [app EXCEPT !.orders[b].left = l] = AppFields(v, p, n, f1, s, h0)
  BY <1>1 DEF AppFields
<1>4. [AppFields(v, p, n, f1, s, h0) EXCEPT !.orders[b].collected = k]
        = AppFields(v, p, n, [f1 EXCEPT ![b].collected = k], s, h0)
  BY DEF AppFields
<1>5. g = [f1 EXCEPT ![b].collected = k]
  BY <1>2, Zenon
<1>6. [AppFields(v, p, n, g, s, h0) EXCEPT !.holds = h] = AppFields(v, p, n, g, s, h)
  BY DEF AppFields
<1>7. OrderWritten(app, b, l, k, h)
        = [[[app EXCEPT !.orders[b].left = l] EXCEPT !.orders[b].collected = k] EXCEPT !.holds = h]
  BY Zenon DEF OrderWritten
<1>8. OrderWritten(app, b, l, k, h) = AppFields(v, p, n, g, s, h)
  BY <1>3, <1>4, <1>5, <1>6, <1>7, Zenon
<1> QED
  BY <1>2, <1>8, Zenon

LEMMA OneCollectedWritten ==
  ASSUME NEW app, IsOrderApp(app), NEW b, NEW k, NEW a, NEW x,
         NEW g, g = [app.orders EXCEPT ![b].collected = k],
         NEW h, h = [app.holds EXCEPT ![a] = x]
  PROVE  CollectedWritten(app, b, k, a, x)
           = AppFields(app.version, app.program, app.count, g, app.optedIn, h)
<1>1. PICK v, p, n, f, s, h0 : app = AppFields(v, p, n, f, s, h0)
  BY OfItsFields
<1>2. /\ app.version = v /\ app.program = p /\ app.count = n /\ app.orders = f
      /\ app.optedIn = s /\ app.holds = h0
  BY <1>1 DEF AppFields
<1>3. [app EXCEPT !.orders[b].collected = k]
        = AppFields(v, p, n, [f EXCEPT ![b].collected = k], s, h0)
  BY <1>1 DEF AppFields
<1>4. g = [f EXCEPT ![b].collected = k] /\ h = [h0 EXCEPT ![a] = x]
  BY <1>2, Zenon
<1>5. [AppFields(v, p, n, g, s, h0) EXCEPT !.holds[a] = x]
        = AppFields(v, p, n, g, s, [h0 EXCEPT ![a] = x])
  BY DEF AppFields
<1>6. CollectedWritten(app, b, k, a, x)
        = [[app EXCEPT !.orders[b].collected = k] EXCEPT !.holds[a] = x]
  BY Zenon DEF CollectedWritten
<1>7. CollectedWritten(app, b, k, a, x) = AppFields(v, p, n, g, s, h)
  BY <1>3, <1>4, <1>5, <1>6, Zenon
<1> QED
  BY <1>2, <1>7, Zenon

\* What becomes of the fields of an application by an operation.
LEMMA WithOrderFields ==
  ASSUME NEW app, IsOrderApp(app), NEW g
  PROVE  WithOrder(app, g) =
           AppFields(app.version, app.program, app.count + 1,
                     [b \in DOMAIN app.orders \cup {g.box} |->
                        IF b = g.box THEN NewOrder(g) ELSE app.orders[b]],
                     app.optedIn \cup g.optIns,
                     [a \in Assets |-> app.holds[a] + (IF a = Algo THEN g.pay ELSE 0)
                                         + (IF a = g.asset THEN g.amount ELSE 0)])
<1> DEFINE n == app.count + 1
           f == [b \in DOMAIN app.orders \cup {g.box} |->
                   IF b = g.box THEN NewOrder(g) ELSE app.orders[b]]
           s == app.optedIn \cup g.optIns
           h == [a \in Assets |-> app.holds[a] + (IF a = Algo THEN g.pay ELSE 0)
                                    + (IF a = g.asset THEN g.amount ELSE 0)]
<1>1. WithOrder(app, g) = AllWritten(app, n, f, s, h)
  BY Zenon DEF WithOrder, NewOrder, AllWritten
<1> HIDE DEF n, f, s, h
<1>2. WithOrder(app, g) = AppFields(app.version, app.program, n, f, s, h)
  <2>1. AllWritten(app, n, f, s, h) = AppFields(app.version, app.program, n, f, s, h)
    BY FieldsWritten
  <2> QED
    BY <1>1, <2>1, Zenon
<1> QED
  BY <1>2, Zenon DEF n, f, s, h

LEMMA WithoutFields ==
  ASSUME NEW app, IsOrderApp(app), NEW box
  PROVE  Without(app, box) =
           AppFields(app.version, app.program, app.count,
                     [b \in DOMAIN app.orders \ {box} |-> app.orders[b]], app.optedIn,
                     [a \in Assets |-> app.holds[a] - Owed(app.orders[box], a)])
<1> DEFINE f == [b \in DOMAIN app.orders \ {box} |-> app.orders[b]]
           h == [a \in Assets |-> app.holds[a] - Owed(app.orders[box], a)]
<1>1. Without(app, box) = OrdersWritten(app, f, h)
  BY Zenon DEF Without, OrdersWritten
<1> HIDE DEF f, h
<1>2. Without(app, box) = AppFields(app.version, app.program, app.count, f, app.optedIn, h)
  BY <1>1, FieldsWritten, Zenon
<1> QED
  BY <1>2, Zenon DEF f, h

LEMMA ClaimedFields ==
  ASSUME NEW app, IsOrderApp(app), NEW box \in DOMAIN app.orders
  PROVE  LET o == app.orders[box]
         IN  Claimed(app, box) =
               AppFields(app.version, app.program, app.count,
                         [app.orders EXCEPT ![box] = [o EXCEPT !.collected = 0]], app.optedIn,
                         [app.holds EXCEPT ![o.target] = @ - o.collected])
<1> DEFINE o == app.orders[box]
           a == o.target
           x == app.holds[a] - o.collected
           f == [app.orders EXCEPT ![box].collected = 0]
           h == [app.holds EXCEPT ![a] = x]
<1>1. Claimed(app, box) = CollectedWritten(app, box, 0, a, x)
  BY Zenon DEF Claimed, CollectedWritten
<1>2. f = [app.orders EXCEPT ![box] = [o EXCEPT !.collected = 0]]
  BY Zenon
<1>3. /\ f = [app.orders EXCEPT ![box].collected = 0]
      /\ h = [app.holds EXCEPT ![a] = x]
      /\ h = [app.holds EXCEPT ![o.target] = @ - o.collected]
  BY Zenon
<1> HIDE DEF a, x, f, h
<1>4. CollectedWritten(app, box, 0, a, x)
        = AppFields(app.version, app.program, app.count, f, app.optedIn, h)
  BY <1>3, OneCollectedWritten
<1> QED
  BY <1>1, <1>2, <1>3, <1>4, Zenon

LEMMA FilledFields ==
  ASSUME NEW app, IsOrderApp(app), NEW b \in DOMAIN app.orders, NEW k
  PROVE  LET o == app.orders[b]
         IN  Filled(app, b, k) =
               AppFields(app.version, app.program, app.count,
                         [app.orders EXCEPT ![b] = [[o EXCEPT !.left = @ - k]
                                                       EXCEPT !.collected = @ + k]],
                         app.optedIn,
                         [a \in Assets |-> app.holds[a] - (IF a = o.asset THEN k ELSE 0)
                                             + (IF a = o.target THEN k ELSE 0)])
<1> DEFINE o == app.orders[b]
           l == o.left - k
           m == o.collected + k
           f == [[app.orders EXCEPT ![b].left = l] EXCEPT ![b].collected = m]
           h == [a \in Assets |-> app.holds[a] - (IF a = o.asset THEN k ELSE 0)
                                    + (IF a = o.target THEN k ELSE 0)]
<1>1. Filled(app, b, k) = OrderWritten(app, b, l, m, h)
  BY Zenon DEF Filled, OrderWritten
<1>2. o \in Order /\ app.orders \in [DOMAIN app.orders -> Order]
  BY AppParts
<1>3. f = [app.orders EXCEPT ![b] = [[o EXCEPT !.left = @ - k] EXCEPT !.collected = @ + k]]
  BY <1>2 DEF Order
<1>4. f = [[app.orders EXCEPT ![b].left = l] EXCEPT ![b].collected = m]
  BY Zenon
<1> HIDE DEF l, m, f, h
<1>5. OrderWritten(app, b, l, m, h)
        = AppFields(app.version, app.program, app.count, f, app.optedIn, h)
  BY <1>4, OneOrderWritten
<1> QED
  BY <1>1, <1>3, <1>5, Zenon DEF h

-----------------------------------------------------------------------------
(* Orders put, cancelled, claimed and filled.                               *)

Sound(app) == IsOrderApp(app) /\ Funded(app)

\* x is what app may have become; nothing happens to one without orders but updates.
Grown(app, x) ==
  /\ x.count >= app.count /\ app.optedIn \subseteq x.optedIn
  /\ x.count = 0 => x.optedIn = app.optedIn /\ x.holds = app.holds

\* What an application with these boxes and assets must keep of its Algo.
Reserve(f, s) == AccountCost + AssetCost * Cardinality(s) + CostOf(DOMAIN f)

\* An application of these fields is sound when it holds what it owes and must keep.
LEMMA SoundFields ==
  ASSUME NEW v \in Nat, NEW p \in Nat, NEW n \in Nat, NEW f, NEW s \in SUBSET (Assets \ {Algo}),
         NEW h, h \in [Assets -> Int],
         f \in [DOMAIN f -> Order], DOMAIN f \subseteq Kinds \X (0 .. n - 1),
         \A a \in Assets : h[a] >= OwedFor(f, a) /\ OwedFor(f, a) \in Nat,
         h[Algo] >= OwedFor(f, Algo) + Reserve(f, s)
  PROVE  Sound(AppFields(v, p, n, f, s, h)) /\ MinBalance(AppFields(v, p, n, f, s, h)) = Reserve(f, s)
<1> DEFINE x == AppFields(v, p, n, f, s, h)
<1>1. h \in [Assets -> Nat]
  OBVIOUS
<1>2. IsOrderApp(x)
  BY <1>1, AppFieldsFit
<1>3. x.count = n /\ x.orders = f /\ x.optedIn = s /\ x.holds = h
  BY DEF AppFields
<1> HIDE DEF x
<1>4. /\ \A a : Promised(x, a) = OwedFor(f, a)
      /\ MinBalance(x) = Reserve(f, s)
  <2>1. /\ \A a : Promised(x, a) = OwedFor(x.orders, a)
        /\ MinBalance(x) = AccountCost + AssetCost * Cardinality(x.optedIn)
                             + CostOf(DOMAIN x.orders)
    BY <1>2, AppSums
  <2> QED
    BY <1>3, <2>1, Zenon DEF Reserve
<1>5. Funded(x)
  BY <1>3, <1>4 DEF Funded
<1> QED
  BY <1>2, <1>4, <1>5 DEF Sound, x

\* What a sound application with orders holds, in terms of sums.
LEMMA SoundParts ==
  ASSUME NEW app, Sound(app), app.count > 0
  PROVE  /\ \A a \in Assets : /\ app.holds[a] \in Nat /\ OwedFor(app.orders, a) \in Nat
                              /\ app.holds[a] >= OwedFor(app.orders, a)
         /\ app.holds[Algo] >= OwedFor(app.orders, Algo) + Reserve(app.orders, app.optedIn)
         /\ Reserve(app.orders, app.optedIn) \in Nat
         /\ MinBalance(app) = Reserve(app.orders, app.optedIn)
<1>1. IsOrderApp(app) /\ Funded(app) /\ Algo \in Assets
  BY AssetAssumption DEF Sound
<1>2. /\ \A a : Promised(app, a) = OwedFor(app.orders, a) /\ OwedFor(app.orders, a) \in Nat
      /\ MinBalance(app) = Reserve(app.orders, app.optedIn)
      /\ MinBalance(app) \in Nat
  BY <1>1, AppSums, Zenon DEF Reserve
<1>3. app.holds \in [Assets -> Nat]
  BY <1>1, AppParts
<1>4. \A a \in Assets : app.holds[a] >= Promised(app, a) + (IF a = Algo THEN MinBalance(app) ELSE 0)
  BY <1>1 DEF Funded
<1> QED
  BY <1>1, <1>2, <1>3, <1>4

\* A sound application with orders is solvent.
LEMMA SoundIsSolvent ==
  ASSUME NEW app, Sound(app), app.count > 0
  PROVE  Solvent(app)
<1>1. /\ \A a \in Assets : /\ app.holds[a] \in Nat /\ OwedFor(app.orders, a) \in Nat
      /\ app.holds[Algo] >= OwedFor(app.orders, Algo) + Reserve(app.orders, app.optedIn)
      /\ Reserve(app.orders, app.optedIn) \in Nat
      /\ MinBalance(app) = Reserve(app.orders, app.optedIn)
  BY SoundParts
<1> QED
  BY <1>1, AssetAssumption DEF Solvent

\* With fewer boxes, no less is left.
LEMMA KeptLess ==
  ASSUME NEW app, IsOrderApp(app), NEW b \in DOMAIN app.orders
  PROVE  Reserve([x \in DOMAIN app.orders \ {b} |-> app.orders[x]], app.optedIn)
           <= Reserve(app.orders, app.optedIn)
<1> DEFINE S == DOMAIN app.orders
<1>1. IsFiniteSet(S) /\ (\A x \in S : x[1] \in Kinds) /\ Cardinality(app.optedIn) \in Nat
  BY AppParts
<1>2. CostOf(S \ {b}) = CostOf(S) - BoxCost[b[1]]
  BY <1>1, CostOfMoreOrLess
<1>3. CostOf(S) \in Nat /\ BoxCost[b[1]] \in Nat
  BY <1>1, CostOfSet, CostAssumption
<1>4. DOMAIN [x \in DOMAIN app.orders \ {b} |-> app.orders[x]] = S \ {b}
  OBVIOUS
<1>5. AccountCost + AssetCost * Cardinality(app.optedIn) \in Nat
  <2>1. AssetCost * Cardinality(app.optedIn) \in Nat
    BY AppSums
  <2> QED
    BY <2>1, CostAssumption
<1> DEFINE n == AccountCost + AssetCost * Cardinality(app.optedIn)
<1>6. n \in Nat
  BY <1>5
<1> HIDE DEF n, S
<1>7. n + CostOf(S \ {b}) <= n + CostOf(S)
  BY <1>2, <1>3, <1>6
<1> QED
  BY <1>4, <1>7 DEF Reserve, n, S

\* What each operation leaves.
LEMMA CancelledIsSound ==
  ASSUME NEW app, Sound(app), NEW box \in DOMAIN app.orders
  PROVE  /\ Sound(Without(app, box)) /\ Without(app, box).count > 0
         /\ Grown(app, Without(app, box))
<1> DEFINE f == [b \in DOMAIN app.orders \ {box} |-> app.orders[b]]
           o == app.orders[box]
           h == [a \in Assets |-> app.holds[a] - Owed(o, a)]
           x == Without(app, box)
<1>1. IsOrderApp(app)
  BY DEF Sound
<1>2. x = AppFields(app.version, app.program, app.count, f, app.optedIn, h)
  BY <1>1, WithoutFields, Zenon
<1>3. /\ app.version \in Nat /\ app.program \in Nat /\ app.count \in Nat
      /\ app.optedIn \in SUBSET (Assets \ {Algo})
      /\ app.orders \in [DOMAIN app.orders -> Order] /\ IsFiniteSet(DOMAIN app.orders)
      /\ o \in Order
  BY <1>1, AppParts
<1>4. app.count > 0
  BY <1>1, <1>3, AppParts
<1>5. DOMAIN app.orders \subseteq Kinds \X (0 .. app.count - 1)
  BY <1>1 DEF IsOrderApp
<1>6. \A a : /\ OwedFor(f, a) = OwedFor(app.orders, a) - Owed(o, a)
             /\ Owed(o, a) \in Nat /\ OwedFor(app.orders, a) >= Owed(o, a)
             /\ OwedFor(app.orders, a) \in Nat
  BY <1>3, OwedForLess, OwedType, OwedForOrder
<1>7. /\ \A a \in Assets : app.holds[a] \in Nat /\ app.holds[a] >= OwedFor(app.orders, a)
      /\ app.holds[Algo] >= OwedFor(app.orders, Algo) + Reserve(app.orders, app.optedIn)
      /\ Reserve(app.orders, app.optedIn) \in Nat
  BY <1>4, SoundParts
<1>8. Reserve(f, app.optedIn) <= Reserve(app.orders, app.optedIn) /\ Reserve(f, app.optedIn) \in Int
  <2>1. Reserve(f, app.optedIn) <= Reserve(app.orders, app.optedIn)
    BY <1>1, KeptLess
  <2>2. Reserve(f, app.optedIn) \in Int
    <3>1. CostOf(DOMAIN f) \in Nat
      <4>1. IsFiniteSet(DOMAIN f)
        BY <1>3, FS_Subset
      <4>2. \A b \in DOMAIN f : b[1] \in Kinds
        BY <1>5
      <4> QED
        BY <4>1, <4>2, CostOfSet
    <3>2. AssetCost * Cardinality(app.optedIn) \in Nat /\ AccountCost \in Nat
      BY <1>1, AppSums, CostAssumption
    <3> QED
      BY <3>1, <3>2 DEF Reserve
  <2> QED
    BY <2>1, <2>2
<1>9. f \in [DOMAIN f -> Order] /\ DOMAIN f \subseteq Kinds \X (0 .. app.count - 1)
  BY <1>3, <1>5
<1>10. /\ h \in [Assets -> Int]
       /\ \A a \in Assets : h[a] >= OwedFor(f, a) /\ OwedFor(f, a) \in Nat
       /\ h[Algo] >= OwedFor(f, Algo) + Reserve(f, app.optedIn)
  <2>1. \A a \in Assets : h[a] = app.holds[a] - Owed(o, a)
    OBVIOUS
  <2>2. h = [a \in Assets |-> h[a]]
    OBVIOUS
  <2> HIDE DEF f, h, o
  <2> QED
    BY <1>6, <1>7, <1>8, <2>1, <2>2, AssetAssumption
<1> HIDE DEF f, h, o
<1>11. Sound(x)
  <2>1. Sound(AppFields(app.version, app.program, app.count, f, app.optedIn, h))
    BY <1>3, <1>9, <1>10, SoundFields
  <2> QED
    BY <1>2, <2>1, Zenon
<1>12. x.count = app.count /\ x.optedIn = app.optedIn
  BY <1>2 DEF AppFields
<1> QED
  BY <1>3, <1>4, <1>11, <1>12 DEF Grown

\* One order changed, with what is held of its assets by as much.
LEMMA ChangedIsSound ==
  ASSUME NEW app, Sound(app), NEW b \in DOMAIN app.orders, NEW o \in Order,
         NEW h, h = [a \in Assets |-> h[a]],
         \A a \in Assets : h[a] = app.holds[a] - Owed(app.orders[b], a) + Owed(o, a)
  PROVE  LET x == AppFields(app.version, app.program, app.count,
                            [app.orders EXCEPT ![b] = o], app.optedIn, h)
         IN  Sound(x) /\ x.count > 0 /\ Grown(app, x)
<1> DEFINE f == [app.orders EXCEPT ![b] = o]
           q == app.orders[b]
           x == AppFields(app.version, app.program, app.count, f, app.optedIn, h)
<1>1. IsOrderApp(app)
  BY DEF Sound
<1>2. /\ app.version \in Nat /\ app.program \in Nat /\ app.count \in Nat
      /\ app.optedIn \in SUBSET (Assets \ {Algo})
      /\ app.orders \in [DOMAIN app.orders -> Order] /\ IsFiniteSet(DOMAIN app.orders)
      /\ q \in Order
  BY <1>1, AppParts
<1>3. app.count > 0
  BY <1>1, <1>2, AppParts
<1>4. DOMAIN app.orders \subseteq Kinds \X (0 .. app.count - 1)
  BY <1>1 DEF IsOrderApp
<1>5. DOMAIN f = DOMAIN app.orders /\ f \in [DOMAIN f -> Order]
  BY <1>2
<1>6. \A a : /\ OwedFor(f, a) = OwedFor(app.orders, a) - Owed(q, a) + Owed(o, a)
             /\ Owed(q, a) \in Nat /\ Owed(o, a) \in Nat
             /\ OwedFor(app.orders, a) >= Owed(q, a)
             /\ OwedFor(app.orders, a) \in Nat
  BY <1>2, OwedForChanged, OwedType, OwedForOrder
<1>7. /\ \A a \in Assets : app.holds[a] \in Nat /\ app.holds[a] >= OwedFor(app.orders, a)
      /\ app.holds[Algo] >= OwedFor(app.orders, Algo) + Reserve(app.orders, app.optedIn)
      /\ Reserve(app.orders, app.optedIn) \in Nat
  BY <1>3, SoundParts
<1>8. Reserve(f, app.optedIn) = Reserve(app.orders, app.optedIn)
  BY <1>5, Zenon DEF Reserve
<1>9. /\ h \in [Assets -> Int]
      /\ \A a \in Assets : h[a] >= OwedFor(f, a) /\ OwedFor(f, a) \in Nat
      /\ h[Algo] >= OwedFor(f, Algo) + Reserve(f, app.optedIn)
  <2> HIDE DEF f, q
  <2>1. \A a \in Assets : h[a] \in Int
    BY <1>6, <1>7 DEF q
  <2>2. h \in [Assets -> Int]
    BY <2>1
  <2> QED
    BY <1>6, <1>7, <1>8, <2>2, AssetAssumption DEF q
<1> HIDE DEF f, q
<1>10. Sound(x)
  BY <1>2, <1>4, <1>5, <1>9, SoundFields
<1>11. x.count = app.count /\ x.optedIn = app.optedIn
  BY DEF AppFields
<1> HIDE DEF x
<1>12. Grown(app, x)
  BY <1>2, <1>3, <1>11 DEF Grown
<1> QED
  BY <1>3, <1>10, <1>11, <1>12 DEF x, f

LEMMA ClaimedIsSound ==
  ASSUME NEW app, Sound(app), NEW box \in DOMAIN app.orders
  PROVE  /\ Sound(Claimed(app, box)) /\ Claimed(app, box).count > 0
         /\ Grown(app, Claimed(app, box))
<1> DEFINE q == app.orders[box]
           o == [q EXCEPT !.collected = 0]
           h == [app.holds EXCEPT ![q.target] = @ - q.collected]
<1>1. q \in Order /\ app.holds \in [Assets -> Nat] /\ IsOrderApp(app)
  BY AppParts DEF Sound
<1>2. o \in Order /\ h = [a \in Assets |-> h[a]]
  BY <1>1 DEF Order
<1>3. ASSUME NEW a \in Assets
      PROVE  h[a] = app.holds[a] - Owed(q, a) + Owed(o, a)
  <2>1. o.asset = q.asset /\ o.target = q.target /\ o.left = q.left /\ o.collected = 0
    BY <1>1 DEF Order
  <2>2. q.left \in Nat /\ q.collected \in Nat /\ app.holds[a] \in Nat
    BY <1>1 DEF Order
  <2>3. h[a] = IF a = q.target THEN app.holds[a] - q.collected ELSE app.holds[a]
    BY <1>1
  <2> HIDE DEF h, o, q
  <2> QED
    BY <2>1, <2>2, <2>3 DEF Owed
<1>4. Claimed(app, box) = AppFields(app.version, app.program, app.count,
                                    [app.orders EXCEPT ![box] = o], app.optedIn, h)
  BY <1>1, ClaimedFields, Zenon
<1> HIDE DEF q, o, h
<1> QED
  BY <1>2, <1>3, <1>4, ChangedIsSound DEF q

LEMMA FilledIsSound ==
  ASSUME NEW app, Sound(app), NEW b \in DOMAIN app.orders,
         NEW k \in 1 .. app.orders[b].left
  PROVE  /\ Sound(Filled(app, b, k)) /\ Filled(app, b, k).count > 0
         /\ Grown(app, Filled(app, b, k))
<1> DEFINE q == app.orders[b]
           o == [[q EXCEPT !.left = @ - k] EXCEPT !.collected = @ + k]
           h == [a \in Assets |-> app.holds[a] - (IF a = q.asset THEN k ELSE 0)
                                    + (IF a = q.target THEN k ELSE 0)]
<1>1. q \in Order /\ app.holds \in [Assets -> Nat] /\ IsOrderApp(app)
  BY AppParts DEF Sound
<1>2. q.left \in Nat /\ q.collected \in Nat /\ k \in Nat /\ k <= q.left
  BY <1>1 DEF Order
<1>3. /\ o.asset = q.asset /\ o.target = q.target
      /\ o.left = q.left - k /\ o.collected = q.collected + k
  BY <1>1 DEF Order
<1>4. o \in Order /\ h = [a \in Assets |-> h[a]]
  <2> DEFINE l == q.left - k
             m == q.collected + k
  <2>1. l \in Nat /\ m \in Nat
    BY <1>2
  <2>2. o = [[q EXCEPT !.left = l] EXCEPT !.collected = m]
    BY Zenon
  <2> HIDE DEF l, m
  <2>3. [[q EXCEPT !.left = l] EXCEPT !.collected = m] \in Order
    BY <1>1, <2>1 DEF Order
  <2> QED
    BY <2>2, <2>3, Zenon
<1>5. ASSUME NEW a \in Assets
      PROVE  h[a] = app.holds[a] - Owed(q, a) + Owed(o, a)
  <2>1. app.holds[a] \in Nat
    BY <1>1
  <2>2. h[a] = app.holds[a] - (IF a = q.asset THEN k ELSE 0) + (IF a = q.target THEN k ELSE 0)
    OBVIOUS
  <2> HIDE DEF h, o, q
  <2> QED
    BY <1>2, <1>3, <2>1, <2>2 DEF Owed
<1>6. Filled(app, b, k) = AppFields(app.version, app.program, app.count,
                                    [app.orders EXCEPT ![b] = o], app.optedIn, h)
  BY <1>1, FilledFields, Zenon
<1> HIDE DEF q, o, h
<1> QED
  BY <1>4, <1>5, <1>6, ChangedIsSound DEF q

\* What the application lacks, and that with orders it lacks nothing.
LEMMA WhatIsLacking ==
  ASSUME NEW app, Sound(app)
  PROVE  /\ requiredAmountToCoverMinBalance(app) = AtLeast0(MinBalance(app) - app.holds[Algo])
         /\ requiredAmountToCoverMinBalance(app) \in Nat
         /\ app.count > 0 => requiredAmountToCoverMinBalance(app) = 0
<1> DEFINE m == MinBalance(app)
           p == Promised(app, Algo)
           l == requiredAmountToCoverMinBalance(app)
           h == app.holds[Algo]
<1>1. m \in Nat /\ p \in Nat /\ h \in Nat
  BY AppSums, AppParts, AssetAssumption DEF Sound
<1>2. l = AtLeast0(m - h)
  BY DEF requiredAmountToCoverMinBalance
<1>3. app.count > 0 => h >= p + m
  BY AssetAssumption DEF Sound, Funded
<1> HIDE DEF m, p, l, h
<1>4. l \in Nat /\ (h >= p + m => l = 0)
  BY <1>1, <1>2 DEF AtLeast0
<1>5. app.count > 0 => l = 0
  BY <1>3, <1>4
<1> QED
  BY <1>2, <1>4, <1>5 DEF m, l, h

\* A put leaves the application what it had to spare, and the opt-ins made in vain.
SparesAsBefore(app, g) ==
  Surplus(WithOrder(app, g))
    = AtLeast0(Surplus(app)) + AssetCost * Cardinality(app.optedIn \cap g.optIns)

\* A put, with what the user pays for it.
LEMMA PutIsSound ==
  ASSUME NEW app, Sound(app), NEW g, NEW kind \in Kinds,
         g.box = Box(kind, app.count),
         g.asset \in Assets, g.target \in Assets, g.each \in Nat, g.times \in Nat,
         g.each * g.times \in Nat,
         g.amount = g.each * g.times, g.optIns \in SUBSET (Assets \ {Algo}),
         NEW lacking \in Nat, g.pay = lacking + calculateMinBalance(Cardinality(g.optIns), kind),
         lacking = AtLeast0(MinBalance(app) - app.holds[Algo])
  PROVE  /\ Sound(WithOrder(app, g)) /\ WithOrder(app, g).count > 0
         /\ Grown(app, WithOrder(app, g)) /\ SparesAsBefore(app, g)
<1> DEFINE o == NewOrder(g)
           n == app.count + 1
           f == [b \in DOMAIN app.orders \cup {g.box} |-> IF b = g.box THEN o ELSE app.orders[b]]
           s == app.optedIn \cup g.optIns
           h == [a \in Assets |-> app.holds[a] + (IF a = Algo THEN g.pay ELSE 0)
                                    + (IF a = g.asset THEN g.amount ELSE 0)]
           x == WithOrder(app, g)
           S == DOMAIN app.orders
           old == AssetCost * Cardinality(app.optedIn)
           new == AssetCost * Cardinality(g.optIns)
           both == AssetCost * Cardinality(s)
           vain == AssetCost * Cardinality(app.optedIn \cap g.optIns)
<1>1. IsOrderApp(app) /\ Algo \in Assets
  BY AssetAssumption DEF Sound
<1>2. x = AppFields(app.version, app.program, n, f, s, h)
  BY <1>1, WithOrderFields, Zenon
<1>3. /\ app.version \in Nat /\ app.program \in Nat /\ app.count \in Nat
      /\ app.optedIn \in SUBSET (Assets \ {Algo}) /\ app.holds \in [Assets -> Nat]
      /\ app.orders \in [S -> Order] /\ IsFiniteSet(S)
      /\ \A b \in S : b[1] \in Kinds
      /\ IsFiniteSet(app.optedIn) /\ Cardinality(app.optedIn) \in Nat
  BY <1>1, AppParts
<1>4. S \subseteq Kinds \X (0 .. app.count - 1)
  BY <1>1 DEF IsOrderApp
<1>5. g.box \notin S /\ g.box[1] = kind /\ DOMAIN f = S \cup {g.box}
  BY <1>3, <1>4 DEF Box
<1>6. o \in Order
  BY DEF NewOrder, Order
<1>7. f \in [DOMAIN f -> Order] /\ DOMAIN f \subseteq Kinds \X (0 .. n - 1)
  <2>1. g.box \in Kinds \X (0 .. n - 1)
    BY <1>3 DEF Box
  <2>2. S \subseteq Kinds \X (0 .. n - 1)
    BY <1>3, <1>4
  <2>3. f \in [DOMAIN f -> Order]
    BY <1>3, <1>6
  <2> HIDE DEF f, n
  <2> QED
    BY <1>5, <2>1, <2>2, <2>3
<1>8. \A a : /\ OwedFor(f, a) = OwedFor(app.orders, a) + Owed(o, a)
             /\ OwedFor(app.orders, a) \in Nat /\ Owed(o, a) \in Nat
  <2>1. \A a : OwedFor(f, a) = OwedFor(app.orders, a) + Owed(o, a)
    <3> DEFINE q == app.orders
               b == g.box
    <3>1. IsFiniteSet(DOMAIN q) /\ \A y \in DOMAIN q : q[y] \in Order
      BY <1>3
    <3>2. b \notin DOMAIN q /\ DOMAIN f = DOMAIN q \cup {b} /\ f[b] = o
      BY <1>5
    <3>3. \A y \in DOMAIN q : f[y] = q[y]
      BY <1>5
    <3> HIDE DEF q, b, f, o
    <3>4. ASSUME NEW a
          PROVE  OwedFor(f, a) = OwedFor(q, a) + Owed(f[b], a)
      <4>1. OneMore(q, f, b)
        BY <1>6, <3>1, <3>2, <3>3 DEF OneMore
      <4> QED
        BY <4>1, OwedForMore
    <3> QED
      BY <3>2, <3>4 DEF q
  <2> QED
    BY <1>3, <1>6, <2>1, OwedForOrder, OwedType
<1>9. \A a : Owed(o, a) = IF a = g.asset THEN g.amount ELSE 0
  <2>1. o.asset = g.asset /\ o.left = g.amount /\ o.collected = 0
    BY DEF NewOrder
  <2> HIDE DEF o
  <2> QED
    BY <2>1 DEF Owed
<1>10. CostOf(DOMAIN f) = CostOf(S) + BoxCost[kind] /\ CostOf(S) \in Nat /\ BoxCost[kind] \in Nat
  <2>1. CostOf(S \cup {g.box}) = CostOf(S) + BoxCost[g.box[1]]
    <3> HIDE DEF S
    <3> QED
      BY <1>3, <1>5, CostOfMoreOrLess
  <2>2. CostOf(S) \in Nat
    BY <1>3, CostOfSet
  <2> QED
    BY <1>5, <2>1, <2>2, CostAssumption
<1>11. /\ old \in Nat /\ new \in Nat /\ both \in Nat /\ vain \in Nat
       /\ both + vain = old + new
  <2>1. IsFiniteSet(g.optIns) /\ Cardinality(g.optIns) \in Nat
    BY AssetAssumption, FS_Subset, FS_CardinalityType
  <2>2. IsFiniteSet(s) /\ Cardinality(s) \in Nat
    BY <1>3, <2>1, FS_Union, FS_CardinalityType
  <2>3. IsFiniteSet(app.optedIn \cap g.optIns) /\ Cardinality(app.optedIn \cap g.optIns) \in Nat
    BY <1>3, FS_Subset, FS_CardinalityType
  <2>4. Cardinality(s) = Cardinality(app.optedIn) + Cardinality(g.optIns)
                           - Cardinality(app.optedIn \cap g.optIns)
    BY <1>3, <2>1, FS_Union
  <2> DEFINE i == Cardinality(app.optedIn)
             j == Cardinality(g.optIns)
             k == Cardinality(s)
             l == Cardinality(app.optedIn \cap g.optIns)
  <2>5. /\ i \in Nat /\ j \in Nat /\ k \in Nat /\ l \in Nat /\ k = i + j - l
        /\ AssetCost \in Nat
    BY <1>3, <2>1, <2>2, <2>3, <2>4, CostAssumption
  <2>6. /\ AssetCost * i \in Nat /\ AssetCost * j \in Nat
        /\ AssetCost * k \in Nat /\ AssetCost * l \in Nat
    <3>1. \A v, w \in Nat : v * w \in Nat
      OBVIOUS
    <3> HIDE DEF i, j, k, l
    <3> QED
      BY <2>5, <3>1
  <2>7. AssetCost * k + AssetCost * l = AssetCost * i + AssetCost * j
    <3> HIDE DEF i, j, k, l
    <3>1. k + l = i + j
      BY <2>5
    <3>2. \A v, w, z \in Nat : v * w + v * z = v * (w + z)
      BY Z3
    <3> QED
      BY <2>5, <3>1, <3>2
  <2> QED
    BY <2>6, <2>7
<1>12. AccountCost \in Nat
  BY CostAssumption
<1>13. g.pay = lacking + new + BoxCost[kind] /\ g.pay \in Nat
  <2>1. g.pay = lacking + (new + BoxCost[kind])
    BY DEF calculateMinBalance
  <2> HIDE DEF new
  <2> QED
    BY <1>10, <1>11, <2>1
<1>14. Reserve(f, s) = AccountCost + both + CostOf(DOMAIN f)
  BY Zenon DEF Reserve
<1>15. \A a \in Assets : app.holds[a] >= OwedFor(app.orders, a)
  <2>1. CASE app.count > 0
    BY <2>1, SoundParts
  <2>2. CASE app.count = 0
    <3>1. S = {}
      BY <1>1, <2>2, AppParts
    <3>2. \A a : OwedFor(app.orders, a) = 0
      BY <3>1, TotalEmpty DEF OwedFor
    <3> QED
      BY <1>3, <3>2
  <2> QED
    BY <1>3, <2>1, <2>2
<1> DEFINE owed == OwedFor(app.orders, Algo)
           keep == AccountCost + old + CostOf(S)
           held == app.holds[Algo]
<1>16. /\ MinBalance(app) = keep /\ Surplus(app) = held - owed - keep
       /\ held + lacking - owed - keep = AtLeast0(held - owed - keep)
       /\ held + lacking >= owed + keep
  <2>1. MinBalance(app) = keep /\ Promised(app, Algo) = owed
    BY <1>1, AppSums
  <2>2. Surplus(app) = held - owed - keep
    BY <2>1, Zenon DEF Surplus
  <2>3. app.count > 0 => held >= owed + keep
    BY <1>1, <2>1 DEF Sound, Funded
  <2>4. app.count = 0 => owed = 0
    <3> SUFFICES ASSUME app.count = 0  PROVE owed = 0
      OBVIOUS
    <3>1. S = {}
      BY <1>1, AppParts
    <3> QED
      BY <3>1, TotalEmpty DEF OwedFor
  <2>5. held \in Nat /\ owed \in Nat /\ keep \in Nat
    <3>1. held \in Nat /\ owed \in Nat
      BY <1>1, <1>3, <1>8
    <3> HIDE DEF old, S
    <3> QED
      BY <1>10, <1>11, <1>12, <3>1
  <2>6. lacking = AtLeast0(keep - held)
    BY <2>1
  <2> HIDE DEF owed, keep, held
  <2>7. held >= owed + keep \/ owed = 0
    BY <1>3, <2>3, <2>4
  <2>8. /\ held + lacking - owed - keep = AtLeast0(held - owed - keep)
        /\ held + lacking >= owed + keep
    BY <2>5, <2>6, <2>7 DEF AtLeast0
  <2> QED
    BY <2>1, <2>2, <2>8
<1>17. /\ h \in [Assets -> Int]
       /\ \A a \in Assets : h[a] >= OwedFor(f, a) /\ OwedFor(f, a) \in Nat
       /\ h[Algo] >= OwedFor(f, Algo) + Reserve(f, s)
       /\ h[Algo] - OwedFor(f, Algo) - Reserve(f, s) = AtLeast0(Surplus(app)) + vain
  <2>1. /\ h = [a \in Assets |-> h[a]]
        /\ \A a \in Assets : h[a] = app.holds[a] + (IF a = Algo THEN g.pay ELSE 0)
                                      + (IF a = g.asset THEN g.amount ELSE 0)
    OBVIOUS
  <2> HIDE DEF h, f, s, S, o, old, new, both, vain
  <2>2. \A a \in Assets : /\ h[a] \in Int
                          /\ h[a] = app.holds[a] + (IF a = Algo THEN g.pay ELSE 0) + Owed(o, a)
    BY <1>3, <1>9, <1>13, <2>1
  <2>3. \A a \in Assets : h[a] >= OwedFor(f, a) /\ OwedFor(f, a) \in Nat
    BY <1>3, <1>8, <1>13, <1>15, <2>2
  <2>4. /\ h[Algo] >= OwedFor(f, Algo) + Reserve(f, s)
        /\ h[Algo] - OwedFor(f, Algo) - Reserve(f, s) = (held + lacking - owed - keep) + vain
    BY <1>1, <1>3, <1>8, <1>10, <1>11, <1>12, <1>13, <1>14, <1>16, <2>2
  <2>5. h[Algo] - OwedFor(f, Algo) - Reserve(f, s) = AtLeast0(Surplus(app)) + vain
    BY <1>16, <2>4, Zenon
  <2>6. h \in [Assets -> Int]
    BY <2>1, <2>2
  <2> QED
    BY <2>3, <2>4, <2>5, <2>6
<1>18. n \in Nat /\ s \in SUBSET (Assets \ {Algo})
  BY <1>3
<1> HIDE DEF f, h, s, n, o, vain
<1>19. /\ Sound(AppFields(app.version, app.program, n, f, s, h))
       /\ MinBalance(AppFields(app.version, app.program, n, f, s, h)) = Reserve(f, s)
  <2> DEFINE v == app.version
             p == app.program
  <2>1. v \in Nat /\ p \in Nat
    BY <1>3
  <2>2. h \in [Assets -> Int] /\ h[Algo] >= OwedFor(f, Algo) + Reserve(f, s)
    BY <1>17, Zenon
  <2>3. \A a \in Assets : h[a] >= OwedFor(f, a) /\ OwedFor(f, a) \in Nat
    BY <1>17, Zenon
  <2> HIDE DEF v, p
  <2>4. /\ Sound(AppFields(v, p, n, f, s, h))
        /\ MinBalance(AppFields(v, p, n, f, s, h)) = Reserve(f, s)
    BY <1>7, <1>18, <2>1, <2>2, <2>3, SoundFields
  <2> QED
    BY <2>4 DEF v, p
<1>20. x.count = n /\ x.optedIn = s /\ x.orders = f /\ x.holds = h
  BY <1>2 DEF AppFields
<1>21. n > 0 /\ n >= app.count /\ n # 0 /\ app.optedIn \subseteq s
  BY <1>3 DEF n, s
<1> HIDE DEF x
<1>22. Sound(x) /\ MinBalance(x) = Reserve(f, s)
  BY <1>2, <1>19, Zenon
<1>23. Promised(x, Algo) = OwedFor(f, Algo)
  BY <1>20, <1>22, AppSums DEF Sound
<1>24. Surplus(x) = h[Algo] - OwedFor(f, Algo) - Reserve(f, s)
  BY <1>20, <1>22, <1>23, Zenon DEF Surplus
<1>25. SparesAsBefore(app, g)
  BY <1>17, <1>24, Zenon DEF SparesAsBefore, x, vain
<1> QED
  BY <1>20, <1>21, <1>22, <1>25 DEF Grown, x

LEMMA UpdatedIsSound ==
  ASSUME NEW app, Sound(app), NEW v \in Nat, NEW p \in Nat
  PROVE  LET x == [app EXCEPT !.version = v, !.program = p]
         IN  Sound(x) /\ Grown(app, x)
<1> DEFINE x == [app EXCEPT !.version = v, !.program = p]
<1>1. IsOrderApp(app)
  BY DEF Sound
<1>2. /\ x.version = v /\ x.program = p /\ x.count = app.count /\ x.orders = app.orders
      /\ x.optedIn = app.optedIn /\ x.holds = app.holds
      /\ x = AppFields(v, p, app.count, app.orders, app.optedIn, app.holds)
  <2>1. PICK v0, p0, n, f, s, h : app = AppFields(v0, p0, n, f, s, h)
    BY <1>1, OfItsFields
  <2>2. [app EXCEPT !.version = v] = AppFields(v, p0, n, f, s, h)
    BY <2>1 DEF AppFields
  <2>3. [AppFields(v, p0, n, f, s, h) EXCEPT !.program = p] = AppFields(v, p, n, f, s, h)
    BY DEF AppFields
  <2>4. x = [[app EXCEPT !.version = v] EXCEPT !.program = p]
    BY Zenon
  <2>5. x = AppFields(v, p, n, f, s, h)
    BY <2>2, <2>3, <2>4, Zenon
  <2>6. app.count = n /\ app.orders = f /\ app.optedIn = s /\ app.holds = h
    BY <2>1 DEF AppFields
  <2> HIDE DEF x
  <2> QED
    BY <2>5, <2>6 DEF AppFields
<1> HIDE DEF x
<1>3. IsOrderApp(x)
  <2>1. /\ app.count \in Nat /\ app.optedIn \in SUBSET (Assets \ {Algo})
        /\ app.holds \in [Assets -> Nat] /\ app.orders \in [DOMAIN app.orders -> Order]
        /\ DOMAIN app.orders \subseteq Kinds \X (0 .. app.count - 1)
    BY <1>1, AppParts DEF IsOrderApp
  <2> QED
    BY <1>2, <2>1, AppFieldsFit
<1>4. \A a : Promised(x, a) = Promised(app, a)
  <2>1. \A a : /\ Promised(x, a) = OwedFor(x.orders, a)
               /\ Promised(app, a) = OwedFor(app.orders, a)
    BY <1>1, <1>3, AppSums
  <2> QED
    BY <1>2, <2>1
<1>5. MinBalance(x) = MinBalance(app)
  BY <1>2, Zenon DEF MinBalance, OrdersIn
<1>6. Funded(x)
  BY <1>2, <1>4, <1>5 DEF Funded, Sound
<1>7. Grown(app, x)
  BY <1>1, <1>2, AppParts DEF Grown
<1> QED
  BY <1>3, <1>6, <1>7 DEF Sound, x

LEMMA NewIsSound ==
  ASSUME NEW g, g.version \in Nat, g.program \in Nat
  PROVE  Sound(NewApp(g))
<1>1. IsOrderApp(NewApp(g))
  BY DEF IsOrderApp, NewApp
<1> QED
  BY <1>1 DEF Sound, Funded, NewApp

-----------------------------------------------------------------------------
(* What the calls know, and what their groups are made of.                  *)

SeenOk(s) ==
  /\ {"count", "optIns", "boxThere", "version", "estimatedFor"} \subseteq DOMAIN s
  /\ s.count \in Nat /\ s.optIns \in SUBSET (Assets \ {Algo}) /\ s.boxThere \in BOOLEAN
  /\ s.version \in Nat /\ s.estimatedFor \subseteq SUBSET (Assets \ {Algo})

\* A put that has come as far as one of the places.
PutAt(c, places) == pc[c] \in places \/ (pc[c] = "built" /\ req[c].op = "put")

\* The group of a put, by what it has read; one for an application without orders yet
\* pays for all that is lacking, and one for an application with orders for nothing.
PutGroup(c) ==
  LET g == group[c]
      n == Cardinality(seen[c].optIns)
  IN  /\ g.kind = req[c].kind /\ g.box = OrderBox(c)
      /\ g.asset = req[c].asset /\ g.target = req[c].target
      /\ g.each = req[c].amount /\ g.times = req[c].times /\ g.amount = TotalAmount(req[c])
      /\ g.optIns = seen[c].optIns /\ g.lacking \in Nat
      /\ g.pay = (IF seen[c].boxThere THEN 0
                  ELSE g.lacking + calculateMinBalance(n, req[c].kind))
      /\ g.fee = ((IF seen[c].boxThere THEN 2 ELSE 3) + (IF n > 0 THEN 1 ELSE 0) + 2 + n) * Fee
      /\ AppOf(c).count = 0 => g.lacking = requiredAmountToCoverMinBalance(AppOf(c))
      /\ seen[c].count > 0 => g.lacking = 0

\* What a put has read is not overtaken but by other orders.
PutInformed(c) ==
  /\ PutAt(c, {"counted", "optIns", "boxRead"}) => seen[c].count <= AppOf(c).count
  /\ PutAt(c, {"optIns", "boxRead"}) =>
       {req[c].asset, req[c].target} \subseteq {Algo} \cup AppOf(c).optedIn \cup seen[c].optIns
  /\ PutAt(c, {"boxRead"}) /\ seen[c].boxThere => seen[c].count < AppOf(c).count
  /\ PutAt(c, {}) => PutGroup(c)

Estimated(c) ==
  /\ seen[c].estimatedFor # {} => pc[c] \notin {"new", "ready"}
  /\ \A s \in seen[c].estimatedFor :
       estimate[c] = {EstimatedFee(Cardinality(s)) + calculateMinBalance(Cardinality(s), "o")}

\* The group of another request.
GroupInformed(c) ==
  /\ pc[c] = "built" /\ req[c].op \in {"cancel", "claim"} =>
       group[c].box = Box(req[c].kind, req[c].id)
  /\ pc[c] \in {"programs", "built"} /\ req[c].op = "create" /\ seen[c].boxThere => entry # {}
  /\ pc[c] = "built" /\ req[c].op \in {"create", "update"} =>
       group[c].version \in Nat /\ group[c].program \in Nat
  /\ pc[c] = "built" /\ req[c].op = "create" => group[c].paysEntry = ~seen[c].boxThere

Informed(c) ==
  /\ SeenOk(seen[c]) /\ appId[c] \subseteq DOMAIN apps
  /\ pc[c] \notin {"new", "ready"} => req[c] \in Asks[c]
  /\ PutInformed(c) /\ Estimated(c) /\ GroupInformed(c)

FInv ==
  /\ IInv /\ estimate = [c \in Calls |-> estimate[c]] /\ {latest, published} \subseteq Nat
  /\ \A i \in DOMAIN apps : Sound(apps[i])
  /\ \A c \in Calls : Informed(c)

\* The client's application is one of those created.
LEMMA AppIsThere ==
  ASSUME FInv, NEW c \in Calls, appId[c] # {}
  PROVE  Only(appId[c]) \in DOMAIN apps /\ Sound(AppOf(c))
<1>1. Only(appId[c]) \in appId[c]
  BY DEF Only
<1> QED
  BY <1>1 DEF FInv, Informed, AppOf

\* Where a put has an application.
LEMMA PutHasApp ==
  ASSUME FInv, NEW c \in Calls,
         pc[c] \in {"available", "counted", "optIns", "boxRead"} \/ PutAt(c, {})
  PROVE  /\ req[c].op = "put" /\ appId[c] # {}
         /\ pc[c] = "built" => group[c].op = "put" /\ group[c].app = Only(appId[c])
<1>1. OnItsWay(c)
  BY DEF FInv, IInv
<1> QED
  BY <1>1 DEF OnItsWay, Putting, PutAt

\* The applications have grown.
ChainGrows ==
  /\ DOMAIN apps \subseteq DOMAIN apps'
  /\ \A i \in DOMAIN apps : Grown(apps[i], apps'[i])
  /\ \A i \in DOMAIN apps' : Sound(apps'[i])
  /\ {latest', published'} \subseteq Nat
  /\ entry # {} => entry' # {}

LEMMA StaysGrown ==
  ASSUME NEW app, IsOrderApp(app)
  PROVE  Grown(app, app)
  BY AppParts DEF Grown

LEMMA SameChainGrows ==
  ASSUME FInv, entry' = entry, apps' = apps, {latest', published'} \subseteq Nat
  PROVE  ChainGrows
  BY StaysGrown DEF FInv, Sound, ChainGrows

\* An application that grows lacks as much as before, as long as it has no orders.
LEMMA StillLacking ==
  ASSUME NEW app, NEW x, IsOrderApp(app), IsOrderApp(x), Grown(app, x), x.count = 0
  PROVE  app.count = 0 /\ requiredAmountToCoverMinBalance(x) = requiredAmountToCoverMinBalance(app)
<1>1. app.count \in Nat /\ app.count = 0
  BY AppParts DEF Grown
<1>2. DOMAIN app.orders = {} /\ DOMAIN x.orders = {}
  BY <1>1, AppParts
<1>3. x.optedIn = app.optedIn /\ x.holds = app.holds
  BY DEF Grown
<1>4. /\ MinBalance(app) = AccountCost + AssetCost * Cardinality(app.optedIn)
                             + CostOf(DOMAIN app.orders)
      /\ MinBalance(x) = AccountCost + AssetCost * Cardinality(x.optedIn)
                           + CostOf(DOMAIN x.orders)
  BY AppSums
<1>5. MinBalance(x) = MinBalance(app) /\ x.holds[Algo] = app.holds[Algo]
  BY <1>2, <1>3, <1>4, Zenon
<1>6. requiredAmountToCoverMinBalance(x) = requiredAmountToCoverMinBalance(app)
  BY <1>5, Zenon DEF requiredAmountToCoverMinBalance
<1> QED
  BY <1>1, <1>6

\* What a call knows stays as good as the applications grow.
LEMMA StillInformed ==
  ASSUME FInv, ChainGrows, NEW c \in Calls,
         pc'[c] = pc[c], req'[c] = req[c], appId'[c] = appId[c], seen'[c] = seen[c],
         estimate'[c] = estimate[c], group'[c] = group[c]
  PROVE  Informed(c)'
<1>1. Informed(c)
  BY DEF FInv
<1>2. SeenOk(seen[c])' /\ appId'[c] \subseteq DOMAIN apps' /\ Estimated(c)'
      /\ (pc'[c] \notin {"new", "ready"} => req'[c] \in Asks[c])
  BY <1>1 DEF Informed, ChainGrows, Estimated, SeenOk
<1>3. GroupInformed(c)'
  BY <1>1 DEF Informed, GroupInformed, ChainGrows
<1>4. PutInformed(c)'
  <2>1. CASE appId[c] = {}
    <3>1. ~ PutAt(c, {"counted", "optIns", "boxRead"})
      BY <2>1, PutHasApp DEF PutAt
    <3> QED
      BY <3>1 DEF PutInformed, PutAt
  <2>2. CASE appId[c] # {}
    <3> DEFINE i == Only(appId[c])
    <3>1. i \in DOMAIN apps /\ AppOf(c) = apps[i] /\ AppOf(c)' = apps'[i]
      BY <2>2, AppIsThere DEF AppOf
    <3>2. IsOrderApp(apps[i]) /\ IsOrderApp(apps'[i]) /\ Grown(apps[i], apps'[i])
      BY <3>1 DEF FInv, ChainGrows, Sound
    <3> HIDE DEF i
    <3>3. /\ apps[i].count \in Nat /\ apps'[i].count \in Nat
          /\ apps[i].count <= apps'[i].count /\ apps[i].optedIn \subseteq apps'[i].optedIn
      BY <3>2, AppParts DEF Grown
    <3>4. seen[c].count \in Nat
      BY <1>1 DEF Informed, SeenOk
    <3>5. PutAt(c, {"counted", "optIns", "boxRead"}) => seen[c].count <= apps'[i].count
      BY <1>1, <3>1, <3>3, <3>4 DEF Informed, PutInformed
    <3>6. PutAt(c, {"optIns", "boxRead"}) =>
            {req[c].asset, req[c].target} \subseteq {Algo} \cup apps'[i].optedIn \cup seen[c].optIns
      BY <1>1, <3>1, <3>3 DEF Informed, PutInformed
    <3>7. PutAt(c, {"boxRead"}) /\ seen[c].boxThere => seen[c].count < apps'[i].count
      BY <1>1, <3>1, <3>3, <3>4 DEF Informed, PutInformed
    <3>8. PutAt(c, {}) => PutGroup(c)'
      <4> SUFFICES ASSUME PutAt(c, {})  PROVE PutGroup(c)'
        OBVIOUS
      <4>1. PutGroup(c)
        BY <1>1 DEF Informed, PutInformed
      <4>2. apps'[i].count = 0 => group[c].lacking = requiredAmountToCoverMinBalance(apps'[i])
        BY <3>1, <3>2, <4>1, StillLacking DEF PutGroup
      <4>3. requiredAmountToCoverMinBalance(AppOf(c))' = requiredAmountToCoverMinBalance(apps'[i])
        BY <3>1, Zenon
      <4> QED
        BY <3>1, <4>1, <4>2, <4>3 DEF PutGroup, OrderBox
    <3> QED
      BY <3>1, <3>5, <3>6, <3>7, <3>8 DEF PutInformed, PutAt
  <2> QED
    BY <2>1, <2>2
<1> QED
  BY <1>2, <1>3, <1>4 DEF Informed

\* FInv but for the part of it that the other proof keeps.
Layer ==
  /\ estimate = [c \in Calls |-> estimate[c]] /\ {latest, published} \subseteq Nat
  /\ \A i \in DOMAIN apps : Sound(apps[i])
  /\ \A c \in Calls : Informed(c)

OthersSame(c) ==
  \A d \in Calls \ {c} :
    /\ pc'[d] = pc[d] /\ req'[d] = req[d] /\ appId'[d] = appId[d]
    /\ seen'[d] = seen[d] /\ estimate'[d] = estimate[d] /\ group'[d] = group[d]

ChainSame == entry' = entry /\ apps' = apps /\ latest' = latest /\ published' = published

\* A step of one call that leaves the chain alone.
LEMMA OwnStepInforms ==
  ASSUME FInv, NEW c \in Calls, ChainSame, OthersSame(c),
         estimate' = [d \in Calls |-> estimate'[d]], Informed(c)'
  PROVE  Layer'
<1>1. entry' = entry /\ apps' = apps /\ latest' = latest /\ published' = published
  BY DEF ChainSame
<1>2. ChainGrows
  BY <1>1, SameChainGrows DEF FInv
<1>3. \A d \in Calls \ {c} : Informed(d)'
  BY <1>2, StillInformed DEF OthersSame
<1> QED
  BY <1>1, <1>3 DEF FInv, Layer

\* Writing a field of what a call has read leaves the others.
LEMMA SeenWritten ==
  ASSUME NEW r, SeenOk(r), NEW x
  PROVE  /\ \A s \in {[r EXCEPT !.count = x], [r EXCEPT !.optIns = x], [r EXCEPT !.boxThere = x],
                      [r EXCEPT !.version = x], [r EXCEPT !.estimatedFor = x]} :
              {"count", "optIns", "boxThere", "version", "estimatedFor"} \subseteq DOMAIN s
         /\ LET s == [r EXCEPT !.count = x]
            IN  /\ s.count = x /\ s.optIns = r.optIns /\ s.boxThere = r.boxThere
                /\ s.version = r.version /\ s.estimatedFor = r.estimatedFor
         /\ LET s == [r EXCEPT !.optIns = x]
            IN  /\ s.count = r.count /\ s.optIns = x /\ s.boxThere = r.boxThere
                /\ s.version = r.version /\ s.estimatedFor = r.estimatedFor
         /\ LET s == [r EXCEPT !.boxThere = x]
            IN  /\ s.count = r.count /\ s.optIns = r.optIns /\ s.boxThere = x
                /\ s.version = r.version /\ s.estimatedFor = r.estimatedFor
         /\ LET s == [r EXCEPT !.version = x]
            IN  /\ s.count = r.count /\ s.optIns = r.optIns /\ s.boxThere = r.boxThere
                /\ s.version = x /\ s.estimatedFor = r.estimatedFor
         /\ LET s == [r EXCEPT !.estimatedFor = x]
            IN  /\ s.count = r.count /\ s.optIns = r.optIns /\ s.boxThere = r.boxThere
                /\ s.version = r.version /\ s.estimatedFor = x
  BY DEF SeenOk

\* The steps of a call, one by one.
LEMMA InitializeInforms ==
  ASSUME FInv, NEW c \in Calls, NEW failed \in BOOLEAN, initializeOrderingClient(c, failed)
  PROVE  Layer'
<1>1. /\ pc[c] = "new" /\ appId' = [appId EXCEPT ![c] = getOrderApplicationId(failed)]
      /\ pc' = [pc EXCEPT ![c] = "ready"]
      /\ ChainSame /\ req' = req /\ seen' = seen /\ estimate' = estimate /\ group' = group
  BY DEF initializeOrderingClient, Go, chainVars, ChainSame
<1>2. Functional /\ entry \subseteq DOMAIN apps /\ Informed(c) /\ SeenOk(seen[c])
  BY DEF FInv, IInv, Created, Informed
<1>3. pc'[c] = "ready" /\ appId'[c] \subseteq DOMAIN apps
  BY <1>1, <1>2 DEF Functional, getOrderApplicationId
<1>4. seen'[c] = seen[c] /\ SeenOk(seen[c])'
  BY <1>1, <1>2 DEF SeenOk
<1>5. seen[c].estimatedFor = {}
  BY <1>1, <1>2 DEF Informed, Estimated
<1>6. Informed(c)'
  BY <1>1, <1>3, <1>4, <1>5 DEF Informed, PutInformed, PutAt, Estimated, GroupInformed, ChainSame
<1>7. OthersSame(c) /\ estimate' = [d \in Calls |-> estimate'[d]]
  BY <1>1, <1>2 DEF Functional, OthersSame, FInv
<1> QED
  BY <1>1, <1>6, <1>7, OwnStepInforms

LEMMA AskInforms ==
  ASSUME FInv, NEW c \in Calls, NEW r \in Asks[c], Ask(c, r)
  PROVE  Layer'
<1>1. /\ pc[c] = "ready" /\ req' = [req EXCEPT ![c] = r] /\ pc' = [pc EXCEPT ![c] = r.op]
      /\ ChainSame /\ appId' = appId /\ seen' = seen /\ estimate' = estimate /\ group' = group
  BY DEF Ask, Go, chainVars, ChainSame
<1>2. r.op \in {"put", "cancel", "claim", "create", "update"}
  BY AskAssumption DEF Puts, Handles
<1>3. Functional /\ Informed(c)
  BY DEF FInv, IInv
<1>4. pc'[c] = r.op /\ req'[c] = r
  BY <1>1, <1>3 DEF Functional
<1>5. seen[c].estimatedFor = {}
  BY <1>1, <1>3 DEF Informed, Estimated
<1>6. Informed(c)'
  BY <1>1, <1>2, <1>3, <1>4, <1>5
     DEF Informed, PutInformed, PutAt, Estimated, GroupInformed, ChainSame, SeenOk
<1>7. OthersSame(c) /\ estimate' = [d \in Calls |-> estimate'[d]]
  BY <1>1, <1>3 DEF Functional, OthersSame, FInv
<1> QED
  BY <1>1, <1>6, <1>7, OwnStepInforms

LEMMA CheckAvailabilityInforms ==
  ASSUME FInv, NEW c \in Calls, NEW failed \in BOOLEAN, checkOrderAppAvailability(c, failed)
  PROVE  Layer'
<1> DEFINE id == IF appId[c] = {} THEN getOrderApplicationId(failed) ELSE appId[c]
<1>1. /\ pc[c] = "put" /\ id # {} /\ appId' = [appId EXCEPT ![c] = id]
      /\ pc' = [pc EXCEPT ![c] = "available"]
      /\ ChainSame /\ req' = req /\ seen' = seen /\ estimate' = estimate /\ group' = group
  BY DEF checkOrderAppAvailability, Go, chainVars, ChainSame
<1>2. Functional /\ entry \subseteq DOMAIN apps /\ Informed(c)
  BY DEF FInv, IInv, Created
<1>3. pc'[c] = "available" /\ appId'[c] \subseteq DOMAIN apps
  BY <1>1, <1>2 DEF Functional, getOrderApplicationId, Informed
<1>4. Informed(c)'
  BY <1>1, <1>2, <1>3
     DEF Informed, PutInformed, PutAt, Estimated, GroupInformed, ChainSame, SeenOk
<1>5. OthersSame(c) /\ estimate' = [d \in Calls |-> estimate'[d]]
  <2> HIDE DEF id
  <2> QED
    BY <1>1, <1>2 DEF Functional, OthersSame, FInv
<1> QED
  BY <1>1, <1>4, <1>5, OwnStepInforms

\* What is to be opted in are assets other than Algo.
LEMMA OptInsAreAssets ==
  ASSUME NEW app, NEW r \in Puts, NEW failed
  PROVE  /\ AssetsToOptIn(app, r, failed) \subseteq Assets \ {Algo}
         /\ {r.asset, r.target} \subseteq {Algo} \cup app.optedIn \cup AssetsToOptIn(app, r, failed)
  BY DEF AssetsToOptIn, Puts

\* A put is one of the puts the call may make.
LEMMA PutIsAsked ==
  ASSUME FInv, NEW c \in Calls, pc[c] \notin {"new", "ready"}, req[c].op = "put"
  PROVE  req[c] \in Puts /\ (req[c].kind = "o" => req[c].times = 1)
<1>1. req[c] \in Asks[c]
  BY DEF FInv, Informed
<1>2. req[c] \in Puts \cup Handles \cup [op : {"create", "update"}]
  BY <1>1, AskAssumption
<1> QED
  BY <1>1, <1>2, AskAssumption DEF Handles

LEMMA EstimateInforms ==
  ASSUME FInv, NEW c \in Calls, NEW threw \in BOOLEAN, NEW failed,
         getPutTriggerOrderTransactionFee(c, threw, failed)
  PROVE  Layer'
<1>1. /\ pc[c] = "put" /\ estimate[c] = {}
      /\ ChainSame /\ pc' = pc /\ req' = req /\ appId' = appId /\ group' = group
  BY DEF getPutTriggerOrderTransactionFee, chainVars, ChainSame
<1>2. Functional /\ Informed(c) /\ OnItsWay(c) /\ estimate = [d \in Calls |-> estimate[d]]
  BY DEF FInv, IInv
<1>3. req[c].op = "put" /\ req[c] \in Puts
  <2>1. req[c].op = "put"
    BY <1>1, <1>2 DEF OnItsWay, Putting
  <2> QED
    BY <1>1, <2>1, PutIsAsked
<1>4. seen[c].estimatedFor = {}
  BY <1>1, <1>2 DEF Informed, Estimated
<1>5. CASE appId[c] = {} \/ threw
  <2>1. estimate' = [estimate EXCEPT ![c] = {0}] /\ seen' = seen
    BY <1>5 DEF getPutTriggerOrderTransactionFee
  <2>2. Informed(c)'
    BY <1>1, <1>2, <1>4, <2>1
       DEF Informed, PutInformed, PutAt, Estimated, GroupInformed, ChainSame, SeenOk
  <2>3. OthersSame(c) /\ estimate' = [d \in Calls |-> estimate'[d]]
    BY <1>1, <1>2, <2>1 DEF Functional, OthersSame
  <2> QED
    BY <1>1, <2>2, <2>3, OwnStepInforms
<1>6. CASE ~(appId[c] = {} \/ threw)
  <2> DEFINE s == AssetsToOptIn(AppOf(c), req[c], failed)
             m == Cardinality(s)
             e == {EstimatedFee(m) + calculateMinBalance(m, "o")}
             x == {s}
  <2>1. estimate' = [estimate EXCEPT ![c] = e] /\ seen' = [seen EXCEPT ![c].estimatedFor = x]
    BY <1>6 DEF getPutTriggerOrderTransactionFee
  <2>2. s \subseteq Assets \ {Algo}
    BY <1>3, OptInsAreAssets
  <2> HIDE DEF s
  <2>3. x \subseteq SUBSET (Assets \ {Algo})
    BY <2>2
  <2>4. \A y \in x : e = {EstimatedFee(Cardinality(y)) + calculateMinBalance(Cardinality(y), "o")}
    OBVIOUS
  <2> HIDE DEF m, e, x
  <2>5. estimate'[c] = e /\ seen'[c] = [seen[c] EXCEPT !.estimatedFor = x]
    BY <1>2, <2>1 DEF Functional
  <2>6. SeenOk(seen[c])
    BY <1>2 DEF Informed
  <2>7. /\ SeenOk(seen'[c]) /\ seen'[c].estimatedFor = x /\ seen'[c].boxThere = seen[c].boxThere
    BY <2>3, <2>5, <2>6, SeenWritten DEF SeenOk
  <2>8. Informed(c)'
    BY <1>1, <1>2, <1>3, <2>4, <2>5, <2>7
       DEF Informed, PutInformed, PutAt, Estimated, GroupInformed, ChainSame
  <2>9. OthersSame(c) /\ estimate' = [d \in Calls |-> estimate'[d]]
    BY <1>1, <1>2, <2>1 DEF Functional, OthersSame
  <2> QED
    BY <1>1, <2>8, <2>9, OwnStepInforms
<1> QED
  BY <1>5, <1>6

\* A step that reads.
LEMMA ReaderInforms ==
  ASSUME FInv, NEW c \in Calls, ChainSame,
         req' = req, appId' = appId, estimate' = estimate, group' = group,
         NEW s, seen' = [seen EXCEPT ![c] = s], SeenOk(s),
         s.estimatedFor = seen[c].estimatedFor,
         pc[c] \notin {"new", "ready"},
         \E x : pc' = [pc EXCEPT ![c] = x] /\ x \notin {"new", "ready"},
         PutInformed(c)', GroupInformed(c)'
  PROVE  Layer'
<1>1. Functional /\ Informed(c)
  BY DEF FInv, IInv
<1>2. pc'[c] \notin {"new", "ready"} /\ seen'[c] = s
  BY <1>1 DEF Functional
<1>3. SeenOk(seen[c])'
  BY <1>2 DEF SeenOk
<1>4. Estimated(c)'
  BY <1>1, <1>2 DEF Informed, Estimated
<1>5. Informed(c)'
  BY <1>1, <1>2, <1>3, <1>4 DEF Informed, ChainSame
<1>6. OthersSame(c) /\ estimate' = [d \in Calls |-> estimate'[d]]
  BY <1>1 DEF Functional, OthersSame, FInv
<1> QED
  BY <1>5, <1>6, OwnStepInforms

LEMMA CountInforms ==
  ASSUME FInv, NEW c \in Calls, getOrderCount(c)
  PROVE  Layer'
<1> DEFINE s == [seen[c] EXCEPT !.count = AppOf(c).count]
<1>1. /\ pc[c] = "available" /\ seen' = [seen EXCEPT ![c].count = AppOf(c).count]
      /\ pc' = [pc EXCEPT ![c] = "counted"]
      /\ ChainSame /\ req' = req /\ appId' = appId /\ estimate' = estimate /\ group' = group
  BY DEF getOrderCount, Go, chainVars, ChainSame
<1>2. Functional /\ SeenOk(seen[c])
  BY DEF FInv, IInv, Informed
<1>3. appId[c] # {} /\ AppOf(c).count \in Nat
  <2>1. appId[c] # {}
    BY <1>1, PutHasApp
  <2> QED
    BY <2>1, AppIsThere, AppParts DEF Sound
<1>4. seen' = [seen EXCEPT ![c] = s]
  BY <1>1
<1>5. SeenOk(s) /\ s.count = AppOf(c).count /\ s.estimatedFor = seen[c].estimatedFor
  <2> DEFINE n == AppOf(c).count
  <2> HIDE DEF n
  <2>1. n \in Nat
    BY <1>3 DEF n
  <2>2. SeenOk([seen[c] EXCEPT !.count = n]) /\ [seen[c] EXCEPT !.count = n].count = n
        /\ [seen[c] EXCEPT !.count = n].estimatedFor = seen[c].estimatedFor
    BY <1>2, <2>1, SeenWritten DEF SeenOk
  <2> QED
    BY <2>2 DEF n
<1> HIDE DEF s
<1>6. pc'[c] = "counted" /\ seen'[c] = s /\ AppOf(c)' = AppOf(c)
  BY <1>1, <1>2, <1>4 DEF Functional, AppOf, ChainSame
<1>7. PutInformed(c)'
  BY <1>3, <1>5, <1>6 DEF PutInformed, PutAt
<1>8. GroupInformed(c)'
  BY <1>6 DEF GroupInformed
<1>20. \E x : pc' = [pc EXCEPT ![c] = x] /\ x \notin {"new", "ready"}
  <2>1. pc' = [pc EXCEPT ![c] = "counted"]
    BY <1>1
  <2>2. "counted" \notin {"new", "ready"}
    OBVIOUS
  <2> WITNESS "counted"
  <2> QED
    BY <2>1, <2>2
<1> QED
  BY <1>1, <1>4, <1>5, <1>7, <1>8, <1>20, ReaderInforms

LEMMA OptInsInform ==
  ASSUME FInv, NEW c \in Calls, NEW failed \in SUBSET Assets, ReadOptIns(c, failed)
  PROVE  Layer'
<1> DEFINE y == AssetsToOptIn(AppOf(c), req[c], failed)
           s == [seen[c] EXCEPT !.optIns = y]
<1>1. /\ pc[c] = "counted" /\ seen' = [seen EXCEPT ![c].optIns = y]
      /\ pc' = [pc EXCEPT ![c] = "optIns"]
      /\ ChainSame /\ req' = req /\ appId' = appId /\ estimate' = estimate /\ group' = group
  BY DEF ReadOptIns, Go, chainVars, ChainSame
<1>2. Functional /\ SeenOk(seen[c]) /\ PutInformed(c)
  BY DEF FInv, IInv, Informed
<1>3. req[c] \in Puts
  <2>1. req[c].op = "put"
    BY <1>1, PutHasApp
  <2> QED
    BY <1>1, <2>1, PutIsAsked
<1>4. /\ y \subseteq Assets \ {Algo}
      /\ {req[c].asset, req[c].target} \subseteq {Algo} \cup AppOf(c).optedIn \cup y
  BY <1>3, OptInsAreAssets
<1> HIDE DEF y
<1>5. seen' = [seen EXCEPT ![c] = s]
  BY <1>1
<1>6. /\ SeenOk(s) /\ s.optIns = y /\ s.count = seen[c].count
      /\ s.estimatedFor = seen[c].estimatedFor
  BY <1>2, <1>4, SeenWritten DEF SeenOk
<1> HIDE DEF s
<1>7. pc'[c] = "optIns" /\ seen'[c] = s /\ AppOf(c)' = AppOf(c)
  BY <1>1, <1>2, <1>5 DEF Functional, AppOf, ChainSame
<1>8. seen[c].count <= AppOf(c).count
  BY <1>1, <1>2 DEF PutInformed, PutAt
<1>9. PutInformed(c)'
  BY <1>1, <1>4, <1>6, <1>7, <1>8 DEF PutInformed, PutAt
<1>10. GroupInformed(c)'
  BY <1>7 DEF GroupInformed
<1>20. \E x : pc' = [pc EXCEPT ![c] = x] /\ x \notin {"new", "ready"}
  <2>1. pc' = [pc EXCEPT ![c] = "optIns"]
    BY <1>1
  <2>2. "optIns" \notin {"new", "ready"}
    OBVIOUS
  <2> WITNESS "optIns"
  <2> QED
    BY <2>1, <2>2
<1> QED
  BY <1>1, <1>5, <1>6, <1>9, <1>10, <1>20, ReaderInforms

LEMMA BoxInforms ==
  ASSUME FInv, NEW c \in Calls, NEW failed \in BOOLEAN, boxExists(c, failed)
  PROVE  Layer'
<1> DEFINE y == OrderBox(c) \in OrdersIn(AppOf(c)) /\ ~failed
           s == [seen[c] EXCEPT !.boxThere = y]
<1>1. /\ pc[c] = "optIns" /\ seen' = [seen EXCEPT ![c].boxThere = y]
      /\ pc' = [pc EXCEPT ![c] = "boxRead"]
      /\ ChainSame /\ req' = req /\ appId' = appId /\ estimate' = estimate /\ group' = group
  BY DEF boxExists, Go, chainVars, ChainSame
<1>2. Functional /\ SeenOk(seen[c]) /\ PutInformed(c)
  BY DEF FInv, IInv, Informed
<1>3. IsOrderApp(AppOf(c))
  <2>1. appId[c] # {}
    BY <1>1, PutHasApp
  <2> QED
    BY <2>1, AppIsThere DEF Sound
<1>4. y \in BOOLEAN /\ (y => seen[c].count < AppOf(c).count)
  <2>1. OrderBox(c) \in DOMAIN AppOf(c).orders => OrderBox(c)[2] < AppOf(c).count
    BY <1>3, AppParts
  <2>2. OrderBox(c)[2] = seen[c].count
    BY DEF OrderBox, Box
  <2> QED
    BY <2>1, <2>2 DEF OrdersIn
<1> HIDE DEF y
<1>5. seen' = [seen EXCEPT ![c] = s]
  BY <1>1
<1>6. /\ SeenOk(s) /\ s.boxThere = y /\ s.count = seen[c].count /\ s.optIns = seen[c].optIns
      /\ s.estimatedFor = seen[c].estimatedFor
  BY <1>2, <1>4, SeenWritten DEF SeenOk
<1> HIDE DEF s
<1>7. pc'[c] = "boxRead" /\ seen'[c] = s /\ AppOf(c)' = AppOf(c)
  BY <1>1, <1>2, <1>5 DEF Functional, AppOf, ChainSame
<1>8. /\ seen[c].count <= AppOf(c).count
      /\ {req[c].asset, req[c].target} \subseteq {Algo} \cup AppOf(c).optedIn \cup seen[c].optIns
  BY <1>1, <1>2 DEF PutInformed, PutAt
<1>9. PutInformed(c)'
  BY <1>1, <1>4, <1>6, <1>7, <1>8 DEF PutInformed, PutAt
<1>10. GroupInformed(c)'
  BY <1>7 DEF GroupInformed
<1>20. \E x : pc' = [pc EXCEPT ![c] = x] /\ x \notin {"new", "ready"}
  <2>1. pc' = [pc EXCEPT ![c] = "boxRead"]
    BY <1>1
  <2>2. "boxRead" \notin {"new", "ready"}
    OBVIOUS
  <2> WITNESS "boxRead"
  <2> QED
    BY <2>1, <2>2
<1> QED
  BY <1>1, <1>5, <1>6, <1>9, <1>10, <1>20, ReaderInforms

LEMMA VersionInforms ==
  ASSUME FInv, NEW c \in Calls, shouldUpdateOrderingApp(c) \/ getLatestOrderAppVersion(c)
  PROVE  Layer'
<1> DEFINE s == [seen[c] EXCEPT !.version = latest]
<1>1. /\ pc[c] \in {"update", "outdated", "create"}
      /\ seen' = [seen EXCEPT ![c].version = latest]
      /\ ChainSame /\ req' = req /\ appId' = appId /\ estimate' = estimate /\ group' = group
  BY DEF shouldUpdateOrderingApp, getLatestOrderAppVersion, chainVars, ChainSame
<1>2. \E x : /\ pc' = [pc EXCEPT ![c] = x]
             /\ x \in {"compare", "entry", "programs"} /\ (x = "programs" => pc[c] = "outdated")
  BY DEF shouldUpdateOrderingApp, getLatestOrderAppVersion, Go
<1>3. Functional /\ SeenOk(seen[c]) /\ OnItsWay(c) /\ latest \in Nat
  BY DEF FInv, IInv, Informed
<1>4. seen' = [seen EXCEPT ![c] = s]
  BY <1>1
<1>5. SeenOk(s) /\ s.estimatedFor = seen[c].estimatedFor
  BY <1>3, SeenWritten DEF SeenOk
<1> HIDE DEF s
<1>6. pc'[c] \in {"compare", "entry", "programs"} /\ (pc'[c] = "programs" => pc[c] = "outdated")
  BY <1>2, <1>3 DEF Functional
<1>7. PutInformed(c)'
  BY <1>6 DEF PutInformed, PutAt
<1>8. GroupInformed(c)'
  BY <1>1, <1>3, <1>6 DEF GroupInformed, OnItsWay
<1> QED
  BY <1>1, <1>2, <1>4, <1>5, <1>7, <1>8, ReaderInforms

LEMMA EntryInforms ==
  ASSUME FInv, NEW c \in Calls, NEW failed \in BOOLEAN, entryBoxExists(c, failed)
  PROVE  Layer'
<1> DEFINE y == entry # {} /\ ~failed
           s == [seen[c] EXCEPT !.boxThere = y]
<1>1. /\ pc[c] = "entry" /\ seen' = [seen EXCEPT ![c].boxThere = y]
      /\ pc' = [pc EXCEPT ![c] = "programs"]
      /\ ChainSame /\ req' = req /\ appId' = appId /\ estimate' = estimate /\ group' = group
  BY DEF entryBoxExists, Go, chainVars, ChainSame
<1>2. Functional /\ SeenOk(seen[c])
  BY DEF FInv, IInv, Informed
<1>3. y \in BOOLEAN /\ (y => entry # {})
  OBVIOUS
<1> HIDE DEF y
<1>4. seen' = [seen EXCEPT ![c] = s]
  BY <1>1
<1>5. SeenOk(s) /\ s.boxThere = y /\ s.estimatedFor = seen[c].estimatedFor
  BY <1>2, <1>3, SeenWritten DEF SeenOk
<1> HIDE DEF s
<1>6. pc'[c] = "programs" /\ seen'[c] = s
  BY <1>1, <1>2, <1>4 DEF Functional
<1>7. PutInformed(c)'
  BY <1>6 DEF PutInformed, PutAt
<1>8. GroupInformed(c)'
  BY <1>1, <1>3, <1>5, <1>6 DEF GroupInformed, ChainSame
<1>20. \E x : pc' = [pc EXCEPT ![c] = x] /\ x \notin {"new", "ready"}
  <2>1. pc' = [pc EXCEPT ![c] = "programs"]
    BY <1>1
  <2>2. "programs" \notin {"new", "ready"}
    OBVIOUS
  <2> WITNESS "programs"
  <2> QED
    BY <2>1, <2>2
<1> QED
  BY <1>1, <1>4, <1>5, <1>7, <1>8, <1>20, ReaderInforms

\* A step that ends the call, or tells the user to update.
LEMMA EndInforms ==
  ASSUME FInv, NEW c \in Calls, CompareVersions(c) \/ Throw(c) \/ Refuse(c)
  PROVE  Layer'
<1>1. /\ pc[c] \notin {"new", "ready"}
      /\ \E x \in {"outdated", "upToDate", "threw", "refused"} : pc' = [pc EXCEPT ![c] = x]
      /\ ChainSame /\ req' = req /\ appId' = appId /\ seen' = seen
      /\ estimate' = estimate /\ group' = group
  BY DEF CompareVersions, Throw, Refuse, Go, chainVars, ChainSame
<1>2. Functional /\ SeenOk(seen[c])
  BY DEF FInv, IInv, Informed
<1>3. seen' = [seen EXCEPT ![c] = seen[c]]
  BY <1>1, <1>2 DEF Functional
<1>4. pc'[c] \in {"outdated", "upToDate", "threw", "refused"}
  BY <1>1, <1>2 DEF Functional
<1>5. PutInformed(c)' /\ GroupInformed(c)'
  BY <1>4 DEF PutInformed, PutAt, GroupInformed
<1> QED
  BY <1>1, <1>2, <1>3, <1>5, ReaderInforms

\* A step that prepares a group.
LEMMA PreparerInforms ==
  ASSUME FInv, NEW c \in Calls, ChainSame,
         req' = req, appId' = appId, estimate' = estimate, seen' = seen,
         pc[c] \notin {"new", "ready"}, pc' = [pc EXCEPT ![c] = "built"],
         NEW g, group' = [group EXCEPT ![c] = g],
         PutInformed(c)', GroupInformed(c)'
  PROVE  Layer'
<1>1. Functional /\ Informed(c)
  BY DEF FInv, IInv
<1>2. pc'[c] = "built" /\ seen'[c] = seen[c]
  BY <1>1 DEF Functional
<1>3. SeenOk(seen[c])' /\ Estimated(c)'
  BY <1>1, <1>2 DEF Informed, Estimated, SeenOk
<1>4. Informed(c)'
  BY <1>1, <1>2, <1>3 DEF Informed, ChainSame
<1>5. OthersSame(c) /\ estimate' = [d \in Calls |-> estimate'[d]]
  BY <1>1 DEF Functional, OthersSame, FInv
<1> QED
  BY <1>4, <1>5, OwnStepInforms

\* What must be paid for an application to keep its minimum balance.
LEMMA PreparePutInforms ==
  ASSUME FInv, NEW c \in Calls, PreparePut(c)
  PROVE  Layer'
<1> DEFINE n       == Cardinality(seen[c].optIns)
           lacking == requiredAmountToCoverMinBalance(AppOf(c))
           pay     == IF seen[c].boxThere THEN 0
                      ELSE lacking + calculateMinBalance(n, req[c].kind)
           fee     == ((IF seen[c].boxThere THEN 2 ELSE 3)
                         + (IF n > 0 THEN 1 ELSE 0) + 2 + n) * Fee
           total   == TotalAmount(req[c])
           box     == OrderBox(c)
           g       == [op |-> "put", app |-> Only(appId[c]), kind |-> req[c].kind,
                       box |-> box, asset |-> req[c].asset, target |-> req[c].target,
                       each |-> req[c].amount, times |-> req[c].times,
                       amount |-> total, optIns |-> seen[c].optIns,
                       lacking |-> lacking, pay |-> pay, fee |-> fee]
<1>1. /\ pc[c] = "boxRead" /\ pc' = [pc EXCEPT ![c] = "built"]
      /\ ChainSame /\ req' = req /\ appId' = appId /\ estimate' = estimate /\ seen' = seen
  BY DEF PreparePut, Go, chainVars, ChainSame
<1>2. group' = [group EXCEPT ![c] = g]
  BY Zenon DEF PreparePut
<1>3. Functional /\ PutInformed(c)
  BY DEF FInv, IInv, Informed
<1>4. req[c].op = "put" /\ appId[c] # {}
  BY <1>1, PutHasApp
<1>5. /\ lacking = requiredAmountToCoverMinBalance(AppOf(c)) /\ lacking \in Nat
      /\ seen[c].count > 0 => lacking = 0
  <2>1. Sound(AppOf(c)) /\ AppOf(c).count \in Nat /\ seen[c].count \in Nat
    BY <1>4, AppIsThere, AppParts DEF Sound, FInv, Informed, SeenOk
  <2>2. seen[c].count <= AppOf(c).count
    BY <1>1, <1>3 DEF PutInformed, PutAt
  <2>3. seen[c].count > 0 => AppOf(c).count > 0
    BY <2>1, <2>2
  <2> QED
    BY <2>1, <2>3, WhatIsLacking
<1>6. /\ n = Cardinality(seen[c].optIns)
      /\ pay = (IF seen[c].boxThere THEN 0 ELSE lacking + calculateMinBalance(n, req[c].kind))
      /\ fee = ((IF seen[c].boxThere THEN 2 ELSE 3) + (IF n > 0 THEN 1 ELSE 0) + 2 + n) * Fee
      /\ total = TotalAmount(req[c]) /\ box = OrderBox(c)
  BY Zenon
<1> HIDE DEF n, lacking, pay, fee, total, box
<1>7. /\ g.op = "put" /\ g.kind = req[c].kind /\ g.box = box /\ g.asset = req[c].asset
      /\ g.target = req[c].target /\ g.each = req[c].amount /\ g.times = req[c].times
      /\ g.amount = total /\ g.optIns = seen[c].optIns /\ g.lacking = lacking
      /\ g.pay = pay /\ g.fee = fee
  OBVIOUS
<1> HIDE DEF g
<1>8. group'[c] = g /\ pc'[c] = "built"
  BY <1>1, <1>2, <1>3 DEF Functional
<1>9. /\ seen'[c] = seen[c] /\ req'[c] = req[c] /\ AppOf(c)' = AppOf(c) /\ OrderBox(c)' = OrderBox(c)
  BY <1>1 DEF AppOf, OrderBox, ChainSame
<1>10. requiredAmountToCoverMinBalance(AppOf(c))' = requiredAmountToCoverMinBalance(AppOf(c))
  BY <1>9, Zenon
<1>11. PutGroup(c)'
  <2>1. (AppOf(c).count = 0 => group[c].lacking = requiredAmountToCoverMinBalance(AppOf(c)))'
    BY <1>5, <1>7, <1>8, <1>9, <1>10
  <2>2. (seen[c].count > 0 => group[c].lacking = 0)'
    BY <1>5, <1>7, <1>8, <1>9
  <2> QED
    BY <1>5, <1>6, <1>7, <1>8, <1>9, <2>1, <2>2 DEF PutGroup
<1>12. PutInformed(c)'
  BY <1>1, <1>3, <1>8, <1>9, <1>11 DEF PutInformed, PutAt
<1>13. GroupInformed(c)'
  BY <1>1, <1>4, <1>9 DEF GroupInformed
<1> QED
  BY <1>1, <1>2, <1>12, <1>13, PreparerInforms

LEMMA PrepareHandleInforms ==
  ASSUME FInv, NEW c \in Calls, PrepareHandle(c)
  PROVE  Layer'
<1> DEFINE box == Box(req[c].kind, req[c].id)
           g   == [op |-> req[c].op, app |-> Only(appId[c]), box |-> box]
<1>1. /\ pc[c] \in {"cancel", "claim"} /\ pc' = [pc EXCEPT ![c] = "built"]
      /\ group' = [group EXCEPT ![c] = g]
      /\ ChainSame /\ req' = req /\ appId' = appId /\ estimate' = estimate /\ seen' = seen
  BY DEF PrepareHandle, Go, chainVars, ChainSame
<1>2. Functional /\ OnItsWay(c)
  BY DEF FInv, IInv
<1>3. req[c].op \in {"cancel", "claim"}
  BY <1>1, <1>2 DEF OnItsWay
<1>4. g.box = box
  BY Zenon
<1>5. box = Box(req[c].kind, req[c].id)
  BY Zenon
<1> HIDE DEF box, g
<1>6. group'[c] = g /\ pc'[c] = "built" /\ req'[c] = req[c]
  BY <1>1, <1>2 DEF Functional
<1>7. PutInformed(c)'
  BY <1>3, <1>6 DEF PutInformed, PutAt
<1>8. GroupInformed(c)'
  BY <1>3, <1>4, <1>5, <1>6 DEF GroupInformed
<1> QED
  BY <1>1, <1>7, <1>8, PreparerInforms

LEMMA PrepareProgramInforms ==
  ASSUME FInv, NEW c \in Calls, PrepareProgram(c)
  PROVE  Layer'
<1>1. /\ pc[c] = "programs" /\ pc' = [pc EXCEPT ![c] = "built"]
      /\ ChainSame /\ req' = req /\ appId' = appId /\ estimate' = estimate /\ seen' = seen
  BY DEF PrepareProgram, Go, chainVars, ChainSame
<1>2. Functional /\ OnItsWay(c) /\ GroupInformed(c) /\ seen[c].version \in Nat /\ published \in Nat
  BY DEF FInv, IInv, Informed, SeenOk
<1>3. req[c].op \in {"create", "update"}
  BY <1>1, <1>2 DEF OnItsWay
<1>4. \E g : /\ group' = [group EXCEPT ![c] = g]
             /\ g.version \in Nat /\ g.program \in Nat
             /\ req[c].op = "create" => g.paysEntry = ~seen[c].boxThere
  <2>1. CASE req[c].op = "update"
    <3> DEFINE g == [op |-> "update", app |-> Only(appId[c]), version |-> seen[c].version,
                     program |-> published]
    <3>1. group' = [group EXCEPT ![c] = g]
      BY <2>1 DEF PrepareProgram
    <3>2. g.version = seen[c].version /\ g.program = published
      OBVIOUS
    <3> HIDE DEF g
    <3> QED
      BY <1>2, <2>1, <3>1, <3>2
  <2>2. CASE req[c].op = "create"
    <3> DEFINE pays == ~seen[c].boxThere
               g == [op |-> "create", version |-> seen[c].version, program |-> published,
                     paysEntry |-> pays]
    <3>1. group' = [group EXCEPT ![c] = g]
      BY <2>2 DEF PrepareProgram
    <3> HIDE DEF pays
    <3>2. g.version = seen[c].version /\ g.program = published /\ g.paysEntry = pays
      OBVIOUS
    <3> HIDE DEF g
    <3> QED
      BY <1>2, <3>1, <3>2 DEF pays
  <2> QED
    BY <1>3, <2>1, <2>2
<1>5. PICK g : /\ group' = [group EXCEPT ![c] = g]
               /\ g.version \in Nat /\ g.program \in Nat
               /\ req[c].op = "create" => g.paysEntry = ~seen[c].boxThere
  BY <1>4
<1>6. group'[c] = g /\ pc'[c] = "built"
  BY <1>1, <1>2, <1>5 DEF Functional
<1>7. PutInformed(c)'
  BY <1>1, <1>3, <1>6 DEF PutInformed, PutAt
<1>8. GroupInformed(c)'
  BY <1>1, <1>2, <1>3, <1>5, <1>6 DEF GroupInformed, ChainSame
<1> QED
  BY <1>1, <1>5, <1>7, <1>8, PreparerInforms

\* A put that no other one overtook makes the application pay for what it owes and keeps.
LEMMA PutFits ==
  ASSUME FInv, NEW c \in Calls, pc[c] = "built", req[c].op = "put",
         seen[c].count = AppOf(c).count
  PROVE  /\ Sound(WithOrder(AppOf(c), group[c])) /\ WithOrder(AppOf(c), group[c]).count > 0
         /\ Grown(AppOf(c), WithOrder(AppOf(c), group[c]))
         /\ SparesAsBefore(AppOf(c), group[c])
         /\ group[c].kind = req[c].kind /\ group[c].box = Box(req[c].kind, AppOf(c).count)
         /\ {group[c].asset, group[c].target} \subseteq
              {Algo} \cup AppOf(c).optedIn \cup group[c].optIns
<1> DEFINE app == AppOf(c)
           g == group[c]
<1>1. PutInformed(c) /\ SeenOk(seen[c])
  BY DEF FInv, Informed
<1>2. appId[c] # {}
  BY PutHasApp DEF PutAt
<1>3. Sound(app) /\ app.count \in Nat
  BY <1>2, AppIsThere, AppParts DEF Sound
<1>4. req[c] \in Puts
  BY PutIsAsked
<1>5. ~seen[c].boxThere
  BY <1>1, <1>3 DEF PutInformed, PutAt, SeenOk
<1>6. /\ {req[c].asset, req[c].target} \subseteq {Algo} \cup app.optedIn \cup seen[c].optIns
      /\ PutGroup(c)
  BY <1>1 DEF PutInformed, PutAt
<1>7. /\ g.kind = req[c].kind /\ g.box = OrderBox(c) /\ g.asset = req[c].asset
      /\ g.target = req[c].target /\ g.each = req[c].amount /\ g.times = req[c].times
      /\ g.amount = TotalAmount(req[c]) /\ g.optIns = seen[c].optIns /\ g.lacking \in Nat
  BY <1>6 DEF PutGroup
<1>8. g.pay = g.lacking + calculateMinBalance(Cardinality(g.optIns), req[c].kind)
  BY <1>5, <1>6 DEF PutGroup
<1>9. g.lacking = AtLeast0(MinBalance(app) - app.holds[Algo])
  <2>1. CASE app.count = 0
    BY <1>3, <1>6, <2>1, WhatIsLacking DEF PutGroup
  <2>2. CASE app.count > 0
    BY <1>3, <1>6, <2>2, WhatIsLacking DEF PutGroup
  <2> QED
    BY <1>3, <2>1, <2>2
<1>10. /\ req[c].kind \in Kinds /\ req[c].asset \in Assets /\ req[c].target \in Assets
       /\ req[c].amount \in Nat /\ req[c].times \in Nat
  BY <1>4 DEF Puts
<1>11. g.each * g.times \in Nat /\ g.amount = g.each * g.times
  <2>1. \A m, n \in Nat : m * n \in Nat
    OBVIOUS
  <2> QED
    BY <1>7, <1>10, <2>1 DEF TotalAmount
<1>12. g.box = Box(req[c].kind, app.count) /\ g.optIns \in SUBSET (Assets \ {Algo})
  BY <1>1, <1>7 DEF OrderBox, SeenOk
<1> HIDE DEF app, g
<1>13. /\ Sound(WithOrder(app, g)) /\ WithOrder(app, g).count > 0 /\ Grown(app, WithOrder(app, g))
       /\ SparesAsBefore(app, g)
  BY <1>3, <1>7, <1>8, <1>9, <1>10, <1>11, <1>12, PutIsSound
<1>14. {g.asset, g.target} \subseteq {Algo} \cup app.optedIn \cup g.optIns
  BY <1>6, <1>7
<1> QED
  BY <1>7, <1>12, <1>13, <1>14 DEF app, g

\* What a group leaves of its application.
LEMMA AppAfterIsSound ==
  ASSUME FInv, NEW c \in Calls, pc[c] = "built", Executable(group[c]), group[c].op # "create"
  PROVE  /\ group[c].app \in DOMAIN apps
         /\ Sound(AppAfter(group[c])) /\ Grown(apps[group[c].app], AppAfter(group[c]))
<1> DEFINE g == group[c]
<1>1. OnItsWay(c) /\ Informed(c)
  BY DEF FInv, IInv
<1>2. /\ g.op = req[c].op /\ g.op \in {"put", "cancel", "claim", "update"}
      /\ appId[c] # {} /\ g.app = Only(appId[c])
  BY <1>1 DEF OnItsWay
<1>3. g.app \in DOMAIN apps /\ Sound(apps[g.app]) /\ AppOf(c) = apps[g.app]
  BY <1>2, AppIsThere DEF AppOf
<1>4. CASE g.op = "put"
  <2>1. AppAfter(g) = WithOrder(AppOf(c), g)
    BY <1>3, <1>4 DEF AppAfter
  <2>2. seen[c].count = AppOf(c).count
    <3>1. g.box = Box(g.kind, AppOf(c).count)
      BY <1>3, <1>4 DEF Executable
    <3>2. g.box = Box(req[c].kind, seen[c].count)
      BY <1>1, <1>2, <1>4 DEF Informed, PutInformed, PutAt, PutGroup, OrderBox
    <3> QED
      BY <3>1, <3>2 DEF Box
  <2> QED
    BY <1>2, <1>3, <1>4, <2>1, <2>2, PutFits
<1>5. CASE g.op = "cancel"
  <2>1. AppAfter(g) = Without(apps[g.app], g.box)
    BY <1>5 DEF AppAfter
  <2>2. g.box \in DOMAIN apps[g.app].orders
    BY <1>5 DEF Executable, OrdersIn
  <2> QED
    BY <1>3, <2>1, <2>2, CancelledIsSound
<1>6. CASE g.op = "claim"
  <2>1. AppAfter(g) = Claimed(apps[g.app], g.box)
    BY <1>6 DEF AppAfter
  <2>2. g.box \in DOMAIN apps[g.app].orders
    BY <1>6 DEF Executable, OrdersIn
  <2> QED
    BY <1>3, <2>1, <2>2, ClaimedIsSound
<1>7. CASE g.op = "update"
  <2>1. AppAfter(g) = [apps[g.app] EXCEPT !.version = g.version, !.program = g.program]
    BY <1>7 DEF AppAfter
  <2>2. g.version \in Nat /\ g.program \in Nat
    BY <1>1, <1>2, <1>7 DEF Informed, GroupInformed
  <2> DEFINE x == [apps[g.app] EXCEPT !.version = g.version, !.program = g.program]
  <2>3. Sound(x) /\ Grown(apps[g.app], x)
    BY <1>3, <2>2, UpdatedIsSound, Zenon
  <2> HIDE DEF x
  <2> QED
    BY <1>3, <2>1, <2>3 DEF x
<1> QED
  BY <1>2, <1>3, <1>4, <1>5, <1>6, <1>7

\* One application replaced.
LEMMA OneAppGrows ==
  ASSUME FInv, NEW i \in DOMAIN apps, NEW x, Sound(x), Grown(apps[i], x),
         apps' = [apps EXCEPT ![i] = x], entry' = entry, latest' = latest, published' = published
  PROVE  ChainGrows
<1>1. PICK S : apps \in Seq(S)
  BY DEF FInv, IInv, Created
<1>2. apps \in Seq(S \cup {x}) /\ x \in S \cup {x}
  BY <1>1
<1>3. /\ DOMAIN apps' = DOMAIN apps
      /\ \A j \in DOMAIN apps : apps'[j] = IF j = i THEN x ELSE apps[j]
  BY <1>2, Replaced, Zenon
<1>4. \A j \in DOMAIN apps : Sound(apps[j]) /\ Grown(apps[j], apps[j])
  BY StaysGrown DEF FInv, Sound
<1>5. \A j \in DOMAIN apps : Sound(apps'[j]) /\ Grown(apps[j], apps'[j])
  BY <1>3, <1>4
<1>6. {latest', published'} \subseteq Nat
  BY DEF FInv
<1> QED
  BY <1>3, <1>5, <1>6 DEF ChainGrows

\* A group executed.
LEMMA ExecuteGrows ==
  ASSUME FInv, NEW c \in Calls, Execute(c)
  PROVE  ChainGrows
<1> DEFINE g == group[c]
<1>1. pc[c] = "built" /\ Executable(g) /\ latest' = latest /\ published' = published
  BY DEF Execute
<1>2. CASE g.op # "create"
  <2> DEFINE x == AppAfter(g)
  <2>1. apps' = [apps EXCEPT ![g.app] = x] /\ entry' = entry
    BY <1>2 DEF Execute
  <2>2. g.app \in DOMAIN apps /\ Sound(x) /\ Grown(apps[g.app], x)
    BY <1>1, <1>2, AppAfterIsSound
  <2> HIDE DEF x
  <2> QED
    BY <1>1, <2>1, <2>2, OneAppGrows
<1>3. CASE g.op = "create"
  <2> DEFINE x == NewApp(g)
  <2>1. apps' = Append(apps, x) /\ entry' = {Len(apps) + 1}
    BY <1>3 DEF Execute
  <2>2. g.version \in Nat /\ g.program \in Nat
    BY <1>1, <1>3 DEF FInv, Informed, GroupInformed, IInv, OnItsWay
  <2>3. Sound(x)
    BY <2>2, NewIsSound
  <2> HIDE DEF x
  <2>4. PICK S : apps \in Seq(S)
    BY DEF FInv, IInv, Created
  <2>5. /\ DOMAIN apps' = DOMAIN apps \cup {Len(apps) + 1}
        /\ \A j \in DOMAIN apps : apps'[j] = apps[j]
        /\ apps'[Len(apps) + 1] = x
    <3>1. apps \in Seq(S \cup {x})
      BY <2>4
    <3> QED
      BY <2>1, <3>1
  <2>6. \A j \in DOMAIN apps : Sound(apps[j]) /\ Grown(apps[j], apps[j])
    BY StaysGrown DEF FInv, Sound
  <2>7. \A j \in DOMAIN apps : Grown(apps[j], apps'[j])
    BY <2>5, <2>6
  <2>8. \A j \in DOMAIN apps' : Sound(apps'[j])
    BY <2>3, <2>5, <2>6
  <2>9. {latest', published'} \subseteq Nat
    BY <1>1 DEF FInv
  <2> QED
    BY <2>1, <2>5, <2>7, <2>8, <2>9 DEF ChainGrows
<1> QED
  BY <1>2, <1>3

LEMMA ExecuteInforms ==
  ASSUME FInv, NEW c \in Calls, Execute(c)
  PROVE  Layer'
<1>1. /\ pc[c] = "built" /\ pc' = [pc EXCEPT ![c] = "executed"]
      /\ req' = req /\ appId' = appId /\ seen' = seen /\ estimate' = estimate /\ group' = group
  BY DEF Execute
<1>2. Functional /\ Informed(c) /\ ChainGrows
  BY ExecuteGrows DEF FInv, IInv
<1>3. pc'[c] = "executed" /\ \A d \in Calls \ {c} : pc'[d] = pc[d]
  BY <1>1, <1>2 DEF Functional
<1>4. \A d \in Calls \ {c} : Informed(d)'
  BY <1>1, <1>2, <1>3, StillInformed
<1>5. Informed(c)'
  <2>1. SeenOk(seen[c])' /\ Estimated(c)' /\ appId'[c] \subseteq DOMAIN apps' /\ req'[c] \in Asks[c]
    BY <1>1, <1>2, <1>3 DEF Informed, SeenOk, Estimated, ChainGrows
  <2>2. PutInformed(c)' /\ GroupInformed(c)'
    BY <1>3 DEF PutInformed, PutAt, GroupInformed
  <2> QED
    BY <2>1, <2>2 DEF Informed
<1> QED
  BY <1>1, <1>2, <1>4, <1>5 DEF FInv, Layer, ChainGrows

\* A step of no call.
LEMMA OthersInform ==
  ASSUME FInv,
         \/ Release \/ UNCHANGED vars
         \/ \E i \in DOMAIN apps : \E b \in OrdersIn(apps[i]) :
              \E k \in 1 .. apps[i].orders[b].left : Fill(i, b, k)
  PROVE  Layer'
<1>1. /\ pc' = pc /\ req' = req /\ appId' = appId
      /\ seen' = seen /\ group' = group /\ estimate' = estimate
  BY DEF Release, Fill, vars, chainVars
<1>2. ChainGrows
  <2>1. CASE Release \/ UNCHANGED vars
    <3>1. entry' = entry /\ apps' = apps /\ {latest', published'} \subseteq Nat
      BY <2>1 DEF Release, vars, chainVars, FInv
    <3> QED
      BY <3>1, SameChainGrows
  <2>2. ASSUME NEW i \in DOMAIN apps, NEW b \in OrdersIn(apps[i]),
               NEW k \in 1 .. apps[i].orders[b].left, Fill(i, b, k)
        PROVE  ChainGrows
    <3> DEFINE x == Filled(apps[i], b, k)
    <3>1. /\ apps' = [apps EXCEPT ![i] = x] /\ entry' = entry
          /\ latest' = latest /\ published' = published
      BY <2>2 DEF Fill
    <3>2. Sound(x) /\ Grown(apps[i], x)
      BY FilledIsSound DEF FInv, OrdersIn
    <3> HIDE DEF x
    <3> QED
      BY <3>1, <3>2, OneAppGrows
  <2> QED
    BY <2>1, <2>2
<1>3. \A c \in Calls : Informed(c)'
  BY <1>1, <1>2, StillInformed
<1> QED
  BY <1>1, <1>2, <1>3 DEF FInv, Layer, ChainGrows

LEMMA InitInforms == Init => FInv
<1> SUFFICES ASSUME Init  PROVE FInv
  OBVIOUS
<1>1. PICK start \in Starts : entry = start.entry /\ apps = start.apps
  BY DEF Init
<1>2. /\ pc = [c \in Calls |-> "new"] /\ req = [c \in Calls |-> None]
      /\ appId = [c \in Calls |-> {}] /\ seen = [c \in Calls |-> Unread]
      /\ estimate = [c \in Calls |-> {}] /\ latest = 1 /\ published = 1
  BY DEF Init
<1>3. \A i \in DOMAIN apps : Sound(apps[i])
  BY <1>1, EarlierAssumption DEF Sound
<1>4. SeenOk(Unread) /\ Unread.estimatedFor = {}
  BY DEF SeenOk, Unread
<1>5. ASSUME NEW c \in Calls
      PROVE  Informed(c)
  <2>1. pc[c] = "new" /\ appId[c] = {} /\ seen[c] = Unread
    BY <1>2
  <2> QED
    BY <1>4, <2>1 DEF Informed, PutInformed, PutAt, Estimated, GroupInformed
<1> QED
  BY <1>2, <1>3, <1>5, InitEstablishes DEF FInv

THEOREM FInvInductive == FInv /\ [Next]_vars => FInv'
<1> SUFFICES ASSUME FInv, [Next]_vars  PROVE FInv'
  OBVIOUS
<1>1. IInv'
  BY IInvInductive DEF FInv
<1>2. Layer'
  <2>1. CASE \/ Release \/ UNCHANGED vars
             \/ \E i \in DOMAIN apps : \E b \in OrdersIn(apps[i]) :
                  \E k \in 1 .. apps[i].orders[b].left : Fill(i, b, k)
    BY <2>1, OthersInform
  <2>2. ASSUME NEW c \in Calls, NEW r \in Asks[c], Ask(c, r)
        PROVE  Layer'
    BY <2>2, AskInforms
  <2>3. ASSUME NEW c \in Calls, NEW failed \in BOOLEAN,
               \/ initializeOrderingClient(c, failed) \/ checkOrderAppAvailability(c, failed)
               \/ boxExists(c, failed) \/ entryBoxExists(c, failed)
        PROVE  Layer'
    BY <2>3, InitializeInforms, CheckAvailabilityInforms, BoxInforms, EntryInforms
  <2>4. ASSUME NEW c \in Calls, NEW failed \in SUBSET Assets, ReadOptIns(c, failed)
        PROVE  Layer'
    BY <2>4, OptInsInform
  <2>5. ASSUME NEW c \in Calls,
               \/ \E threw \in BOOLEAN, failed \in SUBSET Assets :
                    getPutTriggerOrderTransactionFee(c, threw, failed)
               \/ getOrderCount(c)
               \/ shouldUpdateOrderingApp(c) \/ getLatestOrderAppVersion(c)
               \/ CompareVersions(c) \/ Throw(c) \/ Refuse(c)
        PROVE  Layer'
    BY <2>5, EstimateInforms, CountInforms, VersionInforms, EndInforms
  <2>6. ASSUME NEW c \in Calls,
               PreparePut(c) \/ PrepareHandle(c) \/ PrepareProgram(c) \/ Execute(c)
        PROVE  Layer'
    BY <2>6, PreparePutInforms, PrepareHandleInforms, PrepareProgramInforms, ExecuteInforms
  <2> QED
    BY <2>1, <2>2, <2>3, <2>4, <2>5, <2>6 DEF Next
<1> QED
  BY <1>1, <1>2 DEF FInv, Layer

\* What a put pays and how many fees it covers.
LEMMA PutPays ==
  ASSUME FInv, NEW c \in Calls, pc[c] = "built", req[c].op = "put"
  PROVE  /\ group[c].pay \in Nat /\ group[c].fee \in Nat
         /\ ~seen[c].boxThere =>
              EstimatedFee(Cardinality(seen[c].optIns))
                  + calculateMinBalance(Cardinality(seen[c].optIns), "o")
                = group[c].fee + group[c].pay - group[c].lacking
                    - (BoxCost[req[c].kind] - BoxCost["o"])
<1> DEFINE n == Cardinality(seen[c].optIns)
           g == group[c]
           m == calculateMinBalance(n, req[c].kind)
           f == EstimatedFee(n)
           o == calculateMinBalance(n, "o")
           d == BoxCost[req[c].kind] - BoxCost["o"]
<1>1. PutGroup(c) /\ SeenOk(seen[c])
  BY DEF FInv, Informed, PutInformed, PutAt
<1>2. n \in Nat
  <2>1. seen[c].optIns \subseteq Assets
    BY <1>1 DEF SeenOk
  <2> QED
    BY <2>1, AssetAssumption, FS_Subset, FS_CardinalityType
<1>3. /\ g.lacking \in Nat /\ g.pay = (IF seen[c].boxThere THEN 0 ELSE g.lacking + m)
      /\ g.fee = ((IF seen[c].boxThere THEN 2 ELSE 3) + (IF n > 0 THEN 1 ELSE 0) + 2 + n) * Fee
  BY <1>1 DEF PutGroup
<1>4. f = (5 + n + (IF n > 0 THEN 1 ELSE 0)) * Fee
  BY DEF EstimatedFee
<1>5. req[c].kind \in Kinds
  BY PutIsAsked DEF Puts
<1>6. m \in Nat
  <2>1. BoxCost[req[c].kind] \in Nat /\ AssetCost \in Nat
    BY <1>5, CostAssumption
  <2>2. \A x, y, z \in Nat : x * y + z \in Nat
    OBVIOUS
  <2> QED
    BY <1>2, <2>1, <2>2 DEF calculateMinBalance
<1>7. Fee \in Nat
  BY CostAssumption
<1>8. seen[c].boxThere \in BOOLEAN
  BY <1>1 DEF SeenOk
<1> DEFINE k == (IF seen[c].boxThere THEN 2 ELSE 3) + (IF n > 0 THEN 1 ELSE 0) + 2 + n
<1>9. g.fee = k * Fee
  BY <1>3
<1>10. k \in Nat /\ (~seen[c].boxThere => k = 5 + n + (IF n > 0 THEN 1 ELSE 0))
  <2> HIDE DEF n
  <2>1. CASE seen[c].boxThere
    BY <1>2, <2>1
  <2>2. CASE ~seen[c].boxThere
    BY <1>2, <2>2
  <2> QED
    BY <2>1, <2>2
<1>11. o \in Int /\ d \in Int /\ o = m - d
  <2> DEFINE b == BoxCost[req[c].kind]
             t == BoxCost["o"]
             x == AssetCost * n
  <2>1. b \in Nat /\ t \in Nat /\ AssetCost \in Nat
    BY <1>5, CostAssumption DEF Kinds
  <2>2. x \in Nat
    <3>1. \A y, z \in Nat : y * z \in Nat
      OBVIOUS
    <3> QED
      BY <1>2, <2>1, <3>1
  <2>3. m = x + b /\ o = x + t /\ d = b - t
    BY DEF calculateMinBalance
  <2> HIDE DEF b, t, x, m, o, d
  <2> QED
    BY <2>1, <2>2, <2>3
<1>12. ~seen[c].boxThere => k * Fee = f
  <2>1. ~seen[c].boxThere => k = 5 + n + (IF n > 0 THEN 1 ELSE 0)
    BY <1>10
  <2> HIDE DEF k, f
  <2> QED
    BY <1>4, <2>1
<1> HIDE DEF k, f, m, n, o, d
<1>13. k * Fee \in Nat
  <2>1. \A x, y \in Nat : x * y \in Nat
    OBVIOUS
  <2> QED
    BY <1>7, <1>10, <2>1
<1>14. g.pay \in Nat /\ g.fee \in Nat
  BY <1>3, <1>6, <1>8, <1>9, <1>13
<1>15. ~seen[c].boxThere => g.fee + g.pay - g.lacking = f + m
  BY <1>3, <1>6, <1>9, <1>12, <1>13
<1>16. ~seen[c].boxThere => f + o = g.fee + g.pay - g.lacking - d
  <2>1. ~seen[c].boxThere => f \in Nat
    BY <1>12, <1>13
  <2> QED
    BY <1>3, <1>6, <1>11, <1>14, <1>15, <2>1
<1> QED
  BY <1>14, <1>16 DEF n, f, o, d

(***************************************************************************)
(* Applications, clients and groups stay of their types; in particular an  *)
(* application never holds less than nothing, and a put always pays        *)
(* something that can be paid.                                             *)
(***************************************************************************)
THEOREM OrdersTypeOK == Spec => []TypeOK
<1>1. FInv => TypeOK
  <2> SUFFICES ASSUME FInv  PROVE TypeOK
    OBVIOUS
  <2>1. entry \subseteq DOMAIN apps /\ {latest, published} \subseteq Nat
    BY DEF FInv, IInv, Created
  <2>2. \A i \in DOMAIN apps : IsOrderApp(apps[i])
    BY DEF FInv, Sound
  <2>3. \A c \in Calls : appId[c] \subseteq DOMAIN apps
    BY DEF FInv, Informed
  <2>4. \A c \in Calls :
          pc[c] = "built" /\ req[c].op = "put" => group[c].pay \in Nat /\ group[c].fee \in Nat
    BY PutPays
  <2> QED
    BY <2>1, <2>2, <2>3, <2>4 DEF TypeOK
<1> QED
  BY <1>1, InitInforms, FInvInductive, PTL DEF Spec

(***************************************************************************)
(* An application holds, of every asset, all it owes to its open orders,   *)
(* and of Algo the minimum balance it must keep besides, however puts,     *)
(* cancellations, claims, fills, updates and releases are interleaved and  *)
(* whatever was read before them and is stale.                             *)
(***************************************************************************)
THEOREM OrdersAreFunded == Spec => []OrdersFunded
<1>1. FInv => OrdersFunded
  BY DEF FInv, Sound, OrdersFunded
<1> QED
  BY <1>1, InitInforms, FInvInductive, PTL DEF Spec

(***************************************************************************)
(* The price foretold for an order, limit or recurring, is what its group  *)
(* takes besides the amount and what the application lacked, less what a   *)
(* recurring order's box costs more than a trigger order's, as long as it  *)
(* was foretold for the opt-ins the group makes and no box is there.       *)
(***************************************************************************)
THEOREM EstimateHolds == Spec => []EstimateIsCost
<1>1. FInv => EstimateIsCost
  <2> SUFFICES ASSUME FInv, NEW c \in Calls, pc[c] = "built", req[c].op = "put",
                      ~seen[c].boxThere, seen[c].estimatedFor = {seen[c].optIns}
               PROVE  estimate[c] = {group[c].fee + group[c].pay - group[c].lacking
                                       - (BoxCost[req[c].kind] - BoxCost["o"])}
    BY DEF EstimateIsCost
  <2> DEFINE e == EstimatedFee(Cardinality(seen[c].optIns))
                    + calculateMinBalance(Cardinality(seen[c].optIns), "o")
  <2>1. estimate[c] = {e}
    BY DEF FInv, Informed, Estimated
  <2>2. e = group[c].fee + group[c].pay - group[c].lacking - (BoxCost[req[c].kind] - BoxCost["o"])
    BY PutPays
  <2> HIDE DEF e
  <2> QED
    BY <2>1, <2>2
<1> QED
  BY <1>1, InitInforms, FInvInductive, PTL DEF Spec

\* Only a refusal refuses, and only an execution executes.
LEMMA EndedBy ==
  ASSUME FInv, [Next]_vars, NEW c \in Calls, pc[c] = "built", pc'[c] \in {"refused", "executed"}
  PROVE  IF pc'[c] = "refused" THEN Refuse(c) ELSE Execute(c)
<1>0. Functional
  BY DEF FInv, IInv
<1>1. pc'[c] # pc[c]
  OBVIOUS
<1>2. ~UNCHANGED vars /\ ~Release /\ ~ \E i, b, k : Fill(i, b, k)
  BY <1>1 DEF vars, Release, Fill
<1>3. ASSUME NEW d \in Calls, NEW x, pc' = [pc EXCEPT ![d] = x]
      PROVE  d = c /\ x = pc'[c]
  BY <1>0, <1>1, <1>3 DEF Functional
<1>4. ASSUME NEW d \in Calls, NEW r \in Asks[d], Ask(d, r)
      PROVE  FALSE
  <2>1. pc' = [pc EXCEPT ![d] = r.op] /\ pc[d] = "ready"
    BY <1>4 DEF Ask, Go
  <2> QED
    BY <1>3, <2>1
<1>5. ASSUME NEW d \in Calls, NEW failed \in BOOLEAN,
             \/ initializeOrderingClient(d, failed) \/ checkOrderAppAvailability(d, failed)
             \/ boxExists(d, failed) \/ entryBoxExists(d, failed)
      PROVE  FALSE
  <2>1. pc[d] # "built" /\ \E x : pc' = [pc EXCEPT ![d] = x]
    BY <1>5 DEF initializeOrderingClient, checkOrderAppAvailability, boxExists,
       entryBoxExists, Go
  <2> QED
    BY <1>3, <2>1
<1>6. ASSUME NEW d \in Calls,
             \/ getOrderCount(d) \/ \E failed \in SUBSET Assets : ReadOptIns(d, failed)
             \/ PreparePut(d) \/ PrepareHandle(d) \/ shouldUpdateOrderingApp(d)
             \/ CompareVersions(d) \/ getLatestOrderAppVersion(d) \/ PrepareProgram(d)
             \/ Throw(d)
      PROVE  FALSE
  <2>1. pc[d] # "built" /\ \E x : pc' = [pc EXCEPT ![d] = x]
    BY <1>6 DEF getOrderCount, ReadOptIns, PreparePut, PrepareHandle,
       shouldUpdateOrderingApp, CompareVersions, getLatestOrderAppVersion, PrepareProgram,
       Throw, Go
  <2> QED
    BY <1>3, <2>1
<1>7. ASSUME NEW d \in Calls, NEW threw \in BOOLEAN, NEW failed \in SUBSET Assets,
             getPutTriggerOrderTransactionFee(d, threw, failed)
      PROVE  FALSE
  BY <1>1, <1>7 DEF getPutTriggerOrderTransactionFee
<1>8. ASSUME NEW d \in Calls, Execute(d)
      PROVE  d = c /\ pc'[c] = "executed"
  <2>1. pc' = [pc EXCEPT ![d] = "executed"]
    BY <1>8 DEF Execute
  <2> QED
    BY <1>3, <2>1
<1>9. ASSUME NEW d \in Calls, Refuse(d)
      PROVE  d = c /\ pc'[c] = "refused"
  <2>1. pc' = [pc EXCEPT ![d] = "refused"]
    BY <1>9 DEF Refuse
  <2> QED
    BY <1>3, <2>1
<1>10. \E d \in Calls : Refuse(d) \/ Execute(d)
  BY <1>2, <1>4, <1>5, <1>6, <1>7 DEF Next
<1>11. "refused" # "executed"
  OBVIOUS
<1> QED
  BY <1>8, <1>9, <1>10, <1>11, Zenon

(***************************************************************************)
(* The user pays no minimum balance twice: a put leaves the application    *)
(* what it had to spare, or nothing where it lacked something, and besides *)
(* only the balance of opt-ins made in vain; however stale what was read   *)
(* for it is when the group executes.                                      *)
(***************************************************************************)
THEOREM NoneOverpaid == Spec => NeverPaidTwice
<1> DEFINE A == \A c \in Calls : pc[c] = "built" /\ pc'[c] = "executed" /\ req[c].op = "put" =>
       LET i == Only(appId[c])
           inVain == apps[i].optedIn \cap group[c].optIns
       IN  Surplus(apps'[i]) = AtLeast0(Surplus(apps[i])) + AssetCost * Cardinality(inVain)
<1>1. FInv /\ [Next]_vars => A
  <2> SUFFICES ASSUME FInv, [Next]_vars, NEW c \in Calls,
                      pc[c] = "built", pc'[c] = "executed", req[c].op = "put"
               PROVE  Surplus(apps'[Only(appId[c])])
                        = AtLeast0(Surplus(apps[Only(appId[c])]))
                            + AssetCost * Cardinality(apps[Only(appId[c])].optedIn
                                                        \cap group[c].optIns)
    OBVIOUS
  <2> DEFINE g == group[c]
             i == Only(appId[c])
  <2>1. Execute(c)
    <3>1. "executed" # "refused"
      OBVIOUS
    <3> QED
      BY <3>1, EndedBy
  <2>2. g.op = "put" /\ g.app = i /\ i \in DOMAIN apps /\ AppOf(c) = apps[i]
    BY PutHasApp, AppIsThere DEF PutAt, AppOf
  <2>3. Informed(c)
    BY DEF FInv
  <2>4. seen[c].count = AppOf(c).count
    <3>1. g.box = Box(g.kind, AppOf(c).count)
      BY <2>1, <2>2 DEF Execute, Executable
    <3>2. g.box = Box(req[c].kind, seen[c].count)
      BY <2>3 DEF Informed, PutInformed, PutAt, PutGroup, OrderBox
    <3> QED
      BY <3>1, <3>2 DEF Box
  <2>5. SparesAsBefore(apps[i], g)
    BY <2>2, <2>4, PutFits
  <2>6. apps' = [apps EXCEPT ![i] = AppAfter(g)] /\ AppAfter(g) = WithOrder(apps[i], g)
    BY <2>1, <2>2 DEF Execute, AppAfter
  <2>7. apps'[i] = WithOrder(apps[i], g)
    BY <2>2, <2>6
  <2> QED
    BY <2>5, <2>7, Zenon DEF SparesAsBefore
<1>2. FInv /\ [Next]_vars => [A]_vars
  BY <1>1
<1>3. Init => FInv
  BY InitInforms
<1>4. FInv /\ [Next]_vars => FInv'
  BY FInvInductive
<1> HIDE DEF A
<1>5. Spec => [][A]_vars
  BY <1>2, <1>3, <1>4, PTL DEF Spec
<1> QED
  BY <1>5 DEF A, NeverPaidTwice

(***************************************************************************)
(* The chain refuses a put only when another one came first, a             *)
(* cancellation or a claim only when the order is gone, and a program only *)
(* when it is not of the version it was prepared for: no read that was     *)
(* overtaken otherwise, and none that failed and was taken for an answer,  *)
(* leaves a group the application cannot execute.                          *)
(***************************************************************************)
THEOREM RefusedOnlyWhenMoved == Spec => RefusedOnlyIfMoved
<1> DEFINE A == \A c \in Calls : pc[c] = "built" /\ pc'[c] = "refused" =>
       CASE req[c].op = "put" -> AppOf(c).count # seen[c].count
         [] req[c].op \in {"cancel", "claim"} ->
              Box(req[c].kind, req[c].id) \notin OrdersIn(AppOf(c))
         [] OTHER -> group[c].program # group[c].version
<1>1. FInv /\ [Next]_vars => A
  <2> SUFFICES ASSUME FInv, [Next]_vars, NEW c \in Calls, pc[c] = "built", pc'[c] = "refused"
               PROVE  CASE req[c].op = "put" -> AppOf(c).count # seen[c].count
                        [] req[c].op \in {"cancel", "claim"} ->
                             Box(req[c].kind, req[c].id) \notin OrdersIn(AppOf(c))
                        [] OTHER -> group[c].program # group[c].version
    OBVIOUS
  <2> DEFINE g == group[c]
  <2>1. ~Executable(g)
    BY EndedBy DEF Refuse
  <2>2. OnItsWay(c) /\ Informed(c) /\ g.op = req[c].op
    BY DEF FInv, IInv, OnItsWay
  <2>3. g.op = "create" \/
          /\ g.op \in {"put", "cancel", "claim", "update"}
          /\ appId[c] # {} /\ AppOf(c) = apps[g.app] /\ Sound(apps[g.app])
    BY <2>2, AppIsThere DEF OnItsWay, AppOf
  <2>4. CASE g.op = "put"
    <3> SUFFICES ASSUME AppOf(c).count = seen[c].count  PROVE FALSE
      BY <2>2, <2>4
    <3>1. /\ Sound(WithOrder(apps[g.app], g)) /\ WithOrder(apps[g.app], g).count > 0
          /\ g.box = Box(g.kind, apps[g.app].count)
          /\ {g.asset, g.target} \subseteq {Algo} \cup apps[g.app].optedIn \cup g.optIns
      BY <2>2, <2>3, <2>4, PutFits
    <3>2. AppAfter(g) = WithOrder(apps[g.app], g)
      BY <2>4 DEF AppAfter
    <3>3. Solvent(AppAfter(g))
      BY <3>1, <3>2, SoundIsSolvent
    <3> QED
      BY <2>1, <2>4, <3>1, <3>3 DEF Executable
  <2>5. CASE g.op \in {"cancel", "claim"}
    <3> SUFFICES ASSUME Box(req[c].kind, req[c].id) \in OrdersIn(AppOf(c))  PROVE FALSE
      BY <2>2, <2>5
    <3>1. g.box \in DOMAIN apps[g.app].orders
      BY <2>2, <2>3, <2>5 DEF Informed, GroupInformed, OrdersIn
    <3>2. Sound(Without(apps[g.app], g.box)) /\ Without(apps[g.app], g.box).count > 0
      BY <2>3, <2>5, <3>1, CancelledIsSound
    <3>3. Sound(Claimed(apps[g.app], g.box)) /\ Claimed(apps[g.app], g.box).count > 0
      BY <2>3, <2>5, <3>1, ClaimedIsSound
    <3>4. AppAfter(g) \in {Without(apps[g.app], g.box), Claimed(apps[g.app], g.box)}
      BY <2>5 DEF AppAfter
    <3>5. Solvent(AppAfter(g))
      BY <3>2, <3>3, <3>4, SoundIsSolvent
    <3> QED
      BY <2>1, <2>5, <3>1, <3>5 DEF Executable, OrdersIn
  <2>6. CASE g.op = "update"
    <3>1. g.program # g.version
      BY <2>1, <2>6 DEF Executable
    <3> QED
      BY <2>2, <2>6, <3>1
  <2>7. CASE g.op = "create"
    <3>1. g.paysEntry = ~seen[c].boxThere /\ (seen[c].boxThere => entry # {})
      BY <2>2, <2>7 DEF Informed, GroupInformed
    <3>2. g.program # g.version
      BY <2>1, <2>7, <3>1 DEF Executable
    <3> QED
      BY <2>2, <2>7, <3>2
  <2> QED
    BY <2>3, <2>4, <2>5, <2>6, <2>7
<1>2. FInv /\ [Next]_vars => [A]_vars
  BY <1>1
<1>3. Init => FInv
  BY InitInforms
<1>4. FInv /\ [Next]_vars => FInv'
  BY FInvInductive
<1> HIDE DEF A
<1>5. Spec => [][A]_vars
  BY <1>2, <1>3, <1>4, PTL DEF Spec
<1> QED
  BY <1>5 DEF A, RefusedOnlyIfMoved
=============================================================================
