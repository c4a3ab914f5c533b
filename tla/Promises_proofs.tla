-------------------------- MODULE Promises_proofs --------------------------
(***************************************************************************)
(* Proofs about the two places where the SDK waits for several promises at *)
(* once.  Submission, for any items and any numbers of groups: its types,  *)
(* that groups leave in order, and that a resolved redeemAllExcessAsset    *)
(* has every group in the chain.  SwapQuotes, for any pools, amounts, fee  *)
(* and router: its types, that the two rounds pick the best quote of the   *)
(* three sources, and that an error caused by the amount is the one        *)
(* reported.                                                               *)
(***************************************************************************)
EXTENDS Submission, SwapQuotes, AmmMath_proofs, SequenceTheorems
-----------------------------------------------------------------------------
(* Submissions.                                                             *)

\* The confirmed groups of item i when n of them are.
FirstGroups(i, n) == [k \in 1 .. n |-> <<i, k>>]

\* How far an item is, and what that says of its groups and of its response.
ItemOK(i) ==
  /\ \A k \in 1 .. GroupCount[i] :
       /\ k < at[i] => node[<<i, k>>] = "confirmed"
       /\ k > at[i] => node[<<i, k>>] = "unsent"
  /\ stage[i] \in {"idle", "sending"} => node[Current(i)] = "unsent"
  /\ stage[i] = "resolved" =>
       /\ at[i] = GroupCount[i]
       /\ node[Current(i)] = "confirmed"
       /\ response[i] = FirstGroups(i, GroupCount[i])
  /\ stage[i] # "resolved" => response[i] = FirstGroups(i, at[i] - 1)

BatchOK ==
  /\ batch = "signing" => \A i \in Items : stage[i] = "idle"
  /\ batch = "resolved" =>
       value = response /\ \A i \in Items : stage[i] = "resolved"

SubmissionInv ==
  /\ SubmissionTypeOK
  /\ at = [i \in Items |-> at[i]]
  /\ response = [i \in Items |-> response[i]]
  /\ \A i \in Items : ItemOK(i)
  /\ BatchOK

LEMMA TxnsOf ==
  ASSUME NEW i \in Items, NEW k \in 1 .. GroupCount[i]
  PROVE  <<i, k>> \in Txns
  BY DEF Txns

LEMMA TxnParts ==
  ASSUME NEW t \in Txns
  PROVE  t[1] \in Items /\ t[2] \in 1 .. GroupCount[t[1]] /\ t = <<t[1], t[2]>>
  BY DEF Txns

LEMMA Counts ==
  ASSUME NEW i \in Items
  PROVE  GroupCount[i] \in Nat \ {0}
  BY GroupCountAssumption

\* One more confirmed group.
LEMMA AppendNext ==
  ASSUME NEW i, NEW n \in Nat
  PROVE  Append(FirstGroups(i, n), <<i, n + 1>>) = FirstGroups(i, n + 1)
<1>1. FirstGroups(i, n) \in Seq({i} \X Nat) /\ Len(FirstGroups(i, n)) = n
  BY DEF FirstGroups
<1> QED
  BY <1>1 DEF FirstGroups

LEMMA SubmissionInvAtFirst == SubmissionInit => SubmissionInv
<1> SUFFICES ASSUME SubmissionInit  PROVE SubmissionInv
  OBVIOUS
<1>1. SubmissionTypeOK
  BY Counts DEF SubmissionInit, SubmissionTypeOK, NoValue
<1>2. ASSUME NEW i \in Items
      PROVE  ItemOK(i)
  <2>1. <<>> = FirstGroups(i, 0)
    BY DEF FirstGroups
  <2>2. \A k \in 1 .. GroupCount[i] : node[<<i, k>>] = "unsent"
    BY TxnsOf DEF SubmissionInit
  <2> QED
    BY <2>1, <2>2, Counts DEF SubmissionInit, ItemOK, Current
<1> QED
  BY <1>1, <1>2 DEF SubmissionInit, SubmissionInv, BatchOK

\* A step of the network on one group, which it has received.
LEMMA NetworkStep ==
  ASSUME SubmissionInv, NEW t \in Txns, Deciding(t) \/ Forget(t)
  PROVE  SubmissionInv'
<1> USE DEF SubmissionInv, itemVars, batchVars
<1>1. /\ node[t] \in {"pooled", "rejected"}
      /\ \E w \in {"confirmed", "rejected", "forgotten"} : node' = [node EXCEPT ![t] = w]
      /\ UNCHANGED <<stage, at, response, batch, value>>
  BY DEF Deciding, Confirm, PoolError, Forget
<1>2. SubmissionTypeOK'
  BY <1>1 DEF SubmissionTypeOK
<1>3. ASSUME NEW i \in Items
      PROVE  ItemOK(i)'
  <2>1. ItemOK(i) /\ at[i] \in 1 .. GroupCount[i] /\ GroupCount[i] \in Nat \ {0}
    BY Counts DEF SubmissionTypeOK
  <2>2. \A k \in 1 .. GroupCount[i] :
          node[<<i, k>>] \in {"confirmed", "unsent"} => node'[<<i, k>>] = node[<<i, k>>]
    BY <1>1, TxnsOf DEF SubmissionTypeOK
  <2> QED
    BY <1>1, <2>1, <2>2 DEF ItemOK, Current
<1>4. BatchOK'
  BY <1>1 DEF BatchOK
<1> QED
  BY <1>1, <1>2, <1>3, <1>4

\* A send, or a rejection: item i's current group may reach the node.
LEMMA SendStep ==
  ASSUME SubmissionInv, NEW i \in Items, Submitting(i) \/ SeeRejected(i)
  PROVE  SubmissionInv'
<1> USE DEF SubmissionInv, batchVars
<1> DEFINE t == Current(i)
<1>0. t \in Txns /\ at[i] \in 1 .. GroupCount[i] /\ GroupCount[i] \in Nat \ {0}
  BY TxnsOf, Counts DEF SubmissionTypeOK, Current
<1>1. /\ stage[i] \in {"sending", "waiting"}
      /\ node' \in {node, [node EXCEPT ![t] = "pooled"]}
      /\ \E s \in {"waiting", "rejected"} :
           /\ stage' = [stage EXCEPT ![i] = s]
           /\ s = "rejected" \/ stage[i] = "sending"
      /\ batch' \in {batch, "rejected"}
      /\ batch = "resolved" => batch' = "resolved"
      /\ UNCHANGED <<at, response, value>>
  BY DEF Submitting, Send, SendFails, SeeRejected, RejectItem
<1>2. SubmissionTypeOK'
  BY <1>0, <1>1 DEF SubmissionTypeOK, Ended
<1>3. ASSUME NEW j \in Items
      PROVE  ItemOK(j)'
  <2>1. /\ ItemOK(j) /\ at[j] \in 1 .. GroupCount[j] /\ GroupCount[j] \in Nat \ {0}
    BY Counts DEF SubmissionTypeOK
  <2>2. ASSUME NEW k \in 1 .. GroupCount[j], j # i \/ k # at[j]
        PROVE  node'[<<j, k>>] = node[<<j, k>>]
    BY <1>0, <1>1, <2>2, TxnsOf DEF SubmissionTypeOK, Current
  <2>3. CASE j = i
    <3>1. stage'[i] \in {"waiting", "rejected"} /\ stage[i] # "resolved"
      BY <1>1 DEF SubmissionTypeOK
    <3>2. \A k \in 1 .. GroupCount[i] : k # at[i] => node'[<<i, k>>] = node[<<i, k>>]
      BY <2>2, <2>3
    <3> QED
      BY <1>1, <2>1, <2>3, <3>1, <3>2 DEF ItemOK
  <2>4. CASE j # i
    BY <1>0, <1>1, <2>1, <2>2, <2>4 DEF ItemOK, Current, SubmissionTypeOK
  <2> QED
    BY <2>3, <2>4
<1>4. BatchOK'
  BY <1>1 DEF BatchOK, SubmissionTypeOK
<1> QED
  BY <1>1, <1>2, <1>3, <1>4

\* A confirmation: the next group, or the end of the submission.
LEMMA ConfirmedStep ==
  ASSUME SubmissionInv, NEW i \in Items, SeeConfirmed(i)
  PROVE  SubmissionInv'
<1> USE DEF SubmissionInv, batchVars
<1>0. /\ at[i] \in 1 .. GroupCount[i] /\ GroupCount[i] \in Nat \ {0}
      /\ stage[i] = "waiting" /\ node[Current(i)] = "confirmed" /\ node' = node
      /\ ItemOK(i)
  BY Counts DEF SubmissionTypeOK, SeeConfirmed, IsConfirmed
<1>1. /\ response' = [response EXCEPT ![i] = FirstGroups(i, at[i])]
      /\ response'[i] \in Seq(Txns)
  <2>1. response[i] = FirstGroups(i, at[i] - 1) /\ at[i] - 1 \in Nat
    BY <1>0 DEF ItemOK
  <2>2. Append(response[i], Current(i)) = FirstGroups(i, at[i])
    BY <1>0, <2>1, AppendNext DEF Current
  <2>3. response' = [response EXCEPT ![i] = FirstGroups(i, at[i])]
    BY <2>2 DEF SeeConfirmed
  <2>4. FirstGroups(i, at[i]) \in Seq(Txns)
    <3>1. \A k \in 1 .. at[i] : <<i, k>> \in Txns
      BY <1>0, TxnsOf
    <3> QED
      BY <1>0, <3>1 DEF FirstGroups
  <2> QED
    BY <2>3, <2>4
<1>2. CASE HasMoreGroups(i)
  <2>1. /\ at[i] < GroupCount[i]
        /\ at' = [at EXCEPT ![i] = @ + 1]
        /\ stage' = [stage EXCEPT ![i] = "sending"]
        /\ UNCHANGED <<batch, value>>
    BY <1>2 DEF SeeConfirmed, HasMoreGroups
  <2>2. SubmissionTypeOK'
    BY <1>0, <1>1, <2>1 DEF SubmissionTypeOK
  <2>3. ItemOK(i)'
    <3>1. at'[i] = at[i] + 1 /\ stage'[i] = "sending"
      BY <2>1 DEF SubmissionTypeOK
    <3>2. response'[i] = FirstGroups(i, at'[i] - 1)
      BY <1>0, <1>1, <3>1
    <3>3. \A k \in 1 .. GroupCount[i] :
            /\ k < at[i] + 1 => node[<<i, k>>] = "confirmed"
            /\ k >= at[i] + 1 => node[<<i, k>>] = "unsent"
      BY <1>0 DEF ItemOK, Current
    <3> QED
      BY <1>0, <2>1, <3>1, <3>2, <3>3 DEF ItemOK, Current
  <2>4. ASSUME NEW j \in Items \ {i}
        PROVE  ItemOK(j)'
    <3>1. at'[j] = at[j] /\ stage'[j] = stage[j] /\ response'[j] = response[j]
      BY <1>1, <2>1 DEF SubmissionTypeOK
    <3> QED
      BY <1>0, <3>1 DEF ItemOK, Current
  <2>5. BatchOK'
    BY <1>0, <2>1 DEF BatchOK
  <2> QED
    BY <1>1, <2>1, <2>2, <2>3, <2>4, <2>5
<1>3. CASE ~HasMoreGroups(i)
  <2>1. /\ at[i] = GroupCount[i] /\ at' = at
        /\ stage' = [stage EXCEPT ![i] = "resolved"]
        /\ \/ /\ \A j \in Items : stage'[j] = "resolved"
              /\ batch' = "resolved" /\ value' = response'
           \/ UNCHANGED <<batch, value>>
    BY <1>0, <1>3 DEF SeeConfirmed, HasMoreGroups, AllResolved
  <2>2. SubmissionTypeOK'
    BY <1>0, <1>1, <2>1 DEF SubmissionTypeOK, Ended
  <2>3. ItemOK(i)'
    BY <1>0, <1>1, <2>1 DEF ItemOK, Current, SubmissionTypeOK
  <2>4. ASSUME NEW j \in Items \ {i}
        PROVE  ItemOK(j)'
    BY <1>0, <1>1, <2>1 DEF ItemOK, Current, SubmissionTypeOK
  <2>5. BatchOK'
    BY <1>0, <2>1 DEF BatchOK
  <2> QED
    BY <1>1, <2>1, <2>2, <2>3, <2>4, <2>5
<1> QED
  BY <1>2, <1>3

\* The signer's answer.
LEMMA SignStep ==
  ASSUME SubmissionInv, Sign \/ SignFails
  PROVE  SubmissionInv'
<1> USE DEF SubmissionInv, itemVars
<1>1. CASE Sign
  <2>1. SubmissionTypeOK' /\ BatchOK'
    BY <1>1 DEF Sign, SubmissionTypeOK, BatchOK
  <2>2. ASSUME NEW i \in Items
        PROVE  ItemOK(i)'
    BY <1>1 DEF Sign, ItemOK, Current, BatchOK
  <2> QED
    BY <1>1, <2>1, <2>2 DEF Sign
<1>2. CASE SignFails
  BY <1>2 DEF SignFails, SubmissionTypeOK, Ended, BatchOK, ItemOK, Current
<1> QED
  BY <1>1, <1>2
-----------------------------------------------------------------------------
THEOREM SubmissionInvInductive ==
  SubmissionInv /\ [SubmissionNext]_submissionVars => SubmissionInv'
<1> SUFFICES ASSUME SubmissionInv, [SubmissionNext]_submissionVars  PROVE SubmissionInv'
  OBVIOUS
<1>1. CASE UNCHANGED submissionVars
  BY <1>1 DEF submissionVars, itemVars, batchVars, SubmissionInv, SubmissionTypeOK, ItemOK,
     BatchOK, Current
<1>2. CASE SubmissionNext
  BY <1>2, SignStep, SendStep, ConfirmedStep, NetworkStep DEF SubmissionNext, Polling
<1> QED
  BY <1>1, <1>2

THEOREM SubmissionInvHolds == SubmissionSpec => []SubmissionInv
  BY SubmissionInvAtFirst, SubmissionInvInductive, PTL DEF SubmissionSpec

\* SubmissionTypeOK, in particular that no submission goes past its last group.
THEOREM SubmissionTypeCorrect == SubmissionSpec => []SubmissionTypeOK
<1>1. SubmissionInv => SubmissionTypeOK
  BY DEF SubmissionInv
<1> QED
  BY <1>1, SubmissionInvHolds, PTL

(***************************************************************************)
(* ResolvedMeansConfirmed: a resolved redeemAllExcessAsset has every group *)
(* of every item in the chain and reports exactly these.                   *)
(***************************************************************************)
THEOREM ResolvedIsConfirmed == SubmissionSpec => []ResolvedMeansConfirmed
<1>1. SubmissionInv => ResolvedMeansConfirmed
  <2> SUFFICES ASSUME SubmissionInv, batch = "resolved"
               PROVE  /\ \A t \in Txns : node[t] = "confirmed"
                      /\ \A i \in Items : value[i] = FirstGroups(i, GroupCount[i])
    BY DEF ResolvedMeansConfirmed, FirstGroups
  <2>1. ASSUME NEW t \in Txns
        PROVE  node[t] = "confirmed"
    <3>1. PICK i \in Items : \E k \in 1 .. GroupCount[i] : t = <<i, k>>
      BY TxnParts
    <3>2. ItemOK(i) /\ stage[i] = "resolved" /\ GroupCount[i] \in Nat \ {0}
      BY Counts DEF SubmissionInv, BatchOK
    <3> QED
      BY <3>1, <3>2 DEF ItemOK, Current
  <2>2. ASSUME NEW i \in Items
        PROVE  value[i] = FirstGroups(i, GroupCount[i])
    BY DEF SubmissionInv, BatchOK, ItemOK
  <2> QED
    BY <2>1, <2>2
<1> QED
  BY <1>1, SubmissionInvHolds, PTL

(***************************************************************************)
(* SentInOrder: no group reaches the node before the ones it follows are   *)
(* in the chain.                                                           *)
(***************************************************************************)
THEOREM GroupsLeaveInOrder == SubmissionSpec => SentInOrder
<1> DEFINE InOrder == \A t \in Txns : node[t] = "unsent" /\ node'[t] # "unsent" =>
                        \A k \in 1 .. (t[2] - 1) : node[<<t[1], k>>] = "confirmed"
<1>1. SubmissionInv /\ [SubmissionNext]_submissionVars => [InOrder]_node
  <2> SUFFICES ASSUME SubmissionInv, [SubmissionNext]_submissionVars, NEW t \in Txns,
                      node[t] = "unsent", node'[t] # "unsent",
                      NEW k \in 1 .. (t[2] - 1)
               PROVE  node[<<t[1], k>>] = "confirmed"
    OBVIOUS
  <2>1. PICK i \in Items : t = Current(i)
    <3>1. CASE \E i \in Items : Submitting(i)
      BY <3>1 DEF Submitting, Send, SendFails, SubmissionInv, SubmissionTypeOK
    <3>2. CASE \E u \in Txns : Deciding(u) \/ Forget(u)
      BY <3>2 DEF Deciding, Confirm, PoolError, Forget, SubmissionInv, SubmissionTypeOK
    <3> QED
      BY <3>1, <3>2 DEF submissionVars, SubmissionNext, Sign, SignFails, Polling, SeeConfirmed,
         SeeRejected
  <2>2. t[1] = i /\ t[2] = at[i] /\ at[i] \in 1 .. GroupCount[i]
    BY <2>1 DEF Current, SubmissionInv, SubmissionTypeOK
  <2> QED
    BY <2>2, Counts DEF SubmissionInv, ItemOK
<1> QED
  BY <1>1, SubmissionInvHolds, PTL DEF SubmissionSpec, SentInOrder
-----------------------------------------------------------------------------
(* Quotes.                                                                  *)

\* A quote whose rate is a number or Infinity, never NaN.
Comparable(q) == q.in = 0 => q.out > 0

RoundsSettled ==
  /\ ~IsPending(v2) => ~IsPending(direct) /\ ~IsPending(router)
  /\ ~IsPending(v2) => v2 = Settle(direct, router)
  /\ ~IsPending(result) => ~IsPending(v11) /\ ~IsPending(v2)
  /\ ~IsPending(result) => result = Settle(v11, v2)

\* A failure that does not come of a division by zero.
KnownFailure(p) == IsRejected(p) => p.reason # "RangeError"

IInv ==
  /\ TypeOK
  /\ \A p \in Sources : IsFulfilled(p) => Comparable(p.value)
  /\ KnownFailure(router)
  /\ RoundsSettled
  /\ request = NoRequest => \A p \in Sources \cup {v2, result} : IsPending(p)
-----------------------------------------------------------------------------
(* The order of the rates.                                                  *)

(***************************************************************************)
(* Losing to no one carries over from one round to the next, as long as no *)
(* rate is NaN.                                                            *)
(***************************************************************************)
LEMMA NotHigherTransitive ==
  ASSUME NEW a \in Quotes, NEW b \in Quotes, NEW c \in Quotes,
         Comparable(a), Comparable(b),
         ~HigherRate(b, a), ~HigherRate(c, b)
  PROVE  ~HigherRate(c, a)
<1> DEFINE ai == a.in  bi == b.in  ci == c.in
           ao == a.out bo == b.out co == c.out
<1>1. /\ ai \in Nat /\ bi \in Nat /\ ci \in Nat
      /\ ao \in Int /\ bo \in Int /\ co \in Int
  BY DEF Quotes
<1>2. /\ ai = 0 => ao > 0
      /\ bi = 0 => bo > 0
      /\ ~(bo * ai > ao * bi)
      /\ ~(co * bi > bo * ci)
  BY DEF Comparable, HigherRate
<1> SUFFICES co * ai <= ao * ci
  <2>1. co * ai \in Int /\ ao * ci \in Int
    BY <1>1, Z3
  <2> QED
    BY <2>1 DEF HigherRate
<1> HIDE DEF ai, bi, ci, ao, bo, co
<1>3. CASE bi = 0
  <2>1. ai = 0
    BY <1>1, <1>2, <1>3, Z3
  <2>2. ao > 0
    BY <1>2, <2>1
  <2>3. ao * ci >= 0 /\ co * ai = 0
    BY <1>1, <2>1, <2>2, Z3
  <2> QED
    BY <2>3
<1>4. CASE bi > 0
  <2> SUFFICES ASSUME co * ai > ao * ci  PROVE FALSE
    BY <1>1, Z3
  <2>1. (co * ai) * bi > (ao * ci) * bi
    BY <1>1, <1>4, Z3
  <2>2. (co * bi) * ai <= (bo * ci) * ai
    BY <1>1, <1>2, Z3
  <2>3. (bo * ai) * ci <= (ao * bi) * ci
    BY <1>1, <1>2, Z3
  <2>4. /\ (co * ai) * bi = (co * bi) * ai
        /\ (bo * ci) * ai = (bo * ai) * ci
        /\ (ao * bi) * ci = (ao * ci) * bi
    BY <1>1, Z3
  <2>5. /\ (co * ai) * bi \in Int /\ (ao * ci) * bi \in Int
        /\ (bo * ci) * ai \in Int
    BY <1>1, Z3
  <2> QED
    BY <2>1, <2>2, <2>3, <2>4, <2>5
<1> QED
  BY <1>1, <1>3, <1>4
-----------------------------------------------------------------------------
(* What each source may come to.                                            *)

Settled(p) == p \in Promises /\ ~IsPending(p)

\* What IInv asks of a source's promise, for the request it answers.
GoodOffer(p) == Settled(p) /\ (IsFulfilled(p) => Comparable(p.value))
GoodPoolOffer(p, r) ==
  /\ GoodOffer(p)
  /\ IsFulfilled(p) => /\ p.value.assetIn = r.assetIn
                       /\ p.value.assetOut = Other(r.assetIn)
                       /\ Given(r, p.value) = r.amount

LEMMA RejectedIsGood ==
  ASSUME NEW e \in Errors, NEW r
  PROVE  GoodPoolOffer(Rejected(e), r) /\ ~IsFulfilled(Rejected(e))
  BY DEF GoodPoolOffer, GoodOffer, Settled, Rejected, Promises, IsPending, IsFulfilled

\* The errors that a pool's quote fails with.
LEMMA PoolErrors ==
  ASSUME NEW r
  PROVE  /\ GoodPoolOffer(Rejected("NoAvailablePoolError"), r)
         /\ GoodPoolOffer(Rejected("AssetDoesNotBelongToPoolError"), r)
         /\ GoodPoolOffer(Rejected("OutputAmountExceedsAvailableLiquidityError"), r)
         /\ GoodPoolOffer(Rejected("RangeError"), r)
         /\ GoodPoolOffer(Rejected("LowSwapAmountError"), r)
<1>1. {"NoAvailablePoolError", "AssetDoesNotBelongToPoolError", "RangeError",
       "OutputAmountExceedsAvailableLiquidityError", "LowSwapAmountError"}
        \subseteq Errors
  BY DEF Errors
<1>2. \A e \in Errors : GoodPoolOffer(Rejected(e), r)
  BY RejectedIsGood
<1> QED
  BY <1>1, <1>2

LEMMA QuoteIsGood ==
  ASSUME NEW r \in Requests, NEW source \in {"v1.1", "v2", "router"},
         NEW in \in Nat, NEW out \in Int,
         IF r.type = "FixedInput" THEN in = r.amount ELSE out = r.amount
  PROVE  /\ GoodPoolOffer(Fulfilled(Quote(source, r, in, out)), r)
         /\ Fulfilled(Quote(source, r, in, out)).value.in = in
<1> DEFINE q == Quote(source, r, in, out)
<1>1. r.amount > 0 /\ r.assetIn \in Assets /\ Other(r.assetIn) \in Assets
  BY AmountAssumption DEF Requests, Assets, Pair, Other
<1>2. /\ q \in Quotes /\ q.in = in /\ q.out = out
      /\ q.assetIn = r.assetIn /\ q.assetOut = Other(r.assetIn)
  BY <1>1 DEF Quotes, Quote
<1>3. Comparable(q) /\ Given(r, q) = r.amount
  <2>1. CASE r.type = "FixedInput"
    BY <1>1, <1>2, <2>1 DEF Comparable, Given
  <2>2. CASE r.type # "FixedInput"
    BY <1>1, <1>2, <2>2 DEF Comparable, Given
  <2> QED
    BY <2>1, <2>2
<1> HIDE DEF q
<1>4. /\ Fulfilled(q) \in Promises /\ ~IsPending(Fulfilled(q))
      /\ Fulfilled(q).value = q
  BY <1>2 DEF Promises, Fulfilled, IsPending
<1> QED
  BY <1>2, <1>3, <1>4 DEF GoodPoolOffer, GoodOffer, Settled, q

LEMMA RequestFacts ==
  ASSUME NEW r \in Requests
  PROVE  /\ r.type \in SwapTypes /\ r.assetIn \in Pair
         /\ r.amount \in Nat \ {0}
  BY AmountAssumption DEF Requests

LEMMA Supplies ==
  ASSUME NEW r \in Requests, NEW pool \in PoolCopies
  PROVE  InSupply(r, pool) \in Nat /\ OutSupply(r, pool) \in Nat
  BY RequestFacts DEF InSupply, OutSupply, PoolCopies, Pair, Other

LEMMA V11IsGood ==
  ASSUME NEW r \in Requests, NEW pool \in V11Pools
  PROVE  GoodPoolOffer(V11Outcome(r, pool), r)
<1>1. CASE pool = NoPool
  BY <1>1, PoolErrors DEF V11Outcome
<1>2. CASE pool # NoPool /\ ~pool.ready
  BY <1>2, PoolErrors DEF V11Outcome
<1>3. CASE pool # NoPool /\ pool.ready /\ ~pool.held
  BY <1>3, PoolErrors DEF V11Outcome
<1>4. CASE pool # NoPool /\ pool.ready /\ pool.held
  <2>1. InSupply(r, pool) \in Nat /\ OutSupply(r, pool) \in Nat
    BY <1>4, PoolAssumption, Supplies
  <2>2. CASE r.type = "FixedInput"
    <3>1. V11FixedInputOut(InSupply(r, pool), OutSupply(r, pool), r.amount) \in Int
      BY <2>1, RequestFacts, V11FixedInputType
    <3>2. r.amount \in Nat
      BY RequestFacts
    <3> QED
      BY <1>4, <2>2, <3>1, <3>2, QuoteIsGood DEF V11Outcome
  <2>3. CASE r.type # "FixedInput" /\ r.amount < OutSupply(r, pool)
    <3>1. V11FixedOutputIn(InSupply(r, pool), OutSupply(r, pool), r.amount) \in Nat
      BY <2>1, <2>3, RequestFacts, V11FixedOutputType
    <3>2. r.amount \in Int /\ ~(r.amount > OutSupply(r, pool)) /\ r.amount # OutSupply(r, pool)
      BY <2>1, <2>3, RequestFacts
    <3> QED
      BY <1>4, <2>3, <3>1, <3>2, QuoteIsGood DEF V11Outcome
  <2>4. CASE r.type # "FixedInput" /\ r.amount > OutSupply(r, pool)
    BY <1>4, <2>4, PoolErrors DEF V11Outcome
  <2>5. CASE r.type # "FixedInput" /\ r.amount = OutSupply(r, pool)
    <3>1. ~(r.amount > OutSupply(r, pool))
      BY <2>1, <2>5
    <3> QED
      BY <1>4, <2>5, <3>1, PoolErrors DEF V11Outcome
  <2>6. \/ r.amount < OutSupply(r, pool) \/ r.amount > OutSupply(r, pool)
        \/ r.amount = OutSupply(r, pool)
    BY <2>1, RequestFacts
  <2> QED
    BY <2>2, <2>3, <2>4, <2>5, <2>6
<1> QED
  BY <1>1, <1>2, <1>3, <1>4

LEMMA DirectIsGood ==
  ASSUME NEW r \in Requests, NEW pool \in V2Pools
  PROVE  /\ GoodPoolOffer(DirectOutcome(r, pool), r)
         /\ IsFulfilled(DirectOutcome(r, pool)) =>
              DirectOutcome(r, pool).value.in >= MinSwapAssetInAmount
<1> DEFINE Good(p) == /\ GoodPoolOffer(p, r)
                      /\ IsFulfilled(p) => p.value.in >= MinSwapAssetInAmount
<1>1. /\ Good(Rejected("NoAvailablePoolError"))
      /\ Good(Rejected("AssetDoesNotBelongToPoolError"))
      /\ Good(Rejected("OutputAmountExceedsAvailableLiquidityError"))
      /\ Good(Rejected("RangeError"))
      /\ Good(Rejected("LowSwapAmountError"))
  BY PoolErrors DEF IsFulfilled, Rejected
<1>2. \A source \in {"v1.1", "v2", "router"}, in \in Nat, out \in Int :
        (IF r.type = "FixedInput" THEN in = r.amount ELSE out = r.amount)
        /\ in >= MinSwapAssetInAmount
        => Good(Fulfilled(Quote(source, r, in, out)))
  BY QuoteIsGood
<1> HIDE DEF Good
<1> SUFFICES Good(DirectOutcome(r, pool))
  BY DEF Good
<1>3. CASE pool = NoPool
  BY <1>1, <1>3 DEF DirectOutcome
<1>4. CASE pool # NoPool /\ ~pool.ready
  BY <1>1, <1>4 DEF DirectOutcome
<1>5. CASE pool # NoPool /\ pool.ready /\ ~pool.held
  BY <1>1, <1>5 DEF DirectOutcome
<1>6. CASE pool # NoPool /\ pool.ready /\ pool.held
  <2> DEFINE inS == InSupply(r, pool)
             outS == OutSupply(r, pool)
             in == FixedOutputIn(inS, outS, r.amount, FeeShare)
             out == FixedInputOut(inS, outS, r.amount, FeeShare)
  <2>1. inS \in Nat /\ outS \in Nat /\ r.amount \in Nat \ {0}
    BY <1>6, PoolAssumption, Supplies, RequestFacts
  <2>2. FeeShare \in Nat /\ FeeShare < 10000
    BY FeeAssumption
  <2>3. CASE r.type = "FixedInput"
    <3>1. FixedInputFee(r.amount, FeeShare) \in 0 .. r.amount - 1
      BY <2>1, <2>2, FixedInputFeeBounds
    <3>2. r.amount - FixedInputFee(r.amount, FeeShare) \in Nat \ {0}
      BY <2>1, <3>1
    <3>3. out \in Int
      BY <2>1, <3>2, FixedInputKeepsProduct DEF FixedInputOut
    <3> HIDE DEF out
    <3>4. DirectOutcome(r, pool) =
            IF IsSwapAssetInAmountLow(r.amount) THEN Rejected("LowSwapAmountError")
            ELSE Fulfilled(Quote("v2", r, r.amount, out))
      BY <1>6, <2>3 DEF DirectOutcome, out
    <3>5. IsSwapAssetInAmountLow(r.amount) \/ r.amount >= MinSwapAssetInAmount
      BY <2>1 DEF IsSwapAssetInAmountLow, MinSwapAssetInAmount
    <3>6. r.amount \in Nat
      BY <2>1
    <3> QED
      BY <1>1, <1>2, <2>3, <3>3, <3>4, <3>5, <3>6
  <2>4. r.type # "FixedInput" => r.type = "FixedOutput"
    BY RequestFacts DEF SwapTypes
  <2>5. CASE r.type = "FixedOutput" /\ r.amount > outS
    BY <1>1, <1>6, <2>5 DEF DirectOutcome
  <2>6. CASE r.type = "FixedOutput" /\ r.amount = outS
    <3>1. ~(r.amount > outS)
      BY <2>1, <2>6
    <3> QED
      BY <1>1, <1>6, <2>6, <3>1 DEF DirectOutcome
  <2>7. CASE r.type = "FixedOutput" /\ r.amount < outS
    <3>1. SwapAmountOfFixedOutput(inS, outS, r.amount) \in Nat
      BY <2>1, <2>7, FixedOutputKeepsProduct
    <3>2. FixedOutputFee(SwapAmountOfFixedOutput(inS, outS, r.amount), FeeShare) \in Nat
      BY <2>2, <3>1, FixedOutputFeeBounds
    <3>3. in \in Nat
      BY <3>1, <3>2 DEF FixedOutputIn
    <3>4. ~(r.amount > outS) /\ r.amount # outS
      BY <2>1, <2>7
    <3> HIDE DEF in
    <3>5. DirectOutcome(r, pool) =
            IF IsSwapAssetInAmountLow(in) THEN Rejected("LowSwapAmountError")
            ELSE Fulfilled(Quote("v2", r, in, r.amount))
      BY <1>6, <2>7, <3>4 DEF DirectOutcome, in
    <3>6. IsSwapAssetInAmountLow(in) \/ in >= MinSwapAssetInAmount
      BY <3>3 DEF IsSwapAssetInAmountLow, MinSwapAssetInAmount
    <3>7. r.amount \in Int /\ r.type # "FixedInput"
      BY <2>1, <2>7
    <3> QED
      BY <1>1, <1>2, <3>3, <3>5, <3>6, <3>7
  <2>8. r.amount < outS \/ r.amount = outS \/ r.amount > outS
    BY <2>1
  <2> QED
    BY <2>3, <2>4, <2>5, <2>6, <2>7, <2>8
<1> QED
  BY <1>3, <1>4, <1>5, <1>6

\* The router's errors, that of an amount it cannot divide by not among them.
LEMMA RouterIsGood ==
  ASSUME NEW r \in Requests, NEW a \in RouterAnswers
  PROVE  GoodOffer(RouterOutcome(r, a)) /\ KnownFailure(RouterOutcome(r, a))
<1>1. \A e \in RouterErrors \cup {"Network error"} :
        GoodOffer(Rejected(e)) /\ KnownFailure(Rejected(e))
  <2>1. RouterErrors \cup {"Network error"} \subseteq Errors
    BY DEF Errors
  <2> QED
    BY <2>1, RejectedIsGood DEF GoodPoolOffer, KnownFailure, Rejected, RouterErrors
<1>2. a \in RouterRoutes \/ a \in RouterFailures
  BY RouterAssumption
<1>3. CASE a \in RouterFailures
  <2>1. CASE a.kind = "unreachable"
    BY <1>1, <2>1 DEF RouterOutcome
  <2>2. CASE a.kind = "api error"
    <3>1. a.error \in RouterErrors
      BY <1>3, <2>2 DEF RouterFailures
    <3> QED
      BY <1>1, <2>2, <3>1 DEF RouterOutcome
  <2> QED
    BY <1>3, <2>1, <2>2 DEF RouterFailures
<1>4. CASE a \in RouterRoutes
  <2>1. a.kind = "route"
    BY <1>4 DEF RouterRoutes
  <2>2. CASE ~a.hasTxns
    BY <1>1, <2>1, <2>2 DEF RouterOutcome, RouterErrors
  <2>3. CASE a.hasTxns /\ ~MatchesRequest(a, r)
    BY <1>1, <2>1, <2>3 DEF RouterOutcome, RouterErrors
  <2>4. CASE a.hasTxns /\ MatchesRequest(a, r)
    <3> DEFINE q == [source |-> "router", assetIn |-> a.assetIn,
                     assetOut |-> a.assetOut, in |-> a.in, out |-> a.out]
    <3>1. q \in Quotes /\ q.in = a.in /\ q.out = a.out
      BY <1>4 DEF RouterRoutes, Quotes
    <3>2. r.amount = a.in \/ r.amount = a.out
      BY <2>4 DEF MatchesRequest
    <3>3. Comparable(q)
      BY <3>1, <3>2, RequestFacts DEF Comparable
    <3>4. RouterOutcome(r, a) = Fulfilled(q)
      BY <2>1, <2>4 DEF RouterOutcome
    <3> HIDE DEF q
    <3>5. /\ Fulfilled(q) \in Promises /\ ~IsPending(Fulfilled(q))
          /\ Fulfilled(q).value = q /\ ~IsRejected(Fulfilled(q))
      BY <3>1 DEF Promises, Fulfilled, IsPending, IsRejected
    <3> QED
      BY <3>3, <3>4, <3>5 DEF GoodOffer, Settled, KnownFailure
  <2> QED
    BY <2>2, <2>3, <2>4
<1> QED
  BY <1>2, <1>3, <1>4
-----------------------------------------------------------------------------
(* One round.                                                               *)

LEMMA SettledForms ==
  ASSUME NEW p, Settled(p)
  PROVE  \/ /\ IsFulfilled(p) /\ ~IsRejected(p)
            /\ p.value \in Quotes /\ p = Fulfilled(p.value)
         \/ /\ IsRejected(p) /\ ~IsFulfilled(p)
            /\ p.reason \in Errors /\ p = Rejected(p.reason)
<1>1. CASE p \in [status : {"fulfilled"}, value : Quotes]
  BY <1>1 DEF IsFulfilled, IsRejected, Fulfilled
<1>2. CASE p \in [status : {"rejected"}, reason : Errors]
  BY <1>2 DEF IsFulfilled, IsRejected, Rejected
<1>3. p # Pending
  BY DEF Settled, IsPending, Pending
<1> QED
  BY <1>1, <1>2, <1>3 DEF Settled, Promises

(***************************************************************************)
(* What a round makes of its two promises: one of them; of two quotes, one *)
(* the other does not beat; an error only if both failed, and then one     *)
(* that is known to be caused by the amount if either is, or the second's. *)
(***************************************************************************)
LEMMA SettleWins ==
  ASSUME NEW p, NEW q, GoodOffer(p), GoodOffer(q)
  PROVE  /\ GoodOffer(Settle(p, q))
         /\ Settle(p, q) \in {p, q}
         /\ IsFulfilled(Settle(p, q)) =>
              \A x \in {p, q} :
                IsFulfilled(x) => ~HigherRate(x.value, Settle(p, q).value)
         /\ IsRejected(Settle(p, q)) =>
              /\ IsRejected(p) /\ IsRejected(q)
              /\ CausedByAmount(p.reason) \/ CausedByAmount(q.reason)
                   => CausedByAmount(Settle(p, q).reason)
              /\ ~CausedByAmount(p.reason) => Settle(p, q) = q
<1> DEFINE s == Settle(p, q)
<1>1. Settled(p) /\ Settled(q)
  BY DEF GoodOffer
<1>2. \A x \in Quotes : ~HigherRate(x, x)
  <2> SUFFICES ASSUME NEW x \in Quotes  PROVE ~(x.out * x.in > x.out * x.in)
    BY DEF HigherRate
  <2>1. x.out * x.in \in Int
    BY Z3 DEF Quotes
  <2> QED
    BY <2>1
<1>3. CASE IsFulfilled(p) /\ IsFulfilled(q)
  <2>1. /\ p.value \in Quotes /\ p = Fulfilled(p.value)
        /\ q.value \in Quotes /\ q = Fulfilled(q.value)
    BY <1>1, <1>3, SettledForms
  <2>2. s = Fulfilled(BestQuote(p.value, q.value))
    BY <1>3 DEF Settle
  <2>3. CASE HigherRate(q.value, p.value)
    <3>1. s = q
      BY <2>1, <2>2, <2>3 DEF BestQuote
    <3>2. ~HigherRate(p.value, q.value)
      <4> DEFINE m == q.value.out * p.value.in
                 n == p.value.out * q.value.in
      <4>1. m \in Int /\ n \in Int
        BY <2>1, Z3 DEF Quotes
      <4>2. m > n
        BY <2>3 DEF HigherRate
      <4> QED
        BY <4>1, <4>2 DEF HigherRate
    <3>3. IsFulfilled(s) /\ ~IsRejected(s)
      BY <1>1, <1>3, <3>1, SettledForms
    <3> QED
      BY <1>2, <2>1, <3>1, <3>2, <3>3
  <2>4. CASE ~HigherRate(q.value, p.value)
    <3>1. s = p
      BY <2>1, <2>2, <2>4 DEF BestQuote
    <3>2. IsFulfilled(s) /\ ~IsRejected(s)
      BY <1>1, <1>3, <3>1, SettledForms
    <3> QED
      BY <1>2, <2>1, <2>4, <3>1, <3>2
  <2> QED
    BY <2>3, <2>4
<1>4. CASE IsFulfilled(p) /\ ~IsFulfilled(q)
  <2>1. s = p /\ p.value \in Quotes /\ ~IsRejected(p)
    BY <1>1, <1>4, SettledForms DEF Settle
  <2> QED
    BY <1>2, <1>4, <2>1
<1>5. CASE ~IsFulfilled(p) /\ IsFulfilled(q)
  <2>1. s = q /\ q.value \in Quotes /\ ~IsRejected(q)
    BY <1>1, <1>5, SettledForms DEF Settle
  <2> QED
    BY <1>2, <1>5, <2>1
<1>6. CASE ~IsFulfilled(p) /\ ~IsFulfilled(q)
  <2>1. /\ IsRejected(p) /\ p = Rejected(p.reason)
        /\ IsRejected(q) /\ q = Rejected(q.reason)
    BY <1>1, <1>6, SettledForms
  <2>2. s = Rejected(ErrorToThrow(p.reason, q.reason))
    BY <1>6 DEF Settle
  <2>3. CASE CausedByAmount(p.reason) /\ ~CausedByAmount(q.reason)
    <3>1. s = p
      BY <2>1, <2>2, <2>3 DEF ErrorToThrow
    <3> QED
      BY <1>6, <2>1, <2>3, <3>1
  <2>4. CASE ~(CausedByAmount(p.reason) /\ ~CausedByAmount(q.reason))
    <3>1. s = q
      BY <2>1, <2>2, <2>4 DEF ErrorToThrow
    <3> QED
      BY <1>6, <2>1, <2>4, <3>1
  <2> QED
    BY <2>3, <2>4
<1> QED
  BY <1>3, <1>4, <1>5, <1>6
-----------------------------------------------------------------------------
(* The invariant.                                                           *)

LEMMA PendingForms ==
  /\ Pending \in Promises /\ IsPending(Pending)
  /\ ~IsFulfilled(Pending) /\ ~IsRejected(Pending)
  BY DEF Pending, Promises, IsPending, IsFulfilled, IsRejected

LEMMA InitIInv == Init => IInv
  BY PendingForms DEF Init, IInv, TypeOK, RoundsSettled, Sources, KnownFailure

\* A settled source's promise is a good offer.
LEMMA SourcesAreGood ==
  ASSUME IInv, NEW p \in Sources, ~IsPending(p)
  PROVE  GoodOffer(p)
  BY DEF IInv, TypeOK, Sources, GoodOffer, Settled

LEMMA V2IsGood ==
  ASSUME IInv, ~IsPending(v2)
  PROVE  GoodOffer(v2) /\ v2 \in {direct, router}
<1>1. ~IsPending(direct) /\ ~IsPending(router) /\ v2 = Settle(direct, router)
  BY DEF IInv, RoundsSettled
<1>2. GoodOffer(direct) /\ GoodOffer(router)
  BY <1>1, SourcesAreGood DEF Sources
<1> QED
  BY <1>1, <1>2, SettleWins

LEMMA NextIInv ==
  ASSUME IInv, [Next]_vars
  PROVE  IInv'
<1>1. ASSUME NEW r \in Requests, NEW p \in V11Pools, NEW q \in V2Pools,
             GetQuote(r, p, q)
      PROVE  IInv'
  <2>1. /\ request' = r /\ v11' = V11Outcome(r, p) /\ direct' = DirectOutcome(r, q)
        /\ router' = router /\ v2' = v2 /\ result' = result
        /\ IsPending(router) /\ IsPending(v2) /\ IsPending(result)
    BY <1>1 DEF GetQuote, IInv, Sources
  <2>2. /\ GoodPoolOffer(v11', r) /\ GoodPoolOffer(direct', r)
        /\ IsFulfilled(direct') => direct'.value.in >= MinSwapAssetInAmount
    BY <2>1, V11IsGood, DirectIsGood
  <2>3. r # NoRequest
    BY DEF Requests, NoRequest
  <2>4. IsPending(router') /\ ~IsFulfilled(router')
    BY <2>1 DEF IsPending, IsFulfilled
  <2>5. TypeOK'
    BY <2>1, <2>2 DEF TypeOK, IInv, GoodPoolOffer, GoodOffer, Settled
  <2>6. RoundsSettled'
    BY <2>1 DEF RoundsSettled
  <2>7. \A x \in Sources' : IsFulfilled(x) => Comparable(x.value)
    BY <2>2, <2>4 DEF Sources, GoodPoolOffer, GoodOffer
  <2> QED
    BY <2>1, <2>3, <2>5, <2>6, <2>7 DEF IInv, KnownFailure
<1>2. ASSUME NEW a \in RouterAnswers, RouterAnswersWith(a)
      PROVE  IInv'
  <2>1. /\ request \in Requests /\ request' = request /\ request # NoRequest
        /\ router' = RouterOutcome(request, a) /\ IsPending(router)
        /\ v11' = v11 /\ direct' = direct /\ v2' = v2 /\ result' = result
    BY <1>2 DEF RouterAnswersWith, IInv, TypeOK
  <2>2. GoodOffer(router') /\ KnownFailure(router')
    BY <2>1, RouterIsGood
  <2>3. TypeOK'
    BY <2>1, <2>2 DEF TypeOK, IInv, GoodOffer, Settled
  <2>4. RoundsSettled'
    BY <2>1 DEF RoundsSettled, IInv
  <2>5. \A x \in Sources' : IsFulfilled(x) => Comparable(x.value)
    BY <2>1, <2>2 DEF Sources, GoodOffer, IInv
  <2> QED
    BY <2>1, <2>2, <2>3, <2>4, <2>5 DEF IInv
<1>3. ASSUME SettleV2
      PROVE  IInv'
  <2>1. /\ ~IsPending(direct) /\ ~IsPending(router) /\ IsPending(v2)
        /\ v2' = Settle(direct, router) /\ request' = request
        /\ v11' = v11 /\ direct' = direct /\ router' = router /\ result' = result
    BY <1>3 DEF SettleV2
  <2>2. GoodOffer(v2')
    BY <2>1, SourcesAreGood, SettleWins DEF Sources
  <2>3. request # NoRequest
    BY <2>1 DEF IInv, Sources
  <2>4. TypeOK'
    BY <2>1, <2>2 DEF TypeOK, IInv, GoodOffer, Settled
  <2>5. RoundsSettled'
    BY <2>1 DEF RoundsSettled, IInv
  <2> QED
    BY <2>1, <2>3, <2>4, <2>5 DEF IInv, Sources, KnownFailure
<1>4. ASSUME SettleAll
      PROVE  IInv'
  <2>1. /\ ~IsPending(v11) /\ ~IsPending(v2) /\ result' = Settle(v11, v2)
        /\ request' = request /\ v11' = v11 /\ direct' = direct
        /\ router' = router /\ v2' = v2
    BY <1>4 DEF SettleAll
  <2>2. GoodOffer(result')
    BY <2>1, SourcesAreGood, V2IsGood, SettleWins DEF Sources
  <2>3. request # NoRequest
    BY <2>1 DEF IInv, Sources
  <2>4. TypeOK'
    BY <2>1, <2>2 DEF TypeOK, IInv, GoodOffer, Settled
  <2>5. RoundsSettled'
    BY <2>1 DEF RoundsSettled, IInv
  <2> QED
    BY <2>1, <2>3, <2>4, <2>5 DEF IInv, Sources, KnownFailure
<1>5. CASE UNCHANGED vars
  BY <1>5 DEF vars, IInv, TypeOK, RoundsSettled, Sources, KnownFailure
<1> QED
  BY <1>1, <1>2, <1>3, <1>4, <1>5 DEF Next

(* The invariant is inductive, and holds in every behaviour. *)
THEOREM InvariantHolds == Spec => []IInv
  BY InitIInv, NextIInv, PTL DEF Spec

(* TypeOK: for any pools and router, what a pool quotes is for the assets   *)
(* and the amount asked for.                                                *)
THEOREM TypeCorrect == Spec => []TypeOK
<1>1. IInv => TypeOK
  BY DEF IInv
<1> QED
  BY <1>1, InvariantHolds, PTL

(***************************************************************************)
(* BestQuoteWins: the quote getQuote returns is the best of the three      *)
(* sources', though two rounds of two chose it; it throws only if all      *)
(* three failed.                                                           *)
(***************************************************************************)
THEOREM BestOfThree == Spec => []BestQuoteWins
<1>1. IInv => BestQuoteWins
  <2> SUFFICES ASSUME IInv, ~IsPending(result)  PROVE BestQuoteWins
    BY DEF BestQuoteWins, IsPending, IsFulfilled, IsRejected
  <2>1. /\ ~IsPending(v11) /\ ~IsPending(v2) /\ result = Settle(v11, v2)
        /\ ~IsPending(direct) /\ ~IsPending(router) /\ v2 = Settle(direct, router)
    BY DEF IInv, RoundsSettled
  <2>2. /\ GoodOffer(v11) /\ GoodOffer(direct) /\ GoodOffer(router)
        /\ GoodOffer(v2) /\ v2 \in {direct, router}
    BY <2>1, SourcesAreGood, V2IsGood DEF Sources
  <2>3. result \in {v11, v2}
    BY <2>1, <2>2, SettleWins
  <2>4. CASE IsRejected(result)
    <3>1. IsRejected(v11) /\ IsRejected(v2)
      BY <2>1, <2>2, <2>4, SettleWins
    <3>2. IsRejected(direct) /\ IsRejected(router)
      BY <2>1, <2>2, <3>1, SettleWins
    <3> QED
      BY <2>2, <2>3, <2>4, <3>1, <3>2 DEF BestQuoteWins, Sources, IsFulfilled, IsRejected
  <2>5. CASE IsFulfilled(result)
    <3>1. /\ IsFulfilled(v11) => ~HigherRate(v11.value, result.value)
          /\ IsFulfilled(v2) => ~HigherRate(v2.value, result.value)
          /\ GoodOffer(result)
      BY <2>1, <2>2, <2>5, SettleWins
    <3>2. ASSUME NEW p \in {direct, router}, IsFulfilled(p)
          PROVE  ~HigherRate(p.value, result.value)
      <4>1. IsFulfilled(v2)
        <5>1. ~IsRejected(v2)
          BY <2>1, <2>2, <3>2, SettleWins DEF IsFulfilled, IsRejected
        <5> QED
          BY <2>2, <5>1, SettledForms DEF GoodOffer
      <4>2. ~HigherRate(p.value, v2.value)
        BY <2>1, <2>2, <3>2, <4>1, SettleWins
      <4>3. /\ p.value \in Quotes /\ v2.value \in Quotes /\ result.value \in Quotes
            /\ Comparable(v2.value) /\ Comparable(result.value)
        BY <2>2, <2>5, <3>1, <3>2, <4>1, SettledForms DEF GoodOffer, IsRejected, IsFulfilled
      <4> QED
        BY <3>1, <4>1, <4>2, <4>3, NotHigherTransitive
    <3> QED
      BY <2>2, <2>3, <2>5, <3>1, <3>2 DEF BestQuoteWins, Sources, IsFulfilled, IsRejected
  <2>6. IsRejected(result) \/ IsFulfilled(result)
    BY <2>2, <2>3, SettledForms DEF GoodOffer
  <2> QED
    BY <2>4, <2>5, <2>6
<1> QED
  BY <1>1, InvariantHolds, PTL

(***************************************************************************)
(* AmountErrorIsReported: when every source failed, an error that is known *)
(* to be caused by the amount survives both rounds, wherever it came from; *)
(* without one the user gets the router's, and so never the RangeError of  *)
(* a pool that was asked for all it has.                                   *)
(***************************************************************************)
THEOREM AmountErrorSurvives == Spec => []AmountErrorIsReported
<1>1. IInv => AmountErrorIsReported
  <2> SUFFICES ASSUME IInv, IsRejected(result)  PROVE AmountErrorIsReported
    BY DEF AmountErrorIsReported
  <2>1. ~IsPending(result)
    BY DEF IsPending, IsRejected
  <2>2. /\ ~IsPending(v11) /\ ~IsPending(v2) /\ result = Settle(v11, v2)
        /\ ~IsPending(direct) /\ ~IsPending(router) /\ v2 = Settle(direct, router)
    BY <2>1 DEF IInv, RoundsSettled
  <2>3. GoodOffer(v11) /\ GoodOffer(direct) /\ GoodOffer(router) /\ GoodOffer(v2)
    BY <2>2, SourcesAreGood, V2IsGood DEF Sources
  <2>4. /\ IsRejected(v2)
        /\ CausedByAmount(v11.reason) \/ CausedByAmount(v2.reason)
             => CausedByAmount(result.reason)
        /\ ~CausedByAmount(v11.reason) => result = v2
    BY <2>2, <2>3, SettleWins
  <2>5. /\ IsRejected(direct) /\ IsRejected(router)
        /\ CausedByAmount(direct.reason) \/ CausedByAmount(router.reason)
             => CausedByAmount(v2.reason)
        /\ ~CausedByAmount(direct.reason) => v2 = router
    BY <2>2, <2>3, <2>4, SettleWins
  <2>6. CASE \E p \in Sources : CausedByAmount(p.reason)
    <3>1. CausedByAmount(result.reason)
      BY <2>4, <2>5, <2>6 DEF Sources
    <3>2. result.reason # "RangeError"
      BY <3>1 DEF CausedByAmount
    <3> QED
      BY <2>6, <3>1, <3>2 DEF AmountErrorIsReported
  <2>7. CASE ~\E p \in Sources : CausedByAmount(p.reason)
    <3>1. result = router
      BY <2>4, <2>5, <2>7 DEF Sources
    <3>2. result.reason # "RangeError"
      BY <2>5, <3>1 DEF IInv, KnownFailure
    <3> QED
      BY <2>7, <3>1, <3>2 DEF AmountErrorIsReported
  <2> QED
    BY <2>6, <2>7
<1> QED
  BY <1>1, InvariantHolds, PTL
=============================================================================
