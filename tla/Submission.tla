----------------------------- MODULE Submission -----------------------------
(***************************************************************************)
(* Sending signed transaction groups and waiting for them, as every        *)
(* execute of the SDK does (sendAndWaitRawTransaction and                  *)
(* waitForConfirmation of src/src/util/util.ts), and the one caller that   *)
(* does so many times at once: redeemAllExcessAsset (src/src/redeem.ts)    *)
(* starts a submission for every item of its data and hands them to        *)
(* Promise.all.                                                            *)
(*                                                                         *)
(* A submission is a loop over its groups: send one, poll until the node   *)
(* says it is confirmed or rejected, go on with the next.  redeemAll's     *)
(* have one group each; other callers of the loop may pass several.        *)
(*                                                                         *)
(* The node is external.  A poll that fails, or that another node behind   *)
(* the load balancer answers, changes nothing: the loop just polls again.  *)
(***************************************************************************)
EXTENDS Naturals, Sequences

CONSTANTS Items,       \* the entries of redeemAllExcessAsset's data
          GroupCount   \* GroupCount[i]: how many groups item i submits

ASSUME GroupCountAssumption == GroupCount \in [Items -> Nat \ {0}]

VARIABLES
  node,      \* node[t]: what the network made of group t
  stage,     \* stage[i]: where item i's submission is
  at,        \* at[i]: the group it sends or waits for
  response,  \* response[i]: networkResponse, the confirmed groups so far
  batch,     \* the promise redeemAllExcessAsset returned
  value      \* what that promise was resolved with, by item

itemVars == <<stage, at, response>>
batchVars == <<batch, value>>
submissionVars == <<node, itemVars, batchVars>>

Txns == UNION {{i} \X (1 .. GroupCount[i]) : i \in Items}

Current(i) == <<i, at[i]>>
Ended == {"resolved", "rejected"}
NoValue == [i \in Items |-> <<>>]
-----------------------------------------------------------------------------
(* The caller and the SDK.                                                  *)

\* initiatorSigner signs every group at once; then each item's promise starts.
Sign ==
  /\ batch = "signing"
  /\ batch' = "running"
  /\ stage' = [i \in Items |-> "sending"]
  /\ UNCHANGED <<node, at, response, value>>

SignFails ==
  /\ batch = "signing"
  /\ batch' = "rejected"
  /\ UNCHANGED <<node, itemVars, value>>

\* Promise.all is rejected by the first item that is; the others go on.
RejectItem(i) ==
  /\ stage' = [stage EXCEPT ![i] = "rejected"]
  /\ batch' = IF batch = "running" THEN "rejected" ELSE batch
  /\ UNCHANGED <<at, response, value>>

Send(i) ==
  /\ stage[i] = "sending"
  /\ node' = [node EXCEPT ![Current(i)] = "pooled"]
  /\ stage' = [stage EXCEPT ![i] = "waiting"]
  /\ UNCHANGED <<at, response, batchVars>>

\* sendRawTransaction throws: refused, lost, or accepted and the answer lost.
SendFails(i) ==
  /\ stage[i] = "sending"
  /\ node' \in {node, [node EXCEPT ![Current(i)] = "pooled"]}
  /\ RejectItem(i)

\* What a poll's answer is tested for: confirmedRound, then poolError.
IsConfirmed_AnyAnswer(t) == node[t] \in {"pooled", "confirmed"}
IsConfirmed(t) == node[t] = "confirmed"

HasPoolError_Ignored(t) == FALSE
HasPoolError(t) == node[t] = "rejected"

HasMoreGroups_OffByOne(i) == at[i] <= GroupCount[i]
HasMoreGroups(i) == at[i] < GroupCount[i]

\* Promise.all resolves when its last item does, with the results of all.
AllResolved_Any(stages) == \E i \in Items : stages[i] = "resolved"
AllResolved(stages) == \A i \in Items : stages[i] = "resolved"

SeeConfirmed(i) ==
  /\ stage[i] = "waiting"
  /\ IsConfirmed(Current(i))
  /\ response' = [response EXCEPT ![i] = Append(@, Current(i))]
  /\ IF HasMoreGroups(i)
     THEN /\ at' = [at EXCEPT ![i] = @ + 1]
          /\ stage' = [stage EXCEPT ![i] = "sending"]
          /\ UNCHANGED batchVars
     ELSE /\ stage' = [stage EXCEPT ![i] = "resolved"]
          /\ IF batch = "running" /\ AllResolved(stage')
             THEN /\ batch' = "resolved"
                  /\ value' = response'
             ELSE UNCHANGED batchVars
          /\ UNCHANGED at
  /\ UNCHANGED node

SeeRejected(i) ==
  /\ stage[i] = "waiting"
  /\ ~IsConfirmed(Current(i)) /\ HasPoolError(Current(i))
  /\ RejectItem(i)
  /\ UNCHANGED node
-----------------------------------------------------------------------------
(* The network.                                                             *)

Confirm(t) ==
  /\ node[t] = "pooled"
  /\ node' = [node EXCEPT ![t] = "confirmed"]
  /\ UNCHANGED <<itemVars, batchVars>>

PoolError(t) ==
  /\ node[t] = "pooled"
  /\ node' = [node EXCEPT ![t] = "rejected"]
  /\ UNCHANGED <<itemVars, batchVars>>

\* A group whose validity ends, or that the node no longer remembers: every
\* later poll is a 404.
Forget(t) ==
  /\ node[t] \in {"pooled", "rejected"}
  /\ node' = [node EXCEPT ![t] = "forgotten"]
  /\ UNCHANGED <<itemVars, batchVars>>
-----------------------------------------------------------------------------
SubmissionInit ==
  /\ node = [t \in Txns |-> "unsent"]
  /\ stage = [i \in Items |-> "idle"]
  /\ at = [i \in Items |-> 1]
  /\ response = [i \in Items |-> <<>>]
  /\ batch = "signing"
  /\ value = NoValue

Submitting(i) == Send(i) \/ SendFails(i)
Polling(i) == SeeConfirmed(i) \/ SeeRejected(i)
Deciding(t) == Confirm(t) \/ PoolError(t)

SubmissionNext ==
  \/ Sign \/ SignFails
  \/ \E i \in Items : Submitting(i) \/ Polling(i)
  \/ \E t \in Txns : Deciding(t) \/ Forget(t)

SubmissionSpec == SubmissionInit /\ [][SubmissionNext]_submissionVars

(***************************************************************************)
(* The signer answers and so does a send.  The loop polls every second for *)
(* ever, so it does see an answer that stays.  The network confirms or     *)
(* rejects what it holds on to.                                            *)
(***************************************************************************)
Fairness ==
  /\ WF_submissionVars(Sign \/ SignFails)
  /\ \A i \in Items : WF_submissionVars(Submitting(i)) /\ WF_submissionVars(Polling(i))
  /\ \A t \in Txns : WF_submissionVars(Deciding(t))

FairSpec == SubmissionSpec /\ Fairness
-----------------------------------------------------------------------------
(* Properties.                                                              *)

SubmissionTypeOK ==
  /\ node \in [Txns -> {"unsent", "pooled", "confirmed", "rejected", "forgotten"}]
  /\ stage \in [Items -> {"idle", "sending", "waiting"} \cup Ended]
  /\ \A i \in Items : at[i] \in 1 .. GroupCount[i]
  /\ \A i \in Items : response[i] \in Seq(Txns)
  /\ batch \in {"signing", "running"} \cup Ended
  /\ \A i \in Items : value[i] \in Seq(Txns)

(***************************************************************************)
(* A resolved redeemAllExcessAsset means that every group of every item is *)
(* in the chain, and that its results are those of each item's groups, at  *)
(* the item's place, whatever the order they were confirmed in.            *)
(***************************************************************************)
ResolvedMeansConfirmed ==
  batch = "resolved" =>
    /\ \A t \in Txns : node[t] = "confirmed"
    /\ \A i \in Items : value[i] = [k \in 1 .. GroupCount[i] |-> <<i, k>>]

(***************************************************************************)
(* The groups of one submission go out one at a time: a group leaves for   *)
(* the node only when all the groups before it are in the chain, so that a *)
(* failure never leaves a later group executed without an earlier one.     *)
(***************************************************************************)
SentInOrder ==
  [][\A t \in Txns : node[t] = "unsent" /\ node'[t] # "unsent" =>
       \A k \in 1 .. (t[2] - 1) : node[<<t[1], k>>] = "confirmed"]_node

(***************************************************************************)
(* As long as the network forgets nothing before it is polled, every       *)
(* submission ends, those of a redeemAllExcessAsset that was rejected      *)
(* meanwhile included: one item's failure neither cancels nor blocks the   *)
(* others.                                                                 *)
(***************************************************************************)
NothingForgotten == \A t \in Txns : node[t] # "forgotten"

EverySubmissionEnds ==
  []NothingForgotten => \A i \in Items : stage[i] = "sending" ~> stage[i] \in Ended

(***************************************************************************)
(* waitForConfirmation's comment (util/util.ts, 66): "Wait until a         *)
(* transaction has been confirmed or rejected by the network".  A group    *)
(* the network will never execute is never waited for without end.         *)
(***************************************************************************)
EveryWaitEnds == \A i \in Items : stage[i] = "waiting" ~> stage[i] # "waiting"
=============================================================================
