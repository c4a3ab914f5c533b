------------------------------- MODULE Voting --------------------------------
(***************************************************************************)
(* Proposals, votes and rewards (governance/proposal-voting,               *)
(* staking-voting and rewards, and the second half of governance/index.ts  *)
(* under src/src), next to the calls of Vault that change the locks.       *)
(*                                                                         *)
(* A vote counts with the power its account had when the proposal was      *)
(* made, a reward with the power at the bounds of its week.  The SDK tells *)
(* the contract which row of the account's history that is, and names the  *)
(* box of that row and the next one, where the contract sees that no later *)
(* row is as old.  It finds the row in what it read of the history box by  *)
(* box, while the account's lock may be changed by another call.           *)
(*                                                                         *)
(* The three voting contracts are external and modelled as the SDK relies  *)
(* on them: attendance and claims are bits of an account's sheets, a sheet *)
(* and the count of a staking option are boxes made when first needed.     *)
(* A call is made for the account of its client.                           *)
(***************************************************************************)
EXTENDS Vault

CONSTANTS Ballots,        \* Ballots[c]: what call c may do
          SheetBits,      \* votes in a sheet: ACCOUNT_ATTENDANCE_SHEET_BOX_SIZE * 8
          StakingSpan,    \* 1024 * 8, what staking votes divide by instead
          ClaimBits,      \* claims in a sheet: REWARD_CLAIM_SHEET_BOX_SIZE * 8
          PeriodsPerBox,  \* REWARD_PERIOD_BOX_ARRAY_LEN
          FirstPeriod,    \* first_period_timestamp
          Price,          \* Price[kind]: minimum balance of a box of each kind
          FirstProposals, FirstPeriods,  \* the proposals and reward periods at first
          MaxPeriods,     \* how many periods there may be
          OtherVotes      \* staking votes of others: a proposal's id and an asset

Apps == {"voting", "staking", "rewards"}

ASSUME VotingAssumption ==
  /\ {SheetBits, StakingSpan, ClaimBits, PeriodsPerBox} \subseteq Nat \ {0}
  /\ Price \in [Apps \cup {"option", "proposal"} -> Nat \ {0}]
  /\ {FirstPeriod, MaxPeriods} \subseteq Nat /\ FirstPeriods \in 0 .. MaxPeriods
  /\ SheetBits <= StakingSpan
  /\ IsFiniteSet(DOMAIN FirstProposals)
  /\ \A id \in DOMAIN FirstProposals :
       {FirstProposals[id].created, FirstProposals[id].index} \subseteq Nat

\* With more than STAKING_VOTE_MAX_OPTION_COUNT options no group would be built.
ASSUME BallotAssumption ==
  /\ DOMAIN Ballots = Calls
  /\ \A c \in Calls : \A r \in Ballots[c] :
       \/ r.op \in {"vote", "propose"}
       \/ r.op = "stake" /\ IsFiniteSet(r.options) /\ Cardinality(r.options) <= 8
       \/ r.op = "claim" /\ r.from \in Nat /\ r.count \in Nat \ {0}

VARIABLES
  proposals,   \* chain: proposals[id], of the voting and of the staking contract
  periods,     \* chain: reward_period_count
  marks,       \* chain: the votes and claims made, by contract, account and number
  held,        \* chain: the sheets and option boxes there are
  surplus,     \* chain: what the contracts were paid beyond what their boxes cost
  facts,       \* facts[c]: what the call read besides the vault's boxes
  ballot       \* ballot[c]: the transaction group prepared

contracts == <<proposals, periods, marks, held, surplus>>
votingVars == <<contracts, facts, ballot>>

Upto(n, most) == IF n < most THEN n ELSE most
AtLeast(n, least) == IF n < least THEN least ELSE n
-----------------------------------------------------------------------------
(* The contracts.                                                           *)

ProposalBox(id) == <<"proposal", id>>
SheetBox(app, u, i) == <<"sheet", app, u, i>>
OptionBox(n, asset) == <<"option", n, asset>>
PeriodBox(i) == <<"period", i>>

BitsOf(app) == IF app = "rewards" THEN ClaimBits ELSE SheetBits

PriceOf(boxes) ==
  LET sheets(app) == Price[app] * Cardinality({b \in boxes : b[1] = "sheet" /\ b[2] = app})
      of(kind) == Price[kind] * Cardinality({b \in boxes : b[1] = kind})
  IN  sheets("voting") + sheets("staking") + sheets("rewards")
        + of("option") + of("proposal")

\* The boxes a ballot makes necessary.
KeptFor(b) ==
  {SheetBox(b.app, b.user, n \div BitsOf(b.app)) : n \in b.numbers}
    \cup (IF b.op = "propose" THEN {ProposalBox(b.id)} ELSE {})
    \cup (IF b.op = "stake" THEN {OptionBox(n, a) : n \in b.numbers, a \in b.options} ELSE {})

\* Row i, counted from 0, is the last made by then.
IsLastBy(rows, i, at) ==
  /\ i < Len(rows) /\ rows[i + 1].timestamp <= at
  /\ i + 1 < Len(rows) => rows[i + 2].timestamp > at

\* The times power counts at: when the proposal was made, or the bounds of the
\* weeks claimed.
TimesOf(b) ==
  CASE b.op \in {"vote", "stake"} -> <<proposals[b.id].created>>
    [] b.op = "claim"   -> [k \in 1 .. Cardinality(b.numbers) + 1 |->
                              FirstPeriod + (b.from + k - 1) * WEEK]
    [] b.op = "propose" -> <<>>

\* A reward counts nothing for an account that had no power yet.
RightIndex(b, k) ==
  LET rows == account[b.user].powers
  IN  \/ IsLastBy(rows, b.indexes[k], TimesOf(b)[k])
      \/ /\ b.op = "claim" /\ b.indexes[k] = 0
         /\ rows # <<>> /\ rows[1].timestamp > TimesOf(b)[k]

LastTotalBox == TotalBox(lastBoxIndex(Len(total)))

BoxesTouched(b) ==
  KeptFor(b) \cup {StateBox(b.user)}
    \cup (IF b.op = "propose" THEN {LastTotalBox} ELSE {})
    \cup (IF b.op \in {"vote", "stake"} THEN {ProposalBox(b.id)} ELSE {})
    \cup (IF b.op = "claim" THEN {PeriodBox(n \div PeriodsPerBox) : n \in b.numbers} ELSE {})
    \cup {PowerBox(b.user, BoxOf(r)) :
            r \in UNION {{b.indexes[k], b.indexes[k] + 1} : k \in DOMAIN b.indexes}
                    \cap (0 .. Len(account[b.user].powers) - 1)}

\* What the user may do, however the group is made.
Entitled(b) ==
  /\ \A n \in b.numbers : <<b.app, b.user, n>> \notin marks
  /\ CASE b.op \in {"vote", "stake"} -> proposals[b.id].start < now /\ now < proposals[b.id].end
       [] b.op = "claim"   -> \A n \in b.numbers : n < periods
       [] b.op = "propose" -> /\ b.id \notin DOMAIN proposals
                              /\ account[b.user].amount > 0 /\ account[b.user].end > now

Counted(b) ==
  /\ Entitled(b)
  /\ Len(b.indexes) = Len(TimesOf(b))
  /\ \A k \in DOMAIN b.indexes : RightIndex(b, k)
  /\ BoxesTouched(b) \subseteq b.boxes
  /\ PriceOf(KeptFor(b) \ held) <= surplus[b.app] + b.pay

ExecuteBallot(c) ==
  /\ pc[c] = "prepared" /\ Counted(ballot[c])
  /\ LET b == ballot[c]
     IN  /\ marks' = marks \cup {<<b.app, b.user, n>> : n \in b.numbers}
         /\ held' = held \cup KeptFor(b)
         /\ surplus' = [surplus EXCEPT ![b.app] = @ + b.pay - PriceOf(KeptFor(b) \ held)]
         /\ proposals' =
              IF b.op # "propose" THEN proposals
              ELSE [id \in DOMAIN proposals \cup {b.id} |->
                      IF id \in DOMAIN proposals THEN proposals[id]
                      ELSE [app |-> "voting", index |-> Cardinality(DOMAIN proposals),
                            created |-> now, start |-> 0, end |-> 0, approved |-> FALSE]]
  /\ pc' = [pc EXCEPT ![c] = "counted"]
  /\ UNCHANGED <<chainVars, periods, req, seen, group, answer, facts, ballot>>

RefuseBallot(c) ==
  /\ pc[c] = "prepared" /\ ~Counted(ballot[c])
  /\ pc' = [pc EXCEPT ![c] = "notCounted"]
  /\ UNCHANGED <<chainVars, req, seen, group, answer, votingVars>>

\* Another account votes, and pays for the option's box if it is the first.
OtherVote(id, asset) ==
  /\ held' = held \cup {OptionBox(proposals[id].index, asset)}
  /\ UNCHANGED <<vars, proposals, periods, marks, surplus, facts, ballot>>

\* The rewards of a week are made known once it is over.
PeriodEnd(n) == FirstPeriod + (n + 1) * WEEK
NewPeriod ==
  /\ periods < MaxPeriods /\ PeriodEnd(periods) <= now
  /\ periods' = periods + 1
  /\ UNCHANGED <<vars, proposals, marks, held, surplus, facts, ballot>>
-----------------------------------------------------------------------------
(* The calls.                                                               *)

\* generateCastVote... and generateCastVoteForStakingDistributionProposal...
\* begin with the proposal; without one they throw.
FetchProposal(c, r) ==
  /\ pc[c] = "idle" /\ r.op \in {"vote", "stake"}
  /\ r.id \in DOMAIN proposals
  /\ req' = [req EXCEPT ![c] = r]
  /\ facts' = [facts EXCEPT ![c].proposal = {proposals[r.id]}]
  /\ Go(c, "proposal")
  /\ UNCHANGED <<chainVars, seen, group, answer, contracts, ballot>>

ProposalOf(c) == CHOOSE p \in facts[c].proposal : TRUE

VotingIsActive(p, local) == p.approved /\ p.start # 0 /\ p.start < local /\ local < p.end

\* fetchAccountState, after the proposal or first for a claim.  A staking vote
\* and a claim do without: a failed read leaves them with no power.
FetchVoter(c, r, failed, local) ==
  /\ \/ pc[c] = "idle" /\ r.op = "claim"
     \/ pc[c] = "proposal" /\ r = req[c]
  /\ failed => account[Owner[c]].exists
  /\ r.op = "vote" => /\ AccountRead(Owner[c], failed) # {}
                      /\ VotingIsActive(ProposalOf(c), local)
  /\ req' = [req EXCEPT ![c] = r]
  /\ seen' = [seen EXCEPT ![c].account = AccountRead(Owner[c], failed), ![c].failed = failed]
  /\ facts' = [facts EXCEPT ![c].at = now]
  /\ Go(c, IF r.op = "vote" THEN "powers" ELSE "voter")
  /\ UNCHANGED <<chainVars, group, answer, contracts, ballot>>

\* getAllBoxNames of the staking contract.
GetAllBoxNames(c) ==
  /\ pc[c] = "voter" /\ req[c].op = "stake"
  /\ facts' = [facts EXCEPT ![c].names = held]
  /\ Go(c, "powers")
  /\ UNCHANGED <<chainVars, req, seen, group, answer, contracts, ballot>>

\* fetchRewardsAppGlobalState: no period may be claimed before it is over.
FetchRewardsState(c) ==
  /\ pc[c] = "voter" /\ req[c].op = "claim"
  /\ req[c].from + req[c].count <= periods
  /\ Go(c, "powers")
  /\ UNCHANGED <<chainVars, req, seen, group, answer, votingVars>>

\* getAccountPowers, a box at a time.
PowerBoxes(c) == IF seen[c].account = {} THEN 0 ELSE BoxCount(SeenAccount(c).count)

ReadPowerBox(c) ==
  /\ pc[c] = "powers" /\ seen[c].boxes < PowerBoxes(c)
  /\ seen' = [seen EXCEPT ![c].boxes = @ + 1,
                          ![c].read = @ \o RowsIn(account[Owner[c]].powers, seen[c].boxes)]
  /\ UNCHANGED <<chainVars, pc, req, group, answer, votingVars>>

PowersRead(c) == pc[c] = "powers" /\ seen[c].boxes = PowerBoxes(c)

\* The box of a row and the next one.
PowerBoxesAround(u, i) == {PowerBox(u, BoxOf(i)), PowerBox(u, BoxOf(i) + 1)}

Prepares(c, b) == ballot' = [ballot EXCEPT ![c] = b] /\ Go(c, "prepared")

\* The row of the time the proposal was made, -1 if there is none.
RowThen(c) == getPowerIndexAt(seen[c].read, ProposalOf(c).created) - 1

\* prepareCastVoteTransactions, of what boxes there seemed to be: a failed look
\* at the sheet is taken for there being none.
CastVote(u, id, p, i, names) ==
  LET sheet == SheetBox("voting", u, p.index \div SheetBits)
  IN  [op |-> "vote", app |-> "voting", user |-> u, id |-> id,
       numbers |-> {p.index}, indexes |-> <<i>>,
       boxes |-> {ProposalBox(id), sheet, StateBox(u)} \cup PowerBoxesAround(u, i),
       refs |-> <<5 + 1>>, pay |-> IF sheet \in names THEN 0 ELSE Price["voting"]]

GenerateCastVote(c, failed) ==
  LET names == IF failed THEN {} ELSE held
  IN  /\ PowersRead(c) /\ req[c].op = "vote" /\ RowThen(c) >= 0
      /\ facts' = [facts EXCEPT ![c].names = names]
      /\ Prepares(c, CastVote(Owner[c], req[c].id, ProposalOf(c), RowThen(c), names))
      /\ UNCHANGED <<chainVars, req, seen, group, answer, contracts>>

\* prepareCastVoteForStakingDistributionProposalTransactions.
NewOptions_All(names, options) == Cardinality(options)
NewOptions(names, options) == Cardinality(options \ names)

\* References of each transaction, with the other contract's; the budget
\* transaction is padded to 8.
StakeRefs_EightBoxes(n) == <<Upto(n, 8) + 1>> \o (IF n >= 8 THEN <<AtLeast(n - 7, 8)>> ELSE <<>>)
StakeRefs(n) == <<Upto(n, 7) + 1>> \o (IF n >= 7 THEN <<AtLeast(n - 6, 8)>> ELSE <<>>)

StakingVote(u, r, p, i, names) ==
  LET sheet   == SheetBox("staking", u, p.index \div StakingSpan)
      options == {OptionBox(p.index, a) : a \in r.options}
      boxes   == {ProposalBox(r.id), sheet, StateBox(u)} \cup options \cup PowerBoxesAround(u, i)
  IN  [op |-> "stake", app |-> "staking", user |-> u, id |-> r.id, options |-> r.options,
       numbers |-> {p.index}, indexes |-> <<i>>,
       boxes |-> boxes, refs |-> StakeRefs(Cardinality(boxes)),
       pay |-> (IF sheet \in names THEN 0 ELSE Price["staking"])
               + NewOptions(names, options) * Price["option"]]

GenerateStakingVote(c) ==
  /\ PowersRead(c) /\ req[c].op = "stake" /\ RowThen(c) >= 0
  /\ Prepares(c, StakingVote(Owner[c], req[c], ProposalOf(c), RowThen(c), facts[c].names))
  /\ UNCHANGED <<chainVars, req, seen, group, answer, contracts, facts>>

\* The bounds of the weeks claimed, the end of the last one included.
ClaimTimes_Starts(from, count) == [k \in 1 .. count |-> FirstPeriod + (from + k - 1) * WEEK]
ClaimTimes(from, count) == [k \in 1 .. count + 1 |-> FirstPeriod + (from + k - 1) * WEEK]

\* The sheets looked up: of the first period, and of the one after the last.
SheetsLookedUp(u, r) ==
  {SheetBox("rewards", u, r.from \div ClaimBits),
   SheetBox("rewards", u, (r.from + r.count) \div ClaimBits)}

ClaimRefs(n) == <<Upto(n, 6) + 2>> \o (IF n > 6 THEN <<AtLeast(n - 5, 8)>> ELSE <<>>)

\* One payment if one of the sheets looked up is missing.
ClaimPay(u, r, names) == IF SheetsLookedUp(u, r) \subseteq names THEN 0 ELSE Price["rewards"]

\* prepareClaimRewardsTransactions.
ClaimReward(u, r, indexes, names) ==
  LET numbers == r.from .. r.from + r.count - 1
      boxes   == {StateBox(u)}
                   \cup {SheetBox("rewards", u, n \div ClaimBits) : n \in numbers}
                   \cup {PeriodBox(n \div PeriodsPerBox) : n \in numbers}
                   \cup UNION {PowerBoxesAround(u, indexes[k]) : k \in DOMAIN indexes}
  IN  [op |-> "claim", app |-> "rewards", user |-> u, from |-> r.from,
       numbers |-> numbers, indexes |-> indexes, boxes |-> boxes,
       refs |-> ClaimRefs(Cardinality(boxes)), pay |-> ClaimPay(u, r, names)]

\* The rows of those times, the first one where there is none.
RowsAt(c, times) ==
  [k \in DOMAIN times |-> AtLeast(getPowerIndexAt(seen[c].read, times[k]) - 1, 0)]

\* More than 10 boxes are refused.
GenerateClaimReward(c) ==
  LET indexes == RowsAt(c, ClaimTimes(req[c].from, req[c].count))
      b       == ClaimReward(Owner[c], req[c], indexes, held)
  IN  /\ PowersRead(c) /\ req[c].op = "claim"
      /\ Cardinality(b.boxes) < 11
      /\ facts' = [facts EXCEPT ![c].names = held]
      /\ Prepares(c, b)
      /\ UNCHANGED <<chainVars, req, seen, group, answer, contracts>>

\* generateCreateProposalTransactions reads the vault's global state...
FetchVaultState(c, r) ==
  /\ pc[c] = "idle" /\ r.op = "propose"
  /\ req' = [req EXCEPT ![c] = r]
  /\ Sees(c, "global", [count |-> Len(total), last |-> LastTime(total), at |-> now])
  /\ Go(c, "vault")
  /\ UNCHANGED <<chainVars, group, answer, votingVars>>

\* ... and the executor, unless it is given.
CreateProposal(u, id, count) ==
  [op |-> "propose", app |-> "voting", user |-> u, id |-> id, numbers |-> {}, indexes |-> <<>>,
   boxes |-> {ProposalBox(id), StateBox(u), TotalBox(lastBoxIndex(count))},
   refs |-> <<3 + 1>>, pay |-> Price["proposal"]]

GenerateCreateProposal(c) ==
  /\ pc[c] = "vault"
  /\ Prepares(c, CreateProposal(Owner[c], req[c].id, seen[c].global.count))
  /\ UNCHANGED <<chainVars, req, seen, group, answer, contracts, facts>>

\* A condition above is not met, or the node failed.
GiveUp(c) ==
  /\ pc[c] \in {"proposal", "voter", "powers", "vault"}
  /\ Go(c, "gaveUp")
  /\ UNCHANGED <<chainVars, req, seen, group, answer, votingVars>>
-----------------------------------------------------------------------------
NoFacts == [proposal |-> {}, at |-> 0, names |-> {}]

VotingInit ==
  /\ Init
  /\ proposals = FirstProposals /\ periods = FirstPeriods
  /\ marks = {} /\ held = {}
  /\ surplus = [a \in Apps |-> 0]
  /\ facts = [c \in Calls |-> NoFacts]
  /\ ballot = [c \in Calls |-> None]

VotingNext ==
  \/ Next /\ UNCHANGED votingVars
  \/ NewPeriod
  \/ \E v \in OtherVotes : OtherVote(v[1], v[2])
  \/ \E c \in Calls :
       \/ \E r \in Ballots[c] :
            \/ FetchProposal(c, r)
            \/ \E failed \in BOOLEAN, lag \in Lags : FetchVoter(c, r, failed, now - lag)
            \/ FetchVaultState(c, r)
       \/ GetAllBoxNames(c)
       \/ FetchRewardsState(c)
       \/ ReadPowerBox(c)
       \/ \E failed \in BOOLEAN : GenerateCastVote(c, failed)
       \/ GenerateStakingVote(c)
       \/ GenerateClaimReward(c)
       \/ GenerateCreateProposal(c)
       \/ GiveUp(c)
       \/ ExecuteBallot(c)
       \/ RefuseBallot(c)

VotingSpec == VotingInit /\ [][VotingNext]_<<vars, votingVars>>
-----------------------------------------------------------------------------
(* Properties.                                                              *)

\* No transaction refers to more than the eight things one may (slice(0, 7)
\* and slice(0, 6) in the transactions.ts of staking-voting and rewards).
VotingTypeOK ==
  /\ periods \in 0 .. MaxPeriods
  /\ surplus \in [Apps -> Nat]
  /\ \A m \in marks : m[1] \in Apps /\ m[2] \in Users /\ m[3] \in Nat
  /\ \A c \in Calls : pc[c] = "prepared" =>
       /\ ballot[c].pay \in Nat
       /\ \A k \in DOMAIN ballot[c].refs : ballot[c].refs[k] \in 1 .. MaxRefs

\* The row a vote or a claim names for a time stays the last one by that time,
\* whatever is done to the lock while the history is read and until the group
\* is executed, if the time had passed when the account's state was read.
PowerIndexStaysRight ==
  \A c \in Calls :
    pc[c] = "prepared" /\ ~seen[c].failed /\ account[Owner[c]].powers # <<>> =>
      \A k \in DOMAIN ballot[c].indexes :
        TimesOf(ballot[c])[k] < facts[c].at => RightIndex(ballot[c], k)

\* A group of a user entitled to what it does is refused only when a row came
\* at the very time the group asks for or the history was not read, when the
\* staking vote's number is past the first sheet, which the SDK divides
\* otherwise, when a claim needs a new sheet besides the one it pays for, or an
\* account has no power, and when the last box of total power is another one
\* (prepareCastVote..., prepareClaimRewards... and prepareCreateProposal...).
PaidSheetSuffices(c, b) ==
  /\ Cardinality(KeptFor(b) \ held) <= 1
  /\ KeptFor(b) \ held \subseteq SheetsLookedUp(b.user, req[c])

MayBeRefused(c, b) ==
  \/ seen[c].failed
  \/ \E k \in DOMAIN TimesOf(b) : TimesOf(b)[k] >= facts[c].at
  \/ b.op = "stake" /\ \E n \in b.numbers : n >= SheetBits
  \/ b.op = "claim" /\ (~PaidSheetSuffices(c, b) \/ account[b.user].powers = <<>>)
  \/ b.op = "propose" /\ LastTotalBox \notin b.boxes

RefusedOnlyIfKnown ==
  [][\A c \in Calls :
       pc[c] = "prepared" /\ Entitled(ballot[c]) /\ pc'[c] = "notCounted" =>
         MayBeRefused(c, ballot[c])]_<<vars, votingVars>>

\* A group that is executed pays for the boxes it makes and no more, but when
\* boxes it found missing were made since, and for a claim that ends where a
\* sheet does.  It pays less only for a claim of several sheets, when what was
\* paid too much before makes up for it (paymentAmount,
\* createAttendanceSheetBox, createRewardClaimSheet).
PaysFairly(c, b, cost) ==
  \/ b.pay = cost
  \/ /\ b.pay > cost
     /\ \/ ~(KeptFor(b) \cap held \subseteq facts[c].names)
        \/ b.op = "claim" /\ ~(SheetsLookedUp(b.user, req[c]) \subseteq KeptFor(b))
  \/ b.pay < cost /\ b.op = "claim" /\ Cardinality(KeptFor(b)) > 1

PaysForWhatItMakes ==
  [][\A c \in Calls :
       pc[c] = "prepared" /\ pc'[c] = "counted" =>
         PaysFairly(c, ballot[c], PriceOf(KeptFor(ballot[c]) \ held))]_<<vars, votingVars>>
==============================================================================
