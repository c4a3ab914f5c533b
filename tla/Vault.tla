-------------------------------- MODULE Vault --------------------------------
(***************************************************************************)
(* Locking TINY in the governance vault and reading the voting power a     *)
(* lock gives (governance/vault and the first half of governance/index.ts  *)
(* under src/src).                                                         *)
(*                                                                         *)
(* The vault keeps its history in boxes: one row per change of an          *)
(* account's power, and one row of total power per change of anyone's lock *)
(* and per week that began meanwhile, ArrayLen rows to a box.  A           *)
(* transaction group reaches only the boxes it names, and has to pay for   *)
(* those it makes the vault create.  So the SDK foretells, from an account *)
(* state, a global state and a slope change read one after the other, and  *)
(* from the local clock, which rows the vault will add once the group      *)
(* executes: later, and after whatever others did first.                   *)
(*                                                                         *)
(* The contract is external and modelled as the SDK relies on it: weekly   *)
(* checkpoints are made by whoever comes next, and each call adds a row.   *)
(***************************************************************************)
EXTENDS Integers, Sequences, FiniteSets, FiniteSetsExt

CONSTANTS Calls,          \* calls of the SDK
          Owner,          \* Owner[c]: the account call c is made for
          Asks,           \* Asks[c]: the operations c may be
          WEEK,           \* in seconds
          ArrayLen,       \* ACCOUNT_POWER_ and TOTAL_POWER_BOX_ARRAY_LEN
          MaxRefs,        \* boxes one transaction may name
          Unit,           \* TWO_TO_THE_64, the scale of a slope
          MaxLockTime,    \* MAX_LOCK_TIME
          MinLockAmount,  \* MIN_LOCK_AMOUNT
          Cost,           \* Cost[kind]: minimum balance of a box of each kind
          Amounts, Ends,  \* what the calls may ask for
          Times,          \* times power is asked for
          Instants,       \* values the chain's clock takes
          Lags,           \* how far the local clock may be behind the chain's
          OtherLocks, MaxOthers,  \* locks other accounts make, and how many
          Starts          \* what the vault may hold at first

Users == {Owner[c] : c \in Calls}

ASSUME OwnerAssumption == IsFiniteSet(Calls) /\ DOMAIN Owner = Calls /\ DOMAIN Asks = Calls
\* A group adds up to four rows, which are in the last box and the next one.
ASSUME SizeAssumption ==
  /\ {WEEK, ArrayLen, MaxRefs, Unit, MaxLockTime} \subseteq Nat \ {0}
  /\ ArrayLen >= 4 /\ MaxRefs >= 8
ASSUME CostAssumption == Cost \in [{"state", "power", "tp", "sc"} -> Nat \ {0}]
ASSUME RequestAssumption ==
  /\ Amounts \cup Ends \cup Times \cup Instants \cup Lags \cup {MinLockAmount, MaxOthers} \subseteq Nat
  /\ MinLockAmount > 0
  /\ OtherLocks \subseteq [amount : Nat, end : {t \in Nat : t % WEEK = 0}]

VARIABLES
  now,         \* chain: the time of the latest block
  total,       \* chain: the rows of total power
  slopeDelta,  \* chain: the slope change boxes, by the week they fall due
  account,     \* chain: account[u]; log is what its rows stand for
  spare,       \* chain: what the vault was paid beyond what its boxes cost
  others,      \* chain: how many locks of others there were
  pc,          \* pc[c]: where call c is
  req,         \* req[c]: what was asked
  seen,        \* seen[c]: what the call read
  group,       \* group[c]: the transaction group built
  answer       \* answer[c]: the power answered

chainVars == <<now, total, slopeDelta, account, spare, others>>
callVars == <<pc, req, seen, group, answer>>
vars == <<chainVars, callVars>>

None == [none |-> TRUE]
AtLeast0(n) == IF n < 0 THEN 0 ELSE n
-----------------------------------------------------------------------------
(* The arithmetic of power.                                                 *)

getSlope(amount) == (amount * Unit) \div MaxLockTime

getBias(slope, timeDelta) == (slope * timeDelta) \div Unit

calculateTinyPower(amount, end, at) ==
  IF end < at THEN 0 ELSE getBias(getSlope(amount), end - at)

\* The power a row gives some time later.
PowerOf_Unclamped(row, at) == row.bias - getBias(row.slope, at - row.timestamp)
PowerOf(row, at) == AtLeast0(row.bias - getBias(row.slope, at - row.timestamp))

\* The last row made at or before a time: 0 if there is none.
getPowerIndexAt_Before(rows, at) ==
  Cardinality({i \in DOMAIN rows : \A j \in 1 .. i : rows[j].timestamp < at})
getPowerIndexAt(rows, at) ==
  Cardinality({i \in DOMAIN rows : \A j \in 1 .. i : rows[j].timestamp <= at})
-----------------------------------------------------------------------------
(* Rows and boxes.                                                          *)

\* Rounded up, as the callers take it.
getStartTimestampOfWeek(t) == ((t + WEEK - 1) \div WEEK) * WEEK

\* The rows of total power the SDK expects the vault to add, by their times.
getNewTotalPowerTimestamps(old, new) ==
  LET first == getStartTimestampOfWeek(old) + WEEK
      weeks == IF first < new THEN (new - first + WEEK - 1) \div WEEK ELSE 0
  IN  [i \in 1 .. weeks + 1 |-> IF i <= weeks THEN first + (i - 1) * WEEK ELSE new]

lastBoxIndex(count) == IF count = 0 THEN 0 ELSE (count - 1) \div ArrayLen

freeSpaceCount_FullWhenEmpty(count) == ArrayLen - (count % ArrayLen)
freeSpaceCount(count) == IF count % ArrayLen = 0 THEN 0 ELSE ArrayLen - (count % ArrayLen)

StateBox(u) == <<"state", u>>
PowerBox(u, i) == <<"power", u, i>>
TotalBox(i) == <<"tp", i>>
SlopeBox(t) == <<"sc", t>>

\* The box a row is in, rows counted from 0.
BoxOf(row) == row \div ArrayLen

RowsIn(rows, box) ==
  SubSeq(rows, box * ArrayLen + 1,
         IF Len(rows) < (box + 1) * ArrayLen THEN Len(rows) ELSE (box + 1) * ArrayLen)
-----------------------------------------------------------------------------
(* The contract.                                                            *)

Weeks(from, to) == {t \in from + 1 .. to : t % WEEK = 0}
LastTime(rows) == rows[Len(rows)].timestamp

\* Total power some time after a row, with the slope change due then.
Decayed(row, at, deltas) ==
  LET due == IF at % WEEK = 0 /\ at \in DOMAIN deltas THEN deltas[at] ELSE 0
  IN  [timestamp |-> at, bias |-> PowerOf(row, at), slope |-> AtLeast0(row.slope - due)]

\* A row for every week begun since the last one, and one for now.
Checkpoints(rows, deltas) ==
  LET start == LastTime(rows)
      first == (start \div WEEK + 1) * WEEK
      weeks == Cardinality(Weeks(start, now - 1))
      at(i) == IF i <= weeks THEN first + (i - 1) * WEEK ELSE now
      new[i \in 0 .. weeks + 1] ==
        IF i = 0 THEN rows[Len(rows)] ELSE Decayed(new[i - 1], at(i), deltas)
  IN  rows \o [i \in 1 .. weeks + 1 |-> new[i]]

Raised(rows, bias, slope) ==
  [rows EXCEPT ![Len(rows)].bias = AtLeast0(@ + bias), ![Len(rows)].slope = AtLeast0(@ + slope)]

WithDelta(deltas, t, d) ==
  [w \in DOMAIN deltas \cup {t} |->
     (IF w \in DOMAIN deltas THEN deltas[w] ELSE 0) + (IF w = t THEN d ELSE 0)]

\* The row of power a lock gives.
PowerRow(lock) ==
  [timestamp |-> lock.timestamp,
   bias  |-> getBias(getSlope(lock.amount), AtLeast0(lock.end - lock.timestamp)),
   slope |-> getSlope(lock.amount)]

\* An account once its lock is changed: a row of its power is added.
Relocked(acc, amount, end) ==
  LET lock == [timestamp |-> now, amount |-> amount, end |-> end]
  IN  [exists |-> TRUE, amount |-> amount, end |-> end,
       powers |-> Append(acc.powers, PowerRow(lock)), log |-> Append(acc.log, lock)]

CurrentPower(acc) == IF acc.powers = <<>> THEN 0 ELSE PowerOf(acc.powers[Len(acc.powers)], now)

\* What one application call of account u makes of the vault v.
After(v, u, call) ==
  LET acc    == v.account[u]
      amount == IF call.op = "extend" THEN acc.amount
                ELSE IF call.op = "withdraw" THEN 0 ELSE acc.amount + call.amount
      end    == IF call.op \in {"create", "extend"} THEN call.end
                ELSE IF call.op = "withdraw" THEN 0 ELSE acc.end
      after  == Relocked(acc, amount, end)
      change == getSlope(amount) - getSlope(acc.amount)
      deltas == IF call.op = "extend"
                THEN WithDelta(WithDelta(v.slopeDelta, acc.end, -getSlope(amount)),
                               end, getSlope(amount))
                ELSE WithDelta(v.slopeDelta, end, change)
      rows   == Raised(Checkpoints(v.total, v.slopeDelta),
                       CurrentPower(after) - CurrentPower(acc), change)
  IN  IF call.op = "withdraw"
      THEN [v EXCEPT !.account[u] = after]
      ELSE [total |-> rows, slopeDelta |-> deltas, account |-> [v.account EXCEPT ![u] = after]]

Legal(v, u, call) ==
  LET acc == v.account[u]
  IN  CASE call.op = "create"   -> acc.amount = 0 /\ call.end > now
        [] call.op = "increase" -> acc.amount > 0 /\ acc.end > now
        [] call.op = "extend"   -> acc.amount > 0 /\ acc.end > now /\ call.end > acc.end
        [] call.op = "withdraw" -> acc.amount > 0 /\ acc.end <= now

Boxes(v) ==
  {StateBox(u) : u \in {w \in Users : v.account[w].exists}}
    \cup (UNION {{PowerBox(u, BoxOf(r)) : r \in 0 .. Len(v.account[u].powers) - 1} : u \in Users})
    \cup {TotalBox(BoxOf(r)) : r \in 0 .. Len(v.total) - 1}
    \cup {SlopeBox(t) : t \in DOMAIN v.slopeDelta}

\* The boxes of the last row and of those added to it.
RowBoxes(before, after) == {BoxOf(r) : r \in AtLeast0(before - 1) .. after - 1}

TotalBoxesTouched(v, w) == {TotalBox(i) : i \in RowBoxes(Len(v.total), Len(w.total))}

Touched(v, w, u, call) ==
  {StateBox(u)}
    \cup {PowerBox(u, i) : i \in RowBoxes(Len(v.account[u].powers), Len(w.account[u].powers))}
    \cup (IF call.op = "withdraw" THEN {}
          ELSE TotalBoxesTouched(v, w)
                 \cup {SlopeBox(t) : t \in Weeks(LastTime(v.total), now)}
                 \cup {SlopeBox(t) : t \in {v.account[u].end, w.account[u].end} \ {0}})

Vault == [total |-> total, slopeDelta |-> slopeDelta, account |-> account]

\* A group is one application call, or an increase and then an extension.
Middle(g) == After(Vault, g.user, g.calls[1])
Outcome(g) == IF Len(g.calls) = 1 THEN Middle(g) ELSE After(Middle(g), g.user, g.calls[2])

CostOf(boxes) ==
  LET n(kind) == Cost[kind] * Cardinality({b \in boxes : b[1] = kind})
  IN  n("state") + n("power") + n("tp") + n("sc")

Legally(g) == /\ Legal(Vault, g.user, g.calls[1])
              /\ Len(g.calls) = 2 => Legal(Middle(g), g.user, g.calls[2])

TouchedBy(g) ==
  Touched(Vault, Middle(g), g.user, g.calls[1])
    \cup (IF Len(g.calls) = 1 THEN {}
          ELSE Touched(Middle(g), Outcome(g), g.user, g.calls[2]))
Created(g) == Boxes(Outcome(g)) \ Boxes(Vault)
Named(g) == UNION {{refs[i] : i \in DOMAIN refs} : refs \in {g.refs[k] : k \in DOMAIN g.refs}}

Reached(g) == /\ \A k \in DOMAIN g.refs : Len(g.refs[k]) <= MaxRefs
              /\ TouchedBy(g) \subseteq Named(g)
PaidFor(g) == CostOf(Created(g)) <= spare + g.pay

\* The user signs the group and sends it at some time, and it is executed...
Execute(c) ==
  /\ pc[c] = "built"
  /\ Legally(group[c]) /\ Reached(group[c]) /\ PaidFor(group[c])
  /\ total' = Outcome(group[c]).total
  /\ slopeDelta' = Outcome(group[c]).slopeDelta
  /\ account' = Outcome(group[c]).account
  /\ spare' = spare + group[c].pay - CostOf(Created(group[c]))
  /\ pc' = [pc EXCEPT ![c] = "executed"]
  /\ UNCHANGED <<now, others, req, seen, group, answer>>

\* ... or refused.
Refuse(c) ==
  /\ pc[c] = "built"
  /\ ~(Legally(group[c]) /\ Reached(group[c]) /\ PaidFor(group[c]))
  /\ pc' = [pc EXCEPT ![c] = "refused"]
  /\ UNCHANGED <<chainVars, req, seen, group, answer>>

\* Another account locks, naming and paying for what that takes.
OtherLock(l) ==
  /\ others < MaxOthers
  /\ l.end > now
  /\ others' = others + 1
  /\ total' = Raised(Checkpoints(total, slopeDelta),
                     calculateTinyPower(l.amount, l.end, now), getSlope(l.amount))
  /\ slopeDelta' = WithDelta(slopeDelta, l.end, getSlope(l.amount))
  /\ UNCHANGED <<now, account, spare, callVars>>

Tick ==
  /\ \E t \in Instants : t > now /\ now' = t
  /\ UNCHANGED <<total, slopeDelta, account, spare, others, callVars>>
-----------------------------------------------------------------------------
(* Building the groups.  s is an account state as read, g a global state.   *)

Slices(boxes) ==
  <<SubSeq(boxes, 1, IF Len(boxes) < 8 THEN Len(boxes) ELSE 8), SubSeq(boxes, 9, Len(boxes))>>

\* Always the next box too: others may add rows before the group executes.
TotalBoxes_NextOnlyWhenFull(g, expected) ==
  <<TotalBox(lastBoxIndex(g.count))>>
    \o (IF Len(expected) > freeSpaceCount(g.count)
        THEN <<TotalBox(lastBoxIndex(g.count) + 1)>> ELSE <<>>)
TotalBoxes(g, expected) ==
  <<TotalBox(lastBoxIndex(g.count)), TotalBox(lastBoxIndex(g.count) + 1)>>

NextPowerBox(u, s) ==
  IF freeSpaceCount(s.count) = 0 THEN <<PowerBox(u, lastBoxIndex(s.count) + 1)>> ELSE <<>>

\* The slope change boxes of the weeks begun.
WeekBoxes(expected) ==
  LET begun[i \in 0 .. Len(expected)] ==
        IF i = 0 THEN <<>>
        ELSE IF expected[i] % WEEK = 0 THEN Append(begun[i - 1], SlopeBox(expected[i]))
        ELSE begun[i - 1]
  IN  begun[Len(expected)]

PowerCost(s) == IF freeSpaceCount(s.count) = 0 THEN Cost["power"] ELSE 0
TotalCost_WhenJustFilled(g, expected) ==
  IF Len(expected) >= freeSpaceCount(g.count) THEN Cost["tp"] ELSE 0
TotalCost(g, expected) == IF Len(expected) > freeSpaceCount(g.count) THEN Cost["tp"] ELSE 0

\* accounts: the account state read, if any; slopeThere: the lock end's box is.
CreateLock(u, accounts, g, slopeThere, r, expected) ==
  [call |-> [op |-> "create", amount |-> r.amount, end |-> r.end],
   refs |-> Slices(
     <<StateBox(u)>> \o TotalBoxes(g, expected)
       \o (IF accounts = {} THEN <<PowerBox(u, 0)>>
           ELSE LET s == CHOOSE x \in accounts : TRUE
                IN  <<PowerBox(u, lastBoxIndex(s.count))>> \o NextPowerBox(u, s))
       \o <<SlopeBox(r.end)>> \o WeekBoxes(expected)),
   pay  |-> (IF accounts = {} THEN Cost["state"] + Cost["power"]
             ELSE PowerCost(CHOOSE x \in accounts : TRUE))
            + TotalCost(g, expected) + (IF slopeThere THEN 0 ELSE Cost["sc"])]

IncreaseLockAmount(u, s, g, r, expected) ==
  [call |-> [op |-> "increase", amount |-> r.amount, end |-> 0],
   refs |-> << <<StateBox(u), PowerBox(u, lastBoxIndex(s.count))>> \o TotalBoxes(g, expected)
                 \o <<SlopeBox(s.end)>> \o WeekBoxes(expected) \o NextPowerBox(u, s), <<>> >>,
   pay  |-> TotalCost(g, expected) + PowerCost(s)]

ExtendLockEndTime(u, s, g, delta, r, expected) ==
  [call |-> [op |-> "extend", amount |-> 0, end |-> r.end],
   refs |-> Slices(
     <<StateBox(u), PowerBox(u, lastBoxIndex(s.count))>> \o TotalBoxes(g, expected)
       \o <<SlopeBox(s.end), SlopeBox(r.end)>> \o NextPowerBox(u, s) \o WeekBoxes(expected)),
   pay  |-> (IF delta = 0 THEN Cost["sc"] ELSE 0) + PowerCost(s) + TotalCost(g, expected)]

Withdraw(u, s) ==
  [call |-> [op |-> "withdraw", amount |-> 0, end |-> 0],
   refs |-> << <<StateBox(u), PowerBox(u, lastBoxIndex(s.count)),
                 PowerBox(u, lastBoxIndex(s.count) + 1)>> >>,
   pay  |-> PowerCost(s)]

Group(u, local, parts) ==
  [user  |-> u, built |-> local,
   calls |-> [i \in DOMAIN parts |-> parts[i].call],
   refs  |-> IF Len(parts) = 1 THEN parts[1].refs ELSE parts[1].refs \o parts[2].refs,
   pay   |-> IF Len(parts) = 1 THEN parts[1].pay ELSE parts[1].pay + parts[2].pay]
-----------------------------------------------------------------------------
(* The calls.  An action ends where the code awaits.                        *)

Go(c, place) == pc' = [pc EXCEPT ![c] = place]
Sees(c, field, x) == seen' = [seen EXCEPT ![c][field] = x]
Answers(c, n) == Go(c, "answered") /\ answer' = [answer EXCEPT ![c] = n]

\* getAccountState: any error is taken for there being no account.
AccountRead(u, failed) ==
  IF failed \/ ~account[u].exists THEN {}
  ELSE {[end |-> account[u].end, count |-> Len(account[u].powers)]}

\* What is asked: with too small an amount, or an end within a week, no group
\* would be built.
Requests ==
  LET amounts == {a \in Amounts : a >= MinLockAmount}
      ends    == {e \in Ends : e % WEEK = 0}
  IN
  [op : {"create", "both"}, amount : amounts, end : ends, at : {0}]
    \cup [op : {"increase"}, amount : amounts, end : {0}, at : {0}]
    \cup [op : {"extend"}, amount : {0}, end : ends, at : {0}]
    \cup [op : {"withdraw"}, amount : {0}, end : {0}, at : {0}]
    \cup [op : {"tinyPower", "totalPower"}, amount : {0}, end : {0}, at : Times]

\* fetchAccountState, the first read of all but getTotalTinyPower.
FetchAccountState(c, r, failed) ==
  /\ pc[c] = "idle" /\ r.op \in Asks[c] \ {"totalPower"}
  /\ failed => account[Owner[c]].exists
  /\ req' = [req EXCEPT ![c] = r]
  /\ seen' = [seen EXCEPT ![c].account = AccountRead(Owner[c], failed), ![c].failed = failed,
                ![c].rows = Len(account[Owner[c]].powers)]
  /\ Go(c, "account")
  /\ UNCHANGED <<chainVars, group, answer>>

\* fetchVaultAppGlobalState.
FetchGlobalState(c, r) ==
  /\ \/ pc[c] = "idle" /\ r.op \in Asks[c] \cap {"totalPower"}
     \/ pc[c] = "account" /\ r = req[c] /\ r.op \in {"create", "increase", "extend", "both"}
  /\ req' = [req EXCEPT ![c] = r]
  /\ Sees(c, "global", [count |-> Len(total), last |-> LastTime(total), at |-> now])
  /\ Go(c, "global")
  /\ UNCHANGED <<chainVars, group, answer>>

\* Its errors are swallowed: getTotalTinyPower answers 0 then, the others throw.
FailGlobalState(c, r) ==
  /\ pc[c] = "idle" /\ r.op \in Asks[c] \cap {"totalPower"}
  /\ req' = [req EXCEPT ![c] = r]
  /\ Sees(c, "failed", TRUE)
  /\ Answers(c, 0)
  /\ UNCHANGED <<chainVars, group>>

SeenAccount(c) == CHOOSE s \in seen[c].account : TRUE

\* What follows the last read: the group is built by the local clock.
Generate(c, place, local) ==
  /\ pc[c] = place
  /\ seen[c].account # {} \/ req[c].op = "create"
  /\ local >= seen[c].global.last
  /\ UNCHANGED <<chainVars, req, answer>>

Expected(c, local) == getNewTotalPowerTimestamps(seen[c].global.last, local)

Builds(c, local, parts) ==
  /\ group' = [group EXCEPT ![c] = Group(Owner[c], local, parts)]
  /\ Go(c, "built")
  /\ UNCHANGED seen

GenerateCreateLock(c, local) ==
  /\ Generate(c, "global", local) /\ req[c].op = "create"
  /\ Builds(c, local, <<CreateLock(Owner[c], seen[c].account, seen[c].global,
                            req[c].end \in DOMAIN slopeDelta, req[c], Expected(c, local))>>)

GenerateIncreaseLockAmount(c, local) ==
  /\ Generate(c, "global", local) /\ req[c].op = "increase"
  /\ Builds(c, local, <<IncreaseLockAmount(Owner[c], SeenAccount(c), seen[c].global, req[c],
                                    Expected(c, local))>>)

\* The slope change read, 0 if there is none.
DeltaAt(t) == IF t \in DOMAIN slopeDelta THEN slopeDelta[t] ELSE 0

GenerateExtendLockTime(c, local) ==
  /\ Generate(c, "global", local) /\ req[c].op = "extend"
  /\ req[c].end > SeenAccount(c).end
  /\ Builds(c, local, <<ExtendLockEndTime(Owner[c], SeenAccount(c), seen[c].global,
                                   DeltaAt(req[c].end), req[c], Expected(c, local))>>)

\* The combined call builds its increase before it reads the slope change...
GenerateIncrease(c, local) ==
  /\ Generate(c, "global", local) /\ req[c].op = "both"
  /\ seen' = [seen EXCEPT ![c].first =
       <<IncreaseLockAmount(Owner[c], SeenAccount(c), seen[c].global, req[c],
                            Expected(c, local))>>]
  /\ Go(c, "increase")
  /\ UNCHANGED group

\* ... and adds the row of that to the counts it read.
CountedOn(x) == [x EXCEPT !.count = @ + 1]
GenerateExtension(c, local) ==
  /\ Generate(c, "increase", local)
  /\ req[c].end > SeenAccount(c).end
  /\ Builds(c, local, seen[c].first \o
       <<ExtendLockEndTime(Owner[c], CountedOn(SeenAccount(c)), CountedOn(seen[c].global),
                           DeltaAt(req[c].end), req[c], Expected(c, local))>>)

GenerateWithdraw(c) ==
  /\ pc[c] = "account" /\ req[c].op = "withdraw" /\ seen[c].account # {}
  /\ Builds(c, now, <<Withdraw(Owner[c], SeenAccount(c))>>)
  /\ UNCHANGED <<chainVars, req, answer>>

\* The account state is missing, the new end is not later than the lock's, the
\* local clock is behind the last row, or the node failed: the call throws.
Throw(c) ==
  /\ pc[c] \in {"account", "global", "increase"}
  /\ Go(c, "threw")
  /\ UNCHANGED <<chainVars, req, seen, group, answer>>
-----------------------------------------------------------------------------
(* Reading power.                                                           *)

BoxCount_FullOnly(rows) == rows \div ArrayLen
BoxCount(rows) == (rows + ArrayLen - 1) \div ArrayLen

\* getAccountPowers and getAllTotalPowers read the boxes the count asks for,
\* each with all the rows it has by then.
BoxesToRead(c) ==
  CASE req[c].op = "tinyPower"  -> IF seen[c].account = {} THEN 0 ELSE BoxCount(SeenAccount(c).count)
    [] req[c].op = "totalPower" -> BoxCount(seen[c].global.count)
    [] OTHER -> 0

Reading(c) == \/ pc[c] = "account" /\ req[c].op = "tinyPower"
              \/ pc[c] = "global" /\ req[c].op = "totalPower"

ReadBox(c) ==
  /\ Reading(c) /\ seen[c].boxes < BoxesToRead(c)
  /\ LET rows == IF req[c].op = "tinyPower" THEN account[Owner[c]].powers ELSE total
     IN  seen' = [seen EXCEPT ![c].boxes = @ + 1, ![c].read = @ \o RowsIn(rows, seen[c].boxes)]
  /\ UNCHANGED <<chainVars, pc, req, group, answer>>

AnswerTinyPower(c) ==
  /\ pc[c] = "account" /\ req[c].op = "tinyPower" /\ seen[c].boxes = BoxesToRead(c)
  /\ LET i == getPowerIndexAt(seen[c].read, req[c].at)
     IN  Answers(c, IF i = 0 THEN 0 ELSE PowerOf(seen[c].read[i], req[c].at))
  /\ UNCHANGED <<chainVars, req, seen, group>>

\* getTotalTinyPower decays the row over the weeks since, the one of the row
\* first and the current one not: its first range ends where the row's week
\* began, which getBias refuses unless the row is of that instant.
TotalDecayed_AllSlope(bias, slope, time, delta) ==
  LET b == AtLeast0(bias - getBias(slope, time))
  IN  IF b = 0 \/ slope = 0 THEN <<0, 0>> ELSE <<b, slope>>
TotalDecayed(bias, slope, time, delta) ==
  LET b == AtLeast0(bias - getBias(slope, time))
      s == AtLeast0(slope - delta)
  IN  IF b = 0 \/ s = 0 THEN <<0, 0>> ELSE <<b, s>>

getTotalTinyPower(row, at) ==
  LET week  == row.timestamp \div WEEK
      weeks == at \div WEEK - week
      f[i \in 0 .. weeks] ==
        IF i = 0 THEN <<row.bias, row.slope>>
        ELSE TotalDecayed(f[i - 1][1], f[i - 1][2], IF i = 1 THEN 0 ELSE WEEK,
                          DeltaAt((week + i - 1) * WEEK))
  IN  f[weeks][1]

TotalPowerThrows(row, at) ==
  row.timestamp % WEEK # 0 /\ at \div WEEK > row.timestamp \div WEEK

AnswerTotalPower(c) ==
  /\ pc[c] = "global" /\ req[c].op = "totalPower" /\ seen[c].boxes = BoxesToRead(c)
  /\ LET i == getPowerIndexAt(seen[c].read, req[c].at)
     IN  IF i \in {0, 1} THEN Answers(c, 0)  \* the first row's index, 0, is falsy
         ELSE IF TotalPowerThrows(seen[c].read[i], req[c].at)
         THEN Go(c, "threw") /\ UNCHANGED answer
         ELSE Answers(c, getTotalTinyPower(seen[c].read[i], req[c].at))
  /\ UNCHANGED <<chainVars, req, seen, group>>
-----------------------------------------------------------------------------
Rows == [timestamp : Nat, bias : Nat, slope : Nat]
Locks == [timestamp : Nat, amount : Nat, end : Nat]

\* Rows made one after the other, none after a given time.
InOrder(rows, at) ==
  \A i, j \in DOMAIN rows : i <= j => /\ rows[i].timestamp <= rows[j].timestamp
                                     /\ rows[j].timestamp <= at

IsAccount(acc, at) ==
  /\ {acc.amount, acc.end} \subseteq Nat
  /\ acc.powers \in Seq(Rows) /\ acc.log \in Seq(Locks) /\ InOrder(acc.powers, at)
  /\ Len(acc.powers) = Len(acc.log)
  /\ \A i \in DOMAIN acc.log : acc.powers[i] = PowerRow(acc.log[i])
  /\ acc.exists = (acc.powers # <<>>)

\* The slopes of the accounts' locks that end at a time.
SlopesEnding(accounts, t) ==
  MapThenSumSet(LAMBDA u : IF accounts[u].end = t THEN getSlope(accounts[u].amount) ELSE 0, Users)

\* A lock ends as a week begins, and then its slope falls due.
LocksEnd(accounts, deltas) ==
  /\ \A u \in Users :
       /\ accounts[u].end % WEEK = 0
       /\ IF accounts[u].amount = 0 THEN accounts[u].end = 0 ELSE accounts[u].end \in DOMAIN deltas
  /\ \A t \in DOMAIN deltas : t % WEEK = 0 /\ SlopesEnding(accounts, t) <= deltas[t]

\* The vault at first is as the contract leaves it.
ASSUME StartAssumption ==
  \A start \in Starts :
    /\ start.now \in Nat
    /\ start.total \in Seq(Rows) /\ start.total # <<>> /\ InOrder(start.total, start.now)
    /\ \A t \in DOMAIN start.slopeDelta : t \in Nat /\ start.slopeDelta[t] \in Nat
    /\ start.account = [u \in Users |-> start.account[u]]
    /\ \A u \in Users : IsAccount(start.account[u], start.now)
    /\ LocksEnd(start.account, start.slopeDelta)

Unread == [account |-> {}, failed |-> FALSE, rows |-> 0, global |-> None, first |-> <<>>,
           boxes |-> 0, read |-> <<>>]

Init ==
  /\ \E start \in Starts :
       /\ now = start.now /\ total = start.total /\ slopeDelta = start.slopeDelta
       /\ account = start.account
  /\ spare = 0 /\ others = 0
  /\ pc = [c \in Calls |-> "idle"]
  /\ req = [c \in Calls |-> None]
  /\ seen = [c \in Calls |-> Unread]
  /\ group = [c \in Calls |-> None]
  /\ answer = [c \in Calls |-> None]

Next ==
  \/ Tick
  \/ \E l \in OtherLocks : OtherLock(l)
  \/ \E c \in Calls :
       \/ \E r \in Requests, failed \in BOOLEAN : FetchAccountState(c, r, failed)
       \/ \E r \in Requests : FetchGlobalState(c, r) \/ FailGlobalState(c, r)
       \/ \E lag \in Lags :
            \/ GenerateCreateLock(c, now - lag)
            \/ GenerateIncreaseLockAmount(c, now - lag)
            \/ GenerateExtendLockTime(c, now - lag)
            \/ GenerateIncrease(c, now - lag)
            \/ GenerateExtension(c, now - lag)
       \/ GenerateWithdraw(c)
       \/ Throw(c)
       \/ ReadBox(c)
       \/ AnswerTinyPower(c)
       \/ AnswerTotalPower(c)
       \/ Execute(c)
       \/ Refuse(c)

Spec == Init /\ [][Next]_vars
-----------------------------------------------------------------------------
(* Properties.                                                              *)

TypeOK ==
  /\ now \in Nat /\ others \in 0 .. MaxOthers /\ spare \in Nat
  /\ total \in Seq(Rows) /\ Len(total) > 0
  /\ \A t \in DOMAIN slopeDelta : t % WEEK = 0 /\ slopeDelta[t] \in Nat
  /\ \A u \in Users :
       /\ account[u].powers \in Seq(Rows)
       /\ Len(account[u].log) = Len(account[u].powers)
       /\ account[u].exists <=> account[u].powers # <<>>
  /\ pc \in [Calls -> {"idle", "account", "global", "increase", "built", "executed",
                       "refused", "answered", "threw"}]
  /\ \A c \in Calls : pc[c] = "answered" => answer[c] \in Nat

\* Nothing the group of c was built on has changed.
Undisturbed(c) ==
  /\ ~seen[c].failed
  /\ Len(account[Owner[c]].powers) = seen[c].rows
  /\ req[c].op # "withdraw" => Len(total) = seen[c].global.count

\* The weeks the vault will make rows for are those the SDK foretells.  It
\* leaves out the first to begin after a row made within a week, and cannot
\* know of those to begin once the group is built.
WeeksForetold(c) ==
  req[c].op # "withdraw" =>
    LET last  == seen[c].global.last
        begun == Weeks(last, now)
    IN  /\ last % WEEK = 0 \/ begun = {}
        /\ now = group[c].built \/ begun \subseteq 0 .. group[c].built - 1
        /\ Cardinality(begun) <= 2

\* A group whose user may do what it does, built on states that still hold when
\* it executes, is not refused: it names every box the vault touches, not more
\* to a transaction than allowed, and pays for those created (the box lists and
\* minBalanceIncrease of vault/transactions.ts).
QuietGroupExecutes ==
  [][\A c \in Calls :
       pc[c] = "built" /\ Undisturbed(c) /\ WeeksForetold(c) /\ Legally(group[c])
         => pc'[c] # "refused"]_vars

\* Such a group of a single call pays what its boxes cost and not more, unless
\* a box for the lock's end stood there already (minBalanceIncrease).
PaysForItsBoxes ==
  [][\A c \in Calls :
       /\ pc[c] = "built" /\ pc'[c] = "executed"
       /\ Undisturbed(c) /\ WeeksForetold(c)
       => /\ spare' >= spare
          /\ Len(group[c].calls) = 1
               => spare' - spare \in
                    {0} \cup (IF group[c].calls[1].end \in DOMAIN slopeDelta
                              THEN {Cost["sc"]} ELSE {})]_vars

\* However many rows others add meanwhile, as long as they and the group's own
\* fit in the last box and the next one, the group names the boxes of total
\* power it needs ("Always pass the next total power box ref").
NextTotalBoxSuffices ==
  \A c \in Calls :
    /\ pc[c] = "built" /\ req[c].op # "withdraw" /\ Legally(group[c])
    /\ Len(Outcome(group[c]).total) <= (lastBoxIndex(seen[c].global.count) + 2) * ArrayLen
    => TotalBoxesTouched(Vault, Outcome(group[c])) \subseteq Named(group[c])

LastAt(rows, at) == Cardinality({i \in DOMAIN rows : rows[i].timestamp <= at})

\* The power of a lock by its log.
PowerByLog(log, at) ==
  LET i == LastAt(log, at)
  IN  IF i = 0 THEN 0 ELSE calculateTinyPower(log[i].amount, log[i].end, at)

\* Unless the read of the account state failed, getTinyPower answers, but for
\* rounding, what calculateTinyPower gives for the lock as it stood at some
\* moment of the call, though rows are added while boxes are read.
PowerReadIsReal ==
  \A c \in Calls :
    pc[c] = "answered" /\ req[c].op = "tinyPower" /\ ~seen[c].failed
      => LET log == account[Owner[c]].log
         IN  \E k \in seen[c].rows .. Len(log) :
               answer[c] - PowerByLog(SubSeq(log, 1, k), req[c].at) \in -1 .. 1

\* What the vault makes of a row of total power by a time: the row as the last
\* week to begin until then began.
RowAt(row, at) ==
  LET week  == row.timestamp \div WEEK
      weeks == at \div WEEK - week
      f[k \in 0 .. weeks] ==
        IF k = 0 THEN row ELSE Decayed(f[k - 1], (week + k) * WEEK, slopeDelta)
  IN  f[weeks]

\* The total of all power at a time, from the last row made before it.
TotalRow(rows, at) == RowAt(rows[LastAt(rows, at)], at)
TotalAt(rows, at) == PowerOf(TotalRow(rows, at), at)

\* A total answered for a time gone by when the call began is not less than the
\* total then, whatever rows were added while boxes were read, and not more than
\* the total as the week before that time began or, made later, the row found.
\* But getTotalTinyPower takes off what falls due with the row a second time, so
\* that it may find more, and answers 0 once all slope is gone; the time of the
\* very first row (index 0) is apart, and so is the 0 of FailGlobalState.
TotalReadIsReal ==
  [][\A c \in Calls :
       pc[c] = "global" /\ pc'[c] = "answered" /\ req[c].at < seen[c].global.at
         => LET at     == req[c].at
                known  == LastAt(SubSeq(total, 1, seen[c].global.count), at)
                row    == seen[c].read[LastAt(seen[c].read, at)]
                before == (at \div WEEK - 1) * WEEK
                since  == IF row.timestamp > before THEN row.timestamp ELSE before
            IN  \/ known <= 1
                \/ answer'[c] = 0 /\ TotalRow(total, since).slope <= DeltaAt(row.timestamp)
                \/ /\ answer'[c] >= TotalAt(total, at)
                   /\ DeltaAt(row.timestamp) = 0 => answer'[c] <= TotalAt(total, since)]_vars
==============================================================================
