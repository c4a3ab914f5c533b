---------------------------- MODULE Locks_proofs ----------------------------
(***************************************************************************)
(* Proofs about the groups of locks in Vault: its types, and that a group  *)
(* built on states that still hold executes and pays for its boxes.        *)
(*                                                                         *)
(* To VInv, which says how what a call has seen compares with what there   *)
(* is by now, TInv adds what a call knows while nothing is added to the    *)
(* histories: the account and the totals it saw are those there are, and   *)
(* its group is the one made from them.  It adds too that slopes fall due  *)
(* where locks end.  Under it what the SDK foretells is compared with what *)
(* the vault does: first for a group of one call, then for one of two.     *)
(***************************************************************************)
EXTENDS Governance_proofs
-----------------------------------------------------------------------------
(* Locks and the slopes that fall due.                                      *)

\* The slope of a lock, at its end; together, and what is to fall due then.
Ending(accounts, t) ==
  [x \in Users |-> IF accounts[x].end = t THEN getSlope(accounts[x].amount) ELSE 0]
Due(accounts, t) == Total(Ending(accounts, t), Users)
Owed(deltas, t) == IF t \in DOMAIN deltas THEN deltas[t] ELSE 0

LEMMA UsersFinite == IsFiniteSet(Users)
<1>1. IsFiniteSet(Calls)
  BY OwnerAssumption
<1>2. [c \in Calls |-> Owner[c]] \in Surjection(Calls, Users)
  BY DEF Surjection, Users
<1> QED
  BY <1>1, <1>2, FS_Surjection

LEMMA SlopesEndingIsDue ==
  ASSUME NEW accounts, NEW t
  PROVE  SlopesEnding(accounts, t) = Due(accounts, t)
<1> DEFINE S == Users
           at(x) == IF accounts[x].end = t THEN getSlope(accounts[x].amount) ELSE 0
           w == [x \in S |-> at(x)]
           E(f) == f = [s \in SUBSET S |->
                          IF s = {} THEN 0
                          ELSE at(CHOOSE x \in s : TRUE) + f[s \ {CHOOSE x \in s : TRUE}]]
<1>1. \A s \in SUBSET S : s # {} => w[Pick(s)] = at(CHOOSE x \in s : TRUE)
  BY PickIn DEF Pick
<1>2. ASSUME NEW f  PROVE E(f) <=> Sums(f, w, S)
  <2>1. [s \in SUBSET S |-> IF s = {} THEN 0
                            ELSE at(CHOOSE x \in s : TRUE) + f[s \ {CHOOSE x \in s : TRUE}]]
          = [s \in SUBSET S |-> IF s = {} THEN 0 ELSE w[Pick(s)] + f[s \ {Pick(s)}]]
    <3> HIDE DEF w, at
    <3> QED
      BY <1>1 DEF Pick
  <2> HIDE DEF w, at
  <2> QED
    BY <2>1 DEF Sums
<1>3. PICK f : Sums(f, w, S)
  BY UsersFinite, SumsExists
<1>4. E(CHOOSE g : E(g))
  <2>1. E(f)
    BY <1>2, <1>3
  <2> HIDE DEF E
  <2> QED
    BY <2>1
<1>5. Sums(CHOOSE g : E(g), w, S)
  BY <1>2, <1>4
<1>6. Total(w, S) = (CHOOSE g : E(g))[S]
  <2> HIDE DEF w, E
  <2> QED
    BY <1>5, UsersFinite, TotalIsSum
<1>7. SlopesEnding(accounts, t) = (CHOOSE g : E(g))[S]
  BY DEF SlopesEnding, MapThenSumSet, MapThenFoldSet
<1> QED
  BY <1>6, <1>7 DEF Due, Ending

\* What an account is as far as its lock goes.
HasLock(acc) == acc.amount \in Nat /\ acc.end \in Nat
EndsKnown(accounts, deltas) ==
  /\ \A u \in Users :
       /\ accounts[u].end % WEEK = 0
       /\ IF accounts[u].amount = 0 THEN accounts[u].end = 0 ELSE accounts[u].end \in DOMAIN deltas
  /\ \A t \in DOMAIN deltas : t % WEEK = 0
Covered(accounts, deltas) == \A t \in Nat : Due(accounts, t) <= Owed(deltas, t)

LEMMA SlopeInOrder ==
  /\ getSlope(0) = 0
  /\ \A m, n \in Nat : m <= n => getSlope(m) <= getSlope(n)
<1>1. Unit \in Nat \ {0} /\ MaxLockTime \in Nat \ {0}
  BY SizeAssumption
<1>2. getSlope(0) = 0
  <2>1. 0 * Unit = 0 /\ 0 \div MaxLockTime = 0
    BY <1>1, Z3
  <2> QED
    BY <2>1 DEF getSlope
<1>3. ASSUME NEW m \in Nat, NEW n \in Nat, m <= n  PROVE getSlope(m) <= getSlope(n)
  <2>1. m * Unit \in Nat /\ n * Unit \in Nat /\ m * Unit <= n * Unit
    BY <1>1, <1>3, Z3
  <2> QED
    BY <1>1, <2>1, DivInOrder DEF getSlope
<1> QED
  BY <1>2, <1>3

LEMMA EndingType ==
  ASSUME NEW accounts, \A u \in Users : HasLock(accounts[u]), NEW t
  PROVE  \A x \in Users :
           /\ Ending(accounts, t)[x] \in Nat
           /\ Ending(accounts, t)[x]
                = IF accounts[x].end = t THEN getSlope(accounts[x].amount) ELSE 0
<1> SUFFICES ASSUME NEW x \in Users
             PROVE  /\ Ending(accounts, t)[x] \in Nat
                    /\ Ending(accounts, t)[x]
                         = IF accounts[x].end = t THEN getSlope(accounts[x].amount) ELSE 0
  OBVIOUS
<1>1. Ending(accounts, t)[x] = IF accounts[x].end = t THEN getSlope(accounts[x].amount) ELSE 0
  BY DEF Ending
<1>2. getSlope(accounts[x].amount) \in Nat
  BY SlopeType DEF HasLock
<1> QED
  BY <1>1, <1>2

LEMMA DueType ==
  ASSUME NEW accounts, \A u \in Users : HasLock(accounts[u]), NEW t
  PROVE  Due(accounts, t) \in Nat
  BY UsersFinite, EndingType, TotalNat DEF Due

LEMMA LocksEndIs ==
  ASSUME NEW accounts, \A u \in Users : HasLock(accounts[u]), NEW deltas, Deltas(deltas)
  PROVE  LocksEnd(accounts, deltas) <=> EndsKnown(accounts, deltas) /\ Covered(accounts, deltas)
<1>1. LocksEnd(accounts, deltas)
        <=> /\ EndsKnown(accounts, deltas)
            /\ \A t \in DOMAIN deltas : Due(accounts, t) <= deltas[t]
  <2>1. \A t : SlopesEnding(accounts, t) = Due(accounts, t)
    BY SlopesEndingIsDue
  <2> QED
    BY Zenon, <2>1 DEF LocksEnd, EndsKnown
<1>2. \A t \in DOMAIN deltas : t \in Nat /\ Owed(deltas, t) = deltas[t]
  BY DEF Deltas, Owed
<1>3. ASSUME EndsKnown(accounts, deltas), NEW t \in Nat, t \notin DOMAIN deltas
      PROVE  Due(accounts, t) <= Owed(deltas, t)
  <2>1. ASSUME NEW x \in Users  PROVE Ending(accounts, t)[x] = 0
    <3>1. /\ IF accounts[x].amount = 0 THEN accounts[x].end = 0
             ELSE accounts[x].end \in DOMAIN deltas
      BY <1>3 DEF EndsKnown
    <3>2. CASE accounts[x].amount = 0
      <4>1. getSlope(accounts[x].amount) = 0
        BY <3>2, SlopeInOrder
      <4> QED
        BY <4>1, EndingType
    <3>3. CASE accounts[x].amount # 0
      <4>1. accounts[x].end # t
        BY <1>3, <3>1, <3>3
      <4> QED
        BY <4>1, EndingType
    <3> QED
      BY <3>2, <3>3
  <2>2. Total(Ending(accounts, t), Users) = Cardinality(Users) * 0
    BY <2>1, UsersFinite, TotalOfEqual
  <2>3. Cardinality(Users) \in Nat
    BY UsersFinite, FS_CardinalityType
  <2>4. Due(accounts, t) = 0
    BY <2>2, <2>3 DEF Due
  <2> QED
    BY <1>3, <2>4 DEF Owed
<1> QED
  BY <1>1, <1>2, <1>3 DEF Covered

\* One account's lock is changed.
LEMMA DueChanged ==
  ASSUME NEW accounts, NEW later, \A u \in Users : HasLock(accounts[u]) /\ HasLock(later[u]),
         NEW u \in Users, \A x \in Users \ {u} : later[x] = accounts[x], NEW t
  PROVE  Due(later, t) = Due(accounts, t)
                             - (IF accounts[u].end = t THEN getSlope(accounts[u].amount) ELSE 0)
                             + (IF later[u].end = t THEN getSlope(later[u].amount) ELSE 0)
<1> DEFINE w == Ending(accounts, t)
           v == Ending(later, t)
<1>1. \A x \in Users : w[x] \in Nat /\ v[x] \in Nat
  BY EndingType
<1>2. \A x \in Users \ {u} : v[x] = w[x]
  <2> TAKE x \in Users \ {u}
  <2>1. later[x] = accounts[x] /\ x \in Users
    OBVIOUS
  <2> QED
    BY <2>1, EndingType
<1>3. /\ w[u] = (IF accounts[u].end = t THEN getSlope(accounts[u].amount) ELSE 0)
      /\ v[u] = (IF later[u].end = t THEN getSlope(later[u].amount) ELSE 0)
  BY EndingType
<1> HIDE DEF w, v
<1>4. Total(v, Users) = Total(w, Users) - w[u] + v[u]
  <2>1. /\ \A x \in Users : w[x] \in Int
        /\ \A x \in Users : v[x] \in Int
    BY <1>1
  <2> QED
    BY <1>2, <2>1, UsersFinite, TotalChanged
<1> QED
  BY Zenon, <1>3, <1>4 DEF Due, w, v

LEMMA OwedChanged ==
  ASSUME NEW deltas, Deltas(deltas), NEW t \in Nat, NEW d \in Int
  PROVE  \A w \in Nat : /\ Owed(deltas, w) \in Int
                        /\ Owed(WithDelta(deltas, t, d), w)
                             = Owed(deltas, w) + (IF w = t THEN d ELSE 0)
<1> SUFFICES ASSUME NEW w \in Nat
             PROVE  /\ Owed(deltas, w) \in Int
                    /\ Owed(WithDelta(deltas, t, d), w)
                         = Owed(deltas, w) + (IF w = t THEN d ELSE 0)
  OBVIOUS
<1>1. Owed(deltas, w) \in Int
  BY DEF Owed, Deltas
<1> DEFINE new == WithDelta(deltas, t, d)
<1>2. /\ DOMAIN new = DOMAIN deltas \cup {t}
      /\ \A x \in DOMAIN deltas \cup {t} :
           new[x] = (IF x \in DOMAIN deltas THEN deltas[x] ELSE 0) + (IF x = t THEN d ELSE 0)
  BY DEF WithDelta
<1> HIDE DEF new
<1>3. Owed(new, w) = Owed(deltas, w) + (IF w = t THEN d ELSE 0)
  <2>1. CASE w \in DOMAIN new
    <3>1. new[w] = (IF w \in DOMAIN deltas THEN deltas[w] ELSE 0) + (IF w = t THEN d ELSE 0)
      BY <1>2, <2>1
    <3> QED
      BY <2>1, <3>1 DEF Owed
  <2>2. CASE w \notin DOMAIN new
    <3>1. w # t /\ w \notin DOMAIN deltas
      BY <1>2, <2>2
    <3> QED
      BY <2>2, <3>1 DEF Owed
  <2> QED
    BY <2>1, <2>2
<1> QED
  BY <1>1, <1>3 DEF new

\* A call of a group as the SDK makes it.
CallFits(call) ==
  /\ IsCall(call) /\ call.op \in {"create", "increase", "extend", "withdraw"}
  /\ call.op = "create" => call.amount > 0
  /\ call.op \in {"create", "extend"} => call.end % WEEK = 0

LEMMA AfterDeltas ==
  ASSUME NEW v, v = [total |-> v.total, slopeDelta |-> v.slopeDelta, account |-> v.account],
         NEW u, NEW call
  PROVE  After(v, u, call).slopeDelta =
           LET acc == v.account[u]
               s   == getSlope(AmountAfter(acc, call))
               end == EndAfter(acc, call)
           IN  IF call.op = "withdraw" THEN v.slopeDelta
               ELSE IF call.op = "extend"
                    THEN WithDelta(WithDelta(v.slopeDelta, acc.end, -s), end, s)
                    ELSE WithDelta(v.slopeDelta, end, s - getSlope(acc.amount))
<1> DEFINE acc == v.account[u]
           amount == AmountAfter(acc, call)
           end == EndAfter(acc, call)
           after == Relocked(acc, amount, end)
           s == getSlope(amount)
           change == s - getSlope(acc.amount)
           deltas == IF call.op = "extend"
                     THEN WithDelta(WithDelta(v.slopeDelta, acc.end, -s), end, s)
                     ELSE WithDelta(v.slopeDelta, end, change)
           rows == Raised(Checkpoints(v.total, v.slopeDelta),
                          CurrentPower(after) - CurrentPower(acc), change)
           accounts == [v.account EXCEPT ![u] = after]
           w == After(v, u, call)
<1>1. w = IF call.op = "withdraw" THEN [v EXCEPT !.account[u] = after]
          ELSE [total |-> rows, slopeDelta |-> deltas, account |-> accounts]
  BY Zenon DEF After, AmountAfter, EndAfter
<1> HIDE DEF w, rows, deltas, accounts, after, amount, end
<1>2. [v EXCEPT !.account[u] = after].slopeDelta = v.slopeDelta
  OBVIOUS
<1>3. w.slopeDelta = IF call.op = "withdraw" THEN v.slopeDelta ELSE deltas
  BY <1>1, <1>2
<1> QED
  BY Zenon, <1>3 DEF w, deltas, amount, end

LEMMA AfterEnds ==
  ASSUME now \in Nat, NEW v, IsVault(v, now), LocksEnd(v.account, v.slopeDelta),
         NEW u \in Users, NEW call, CallFits(call), Legal(v, u, call)
  PROVE  LocksEnd(After(v, u, call).account, After(v, u, call).slopeDelta)
<1> DEFINE acc == v.account[u]
           amount == AmountAfter(acc, call)
           end == EndAfter(acc, call)
           w == After(v, u, call)
           s == getSlope(amount)
           s0 == getSlope(acc.amount)
<1>1. IsCall(call)
  BY DEF CallFits
<1>2. IsVault(w, now) /\ w.account = [v.account EXCEPT ![u] = Relocked(acc, amount, end)]
  BY <1>1, AfterIs
<1>3. /\ v = [total |-> v.total, slopeDelta |-> v.slopeDelta, account |-> v.account]
      /\ Deltas(v.slopeDelta) /\ Deltas(w.slopeDelta)
      /\ v.account = [x \in Users |-> v.account[x]]
      /\ \A x \in Users : IsAccount(v.account[x], now) /\ IsAccount(w.account[x], now)
  BY <1>2 DEF IsVault
<1>4. \A x \in Users : HasLock(v.account[x]) /\ HasLock(w.account[x])
  BY <1>3 DEF HasLock, IsAccount
<1>5. w.slopeDelta =
        IF call.op = "withdraw" THEN v.slopeDelta
        ELSE IF call.op = "extend"
             THEN WithDelta(WithDelta(v.slopeDelta, acc.end, -s), end, s)
             ELSE WithDelta(v.slopeDelta, end, s - s0)
  BY Zenon, <1>3, AfterDeltas
<1>6. w.account = [x \in Users |-> IF x = u THEN Relocked(acc, amount, end) ELSE v.account[x]]
  BY <1>2, <1>3
<1>7. /\ w.account[u].amount = amount /\ w.account[u].end = end
      /\ \A x \in Users \ {u} : w.account[x] = v.account[x]
  BY <1>6 DEF Relocked
<1>8. /\ acc.amount \in Nat /\ acc.end \in Nat /\ call.amount \in Nat /\ call.end \in Nat
      /\ amount \in Nat /\ end \in Nat
  BY <1>1, <1>4, <1>7 DEF HasLock, IsCall
<1>9. call.op \in {"create", "increase", "extend", "withdraw"}
  BY DEF CallFits
<1>10. /\ call.op = "withdraw" => amount = 0 /\ end = 0
       /\ call.op = "extend" => amount = acc.amount /\ end = call.end
       /\ call.op = "create" => amount = acc.amount + call.amount /\ end = call.end
       /\ call.op = "increase" => amount = acc.amount + call.amount /\ end = acc.end
  BY DEF AmountAfter, EndAfter
<1>11. /\ EndsKnown(v.account, v.slopeDelta) /\ Covered(v.account, v.slopeDelta)
  BY <1>3, <1>4, LocksEndIs
<1>12. /\ acc.end % WEEK = 0 /\ (acc.amount = 0 => acc.end = 0)
       /\ (acc.amount # 0 => acc.end \in DOMAIN v.slopeDelta)
  BY <1>11 DEF EndsKnown
<1>13. /\ call.op = "create" => acc.amount = 0
       /\ call.op \in {"increase", "extend", "withdraw"} => acc.amount > 0
  BY <1>9 DEF Legal
<1>14. s \in Nat /\ s0 \in Nat /\ getSlope(0) = 0 /\ (acc.amount <= amount => s0 <= s)
  BY <1>8, SlopeType, SlopeInOrder
<1>15. 0 % WEEK = 0
  BY WeekIs
<1> DEFINE D == v.slopeDelta
           E == w.slopeDelta
           At(t) == Owed(D, t)
           Old(t) == IF acc.end = t THEN s0 ELSE 0
           New(t) == IF end = t THEN s ELSE 0
<1>16. Deltas(D) /\ Deltas(E)
  BY <1>3
<1>17. /\ call.op # "withdraw" => DOMAIN E = DOMAIN D \cup {acc.end, end} \/ DOMAIN E = DOMAIN D \cup {end}
       /\ call.op = "withdraw" => DOMAIN E = DOMAIN D
       /\ call.op # "withdraw" => end \in DOMAIN E
       /\ call.op = "extend" \/ call.op # "withdraw" => DOMAIN D \subseteq DOMAIN E
  <2>1. CASE call.op = "withdraw"
    <3>1. E = D
      BY Zenon, <1>5, <2>1
    <3> QED
      BY <2>1, <3>1
  <2>2. CASE call.op = "extend"
    <3> DEFINE first == WithDelta(D, acc.end, -s)
    <3>1. E = WithDelta(first, end, s)
      BY <1>5, <2>2
    <3>2. -s \in Int /\ s \in Int
      BY <1>14
    <3> HIDE DEF s, D
    <3>3. DOMAIN first = DOMAIN D \cup {acc.end}
      BY DEF WithDelta
    <3>4. DOMAIN E = DOMAIN first \cup {end}
      BY <3>1 DEF WithDelta
    <3> QED
      BY <2>2, <3>3, <3>4
  <2>3. CASE call.op \in {"create", "increase"}
    <3>1. E = WithDelta(D, end, s - s0)
      BY <1>5, <2>3
    <3> HIDE DEF s, s0, D
    <3>2. DOMAIN E = DOMAIN D \cup {end}
      BY <3>1 DEF WithDelta
    <3> QED
      BY <2>3, <3>2
  <2> QED
    BY <1>9, <2>1, <2>2, <2>3
<1>18. end % WEEK = 0
  BY <1>9, <1>10, <1>12, <1>15 DEF CallFits
<1>19. IF amount = 0 THEN end = 0 ELSE end \in DOMAIN E
  <2>1. CASE call.op = "withdraw"
    BY <1>10, <2>1
  <2>2. CASE call.op # "withdraw"
    <3>1. amount > 0
      <4>1. call.op = "create" => call.amount > 0
        BY DEF CallFits
      <4> QED
        BY <1>8, <1>9, <1>10, <1>13, <2>2, <4>1
    <3> QED
      BY <1>17, <2>2, <3>1
  <2> QED
    BY <2>1, <2>2
<1>20. EndsKnown(w.account, E)
  <2>1. DOMAIN D \subseteq DOMAIN E
    BY <1>9, <1>17
  <2>2. \A t \in DOMAIN E : t % WEEK = 0
    <3>1. \A t \in DOMAIN D : t % WEEK = 0
      BY <1>11 DEF EndsKnown
    <3>2. \A t \in DOMAIN E : t \in DOMAIN D \/ t = acc.end \/ t = end
      BY <1>17
    <3> QED
      BY Zenon, <1>12, <1>18, <3>1, <3>2
  <2>3. ASSUME NEW x \in Users
        PROVE  /\ w.account[x].end % WEEK = 0
               /\ IF w.account[x].amount = 0 THEN w.account[x].end = 0
                  ELSE w.account[x].end \in DOMAIN E
    <3>1. CASE x = u
      BY Zenon, <1>7, <1>18, <1>19, <3>1
    <3>2. CASE x # u
      <4>1. w.account[x] = v.account[x]
        BY <1>7, <3>2
      <4>2. /\ v.account[x].end % WEEK = 0
            /\ IF v.account[x].amount = 0 THEN v.account[x].end = 0
               ELSE v.account[x].end \in DOMAIN D
        BY <1>11 DEF EndsKnown
      <4> QED
        BY Zenon, <2>1, <4>1, <4>2
    <3> QED
      BY <3>1, <3>2
  <2> QED
    BY <2>2, <2>3 DEF EndsKnown
<1>21. Covered(w.account, E)
  <2> SUFFICES ASSUME NEW t \in Nat  PROVE Due(w.account, t) <= Owed(E, t)
    BY DEF Covered
  <2>1. Due(w.account, t) = Due(v.account, t) - Old(t) + New(t)
    <3>1. Due(w.account, t)
            = Due(v.account, t)
                - (IF v.account[u].end = t THEN getSlope(v.account[u].amount) ELSE 0)
                + (IF w.account[u].end = t THEN getSlope(w.account[u].amount) ELSE 0)
      <4> DEFINE p == v.account
                 q == w.account
      <4>1. /\ \A x \in Users : HasLock(p[x]) /\ HasLock(q[x])
            /\ \A x \in Users \ {u} : q[x] = p[x]
        BY <1>4, <1>7
      <4> HIDE DEF p, q
      <4>2. Due(q, t) = Due(p, t) - (IF p[u].end = t THEN getSlope(p[u].amount) ELSE 0)
                          + (IF q[u].end = t THEN getSlope(q[u].amount) ELSE 0)
        BY <4>1, DueChanged
      <4> QED
        BY Zenon, <4>2 DEF p, q
    <3> QED
      BY Zenon, <1>7, <3>1
  <2>2. Due(v.account, t) <= At(t) /\ Due(v.account, t) \in Nat
    BY <1>4, <1>11, DueType DEF Covered
  <2>3. At(t) \in Int
    BY <1>16 DEF Owed, Deltas
  <2>4. Old(t) \in Nat /\ New(t) \in Nat
    BY <1>14
  <2>5. CASE call.op = "withdraw"
    <3>1. E = D
      BY Zenon, <1>5, <2>5
    <3>2. New(t) = 0
      BY <1>10, <1>14, <2>5
    <3> HIDE DEF D, E, Old, New
    <3> QED
      BY <2>1, <2>2, <2>3, <2>4, <3>1, <3>2
  <2>6. CASE call.op = "extend"
    <3> DEFINE first == WithDelta(D, acc.end, -s)
    <3>1. E = WithDelta(first, end, s)
      BY <1>5, <2>6
    <3>2. -s \in Int /\ s \in Int
      BY <1>14
    <3>3. s = s0
      BY <1>10, <2>6
    <3> HIDE DEF s, D
    <3>4. Deltas(first)
      BY <1>8, <1>16, <3>2, WithDeltaType
    <3>5. Owed(first, t) = At(t) + (IF t = acc.end THEN -s ELSE 0)
      BY <1>8, <1>16, <3>2, OwedChanged
    <3> HIDE DEF first
    <3>6. Owed(E, t) = Owed(first, t) + (IF t = end THEN s ELSE 0)
      BY <1>8, <3>1, <3>2, <3>4, OwedChanged
    <3> HIDE DEF E, At, s0
    <3> QED
      BY <2>1, <2>2, <2>3, <3>2, <3>3, <3>5, <3>6
  <2>7. CASE call.op \in {"create", "increase"}
    <3>1. E = WithDelta(D, end, s - s0)
      BY <1>5, <2>7
    <3>2. s - s0 \in Int
      BY <1>14
    <3>3. /\ acc.amount <= amount /\ (end = acc.end \/ s0 = 0)
      BY <1>8, <1>10, <1>13, <1>14, <2>7
    <3>4. s0 <= s
      BY <1>14, <3>3
    <3> DEFINE d == s - s0
    <3>5. Owed(E, t) = At(t) + (IF t = end THEN d ELSE 0)
      <4>1. E = WithDelta(D, end, d) /\ d \in Int /\ end \in Nat /\ Deltas(D)
        BY <1>8, <1>16, <3>1, <3>2
      <4> HIDE DEF d, E, D, end
      <4> QED
        BY <4>1, OwedChanged
    <3> HIDE DEF E, At, s0, s
    <3> QED
      BY <1>14, <2>1, <2>2, <2>3, <3>3, <3>4, <3>5
  <2> QED
    BY <1>9, <2>5, <2>6, <2>7
<1> HIDE DEF w
<1>22. LocksEnd(w.account, w.slopeDelta)
  BY <1>3, <1>4, <1>20, <1>21, LocksEndIs
<1> QED
  BY <1>22 DEF w
-----------------------------------------------------------------------------
(* What a call knows while nothing is added.                                *)

\* A call made of the account whose state it read, if nothing was added since.
StateOf(acc) == IF acc.exists THEN {[end |-> acc.end, count |-> Len(acc.powers)]} ELSE {}
KnowsAccount(s, acc) == ~s.failed /\ Len(acc.powers) = s.rows => s.account = StateOf(acc)
KnowsTotal(s, tot) == s.global.last = tot[s.global.count].timestamp

\* The parts of a group, by what was seen and the clock.
ReadAccount(s) == CHOOSE x \in s.account : TRUE
Foretold(s, local) == getNewTotalPowerTimestamps(s.global.last, local)
CreatePart(u, s, there, r, local) ==
  CreateLock(u, s.account, s.global, there, r, Foretold(s, local))
IncreasePart(u, s, r, local) ==
  IncreaseLockAmount(u, ReadAccount(s), s.global, r, Foretold(s, local))
ExtendPart(u, s, d, r, local) ==
  ExtendLockEndTime(u, ReadAccount(s), s.global, d, r, Foretold(s, local))
SecondPart(u, s, d, r, local) ==
  ExtendLockEndTime(u, CountedOn(ReadAccount(s)), CountedOn(s.global), d, r, Foretold(s, local))

\* A moment from the last row seen on, and a slope change that stood so while
\* no row was added.
Timely(s, local, at) == local \in Nat /\ s.global.last <= local /\ local <= at
SlopeRead(s, d, t, tot, deltas) == Len(tot) = s.global.count => d = Owed(deltas, t)

BuiltFrom(u, r, s, g, tot, deltas, at) ==
  \/ /\ r.op = "create" /\ Timely(s, g.built, at)
     /\ \E there \in BOOLEAN :
          /\ Len(tot) = s.global.count => there = (r.end \in DOMAIN deltas)
          /\ g = Group(u, g.built, <<CreatePart(u, s, there, r, g.built)>>)
  \/ /\ r.op = "increase" /\ s.account # {} /\ Timely(s, g.built, at)
     /\ g = Group(u, g.built, <<IncreasePart(u, s, r, g.built)>>)
  \/ /\ r.op = "extend" /\ s.account # {} /\ Timely(s, g.built, at)
     /\ \E d : /\ SlopeRead(s, d, r.end, tot, deltas)
               /\ g = Group(u, g.built, <<ExtendPart(u, s, d, r, g.built)>>)
  \/ /\ r.op = "both" /\ s.account # {} /\ Timely(s, g.built, at)
     /\ \E first, d : /\ Timely(s, first, at) /\ SlopeRead(s, d, r.end, tot, deltas)
                      /\ g = Group(u, g.built, <<IncreasePart(u, s, r, first),
                                                 SecondPart(u, s, d, r, g.built)>>)
  \/ /\ r.op = "withdraw" /\ s.account # {}
     /\ g = Group(u, g.built, <<Withdraw(u, ReadAccount(s))>>)

LocksAre == {"account", "global", "increase", "built"}
KnowsIs(u, p, r, s, g, acc, tot, deltas, at) ==
  /\ p \in LocksAre /\ r.op # "totalPower" => KnowsAccount(s, acc)
  /\ p \in LocksAre \ {"account"} /\ r.op \notin {"withdraw", "tinyPower", "totalPower"}
       => KnowsTotal(s, tot)
  /\ p = "increase" =>
       \E first : Timely(s, first, at) /\ s.first = <<IncreasePart(u, s, r, first)>>
  /\ p = "built" => BuiltFrom(u, r, s, g, tot, deltas, at)

Knows(c) == KnowsIs(Owner[c], pc[c], req[c], seen[c], group[c], account[Owner[c]], total,
                    slopeDelta, now)

\* What is read of the chain changes only as rows are added.
Shows ==
  /\ total' = total => slopeDelta' = slopeDelta
  /\ \A u \in Users : \/ account'[u] = account[u]
                      \/ Len(account[u].powers) < Len(account'[u].powers)

LEMMA TimelyLater ==
  ASSUME NEW s, NEW local, NEW at \in Nat, NEW at2 \in Nat, at <= at2, Timely(s, local, at),
         s.global.last \in Nat
  PROVE  Timely(s, local, at2)
  BY DEF Timely

LEMMA KnowsLater ==
  ASSUME NEW u, NEW p, NEW r, NEW s, NEW g, NEW acc, NEW acc2, NEW tot, NEW tot2,
         NEW deltas, NEW deltas2, NEW at \in Nat, NEW at2 \in Nat, at <= at2,
         KnowsIs(u, p, r, s, g, acc, tot, deltas, at),
         p \in LocksAre /\ r.op # "totalPower" =>
           /\ s.rows \in Nat /\ Len(acc.powers) \in Nat /\ s.rows <= Len(acc.powers)
           /\ Len(acc2.powers) \in Nat,
         p \in LocksAre \ {"account"} /\ r.op \notin {"withdraw", "tinyPower", "totalPower"} =>
           /\ Len(tot) \in Nat /\ Len(tot2) \in Nat
           /\ s.global.count \in 1 .. Len(tot) /\ s.global.last \in Nat,
         p \in {"increase", "built"} => r.op \notin {"tinyPower", "totalPower"},
         acc2 = acc \/ Len(acc.powers) < Len(acc2.powers),
         tot2 = tot => deltas2 = deltas,
         tot2 = tot \/ (Len(tot) < Len(tot2) /\ \A i \in 1 .. Len(tot) : tot2[i] = tot[i])
  PROVE  KnowsIs(u, p, r, s, g, acc2, tot2, deltas2, at2)
<1>1. ASSUME p \in LocksAre, r.op # "totalPower"  PROVE KnowsAccount(s, acc2)
  <2>1. KnowsAccount(s, acc)
    BY Zenon, <1>1 DEF KnowsIs
  <2>2. CASE acc2 = acc
    BY Zenon, <2>1, <2>2
  <2>3. CASE Len(acc.powers) < Len(acc2.powers)
    <3>1. Len(acc2.powers) # s.rows
      BY <1>1, <2>3
    <3> QED
      BY Zenon, <3>1 DEF KnowsAccount
  <2> QED
    BY Zenon, <2>2, <2>3
<1> DEFINE counts == p \in LocksAre \ {"account"} /\ r.op \notin {"withdraw", "tinyPower", "totalPower"}
<1>2. ASSUME counts  PROVE KnowsTotal(s, tot2) /\ (Len(tot2) = s.global.count => tot2 = tot)
  <2>1. KnowsTotal(s, tot)
    BY Zenon, <1>2 DEF KnowsIs
  <2>2. tot2[s.global.count] = tot[s.global.count]
    BY Zenon, <1>2
  <2>3. Len(tot2) = s.global.count => tot2 = tot
    BY <1>2
  <2> QED
    BY Zenon, <2>1, <2>2, <2>3 DEF KnowsTotal
<1>3. ASSUME counts, NEW local, Timely(s, local, at)  PROVE Timely(s, local, at2)
  BY <1>2, <1>3, TimelyLater
<1>4. ASSUME p = "increase"
      PROVE  \E first : Timely(s, first, at2) /\ s.first = <<IncreasePart(u, s, r, first)>>
  <2>1. PICK first : Timely(s, first, at) /\ s.first = <<IncreasePart(u, s, r, first)>>
    BY Zenon, <1>4 DEF KnowsIs
  <2>2. CASE counts
    BY Zenon, <1>3, <2>1, <2>2
  <2>3. CASE ~ counts
    <3>1. r.op = "withdraw"
      BY <1>4, <2>3 DEF LocksAre
    <3>2. first \in Nat /\ s.global.last <= first /\ first <= at
      BY <2>1 DEF Timely
    <3>3. first <= at2
      BY <3>2
    <3> QED
      BY Zenon, <2>1, <3>2, <3>3 DEF Timely
  <2> QED
    BY Zenon, <2>2, <2>3
<1>5. ASSUME p = "built"  PROVE BuiltFrom(u, r, s, g, tot2, deltas2, at2)
  <2>1. BuiltFrom(u, r, s, g, tot, deltas, at)
    BY Zenon, <1>5 DEF KnowsIs
  <2>2. CASE r.op = "withdraw"
    BY Zenon, <2>1, <2>2 DEF BuiltFrom
  <2>3. CASE r.op # "withdraw"
    <3>1. counts
      BY <1>5, <2>3 DEF LocksAre
    <3>2. \A local : Timely(s, local, at) => Timely(s, local, at2)
      BY Zenon, <1>3, <3>1
    <3>3. Len(tot2) = s.global.count => tot2 = tot /\ deltas2 = deltas
      BY Zenon, <1>2, <3>1
    <3>4. \A d, t : SlopeRead(s, d, t, tot, deltas) => SlopeRead(s, d, t, tot2, deltas2)
      BY Zenon, <3>3 DEF SlopeRead
    <3>5. \A x : (Len(tot) = s.global.count => x = (r.end \in DOMAIN deltas))
                   => (Len(tot2) = s.global.count => x = (r.end \in DOMAIN deltas2))
      BY Zenon, <3>3
    <3>6. CASE r.op = "create"
      <4>1. Timely(s, g.built, at)
        BY Zenon, <2>1, <3>6 DEF BuiltFrom
      <4>2. PICK there \in BOOLEAN :
              /\ Len(tot) = s.global.count => there = (r.end \in DOMAIN deltas)
              /\ g = Group(u, g.built, <<CreatePart(u, s, there, r, g.built)>>)
        BY Zenon, <2>1, <3>6 DEF BuiltFrom
      <4> QED
        BY Zenon, <3>2, <3>5, <3>6, <4>1, <4>2 DEF BuiltFrom
    <3>7. CASE r.op = "increase"
      BY Zenon, <2>1, <3>2, <3>7 DEF BuiltFrom
    <3>8. CASE r.op = "extend"
      <4>1. Timely(s, g.built, at) /\ s.account # {}
        BY Zenon, <2>1, <3>8 DEF BuiltFrom
      <4>2. PICK d : /\ SlopeRead(s, d, r.end, tot, deltas)
                     /\ g = Group(u, g.built, <<ExtendPart(u, s, d, r, g.built)>>)
        BY Zenon, <2>1, <3>8 DEF BuiltFrom
      <4> QED
        BY Zenon, <3>2, <3>4, <3>8, <4>1, <4>2 DEF BuiltFrom
    <3>9. CASE r.op = "both"
      <4>1. Timely(s, g.built, at) /\ s.account # {}
        BY Zenon, <2>1, <3>9 DEF BuiltFrom
      <4>2. PICK first, d : /\ Timely(s, first, at) /\ SlopeRead(s, d, r.end, tot, deltas)
                            /\ g = Group(u, g.built, <<IncreasePart(u, s, r, first),
                                                       SecondPart(u, s, d, r, g.built)>>)
        BY Zenon, <2>1, <3>9 DEF BuiltFrom
      <4> QED
        BY Zenon, <3>2, <3>4, <3>9, <4>1, <4>2 DEF BuiltFrom
    <3> QED
      BY Zenon, <2>1, <2>3, <3>6, <3>7, <3>8, <3>9 DEF BuiltFrom
  <2> QED
    BY Zenon, <2>2, <2>3
<1> QED
  BY Zenon, <1>1, <1>2, <1>4, <1>5 DEF KnowsIs

LEMMA SameKnows ==
  ASSUME VInv, VInv', Grows, Shows, NEW c \in Calls, SameCall(c), Knows(c)
  PROVE  Knows(c)'
<1> DEFINE u == Owner[c]
           p == pc[c]
           r == req[c]
           s == seen[c]
           acc == account[u]
           acc2 == account'[u]
<1>1. u \in Users /\ now \in Nat /\ now' \in Nat /\ now <= now'
  BY OwnerIsUser DEF VInv, ChainOK, ChainIs, Grows
<1>2. IsAccount(acc, now) /\ IsAccount(acc2, now') /\ Totals(total, now) /\ Totals(total', now')
  BY <1>1 DEF VInv, ChainOK, ChainIs
<1>3. /\ Len(acc.powers) \in Nat /\ Len(acc2.powers) \in Nat
      /\ Len(total) \in Nat /\ Len(total') \in Nat
  BY <1>2 DEF IsAccount, Totals
<1>4. CallIs(c, p, r, s, group[c], answer[c], acc, total, now)
  BY DEF VInv, CallOK
<1>5. p \in LocksAre /\ r.op # "totalPower" => s.rows \in Nat /\ s.rows <= Len(acc.powers)
  BY <1>4 DEF CallIs, LocksAre, VaultPlaces, AccountSeen
<1>6. ASSUME p \in LocksAre \ {"account"} /\ r.op \notin {"withdraw", "tinyPower", "totalPower"}
      PROVE  s.global.count \in 1 .. Len(total) /\ s.global.last \in Nat
  <2>1. p \in {"global", "increase", "built"} /\ r.op \notin {"withdraw", "tinyPower"}
    BY <1>6 DEF LocksAre
  <2>2. GlobalSeen(s, total, now)
    BY Zenon, <1>4, <2>1 DEF CallIs
  <2> QED
    BY <1>3, <2>2 DEF GlobalSeen
<1>7. p \in {"increase", "built"} => r.op \notin {"tinyPower", "totalPower"}
  BY <1>4 DEF CallIs
<1>8. acc2 = acc \/ Len(acc.powers) < Len(acc2.powers)
  BY <1>1 DEF Shows
<1>9. total' = total => slopeDelta' = slopeDelta
  BY DEF Shows
<1>10. \/ total' = total
       \/ Len(total) < Len(total') /\ \A i \in 1 .. Len(total) : total'[i] = total[i]
  BY Zenon DEF Grows, Checked, Prefix
<1>11. KnowsIs(u, p, r, s, group[c], acc, total, slopeDelta, now)
  BY Zenon DEF Knows
<1> HIDE DEF u, p, r, s, acc, acc2
<1>12. KnowsIs(u, p, r, s, group[c], acc2, total', slopeDelta', now')
  BY <1>1, <1>3, <1>5, <1>6, <1>7, <1>8, <1>9, <1>10, <1>11, KnowsLater
<1>13. pc'[c] = p /\ req'[c] = r /\ seen'[c] = s /\ group'[c] = group[c]
  BY DEF SameCall, p, r, s
<1>14. KnowsIs(u, pc'[c], req'[c], seen'[c], group'[c], acc2, total', slopeDelta', now')
  BY Zenon, <1>12, <1>13
<1> QED
  BY Zenon, <1>14 DEF Knows, u, acc2

LEMMA SameChainShows ==
  ASSUME UNCHANGED <<total, slopeDelta, account>>
  PROVE  Shows
  BY DEF Shows

AllKnow == \A c \in Calls : Knows(c)

LEMMA OthersKnow ==
  ASSUME VInv, VInv', Grows, Shows, AllKnow, NEW c \in Calls, Knows(c)',
         \A d \in Calls : d # c => SameCall(d)
  PROVE  AllKnow'
<1>1. \A d \in Calls : d # c => Knows(d)'
  BY SameKnows DEF AllKnow
<1>2. \A d \in Calls : Knows(d)'
  <2> TAKE d \in Calls
  <2>1. CASE d = c
    BY <2>1
  <2>2. CASE d # c
    BY <1>1, <2>2
  <2> QED
    BY <2>1, <2>2
<1> QED
  BY <1>2 DEF AllKnow

\* A call that goes on to where nothing is known of it.
LEMMA NothingToKnow ==
  ASSUME NEW c \in Calls, pc'[c] \notin LocksAre
  PROVE  Knows(c)'
<1>1. pc'[c] # "increase" /\ pc'[c] # "built"
  BY DEF LocksAre
<1>2. KnowsIs(Owner[c], pc'[c], req'[c], seen'[c], group'[c], account'[Owner[c]], total',
              slopeDelta', now')
  BY <1>1 DEF KnowsIs
<1> QED
  BY Zenon, <1>2 DEF Knows

LEMMA StepKnows ==
  ASSUME VInv, SameChain, VInv', Grows, NEW c \in Calls, NEW p, NEW r, NEW s, NEW g, AllKnow,
         But(pc, pc', c, p), But(req, req', c, r), But(seen, seen', c, s), But(group, group', c, g),
         answer' = answer,
         KnowsIs(Owner[c], p, r, s, g, account[Owner[c]], total, slopeDelta, now)
  PROVE  AllKnow'
<1>1. /\ now' = now /\ total' = total /\ slopeDelta' = slopeDelta /\ account' = account
  BY DEF SameChain
<1>2. /\ pc'[c] = p /\ req'[c] = r /\ seen'[c] = s /\ group'[c] = g
  BY DEF But
<1>3. Knows(c)'
  BY Zenon, <1>1, <1>2 DEF Knows
<1>4. \A d \in Calls : d # c => SameCall(d)
  BY Zenon DEF SameCall, But
<1>5. Shows
  BY <1>1, SameChainShows
<1> QED
  BY <1>3, <1>4, <1>5, OthersKnow

LEMMA FetchAccountKnows ==
  ASSUME VInv, AllKnow, NEW c \in Calls, NEW r \in Requests, NEW failed \in BOOLEAN,
         FetchAccountState(c, r, failed)
  PROVE  AllKnow'
<1> DEFINE u == Owner[c]
           n == Len(account[u].powers)
           s == [account |-> AccountRead(u, failed), failed |-> failed, rows |-> n,
                 global |-> seen[c].global, first |-> seen[c].first, boxes |-> seen[c].boxes,
                 read |-> seen[c].read]
<1>1. /\ pc[c] = "idle" /\ req' = [req EXCEPT ![c] = r] /\ pc' = [pc EXCEPT ![c] = "account"]
      /\ seen' = [seen EXCEPT ![c].account = AccountRead(u, failed), ![c].failed = failed,
                    ![c].rows = n]
      /\ SameChain /\ UNCHANGED <<group, answer>>
  BY DEF FetchAccountState, Go, chainVars, SameChain
<1>2. VInv' /\ Grows
  BY FetchAccountStep DEF Kept
<1>3. IsSeen(seen[c])
  BY Zenon, CallShapes DEF CallIsHere, CallIs
<1>4. But(seen, seen', c, s)
  BY <1>1, <1>3, CallShapes, SeenSteps
<1>5. But(req, req', c, r)
  BY <1>1, CallShapes, Excepted
<1>6. But(pc, pc', c, "account")
  BY <1>1, CallShapes, Excepted
<1>7. group' = group /\ answer' = answer /\ But(group, group', c, group[c])
  BY <1>1, CallShapes, SameBut
<1>8. s.account = AccountRead(u, failed) /\ s.failed = failed
  OBVIOUS
<1> HIDE DEF s
<1>9. KnowsAccount(s, account[u])
  <2>1. ~ failed => AccountRead(u, failed) = StateOf(account[u])
    BY Zenon DEF AccountRead, StateOf
  <2> QED
    BY Zenon, <1>8, <2>1 DEF KnowsAccount
<1>10. KnowsIs(u, "account", r, s, group[c], account[u], total, slopeDelta, now)
  BY <1>9 DEF KnowsIs
<1> HIDE DEF u
<1> QED
  BY <1>1, <1>2, <1>4, <1>5, <1>6, <1>7, <1>10, StepKnows DEF u

LEMMA FetchGlobalKnows ==
  ASSUME VInv, AllKnow, NEW c \in Calls, NEW r \in Requests, FetchGlobalState(c, r)
  PROVE  AllKnow'
<1> DEFINE u == Owner[c]
           g == [count |-> Len(total), last |-> LastTime(total), at |-> now]
           s == [account |-> seen[c].account, failed |-> seen[c].failed, rows |-> seen[c].rows,
                 global |-> g, first |-> seen[c].first, boxes |-> seen[c].boxes,
                 read |-> seen[c].read]
<1>1. /\ \/ pc[c] = "idle" /\ r.op = "totalPower"
         \/ pc[c] = "account" /\ r = req[c] /\ r.op \in {"create", "increase", "extend", "both"}
      /\ req' = [req EXCEPT ![c] = r] /\ pc' = [pc EXCEPT ![c] = "global"]
      /\ seen' = [seen EXCEPT ![c].global = g]
      /\ SameChain /\ UNCHANGED <<group, answer>>
  BY DEF FetchGlobalState, Go, Sees, chainVars, SameChain
<1>2. VInv' /\ Grows
  BY FetchGlobalStep DEF Kept
<1>3. IsSeen(seen[c])
  BY Zenon, CallShapes DEF CallIsHere, CallIs
<1>4. But(seen, seen', c, s)
  BY <1>1, <1>3, CallShapes, SeenSteps
<1>5. But(req, req', c, r)
  BY <1>1, CallShapes, Excepted
<1>6. But(pc, pc', c, "global")
  BY <1>1, CallShapes, Excepted
<1>7. group' = group /\ answer' = answer /\ But(group, group', c, group[c])
  BY <1>1, CallShapes, SameBut
<1>8. /\ s.account = seen[c].account /\ s.failed = seen[c].failed /\ s.rows = seen[c].rows
      /\ s.global.last = LastTime(total) /\ s.global.count = Len(total)
  OBVIOUS
<1> HIDE DEF s
<1>9. KnowsTotal(s, total)
  BY Zenon, <1>8 DEF KnowsTotal, LastTime
<1>10. r.op # "totalPower" => KnowsAccount(s, account[u])
  <2> SUFFICES ASSUME r.op # "totalPower" PROVE KnowsAccount(s, account[u])
    OBVIOUS
  <2>1. pc[c] = "account" /\ req[c].op # "totalPower"
    BY <1>1
  <2>2. KnowsAccount(seen[c], account[u])
    BY <2>1 DEF AllKnow, Knows, KnowsIs, LocksAre
  <2> QED
    BY Zenon, <1>8, <2>2 DEF KnowsAccount
<1>11. KnowsIs(u, "global", r, s, group[c], account[u], total, slopeDelta, now)
  BY <1>9, <1>10 DEF KnowsIs
<1> HIDE DEF u, g
<1> QED
  BY <1>1, <1>2, <1>4, <1>5, <1>6, <1>7, <1>11, StepKnows DEF u

LEMMA ReadKnows ==
  ASSUME VInv, AllKnow, NEW c \in Calls, ReadBox(c)
  PROVE  AllKnow'
<1> DEFINE u == Owner[c]
           n == seen[c].boxes + 1
           rows == IF req[c].op = "tinyPower" THEN account[u].powers ELSE total
           more == seen[c].read \o RowsIn(rows, seen[c].boxes)
           s == [account |-> seen[c].account, failed |-> seen[c].failed, rows |-> seen[c].rows,
                 global |-> seen[c].global, first |-> seen[c].first, boxes |-> n, read |-> more]
<1>1. /\ \/ pc[c] = "account" /\ req[c].op = "tinyPower"
         \/ pc[c] = "global" /\ req[c].op = "totalPower"
      /\ SameChain /\ UNCHANGED <<pc, req, group, answer>>
  BY DEF ReadBox, Reading, chainVars, SameChain
<1>2. VInv' /\ Grows
  BY ReadStep DEF Kept
<1>3. IsSeen(seen[c])
  BY Zenon, CallShapes DEF CallIsHere, CallIs
<1>4. seen' = [seen EXCEPT ![c].boxes = n, ![c].read = more]
  BY DEF ReadBox
<1>5. But(seen, seen', c, s)
  BY <1>3, <1>4, CallShapes, SeenSteps
<1>6. pc' = pc /\ req' = req /\ group' = group /\ answer' = answer
  BY <1>1
<1>7. But(pc, pc', c, pc[c]) /\ But(req, req', c, req[c]) /\ But(group, group', c, group[c])
  <2>1. OfCalls(pc) /\ OfCalls(req) /\ OfCalls(group)
    BY CallShapes
  <2>2. But(pc, pc, c, pc[c]) /\ But(req, req, c, req[c]) /\ But(group, group, c, group[c])
    BY <2>1, SameBut
  <2> QED
    BY Zenon, <1>6, <2>2
<1>8. s.account = seen[c].account /\ s.failed = seen[c].failed /\ s.rows = seen[c].rows
  OBVIOUS
<1> HIDE DEF s
<1>9. req[c].op # "totalPower" => KnowsAccount(s, account[u])
  <2> SUFFICES ASSUME req[c].op # "totalPower" PROVE KnowsAccount(s, account[u])
    OBVIOUS
  <2>1. pc[c] = "account"
    BY <1>1
  <2>2. KnowsAccount(seen[c], account[u])
    BY <2>1 DEF AllKnow, Knows, KnowsIs, LocksAre
  <2> QED
    BY Zenon, <1>8, <2>2 DEF KnowsAccount
<1>10. pc[c] \in {"account", "global"} /\ req[c].op \in {"tinyPower", "totalPower"}
  BY <1>1
<1>11. KnowsIs(u, pc[c], req[c], s, group[c], account[u], total, slopeDelta, now)
  BY <1>9, <1>10 DEF KnowsIs
<1> HIDE DEF u, rows
<1> QED
  BY <1>1, <1>2, <1>5, <1>6, <1>7, <1>11, StepKnows DEF u

\* A group is built: what was seen stays.
LEMMA BuiltKnows ==
  ASSUME VInv, VInv', Grows, AllKnow, SameChain, NEW c \in Calls, NEW g,
         UNCHANGED <<req, seen, answer>>,
         pc[c] \in {"account", "global", "increase"}, pc' = [pc EXCEPT ![c] = "built"],
         group' = [group EXCEPT ![c] = g], req[c].op \notin {"tinyPower", "totalPower"},
         pc[c] = "account" => req[c].op = "withdraw",
         BuiltFrom(Owner[c], req[c], seen[c], g, total, slopeDelta, now)
  PROVE  AllKnow'
<1> DEFINE u == Owner[c]
<1>1. But(pc, pc', c, "built")
  BY CallShapes, Excepted
<1>2. But(group, group', c, g)
  BY CallShapes, Excepted
<1>3. req' = req /\ seen' = seen /\ answer' = answer
  OBVIOUS
<1>4. But(req, req', c, req[c]) /\ But(seen, seen', c, seen[c])
  <2>1. OfCalls(req) /\ OfCalls(seen)
    BY CallShapes
  <2>2. But(req, req, c, req[c]) /\ But(seen, seen, c, seen[c])
    BY <2>1, SameBut
  <2> QED
    BY Zenon, <1>3, <2>2
<1>5. KnowsIs(u, pc[c], req[c], seen[c], group[c], account[u], total, slopeDelta, now)
  BY Zenon DEF AllKnow, Knows
<1>6. KnowsAccount(seen[c], account[u])
  <2>1. pc[c] \in LocksAre /\ req[c].op # "totalPower"
    BY DEF LocksAre
  <2> QED
    BY Zenon, <1>5, <2>1 DEF KnowsIs
<1>7. req[c].op # "withdraw" => KnowsTotal(seen[c], total)
  <2> SUFFICES ASSUME req[c].op # "withdraw" PROVE KnowsTotal(seen[c], total)
    OBVIOUS
  <2>1. /\ pc[c] \in LocksAre \ {"account"}
        /\ req[c].op \notin {"withdraw", "tinyPower", "totalPower"}
    BY DEF LocksAre
  <2> QED
    BY Zenon, <1>5, <2>1 DEF KnowsIs
<1> HIDE DEF u
<1>8. BuiltFrom(u, req[c], seen[c], g, total, slopeDelta, now)
  BY DEF u
<1>9. KnowsIs(u, "built", req[c], seen[c], g, account[u], total, slopeDelta, now)
  BY <1>6, <1>7, <1>8 DEF KnowsIs
<1> QED
  BY <1>1, <1>2, <1>3, <1>4, <1>9, StepKnows DEF u

LEMMA GroupBuilt ==
  ASSUME NEW u, NEW local, NEW parts
  PROVE  Group(u, local, parts).built = local
  BY DEF Group

\* The moment a group is generated at is timely.
LEMMA GeneratedTimely ==
  ASSUME VInv, NEW c \in Calls, NEW place \in {"global", "increase"}, NEW local \in Int, local <= now,
         Generate(c, place, local), req[c].op \in {"create", "increase", "extend", "both"}
  PROVE  Timely(seen[c], local, now)
<1>1. local >= seen[c].global.last
  BY DEF Generate
<1>2. seen[c].global.last \in Nat
  BY Generated DEF GlobalSeen
<1> QED
  BY <1>1, <1>2 DEF Timely

LEMMA SeenAs ==
  ASSUME NEW c, NEW local
  PROVE  /\ SeenAccount(c) = ReadAccount(seen[c]) /\ Expected(c, local) = Foretold(seen[c], local)
         /\ \A t : DeltaAt(t) = Owed(slopeDelta, t)
  BY DEF SeenAccount, ReadAccount, Expected, Foretold, DeltaAt, Owed

LEMMA GenerateCreateKnows ==
  ASSUME VInv, AllKnow, NEW c \in Calls, NEW local \in Int, local <= now, GenerateCreateLock(c, local)
  PROVE  AllKnow'
<1> DEFINE u == Owner[c]
           there == req[c].end \in DOMAIN slopeDelta
           g == Group(u, local, <<CreatePart(u, seen[c], there, req[c], local)>>)
<1>1. /\ Generate(c, "global", local) /\ req[c].op = "create" /\ UNCHANGED seen
      /\ pc' = [pc EXCEPT ![c] = "built"]
  BY DEF GenerateCreateLock, Builds, Go
<1>2. group' = [group EXCEPT ![c] = g]
  BY SeenAs DEF GenerateCreateLock, Builds, CreatePart
<1>3. SameChain /\ UNCHANGED <<req, answer>> /\ pc[c] = "global"
  BY <1>1, Generated
<1>4. VInv' /\ Grows
  BY GenerateCreateStep DEF Kept
<1>5. g.built = local
  BY GroupBuilt
<1>6. Timely(seen[c], local, now)
  BY <1>1, GeneratedTimely
<1>7. g = Group(u, g.built, <<CreatePart(u, seen[c], there, req[c], g.built)>>)
  BY Zenon, <1>5
<1>8. there \in BOOLEAN
  OBVIOUS
<1> HIDE DEF g
<1>9. BuiltFrom(u, req[c], seen[c], g, total, slopeDelta, now)
  BY Zenon, <1>1, <1>5, <1>6, <1>7, <1>8 DEF BuiltFrom
<1>10. UNCHANGED <<req, seen, answer>>
  BY <1>1, <1>3
<1> QED
  BY <1>1, <1>2, <1>3, <1>4, <1>9, <1>10, BuiltKnows

LEMMA GenerateIncreaseLockKnows ==
  ASSUME VInv, AllKnow, NEW c \in Calls, NEW local \in Int, local <= now,
         GenerateIncreaseLockAmount(c, local)
  PROVE  AllKnow'
<1> DEFINE u == Owner[c]
           g == Group(u, local, <<IncreasePart(u, seen[c], req[c], local)>>)
<1>1. /\ Generate(c, "global", local) /\ req[c].op = "increase" /\ UNCHANGED seen
      /\ pc' = [pc EXCEPT ![c] = "built"]
  BY DEF GenerateIncreaseLockAmount, Builds, Go
<1>2. group' = [group EXCEPT ![c] = g]
  BY SeenAs DEF GenerateIncreaseLockAmount, Builds, IncreasePart
<1>3. SameChain /\ UNCHANGED <<req, answer>> /\ pc[c] = "global"
  BY <1>1, Generated
<1>4. VInv' /\ Grows
  BY GenerateIncreaseLockStep DEF Kept
<1>5. g.built = local
  BY GroupBuilt
<1>6. Timely(seen[c], local, now) /\ seen[c].account # {}
  BY <1>1, GeneratedTimely DEF Generate
<1>7. g = Group(u, g.built, <<IncreasePart(u, seen[c], req[c], g.built)>>)
  BY Zenon, <1>5
<1> HIDE DEF g
<1>8. BuiltFrom(u, req[c], seen[c], g, total, slopeDelta, now)
  BY Zenon, <1>1, <1>5, <1>6, <1>7 DEF BuiltFrom
<1>9. UNCHANGED <<req, seen, answer>>
  BY <1>1, <1>3
<1> QED
  BY <1>1, <1>2, <1>3, <1>4, <1>8, <1>9, BuiltKnows

LEMMA GenerateExtendLockKnows ==
  ASSUME VInv, AllKnow, NEW c \in Calls, NEW local \in Int, local <= now,
         GenerateExtendLockTime(c, local)
  PROVE  AllKnow'
<1> DEFINE u == Owner[c]
           d == DeltaAt(req[c].end)
           g == Group(u, local, <<ExtendPart(u, seen[c], d, req[c], local)>>)
<1>1. /\ Generate(c, "global", local) /\ req[c].op = "extend" /\ UNCHANGED seen
      /\ pc' = [pc EXCEPT ![c] = "built"]
  BY DEF GenerateExtendLockTime, Builds, Go
<1>2. group' = [group EXCEPT ![c] = g]
  BY SeenAs DEF GenerateExtendLockTime, Builds, ExtendPart
<1>3. SameChain /\ UNCHANGED <<req, answer>> /\ pc[c] = "global"
  BY <1>1, Generated
<1>4. VInv' /\ Grows
  BY GenerateExtendLockStep DEF Kept
<1>5. g.built = local
  BY GroupBuilt
<1>6. Timely(seen[c], local, now) /\ seen[c].account # {}
  BY <1>1, GeneratedTimely DEF Generate
<1>7. SlopeRead(seen[c], d, req[c].end, total, slopeDelta)
  BY SeenAs DEF SlopeRead
<1>8. g = Group(u, g.built, <<ExtendPart(u, seen[c], d, req[c], g.built)>>)
  BY Zenon, <1>5
<1> HIDE DEF g, d
<1>9. BuiltFrom(u, req[c], seen[c], g, total, slopeDelta, now)
  BY Zenon, <1>1, <1>5, <1>6, <1>7, <1>8 DEF BuiltFrom
<1>10. UNCHANGED <<req, seen, answer>>
  BY <1>1, <1>3
<1> QED
  BY <1>1, <1>2, <1>3, <1>4, <1>9, <1>10, BuiltKnows

LEMMA GenerateIncreaseKnows ==
  ASSUME VInv, AllKnow, NEW c \in Calls, NEW local \in Int, local <= now, GenerateIncrease(c, local)
  PROVE  AllKnow'
<1> DEFINE u == Owner[c]
           f == <<IncreasePart(u, seen[c], req[c], local)>>
           s == [account |-> seen[c].account, failed |-> seen[c].failed, rows |-> seen[c].rows,
                 global |-> seen[c].global, first |-> f, boxes |-> seen[c].boxes,
                 read |-> seen[c].read]
<1>1. /\ Generate(c, "global", local) /\ req[c].op = "both" /\ UNCHANGED group
      /\ pc' = [pc EXCEPT ![c] = "increase"]
  BY DEF GenerateIncrease, Go
<1>2. seen' = [seen EXCEPT ![c].first = f]
  BY SeenAs DEF GenerateIncrease, IncreasePart
<1>3. SameChain /\ UNCHANGED <<req, answer>> /\ pc[c] = "global"
  BY <1>1, Generated
<1>4. VInv' /\ Grows
  BY GenerateIncreaseStep DEF Kept
<1>5. IsSeen(seen[c])
  BY Zenon, CallShapes DEF CallIsHere, CallIs
<1>6. But(seen, seen', c, s)
  BY <1>2, <1>5, CallShapes, SeenSteps
<1>7. Timely(seen[c], local, now)
  BY <1>1, GeneratedTimely
<1>8. /\ s.account = seen[c].account /\ s.failed = seen[c].failed /\ s.rows = seen[c].rows
      /\ s.global = seen[c].global /\ s.first = f
  OBVIOUS
<1> HIDE DEF s
<1>9. f = <<IncreasePart(u, s, req[c], local)>> /\ Timely(s, local, now)
  BY Zenon, <1>7, <1>8 DEF IncreasePart, ReadAccount, Foretold, Timely
<1> HIDE DEF f
<1>10. KnowsIs(u, "global", req[c], seen[c], group[c], account[u], total, slopeDelta, now)
  BY Zenon, <1>3 DEF AllKnow, Knows
<1>11. KnowsAccount(seen[c], account[u]) /\ KnowsTotal(seen[c], total)
  <2>1. /\ "global" \in LocksAre /\ "global" \in LocksAre \ {"account"}
        /\ req[c].op \notin {"withdraw", "tinyPower", "totalPower"} /\ req[c].op # "totalPower"
    BY <1>1 DEF LocksAre
  <2> QED
    BY Zenon, <1>10, <2>1 DEF KnowsIs
<1>12. KnowsAccount(s, account[u]) /\ KnowsTotal(s, total)
  BY Zenon, <1>8, <1>11 DEF KnowsAccount, KnowsTotal
<1>13. KnowsIs(u, "increase", req[c], s, group[c], account[u], total, slopeDelta, now)
  BY <1>8, <1>9, <1>12 DEF KnowsIs
<1>14. But(pc, pc', c, "increase")
  BY <1>1, CallShapes, Excepted
<1>15. req' = req /\ group' = group /\ answer' = answer
  BY <1>1, <1>3
<1>16. But(req, req', c, req[c]) /\ But(group, group', c, group[c])
  <2>1. OfCalls(req) /\ OfCalls(group)
    BY CallShapes
  <2>2. But(req, req, c, req[c]) /\ But(group, group, c, group[c])
    BY <2>1, SameBut
  <2> QED
    BY Zenon, <1>15, <2>2
<1> HIDE DEF u
<1> QED
  BY <1>3, <1>4, <1>6, <1>13, <1>14, <1>15, <1>16, StepKnows DEF u

LEMMA PairConcat ==
  ASSUME NEW p, NEW q
  PROVE  <<p>> \o <<q>> = <<p, q>>
<1> DEFINE S == {p, q}
           x == <<p>>
           y == <<q>>
           z == <<p, q>>
<1>1. x \in Seq(S) /\ y \in Seq(S) /\ Len(x) = 1 /\ Len(y) = 1 /\ x[1] = p /\ y[1] = q
  OBVIOUS
<1>2. z \in Seq(S) /\ Len(z) = 2 /\ z[1] = p /\ z[2] = q
  OBVIOUS
<1> HIDE DEF S, x, y, z
<1>3. /\ x \o y \in Seq(S) /\ Len(x \o y) = Len(x) + Len(y)
      /\ \A i \in 1 .. Len(x) + Len(y) : (x \o y)[i] = IF i <= Len(x) THEN x[i] ELSE y[i - Len(x)]
  BY <1>1, ConcatProperties
<1>4. Len(x) + Len(y) = 2 /\ 1 \in 1 .. Len(x) + Len(y) /\ 2 \in 1 .. Len(x) + Len(y)
      /\ 2 - Len(x) = 1 /\ 1 <= Len(x) /\ ~ 2 <= Len(x)
  BY <1>1
<1>5. (x \o y)[1] = p /\ (x \o y)[2] = q
  BY Zenon, <1>1, <1>3, <1>4
<1>6. Len(x \o y) = 2
  BY <1>3, <1>4
<1> DEFINE w == x \o y
<1>7. w \in Seq(S) /\ Len(w) = 2 /\ w[1] = p /\ w[2] = q
  BY Zenon, <1>3, <1>5, <1>6
<1> HIDE DEF w
<1>8. \A i \in 1 .. 2 : w[i] = z[i]
  <2>1. \A i \in 1 .. 2 : i = 1 \/ i = 2
    OBVIOUS
  <2> QED
    BY Zenon, <1>2, <1>7, <2>1
<1>9. w = z
  BY <1>2, <1>7, <1>8, SeqEqual
<1> QED
  BY Zenon, <1>9 DEF w, x, y, z

LEMMA GenerateExtensionKnows ==
  ASSUME VInv, AllKnow, NEW c \in Calls, NEW local \in Int, local <= now,
         GenerateExtension(c, local)
  PROVE  AllKnow'
<1> DEFINE u == Owner[c]
           d == DeltaAt(req[c].end)
           q == SecondPart(u, seen[c], d, req[c], local)
           g == Group(u, local, seen[c].first \o <<q>>)
<1>1. /\ Generate(c, "increase", local) /\ UNCHANGED seen
      /\ pc' = [pc EXCEPT ![c] = "built"]
  BY DEF GenerateExtension, Builds, Go
<1>2. group' = [group EXCEPT ![c] = g]
  BY SeenAs DEF GenerateExtension, Builds, SecondPart
<1>3. pc[c] = "increase" /\ req[c].op = "both"
  BY <1>1, CallShapes DEF CallIsHere, CallIs, Generate
<1>4. SameChain /\ UNCHANGED <<req, answer>>
  BY <1>1, <1>3, Generated
<1>5. VInv' /\ Grows
  BY GenerateExtensionStep DEF Kept
<1>6. g.built = local
  BY GroupBuilt
<1>7. Timely(seen[c], local, now) /\ seen[c].account # {}
  BY <1>1, <1>3, GeneratedTimely DEF Generate
<1>8. SlopeRead(seen[c], d, req[c].end, total, slopeDelta)
  BY SeenAs DEF SlopeRead
<1>9. PICK first : Timely(seen[c], first, now)
                   /\ seen[c].first = <<IncreasePart(u, seen[c], req[c], first)>>
  BY <1>3 DEF AllKnow, Knows, KnowsIs
<1> DEFINE p == IncreasePart(u, seen[c], req[c], first)
<1>10. seen[c].first \o <<q>> = <<p, q>>
  <2>1. seen[c].first = <<p>>
    BY <1>9
  <2> QED
    BY Zenon, <2>1, PairConcat
<1>11. g = Group(u, g.built, <<p, SecondPart(u, seen[c], d, req[c], g.built)>>)
  BY Zenon, <1>6, <1>10
<1> HIDE DEF g, d, q
<1>12. BuiltFrom(u, req[c], seen[c], g, total, slopeDelta, now)
  BY Zenon, <1>3, <1>6, <1>7, <1>8, <1>9, <1>11 DEF BuiltFrom
<1>13. UNCHANGED <<req, seen, answer>>
  BY <1>1, <1>4
<1>14. pc[c] \in {"account", "global", "increase"} /\ (pc[c] = "account" => req[c].op = "withdraw")
       /\ req[c].op \notin {"tinyPower", "totalPower"}
  BY <1>3
<1> QED
  BY <1>1, <1>2, <1>4, <1>5, <1>12, <1>13, <1>14, BuiltKnows

LEMMA GenerateWithdrawKnows ==
  ASSUME VInv, AllKnow, NEW c \in Calls, GenerateWithdraw(c)
  PROVE  AllKnow'
<1> DEFINE u == Owner[c]
           g == Group(u, now, <<Withdraw(u, ReadAccount(seen[c]))>>)
<1>1. /\ pc[c] = "account" /\ req[c].op = "withdraw" /\ SameChain /\ UNCHANGED <<req, seen, answer>>
      /\ seen[c].account # {} /\ pc' = [pc EXCEPT ![c] = "built"]
  BY DEF GenerateWithdraw, Builds, Go, chainVars, SameChain
<1>2. group' = [group EXCEPT ![c] = g]
  BY SeenAs DEF GenerateWithdraw, Builds
<1>3. VInv' /\ Grows
  BY GenerateWithdrawStep DEF Kept
<1>4. g.built = now
  BY GroupBuilt
<1>5. g = Group(u, g.built, <<Withdraw(u, ReadAccount(seen[c]))>>)
  BY Zenon, <1>4
<1> HIDE DEF g
<1>6. BuiltFrom(u, req[c], seen[c], g, total, slopeDelta, now)
  BY Zenon, <1>1, <1>5 DEF BuiltFrom
<1> QED
  BY <1>1, <1>2, <1>3, <1>6, BuiltKnows

LEMMA PowersCounted ==
  ASSUME NEW acc, NEW at, IsAccount(acc, at)
  PROVE  Len(acc.powers) \in Nat
<1>1. acc.powers \in Seq(Rows)
  BY DEF IsAccount
<1> QED
  BY <1>1

\* The rows a call adds.
LEMMA AfterTotal ==
  ASSUME now \in Nat, NEW v, IsVault(v, now), NEW u \in Users, NEW call, IsCall(call)
  PROVE  /\ call.op = "withdraw" => After(v, u, call).total = v.total
         /\ call.op # "withdraw" =>
              /\ Len(After(v, u, call).total) = Len(v.total) + (CheckWeeks(LastTime(v.total)) + 1)
              /\ LastTime(After(v, u, call).total) = now
<1> DEFINE acc == v.account[u]
           amount == AmountAfter(acc, call)
           end == EndAfter(acc, call)
           after == Relocked(acc, amount, end)
           change == getSlope(amount) - getSlope(acc.amount)
           deltas == IF call.op = "extend"
                     THEN WithDelta(WithDelta(v.slopeDelta, acc.end, -getSlope(amount)),
                                    end, getSlope(amount))
                     ELSE WithDelta(v.slopeDelta, end, change)
           power == CurrentPower(after) - CurrentPower(acc)
           cp == Checkpoints(v.total, v.slopeDelta)
           rows == Raised(cp, power, change)
           accounts == [v.account EXCEPT ![u] = after]
           w == After(v, u, call)
<1>1. w = IF call.op = "withdraw" THEN [v EXCEPT !.account[u] = after]
          ELSE [total |-> rows, slopeDelta |-> deltas, account |-> accounts]
  BY Zenon DEF After, AmountAfter, EndAfter
<1>2. /\ v = [total |-> v.total, slopeDelta |-> v.slopeDelta, account |-> v.account]
      /\ Totals(v.total, now) /\ Deltas(v.slopeDelta) /\ IsAccount(acc, now)
  BY DEF IsVault
<1>3. acc.amount \in Nat /\ acc.end \in Nat /\ call.amount \in Nat /\ call.end \in Nat
  BY <1>2 DEF IsAccount, IsCall
<1> HIDE DEF acc
<1>4. amount \in Nat /\ end \in Nat
  BY <1>3 DEF AmountAfter, EndAfter
<1> HIDE DEF amount, end
<1>5. IsAccount(after, now)
  BY <1>2, <1>4, RelockedIsAccount
<1> HIDE DEF after
<1>6. change \in Int /\ power \in Int
  <2>1. getSlope(amount) \in Nat /\ getSlope(acc.amount) \in Nat
    BY <1>3, <1>4, SlopeType
  <2>2. CurrentPower(after) \in Int /\ CurrentPower(acc) \in Int
    BY <1>2, <1>5, CurrentPowerType
  <2> QED
    BY <2>1, <2>2
<1> HIDE DEF change, power, accounts, deltas, w
<1>7. /\ Totals(cp, now) /\ LastTime(cp) = now
      /\ Len(cp) = Len(v.total) + (CheckWeeks(LastTime(v.total)) + 1)
  BY <1>2, CheckpointsAre
<1> HIDE DEF cp
<1>8. /\ Len(rows) = Len(cp)
      /\ \A i \in 1 .. Len(cp) : rows[i].timestamp = cp[i].timestamp
  BY <1>6, <1>7, RaisedIs
<1>9. LastTime(rows) = now
  <2>1. Len(cp) \in 1 .. Len(cp)
    BY <1>7, LastRow
  <2> QED
    BY Zenon, <1>7, <1>8, <2>1 DEF LastTime
<1> HIDE DEF rows
<1>10. call.op = "withdraw" => w.total = v.total
  <2>1. [v EXCEPT !.account[u] = after].total = v.total
    BY <1>2
  <2> QED
    BY Zenon, <1>1, <2>1
<1>11. call.op # "withdraw" => w.total = rows
  BY <1>1
<1> QED
  BY <1>7, <1>8, <1>9, <1>10, <1>11 DEF w

LEMMA AfterAccounts ==
  ASSUME now \in Nat, NEW v, IsVault(v, now), NEW u \in Users, NEW call, IsCall(call),
         NEW w, w = After(v, u, call)
  PROVE  /\ \A x \in Users : x # u => w.account[x] = v.account[x]
         /\ Len(w.account[u].powers) = Len(v.account[u].powers) + 1
         /\ w.account[u].exists
         /\ w.account[u].amount = AmountAfter(v.account[u], call)
         /\ w.account[u].end = EndAfter(v.account[u], call)
         /\ Len(v.account[u].powers) \in Nat
<1> DEFINE acc == v.account[u]
           amount == AmountAfter(acc, call)
           end == EndAfter(acc, call)
           after == Relocked(acc, amount, end)
<1>1. w.account = [v.account EXCEPT ![u] = after] /\ v.account = [x \in Users |-> v.account[x]]
  <2>1. w.account = [v.account EXCEPT ![u] = after]
    BY AfterIs
  <2> QED
    BY <2>1 DEF IsVault
<1>2. w.account = [x \in Users |-> IF x = u THEN after ELSE v.account[x]]
  BY <1>1
<1>3. w.account[u] = after /\ \A x \in Users : x # u => w.account[x] = v.account[x]
  <2> HIDE DEF after
  <2> QED
    BY <1>2
<1>4. IsAccount(acc, now)
  BY DEF IsVault
<1>5. /\ acc.amount \in Nat /\ acc.end \in Nat /\ call.amount \in Nat /\ call.end \in Nat
      /\ Len(acc.powers) \in Nat
  BY <1>4 DEF IsAccount, IsCall
<1> HIDE DEF acc
<1>6. amount \in Nat /\ end \in Nat
  BY <1>5 DEF AmountAfter, EndAfter
<1>7. after.amount = amount /\ after.end = end /\ after.exists
  BY DEF Relocked
<1> HIDE DEF amount, end
<1>8. Len(after.powers) = Len(acc.powers) + 1
  BY <1>4, <1>6, RelockedIsAccount
<1> HIDE DEF after
<1> QED
  BY <1>3, <1>5, <1>7, <1>8 DEF acc, amount, end

\* What is read of a vault changes only as rows are added.
Shown(v, w) ==
  /\ w.total = v.total => w.slopeDelta = v.slopeDelta
  /\ \A u \in Users : \/ w.account[u] = v.account[u]
                      \/ Len(v.account[u].powers) < Len(w.account[u].powers)

LEMMA AfterShown ==
  ASSUME now \in Nat, NEW v, IsVault(v, now), NEW u \in Users, NEW call, IsCall(call)
  PROVE  Shown(v, After(v, u, call))
<1> DEFINE w == After(v, u, call)
<1>1. w.total = v.total => w.slopeDelta = v.slopeDelta
  <2>1. CASE call.op = "withdraw"
    <3>1. v = [total |-> v.total, slopeDelta |-> v.slopeDelta, account |-> v.account]
      BY DEF IsVault
    <3>2. w.slopeDelta = v.slopeDelta
      BY Zenon, <2>1, <3>1, AfterDeltas
    <3> QED
      BY <3>2
  <2>2. CASE call.op # "withdraw"
    <3>1. Len(w.total) = Len(v.total) + (CheckWeeks(LastTime(v.total)) + 1)
      BY <2>2, AfterTotal
    <3>2. Totals(v.total, now)
      BY DEF IsVault
    <3>3. Len(v.total) \in Nat /\ LastTime(v.total) \in Nat /\ LastTime(v.total) <= now
      BY <3>2, LastRow
    <3>4. CheckWeeks(LastTime(v.total)) \in Nat
      BY <3>3, CheckWeeksAre
    <3> HIDE DEF w
    <3>5. Len(w.total) # Len(v.total)
      BY <3>1, <3>3, <3>4
    <3> QED
      BY Zenon, <3>5
  <2> QED
    BY <2>1, <2>2
<1>2. /\ \A x \in Users : x # u => w.account[x] = v.account[x]
      /\ Len(w.account[u].powers) = Len(v.account[u].powers) + 1
      /\ Len(v.account[u].powers) \in Nat
  <2>1. w = After(v, u, call)
    OBVIOUS
  <2> HIDE DEF w
  <2> QED
    BY <2>1, AfterAccounts
<1> HIDE DEF w
<1>3. \A x \in Users : \/ w.account[x] = v.account[x]
                       \/ Len(v.account[x].powers) < Len(w.account[x].powers)
  BY <1>2
<1>4. Shown(v, w)
  BY <1>1, <1>3 DEF Shown
<1> QED
  BY <1>4 DEF w

\* The vault as it is, and in the middle of a group.
LEMMA VaultNow ==
  ASSUME VInv
  PROVE  /\ IsVault(Vault, now) /\ now \in Nat /\ Vault.total = total
         /\ Vault.slopeDelta = slopeDelta /\ Vault.account = account
<1> DEFINE v == Vault
<1>1. /\ now \in Nat /\ Totals(total, now) /\ Deltas(slopeDelta)
      /\ account = [u \in Users |-> account[u]] /\ \A u \in Users : IsAccount(account[u], now)
  BY ChainNow
<1>2. /\ v = [total |-> v.total, slopeDelta |-> v.slopeDelta, account |-> v.account]
      /\ v.total = total /\ v.slopeDelta = slopeDelta /\ v.account = account
  BY DEF Vault
<1> HIDE DEF v
<1>3. IsVault(v, now)
  BY Zenon, <1>1, <1>2 DEF IsVault
<1> QED
  BY <1>1, <1>2, <1>3 DEF v

LEMMA OutcomeShown ==
  ASSUME VInv, NEW g, IsGroup(g)
  PROVE  Shown(Vault, Outcome(g))
<1> DEFINE v == Vault
           u == g.user
           m == After(v, u, g.calls[1])
           w == After(m, u, g.calls[2])
<1>1. IsVault(v, now) /\ now \in Nat
  BY VaultNow
<1>2. u \in Users /\ Len(g.calls) \in 1 .. 2 /\ \A i \in 1 .. Len(g.calls) : IsCall(g.calls[i])
  BY DEF IsGroup
<1>3. IsCall(g.calls[1]) /\ (Len(g.calls) # 1 => IsCall(g.calls[2]))
  BY <1>2
<1>4. IsVault(m, now) /\ Grown(v, m, now) /\ Shown(v, m)
  <2> HIDE DEF v
  <2> QED
    BY <1>1, <1>2, <1>3, AfterIs, AfterShown
<1>5. Outcome(g) = IF Len(g.calls) = 1 THEN m ELSE w
  BY Zenon DEF Outcome, Middle
<1>6. CASE Len(g.calls) = 1
  BY Zenon, <1>4, <1>5, <1>6
<1>7. CASE Len(g.calls) # 1
  <2> HIDE DEF m, v, u
  <2>1. IsVault(w, now) /\ Grown(m, w, now) /\ Shown(m, w)
    BY <1>1, <1>2, <1>3, <1>4, <1>7, AfterIs, AfterShown
  <2> HIDE DEF w
  <2>2. w.total = v.total => w.slopeDelta = v.slopeDelta
    <3>1. ASSUME w.total = v.total  PROVE m.total = v.total
      <4>1. Totals(v.total, now) /\ Totals(m.total, now) /\ Totals(w.total, now)
        BY <1>1, <1>4, <2>1 DEF IsVault
      <4>2. Len(v.total) \in Nat /\ Len(m.total) \in Nat /\ Len(w.total) \in Nat
        BY <4>1 DEF Totals
      <4>3. /\ m.total = v.total \/ Len(v.total) < Len(m.total)
            /\ w.total = m.total \/ Len(m.total) < Len(w.total)
        BY <1>4, <2>1 DEF Grown, Checked
      <4> QED
        BY <3>1, <4>2, <4>3
    <3> QED
      BY Zenon, <1>4, <2>1, <3>1 DEF Shown
  <2>3. \A x \in Users : \/ w.account[x] = v.account[x]
                         \/ Len(v.account[x].powers) < Len(w.account[x].powers)
    <3> TAKE x \in Users
    <3>1. IsAccount(v.account[x], now) /\ IsAccount(m.account[x], now) /\ IsAccount(w.account[x], now)
      BY <1>1, <1>4, <2>1 DEF IsVault
    <3> DEFINE p == v.account[x]
               q == m.account[x]
               r == w.account[x]
    <3>2. /\ q = p \/ Len(p.powers) < Len(q.powers)
          /\ r = q \/ Len(q.powers) < Len(r.powers)
      BY <1>4, <2>1 DEF Shown
    <3> HIDE DEF p, q, r
    <3>3. Len(p.powers) \in Nat /\ Len(q.powers) \in Nat /\ Len(r.powers) \in Nat
      BY <3>1, PowersCounted DEF p, q, r
    <3>4. r = p \/ Len(p.powers) < Len(r.powers)
      BY <3>2, <3>3
    <3> QED
      BY Zenon, <3>4 DEF p, r
  <2>4. Shown(v, w)
    BY <2>2, <2>3 DEF Shown
  <2> QED
    BY Zenon, <1>5, <1>7, <2>4 DEF v
<1> QED
  BY <1>6, <1>7

\* A call comes to its end.
LEMMA EndedKnows ==
  ASSUME VInv, Kept, AllKnow, SameChain, UNCHANGED <<req, seen, group>>, NEW c \in Calls,
         NEW p, p \notin LocksAre, pc' = [pc EXCEPT ![c] = p],
         \A d \in Calls : d # c => answer'[d] = answer[d]
  PROVE  AllKnow'
<1>1. But(pc, pc', c, p)
  BY CallShapes, Excepted
<1>2. pc'[c] = p /\ \A d \in Calls : d # c => pc'[d] = pc[d]
  BY <1>1 DEF But
<1>3. Knows(c)'
  BY <1>2, NothingToKnow
<1>4. req' = req /\ seen' = seen /\ group' = group
  OBVIOUS
<1>5. \A d \in Calls : d # c => SameCall(d)
  BY Zenon, <1>2, <1>4 DEF SameCall
<1>6. Shows
  BY SameChainShows DEF SameChain
<1> QED
  BY <1>3, <1>5, <1>6, OthersKnow DEF Kept

LEMMA PlacesEnded ==
  "threw" \notin LocksAre /\ "refused" \notin LocksAre /\ "answered" \notin LocksAre
  /\ "executed" \notin LocksAre /\ "idle" \notin LocksAre
  BY DEF LocksAre

\* A failed read of the global state ends the call.
LEMMA FailGlobalKnows ==
  ASSUME VInv, AllKnow, NEW c \in Calls, NEW r \in Requests, FailGlobalState(c, r)
  PROVE  AllKnow'
<1> DEFINE s == [account |-> seen[c].account, failed |-> TRUE, rows |-> seen[c].rows,
                 global |-> seen[c].global, first |-> seen[c].first, boxes |-> seen[c].boxes,
                 read |-> seen[c].read]
<1>1. /\ req' = [req EXCEPT ![c] = r] /\ pc' = [pc EXCEPT ![c] = "answered"]
      /\ answer' = [answer EXCEPT ![c] = 0]
      /\ seen' = [seen EXCEPT ![c].failed = TRUE]
      /\ SameChain /\ group' = group
  BY DEF FailGlobalState, Go, Sees, Answers, chainVars, SameChain
<1>2. Kept
  BY FailGlobalStep
<1>3. IsSeen(seen[c])
  BY Zenon, CallShapes DEF CallIsHere, CallIs
<1>4. But(seen, seen', c, s)
  BY <1>1, <1>3, CallShapes, SeenSteps
<1> HIDE DEF s
<1>5. But(pc, pc', c, "answered") /\ But(req, req', c, r) /\ But(answer, answer', c, 0)
  BY <1>1, CallShapes, Excepted
<1>6. Knows(c)'
  BY <1>5, PlacesEnded, NothingToKnow DEF But
<1>7. \A d \in Calls : d # c => SameCall(d)
  BY Zenon, <1>1, <1>4, <1>5 DEF SameCall, But
<1>8. Shows
  BY <1>1, SameChainShows DEF SameChain
<1> QED
  BY <1>2, <1>6, <1>7, <1>8, OthersKnow DEF Kept

LEMMA ThrowKnows ==
  ASSUME VInv, AllKnow, NEW c \in Calls, Throw(c)
  PROVE  AllKnow'
<1>1. pc' = [pc EXCEPT ![c] = "threw"] /\ SameChain /\ UNCHANGED <<req, seen, group, answer>>
  BY DEF Throw, Go, chainVars, SameChain
<1>2. \A d \in Calls : d # c => answer'[d] = answer[d]
  BY <1>1
<1> QED
  BY <1>1, <1>2, PlacesEnded, ThrowStep, EndedKnows

LEMMA RefuseKnows ==
  ASSUME VInv, AllKnow, NEW c \in Calls, Refuse(c)
  PROVE  AllKnow'
<1>1. pc' = [pc EXCEPT ![c] = "refused"] /\ SameChain /\ UNCHANGED <<req, seen, group, answer>>
  BY DEF Refuse, chainVars, SameChain
<1>2. \A d \in Calls : d # c => answer'[d] = answer[d]
  BY <1>1
<1> QED
  BY <1>1, <1>2, PlacesEnded, RefuseStep, EndedKnows

LEMMA AnswerTinyKnows ==
  ASSUME VInv, AllKnow, NEW c \in Calls, AnswerTinyPower(c)
  PROVE  AllKnow'
<1> DEFINE n == PowerRead(seen[c].read, req[c].at)
<1>1. /\ pc' = [pc EXCEPT ![c] = "answered"] /\ answer' = [answer EXCEPT ![c] = n]
      /\ SameChain /\ UNCHANGED <<req, seen, group>>
  BY DEF AnswerTinyPower, Answers, Go, PowerRead, chainVars, SameChain
<1> HIDE DEF n
<1>2. \A d \in Calls : d # c => answer'[d] = answer[d]
  <2>1. But(answer, answer', c, n)
    BY <1>1, CallShapes, Excepted
  <2> QED
    BY <2>1 DEF But
<1> QED
  BY <1>1, <1>2, PlacesEnded, AnswerTinyStep, EndedKnows

LEMMA AnswerTotalKnows ==
  ASSUME VInv, AllKnow, NEW c \in Calls, AnswerTotalPower(c)
  PROVE  AllKnow'
<1>1. /\ SameChain /\ UNCHANGED <<req, seen, group>>
      /\ \/ pc' = [pc EXCEPT ![c] = "answered"] /\ \E n : answer' = [answer EXCEPT ![c] = n]
         \/ pc' = [pc EXCEPT ![c] = "threw"] /\ UNCHANGED answer
  BY Zenon DEF AnswerTotalPower, Answers, Go, chainVars, SameChain
<1>2. CASE pc' = [pc EXCEPT ![c] = "answered"] /\ \E n : answer' = [answer EXCEPT ![c] = n]
  <2>1. PICK n : answer' = [answer EXCEPT ![c] = n]
    BY <1>2
  <2>2. But(answer, answer', c, n)
    BY <2>1, CallShapes, Excepted
  <2>3. \A d \in Calls : d # c => answer'[d] = answer[d]
    BY <2>2 DEF But
  <2> QED
    BY <1>1, <1>2, <2>3, PlacesEnded, AnswerTotalStep, EndedKnows
<1>3. CASE pc' = [pc EXCEPT ![c] = "threw"] /\ UNCHANGED answer
  <2>1. \A d \in Calls : d # c => answer'[d] = answer[d]
    BY <1>3
  <2> QED
    BY <1>1, <1>3, <2>1, PlacesEnded, AnswerTotalStep, EndedKnows
<1> QED
  BY <1>1, <1>2, <1>3

LEMMA AllStillKnow ==
  ASSUME VInv, Kept, AllKnow, Shows, UNCHANGED callVars
  PROVE  AllKnow'
<1>1. pc' = pc /\ req' = req /\ seen' = seen /\ group' = group /\ answer' = answer
  BY DEF callVars
<1>2. \A c \in Calls : SameCall(c)
  BY Zenon, <1>1 DEF SameCall
<1>3. \A c \in Calls : Knows(c)'
  BY <1>2, SameKnows DEF AllKnow, Kept
<1> QED
  BY <1>3 DEF AllKnow

LEMMA TickKnows ==
  ASSUME VInv, AllKnow, Tick
  PROVE  AllKnow'
<1>1. UNCHANGED <<total, slopeDelta, account>> /\ UNCHANGED callVars
  BY DEF Tick
<1>2. Shows
  BY <1>1, SameChainShows
<1> QED
  BY <1>1, <1>2, TickStep, AllStillKnow

LEMMA OtherLockKnows ==
  ASSUME VInv, AllKnow, NEW l \in OtherLocks, OtherLock(l)
  PROVE  AllKnow'
<1> DEFINE bias == calculateTinyPower(l.amount, l.end, now)
           slope == getSlope(l.amount)
           t == Raised(Checkpoints(total, slopeDelta), bias, slope)
<1>1. total' = t /\ account' = account /\ UNCHANGED callVars
  BY DEF OtherLock
<1>2. now \in Nat /\ Totals(total, now) /\ Deltas(slopeDelta) /\ l.amount \in Nat /\ l.end \in Nat
  BY ChainNow, RequestAssumption
<1>3. slope \in Nat
  BY <1>2, SlopeType
<1>4. bias \in Int
  <2>1. l.end - now \in Int
    BY <1>2
  <2>2. getBias(getSlope(l.amount), l.end - now) \in Int
    BY <1>3, <2>1, BiasType
  <2> QED
    BY <2>2 DEF calculateTinyPower
<1>5. slope \in Int
  BY <1>3
<1> HIDE DEF bias, slope
<1>6. Totals(t, now) /\ Checked(total, t, now)
  BY <1>2, <1>4, <1>5, CheckpointedAndRaised
<1> HIDE DEF t
<1>7. t # total
  <2>1. Len(total) \in Nat /\ Len(total) < Len(t)
    BY <1>2, <1>6 DEF Totals, Checked
  <2> QED
    BY <2>1
<1>8. Shows
  BY <1>1, <1>7 DEF Shows
<1> QED
  BY <1>1, <1>8, OtherLockStep, AllStillKnow

LEMMA ExecuteKnows ==
  ASSUME VInv, AllKnow, NEW c \in Calls, Execute(c)
  PROVE  AllKnow'
<1> DEFINE w == Outcome(group[c])
<1>1. /\ pc[c] = "built" /\ total' = w.total /\ slopeDelta' = w.slopeDelta /\ account' = w.account
      /\ pc' = [pc EXCEPT ![c] = "executed"]
      /\ now' = now /\ req' = req /\ seen' = seen /\ group' = group /\ answer' = answer
  BY DEF Execute
<1>2. IsGroup(group[c])
  BY <1>1, CallShapes DEF CallIsHere, CallIs
<1>3. Shown(Vault, w)
  BY <1>2, OutcomeShown
<1> HIDE DEF w
<1>4. Vault.total = total /\ Vault.account = account /\ Vault.slopeDelta = slopeDelta
  BY VaultNow
<1>5. Shows
  BY Zenon, <1>1, <1>3, <1>4 DEF Shown, Shows
<1>6. But(pc, pc', c, "executed")
  BY <1>1, CallShapes, Excepted
<1>7. pc'[c] = "executed" /\ \A d \in Calls : d # c => SameCall(d)
  BY Zenon, <1>1, <1>6 DEF SameCall, But
<1>8. Knows(c)'
  BY <1>7, PlacesEnded, NothingToKnow
<1> QED
  BY <1>5, <1>7, <1>8, ExecuteStep, OthersKnow DEF Kept

LEMMA AllKnowAtFirst ==
  ASSUME Init
  PROVE  AllKnow
<1>1. pc = [c \in Calls |-> "idle"]
  BY DEF Init
<1>2. ASSUME NEW c \in Calls  PROVE Knows(c)
  <2>1. pc[c] = "idle"
    BY <1>1
  <2>2. "idle" \notin LocksAre /\ "idle" # "increase" /\ "idle" # "built"
    BY DEF LocksAre
  <2>3. KnowsIs(Owner[c], "idle", req[c], seen[c], group[c], account[Owner[c]], total,
                slopeDelta, now)
    BY <2>2 DEF KnowsIs
  <2> QED
    BY Zenon, <2>1, <2>3 DEF Knows
<1> QED
  BY <1>2 DEF AllKnow

\* Every step of the vault's specification keeps what is known.
LEMMA AllKnowKept ==
  ASSUME VInv, AllKnow, Next
  PROVE  AllKnow'
<1>1. \A lag \in Lags : now - lag \in Int /\ now - lag <= now
  <2> TAKE lag \in Lags
  <2>1. now \in Nat /\ lag \in Nat
    BY ChainNow, RequestAssumption
  <2> QED
    BY <2>1
<1>2. CASE Tick
  BY <1>2, TickKnows
<1>3. CASE \E l \in OtherLocks : OtherLock(l)
  BY <1>3, OtherLockKnows
<1>4. ASSUME NEW c \in Calls,
             \E r \in Requests, failed \in BOOLEAN : FetchAccountState(c, r, failed)
      PROVE  AllKnow'
  BY <1>4, FetchAccountKnows
<1>5. ASSUME NEW c \in Calls, \E r \in Requests : FetchGlobalState(c, r) \/ FailGlobalState(c, r)
      PROVE  AllKnow'
  BY <1>5, FetchGlobalKnows, FailGlobalKnows
<1>6. ASSUME NEW c \in Calls, NEW lag \in Lags, GenerateCreateLock(c, now - lag)  PROVE AllKnow'
  BY <1>1, <1>6, GenerateCreateKnows
<1>7. ASSUME NEW c \in Calls, NEW lag \in Lags, GenerateIncreaseLockAmount(c, now - lag)
      PROVE  AllKnow'
  BY <1>1, <1>7, GenerateIncreaseLockKnows
<1>8. ASSUME NEW c \in Calls, NEW lag \in Lags, GenerateExtendLockTime(c, now - lag)
      PROVE  AllKnow'
  BY <1>1, <1>8, GenerateExtendLockKnows
<1>9. ASSUME NEW c \in Calls, NEW lag \in Lags, GenerateIncrease(c, now - lag)  PROVE AllKnow'
  BY <1>1, <1>9, GenerateIncreaseKnows
<1>10. ASSUME NEW c \in Calls, NEW lag \in Lags, GenerateExtension(c, now - lag)  PROVE AllKnow'
  BY <1>1, <1>10, GenerateExtensionKnows
<1>11. ASSUME NEW c \in Calls, GenerateWithdraw(c)  PROVE AllKnow'
  BY <1>11, GenerateWithdrawKnows
<1>12. ASSUME NEW c \in Calls, Throw(c)  PROVE AllKnow'
  BY <1>12, ThrowKnows
<1>13. ASSUME NEW c \in Calls, ReadBox(c)  PROVE AllKnow'
  BY <1>13, ReadKnows
<1>14. ASSUME NEW c \in Calls, AnswerTinyPower(c)  PROVE AllKnow'
  BY <1>14, AnswerTinyKnows
<1>15. ASSUME NEW c \in Calls, AnswerTotalPower(c)  PROVE AllKnow'
  BY <1>15, AnswerTotalKnows
<1>16. ASSUME NEW c \in Calls, Execute(c)  PROVE AllKnow'
  BY <1>16, ExecuteKnows
<1>17. ASSUME NEW c \in Calls, Refuse(c)  PROVE AllKnow'
  BY <1>17, RefuseKnows
<1> QED
  BY Zenon, <1>2, <1>3, <1>4, <1>5, <1>6, <1>7, <1>8, <1>9, <1>10, <1>11, <1>12, <1>13, <1>14,
     <1>15, <1>16, <1>17 DEF Next

LEMMA AllKnowStutters ==
  ASSUME AllKnow, UNCHANGED vars
  PROVE  AllKnow'
<1>1. /\ now' = now /\ total' = total /\ slopeDelta' = slopeDelta /\ account' = account
      /\ pc' = pc /\ req' = req /\ seen' = seen /\ group' = group
  BY DEF vars, chainVars, callVars
<1> QED
  BY Zenon, <1>1 DEF AllKnow, Knows
-----------------------------------------------------------------------------
(* The boxes of rows, and what they cost.                                   *)

\* What a group is made of.
LEMMA GroupOneIs ==
  ASSUME NEW u, NEW local, NEW p
  PROVE  LET g == Group(u, local, <<p>>)
         IN  g.user = u /\ g.calls = <<p.call>> /\ g.refs = p.refs /\ g.pay = p.pay
<1> DEFINE calls == [i \in DOMAIN <<p>> |-> <<p>>[i].call]
           g == Group(u, local, <<p>>)
<1>1. DOMAIN <<p>> = 1 .. 1 /\ <<p>>[1] = p /\ Len(<<p>>) = 1
  OBVIOUS
<1>2. g.user = u /\ g.calls = calls /\ g.refs = p.refs /\ g.pay = p.pay
  BY <1>1 DEF Group
<1>3. calls = <<p.call>>
  BY <1>1
<1> HIDE DEF calls, g
<1> QED
  BY <1>2, <1>3 DEF g

Joined(refs, more) == refs \o more

LEMMA GroupTwoIs ==
  ASSUME NEW u, NEW local, NEW p, NEW q, NEW g, g = Group(u, local, <<p, q>>)
  PROVE  /\ g.user = u /\ g.calls = <<p.call, q.call>> /\ g.refs = Joined(p.refs, q.refs)
         /\ g.pay = p.pay + q.pay
<1> DEFINE parts == <<p, q>>
           calls == [i \in DOMAIN parts |-> parts[i].call]
           pay == IF Len(parts) = 1 THEN parts[1].pay ELSE parts[1].pay + parts[2].pay
           refs == IF Len(parts) = 1 THEN parts[1].refs ELSE parts[1].refs \o parts[2].refs
<1>1. DOMAIN parts = 1 .. 2 /\ parts[1] = p /\ parts[2] = q /\ Len(parts) # 1
  OBVIOUS
<1>2. g = Group(u, local, parts)
  OBVIOUS
<1> HIDE DEF parts
<1>3. g = [user |-> u, built |-> local, calls |-> calls, refs |-> refs, pay |-> pay]
  BY Zenon, <1>2 DEF Group
<1>4. calls = <<p.call, q.call>>
  BY <1>1
<1>5. refs = Joined(p.refs, q.refs) /\ pay = p.pay + q.pay
  BY Zenon, <1>1 DEF Joined
<1> HIDE DEF calls, refs, pay
<1>6. g.user = u /\ g.calls = calls /\ g.refs = refs /\ g.pay = pay
  BY <1>3
<1> QED
  BY Zenon, <1>4, <1>5, <1>6 DEF parts

LEMMA CostsAre ==
  /\ Cost["state"] \in Nat /\ Cost["power"] \in Nat /\ Cost["tp"] \in Nat /\ Cost["sc"] \in Nat
  /\ \A s : PowerCost(s) \in Nat
  /\ \A g, expected : TotalCost(g, expected) \in Nat
<1>1. Cost["state"] \in Nat /\ Cost["power"] \in Nat /\ Cost["tp"] \in Nat /\ Cost["sc"] \in Nat
  BY CostAssumption
<1>2. \A s : PowerCost(s) \in Nat
  BY <1>1 DEF PowerCost
<1>3. \A g, expected : TotalCost(g, expected) \in Nat
  BY <1>1 DEF TotalCost
<1> QED
  BY <1>1, <1>2, <1>3

LEMMA AskedAmount ==
  ASSUME NEW r \in Requests, r.op \in {"create", "both", "increase"}
  PROVE  r.amount > 0
<1> DEFINE amounts == {a \in Amounts : a >= MinLockAmount}
           ends == {e \in Ends : e % WEEK = 0}
           S1 == [op : {"create", "both"}, amount : amounts, end : ends, at : {0}]
           S2 == [op : {"increase"}, amount : amounts, end : {0}, at : {0}]
           S3 == [op : {"extend"}, amount : {0}, end : ends, at : {0}]
           S4 == [op : {"withdraw"}, amount : {0}, end : {0}, at : {0}]
           S5 == [op : {"tinyPower", "totalPower"}, amount : {0}, end : {0}, at : Times]
<1>1. Amounts \subseteq Nat /\ MinLockAmount \in Nat /\ MinLockAmount > 0
  BY RequestAssumption
<1>2. \A a \in amounts : a > 0
  BY <1>1
<1>3. r \in S1 \/ r \in S2 \/ r \in S3 \/ r \in S4 \/ r \in S5
  BY Zenon DEF Requests
<1> HIDE DEF amounts, ends
<1>4. r \in S1 \/ r \in S2
  <2>1. /\ r \in S3 => r.op = "extend"
        /\ r \in S4 => r.op = "withdraw"
        /\ r \in S5 => r.op \in {"tinyPower", "totalPower"}
    OBVIOUS
  <2> QED
    BY <1>3, <2>1
<1>5. r.amount \in amounts
  BY <1>4
<1> QED
  BY <1>2, <1>5

\* The parts of a group, whatever was read.
LEMMA PartsFit ==
  ASSUME NEW r \in Requests, NEW u, NEW s, NEW local
  PROVE  /\ r.op = "create" => \A there \in BOOLEAN :
              LET p == CreatePart(u, s, there, r, local) IN CallFits(p.call) /\ p.pay \in Nat
         /\ r.op \in {"increase", "both"} =>
              LET p == IncreasePart(u, s, r, local) IN CallFits(p.call) /\ p.pay \in Nat
         /\ r.op = "extend" => \A d :
              LET p == ExtendPart(u, s, d, r, local) IN CallFits(p.call) /\ p.pay \in Nat
         /\ r.op = "both" => \A d :
              LET p == SecondPart(u, s, d, r, local) IN CallFits(p.call) /\ p.pay \in Nat
         /\ LET p == Withdraw(u, ReadAccount(s)) IN CallFits(p.call) /\ p.pay \in Nat
<1>1. r.amount \in Nat /\ r.end \in Nat /\ r.end % WEEK = 0 /\ 0 % WEEK = 0
  BY RequestIs, WeekIs
<1>2. r.op \in {"create", "both", "increase"} => r.amount > 0
  BY AskedAmount
<1>3. ASSUME r.op = "create", NEW there \in BOOLEAN
      PROVE  LET p == CreatePart(u, s, there, r, local) IN CallFits(p.call) /\ p.pay \in Nat
  <2> DEFINE p == CreatePart(u, s, there, r, local)
             call == [op |-> "create", amount |-> r.amount, end |-> r.end]
             x == CHOOSE y \in s.account : TRUE
             first == IF s.account = {} THEN Cost["state"] + Cost["power"] ELSE PowerCost(x)
             slope == IF there THEN 0 ELSE Cost["sc"]
             tp == TotalCost(s.global, Foretold(s, local))
  <2>1. p.call = call /\ p.pay = first + tp + slope
    BY DEF CreatePart, CreateLock
  <2>2. CallFits(call)
    BY <1>1, <1>2, <1>3 DEF CallFits, IsCall
  <2>3. first \in Nat /\ tp \in Nat /\ slope \in Nat
    <3>1. first \in Nat
      <4> HIDE DEF x
      <4> QED
        BY CostsAre
    <3>2. tp \in Nat
      BY CostsAre
    <3>3. slope \in Nat
      BY CostsAre
    <3> QED
      BY <3>1, <3>2, <3>3
  <2> HIDE DEF first, tp, slope
  <2>4. first + tp + slope \in Nat
    BY <2>3
  <2> HIDE DEF p, call
  <2>5. CallFits(p.call) /\ p.pay \in Nat
    BY Zenon, <2>1, <2>2, <2>4
  <2> QED
    BY Zenon, <2>5 DEF p
<1>4. ASSUME r.op \in {"increase", "both"}
      PROVE  LET p == IncreasePart(u, s, r, local) IN CallFits(p.call) /\ p.pay \in Nat
  <2> DEFINE p == IncreasePart(u, s, r, local)
             call == [op |-> "increase", amount |-> r.amount, end |-> 0]
             tp == TotalCost(s.global, Foretold(s, local))
             power == PowerCost(ReadAccount(s))
  <2>1. p.call = call /\ p.pay = tp + power
    BY DEF IncreasePart, IncreaseLockAmount
  <2>2. CallFits(call)
    BY <1>1, <1>2, <1>4 DEF CallFits, IsCall
  <2>3. tp \in Nat /\ power \in Nat
    BY CostsAre
  <2> HIDE DEF p, call, tp, power
  <2>4. CallFits(p.call) /\ p.pay \in Nat
    BY <2>1, <2>2, <2>3
  <2> QED
    BY Zenon, <2>4 DEF p
<1>5. ASSUME NEW a, NEW g, NEW d
      PROVE  LET p == ExtendLockEndTime(u, a, g, d, r, Foretold(s, local))
             IN  CallFits(p.call) /\ p.pay \in Nat
  <2> DEFINE p == ExtendLockEndTime(u, a, g, d, r, Foretold(s, local))
             call == [op |-> "extend", amount |-> 0, end |-> r.end]
             slope == IF d = 0 THEN Cost["sc"] ELSE 0
             tp == TotalCost(g, Foretold(s, local))
             power == PowerCost(a)
  <2>1. p.call = call /\ p.pay = slope + power + tp
    BY DEF ExtendLockEndTime
  <2>2. CallFits(call)
    BY <1>1 DEF CallFits, IsCall
  <2>3. slope \in Nat /\ tp \in Nat /\ power \in Nat
    BY CostsAre
  <2> HIDE DEF p, call, slope, tp, power
  <2>4. CallFits(p.call) /\ p.pay \in Nat
    BY <2>1, <2>2, <2>3
  <2> QED
    BY Zenon, <2>4 DEF p
<1>6. LET p == Withdraw(u, ReadAccount(s)) IN CallFits(p.call) /\ p.pay \in Nat
  <2> DEFINE p == Withdraw(u, ReadAccount(s))
             call == [op |-> "withdraw", amount |-> 0, end |-> 0]
             power == PowerCost(ReadAccount(s))
  <2>1. p.call = call /\ p.pay = power
    BY DEF Withdraw
  <2>2. CallFits(call)
    BY DEF CallFits, IsCall
  <2>3. power \in Nat
    BY CostsAre
  <2> HIDE DEF p, call, power
  <2>4. CallFits(p.call) /\ p.pay \in Nat
    BY <2>1, <2>2, <2>3
  <2> QED
    BY Zenon, <2>4 DEF p
<1> QED
  BY Zenon, <1>3, <1>4, <1>5, <1>6 DEF ExtendPart, SecondPart

LEMMA BuiltFits ==
  ASSUME NEW r \in Requests, NEW u, NEW s, NEW g, NEW tot, NEW deltas, NEW at,
         BuiltFrom(u, r, s, g, tot, deltas, at)
  PROVE  /\ g.user = u /\ g.pay \in Nat /\ Len(g.calls) \in 1 .. 2
         /\ \A i \in 1 .. Len(g.calls) : CallFits(g.calls[i])
<1>1. ASSUME NEW p, CallFits(p.call), p.pay \in Nat, g = Group(u, g.built, <<p>>)
      PROVE  /\ g.user = u /\ g.pay \in Nat /\ Len(g.calls) \in 1 .. 2
             /\ \A i \in 1 .. Len(g.calls) : CallFits(g.calls[i])
  <2> DEFINE h == Group(u, g.built, <<p>>)
  <2>1. h.user = u /\ h.calls = <<p.call>> /\ h.pay = p.pay
    BY GroupOneIs
  <2> HIDE DEF h
  <2>2. g = h
    BY <1>1 DEF h
  <2>3. g.user = u /\ g.calls = <<p.call>> /\ g.pay = p.pay
    BY Zenon, <2>1, <2>2
  <2> QED
    BY <1>1, <2>3
<1>2. ASSUME NEW p, NEW q, CallFits(p.call), p.pay \in Nat, CallFits(q.call), q.pay \in Nat,
             g = Group(u, g.built, <<p, q>>)
      PROVE  /\ g.user = u /\ g.pay \in Nat /\ Len(g.calls) \in 1 .. 2
             /\ \A i \in 1 .. Len(g.calls) : CallFits(g.calls[i])
  <2> DEFINE b == g.built
  <2>1. g = Group(u, b, <<p, q>>)
    BY <1>2
  <2> HIDE DEF b
  <2>2. g.user = u /\ g.calls = <<p.call, q.call>> /\ g.pay = p.pay + q.pay
    BY <2>1, GroupTwoIs
  <2>3. g.calls = <<p.call, q.call>> /\ g.pay = p.pay + q.pay /\ g.user = u
    BY <2>2
  <2>4. Len(g.calls) = 2 /\ g.calls[1] = p.call /\ g.calls[2] = q.call
    BY <2>3
  <2>5. \A i \in 1 .. 2 : i = 1 \/ i = 2
    OBVIOUS
  <2>6. g.pay \in Nat /\ 2 \in 1 .. 2
    BY <1>2, <2>3
  <2> QED
    BY Zenon, <1>2, <2>3, <2>4, <2>5, <2>6
<1>3. CASE r.op = "create"
  <2>1. PICK there \in BOOLEAN : g = Group(u, g.built, <<CreatePart(u, s, there, r, g.built)>>)
    BY Zenon, <1>3 DEF BuiltFrom
  <2> DEFINE p == CreatePart(u, s, there, r, g.built)
  <2>2. CallFits(p.call) /\ p.pay \in Nat
    BY Zenon, <1>3, PartsFit
  <2> HIDE DEF p
  <2>3. g = Group(u, g.built, <<p>>)
    BY Zenon, <2>1 DEF p
  <2> QED
    BY Zenon, <1>1, <2>2, <2>3
<1>4. CASE r.op = "increase"
  <2> DEFINE p == IncreasePart(u, s, r, g.built)
  <2>1. g = Group(u, g.built, <<p>>)
    BY Zenon, <1>4 DEF BuiltFrom
  <2>2. r.op \in {"increase", "both"}
    BY <1>4
  <2>3. CallFits(p.call) /\ p.pay \in Nat
    BY Zenon, <2>2, PartsFit
  <2> HIDE DEF p
  <2> QED
    BY Zenon, <1>1, <2>1, <2>3
<1>5. CASE r.op = "extend"
  <2>1. PICK d : g = Group(u, g.built, <<ExtendPart(u, s, d, r, g.built)>>)
    BY Zenon, <1>5 DEF BuiltFrom
  <2> DEFINE p == ExtendPart(u, s, d, r, g.built)
  <2>2. CallFits(p.call) /\ p.pay \in Nat
    BY Zenon, <1>5, PartsFit
  <2> HIDE DEF p
  <2>3. g = Group(u, g.built, <<p>>)
    BY Zenon, <2>1 DEF p
  <2> QED
    BY Zenon, <1>1, <2>2, <2>3
<1>6. CASE r.op = "both"
  <2>1. PICK first, d : g = Group(u, g.built, <<IncreasePart(u, s, r, first),
                                                SecondPart(u, s, d, r, g.built)>>)
    BY Zenon, <1>6 DEF BuiltFrom
  <2> DEFINE p == IncreasePart(u, s, r, first)
             q == SecondPart(u, s, d, r, g.built)
  <2>2. r.op \in {"increase", "both"}
    BY <1>6
  <2>3. CallFits(p.call) /\ p.pay \in Nat
    BY Zenon, <2>2, PartsFit
  <2>4. CallFits(q.call) /\ q.pay \in Nat
    BY Zenon, <1>6, PartsFit
  <2> HIDE DEF p, q
  <2>5. g = Group(u, g.built, <<p, q>>)
    BY Zenon, <2>1 DEF p, q
  <2> QED
    BY Zenon, <1>2, <2>3, <2>4, <2>5
<1>7. CASE r.op = "withdraw"
  <2> DEFINE p == Withdraw(u, ReadAccount(s))
  <2>1. g = Group(u, g.built, <<p>>)
    BY Zenon, <1>7 DEF BuiltFrom
  <2>2. CallFits(p.call) /\ p.pay \in Nat
    BY Zenon, PartsFit
  <2> HIDE DEF p
  <2> QED
    BY Zenon, <1>1, <2>1, <2>2
<1> QED
  BY Zenon, <1>3, <1>4, <1>5, <1>6, <1>7 DEF BuiltFrom

\* The boxes of a number of rows, and those made for more.
Rowed(n) == {BoxOf(r) : r \in 0 .. n - 1}
Made(n, m) == Rowed(m) \ Rowed(n)

LEMMA SameBox ==
  /\ \A u, w : StateBox(u) = StateBox(w) => u = w
  /\ \A u, i, w, j : PowerBox(u, i) = PowerBox(w, j) => u = w /\ i = j
  /\ \A i, j : TotalBox(i) = TotalBox(j) => i = j
  /\ \A i, j : SlopeBox(i) = SlopeBox(j) => i = j
  BY DEF StateBox, PowerBox, TotalBox, SlopeBox

LEMMA OtherBox ==
  /\ \A u, w, j : StateBox(u) # PowerBox(w, j)
  /\ \A u, j : StateBox(u) # TotalBox(j) /\ StateBox(u) # SlopeBox(j)
  /\ \A u, i, j : PowerBox(u, i) # TotalBox(j) /\ PowerBox(u, i) # SlopeBox(j)
  /\ \A i, j : TotalBox(i) # SlopeBox(j)
  BY DEF StateBox, PowerBox, TotalBox, SlopeBox

StatesIn(v) == {StateBox(u) : u \in {w \in Users : v.account[w].exists}}
PowersIn(v) ==
  UNION {{PowerBox(u, BoxOf(r)) : r \in 0 .. Len(v.account[u].powers) - 1} : u \in Users}
TotalsIn(v) == {TotalBox(BoxOf(r)) : r \in 0 .. Len(v.total) - 1}
SlopesIn(v) == {SlopeBox(t) : t \in DOMAIN v.slopeDelta}

LEMMA BoxesAre ==
  ASSUME NEW v
  PROVE  Boxes(v) = StatesIn(v) \cup PowersIn(v) \cup TotalsIn(v) \cup SlopesIn(v)
<1> DEFINE a == {StateBox(u) : u \in {w \in Users : v.account[w].exists}}
           b == UNION {{PowerBox(u, BoxOf(r)) : r \in 0 .. Len(v.account[u].powers) - 1} : u \in Users}
           c == {TotalBox(BoxOf(r)) : r \in 0 .. Len(v.total) - 1}
           d == {SlopeBox(t) : t \in DOMAIN v.slopeDelta}
<1>1. Boxes(v) = a \cup b \cup c \cup d
  BY DEF Boxes
<1>2. a = StatesIn(v) /\ c = TotalsIn(v) /\ d = SlopesIn(v)
  BY Zenon DEF StatesIn, TotalsIn, SlopesIn
<1>3. b = PowersIn(v)
  BY Zenon DEF PowersIn
<1> HIDE DEF a, b, c, d
<1> QED
  BY Zenon, <1>1, <1>2, <1>3

LEMMA BoxForms ==
  ASSUME NEW v
  PROVE  /\ \A b \in StatesIn(v) : \E x \in Users : v.account[x].exists /\ b = StateBox(x)
         /\ \A b \in PowersIn(v) :
              \E x \in Users : \E i \in Rowed(Len(v.account[x].powers)) : b = PowerBox(x, i)
         /\ \A b \in TotalsIn(v) : \E i \in Rowed(Len(v.total)) : b = TotalBox(i)
         /\ \A b \in SlopesIn(v) : \E t \in DOMAIN v.slopeDelta : b = SlopeBox(t)
<1>1. \A b \in StatesIn(v) : \E x \in Users : v.account[x].exists /\ b = StateBox(x)
  BY DEF StatesIn
<1>2. \A b \in PowersIn(v) :
        \E x \in Users : \E i \in Rowed(Len(v.account[x].powers)) : b = PowerBox(x, i)
  <2> SUFFICES ASSUME NEW b \in PowersIn(v)
               PROVE  \E x \in Users : \E i \in Rowed(Len(v.account[x].powers)) : b = PowerBox(x, i)
    OBVIOUS
  <2>1. PICK x \in Users : b \in {PowerBox(x, BoxOf(r)) : r \in 0 .. Len(v.account[x].powers) - 1}
    BY Zenon DEF PowersIn
  <2>2. PICK r \in 0 .. Len(v.account[x].powers) - 1 : b = PowerBox(x, BoxOf(r))
    BY Zenon, <2>1
  <2>3. BoxOf(r) \in Rowed(Len(v.account[x].powers))
    BY Zenon DEF Rowed
  <2> QED
    BY Zenon, <2>2, <2>3
<1>3. \A b \in TotalsIn(v) : \E i \in Rowed(Len(v.total)) : b = TotalBox(i)
  BY Zenon DEF TotalsIn, Rowed
<1>4. \A b \in SlopesIn(v) : \E t \in DOMAIN v.slopeDelta : b = SlopeBox(t)
  BY Zenon DEF SlopesIn
<1> QED
  BY Zenon, <1>1, <1>2, <1>3, <1>4

LEMMA BoxIn ==
  ASSUME NEW v
  PROVE  /\ \A x : StateBox(x) \in Boxes(v) <=> x \in Users /\ v.account[x].exists
         /\ \A x, i : PowerBox(x, i) \in Boxes(v)
                        <=> x \in Users /\ i \in Rowed(Len(v.account[x].powers))
         /\ \A i : TotalBox(i) \in Boxes(v) <=> i \in Rowed(Len(v.total))
         /\ \A t : SlopeBox(t) \in Boxes(v) <=> t \in DOMAIN v.slopeDelta
<1>1. \A b : b \in Boxes(v) <=> \/ b \in StatesIn(v) \/ b \in PowersIn(v)
                                \/ b \in TotalsIn(v) \/ b \in SlopesIn(v)
  BY BoxesAre
<1>2. /\ \A b \in StatesIn(v) : \E x \in Users : v.account[x].exists /\ b = StateBox(x)
      /\ \A b \in PowersIn(v) :
           \E x \in Users : \E i \in Rowed(Len(v.account[x].powers)) : b = PowerBox(x, i)
      /\ \A b \in TotalsIn(v) : \E i \in Rowed(Len(v.total)) : b = TotalBox(i)
      /\ \A b \in SlopesIn(v) : \E t \in DOMAIN v.slopeDelta : b = SlopeBox(t)
  BY Zenon, BoxForms
<1> DEFINE St(b) == b \in StatesIn(v)
           Po(b) == b \in PowersIn(v)
           To(b) == b \in TotalsIn(v)
           Sl(b) == b \in SlopesIn(v)
<1>3. /\ \A b : St(b) => \E x \in Users : v.account[x].exists /\ b = StateBox(x)
      /\ \A b : Po(b) => \E x, i : /\ x \in Users /\ i \in Rowed(Len(v.account[x].powers))
                                   /\ b = PowerBox(x, i)
      /\ \A b : To(b) => \E i \in Rowed(Len(v.total)) : b = TotalBox(i)
      /\ \A b : Sl(b) => \E t \in DOMAIN v.slopeDelta : b = SlopeBox(t)
  BY <1>2
<1>4. /\ \A x \in Users : v.account[x].exists => StateBox(x) \in StatesIn(v)
      /\ \A i \in Rowed(Len(v.total)) : TotalBox(i) \in TotalsIn(v)
      /\ \A t \in DOMAIN v.slopeDelta : SlopeBox(t) \in SlopesIn(v)
  BY DEF StatesIn, TotalsIn, SlopesIn, Rowed
<1>5. \A x \in Users : \A i \in Rowed(Len(v.account[x].powers)) : PowerBox(x, i) \in PowersIn(v)
  <2> SUFFICES ASSUME NEW x \in Users, NEW i \in Rowed(Len(v.account[x].powers))
               PROVE  PowerBox(x, i) \in PowersIn(v)
    OBVIOUS
  <2>1. PICK r \in 0 .. Len(v.account[x].powers) - 1 : i = BoxOf(r)
    BY Zenon DEF Rowed
  <2> DEFINE S == {PowerBox(x, BoxOf(q)) : q \in 0 .. Len(v.account[x].powers) - 1}
  <2>2. PowerBox(x, i) \in S
    BY Zenon, <2>1
  <2> QED
    BY Zenon, <2>2 DEF PowersIn
<1>6. ASSUME NEW x  PROVE StateBox(x) \in Boxes(v) <=> x \in Users /\ v.account[x].exists
  <2>1. /\ StateBox(x) \notin PowersIn(v) /\ StateBox(x) \notin TotalsIn(v)
        /\ StateBox(x) \notin SlopesIn(v)
    BY <1>3, SameBox, OtherBox
  <2>2. StateBox(x) \in StatesIn(v) => x \in Users /\ v.account[x].exists
    BY <1>3, SameBox, OtherBox
  <2> QED
    BY Zenon, <1>1, <1>4, <2>1, <2>2
<1>7. ASSUME NEW x, NEW i
      PROVE  PowerBox(x, i) \in Boxes(v) <=> x \in Users /\ i \in Rowed(Len(v.account[x].powers))
  <2>1. /\ PowerBox(x, i) \notin StatesIn(v) /\ PowerBox(x, i) \notin TotalsIn(v)
        /\ PowerBox(x, i) \notin SlopesIn(v)
    BY <1>3, SameBox, OtherBox
  <2>2. PowerBox(x, i) \in PowersIn(v) => x \in Users /\ i \in Rowed(Len(v.account[x].powers))
    BY <1>3, SameBox, OtherBox
  <2> QED
    BY Zenon, <1>1, <1>5, <2>1, <2>2
<1>8. ASSUME NEW i  PROVE TotalBox(i) \in Boxes(v) <=> i \in Rowed(Len(v.total))
  <2>1. /\ TotalBox(i) \notin StatesIn(v) /\ TotalBox(i) \notin PowersIn(v)
        /\ TotalBox(i) \notin SlopesIn(v)
    BY <1>3, SameBox, OtherBox
  <2>2. TotalBox(i) \in TotalsIn(v) => i \in Rowed(Len(v.total))
    BY <1>3, SameBox, OtherBox
  <2> QED
    BY Zenon, <1>1, <1>4, <2>1, <2>2
<1>9. ASSUME NEW i  PROVE SlopeBox(i) \in Boxes(v) <=> i \in DOMAIN v.slopeDelta
  <2>1. /\ SlopeBox(i) \notin StatesIn(v) /\ SlopeBox(i) \notin PowersIn(v)
        /\ SlopeBox(i) \notin TotalsIn(v)
    BY <1>3, SameBox, OtherBox
  <2>2. SlopeBox(i) \in SlopesIn(v) => i \in DOMAIN v.slopeDelta
    BY <1>3, SameBox, OtherBox
  <2> QED
    BY Zenon, <1>1, <1>4, <2>1, <2>2
<1> QED
  BY Zenon, <1>6, <1>7, <1>8, <1>9

\* The boxes made as one account's lock is changed.
NewState(v, u) == IF v.account[u].exists THEN {} ELSE {StateBox(u)}
NewPowers(u, n, m) == {PowerBox(u, i) : i \in Made(n, m)}
NewTotals(n, m) == {TotalBox(i) : i \in Made(n, m)}
NewSlopes(deltas, later) == {SlopeBox(t) : t \in DOMAIN later \ DOMAIN deltas}

LEMMA NewBoxes ==
  ASSUME NEW v, NEW w, NEW u \in Users, \A x \in Users : x # u => w.account[x] = v.account[x],
         w.account[u].exists
  PROVE  Boxes(w) \ Boxes(v) =
           NewState(v, u)
             \cup NewPowers(u, Len(v.account[u].powers), Len(w.account[u].powers))
             \cup NewTotals(Len(v.total), Len(w.total))
             \cup NewSlopes(v.slopeDelta, w.slopeDelta)
<1> DEFINE S == NewState(v, u)
           P == NewPowers(u, Len(v.account[u].powers), Len(w.account[u].powers))
           T == NewTotals(Len(v.total), Len(w.total))
           D == NewSlopes(v.slopeDelta, w.slopeDelta)
<1>1. /\ \A x : StateBox(x) \in Boxes(v) <=> x \in Users /\ v.account[x].exists
      /\ \A x, i : PowerBox(x, i) \in Boxes(v)
                     <=> x \in Users /\ i \in Rowed(Len(v.account[x].powers))
      /\ \A i : TotalBox(i) \in Boxes(v) <=> i \in Rowed(Len(v.total))
      /\ \A t : SlopeBox(t) \in Boxes(v) <=> t \in DOMAIN v.slopeDelta
  BY Zenon, BoxIn
<1>2. /\ \A x : StateBox(x) \in Boxes(w) <=> x \in Users /\ w.account[x].exists
      /\ \A x, i : PowerBox(x, i) \in Boxes(w)
                     <=> x \in Users /\ i \in Rowed(Len(w.account[x].powers))
      /\ \A i : TotalBox(i) \in Boxes(w) <=> i \in Rowed(Len(w.total))
      /\ \A t : SlopeBox(t) \in Boxes(w) <=> t \in DOMAIN w.slopeDelta
  BY Zenon, BoxIn
<1>3. ASSUME NEW b \in Boxes(w), b \notin Boxes(v)  PROVE b \in S \/ b \in P \/ b \in T \/ b \in D
  <2>1. b \in StatesIn(w) \/ b \in PowersIn(w) \/ b \in TotalsIn(w) \/ b \in SlopesIn(w)
    BY BoxesAre
  <2>2. CASE b \in StatesIn(w)
    <3>1. PICK x \in Users : w.account[x].exists /\ b = StateBox(x)
      BY Zenon, <2>2, BoxForms
    <3>2. ~ v.account[x].exists
      BY Zenon, <1>1, <1>3, <3>1
    <3>3. x = u
      BY Zenon, <3>1, <3>2
    <3>4. S = {StateBox(u)}
      BY Zenon, <3>2, <3>3 DEF NewState
    <3>5. b \in S
      BY Zenon, <3>1, <3>3, <3>4
    <3> HIDE DEF S, P, T, D
    <3> QED
      BY <3>5
  <2>3. CASE b \in PowersIn(w)
    <3>1. PICK x \in Users : \E i \in Rowed(Len(w.account[x].powers)) : b = PowerBox(x, i)
      BY <2>3, BoxForms
    <3>2. PICK i \in Rowed(Len(w.account[x].powers)) : b = PowerBox(x, i)
      BY <3>1
    <3>3. i \notin Rowed(Len(v.account[x].powers))
      BY Zenon, <1>1, <1>3, <3>2
    <3>4. x = u
      BY Zenon, <3>2, <3>3
    <3>5. i \in Made(Len(v.account[u].powers), Len(w.account[u].powers))
      BY <3>2, <3>3, <3>4 DEF Made
    <3> QED
      BY Zenon, <3>2, <3>4, <3>5 DEF NewPowers
  <2>4. CASE b \in TotalsIn(w)
    <3>1. PICK i \in Rowed(Len(w.total)) : b = TotalBox(i)
      BY Zenon, <2>4, BoxForms
    <3>2. i \in Made(Len(v.total), Len(w.total))
      BY <1>1, <1>3, <3>1 DEF Made
    <3> QED
      BY Zenon, <3>1, <3>2 DEF NewTotals
  <2>5. CASE b \in SlopesIn(w)
    <3>1. PICK t \in DOMAIN w.slopeDelta : b = SlopeBox(t)
      BY Zenon, <2>5, BoxForms
    <3>2. t \in DOMAIN w.slopeDelta \ DOMAIN v.slopeDelta
      BY <1>1, <1>3, <3>1
    <3> QED
      BY Zenon, <3>1, <3>2 DEF NewSlopes
  <2> QED
    BY Zenon, <2>1, <2>2, <2>3, <2>4, <2>5
<1>4. ASSUME NEW b \in S  PROVE b \in Boxes(w) /\ b \notin Boxes(v)
  <2>1. b = StateBox(u) /\ ~ v.account[u].exists
    BY DEF NewState
  <2> QED
    BY Zenon, <1>1, <1>2, <2>1
<1>5. ASSUME NEW b \in P  PROVE b \in Boxes(w) /\ b \notin Boxes(v)
  <2>1. PICK i \in Made(Len(v.account[u].powers), Len(w.account[u].powers)) : b = PowerBox(u, i)
    BY Zenon DEF NewPowers
  <2>2. i \in Rowed(Len(w.account[u].powers)) /\ i \notin Rowed(Len(v.account[u].powers))
    BY Zenon DEF Made
  <2> QED
    BY Zenon, <1>1, <1>2, <2>1, <2>2
<1>6. ASSUME NEW b \in T  PROVE b \in Boxes(w) /\ b \notin Boxes(v)
  <2>1. PICK i \in Made(Len(v.total), Len(w.total)) : b = TotalBox(i)
    BY Zenon DEF NewTotals
  <2>2. i \in Rowed(Len(w.total)) /\ i \notin Rowed(Len(v.total))
    BY Zenon DEF Made
  <2> QED
    BY Zenon, <1>1, <1>2, <2>1, <2>2
<1>7. ASSUME NEW b \in D  PROVE b \in Boxes(w) /\ b \notin Boxes(v)
  <2>1. PICK t \in DOMAIN w.slopeDelta \ DOMAIN v.slopeDelta : b = SlopeBox(t)
    BY Zenon DEF NewSlopes
  <2> QED
    BY Zenon, <1>1, <1>2, <2>1
<1> HIDE DEF S, P, T, D
<1>8. Boxes(w) \ Boxes(v) = S \cup P \cup T \cup D
  BY <1>3, <1>4, <1>5, <1>6, <1>7
<1> QED
  BY Zenon, <1>8 DEF S, P, T, D

\* What boxes cost, by their kinds.
KindIn(B, kind) == {b \in B : b[1] = kind}

LEMMA CostIs ==
  ASSUME NEW B
  PROVE  CostOf(B) = Cost["state"] * Cardinality(KindIn(B, "state"))
                      + Cost["power"] * Cardinality(KindIn(B, "power"))
                      + Cost["tp"] * Cardinality(KindIn(B, "tp"))
                      + Cost["sc"] * Cardinality(KindIn(B, "sc"))
  BY Zenon DEF CostOf, KindIn

LEMMA KindsFinite ==
  ASSUME NEW B, IsFiniteSet(B)
  PROVE  \A kind : IsFiniteSet(KindIn(B, kind)) /\ Cardinality(KindIn(B, kind)) \in Nat
<1>1. \A kind : KindIn(B, kind) \in SUBSET B
  BY DEF KindIn
<1>2. \A T \in SUBSET B : IsFiniteSet(T) /\ Cardinality(T) \in Nat
  BY FS_Subset, FS_CardinalityType
<1> QED
  BY Zenon, <1>1, <1>2

LEMMA CostType ==
  ASSUME NEW B, IsFiniteSet(B)
  PROVE  CostOf(B) \in Nat
<1> DEFINE a == Cardinality(KindIn(B, "state"))
           b == Cardinality(KindIn(B, "power"))
           c == Cardinality(KindIn(B, "tp"))
           d == Cardinality(KindIn(B, "sc"))
<1>1. a \in Nat /\ b \in Nat /\ c \in Nat /\ d \in Nat
  BY KindsFinite
<1>2. CostOf(B) = Cost["state"] * a + Cost["power"] * b + Cost["tp"] * c + Cost["sc"] * d
  BY CostIs
<1> HIDE DEF a, b, c, d
<1>3. \A m, n \in Nat : m * n \in Nat
  OBVIOUS
<1>4. /\ Cost["state"] * a \in Nat /\ Cost["power"] * b \in Nat
      /\ Cost["tp"] * c \in Nat /\ Cost["sc"] * d \in Nat
  BY <1>1, <1>3, CostsAre
<1> QED
  BY <1>2, <1>4

\* A set of one box or of none.
Maybe(made, b) == IF made THEN {b} ELSE {}
IfSo(made, n) == IF made THEN n ELSE 0

LEMMA BoxKinds ==
  /\ \A u : StateBox(u)[1] = "state"
  /\ \A u, i : PowerBox(u, i)[1] = "power"
  /\ \A i : TotalBox(i)[1] = "tp"
  /\ \A i : SlopeBox(i)[1] = "sc"
  BY DEF StateBox, PowerBox, TotalBox, SlopeBox

LEMMA MaybeCard ==
  ASSUME NEW made \in BOOLEAN, NEW b, NEW k \in Nat
  PROVE  /\ IsFiniteSet(Maybe(made, b)) /\ Cardinality(Maybe(made, b)) = IfSo(made, 1)
         /\ k * Cardinality(Maybe(made, b)) = IfSo(made, k)
<1>1. CASE made
  <2>1. Maybe(made, b) = {b}
    BY <1>1 DEF Maybe
  <2>2. IsFiniteSet(Maybe(made, b)) /\ Cardinality(Maybe(made, b)) = 1
    BY <2>1, FS_Singleton
  <2>3. k * 1 = k
    OBVIOUS
  <2>4. IfSo(made, 1) = 1 /\ IfSo(made, k) = k
    BY Zenon, <1>1 DEF IfSo
  <2> QED
    BY Zenon, <2>2, <2>3, <2>4
<1>2. CASE ~ made
  <2>1. Maybe(made, b) = {}
    BY <1>2 DEF Maybe
  <2>2. IsFiniteSet(Maybe(made, b)) /\ Cardinality(Maybe(made, b)) = 0
    BY <2>1, FS_EmptySet
  <2>3. k * 0 = 0
    OBVIOUS
  <2> QED
    BY <1>2, <2>2, <2>3 DEF IfSo
<1> QED
  BY <1>1, <1>2

\* At most one box of each kind is made.
OfKinds(s, p, t, d) == s[1] = "state" /\ p[1] = "power" /\ t[1] = "tp" /\ d[1] = "sc"
CostSum(p1, p2, p3, p4) ==
  IfSo(p1, Cost["state"]) + IfSo(p2, Cost["power"]) + IfSo(p3, Cost["tp"]) + IfSo(p4, Cost["sc"])
FourAtMost(p1, p2, p3, p4, s, p, t, d) ==
  Maybe(p1, s) \cup Maybe(p2, p) \cup Maybe(p3, t) \cup Maybe(p4, d)
LEMMA CostSplit ==
  ASSUME NEW p1 \in BOOLEAN, NEW p2 \in BOOLEAN, NEW p3 \in BOOLEAN, NEW p4 \in BOOLEAN,
         NEW s, NEW p, NEW t, NEW d,
         OfKinds(s, p, t, d)
  PROVE  CostOf(FourAtMost(p1, p2, p3, p4, s, p, t, d)) = CostSum(p1, p2, p3, p4)
<1> DEFINE B == Maybe(p1, s) \cup Maybe(p2, p) \cup Maybe(p3, t) \cup Maybe(p4, d)
<1>1. /\ "state" # "power" /\ "state" # "tp" /\ "state" # "sc" /\ "power" # "tp"
      /\ "power" # "sc" /\ "tp" # "sc"
  OBVIOUS
<1>2. KindIn(B, "state") = Maybe(p1, s)
  BY <1>1 DEF KindIn, Maybe, OfKinds
<1>3. KindIn(B, "power") = Maybe(p2, p)
  BY <1>1 DEF KindIn, Maybe, OfKinds
<1>4. KindIn(B, "tp") = Maybe(p3, t)
  BY <1>1 DEF KindIn, Maybe, OfKinds
<1>5. KindIn(B, "sc") = Maybe(p4, d)
  BY <1>1 DEF KindIn, Maybe, OfKinds
<1>6. /\ Cost["state"] * Cardinality(Maybe(p1, s)) = IfSo(p1, Cost["state"])
      /\ Cost["power"] * Cardinality(Maybe(p2, p)) = IfSo(p2, Cost["power"])
      /\ Cost["tp"] * Cardinality(Maybe(p3, t)) = IfSo(p3, Cost["tp"])
      /\ Cost["sc"] * Cardinality(Maybe(p4, d)) = IfSo(p4, Cost["sc"])
  BY CostsAre, MaybeCard
<1>7. CostOf(B) = Cost["state"] * Cardinality(KindIn(B, "state"))
                      + Cost["power"] * Cardinality(KindIn(B, "power"))
                      + Cost["tp"] * Cardinality(KindIn(B, "tp"))
                      + Cost["sc"] * Cardinality(KindIn(B, "sc"))
  BY Zenon, CostIs
<1> HIDE DEF B
<1>8. CostOf(B) = IfSo(p1, Cost["state"]) + IfSo(p2, Cost["power"]) + IfSo(p3, Cost["tp"])
                    + IfSo(p4, Cost["sc"])
  BY Zenon, <1>2, <1>3, <1>4, <1>5, <1>6, <1>7
<1> QED
  BY Zenon, <1>8 DEF B, FourAtMost, CostSum

LEMMA Quotient ==
  ASSUME NEW n \in Nat, NEW d \in Nat \ {0}, NEW q \in Nat, NEW r \in Nat, r < d, n = q * d + r
  PROVE  n \div d = q /\ n % d = r
<1>1. /\ n \div d \in Nat /\ d * (n \div d) <= n /\ n < d * (n \div d) + d
      /\ n % d = n - d * (n \div d)
  BY Z3
<1> DEFINE k == n \div d
<1>2. k \in Nat /\ k * d = d * k /\ k * d \in Nat /\ q * d \in Nat
  BY <1>1, Z3
<1> HIDE DEF k
<1>3. /\ k < q => (k + 1) * d <= q * d
      /\ q < k => (q + 1) * d <= k * d
  <2>1. \A a, b \in Nat : a <= b => a * d <= b * d
    BY Z3
  <2>2. k + 1 \in Nat /\ q + 1 \in Nat /\ (k < q => k + 1 <= q) /\ (q < k => q + 1 <= k)
    BY <1>2
  <2> QED
    BY <1>2, <2>1, <2>2
<1>4. (k + 1) * d = k * d + d /\ (q + 1) * d = q * d + d
  BY <1>2, Z3
<1> DEFINE x == k * d
           y == q * d
<1>5. /\ x \in Nat /\ y \in Nat /\ x <= n /\ n < x + d /\ n = y + r /\ n % d = n - x
      /\ (k < q => x + d <= y) /\ (q < k => y + d <= x)
  BY <1>1, <1>2, <1>3, <1>4 DEF k
<1> HIDE DEF x, y
<1>6. ~ k < q /\ ~ q < k
  BY <1>5
<1>7. k = q
  BY <1>2, <1>6
<1>8. x = y
  BY Zenon, <1>7 DEF x, y
<1> QED
  BY <1>5, <1>7, <1>8 DEF k

\* Where the last of some rows is, and how many more its box takes.
Filled(n, q, t) ==
  /\ q \in Nat /\ t \in 0 .. ArrayLen - 1 /\ n - 1 = q * ArrayLen + t /\ q * ArrayLen \in Nat
  /\ lastBoxIndex(n) = q /\ freeSpaceCount(n) = ArrayLen - 1 - t /\ BoxOf(n - 1) = q

LEMMA Filling ==
  ASSUME NEW n \in Nat \ {0}
  PROVE  \E q, t : Filled(n, q, t)
<1> DEFINE m == n - 1
           q == m \div ArrayLen
           t == m - ArrayLen * q
<1>1. ArrayLen \in Nat \ {0} /\ m \in Nat /\ n = m + 1
  BY WeekIs
<1> HIDE DEF m
<1>2. q \in Nat /\ ArrayLen * q <= m /\ m < ArrayLen * q + ArrayLen
  BY <1>1, DivBound
<1>3. /\ lastBoxIndex(n) = q /\ BoxOf(m) = q
  <2>1. n # 0 /\ n - 1 = m
    BY <1>1
  <2> QED
    BY <2>1 DEF lastBoxIndex, BoxOf
<1> HIDE DEF q
<1>4. ArrayLen * q = q * ArrayLen /\ q * ArrayLen \in Nat /\ (q + 1) * ArrayLen = q * ArrayLen + ArrayLen
  BY <1>1, <1>2, Z3
<1> DEFINE x == q * ArrayLen
<1>5. x \in Nat /\ t = m - x /\ x <= m /\ m < x + ArrayLen
  BY <1>2, <1>4
<1> HIDE DEF t, x
<1>6. t \in 0 .. ArrayLen - 1 /\ m = x + t
  BY <1>1, <1>5
<1>7. freeSpaceCount(n) = ArrayLen - 1 - t
  <2>1. CASE t = ArrayLen - 1
    <3>1. n = x + ArrayLen
      BY <1>1, <1>5, <1>6, <2>1
    <3>2. n = (q + 1) * ArrayLen + 0 /\ q + 1 \in Nat
      BY <1>1, <1>2, <1>4, <3>1 DEF x
    <3>3. n % ArrayLen = 0
      BY <1>1, <3>2, Quotient
    <3>4. freeSpaceCount(n) = 0
      BY Zenon, <3>3 DEF freeSpaceCount
    <3> QED
      BY <1>1, <2>1, <3>4
  <2>2. CASE t # ArrayLen - 1
    <3> DEFINE r == t + 1
    <3>1. n = x + r /\ r \in Nat \ {0} /\ r < ArrayLen
      BY <1>1, <1>5, <1>6, <2>2
    <3>2. n = q * ArrayLen + r
      BY Zenon, <3>1 DEF x
    <3> HIDE DEF r
    <3>3. n % ArrayLen = r
      BY <1>1, <1>2, <3>1, <3>2, Quotient
    <3>4. freeSpaceCount(n) = ArrayLen - r
      BY <3>1, <3>3 DEF freeSpaceCount
    <3> QED
      BY <1>1, <1>6, <3>1, <3>4 DEF r
  <2> QED
    BY <2>1, <2>2
<1>8. BoxOf(n - 1) = q /\ n - 1 = q * ArrayLen + t
  BY <1>1, <1>3, <1>6 DEF x
<1>9. Filled(n, q, t)
  BY <1>2, <1>3, <1>4, <1>6, <1>7, <1>8 DEF Filled
<1> QED
  BY <1>9

LEMMA BoxIs ==
  ASSUME NEW q \in Nat, NEW r \in Nat, NEW s \in 0 .. ArrayLen - 1, r = q * ArrayLen + s
  PROVE  BoxOf(r) = q
<1>1. ArrayLen \in Nat \ {0} /\ s \in Nat /\ s < ArrayLen
  BY WeekIs
<1> QED
  BY <1>1, Quotient DEF BoxOf

\* The row so many after the last is in its box or in the next.
LEMMA BoxOfAdded ==
  ASSUME NEW n \in Nat \ {0}, NEW i \in 0 .. ArrayLen
  PROVE  /\ freeSpaceCount(n) \in 0 .. ArrayLen - 1 /\ lastBoxIndex(n) \in Nat
         /\ i <= freeSpaceCount(n) => BoxOf(n - 1 + i) = lastBoxIndex(n)
         /\ i > freeSpaceCount(n) => BoxOf(n - 1 + i) = lastBoxIndex(n) + 1
<1>1. PICK q, t : Filled(n, q, t)
  BY Filling
<1>2. /\ q \in Nat /\ t \in 0 .. ArrayLen - 1 /\ n - 1 = q * ArrayLen + t
      /\ lastBoxIndex(n) = q /\ freeSpaceCount(n) = ArrayLen - 1 - t
  BY <1>1 DEF Filled
<1>3. ArrayLen \in Nat \ {0}
  BY WeekIs
<1> DEFINE x == q * ArrayLen
<1>4. x \in Nat /\ (q + 1) * ArrayLen = x + ArrayLen /\ n - 1 = x + t
  BY <1>2, <1>3, Z3
<1> HIDE DEF x
<1> DEFINE r == n - 1 + i
<1>5. r \in Nat /\ r = x + t + i
  BY <1>2, <1>3, <1>4
<1>6. ASSUME i <= freeSpaceCount(n)  PROVE BoxOf(r) = q
  <2>1. t + i \in 0 .. ArrayLen - 1 /\ r = x + (t + i)
    BY <1>2, <1>3, <1>4, <1>5, <1>6
  <2> HIDE DEF r
  <2>2. r = q * ArrayLen + (t + i)
    BY Zenon, <2>1 DEF x
  <2> QED
    BY <1>2, <1>5, <2>1, <2>2, BoxIs
<1>7. ASSUME i > freeSpaceCount(n)  PROVE BoxOf(r) = q + 1
  <2> DEFINE s == t + i - ArrayLen
  <2>1. s \in 0 .. ArrayLen - 1 /\ r = x + ArrayLen + s
    BY <1>2, <1>3, <1>4, <1>5, <1>7
  <2> HIDE DEF r, s
  <2>2. r = (q + 1) * ArrayLen + s /\ q + 1 \in Nat
    BY <1>2, <1>4, <2>1
  <2> QED
    BY <1>5, <2>1, <2>2, BoxIs
<1> HIDE DEF r
<1>8. freeSpaceCount(n) \in 0 .. ArrayLen - 1 /\ lastBoxIndex(n) \in Nat
  BY <1>2, <1>3
<1> QED
  BY <1>2, <1>6, <1>7, <1>8 DEF r

LEMMA FirstRows ==
  ASSUME NEW k \in 1 .. ArrayLen
  PROVE  /\ Rowed(0) = {} /\ Rowed(k) = {0} /\ lastBoxIndex(0) = 0 /\ freeSpaceCount(0) = 0
         /\ RowBoxes(0, k) = {0}
<1>1. ArrayLen \in Nat \ {0} /\ k \in Nat /\ 0 \in 0 .. k - 1
  BY WeekIs
<1>2. 0 * ArrayLen = 0
  BY <1>1, Z3
<1>3. \A r \in 0 .. k - 1 : BoxOf(r) = 0
  <2> TAKE r \in 0 .. k - 1
  <2>1. r \in Nat /\ r \in 0 .. ArrayLen - 1 /\ r = 0 * ArrayLen + r
    BY <1>1, <1>2
  <2> QED
    BY <2>1, BoxIs
<1>4. Rowed(0) = {}
  BY DEF Rowed
<1>5. Rowed(k) = {0}
  BY <1>1, <1>3 DEF Rowed
<1>6. lastBoxIndex(0) = 0
  BY DEF lastBoxIndex
<1>7. freeSpaceCount(0) = 0
  <2>1. 0 % ArrayLen = 0
    BY <1>1, Z3
  <2> QED
    BY Zenon, <2>1 DEF freeSpaceCount
<1>8. RowBoxes(0, k) = {0}
  <2>1. AtLeast0(0 - 1) = 0
    BY DEF AtLeast0
  <2> QED
    BY <1>1, <1>3, <2>1 DEF RowBoxes
<1> QED
  BY <1>4, <1>5, <1>6, <1>7, <1>8

\* The box that rows are made in, if their last is full.
NewBox(n) == IF n = 0 THEN 0 ELSE lastBoxIndex(n) + 1

LEMMA RowsMade ==
  ASSUME NEW n \in Nat, NEW k \in 1 .. ArrayLen
  PROVE  /\ Made(n, n + k) = Maybe(k > freeSpaceCount(n), NewBox(n))
         /\ \A i \in RowBoxes(n, n + k) :
              \/ i = lastBoxIndex(n)
              \/ n # 0 /\ k > freeSpaceCount(n) /\ i = lastBoxIndex(n) + 1
<1>1. ArrayLen \in Nat \ {0} /\ k \in Nat /\ k >= 1 /\ k <= ArrayLen
  BY WeekIs
<1>2. CASE n = 0
  <2>1. /\ Rowed(0) = {} /\ Rowed(k) = {0} /\ lastBoxIndex(0) = 0 /\ freeSpaceCount(0) = 0
        /\ RowBoxes(0, k) = {0}
    BY FirstRows
  <2>2. n + k = k /\ k > 0
    BY <1>1, <1>2
  <2>3. Made(n, n + k) = {0}
    <3>1. Made(n, n + k) = Rowed(k) \ Rowed(0)
      BY Zenon, <1>2, <2>2 DEF Made
    <3> QED
      BY <2>1, <3>1
  <2>4. Maybe(k > freeSpaceCount(n), NewBox(n)) = {0}
    BY <1>2, <2>1, <2>2 DEF Maybe, NewBox
  <2>5. RowBoxes(n, n + k) = {0} /\ lastBoxIndex(n) = 0
    BY Zenon, <1>2, <2>1, <2>2
  <2> QED
    BY <2>3, <2>4, <2>5
<1>3. CASE n # 0
  <2> DEFINE f == freeSpaceCount(n)
             q == lastBoxIndex(n)
             m == n - 1
  <2>1. n \in Nat \ {0}
    BY <1>3
  <2>2. /\ f \in 0 .. ArrayLen - 1 /\ q \in Nat /\ 0 \in 0 .. ArrayLen
    BY <1>1, <2>1, BoxOfAdded
  <2>3. \A i \in 0 .. ArrayLen : /\ i <= f => BoxOf(m + i) = q
                                 /\ i > f => BoxOf(m + i) = q + 1
    BY <2>1, BoxOfAdded
  <2> HIDE DEF f, q
  <2>4. \A r \in 0 .. m : BoxOf(r) \in Nat /\ BoxOf(r) <= q
    <3> TAKE r \in 0 .. m
    <3>1. BoxOf(m) = q
      <4>1. BoxOf(m + 0) = q /\ m + 0 = m
        BY <2>2, <2>3
      <4> QED
        BY <4>1
    <3>2. r \in Nat /\ m \in Nat /\ r <= m
      BY <2>1
    <3> HIDE DEF m
    <3>3. r \div ArrayLen <= m \div ArrayLen /\ r \div ArrayLen \in Nat
      BY <1>1, <3>2, DivInOrder, DivBound
    <3> QED
      BY <3>1, <3>3 DEF BoxOf
  <2>5. m \in Nat /\ n = m + 1
    BY <2>1
  <2>6. BoxOf(m) = q
    <3>1. BoxOf(m + 0) = q /\ m + 0 = m
      BY <2>2, <2>3
    <3> QED
      BY <3>1
  <2>7. ASSUME NEW r \in m .. m + k  PROVE BoxOf(r) = q \/ (k > f /\ BoxOf(r) = q + 1)
    <3> DEFINE i == r - m
    <3>1. i \in 0 .. ArrayLen /\ i <= k /\ r = m + i
      BY <1>1, <2>5
    <3> HIDE DEF i
    <3>2. CASE i <= f
      BY <2>3, <3>1, <3>2
    <3>3. CASE i > f
      BY <1>1, <2>2, <2>3, <3>1, <3>3
    <3> QED
      BY <2>2, <3>1, <3>2, <3>3
  <2>8. Rowed(n) = {BoxOf(r) : r \in 0 .. m} /\ Rowed(n + k) = {BoxOf(r) : r \in 0 .. m + k}
    <3>1. n + k - 1 = m + k /\ n - 1 = m
      BY <1>1, <2>5
    <3> HIDE DEF m
    <3> QED
      BY <3>1 DEF Rowed
  <2>9. NewBox(n) = q + 1
    BY <1>3 DEF NewBox, q
  <2>10. Made(n, n + k) = Maybe(k > f, q + 1)
    <3> HIDE DEF m
    <3>1. ASSUME NEW b \in Made(n, n + k)  PROVE k > f /\ b = q + 1
      <4>1. b \in Rowed(n + k) /\ b \notin Rowed(n)
        BY DEF Made
      <4>2. PICK r \in 0 .. m + k : b = BoxOf(r)
        BY <2>8, <4>1
      <4>3. ~ r \in 0 .. m
        BY <2>8, <4>1, <4>2
      <4>4. r \in m .. m + k
        BY <1>1, <2>5, <4>3
      <4>5. m \in 0 .. m
        BY <2>5
      <4>6. b # q
        BY <2>6, <2>8, <4>1, <4>5
      <4> QED
        BY <2>7, <4>2, <4>4, <4>6
    <3>2. ASSUME k > f  PROVE q + 1 \in Made(n, n + k)
      <4>1. k \in 0 .. ArrayLen
        BY <1>1
      <4>2. BoxOf(m + k) = q + 1
        BY <2>3, <3>2, <4>1
      <4>3. m + k \in 0 .. m + k
        BY <1>1, <2>5
      <4>4. q + 1 \in Rowed(n + k)
        BY <2>8, <4>2, <4>3
      <4>5. q + 1 \notin Rowed(n)
        BY <2>2, <2>4, <2>8
      <4> QED
        BY <4>4, <4>5 DEF Made
    <3>3. CASE k > f
      <4>1. Maybe(k > f, q + 1) = {q + 1}
        BY Zenon, <3>3 DEF Maybe
      <4> QED
        BY <3>1, <3>2, <3>3, <4>1
    <3>4. CASE ~ k > f
      <4>1. Maybe(k > f, q + 1) = {}
        BY Zenon, <3>4 DEF Maybe
      <4> QED
        BY <3>1, <3>4, <4>1
    <3> QED
      BY <3>3, <3>4
  <2>11. ASSUME NEW i \in RowBoxes(n, n + k)  PROVE i = q \/ (k > f /\ i = q + 1)
    <3>1. AtLeast0(n - 1) = m
      BY <2>5 DEF AtLeast0
    <3>2. n + k - 1 = m + k
      BY <1>1, <2>5
    <3> HIDE DEF m
    <3>3. RowBoxes(n, n + k) = {BoxOf(r) : r \in m .. m + k}
      BY <3>1, <3>2 DEF RowBoxes
    <3>4. PICK r \in m .. m + k : i = BoxOf(r)
      BY <3>3
    <3> QED
      BY <2>7, <3>4
  <2> QED
    BY <1>3, <2>9, <2>10, <2>11 DEF f, q
<1> QED
  BY <1>2, <1>3

LEMMA NextFilling ==
  ASSUME NEW n \in Nat \ {0}
  PROVE  IF freeSpaceCount(n) = 0
         THEN freeSpaceCount(n + 1) = ArrayLen - 1 /\ lastBoxIndex(n + 1) = lastBoxIndex(n) + 1
         ELSE freeSpaceCount(n + 1) = freeSpaceCount(n) - 1 /\ lastBoxIndex(n + 1) = lastBoxIndex(n)
<1>1. PICK q, t : Filled(n, q, t)
  BY Filling
<1>2. n + 1 \in Nat \ {0} /\ n + 1 - 1 = n /\ n - 1 + 1 = n
  OBVIOUS
<1>3. PICK q2, t2 : Filled(n + 1, q2, t2)
  BY <1>2, Filling
<1>4. /\ q \in Nat /\ t \in 0 .. ArrayLen - 1 /\ n - 1 = q * ArrayLen + t
      /\ lastBoxIndex(n) = q /\ freeSpaceCount(n) = ArrayLen - 1 - t
  BY <1>1 DEF Filled
<1>5. /\ q2 \in Nat /\ t2 \in 0 .. ArrayLen - 1 /\ n = q2 * ArrayLen + t2 /\ BoxOf(n) = q2
      /\ lastBoxIndex(n + 1) = q2 /\ freeSpaceCount(n + 1) = ArrayLen - 1 - t2
  BY <1>2, <1>3 DEF Filled
<1>6. ArrayLen \in Nat \ {0} /\ 1 \in 0 .. ArrayLen
  BY WeekIs
<1>7. q2 = IF freeSpaceCount(n) = 0 THEN q + 1 ELSE q
  <2>1. /\ 1 <= freeSpaceCount(n) => BoxOf(n - 1 + 1) = lastBoxIndex(n)
        /\ 1 > freeSpaceCount(n) => BoxOf(n - 1 + 1) = lastBoxIndex(n) + 1
    BY <1>6, BoxOfAdded
  <2>2. /\ 1 <= freeSpaceCount(n) => q2 = q
        /\ 1 > freeSpaceCount(n) => q2 = q + 1
    BY Zenon, <1>2, <1>4, <1>5, <2>1
  <2>3. freeSpaceCount(n) \in Nat
    BY <1>4, <1>6
  <2> QED
    BY <2>2, <2>3
<1> DEFINE x == q * ArrayLen
           y == q2 * ArrayLen
<1>8. x \in Nat /\ (q + 1) * ArrayLen = x + ArrayLen /\ n - 1 = x + t /\ n = y + t2
  BY <1>4, <1>5, <1>6, Z3
<1>9. y = IF freeSpaceCount(n) = 0 THEN x + ArrayLen ELSE x
  BY <1>7, <1>8
<1> HIDE DEF x, y
<1>10. CASE freeSpaceCount(n) = 0
  <2>1. t2 = 0
    BY <1>4, <1>5, <1>6, <1>8, <1>9, <1>10
  <2> QED
    BY <1>4, <1>5, <1>6, <1>7, <1>10, <2>1
<1>11. CASE freeSpaceCount(n) # 0
  <2>1. t2 = t + 1
    BY <1>4, <1>5, <1>6, <1>8, <1>9, <1>11
  <2> QED
    BY <1>4, <1>5, <1>6, <1>7, <1>11, <2>1
<1> QED
  BY <1>10, <1>11
-----------------------------------------------------------------------------
(* The weeks foretold.                                                      *)

\* The times foretold: the weeks since the last row, and the clock's.
ForetoldAs(e, k, last, local) ==
  /\ k \in Nat /\ Len(e) = k + 1 /\ e \in Seq(Nat)
  /\ \A i \in 1 .. k : e[i] = WEEK * (last \div WEEK + i)
  /\ e[k + 1] = local

LEMMA ForetoldTimes ==
  ASSUME NEW last \in Nat, NEW local \in Nat, last <= local,
         last % WEEK = 0 \/ Weeks(last, local) = {},
         NEW k, k = Cardinality(Weeks(last, local - 1)),
         NEW e, e = getNewTotalPowerTimestamps(last, local)
  PROVE  ForetoldAs(e, k, last, local)
<1> DEFINE p == last \div WEEK
           start == getStartTimestampOfWeek(last)
           first == start + WEEK
           weeks == IF first < local THEN (local - first + WEEK - 1) \div WEEK ELSE 0
<1>1. WEEK \in Nat \ {0}
  BY WeekIs
<1>2. p \in Nat /\ WEEK * p <= last /\ last < WEEK * p + WEEK /\ (last % WEEK = 0 <=> last = WEEK * p)
  BY WeekOf
<1>3. e = [i \in 1 .. weeks + 1 |-> IF i <= weeks THEN first + (i - 1) * WEEK ELSE local]
  BY Zenon DEF getNewTotalPowerTimestamps
<1>4. start = ((last + WEEK - 1) \div WEEK) * WEEK
  BY DEF getStartTimestampOfWeek
<1>5. e \in Seq(Nat)
  BY ExpectedType
<1> HIDE DEF p
<1>6. WEEK * p \in Nat /\ WEEK * (p + 1) = WEEK * p + WEEK /\ p + 1 \in Nat
  BY <1>1, <1>2, Multiple, LessWeeks
<1> DEFINE x == WEEK * p
<1>7. x \in Nat /\ x <= last /\ last < x + WEEK
  BY <1>2, <1>6
<1>8. \A m, n \in Nat : m <= n => m * WEEK <= n * WEEK
  BY <1>1, Z3
<1>9. CASE last % WEEK = 0
  <2>1. last = x
    BY <1>2, <1>9
  <2>2. start = x
    <3>1. last + WEEK - 1 = p * WEEK + (WEEK - 1)
      BY <1>1, <1>2, <2>1, Z3
    <3>2. last + WEEK - 1 \in Nat /\ WEEK - 1 \in Nat /\ WEEK - 1 < WEEK
      BY <1>1
    <3>3. (last + WEEK - 1) \div WEEK = p
      BY <1>1, <1>2, <3>1, <3>2, Quotient
    <3>4. p * WEEK = WEEK * p
      BY <1>1, <1>2, Z3
    <3> QED
      BY <1>4, <3>3, <3>4
  <2> HIDE DEF start, x
  <2>3. CASE local = last
    <3>1. weeks = 0
      BY <1>1, <1>7, <2>1, <2>2, <2>3
    <3>2. Weeks(last, local - 1) = {}
      BY <2>3 DEF Weeks
    <3>3. k = 0
      BY <3>2, FS_EmptySet
    <3> HIDE DEF weeks, first
    <3>4. DOMAIN e = 1 .. 1 /\ e[1] = local
      BY <1>3, <3>1
    <3>5. Len(e) = 1
      BY <1>5, <3>4
    <3> QED
      BY <1>5, <3>3, <3>4, <3>5 DEF ForetoldAs
  <2>4. CASE local # last
    <3> DEFINE m == local - 1
               q == m \div WEEK
               s == m - WEEK * q
    <3>1. m \in Nat /\ last <= m /\ local = m + 1
      BY <2>4
    <3> HIDE DEF m
    <3>2. q \in Nat /\ WEEK * q <= m /\ m < WEEK * q + WEEK
      BY <3>1, WeekOf
    <3>3. k = q - p /\ p <= q
      <4>1. Weeks(last, local - 1) = Weeks(last, m)
        BY <3>1
      <4> QED
        BY <3>1, <4>1, WeeksCount, LessWeeks DEF p
    <3> HIDE DEF q
    <3> DEFINE d == q - p
    <3>4. d \in Nat /\ q = p + d
      BY <1>2, <3>2, <3>3
    <3> HIDE DEF d
    <3>5. WEEK * q = WEEK * p + d * WEEK /\ WEEK * q \in Nat /\ d * WEEK \in Nat
      BY <1>1, <1>2, <3>2, <3>4, Z3
    <3> DEFINE y == d * WEEK
    <3>6. y \in Nat /\ m = x + y + s /\ s \in Nat /\ s < WEEK
      BY <1>1, <1>7, <3>1, <3>2, <3>5 DEF x
    <3> HIDE DEF y, s
    <3>7. weeks = d
      <4>1. CASE first < local
        <5>1. local - first + WEEK - 1 = y + s /\ y + s \in Nat
          BY <1>1, <1>7, <2>2, <3>1, <3>6, <4>1
        <5>2. y + s = d * WEEK + s
          BY DEF y
        <5>3. (y + s) \div WEEK = d
          BY <1>1, <3>4, <3>6, <5>1, <5>2, Quotient
        <5> QED
          BY Zenon, <4>1, <5>1, <5>3
      <4>2. CASE ~ first < local
        <5>1. y + s < WEEK
          BY <1>1, <1>7, <2>2, <3>1, <3>6, <4>2
        <5>2. y + s = 0 * WEEK + (y + s) /\ y + s = d * WEEK + s /\ y + s \in Nat
          BY <1>1, <3>6, Z3 DEF y
        <5>3. (y + s) \div WEEK = d
          BY <1>1, <3>4, <3>6, <5>2, Quotient
        <5>4. (y + s) \div WEEK = 0
          BY <1>1, <5>1, <5>2, Quotient
        <5> QED
          BY Zenon, <4>2, <5>3, <5>4
      <4> QED
        BY <4>1, <4>2
    <3>8. \A i \in 1 .. d : first + (i - 1) * WEEK = WEEK * (p + i)
      <4>1. first = WEEK * p + WEEK
        BY <2>2 DEF x
      <4> HIDE DEF first
      <4> TAKE i \in 1 .. d
      <4>2. i - 1 \in Int /\ p + i \in Int /\ i \in Int
        BY <1>2
      <4>3. WEEK * p + WEEK + (i - 1) * WEEK = WEEK * (p + i)
        BY <1>1, <1>2, <4>2, Z3
      <4> QED
        BY <4>1, <4>3
    <3> HIDE DEF weeks, first
    <3>9. /\ DOMAIN e = 1 .. d + 1
          /\ \A i \in 1 .. d + 1 : e[i] = IF i <= d THEN first + (i - 1) * WEEK ELSE local
      BY <1>3, <3>7
    <3>10. Len(e) = d + 1 /\ k = d
      <4>1. k = d
        BY <1>2, <3>2, <3>3, <3>4
      <4>2. Len(e) \in Nat /\ DOMAIN e = 1 .. Len(e)
        BY <1>5, LenProperties
      <4>3. Len(e) = d + 1
        BY <3>4, <3>9, <4>2
      <4> QED
        BY <4>1, <4>3
    <3>11. e[d + 1] = local
      BY <3>4, <3>9
    <3>12. \A i \in 1 .. d : e[i] = WEEK * (p + i)
      BY <3>4, <3>8, <3>9
    <3> QED
      BY <1>5, <3>4, <3>10, <3>11, <3>12 DEF p, ForetoldAs
  <2> QED
    BY <2>3, <2>4
<1>10. CASE Weeks(last, local) = {}
  <2>1. local < x + WEEK
    <3>1. x + WEEK \in Nat /\ (x + WEEK) % WEEK = 0
      <4>1. (WEEK * (p + 1)) % WEEK = 0
        BY <1>6, Multiple
      <4>2. WEEK * (p + 1) = x + WEEK
        BY <1>6
      <4>3. x + WEEK \in Nat
        BY <1>1, <1>7
      <4> HIDE DEF x
      <4> QED
        BY Zenon, <4>1, <4>2, <4>3
    <3>2. last < x + WEEK
      BY <1>7
    <3> HIDE DEF x
    <3>3. x + WEEK <= local => x + WEEK \in Weeks(last, local)
      BY <3>1, <3>2 DEF Weeks
    <3> QED
      BY <1>1, <1>7, <1>10, <3>3
  <2>2. start \in Nat /\ x <= start
    <3> DEFINE n == last + WEEK - 1
               q == n \div WEEK
    <3>1. n \in Nat /\ last <= n
      BY <1>1
    <3>2. q \in Nat /\ p <= q
      BY <3>1, WeekOf, LessWeeks DEF p
    <3>3. start = q * WEEK
      BY <1>4
    <3> HIDE DEF n, q, start
    <3>4. p * WEEK <= q * WEEK /\ p * WEEK = WEEK * p /\ q * WEEK \in Nat
      BY <1>1, <1>2, <1>8, <3>2, Z3
    <3> QED
      BY <3>3, <3>4
  <2> HIDE DEF x, start
  <2>3. weeks = 0
    BY <1>1, <1>7, <2>1, <2>2
  <2>4. Weeks(last, local - 1) = {}
    BY <1>10 DEF Weeks
  <2>5. k = 0
    BY <2>4, FS_EmptySet
  <2> HIDE DEF weeks, first
  <2>6. DOMAIN e = 1 .. 1 /\ e[1] = local
    BY <1>3, <2>3
  <2>7. Len(e) = 1
    BY <1>5, <2>6
  <2> QED
    BY <1>5, <2>5, <2>6, <2>7 DEF ForetoldAs
<1> QED
  BY <1>9, <1>10

LEMMA HasAppended ==
  ASSUME NEW S, NEW s \in Seq(S), NEW x \in S
  PROVE  /\ Append(s, x) \in Seq(S) /\ Len(Append(s, x)) = Len(s) + 1 /\ Has(x, Append(s, x))
         /\ \A b : Has(b, s) => Has(b, Append(s, x))
<1> DEFINE a == Append(s, x)
<1>1. /\ a \in Seq(S) /\ Len(s) \in Nat /\ Len(a) = Len(s) + 1
      /\ DOMAIN s = 1 .. Len(s) /\ DOMAIN a = 1 .. Len(s) + 1
      /\ \A i \in 1 .. Len(s) : a[i] = s[i]
      /\ a[Len(s) + 1] = x
  BY Appended
<1> HIDE DEF a
<1>2. Has(x, a)
  <2>1. Len(s) + 1 \in DOMAIN a
    BY <1>1
  <2> QED
    BY Zenon, <1>1, <2>1 DEF Has
<1>3. ASSUME NEW b, Has(b, s)  PROVE Has(b, a)
  <2>1. PICK i \in 1 .. Len(s) : s[i] = b
    BY Zenon, <1>1, <1>3 DEF Has
  <2>2. i \in DOMAIN a /\ a[i] = b
    BY <1>1, <2>1
  <2> QED
    BY Zenon, <2>2 DEF Has
<1> QED
  BY <1>1, <1>2, <1>3 DEF a

\* Of three times at most, each that begins a week has its box.
Begins(t) == t % WEEK = 0
LEMMA WeekBoxesAre ==
  ASSUME NEW e \in Seq(Nat), Len(e) \in 1 .. 3, NEW boxes, boxes = WeekBoxes(e)
  PROVE  /\ boxes \in Seq(BoxNames)
         /\ \A i \in 1 .. Len(e) : Begins(e[i]) => Has(SlopeBox(e[i]), boxes)
         /\ Len(boxes) <= Len(e)
         /\ ~ Begins(e[Len(e)]) => Len(boxes) < Len(e)
<1> DEFINE n == Len(e)
<1>1. PICK b : Begun(b, e) /\ boxes = b[n]
  BY WeekBoxesBegun
<1>2. n \in 1 .. 3 /\ \A i \in 1 .. n : e[i] \in Nat
  OBVIOUS
<1>3. /\ b[0] = <<>>
      /\ \A i \in 0 .. n : b[i] \in Seq(BoxNames)
      /\ \A i \in 1 .. n : b[i] = IF Begins(e[i]) THEN Append(b[i - 1], SlopeBox(e[i])) ELSE b[i - 1]
  BY Zenon, <1>1 DEF Begun, Begins
<1> HIDE DEF n
<1>4. Len(b[0]) = 0 /\ b[0] \in Seq(BoxNames)
  <2>1. Len(<<>>) = 0 /\ 0 \in 0 .. n
    BY <1>2
  <2> QED
    BY <1>3, <2>1
<1>5. ASSUME NEW i \in 1 .. n
      PROVE  /\ Len(b[i - 1]) \in Nat /\ Len(b[i]) \in Nat
             /\ Len(b[i]) <= Len(b[i - 1]) + 1
             /\ ~ Begins(e[i]) => Len(b[i]) = Len(b[i - 1])
             /\ \A x : Has(x, b[i - 1]) => Has(x, b[i])
             /\ Begins(e[i]) => Has(SlopeBox(e[i]), b[i])
  <2> DEFINE s == b[i - 1]
             x == SlopeBox(e[i])
             a == b[i]
  <2>1. i - 1 \in 0 .. n /\ i \in 0 .. n
    BY <1>2
  <2>2. s \in Seq(BoxNames) /\ a \in Seq(BoxNames)
    BY <1>3, <2>1
  <2>3. x \in BoxNames
    BY <1>2 DEF BoxNames
  <2>4. a = IF Begins(e[i]) THEN Append(s, x) ELSE s
    BY <1>3
  <2> HIDE DEF s, x, a
  <2>5. Len(s) \in Nat /\ Len(a) \in Nat
    BY <2>2
  <2>6. CASE Begins(e[i])
    <3>1. a = Append(s, x)
      BY Zenon, <2>4, <2>6
    <3>2. Len(Append(s, x)) = Len(s) + 1 /\ Has(x, Append(s, x))
          /\ \A y : Has(y, s) => Has(y, Append(s, x))
      BY <2>2, <2>3, HasAppended
    <3>3. Len(a) = Len(s) + 1 /\ Has(x, a) /\ \A y : Has(y, s) => Has(y, a)
      BY Zenon, <3>1, <3>2
    <3> QED
      BY <2>5, <2>6, <3>3 DEF s, a, x
  <2>7. CASE ~ Begins(e[i])
    <3>1. a = s
      BY Zenon, <2>4, <2>7
    <3>2. Len(a) = Len(s) /\ Len(a) <= Len(s) + 1 /\ \A y : Has(y, s) => Has(y, a)
      BY <2>5, <3>1
    <3> QED
      BY <2>5, <2>7, <3>2 DEF s, a, x
  <2> QED
    BY <2>6, <2>7
<1>6. boxes \in Seq(BoxNames)
  <2>1. n \in 0 .. n
    BY <1>2
  <2> QED
    BY <1>1, <1>3, <2>1 DEF n
<1> DEFINE In(i, j) == Has(SlopeBox(e[i]), b[j])
<1>7. \A i \in 1 .. n : Begins(e[i]) => In(i, i)
  BY <1>5
<1>8. \A i \in 1 .. n, j \in 1 .. n : In(i, j - 1) => In(i, j)
  BY <1>5
<1>9. boxes = b[n]
  BY <1>1 DEF n
<1> HIDE DEF In
<1>10. \A i \in 1 .. n : Begins(e[i]) => In(i, n)
  <2>1. CASE n = 1
    BY <1>7, <2>1
  <2>2. CASE n = 2
    <3>1. 2 - 1 = 1 /\ \A i \in 1 .. n : i = 1 \/ i = 2
      BY <2>2
    <3>2. \A i \in 1 .. n : In(i, 1) => In(i, 2)
      BY <1>8, <2>2, <3>1
    <3> QED
      BY <1>7, <2>2, <3>1, <3>2
  <2>3. CASE n = 3
    <3>1. 2 - 1 = 1 /\ 3 - 1 = 2 /\ \A i \in 1 .. n : i = 1 \/ i = 2 \/ i = 3
      BY <2>3
    <3>2. \A i \in 1 .. n : In(i, 1) => In(i, 2)
      BY <1>8, <2>3, <3>1
    <3>3. \A i \in 1 .. n : In(i, 2) => In(i, 3)
      BY <1>8, <2>3, <3>1
    <3> QED
      BY <1>7, <2>3, <3>1, <3>2, <3>3
  <2> QED
    BY <1>2, <2>1, <2>2, <2>3
<1> DEFINE L(i) == Len(b[i])
<1>11. /\ L(0) = 0
       /\ \A i \in 1 .. n : /\ L(i - 1) \in Nat /\ L(i) \in Nat /\ L(i) <= L(i - 1) + 1
                            /\ ~ Begins(e[i]) => L(i) = L(i - 1)
  BY <1>4, <1>5
<1>12. Len(boxes) = L(n)
  BY <1>9
<1> HIDE DEF L
<1>13. L(n) <= n /\ (~ Begins(e[n]) => L(n) < n)
  <2>1. L(1) \in Nat /\ L(1) <= 1 /\ (~ Begins(e[1]) => L(1) = 0)
    <3>1. 1 \in 1 .. n /\ 1 - 1 = 0
      BY <1>2
    <3> QED
      BY <1>11, <3>1
  <2>2. n >= 2 => L(2) \in Nat /\ L(2) <= L(1) + 1 /\ (~ Begins(e[2]) => L(2) = L(1))
    <3>1. n >= 2 => 2 \in 1 .. n /\ 2 - 1 = 1
      BY <1>2
    <3> QED
      BY <1>11, <3>1
  <2>3. n >= 3 => L(3) \in Nat /\ L(3) <= L(2) + 1 /\ (~ Begins(e[3]) => L(3) = L(2))
    <3>1. n >= 3 => 3 \in 1 .. n /\ 3 - 1 = 2
      BY <1>2
    <3> QED
      BY <1>11, <3>1
  <2>4. CASE n = 1
    BY <2>1, <2>4
  <2>5. CASE n = 2
    BY <2>1, <2>2, <2>5
  <2>6. CASE n = 3
    BY <2>1, <2>2, <2>3, <2>6
  <2> QED
    BY <1>2, <2>4, <2>5, <2>6
<1> QED
  BY <1>6, <1>9, <1>10, <1>12, <1>13 DEF In, n

\* The weeks begun since the last row are foretold, as far as the SDK can.
WeeksKnown(last) ==
  /\ last % WEEK = 0 \/ Weeks(last, now) = {}
  /\ Cardinality(Weeks(last, now)) <= 2
AllBegun(last, local) == now = local \/ Weeks(last, now) \subseteq 0 .. local - 1


LEMMA WeeksReached ==
  ASSUME now \in Nat, NEW last \in Nat, NEW local \in Nat, last <= local, local <= now,
         WeeksKnown(last), NEW e, e = getNewTotalPowerTimestamps(last, local),
         NEW boxes, boxes = WeekBoxes(e)
  PROVE  /\ boxes \in Seq(BoxNames) /\ Len(boxes) <= 2 /\ Len(e) \in 1 .. 3
         /\ AllBegun(last, local) =>
              /\ Len(e) = CheckWeeks(last) + 1
              /\ \A t \in Weeks(last, now) : Has(SlopeBox(t), boxes)
<1> DEFINE all == Weeks(last, now)
           some == Weeks(last, local - 1)
           k == Cardinality(some)
           p == last \div WEEK
<1>1. IsFiniteSet(all) /\ last <= now
  BY WeeksCount
<1>2. some \subseteq all /\ Weeks(last, local) \subseteq all
  BY DEF Weeks
<1>3. IsFiniteSet(some) /\ k <= Cardinality(all)
  BY <1>1, <1>2, FS_Subset
<1>4. Cardinality(all) \in Nat /\ Cardinality(all) <= 2
  BY <1>1, FS_CardinalityType DEF WeeksKnown
<1>5. last % WEEK = 0 \/ Weeks(last, local) = {}
  BY <1>2 DEF WeeksKnown
<1>6. /\ k \in Nat /\ Len(e) = k + 1 /\ e \in Seq(Nat)
      /\ \A i \in 1 .. k : e[i] = WEEK * (p + i)
      /\ e[k + 1] = local
  <2>1. k = Cardinality(Weeks(last, local - 1))
    OBVIOUS
  <2> HIDE DEF k, some, all
  <2>2. ForetoldAs(e, k, last, local)
    BY <1>5, <2>1, ForetoldTimes
  <2> QED
    BY <2>2 DEF ForetoldAs
<1>7. p \in Nat
  BY WeekOf
<1>8. k \in 0 .. 2
  <2> HIDE DEF k
  <2> QED
    BY <1>3, <1>4, <1>6
<1>9. local > last /\ Begins(local) => local \in all /\ local \notin some
  BY DEF Weeks, Begins
<1>10. k = 2 => ~ Begins(local)
  <2> SUFFICES ASSUME k = 2, Begins(local)  PROVE FALSE
    OBVIOUS
  <2>1. local > last
    <3>1. CASE local = last
      <4>1. some = {}
        BY <3>1 DEF Weeks
      <4>2. Cardinality({}) = 0
        BY FS_EmptySet
      <4>3. k = 0
        BY Zenon, <4>1, <4>2
      <4> QED
        BY <4>3
    <3> QED
      BY <3>1
  <2> DEFINE more == some \cup {local}
  <2>2. more \subseteq all /\ local \notin some
    BY <1>2, <1>9, <2>1
  <2> HIDE DEF some, all
  <2>3. Cardinality(more) = k + 1 /\ IsFiniteSet(more)
    BY <1>3, <2>2, FS_AddElement
  <2> HIDE DEF more
  <2>4. Cardinality(more) <= Cardinality(all)
    BY <1>1, <2>2, FS_Subset
  <2> QED
    BY <1>4, <2>3, <2>4
<1> HIDE DEF k, p, some, all
<1> DEFINE n == Len(e)
<1>11. n = k + 1 /\ n \in 1 .. 3 /\ e[n] = local
  BY <1>6, <1>8
<1>12. /\ boxes \in Seq(BoxNames)
       /\ \A i \in 1 .. n : Begins(e[i]) => Has(SlopeBox(e[i]), boxes)
       /\ Len(boxes) <= n
       /\ ~ Begins(e[n]) => Len(boxes) < n
  BY <1>6, <1>11, WeekBoxesAre
<1> HIDE DEF n
<1>13. Len(boxes) <= 2
  <2>1. Len(boxes) \in Nat
    BY <1>12
  <2>2. CASE k = 2
    BY <1>10, <1>11, <1>12, <2>1, <2>2
  <2>3. CASE k # 2
    BY <1>8, <1>11, <1>12, <2>1, <2>3
  <2> QED
    BY <2>2, <2>3
<1>14. ASSUME AllBegun(last, local)
       PROVE  /\ n = CheckWeeks(last) + 1
              /\ \A t \in all : Has(SlopeBox(t), boxes)
  <2>1. \A t \in all : t <= local
    BY <1>14 DEF AllBegun, all, Weeks
  <2>2. Weeks(last, now - 1) = some
    <3>1. CASE now = local
      BY <3>1 DEF some
    <3>2. CASE all \subseteq 0 .. local - 1
      <4>1. Weeks(last, now - 1) \subseteq all
        BY DEF Weeks, all
      <4>2. \A t \in all : t \in some
        BY <3>2 DEF Weeks, some, all
      <4>3. \A t \in some : t \in Weeks(last, now - 1)
        BY DEF Weeks, some
      <4> QED
        BY <4>1, <4>2, <4>3
    <3> QED
      BY <1>14, <3>1, <3>2 DEF AllBegun, all
  <2>3. n = CheckWeeks(last) + 1
    BY <1>11, <2>2 DEF CheckWeeks, k
  <2>4. ASSUME NEW t \in all  PROVE Has(SlopeBox(t), boxes)
    <3>1. t \in Nat /\ last < t /\ t <= now /\ t % WEEK = 0 /\ t <= local /\ Begins(t)
      BY <2>1 DEF all, Weeks, Begins
    <3>2. CASE t = local
      <4>1. n \in 1 .. n
        BY <1>11
      <4> QED
        BY Zenon, <1>11, <1>12, <3>1, <3>2, <4>1
    <3>3. CASE t # local
      <4> DEFINE m == local - 1
                 i == t \div WEEK - p
      <4>1. m \in Nat /\ last <= m /\ t <= m
        BY <3>1, <3>3
      <4>2. k = m \div WEEK - p
        BY <4>1, WeeksCount DEF k, some, p
      <4>3. t = WEEK * (t \div WEEK) /\ t \div WEEK \in Nat /\ t \div WEEK <= m \div WEEK
            /\ m \div WEEK \in Nat
        BY <3>1, <4>1, WeekOf, LessWeeks
      <4>4. WEEK * p <= last /\ WEEK * p \in Nat
        BY <1>7, WeekOf, Multiple DEF p
      <4>5. p < t \div WEEK
        <5> DEFINE d == t \div WEEK
        <5>1. d \in Nat /\ t = WEEK * d /\ (WEEK * p < WEEK * d <=> p < d)
          BY <1>7, <4>3, LessWeeks
        <5> HIDE DEF d
        <5>2. WEEK * p < t
          BY <3>1, <4>4
        <5> QED
          BY <5>1, <5>2 DEF d
      <4>6. i \in 1 .. k /\ p + i = t \div WEEK
        BY <1>7, <4>2, <4>3, <4>5
      <4> HIDE DEF i
      <4>7. e[i] = t /\ i \in 1 .. n
        <5>1. e[i] = WEEK * (p + i)
          BY <1>6, <4>6
        <5>2. e[i] = t
          BY Zenon, <4>3, <4>6, <5>1
        <5> QED
          BY <1>6, <1>11, <4>6, <5>2
      <4> QED
        BY Zenon, <1>12, <3>1, <4>7
    <3> QED
      BY <3>2, <3>3
  <2> QED
    BY <2>3, <2>4
<1> QED
  BY <1>11, <1>12, <1>13, <1>14 DEF n, all
-----------------------------------------------------------------------------
(* Types.                                                                   *)

\* Where slope changes may be added.
LEMMA DeltasAdded ==
  ASSUME now \in Nat, NEW v, IsVault(v, now), NEW u \in Users, NEW call, CallFits(call),
         call.op # "withdraw", NEW w, w = After(v, u, call)
  PROVE  DOMAIN w.slopeDelta =
           DOMAIN v.slopeDelta \cup {EndAfter(v.account[u], call)}
             \cup (IF call.op = "extend" THEN {v.account[u].end} ELSE {})
<1> DEFINE acc == v.account[u]
           s == getSlope(AmountAfter(acc, call))
           end == EndAfter(acc, call)
           d == v.slopeDelta
<1>1. v = [total |-> v.total, slopeDelta |-> v.slopeDelta, account |-> v.account]
  BY DEF IsVault
<1>2. w.slopeDelta = IF call.op = "extend" THEN WithDelta(WithDelta(d, acc.end, -s), end, s)
                     ELSE WithDelta(d, end, s - getSlope(acc.amount))
  BY <1>1, AfterDeltas
<1>3. Deltas(d) /\ acc.end \in Nat /\ acc.amount \in Nat
  BY DEF IsVault, IsAccount
<1>4. call.amount \in Nat /\ call.end \in Nat
  BY DEF CallFits, IsCall
<1>5. end \in Nat /\ AmountAfter(acc, call) \in Nat
  BY <1>3, <1>4 DEF EndAfter, AmountAfter
<1>6. s \in Nat /\ getSlope(acc.amount) \in Nat
  BY <1>3, <1>5, SlopeType
<1> HIDE DEF acc, s, end, d
<1>7. CASE call.op = "extend"
  <2> DEFINE k == -s
             old == acc.end
             e == WithDelta(d, old, k)
  <2>1. k \in Int /\ s \in Int /\ old \in Nat
    BY <1>3, <1>6
  <2>5. w.slopeDelta = WithDelta(e, end, s)
    BY Zenon, <1>2, <1>7
  <2> HIDE DEF k, old
  <2>2. Deltas(e) /\ DOMAIN e = DOMAIN d \cup {old}
    BY <1>3, <2>1, WithDeltaType
  <2> HIDE DEF e
  <2>3. DOMAIN WithDelta(e, end, s) = DOMAIN e \cup {end}
    BY <1>5, <2>1, <2>2, WithDeltaType
  <2>4. DOMAIN w.slopeDelta = (DOMAIN d \cup {old}) \cup {end}
    BY Zenon, <2>2, <2>3, <2>5
  <2> QED
    BY <1>7, <2>4 DEF d, acc, end, old
<1>8. CASE call.op # "extend"
  <2>1. s - getSlope(acc.amount) \in Int
    BY <1>6
  <2>2. DOMAIN WithDelta(d, end, s - getSlope(acc.amount)) = DOMAIN d \cup {end}
    BY <1>3, <1>5, <2>1, WithDeltaType
  <2>3. DOMAIN w.slopeDelta = DOMAIN d \cup {end}
    BY Zenon, <1>2, <1>8, <2>2
  <2> QED
    BY <1>8, <2>3 DEF d, acc, end
<1> QED
  BY <1>7, <1>8

LEMMA WithdrawnDeltas ==
  ASSUME NEW v, IsVault(v, now), NEW u, NEW call, call.op = "withdraw", NEW w, w = After(v, u, call)
  PROVE  w.slopeDelta = v.slopeDelta
<1>1. v = [total |-> v.total, slopeDelta |-> v.slopeDelta, account |-> v.account]
  BY DEF IsVault
<1> QED
  BY <1>1, AfterDeltas

LEMMA DeltasFewAdded ==
  ASSUME now \in Nat, NEW v, IsVault(v, now), NEW u \in Users, NEW call, CallFits(call),
         NEW w, w = After(v, u, call)
  PROVE  IsFiniteSet(DOMAIN w.slopeDelta \ DOMAIN v.slopeDelta)
<1> DEFINE acc == v.account[u]
           end == EndAfter(acc, call)
<1>1. CASE call.op = "withdraw"
  <2>1. DOMAIN w.slopeDelta \ DOMAIN v.slopeDelta = {}
    BY <1>1, WithdrawnDeltas
  <2> QED
    BY <2>1, FS_EmptySet
<1>2. CASE call.op # "withdraw"
  <2>1. DOMAIN w.slopeDelta \subseteq DOMAIN v.slopeDelta \cup {end, acc.end}
    BY <1>2, DeltasAdded
  <2>2. DOMAIN w.slopeDelta \ DOMAIN v.slopeDelta \subseteq {end, acc.end}
    BY <2>1
  <2>3. IsFiniteSet({end, acc.end})
    BY SmallSets
  <2> HIDE DEF acc, end
  <2> QED
    BY <2>2, <2>3, FS_Subset
<1> QED
  BY <1>1, <1>2

LEMMA MadeFinite ==
  ASSUME NEW n, NEW m \in Nat
  PROVE  IsFiniteSet(Made(n, m))
<1> DEFINE S == 0 .. m - 1
           f == [r \in S |-> BoxOf(r)]
<1>1. IsFiniteSet(S)
  BY FS_Interval
<1>2. Rowed(m) = {f[r] : r \in S}
  BY DEF Rowed
<1> HIDE DEF f, S
<1>3. IsFiniteSet(Rowed(m))
  BY <1>1, <1>2, ImageFinite
<1>4. Made(n, m) \subseteq Rowed(m)
  BY DEF Made
<1> QED
  BY <1>3, <1>4, FS_Subset

LEMMA NewBoxesFinite ==
  ASSUME NEW v, NEW w, NEW u \in Users, \A x \in Users : x # u => w.account[x] = v.account[x],
         w.account[u].exists, Len(w.account[u].powers) \in Nat, Len(w.total) \in Nat,
         IsFiniteSet(DOMAIN w.slopeDelta \ DOMAIN v.slopeDelta)
  PROVE  IsFiniteSet(Boxes(w) \ Boxes(v))
<1> DEFINE n == Len(v.account[u].powers)
           m == Len(w.account[u].powers)
           i == Len(v.total)
           j == Len(w.total)
           S == NewState(v, u)
           P == NewPowers(u, n, m)
           T == NewTotals(i, j)
           D == NewSlopes(v.slopeDelta, w.slopeDelta)
<1>1. Boxes(w) \ Boxes(v) = S \cup P \cup T \cup D
  BY NewBoxes
<1>2. IsFiniteSet(S)
  BY FS_EmptySet, FS_Singleton DEF NewState
<1>3. IsFiniteSet(P)
  <2> DEFINE M == Made(n, m)
             f == [x \in M |-> PowerBox(u, x)]
  <2>1. IsFiniteSet(M)
    BY MadeFinite
  <2>2. P = {f[x] : x \in M}
    BY DEF NewPowers
  <2> HIDE DEF f, M
  <2> QED
    BY <2>1, <2>2, ImageFinite
<1>4. IsFiniteSet(T)
  <2> DEFINE M == Made(i, j)
             f == [x \in M |-> TotalBox(x)]
  <2>1. IsFiniteSet(M)
    BY MadeFinite
  <2>2. T = {f[x] : x \in M}
    BY DEF NewTotals
  <2> HIDE DEF f, M
  <2> QED
    BY <2>1, <2>2, ImageFinite
<1>5. IsFiniteSet(D)
  <2> DEFINE M == DOMAIN w.slopeDelta \ DOMAIN v.slopeDelta
             f == [x \in M |-> SlopeBox(x)]
  <2>1. D = {f[x] : x \in M}
    BY DEF NewSlopes
  <2>2. IsFiniteSet(M)
    OBVIOUS
  <2> HIDE DEF f, M
  <2> QED
    BY <2>1, <2>2, ImageFinite
<1> HIDE DEF S, P, T, D
<1>6. IsFiniteSet(S \cup P)
  BY <1>2, <1>3, UnionBound
<1>7. IsFiniteSet((S \cup P) \cup T)
  BY <1>6, <1>4, UnionBound
<1>8. IsFiniteSet(((S \cup P) \cup T) \cup D)
  BY <1>7, <1>5, UnionBound
<1> QED
  BY <1>1, <1>8

\* What a group makes of the vault, seen as a change of its user's account.
OneChanged(v, w, u) ==
  /\ \A x \in Users : x # u => w.account[x] = v.account[x]
  /\ w.account[u].exists
LEMMA CallChanges ==
  ASSUME now \in Nat, NEW v, IsVault(v, now), NEW u \in Users, NEW call, CallFits(call),
         NEW w, w = After(v, u, call)
  PROVE  /\ IsVault(w, now) /\ OneChanged(v, w, u)
         /\ IsFiniteSet(DOMAIN w.slopeDelta \ DOMAIN v.slopeDelta)
<1>1. IsCall(call)
  BY DEF CallFits
<1>2. IsVault(w, now)
  BY <1>1, AfterIs
<1>3. OneChanged(v, w, u)
  BY <1>1, AfterAccounts DEF OneChanged
<1> QED
  BY <1>2, <1>3, DeltasFewAdded

Fitting(g) ==
  /\ g.user \in Users /\ Len(g.calls) \in 1 .. 2
  /\ \A i \in 1 .. Len(g.calls) : CallFits(g.calls[i])

LEMMA GroupChanges ==
  ASSUME VInv, NEW g, Fitting(g)
  PROVE  /\ IsVault(Outcome(g), now) /\ OneChanged(Vault, Outcome(g), g.user)
         /\ IsFiniteSet(DOMAIN Outcome(g).slopeDelta \ DOMAIN Vault.slopeDelta)
<1> DEFINE v == Vault
           u == g.user
           m == Middle(g)
           w == After(m, u, g.calls[2])
<1>1. IsVault(v, now) /\ now \in Nat
  BY VaultNow
<1>2. u \in Users /\ CallFits(g.calls[1]) /\ (Len(g.calls) # 1 => CallFits(g.calls[2]))
  BY DEF Fitting
<1>3. m = After(v, u, g.calls[1]) /\ Outcome(g) = IF Len(g.calls) = 1 THEN m ELSE w
  BY DEF Middle, Outcome
<1> HIDE DEF v, u, m
<1>4. /\ IsVault(m, now) /\ OneChanged(v, m, u)
      /\ IsFiniteSet(DOMAIN m.slopeDelta \ DOMAIN v.slopeDelta)
  BY <1>1, <1>2, <1>3, CallChanges
<1>5. CASE Len(g.calls) = 1
  BY Zenon, <1>3, <1>4, <1>5 DEF v, u
<1>6. CASE Len(g.calls) # 1
  <2>1. /\ IsVault(w, now) /\ OneChanged(m, w, u)
        /\ IsFiniteSet(DOMAIN w.slopeDelta \ DOMAIN m.slopeDelta)
    BY <1>1, <1>2, <1>4, <1>6, CallChanges
  <2> HIDE DEF w
  <2>2. OneChanged(v, w, u)
    BY <1>4, <2>1 DEF OneChanged
  <2> DEFINE A == DOMAIN m.slopeDelta \ DOMAIN v.slopeDelta
             B == DOMAIN w.slopeDelta \ DOMAIN m.slopeDelta
  <2>3. IsFiniteSet(A \cup B)
    <3> HIDE DEF A, B
    <3>1. IsFiniteSet(A) /\ IsFiniteSet(B)
      BY <1>4, <2>1 DEF A, B
    <3> QED
      BY <3>1, UnionBound
  <2>4. DOMAIN w.slopeDelta \ DOMAIN v.slopeDelta \subseteq A \cup B
    OBVIOUS
  <2> HIDE DEF A, B
  <2>5. IsFiniteSet(DOMAIN w.slopeDelta \ DOMAIN v.slopeDelta)
    BY <2>3, <2>4, FS_Subset
  <2> QED
    BY Zenon, <1>3, <1>6, <2>1, <2>2, <2>5 DEF v, u
<1> QED
  BY <1>5, <1>6

LEMMA CreatedCost ==
  ASSUME VInv, NEW g, Fitting(g)
  PROVE  IsFiniteSet(Created(g)) /\ CostOf(Created(g)) \in Nat
<1> DEFINE v == Vault
           w == Outcome(g)
           u == g.user
<1>1. u \in Users
  BY DEF Fitting
<1>2. /\ IsVault(w, now) /\ OneChanged(v, w, u)
      /\ IsFiniteSet(DOMAIN w.slopeDelta \ DOMAIN v.slopeDelta)
  BY GroupChanges
<1>3. Created(g) = Boxes(w) \ Boxes(v)
  BY DEF Created
<1> HIDE DEF v, w, u
<1>4. Len(w.total) \in Nat /\ Len(w.account[u].powers) \in Nat
  <2>1. w.total \in Seq(Rows) /\ IsAccount(w.account[u], now)
    BY <1>1, <1>2 DEF IsVault, Totals
  <2>2. w.account[u].powers \in Seq(Rows)
    BY <2>1 DEF IsAccount
  <2> QED
    BY <2>1, <2>2
<1>5. IsFiniteSet(Boxes(w) \ Boxes(v))
  BY <1>1, <1>2, <1>4, NewBoxesFinite DEF OneChanged
<1> DEFINE B == Created(g)
<1>6. IsFiniteSet(B)
  BY <1>3, <1>5
<1> HIDE DEF B
<1>7. CostOf(B) \in Nat
  BY <1>6, CostType
<1> QED
  BY <1>6, <1>7 DEF B

\* Slopes fall due where locks end, what was paid covers the boxes, and each
\* call is somewhere.
Places == {"idle", "account", "global", "increase", "built", "executed", "refused", "answered",
           "threw"}
VTyped ==
  /\ LocksEnd(account, slopeDelta)
  /\ spare \in Nat /\ others \in 0 .. MaxOthers /\ pc \in [Calls -> Places]

LEMMA TypedAtFirst ==
  ASSUME Init
  PROVE  VTyped
<1>1. PICK start \in Starts : slopeDelta = start.slopeDelta /\ account = start.account
  BY DEF Init
<1>2. LocksEnd(start.account, start.slopeDelta)
  BY StartAssumption
<1>3. LocksEnd(account, slopeDelta)
  BY Zenon, <1>1, <1>2
<1>4. spare \in Nat /\ others \in 0 .. MaxOthers
  BY RequestAssumption DEF Init
<1>5. pc \in [Calls -> Places]
  BY DEF Init, Places
<1> QED
  BY <1>3, <1>4, <1>5 DEF VTyped

LEMMA CallTyped ==
  ASSUME VTyped, UNCHANGED <<slopeDelta, account, spare, others>>, NEW c \in Calls,
         NEW p \in Places, pc' = [pc EXCEPT ![c] = p] \/ pc' = pc
  PROVE  VTyped'
<1>1. LocksEnd(account, slopeDelta)'
  BY Zenon DEF VTyped
<1>2. pc' \in [Calls -> Places]
  BY DEF VTyped
<1> QED
  BY <1>1, <1>2 DEF VTyped

LEMMA StillTyped ==
  ASSUME VTyped, UNCHANGED <<slopeDelta, account, spare, others, pc>>
  PROVE  VTyped'
<1>1. LocksEnd(account, slopeDelta)'
  BY Zenon DEF VTyped
<1> QED
  BY <1>1 DEF VTyped

LEMMA HasLocks ==
  ASSUME VInv
  PROVE  \A u \in Users : HasLock(account[u])
<1> SUFFICES ASSUME NEW u \in Users PROVE HasLock(account[u])
  OBVIOUS
<1>1. IsAccount(account[u], now)
  BY ChainNow
<1> QED
  BY <1>1 DEF IsAccount, HasLock

LEMMA OtherLockTyped ==
  ASSUME VInv, VTyped, NEW l \in OtherLocks, OtherLock(l)
  PROVE  VTyped'
<1> DEFINE t == l.end
           d == getSlope(l.amount)
           deltas == slopeDelta
           later == WithDelta(deltas, t, d)
<1>1. /\ others < MaxOthers /\ others' = others + 1 /\ slopeDelta' = later
      /\ account' = account /\ spare' = spare /\ pc' = pc
  BY DEF OtherLock, callVars
<1>2. t \in Nat /\ t % WEEK = 0 /\ l.amount \in Nat /\ MaxOthers \in Nat
  BY RequestAssumption
<1>3. d \in Nat
  BY <1>2, SlopeType
<1>4. Deltas(deltas) /\ \A u \in Users : HasLock(account[u])
  BY ChainNow, HasLocks
<1>5. EndsKnown(account, deltas) /\ Covered(account, deltas)
  BY <1>4, LocksEndIs DEF VTyped
<1> HIDE DEF t, d, deltas
<1>6. d \in Int
  BY <1>3
<1>7. Deltas(later) /\ DOMAIN later = DOMAIN deltas \cup {t}
  BY <1>2, <1>4, <1>6, WithDeltaType
<1>8. EndsKnown(account, later)
  BY <1>2, <1>5, <1>7 DEF EndsKnown
<1>9. Covered(account, later)
  <2> SUFFICES ASSUME NEW w \in Nat PROVE Due(account, w) <= Owed(later, w)
    BY DEF Covered
  <2>1. /\ Owed(deltas, w) \in Int
        /\ Owed(later, w) = Owed(deltas, w) + (IF w = t THEN d ELSE 0)
    BY <1>2, <1>4, <1>6, OwedChanged
  <2>2. Due(account, w) \in Nat /\ Due(account, w) <= Owed(deltas, w)
    BY <1>4, <1>5, DueType DEF Covered
  <2> QED
    BY <1>3, <2>1, <2>2
<1> HIDE DEF later
<1>10. LocksEnd(account, later)
  BY <1>4, <1>7, <1>8, <1>9, LocksEndIs
<1>11. LocksEnd(account, slopeDelta)'
  BY Zenon, <1>1, <1>10
<1> QED
  BY <1>1, <1>2, <1>11 DEF VTyped

\* A group built does what calls can do.
LEMMA BuiltFitting ==
  ASSUME VInv, AllKnow, NEW c \in Calls, pc[c] = "built"
  PROVE  /\ Fitting(group[c]) /\ group[c].user = Owner[c] /\ group[c].pay \in Nat
         /\ req[c] \in Requests
         /\ BuiltFrom(Owner[c], req[c], seen[c], group[c], total, slopeDelta, now)
<1>1. req[c] \in Requests
  BY CallShapes DEF CallIsHere, CallIs, VaultPlaces
<1>2. BuiltFrom(Owner[c], req[c], seen[c], group[c], total, slopeDelta, now)
  BY Zenon DEF AllKnow, Knows, KnowsIs
<1>3. /\ group[c].user = Owner[c] /\ group[c].pay \in Nat /\ Len(group[c].calls) \in 1 .. 2
      /\ \A i \in 1 .. Len(group[c].calls) : CallFits(group[c].calls[i])
  BY <1>1, <1>2, BuiltFits
<1> QED
  BY <1>1, <1>2, <1>3, OwnerIsUser DEF Fitting

LEMMA OutcomeEnds ==
  ASSUME VInv, LocksEnd(account, slopeDelta), NEW g, Fitting(g), Legally(g)
  PROVE  LocksEnd(Outcome(g).account, Outcome(g).slopeDelta)
<1> DEFINE v == Vault
           u == g.user
           m == Middle(g)
           p == g.calls[1]
           q == g.calls[2]
           w == After(m, u, q)
<1>1. IsVault(v, now) /\ now \in Nat /\ LocksEnd(v.account, v.slopeDelta)
  BY Zenon, VaultNow
<1>2. u \in Users /\ CallFits(p) /\ (Len(g.calls) # 1 => CallFits(q)) /\ Len(g.calls) \in 1 .. 2
  BY DEF Fitting
<1>3. m = After(v, u, p) /\ Outcome(g) = IF Len(g.calls) = 1 THEN m ELSE w
  BY DEF Middle, Outcome
<1>4. Legal(v, u, p) /\ (Len(g.calls) # 1 => Legal(m, u, q))
  BY <1>2 DEF Legally
<1> HIDE DEF v, u, m, p, q
<1>5. IsVault(m, now)
  BY <1>1, <1>2, <1>3, CallChanges
<1>6. LocksEnd(m.account, m.slopeDelta)
  BY <1>1, <1>2, <1>3, <1>4, AfterEnds
<1>7. CASE Len(g.calls) = 1
  BY Zenon, <1>3, <1>6, <1>7
<1>8. CASE Len(g.calls) # 1
  <2>1. LocksEnd(w.account, w.slopeDelta)
    BY <1>1, <1>2, <1>4, <1>5, <1>6, <1>8, AfterEnds
  <2> QED
    BY Zenon, <1>3, <1>8, <2>1
<1> QED
  BY <1>7, <1>8

LEMMA ExecuteTyped ==
  ASSUME VInv, AllKnow, VTyped, NEW c \in Calls, Execute(c)
  PROVE  VTyped'
<1> DEFINE g == group[c]
           w == Outcome(g)
           k == CostOf(Created(g))
<1>1. /\ pc[c] = "built" /\ Legally(g) /\ PaidFor(g)
      /\ slopeDelta' = w.slopeDelta /\ account' = w.account
      /\ spare' = spare + g.pay - k /\ pc' = [pc EXCEPT ![c] = "executed"] /\ others' = others
  BY DEF Execute
<1>2. Fitting(g) /\ g.pay \in Nat
  BY <1>1, BuiltFitting
<1>3. LocksEnd(w.account, w.slopeDelta)
  BY <1>1, <1>2, OutcomeEnds DEF VTyped
<1>4. k \in Nat
  BY <1>2, CreatedCost
<1>5. k <= spare + g.pay
  BY <1>1 DEF PaidFor
<1> HIDE DEF g, w, k
<1>6. spare' \in Nat
  BY <1>1, <1>2, <1>4, <1>5 DEF VTyped
<1>7. LocksEnd(account, slopeDelta)'
  BY Zenon, <1>1, <1>3
<1>8. pc' \in [Calls -> Places]
  BY <1>1 DEF VTyped, Places
<1> QED
  BY <1>1, <1>6, <1>7, <1>8 DEF VTyped

LEMMA TypedKept ==
  ASSUME VInv, AllKnow, VTyped, Next
  PROVE  VTyped'
<1>1. ASSUME UNCHANGED <<slopeDelta, account, spare, others>>, NEW c \in Calls,
             pc' = pc \/ \E p \in Places : pc' = [pc EXCEPT ![c] = p]
      PROVE  VTyped'
  BY <1>1, CallTyped, StillTyped
<1>2. /\ "account" \in Places /\ "global" \in Places /\ "increase" \in Places
      /\ "built" \in Places /\ "refused" \in Places /\ "answered" \in Places /\ "threw" \in Places
  BY DEF Places
<1>3. CASE Tick
  BY <1>3, StillTyped DEF Tick, callVars
<1>4. CASE \E l \in OtherLocks : OtherLock(l)
  BY <1>4, OtherLockTyped
<1>5. ASSUME NEW c \in Calls,
             \E r \in Requests, failed \in BOOLEAN : FetchAccountState(c, r, failed)
      PROVE  VTyped'
  BY <1>1, <1>2, <1>5 DEF FetchAccountState, Go, chainVars
<1>6. ASSUME NEW c \in Calls, \E r \in Requests : FetchGlobalState(c, r) \/ FailGlobalState(c, r)
      PROVE  VTyped'
  BY <1>1, <1>2, <1>6 DEF FetchGlobalState, FailGlobalState, Answers, Go, chainVars
<1>7. ASSUME NEW c \in Calls, NEW local, GenerateCreateLock(c, local)  PROVE VTyped'
  BY Zenon, <1>1, <1>2, <1>7 DEF GenerateCreateLock, Generate, Builds, Go, chainVars
<1>8. ASSUME NEW c \in Calls, NEW local, GenerateIncreaseLockAmount(c, local)  PROVE VTyped'
  BY Zenon, <1>1, <1>2, <1>8 DEF GenerateIncreaseLockAmount, Generate, Builds, Go, chainVars
<1>9. ASSUME NEW c \in Calls, NEW local, GenerateExtendLockTime(c, local)  PROVE VTyped'
  BY Zenon, <1>1, <1>2, <1>9 DEF GenerateExtendLockTime, Generate, Builds, Go, chainVars
<1>10. ASSUME NEW c \in Calls, NEW local, GenerateIncrease(c, local)  PROVE VTyped'
  BY Zenon, <1>1, <1>2, <1>10 DEF GenerateIncrease, Generate, Go, chainVars
<1>11. ASSUME NEW c \in Calls, NEW local, GenerateExtension(c, local)  PROVE VTyped'
  BY Zenon, <1>1, <1>2, <1>11 DEF GenerateExtension, Generate, Builds, Go, chainVars
<1>12. ASSUME NEW c \in Calls, GenerateWithdraw(c)  PROVE VTyped'
  BY Zenon, <1>1, <1>2, <1>12 DEF GenerateWithdraw, Builds, Go, chainVars
<1>13. ASSUME NEW c \in Calls, Throw(c)  PROVE VTyped'
  BY <1>1, <1>2, <1>13 DEF Throw, Go, chainVars
<1>14. ASSUME NEW c \in Calls, ReadBox(c)  PROVE VTyped'
  BY Zenon, <1>1, <1>14 DEF ReadBox, chainVars
<1>15. ASSUME NEW c \in Calls, AnswerTinyPower(c)  PROVE VTyped'
  BY Zenon, <1>1, <1>2, <1>15 DEF AnswerTinyPower, Answers, Go, chainVars
<1>16. ASSUME NEW c \in Calls, AnswerTotalPower(c)  PROVE VTyped'
  BY Zenon, <1>1, <1>2, <1>16 DEF AnswerTotalPower, Answers, Go, chainVars
<1>17. ASSUME NEW c \in Calls, Execute(c)  PROVE VTyped'
  BY <1>17, ExecuteTyped
<1>18. ASSUME NEW c \in Calls, Refuse(c)  PROVE VTyped'
  BY <1>1, <1>2, <1>18 DEF Refuse, chainVars
<1> QED
  BY Zenon, <1>3, <1>4, <1>5, <1>6, <1>7, <1>8, <1>9, <1>10, <1>11, <1>12, <1>13, <1>14,
     <1>15, <1>16, <1>17, <1>18 DEF Next

LEMMA TypedStutters ==
  ASSUME VTyped, UNCHANGED vars
  PROVE  VTyped'
  BY StillTyped DEF vars, chainVars, callVars

TInv == VInv /\ AllKnow /\ VTyped
THEOREM TInvInductive == Spec => []TInv
<1>1. Init => TInv
  BY VInvAtFirst, AllKnowAtFirst, TypedAtFirst DEF TInv
<1>2. TInv /\ [Next]_vars => TInv'
  BY VInvKept, VaultStutters, AllKnowKept, AllKnowStutters, TypedKept, TypedStutters DEF Kept, TInv
<1> QED
  BY <1>1, <1>2, PTL DEF Spec

LEMMA TInvTypes ==
  ASSUME TInv
  PROVE  TypeOK
<1>1. VInv /\ VTyped
  BY DEF TInv
<1>2. /\ now \in Nat /\ Totals(total, now) /\ Deltas(slopeDelta)
      /\ \A u \in Users : IsAccount(account[u], now) /\ HasLock(account[u])
  BY <1>1, ChainNow, HasLocks
<1>3. total \in Seq(Rows) /\ Len(total) > 0
  <2>1. total \in Seq(Rows) /\ total # <<>>
    BY <1>2 DEF Totals
  <2> QED
    BY <2>1
<1>4. EndsKnown(account, slopeDelta) /\ Covered(account, slopeDelta)
  BY <1>1, <1>2, LocksEndIs DEF VTyped
<1>5. \A t \in DOMAIN slopeDelta : t % WEEK = 0 /\ slopeDelta[t] \in Nat
  <2> SUFFICES ASSUME NEW t \in DOMAIN slopeDelta PROVE t % WEEK = 0 /\ slopeDelta[t] \in Nat
    OBVIOUS
  <2>1. t \in Nat /\ slopeDelta[t] \in Int
    BY <1>2 DEF Deltas
  <2>2. Due(account, t) \in Nat /\ Due(account, t) <= Owed(slopeDelta, t)
    BY <1>2, <1>4, <2>1, DueType DEF Covered
  <2>3. Owed(slopeDelta, t) = slopeDelta[t]
    BY DEF Owed
  <2>4. t % WEEK = 0
    BY <1>4 DEF EndsKnown
  <2> QED
    BY <2>1, <2>2, <2>3, <2>4
<1>6. ASSUME NEW u \in Users
      PROVE  /\ account[u].powers \in Seq(Rows) /\ Len(account[u].log) = Len(account[u].powers)
             /\ (account[u].exists <=> account[u].powers # <<>>)
  BY <1>2 DEF IsAccount
<1>7. ASSUME NEW c \in Calls, pc[c] = "answered" PROVE answer[c] \in Nat
  BY <1>1, <1>7, CallShapes DEF CallIsHere, CallIs
<1> QED
  BY <1>1, <1>2, <1>3, <1>5, <1>6, <1>7 DEF TypeOK, VTyped, Places

\* The vault keeps rows and slope changes of the right kind, and what it was
\* paid covers its boxes, for any accounts, locks and orders of steps.
THEOREM VaultTypesHold == Spec => []TypeOK
<1>1. TInv => TypeOK
  BY TInvTypes
<1> QED
  BY <1>1, TInvInductive, PTL
-----------------------------------------------------------------------------
(* What a group names.                                                      *)

\* A list of so many boxes at most, these among them.
Listed(p, n, S) ==
  p \in Seq(BoxNames) /\ n \in Nat /\ Len(p) <= n /\ \A b \in S : Has(b, p)

LEMMA ListsJoined ==
  ASSUME NEW p, NEW q, NEW m, NEW n, NEW S, NEW T, Listed(p, m, S), Listed(q, n, T)
  PROVE  Listed(p \o q, m + n, S \cup T)
<1> DEFINE pq == p \o q
<1>1. p \in Seq(BoxNames) /\ q \in Seq(BoxNames)
  BY DEF Listed
<1>2. pq \in Seq(BoxNames) /\ \A b : Has(b, p) \/ Has(b, q) => Has(b, pq)
  BY <1>1, HasInConcat
<1>3. Len(pq) = Len(p) + Len(q)
  BY <1>1, ConcatProperties
<1>4. Len(p) \in Nat /\ Len(q) \in Nat
  BY <1>1, LenProperties
<1> HIDE DEF pq
<1>5. /\ m \in Nat /\ n \in Nat /\ Len(p) <= m /\ Len(q) <= n
      /\ (\A b \in S : Has(b, p)) /\ (\A b \in T : Has(b, q))
  BY DEF Listed
<1>6. Len(pq) <= m + n /\ m + n \in Nat
  BY <1>3, <1>4, <1>5
<1>7. \A b \in S \cup T : Has(b, pq)
  BY Zenon, <1>2, <1>5
<1>8. Listed(pq, m + n, S \cup T)
  BY Zenon, <1>2, <1>6, <1>7 DEF Listed
<1> QED
  BY Zenon, <1>8 DEF pq

LEMMA ShortLists ==
  ASSUME NEW x \in BoxNames, NEW y \in BoxNames
  PROVE  Listed(<<x>>, 1, {x}) /\ Listed(<<x, y>>, 2, {x, y}) /\ Listed(<<>>, 0, {})
<1>1. /\ <<x>> \in Seq(BoxNames) /\ <<x, y>> \in Seq(BoxNames) /\ <<>> \in Seq(BoxNames)
      /\ Has(x, <<x>>) /\ Has(x, <<x, y>>) /\ Has(y, <<x, y>>)
  BY SmallSequences
<1>2. Len(<<x>>) <= 1 /\ Len(<<x, y>>) <= 2 /\ Len(<<>>) <= 0
  OBVIOUS
<1>3. /\ \A b \in {x} : Has(b, <<x>>)
      /\ \A b \in {x, y} : Has(b, <<x, y>>)
      /\ \A b \in {} : Has(b, <<>>)
  BY Zenon, <1>1
<1>4. 0 \in Nat /\ 1 \in Nat /\ 2 \in Nat
  OBVIOUS
<1> QED
  BY Zenon, <1>1, <1>2, <1>3, <1>4 DEF Listed

\* The boxes of the rows there are and of the next.
NextPowers(u, n) ==
  IF n # 0 /\ freeSpaceCount(n) = 0 THEN {PowerBox(u, lastBoxIndex(n) + 1)} ELSE {}
PowersToName(u, n) == {PowerBox(u, lastBoxIndex(n))} \cup NextPowers(u, n)
TotalsToName(n) == {TotalBox(lastBoxIndex(n)), TotalBox(lastBoxIndex(n) + 1)}

LEMMA TotalsListed ==
  ASSUME NEW g, g.count \in Nat, NEW e
  PROVE  Listed(TotalBoxes(g, e), 2, TotalsToName(g.count))
<1> DEFINE x == TotalBox(lastBoxIndex(g.count))
           y == TotalBox(lastBoxIndex(g.count) + 1)
<1>1. TotalBoxes(g, e) = <<x, y>> /\ TotalsToName(g.count) = {x, y}
  BY DEF TotalBoxes, TotalsToName
<1>2. x \in BoxNames /\ y \in BoxNames
  BY LastBoxType, BoxNamesAre
<1> HIDE DEF x, y
<1>3. Listed(<<x, y>>, 2, {x, y})
  BY <1>2, ShortLists
<1> QED
  BY Zenon, <1>1, <1>3

LEMMA NextPowerListed ==
  ASSUME NEW u \in Users, NEW s, s.count \in Nat
  PROVE  Listed(NextPowerBox(u, s), 1, NextPowers(u, s.count))
<1> DEFINE x == PowerBox(u, lastBoxIndex(s.count) + 1)
           n == s.count
<1>1. NextPowerBox(u, s) = IF freeSpaceCount(n) = 0 THEN <<x>> ELSE <<>>
  BY DEF NextPowerBox
<1>2. NextPowers(u, n) = IF n # 0 /\ freeSpaceCount(n) = 0 THEN {x} ELSE {}
  BY DEF NextPowers
<1>3. x \in BoxNames
  BY LastBoxType, BoxNamesAre
<1> HIDE DEF x, n
<1>4. Listed(<<x>>, 1, {x}) /\ Listed(<<>>, 0, {})
  BY <1>3, ShortLists
<1>5. Listed(<<x>>, 1, {}) /\ Listed(<<>>, 1, {})
  <2>1. /\ <<x>> \in Seq(BoxNames) /\ Len(<<x>>) <= 1 /\ <<>> \in Seq(BoxNames) /\ Len(<<>>) <= 0
    BY <1>4 DEF Listed
  <2>2. Len(<<>>) <= 1 /\ 1 \in Nat
    OBVIOUS
  <2> QED
    BY Zenon, <2>1, <2>2 DEF Listed
<1>6. CASE freeSpaceCount(n) = 0
  <2>1. NextPowerBox(u, s) = <<x>>
    BY Zenon, <1>1, <1>6
  <2>2. CASE n # 0
    BY Zenon, <1>2, <1>4, <1>6, <2>1, <2>2 DEF n
  <2>3. CASE ~ (n # 0)
    <3>1. NextPowers(u, n) = {}
      BY Zenon, <1>2, <2>3
    <3> QED
      BY Zenon, <1>5, <2>1, <3>1 DEF n
  <2> QED
    BY Zenon, <2>2, <2>3
<1>7. CASE freeSpaceCount(n) # 0
  BY Zenon, <1>1, <1>2, <1>5, <1>7 DEF n
<1> QED
  BY <1>6, <1>7

\* The lists of a group, none longer than allowed, these boxes among them.
Covers(refs, S) ==
  /\ refs \in Seq(Seq(BoxNames)) /\ \A k \in DOMAIN refs : Len(refs[k]) <= MaxRefs
  /\ \A b \in S : InRefs(b, refs)

LEMMA SlicesCover ==
  ASSUME NEW boxes, NEW S, Listed(boxes, 16, S)
  PROVE  Covers(Slices(boxes), S)
<1> DEFINE n == Len(boxes)
           m == IF n < 8 THEN n ELSE 8
           refs == Slices(boxes)
<1>1. boxes \in Seq(BoxNames) /\ n \in Nat /\ n <= 16
  BY LenProperties DEF Listed
<1>2. /\ refs \in Seq(Seq(BoxNames)) /\ DOMAIN refs = 1 .. 2
      /\ \A b : Has(b, boxes) => InRefs(b, refs)
  BY <1>1, SlicesAre
<1>3. refs = <<SubSeq(boxes, 1, m), SubSeq(boxes, 9, n)>>
  BY DEF Slices
<1>4. refs[1] = SubSeq(boxes, 1, m) /\ refs[2] = SubSeq(boxes, 9, n)
  BY <1>3
<1>5. Len(SubSeq(boxes, 1, m)) <= 8
  <2>1. m \in Nat /\ m <= n /\ m <= 8
    BY <1>1
  <2> HIDE DEF m
  <2>2. Len(SubSeq(boxes, 1, m)) = m
    BY <1>1, <2>1
  <2> QED
    BY <2>1, <2>2
<1>6. Len(SubSeq(boxes, 9, n)) <= 8
  <2>1. CASE 9 <= n
    <3>1. Len(SubSeq(boxes, 9, n)) = n - 9 + 1
      BY <1>1, <2>1
    <3> QED
      BY <1>1, <3>1
  <2>2. CASE ~ (9 <= n)
    <3>1. Len(SubSeq(boxes, 9, n)) = 0
      <4>1. n < 9
        BY <1>1, <2>2
      <4>3. \A i \in 9 .. n : boxes[i] \in BoxNames
        BY <1>1
      <4> DEFINE k == Len(SubSeq(boxes, 9, n))
      <4>2. k = IF 9 <= n THEN n - 9 + 1 ELSE 0
        BY <1>1, <4>3, SubSeqProperties
      <4> HIDE DEF k, n
      <4>4. k = 0
        BY Zenon, <2>2, <4>2
      <4> QED
        BY Zenon, <4>4 DEF k, n
    <3>2. 0 <= 8
      OBVIOUS
    <3> QED
      BY Zenon, <3>1, <3>2
  <2> QED
    BY <2>1, <2>2
<1> HIDE DEF refs, m, n
<1>7. Len(refs[1]) <= 8 /\ Len(refs[2]) <= 8
  BY <1>4, <1>5, <1>6
<1>8. \A k \in DOMAIN refs : k = 1 \/ k = 2
  BY <1>2
<1>9. \A k \in DOMAIN refs : Len(refs[k]) <= 8 /\ Len(refs[k]) \in Nat
  <2> TAKE k \in DOMAIN refs
  <2>1. refs[k] \in Seq(BoxNames)
    BY <1>2
  <2>2. Len(refs[k]) \in Nat
    BY <2>1, LenProperties
  <2> QED
    BY Zenon, <1>7, <1>8, <2>2
<1>10. MaxRefs \in Nat /\ MaxRefs >= 8
  BY SizeAssumption
<1>11. \A k \in DOMAIN refs : Len(refs[k]) <= MaxRefs
  BY <1>9, <1>10
<1>12. \A b \in S : InRefs(b, refs)
  BY Zenon, <1>2 DEF Listed
<1>13. Covers(refs, S)
  BY Zenon, <1>2, <1>11, <1>12 DEF Covers
<1> QED
  BY Zenon, <1>13 DEF refs

LEMMA ListsCover ==
  ASSUME NEW boxes, NEW S, Listed(boxes, 8, S)
  PROVE  Covers(<<boxes>>, S) /\ Covers(<<boxes, <<>>>>, S)
<1> DEFINE one == <<boxes>>
           two == <<boxes, <<>>>>
           T == Seq(BoxNames)
<1>1. boxes \in T /\ <<>> \in T /\ Len(boxes) <= 8 /\ Len(boxes) \in Nat
  BY LenProperties DEF Listed
<1>2. MaxRefs \in Nat /\ MaxRefs >= 8
  BY SizeAssumption
<1>3. Len(boxes) <= MaxRefs
  BY <1>1, <1>2
<1>4. Len(<<>>) <= MaxRefs
  BY <1>2
<1> HIDE DEF T
<1>5. one \in Seq(T) /\ two \in Seq(T)
  BY <1>1
<1>6. DOMAIN one = 1 .. 1 /\ one[1] = boxes /\ DOMAIN two = 1 .. 2 /\ two[1] = boxes /\ two[2] = <<>>
  OBVIOUS
<1> HIDE DEF one, two
<1>7. (\A k \in DOMAIN one : k = 1) /\ (\A k \in DOMAIN two : k = 1 \/ k = 2)
      /\ 1 \in DOMAIN one /\ 1 \in DOMAIN two
  BY <1>6
<1>8. /\ \A k \in DOMAIN one : Len(one[k]) <= MaxRefs
      /\ \A k \in DOMAIN two : Len(two[k]) <= MaxRefs
  BY Zenon, <1>3, <1>4, <1>6, <1>7
<1>9. \A b \in S : InRefs(b, one) /\ InRefs(b, two)
  <2>1. \A b \in S : Has(b, boxes)
    BY Zenon DEF Listed
  <2>2. \A b : Has(b, boxes) => InRefs(b, one)
    BY Zenon, <1>6, <1>7 DEF Has, InRefs
  <2>3. \A b : Has(b, boxes) => InRefs(b, two)
    BY Zenon, <1>6, <1>7 DEF Has, InRefs
  <2> QED
    BY Zenon, <2>1, <2>2, <2>3
<1>10. Covers(one, S) /\ Covers(two, S)
  BY Zenon, <1>5, <1>8, <1>9 DEF Covers, T
<1> QED
  BY Zenon, <1>10 DEF one, two

LEMMA JoinedCovers ==
  ASSUME NEW p, NEW q, NEW S, NEW T, Covers(p, S), Covers(q, T)
  PROVE  Covers(Joined(p, q), S \cup T)
<1> DEFINE B == Seq(BoxNames)
           pq == Joined(p, q)
<1>1. p \in Seq(B) /\ q \in Seq(B)
  BY Zenon DEF Covers
<1> HIDE DEF B
<1>2. /\ pq \in Seq(B) /\ Len(pq) = Len(p) + Len(q)
      /\ \A k \in 1 .. Len(p) + Len(q) : pq[k] = IF k <= Len(p) THEN p[k] ELSE q[k - Len(p)]
  BY <1>1, ConcatProperties DEF Joined
<1>3. /\ Len(p) \in Nat /\ Len(q) \in Nat /\ DOMAIN p = 1 .. Len(p) /\ DOMAIN q = 1 .. Len(q)
      /\ DOMAIN pq = 1 .. Len(pq)
  BY <1>1, <1>2, LenProperties
<1> HIDE DEF pq
<1>4. \A k \in DOMAIN pq : \/ k \in DOMAIN p /\ pq[k] = p[k]
                           \/ k - Len(p) \in DOMAIN q /\ pq[k] = q[k - Len(p)]
  BY <1>2, <1>3
<1>5. \A k \in DOMAIN p : k \in DOMAIN pq /\ pq[k] = p[k]
  BY <1>2, <1>3
<1>6. \A k \in DOMAIN q : k + Len(p) \in DOMAIN pq /\ pq[k + Len(p)] = q[k]
  <2> SUFFICES ASSUME NEW k \in DOMAIN q PROVE k + Len(p) \in DOMAIN pq /\ pq[k + Len(p)] = q[k]
    OBVIOUS
  <2> DEFINE j == k + Len(p)
  <2>1. j \in 1 .. Len(p) + Len(q) /\ ~(j <= Len(p)) /\ j - Len(p) = k
    BY <1>3
  <2> HIDE DEF j
  <2>2. j \in DOMAIN pq /\ pq[j] = q[k]
    BY <1>2, <1>3, <2>1
  <2> QED
    BY Zenon, <2>2 DEF j
<1>7. \A k \in DOMAIN pq : Len(pq[k]) <= MaxRefs
  <2>1. /\ \A k \in DOMAIN p : Len(p[k]) <= MaxRefs
        /\ \A k \in DOMAIN q : Len(q[k]) <= MaxRefs
    BY Zenon DEF Covers
  <2> TAKE k \in DOMAIN pq
  <2> QED
    BY Zenon, <1>4, <2>1
<1>8. \A b \in S : InRefs(b, pq)
  <2> SUFFICES ASSUME NEW b \in S PROVE InRefs(b, pq)
    OBVIOUS
  <2>1. PICK k \in DOMAIN p : \E i \in DOMAIN p[k] : p[k][i] = b
    BY Zenon DEF Covers, InRefs
  <2>2. k \in DOMAIN pq /\ \E i \in DOMAIN pq[k] : pq[k][i] = b
    BY <1>5, <2>1
  <2> QED
    BY Zenon, <2>2 DEF InRefs
<1>9. \A b \in T : InRefs(b, pq)
  <2> SUFFICES ASSUME NEW b \in T PROVE InRefs(b, pq)
    OBVIOUS
  <2>1. PICK k \in DOMAIN q : \E i \in DOMAIN q[k] : q[k][i] = b
    BY Zenon DEF Covers, InRefs
  <2> DEFINE j == k + Len(p)
  <2>2. j \in DOMAIN pq /\ \E i \in DOMAIN pq[j] : pq[j][i] = b
    BY <1>6, <2>1
  <2> HIDE DEF j
  <2> QED
    BY Zenon, <2>2 DEF InRefs
<1>10. Covers(pq, S \cup T)
  BY Zenon, <1>2, <1>7, <1>8, <1>9 DEF Covers, B
<1> QED
  BY Zenon, <1>10 DEF pq

LEMMA ListedLess ==
  ASSUME NEW p, NEW n, NEW k \in Nat, NEW S, NEW T, Listed(p, n, T), n <= k, S \subseteq T
  PROVE  Listed(p, k, S)
<1>1. p \in Seq(BoxNames) /\ n \in Nat /\ Len(p) <= n /\ \A b \in T : Has(b, p)
  BY DEF Listed
<1>2. Len(p) \in Nat
  BY <1>1, LenProperties
<1>3. Len(p) <= k
  BY <1>1, <1>2
<1> QED
  BY <1>1, <1>3 DEF Listed

\* All a call on a lock touches: n rows of power, m of total power, the boxes of
\* the ends and of the weeks.
Needed(u, n, m, ends, weeks) ==
  {StateBox(u)} \cup PowersToName(u, n) \cup TotalsToName(m) \cup ends \cup weeks

\* The rows of an account that is there, and of one that is not.
LEMMA PowersListed ==
  ASSUME NEW u \in Users, NEW n \in Nat
  PROVE  /\ StateBox(u) \in BoxNames /\ PowerBox(u, lastBoxIndex(n)) \in BoxNames
         /\ PowerBox(u, lastBoxIndex(n) + 1) \in BoxNames
         /\ PowersToName(u, 0) = {PowerBox(u, 0)} /\ PowerBox(u, 0) \in BoxNames
<1>1. lastBoxIndex(n) \in Nat /\ lastBoxIndex(n) + 1 \in Nat
  BY LastBoxType
<1>2. lastBoxIndex(0) = 0
  BY DEF lastBoxIndex
<1>3. NextPowers(u, 0) = {}
  BY DEF NextPowers
<1>4. PowersToName(u, 0) = {PowerBox(u, 0)}
  BY <1>2, <1>3 DEF PowersToName
<1>5. 0 \in Nat
  OBVIOUS
<1> QED
  BY Zenon, <1>1, <1>4, <1>5, BoxNamesAre

LEMMA IncreaseCovers ==
  ASSUME NEW u \in Users, NEW a, a.count \in Nat, a.end \in Nat, NEW g, g.count \in Nat,
         NEW r, NEW e, NEW W, Listed(WeekBoxes(e), 2, W)
  PROVE  Covers(IncreaseLockAmount(u, a, g, r, e).refs,
                Needed(u, a.count, g.count, {SlopeBox(a.end)}, W))
<1> DEFINE x == StateBox(u)
           y == PowerBox(u, lastBoxIndex(a.count))
           z == SlopeBox(a.end)
           b1 == <<x, y>>
           b2 == TotalBoxes(g, e)
           b3 == <<z>>
           b4 == WeekBoxes(e)
           b5 == NextPowerBox(u, a)
           boxes == b1 \o b2 \o b3 \o b4 \o b5
           T == TotalsToName(g.count)
           N == NextPowers(u, a.count)
           S == Needed(u, a.count, g.count, {z}, W)
<1>1. IncreaseLockAmount(u, a, g, r, e).refs = <<boxes, <<>>>>
  BY Zenon DEF IncreaseLockAmount
<1>2. x \in BoxNames /\ y \in BoxNames /\ z \in BoxNames
  BY PowersListed, BoxNamesAre
<1>3. Listed(b2, 2, T) /\ Listed(b5, 1, N)
  BY TotalsListed, NextPowerListed
<1>4. Listed(b4, 2, W)
  OBVIOUS
<1>5. S \subseteq {x, y} \cup T \cup {z} \cup W \cup N
  BY DEF Needed, PowersToName
<1> HIDE DEF x, y, z, b2, b4, b5, T, N, S
<1>6. Listed(b1, 2, {x, y}) /\ Listed(b3, 1, {z})
  BY <1>2, ShortLists
<1> HIDE DEF b1, b3
<1>7. Listed(b1 \o b2, 2 + 2, {x, y} \cup T)
  BY <1>3, <1>6, ListsJoined
<1>8. Listed(b1 \o b2 \o b3, 2 + 2 + 1, {x, y} \cup T \cup {z})
  BY <1>6, <1>7, ListsJoined
<1>9. Listed(b1 \o b2 \o b3 \o b4, 2 + 2 + 1 + 2, {x, y} \cup T \cup {z} \cup W)
  BY <1>4, <1>8, ListsJoined
<1>10. Listed(boxes, 2 + 2 + 1 + 2 + 1, {x, y} \cup T \cup {z} \cup W \cup N)
  BY <1>3, <1>9, ListsJoined
<1> HIDE DEF boxes
<1>11. Listed(boxes, 8, S)
  <2> DEFINE A == {x, y} \cup T \cup {z} \cup W \cup N
             n == 2 + 2 + 1 + 2 + 1
  <2>1. n <= 8 /\ 8 \in Nat
    OBVIOUS
  <2> HIDE DEF A, n
  <2>2. Listed(boxes, n, A) /\ S \subseteq A
    BY Zenon, <1>5, <1>10 DEF A, n
  <2> QED
    BY <2>1, <2>2, ListedLess
<1>12. Covers(<<boxes, <<>>>>, S)
  BY <1>11, ListsCover
<1> QED
  BY Zenon, <1>1, <1>12 DEF S, z

LEMMA ExtendCovers ==
  ASSUME NEW u \in Users, NEW a, a.count \in Nat, a.end \in Nat, NEW g, g.count \in Nat,
         NEW d, NEW r, r.end \in Nat, NEW e, NEW W, Listed(WeekBoxes(e), 2, W)
  PROVE  Covers(ExtendLockEndTime(u, a, g, d, r, e).refs,
                Needed(u, a.count, g.count, {SlopeBox(a.end), SlopeBox(r.end)}, W))
<1> DEFINE x == StateBox(u)
           y == PowerBox(u, lastBoxIndex(a.count))
           z == SlopeBox(a.end)
           t == SlopeBox(r.end)
           b1 == <<x, y>>
           b2 == TotalBoxes(g, e)
           b3 == <<z, t>>
           b4 == NextPowerBox(u, a)
           b5 == WeekBoxes(e)
           boxes == b1 \o b2 \o b3 \o b4 \o b5
           T == TotalsToName(g.count)
           N == NextPowers(u, a.count)
           S == Needed(u, a.count, g.count, {z, t}, W)
<1>1. ExtendLockEndTime(u, a, g, d, r, e).refs = Slices(boxes)
  BY Zenon DEF ExtendLockEndTime
<1>2. x \in BoxNames /\ y \in BoxNames /\ z \in BoxNames /\ t \in BoxNames
  BY PowersListed, BoxNamesAre
<1>3. Listed(b2, 2, T) /\ Listed(b4, 1, N)
  BY TotalsListed, NextPowerListed
<1>4. Listed(b5, 2, W)
  OBVIOUS
<1>5. S \subseteq {x, y} \cup T \cup {z, t} \cup N \cup W
  BY DEF Needed, PowersToName
<1> HIDE DEF x, y, z, t, b2, b4, b5, T, N, S
<1>6. Listed(b1, 2, {x, y}) /\ Listed(b3, 2, {z, t})
  BY <1>2, ShortLists
<1> HIDE DEF b1, b3
<1>7. Listed(b1 \o b2, 2 + 2, {x, y} \cup T)
  BY <1>3, <1>6, ListsJoined
<1>8. Listed(b1 \o b2 \o b3, 2 + 2 + 2, {x, y} \cup T \cup {z, t})
  BY <1>6, <1>7, ListsJoined
<1>9. Listed(b1 \o b2 \o b3 \o b4, 2 + 2 + 2 + 1, {x, y} \cup T \cup {z, t} \cup N)
  BY <1>3, <1>8, ListsJoined
<1>10. Listed(boxes, 2 + 2 + 2 + 1 + 2, {x, y} \cup T \cup {z, t} \cup N \cup W)
  BY <1>4, <1>9, ListsJoined
<1> HIDE DEF boxes
<1>11. Listed(boxes, 16, S)
  <2> DEFINE A == {x, y} \cup T \cup {z, t} \cup N \cup W
             n == 2 + 2 + 2 + 1 + 2
  <2>1. n <= 16 /\ 16 \in Nat
    OBVIOUS
  <2> HIDE DEF A, n
  <2>2. Listed(boxes, n, A) /\ S \subseteq A
    BY Zenon, <1>5, <1>10 DEF A, n
  <2> QED
    BY <2>1, <2>2, ListedLess
<1>12. Covers(Slices(boxes), S)
  BY <1>11, SlicesCover
<1> QED
  BY Zenon, <1>1, <1>12 DEF S, z, t

\* The account a lock is made for: none, or the one read.
LEMMA CreateCovers ==
  ASSUME NEW u \in Users, NEW accounts, NEW n \in Nat,
         \/ accounts = {} /\ n = 0
         \/ \E end : accounts = {[end |-> end, count |-> n]},
         NEW g, g.count \in Nat, NEW there, NEW r, r.end \in Nat, NEW e, NEW W,
         Listed(WeekBoxes(e), 2, W)
  PROVE  Covers(CreateLock(u, accounts, g, there, r, e).refs,
                Needed(u, n, g.count, {SlopeBox(r.end)}, W))
<1> DEFINE a == CHOOSE x \in accounts : TRUE
           x == StateBox(u)
           z == SlopeBox(r.end)
           b1 == <<x>>
           b2 == TotalBoxes(g, e)
           b3 == IF accounts = {} THEN <<PowerBox(u, 0)>>
                 ELSE <<PowerBox(u, lastBoxIndex(a.count))>> \o NextPowerBox(u, a)
           b4 == <<z>>
           b5 == WeekBoxes(e)
           boxes == b1 \o b2 \o b3 \o b4 \o b5
           T == TotalsToName(g.count)
           P == PowersToName(u, n)
           S == Needed(u, n, g.count, {z}, W)
<1>1. CreateLock(u, accounts, g, there, r, e).refs = Slices(boxes)
  BY Zenon DEF CreateLock
<1>2. x \in BoxNames /\ z \in BoxNames
  BY BoxNamesAre
<1>3. Listed(b2, 2, T)
  BY TotalsListed
<1>4. Listed(b5, 2, W)
  OBVIOUS
<1>5. S \subseteq {x} \cup T \cup P \cup {z} \cup W
  BY DEF Needed
<1>6. Listed(b3, 1 + 1, P)
  <2>1. CASE accounts = {}
    <3> DEFINE y == PowerBox(u, 0)
    <3>1. n = 0
      BY <2>1
    <3>2. b3 = <<y>> /\ P = {y} /\ y \in BoxNames
      BY <2>1, <3>1, PowersListed
    <3> HIDE DEF b3, P, y
    <3>3. Listed(<<y>>, 1, {y})
      BY <3>2, ShortLists
    <3> DEFINE k == 1 + 1
    <3>4. 1 <= k /\ k \in Nat
      OBVIOUS
    <3> HIDE DEF k
    <3>5. Listed(<<y>>, k, {y})
      BY <3>3, <3>4, ListedLess
    <3> QED
      BY Zenon, <3>2, <3>5 DEF k
  <2>2. CASE accounts # {}
    <3> DEFINE y == PowerBox(u, lastBoxIndex(n))
               N == NextPowers(u, n)
               b == NextPowerBox(u, a)
    <3>1. a.count = n
      <4>1. PICK end : accounts = {[end |-> end, count |-> n]}
        BY <2>2
      <4>2. a \in accounts
        BY <2>2
      <4> HIDE DEF a
      <4> QED
        BY <4>1, <4>2
    <3>2. b3 = <<y>> \o b
      BY Zenon, <2>2, <3>1
    <3>3. P = {y} \cup N
      BY DEF PowersToName
    <3>4. y \in BoxNames
      BY PowersListed
    <3>5. Listed(b, 1, N)
      <4> HIDE DEF a
      <4>1. Listed(NextPowerBox(u, a), 1, NextPowers(u, a.count))
        BY <3>1, NextPowerListed
      <4> QED
        BY Zenon, <3>1, <4>1
    <3> HIDE DEF y, N, b, b3, P
    <3>6. Listed(<<y>>, 1, {y})
      BY <3>4, ShortLists
    <3>7. Listed(<<y>> \o b, 1 + 1, {y} \cup N)
      BY <3>5, <3>6, ListsJoined
    <3> QED
      BY Zenon, <3>2, <3>3, <3>7
  <2> QED
    BY <2>1, <2>2
<1> HIDE DEF x, z, b2, b3, b5, T, P, S
<1>7. Listed(b1, 1, {x}) /\ Listed(b4, 1, {z})
  BY <1>2, ShortLists
<1> HIDE DEF b1, b4
<1>8. Listed(b1 \o b2, 1 + 2, {x} \cup T)
  BY <1>3, <1>7, ListsJoined
<1>9. Listed(b1 \o b2 \o b3, 1 + 2 + (1 + 1), {x} \cup T \cup P)
  BY <1>6, <1>8, ListsJoined
<1>10. Listed(b1 \o b2 \o b3 \o b4, 1 + 2 + (1 + 1) + 1, {x} \cup T \cup P \cup {z})
  BY <1>7, <1>9, ListsJoined
<1>11. Listed(boxes, 1 + 2 + (1 + 1) + 1 + 2, {x} \cup T \cup P \cup {z} \cup W)
  BY <1>4, <1>10, ListsJoined
<1> HIDE DEF boxes
<1>12. Listed(boxes, 16, S)
  <2> DEFINE A == {x} \cup T \cup P \cup {z} \cup W
             m == 1 + 2 + (1 + 1) + 1 + 2
  <2>1. m <= 16 /\ 16 \in Nat
    OBVIOUS
  <2> HIDE DEF A, m
  <2>2. Listed(boxes, m, A) /\ S \subseteq A
    BY Zenon, <1>5, <1>11 DEF A, m
  <2> QED
    BY <2>1, <2>2, ListedLess
<1>13. Covers(Slices(boxes), S)
  BY <1>12, SlicesCover
<1> QED
  BY Zenon, <1>1, <1>13 DEF S, z

LEMMA WithdrawCovers ==
  ASSUME NEW u \in Users, NEW a, a.count \in Nat
  PROVE  Covers(Withdraw(u, a).refs, {StateBox(u)} \cup PowersToName(u, a.count))
<1> DEFINE x == StateBox(u)
           y == PowerBox(u, lastBoxIndex(a.count))
           z == PowerBox(u, lastBoxIndex(a.count) + 1)
           boxes == <<x, y, z>>
           S == {x} \cup PowersToName(u, a.count)
<1>1. Withdraw(u, a).refs = <<boxes>>
  BY DEF Withdraw
<1>2. x \in BoxNames /\ y \in BoxNames /\ z \in BoxNames
  BY PowersListed
<1>3. S \subseteq {x, y} \cup {z}
  BY DEF PowersToName, NextPowers
<1>4. boxes \in Seq(BoxNames) /\ Len(boxes) = 3 /\ DOMAIN boxes = 1 .. 3
      /\ boxes[1] = x /\ boxes[2] = y /\ boxes[3] = z
  BY <1>2
<1> HIDE DEF x, y, z, boxes, S
<1>5. Has(x, boxes) /\ Has(y, boxes) /\ Has(z, boxes)
  BY <1>4 DEF Has
<1>6. \A b \in S : Has(b, boxes)
  BY Zenon, <1>3, <1>5
<1>7. Listed(boxes, 8, S)
  <2>1. Len(boxes) <= 8 /\ 8 \in Nat
    BY <1>4
  <2> QED
    BY Zenon, <1>4, <1>6, <2>1 DEF Listed
<1>8. Covers(<<boxes>>, S)
  BY <1>7, ListsCover
<1> QED
  BY Zenon, <1>1, <1>8 DEF S, x
-----------------------------------------------------------------------------
(* What a call touches and makes.                                           *)

FreeType(n) == freeSpaceCount(n) \in 0 .. ArrayLen - 1 /\ lastBoxIndex(n) \in Nat
LEMMA FreeSpace ==
  ASSUME NEW n \in Nat
  PROVE  FreeType(n)
<1>1. ArrayLen \in Nat \ {0} /\ ArrayLen >= 4
  BY SizeAssumption
<1>2. CASE n = 0
  <2>1. 1 \in 1 .. ArrayLen
    BY <1>1
  <2>2. lastBoxIndex(0) = 0 /\ freeSpaceCount(0) = 0
    BY <2>1, FirstRows
  <2> QED
    BY <1>1, <1>2, <2>2 DEF FreeType
<1>3. CASE n # 0
  <2>1. n \in Nat \ {0} /\ 0 \in 0 .. ArrayLen
    BY <1>1, <1>3
  <2> QED
    BY <2>1, BoxOfAdded DEF FreeType
<1> QED
  BY <1>2, <1>3

\* A row of power more is in the boxes named.
LEMMA PowersTouched ==
  ASSUME NEW u, NEW n \in Nat
  PROVE  {PowerBox(u, i) : i \in RowBoxes(n, n + 1)} \subseteq PowersToName(u, n)
<1>1. 1 \in 1 .. ArrayLen
  BY SizeAssumption
<1>2. \A i \in RowBoxes(n, n + 1) :
        \/ i = lastBoxIndex(n)
        \/ n # 0 /\ 1 > freeSpaceCount(n) /\ i = lastBoxIndex(n) + 1
  BY <1>1, RowsMade
<1>3. 1 > freeSpaceCount(n) => freeSpaceCount(n) = 0
  <2>1. ArrayLen \in Nat /\ freeSpaceCount(n) \in 0 .. ArrayLen - 1
    BY FreeSpace, SizeAssumption DEF FreeType
  <2> QED
    BY <2>1
<1> SUFFICES ASSUME NEW i \in RowBoxes(n, n + 1) PROVE PowerBox(u, i) \in PowersToName(u, n)
  OBVIOUS
<1>4. CASE i = lastBoxIndex(n)
  BY <1>4 DEF PowersToName
<1>5. CASE n # 0 /\ 1 > freeSpaceCount(n) /\ i = lastBoxIndex(n) + 1
  <2>1. NextPowers(u, n) = {PowerBox(u, lastBoxIndex(n) + 1)}
    BY <1>3, <1>5 DEF NextPowers
  <2> QED
    BY <1>5, <2>1 DEF PowersToName
<1> QED
  BY Zenon, <1>2, <1>4, <1>5

\* So are rows of total power, as many as a box takes.
LEMMA TotalsTouched ==
  ASSUME NEW n \in Nat \ {0}, NEW k \in 1 .. ArrayLen, NEW v, NEW w,
         Len(v.total) \in n .. n + k, Len(w.total) = n + k
  PROVE  TotalBoxesTouched(v, w) \subseteq TotalsToName(n)
<1> DEFINE l == Len(v.total)
           m == n + k
<1>1. \A i \in RowBoxes(n, n + k) : i = lastBoxIndex(n) \/ i = lastBoxIndex(n) + 1
  BY RowsMade
<1>2. l \in Nat /\ m \in Nat /\ n <= l
  BY SizeAssumption
<1>3. TotalBoxesTouched(v, w) = {TotalBox(i) : i \in RowBoxes(l, m)}
  BY DEF TotalBoxesTouched
<1>4. RowBoxes(l, m) \subseteq RowBoxes(n, m)
  <2> HIDE DEF l, m
  <2>1. AtLeast0(n - 1) = n - 1 /\ AtLeast0(l - 1) = l - 1
    BY <1>2 DEF AtLeast0
  <2>2. l - 1 .. m - 1 \subseteq n - 1 .. m - 1
    BY <1>2
  <2> QED
    BY <2>1, <2>2 DEF RowBoxes
<1> HIDE DEF l
<1>5. \A i \in RowBoxes(l, m) : i = lastBoxIndex(n) \/ i = lastBoxIndex(n) + 1
  BY Zenon, <1>1, <1>4 DEF m
<1> HIDE DEF m
<1> QED
  BY <1>3, <1>5 DEF TotalsToName

WeekSlopes(last) == {SlopeBox(t) : t \in Weeks(last, now)}
EndSlopes(acc, call) == {SlopeBox(t) : t \in {acc.end, EndAfter(acc, call)} \ {0}}
LEMMA CallTouches ==
  ASSUME now \in Nat, NEW v, IsVault(v, now), NEW u \in Users, NEW call, CallFits(call),
         NEW w, w = After(v, u, call)
  PROVE  /\ call.op = "withdraw" =>
              Touched(v, w, u, call)
                \subseteq {StateBox(u)} \cup PowersToName(u, Len(v.account[u].powers))
         /\ call.op # "withdraw" =>
              Touched(v, w, u, call)
                \subseteq {StateBox(u)} \cup PowersToName(u, Len(v.account[u].powers))
                            \cup TotalBoxesTouched(v, w)
                            \cup EndSlopes(v.account[u], call) \cup WeekSlopes(LastTime(v.total))
<1> DEFINE n == Len(v.account[u].powers)
           m == Len(w.account[u].powers)
           P == PowersToName(u, n)
           Q == {PowerBox(u, i) : i \in RowBoxes(n, m)}
           T == TotalBoxesTouched(v, w)
           W == WeekSlopes(LastTime(v.total))
           E == EndSlopes(v.account[u], call)
           F == {SlopeBox(t) : t \in {v.account[u].end, w.account[u].end} \ {0}}
<1>1. IsCall(call)
  BY DEF CallFits
<1>2. n \in Nat /\ m = n + 1 /\ w.account[u].end = EndAfter(v.account[u], call)
  BY <1>1, AfterAccounts
<1>3. F = E
  BY <1>2 DEF EndSlopes
<1>4. Touched(v, w, u, call) =
        {StateBox(u)} \cup Q \cup (IF call.op = "withdraw" THEN {} ELSE T \cup W \cup F)
  BY Zenon DEF Touched, WeekSlopes
<1> HIDE DEF E, F, T, W
<1>5. Q \subseteq P
  <2> HIDE DEF n, m
  <2>1. {PowerBox(u, i) : i \in RowBoxes(n, n + 1)} \subseteq PowersToName(u, n)
    BY <1>2, PowersTouched
  <2> QED
    BY Zenon, <1>2, <2>1
<1> HIDE DEF P, Q
<1>6. CASE call.op = "withdraw"
  <2>1. Touched(v, w, u, call) \subseteq {StateBox(u)} \cup P
    BY <1>4, <1>5, <1>6
  <2> QED
    BY Zenon, <1>6, <2>1 DEF P
<1>7. CASE call.op # "withdraw"
  <2>1. Touched(v, w, u, call) = {StateBox(u)} \cup Q \cup (T \cup W \cup F)
    BY Zenon, <1>4, <1>7
  <2>2. Touched(v, w, u, call) \subseteq {StateBox(u)} \cup P \cup T \cup E \cup W
    BY <1>3, <1>5, <2>1
  <2> QED
    BY Zenon, <1>7, <2>2 DEF P, T, E, W
<1> QED
  BY Zenon, <1>6, <1>7

\* What a change of an account costs: for the account and a row box of each
\* kind, if they are new, and the box of a slope change, if one is made.
RowsMore(v, w, u, n, j, m, k) ==
  /\ OneChanged(v, w, u) /\ Len(v.account[u].powers) = n /\ Len(w.account[u].powers) = n + j
  /\ Len(v.total) = m /\ Len(w.total) = m + k
NewOnes(v, u, n, j, m, k, p1, p2, p3) ==
  /\ p1 <=> ~ v.account[u].exists
  /\ p2 <=> j > freeSpaceCount(n)
  /\ p3 <=> k > freeSpaceCount(m)
SlopeMade(v, w, made, t) == NewSlopes(v.slopeDelta, w.slopeDelta) = Maybe(made, SlopeBox(t))
ChangeIs(v, w, u, n, j, m, k, p1, p2, p3, made, t) ==
  /\ u \in Users /\ n \in Nat /\ j \in 1 .. ArrayLen /\ m \in Nat /\ k \in 0 .. ArrayLen
  /\ {p1, p2, p3, made} \subseteq BOOLEAN
  /\ RowsMore(v, w, u, n, j, m, k) /\ NewOnes(v, u, n, j, m, k, p1, p2, p3)
  /\ SlopeMade(v, w, made, t)
LEMMA ChangeCost ==
  ASSUME NEW v, NEW w, NEW u, NEW n, NEW j, NEW m, NEW k, NEW p1, NEW p2, NEW p3, NEW made, NEW t,
         ChangeIs(v, w, u, n, j, m, k, p1, p2, p3, made, t)
  PROVE  CostOf(Boxes(w) \ Boxes(v)) = CostSum(p1, p2, p3, made)
<1>1. /\ u \in Users /\ n \in Nat /\ j \in 1 .. ArrayLen /\ m \in Nat /\ k \in 0 .. ArrayLen
       /\ RowsMore(v, w, u, n, j, m, k) /\ NewOnes(v, u, n, j, m, k, p1, p2, p3)
       /\ SlopeMade(v, w, made, t)
  BY Zenon DEF ChangeIs
<1>2. p1 \in BOOLEAN /\ p2 \in BOOLEAN /\ p3 \in BOOLEAN /\ made \in BOOLEAN
  BY DEF ChangeIs
<1> DEFINE S == NewState(v, u)
           P == NewPowers(u, Len(v.account[u].powers), Len(w.account[u].powers))
           T == NewTotals(Len(v.total), Len(w.total))
           D == NewSlopes(v.slopeDelta, w.slopeDelta)
           s == StateBox(u)
           p == PowerBox(u, NewBox(n))
           q == TotalBox(NewBox(m))
           d == SlopeBox(t)
<1>3. Boxes(w) \ Boxes(v) = S \cup P \cup T \cup D
  BY <1>1, NewBoxes DEF OneChanged, RowsMore
<1>4. /\ Len(v.account[u].powers) = n /\ Len(w.account[u].powers) = n + j
      /\ Len(v.total) = m /\ Len(w.total) = m + k
  BY <1>1 DEF RowsMore
<1>5. (p1 <=> ~ v.account[u].exists) /\ (p2 <=> j > freeSpaceCount(n))
       /\ (p3 <=> k > freeSpaceCount(m))
  BY <1>1 DEF NewOnes
<1>6. S = Maybe(p1, s)
  BY <1>5 DEF NewState, Maybe
<1>7. P = Maybe(p2, p)
  <2>1. Made(n, n + j) = Maybe(p2, NewBox(n))
    <3>1. Made(n, n + j) = Maybe(j > freeSpaceCount(n), NewBox(n))
      BY <1>1, RowsMade
    <3> QED
      BY <1>5, <3>1 DEF Maybe
  <2>2. P = {PowerBox(u, i) : i \in Maybe(p2, NewBox(n))}
    BY Zenon, <1>4, <2>1 DEF NewPowers
  <2> HIDE DEF P
  <2> QED
    BY <2>2 DEF Maybe
<1>8. T = Maybe(p3, q)
  <2>1. Made(m, m + k) = Maybe(p3, NewBox(m))
    <3>1. CASE k = 0
      <4>1. m + k = m /\ ~ (0 > freeSpaceCount(m))
        <5>1. ArrayLen \in Nat /\ freeSpaceCount(m) \in 0 .. ArrayLen - 1
          BY <1>1, FreeSpace, SizeAssumption DEF FreeType
        <5> QED
          BY <1>1, <3>1, <5>1
      <4>2. Made(m, m + k) = {}
        BY <4>1 DEF Made
      <4>3. ~ p3
        BY <1>5, <3>1, <4>1
      <4> QED
        BY Zenon, <4>2, <4>3 DEF Maybe
    <3>2. CASE k # 0
      <4>1. k \in 1 .. ArrayLen
        BY <1>1, <3>2, SizeAssumption
      <4>2. Made(m, m + k) = Maybe(k > freeSpaceCount(m), NewBox(m))
        BY <1>1, <4>1, RowsMade
      <4> QED
        BY <1>5, <4>2 DEF Maybe
    <3> QED
      BY <3>1, <3>2
  <2>2. T = {TotalBox(i) : i \in Maybe(p3, NewBox(m))}
    BY Zenon, <1>4, <2>1 DEF NewTotals
  <2> HIDE DEF T
  <2> QED
    BY <2>2 DEF Maybe
<1>9. OfKinds(s, p, q, d)
  BY Zenon, BoxKinds DEF OfKinds
<1> HIDE DEF S, P, T, D, s, p, q, d
<1>10. Boxes(w) \ Boxes(v) = FourAtMost(p1, p2, p3, made, s, p, q, d)
  <2>1. D = Maybe(made, d)
    BY Zenon, <1>1 DEF D, d, SlopeMade
  <2>2. Boxes(w) \ Boxes(v) = Maybe(p1, s) \cup Maybe(p2, p) \cup Maybe(p3, q) \cup Maybe(made, d)
    BY Zenon, <1>3, <1>6, <1>7, <1>8, <2>1
  <2> QED
    BY Zenon, <2>2 DEF FourAtMost
<1>11. CostOf(FourAtMost(p1, p2, p3, made, s, p, q, d)) = CostSum(p1, p2, p3, made)
  BY <1>9, <1>2, CostSplit
<1> QED
  BY Zenon, <1>10, <1>11

\* A group names what it touches.
LEMMA ReachedIs ==
  ASSUME NEW g, NEW S, Covers(g.refs, S), TouchedBy(g) \subseteq S
  PROVE  Reached(g)
<1>1. \A k \in DOMAIN g.refs : Len(g.refs[k]) <= MaxRefs
  BY Zenon DEF Covers
<1>2. \A b \in S : b \in Named(g)
  BY Zenon, NamedIs DEF Covers
<1>3. TouchedBy(g) \subseteq Named(g)
  BY Zenon, <1>2
<1> QED
  BY Zenon, <1>1, <1>3 DEF Reached

\* The vault holds rows, of the account as of the total.
LEMMA Lengths ==
  ASSUME VInv, NEW u \in Users
  PROVE  /\ Len(total) \in Nat \ {0} /\ Len(account[u].powers) \in Nat
         /\ LastTime(total) \in Nat /\ LastTime(total) <= now /\ now \in Nat
         /\ account[u].exists \in BOOLEAN
         /\ (account[u].exists <=> Len(account[u].powers) # 0)
         /\ account[u].end \in Nat /\ account[u].amount \in Nat
<1>1. now \in Nat /\ Totals(total, now) /\ IsAccount(account[u], now)
  BY ChainNow
<1>2. total \in Seq(Rows) /\ total # <<>> /\ InOrder(total, now)
  BY <1>1 DEF Totals
<1>3. Len(total) \in Nat \ {0}
  BY <1>2
<1>4. total[Len(total)] \in Rows /\ Len(total) \in DOMAIN total
  BY <1>2, <1>3
<1>5. LastTime(total) \in Nat /\ LastTime(total) <= now
  <2>1. LastTime(total) \in Nat
    BY <1>4 DEF LastTime, Rows
  <2>2. Len(total) <= Len(total)
    BY <1>3
  <2>3. LastTime(total) <= now
    BY <1>2, <1>4, <2>2 DEF InOrder, LastTime
  <2> QED
    BY <2>1, <2>3
<1>6. /\ account[u].end \in Nat /\ account[u].amount \in Nat /\ account[u].powers \in Seq(Rows)
      /\ account[u].exists = (account[u].powers # <<>>)
  BY <1>1 DEF IsAccount
<1> DEFINE p == account[u].powers
<1>7. Len(p) \in Nat /\ (p # <<>> <=> Len(p) # 0)
  <2>1. p \in Seq(Rows)
    BY <1>6
  <2> HIDE DEF p
  <2> QED
    BY <2>1
<1> QED
  BY <1>1, <1>3, <1>5, <1>6, <1>7

\* A group of one call.
Single(g, u, call) == g.user = u /\ g.calls = <<call>>
LEMMA SingleIs ==
  ASSUME NEW g, NEW u, NEW call, Single(g, u, call), NEW w, w = After(Vault, u, call)
  PROVE  /\ Outcome(g) = w /\ Created(g) = Boxes(w) \ Boxes(Vault)
         /\ TouchedBy(g) = Touched(Vault, w, u, call)
         /\ (Legally(g) <=> Legal(Vault, u, call)) /\ Len(g.calls) = 1 /\ g.calls[1] = call
<1>1. g.user = u /\ g.calls = <<call>>
  BY DEF Single
<1>2. Len(g.calls) = 1 /\ g.calls[1] = call
  BY <1>1
<1>3. Middle(g) = w
  BY Zenon, <1>1, <1>2 DEF Middle
<1>4. Outcome(g) = w
  BY Zenon, <1>2, <1>3 DEF Outcome
<1>5. Created(g) = Boxes(w) \ Boxes(Vault)
  BY Zenon, <1>4 DEF Created
<1>6. TouchedBy(g) = Touched(Vault, w, u, call)
  <2>1. TouchedBy(g) = Touched(Vault, Middle(g), g.user, g.calls[1]) \cup {}
    BY Zenon, <1>2 DEF TouchedBy
  <2>2. TouchedBy(g) = Touched(Vault, w, u, call) \cup {}
    BY Zenon, <1>1, <1>2, <1>3, <2>1
  <2> HIDE DEF Touched
  <2> QED
    BY <2>2
<1>7. Legally(g) <=> Legal(Vault, u, call)
  <2>1. ~ (Len(g.calls) = 2)
    BY <1>2
  <2> QED
    BY Zenon, <1>1, <1>2, <2>1 DEF Legally
<1> QED
  BY Zenon, <1>2, <1>4, <1>5, <1>6, <1>7

\* The rows a call adds to the total.
RowsAdded(call) == IF call.op = "withdraw" THEN 0 ELSE CheckWeeks(LastTime(total)) + 1

LEMMA AfterLengths ==
  ASSUME VInv, NEW u \in Users, NEW call, CallFits(call), NEW w, w = After(Vault, u, call)
  PROVE  /\ IsVault(w, now) /\ OneChanged(Vault, w, u)
         /\ Len(w.account[u].powers) = Len(account[u].powers) + 1
         /\ Len(w.total) = Len(total) + RowsAdded(call)
         /\ call.op # "withdraw" => LastTime(w.total) = now
         /\ w.account[u].amount = AmountAfter(account[u], call)
         /\ w.account[u].end = EndAfter(account[u], call)
<1> DEFINE v == Vault
<1>1. /\ IsVault(v, now) /\ now \in Nat /\ v.total = total /\ v.account = account
  BY VaultNow
<1>2. IsCall(call)
  BY DEF CallFits
<1> HIDE DEF v
<1>3. w = After(v, u, call)
  BY DEF v
<1>4. IsVault(w, now) /\ OneChanged(v, w, u)
  BY <1>1, <1>3, CallChanges
<1>5. /\ Len(w.account[u].powers) = Len(v.account[u].powers) + 1
      /\ w.account[u].amount = AmountAfter(v.account[u], call)
      /\ w.account[u].end = EndAfter(v.account[u], call)
  BY <1>1, <1>2, <1>3, AfterAccounts
<1>6. /\ call.op = "withdraw" => w.total = v.total
      /\ call.op # "withdraw" =>
           /\ Len(w.total) = Len(v.total) + (CheckWeeks(LastTime(v.total)) + 1)
           /\ LastTime(w.total) = now
  BY <1>1, <1>2, <1>3, AfterTotal
<1>7. Len(w.total) = Len(total) + RowsAdded(call)
  <2>1. CASE call.op = "withdraw"
    <3>1. w.total = total /\ RowsAdded(call) = 0
      BY Zenon, <1>1, <1>6, <2>1 DEF RowsAdded
    <3>2. Len(total) \in Nat
      BY Lengths
    <3> QED
      BY <3>1, <3>2
  <2>2. CASE call.op # "withdraw"
    BY Zenon, <1>1, <1>6, <2>2 DEF RowsAdded
  <2> QED
    BY <2>1, <2>2
<1> QED
  BY Zenon, <1>1, <1>4, <1>5, <1>6, <1>7 DEF v

\* What a call by itself creates, and what it touches.
SingleIn(u, call, w, n, m, k, p1, p2, p3, made, t) ==
  /\ u \in Users /\ CallFits(call) /\ w = After(Vault, u, call)
  /\ n = Len(account[u].powers) /\ m = Len(total) /\ k = RowsAdded(call) /\ k \in 0 .. 3
  /\ {p1, p2, p3, made} \subseteq BOOLEAN
  /\ NewOnes(Vault, u, n, 1, m, k, p1, p2, p3) /\ SlopeMade(Vault, w, made, t)
LEMMA SingleCost ==
  ASSUME VInv, NEW u, NEW call, NEW w, NEW n, NEW m, NEW k, NEW p1, NEW p2, NEW p3, NEW made, NEW t,
         SingleIn(u, call, w, n, m, k, p1, p2, p3, made, t)
  PROVE  CostOf(Boxes(w) \ Boxes(Vault)) = CostSum(p1, p2, p3, made)
<1> DEFINE v == Vault
<1>1. v.total = total /\ v.account = account
  BY VaultNow
<1>2. /\ u \in Users /\ CallFits(call) /\ w = After(Vault, u, call)
      /\ n = Len(account[u].powers) /\ m = Len(total) /\ k = RowsAdded(call) /\ k \in 0 .. 3
  BY Zenon DEF SingleIn
<1>3. {p1, p2, p3, made} \subseteq BOOLEAN
  BY Zenon DEF SingleIn
<1>4. OneChanged(v, w, u) /\ Len(w.account[u].powers) = n + 1 /\ Len(w.total) = m + k
  BY <1>2, AfterLengths
<1>5. n \in Nat /\ m \in Nat
  BY <1>2, Lengths
<1>6. k \in 0 .. ArrayLen /\ 1 \in 1 .. ArrayLen
  BY <1>2, SizeAssumption
<1>7. NewOnes(v, u, n, 1, m, k, p1, p2, p3) /\ SlopeMade(v, w, made, t)
  BY Zenon DEF SingleIn
<1> HIDE DEF v
<1>8. RowsMore(v, w, u, n, 1, m, k)
  BY <1>1, <1>2, <1>4 DEF RowsMore
<1>9. ChangeIs(v, w, u, n, 1, m, k, p1, p2, p3, made, t)
  BY Zenon, <1>2, <1>3, <1>5, <1>6, <1>7, <1>8 DEF ChangeIs
<1>10. CostOf(Boxes(w) \ Boxes(v)) = CostSum(p1, p2, p3, made)
  BY <1>9, ChangeCost
<1> QED
  BY <1>10 DEF v

LEMMA SingleTouches ==
  ASSUME VInv, NEW u \in Users, NEW call, CallFits(call), call.op # "withdraw",
         NEW w, w = After(Vault, u, call), RowsAdded(call) \in 1 .. 3
  PROVE  Touched(Vault, w, u, call)
           \subseteq Needed(u, Len(account[u].powers), Len(total), EndSlopes(account[u], call),
                            WeekSlopes(LastTime(total)))
<1> DEFINE v == Vault
           m == Len(total)
           k == RowsAdded(call)
           P == PowersToName(u, Len(account[u].powers))
           E == EndSlopes(account[u], call)
           W == WeekSlopes(LastTime(total))
           T == TotalBoxesTouched(v, w)
<1>1. IsVault(v, now) /\ now \in Nat /\ v.total = total /\ v.account = account
  BY VaultNow
<1>2. Len(w.total) = m + k
  BY AfterLengths
<1>3. m \in Nat \ {0} /\ k \in 1 .. ArrayLen
  BY Lengths, SizeAssumption
<1> HIDE DEF v, m, k
<1>4. T \subseteq TotalsToName(m)
  <2>1. Len(v.total) = m
    BY Zenon, <1>1 DEF m
  <2>2. Len(v.total) \in m .. m + k
    BY <1>3, <2>1
  <2> QED
    BY <1>2, <1>3, <2>2, TotalsTouched
<1>5. Touched(v, w, u, call)
        \subseteq {StateBox(u)} \cup PowersToName(u, Len(v.account[u].powers))
                    \cup TotalBoxesTouched(v, w)
                    \cup EndSlopes(v.account[u], call) \cup WeekSlopes(LastTime(v.total))
  <2>1. w = After(v, u, call)
    BY DEF v
  <2> QED
    BY <1>1, <2>1, CallTouches
<1>6. Touched(v, w, u, call) \subseteq {StateBox(u)} \cup P \cup T \cup E \cup W
  BY Zenon, <1>1, <1>5
<1> HIDE DEF P, E, W, T
<1>7. Touched(v, w, u, call) \subseteq {StateBox(u)} \cup P \cup TotalsToName(m) \cup E \cup W
  BY <1>4, <1>6
<1> QED
  BY Zenon, <1>7 DEF Needed, P, E, W, v, m
-----------------------------------------------------------------------------
(* Groups built on states that still hold.                                  *)

\* What was read still holds, and the weeks begun were foretold.
StillHolds(u, s) ==
  s.account = StateOf(account[u]) /\ s.global.count = Len(total) /\ s.global.last = LastTime(total)
Foreseen(u, s, local) ==
  /\ StillHolds(u, s) /\ Timely(s, local, now)
  /\ WeeksKnown(LastTime(total)) /\ AllBegun(LastTime(total), local)

LEMMA QuietSeen ==
  ASSUME VInv, AllKnow, NEW c \in Calls, pc[c] = "built", Undisturbed(c), WeeksForetold(c)
  PROVE  /\ seen[c].account = StateOf(account[Owner[c]])
         /\ req[c].op # "withdraw" =>
              /\ StillHolds(Owner[c], seen[c]) /\ WeeksKnown(LastTime(total))
              /\ AllBegun(LastTime(total), group[c].built)
              /\ Len(total) = seen[c].global.count
<1> DEFINE u == Owner[c]
           r == req[c]
           s == seen[c]
<1>1. KnowsIs(u, pc[c], r, s, group[c], account[u], total, slopeDelta, now)
  BY DEF AllKnow, Knows
<1>2. BuiltFrom(u, r, s, group[c], total, slopeDelta, now)
  BY BuiltFitting
<1>3. r.op \in {"create", "increase", "extend", "both", "withdraw"}
  BY Zenon, <1>2 DEF BuiltFrom
<1>4. "built" \in LocksAre /\ "built" \in LocksAre \ {"account"}
  BY DEF LocksAre
<1>5. s.account = StateOf(account[u])
  <2>1. r.op # "totalPower"
    BY <1>3
  <2>2. KnowsAccount(s, account[u])
    BY Zenon, <1>1, <1>4, <2>1 DEF KnowsIs
  <2> QED
    BY Zenon, <2>2 DEF KnowsAccount, Undisturbed
<1>6. ASSUME r.op # "withdraw"
      PROVE  /\ StillHolds(u, s) /\ WeeksKnown(LastTime(total))
             /\ AllBegun(LastTime(total), group[c].built)
             /\ Len(total) = s.global.count
  <2>1. r.op \notin {"withdraw", "tinyPower", "totalPower"}
    BY <1>3, <1>6
  <2>2. KnowsTotal(s, total)
    BY Zenon, <1>1, <1>4, <2>1 DEF KnowsIs
  <2>3. s.global.count = Len(total)
    BY Zenon, <1>6 DEF Undisturbed
  <2>4. s.global.last = LastTime(total)
    BY Zenon, <2>2, <2>3 DEF KnowsTotal, LastTime
  <2>5. /\ s.global.last % WEEK = 0 \/ Weeks(s.global.last, now) = {}
        /\ now = group[c].built \/ Weeks(s.global.last, now) \subseteq 0 .. group[c].built - 1
        /\ Cardinality(Weeks(s.global.last, now)) <= 2
    BY Zenon, <1>6 DEF WeeksForetold
  <2> QED
    BY Zenon, <1>5, <2>3, <2>4, <2>5 DEF StillHolds, WeeksKnown, AllBegun
<1> QED
  BY Zenon, <1>5, <1>6

\* The account read is the one there is.
LEMMA AccountHeld ==
  ASSUME VInv, NEW u \in Users, NEW s, s.account = StateOf(account[u])
  PROVE  /\ account[u].exists \/ s.account # {} =>
              /\ s.account = {ReadAccount(s)}
              /\ ReadAccount(s) = [end |-> account[u].end, count |-> Len(account[u].powers)]
         /\ s.account # {} <=> account[u].exists
         /\ s.account = {} => Len(account[u].powers) = 0
<1> DEFINE x == [end |-> account[u].end, count |-> Len(account[u].powers)]
<1>1. account[u].exists \in BOOLEAN /\ (account[u].exists <=> Len(account[u].powers) # 0)
  BY Lengths
<1>2. s.account = IF account[u].exists THEN {x} ELSE {}
  BY Zenon DEF StateOf
<1> HIDE DEF x
<1>3. CASE account[u].exists
  <2>1. s.account = {x} /\ s.account # {}
    BY <1>2, <1>3
  <2>2. (CHOOSE y \in {x} : TRUE) = x
    OBVIOUS
  <2>3. ReadAccount(s) = x
    BY Zenon, <2>1, <2>2 DEF ReadAccount
  <2> QED
    BY Zenon, <1>3, <2>1, <2>3 DEF x
<1>4. CASE ~ account[u].exists
  BY <1>1, <1>2, <1>4
<1> QED
  BY Zenon, <1>1, <1>3, <1>4

\* What is paid for a row of power, and for those of total power.
LEMMA PowerPaid ==
  ASSUME NEW s, NEW n \in Nat, s.count = n
  PROVE  PowerCost(s) = IfSo(1 > freeSpaceCount(n), Cost["power"])
<1>1. freeSpaceCount(n) \in 0 .. ArrayLen - 1 /\ ArrayLen \in Nat
  BY FreeSpace, SizeAssumption DEF FreeType
<1>2. freeSpaceCount(n) = 0 <=> 1 > freeSpaceCount(n)
  BY <1>1
<1> QED
  BY <1>2 DEF PowerCost, IfSo

\* The weeks foretold are the rows that will be made.
ForetoldFor(s, e) ==
  /\ Len(e) \in 1 .. 3 /\ Len(e) = CheckWeeks(LastTime(total)) + 1
  /\ Listed(WeekBoxes(e), 2, WeekSlopes(LastTime(total)))
LEMMA WeeksSeen ==
  ASSUME VInv, NEW u \in Users, NEW s, NEW local, Foreseen(u, s, local)
  PROVE  ForetoldFor(s, Foretold(s, local))
<1> DEFINE last == LastTime(total)
           e == Foretold(s, local)
           W == WeekSlopes(last)
<1>1. now \in Nat /\ last \in Nat
  BY Lengths
<1>2. s.global.last = last /\ Timely(s, local, now) /\ WeeksKnown(last) /\ AllBegun(last, local)
  BY Zenon DEF Foreseen, StillHolds
<1>3. local \in Nat /\ last <= local /\ local <= now
  BY <1>2 DEF Timely
<1>4. e = getNewTotalPowerTimestamps(last, local)
  BY Zenon, <1>2 DEF Foretold
<1> HIDE DEF last, e
<1> DEFINE b == WeekBoxes(e)
<1>5. /\ b \in Seq(BoxNames) /\ Len(b) <= 2 /\ Len(e) \in 1 .. 3 /\ Len(e) = CheckWeeks(last) + 1
      /\ \A t \in Weeks(last, now) : Has(SlopeBox(t), b)
  BY <1>1, <1>2, <1>3, <1>4, WeeksReached
<1> HIDE DEF b
<1>6. \A x \in W : Has(x, b)
  BY Zenon, <1>5 DEF WeekSlopes
<1>7. 2 \in Nat
  OBVIOUS
<1>8. Listed(b, 2, W)
  BY Zenon, <1>5, <1>6, <1>7 DEF Listed
<1> QED
  BY Zenon, <1>5, <1>8 DEF ForetoldFor, b, last, e
-----------------------------------------------------------------------------
(* A group of one call that reaches and pays for what it makes.             *)

\* A group does what it is for: it reaches what it touches, pays for what it
\* makes and, if it is of one call, not more than the box of a slope change.
Extra(call) == {0} \cup (IF call.end \in DOMAIN slopeDelta THEN {Cost["sc"]} ELSE {})
Right(g) ==
  /\ Reached(g) /\ CostOf(Created(g)) <= g.pay
  /\ Len(g.calls) = 1 => g.pay - CostOf(Created(g)) \in Extra(g.calls[1])

LEMMA CostSumType ==
  ASSUME NEW p1, NEW p2, NEW p3, NEW p4
  PROVE  CostSum(p1, p2, p3, p4) \in Nat
<1>1. \A p, n : n \in Nat => IfSo(p, n) \in Nat
  BY DEF IfSo
<1>2. /\ IfSo(p1, Cost["state"]) \in Nat /\ IfSo(p2, Cost["power"]) \in Nat
      /\ IfSo(p3, Cost["tp"]) \in Nat /\ IfSo(p4, Cost["sc"]) \in Nat
  BY Zenon, <1>1, CostsAre
<1> QED
  BY <1>2 DEF CostSum

PaysSo(g, call, p1, p2, p3, made) ==
  \E x \in Extra(call) : g.pay = CostSum(p1, p2, p3, made) + x
NamesSo(g, u, n, m, call) ==
  IF call.op = "withdraw" THEN Covers(g.refs, {StateBox(u)} \cup PowersToName(u, n))
  ELSE \E E : /\ EndSlopes(account[u], call) \subseteq E
              /\ Covers(g.refs, Needed(u, n, m, E, WeekSlopes(LastTime(total))))

LEMMA SingleReached ==
  ASSUME VInv, NEW u \in Users, NEW call, CallFits(call), NEW g, Single(g, u, call),
         call.op # "withdraw" => RowsAdded(call) \in 1 .. 3,
         NamesSo(g, u, Len(account[u].powers), Len(total), call)
  PROVE  Reached(g)
<1> DEFINE v == Vault
           w == After(v, u, call)
           n == Len(account[u].powers)
           m == Len(total)
           W == WeekSlopes(LastTime(total))
           D == EndSlopes(account[u], call)
<1>1. TouchedBy(g) = Touched(v, w, u, call)
  BY SingleIs
<1>2. CASE call.op = "withdraw"
  <2> DEFINE S == {StateBox(u)} \cup PowersToName(u, n)
  <2>1. Covers(g.refs, S)
    BY Zenon, <1>2 DEF NamesSo
  <2>2. IsVault(v, now) /\ now \in Nat /\ v.account = account
    BY VaultNow
  <2> HIDE DEF v
  <2>3. w = After(v, u, call)
    OBVIOUS
  <2> HIDE DEF w
  <2>4. Touched(v, w, u, call) \subseteq {StateBox(u)} \cup PowersToName(u, Len(v.account[u].powers))
    BY <1>2, <2>2, <2>3, CallTouches
  <2>5. Touched(v, w, u, call) \subseteq S
    BY Zenon, <2>2, <2>4
  <2> HIDE DEF S
  <2> QED
    BY Zenon, <1>1, <2>1, <2>5, ReachedIs
<1>3. CASE call.op # "withdraw"
  <2>1. PICK E : D \subseteq E /\ Covers(g.refs, Needed(u, n, m, E, W))
    BY Zenon, <1>3 DEF NamesSo
  <2>2. Touched(v, w, u, call) \subseteq Needed(u, n, m, D, W)
    BY <1>3, SingleTouches
  <2>3. Needed(u, n, m, D, W) \subseteq Needed(u, n, m, E, W)
    <3> HIDE DEF D, W, n, m
    <3> QED
      BY <2>1 DEF Needed
  <2> DEFINE S == Needed(u, n, m, E, W)
  <2>4. Covers(g.refs, S)
    BY Zenon, <2>1
  <2>5. TouchedBy(g) \subseteq S
    BY Zenon, <1>1, <2>2, <2>3
  <2> HIDE DEF S
  <2> QED
    BY Zenon, <2>4, <2>5, ReachedIs
<1> QED
  BY Zenon, <1>2, <1>3

LEMMA SingleRight ==
  ASSUME VInv, NEW u, NEW call, NEW w, NEW n, NEW m, NEW k, NEW p1, NEW p2, NEW p3, NEW made, NEW t,
         SingleIn(u, call, w, n, m, k, p1, p2, p3, made, t), NEW g, Single(g, u, call),
         PaysSo(g, call, p1, p2, p3, made), NamesSo(g, u, n, m, call)
  PROVE  Right(g)
<1>1. CostOf(Boxes(w) \ Boxes(Vault)) = CostSum(p1, p2, p3, made)
  BY SingleCost
<1>2. u \in Users /\ CallFits(call) /\ w = After(Vault, u, call) /\ k = RowsAdded(call) /\ k \in 0 .. 3
  BY Zenon DEF SingleIn
<1>3. n = Len(account[u].powers) /\ m = Len(total)
  BY Zenon DEF SingleIn
<1>4. Created(g) = Boxes(w) \ Boxes(Vault) /\ Len(g.calls) = 1 /\ g.calls[1] = call
  BY <1>2, SingleIs
<1> DEFINE cost == CostOf(Created(g))
           sum == CostSum(p1, p2, p3, made)
<1>5. cost = sum
  BY Zenon, <1>1, <1>4
<1>6. PICK x \in Extra(call) : g.pay = sum + x
  BY Zenon DEF PaysSo
<1>7. x \in Nat
  <2>1. Cost["sc"] \in Nat /\ 0 \in Nat
    BY CostsAre
  <2> QED
    BY <2>1 DEF Extra
<1>8. sum \in Nat
  BY CostSumType
<1> HIDE DEF cost, sum
<1>9. cost <= g.pay /\ g.pay - cost = x
  BY <1>5, <1>6, <1>7, <1>8
<1>10. call.op # "withdraw" => k \in 1 .. 3
  <2>1. ASSUME call.op # "withdraw"  PROVE k \in 1 .. 3
    <3> DEFINE z == LastTime(total)
               y == CheckWeeks(z)
    <3>1. k = y + 1
      BY Zenon, <1>2, <2>1 DEF RowsAdded
    <3>2. y \in Nat
      <4>1. IsFiniteSet(Weeks(z, now - 1))
        <5>1. now \in Nat /\ z \in Nat
          BY Lengths, <1>2
        <5>2. Weeks(z, now - 1) \subseteq z + 1 .. now - 1
          BY DEF Weeks
        <5>3. IsFiniteSet(z + 1 .. now - 1)
          BY <5>1, FS_Interval
        <5> QED
          BY Zenon, <5>2, <5>3, FS_Subset
      <4> QED
        BY Zenon, <4>1, FS_CardinalityType DEF CheckWeeks
    <3> HIDE DEF y
    <3> QED
      BY <1>2, <3>1, <3>2
  <2> QED
    BY <2>1
<1>11. Reached(g)
  BY <1>2, <1>3, <1>10, SingleReached
<1> QED
  BY Zenon, <1>4, <1>6, <1>9, <1>11 DEF Right, cost

OneMade(g, u, local, p) == g = Group(u, local, <<p>>)
IsOne(g, u, p) == Single(g, u, p.call) /\ g.refs = p.refs /\ g.pay = p.pay
LEMMA OneIs ==
  ASSUME NEW u, NEW local, NEW p, NEW g, OneMade(g, u, local, p)
  PROVE  IsOne(g, u, p)
<1> DEFINE h == Group(u, local, <<p>>)
<1>1. h.user = u /\ h.calls = <<p.call>> /\ h.refs = p.refs /\ h.pay = p.pay
  BY GroupOneIs
<1>2. g = h
  BY Zenon DEF OneMade
<1> HIDE DEF h
<1> QED
  BY Zenon, <1>1, <1>2 DEF Single, IsOne

\* No slope change is made, or the one of an end.
LEMMA SlopesMade ==
  ASSUME NEW v, NEW w, NEW t,
         \/ DOMAIN w.slopeDelta = DOMAIN v.slopeDelta
         \/ DOMAIN w.slopeDelta = DOMAIN v.slopeDelta \cup {t}
  PROVE  /\ DOMAIN w.slopeDelta = DOMAIN v.slopeDelta => SlopeMade(v, w, FALSE, t)
         /\ DOMAIN w.slopeDelta = DOMAIN v.slopeDelta \cup {t} =>
              SlopeMade(v, w, t \notin DOMAIN v.slopeDelta, t)
<1> DEFINE d == DOMAIN v.slopeDelta
           e == DOMAIN w.slopeDelta
<1>1. NewSlopes(v.slopeDelta, w.slopeDelta) = {SlopeBox(x) : x \in e \ d}
  BY Zenon DEF NewSlopes
<1> HIDE DEF d, e
<1>2. ASSUME e = d  PROVE SlopeMade(v, w, FALSE, t)
  <2>1. {SlopeBox(x) : x \in e \ d} = {}
    BY <1>2
  <2>2. Maybe(FALSE, SlopeBox(t)) = {}
    BY DEF Maybe
  <2> QED
    BY Zenon, <1>1, <2>1, <2>2 DEF SlopeMade
<1>3. ASSUME e = d \cup {t}  PROVE SlopeMade(v, w, t \notin d, t)
  <2>1. CASE t \in d
    <3>1. {SlopeBox(x) : x \in e \ d} = {}
      BY <1>3, <2>1
    <3>2. Maybe(t \notin d, SlopeBox(t)) = {}
      BY <2>1 DEF Maybe
    <3> QED
      BY Zenon, <1>1, <3>1, <3>2 DEF SlopeMade
  <2>2. CASE t \notin d
    <3>1. {SlopeBox(x) : x \in e \ d} = {SlopeBox(t)}
      BY <1>3, <2>2
    <3>2. Maybe(t \notin d, SlopeBox(t)) = {SlopeBox(t)}
      BY <2>2 DEF Maybe
    <3> QED
      BY Zenon, <1>1, <3>1, <3>2 DEF SlopeMade
  <2> QED
    BY <2>1, <2>2
<1> QED
  BY <1>2, <1>3 DEF d, e

LEMMA NoneFree ==
  ASSUME NEW m \in Nat
  PROVE  ~ (0 > freeSpaceCount(m))
<1>1. freeSpaceCount(m) \in 0 .. ArrayLen - 1 /\ ArrayLen \in Nat
  BY FreeSpace, SizeAssumption DEF FreeType
<1> QED
  BY <1>1

LEMMA WithdrawRight ==
  ASSUME VInv, NEW u \in Users, NEW s, s.account = StateOf(account[u]), s.account # {},
         NEW local, NEW g, OneMade(g, u, local, Withdraw(u, ReadAccount(s)))
  PROVE  Right(g)
<1> DEFINE a == ReadAccount(s)
           p == Withdraw(u, a)
           call == [op |-> "withdraw", amount |-> 0, end |-> 0]
           n == Len(account[u].powers)
           m == Len(total)
           w == After(Vault, u, call)
           p2 == 1 > freeSpaceCount(n)
<1>1. account[u].exists /\ a.count = n
  <2>1. account[u].exists /\ a = [end |-> account[u].end, count |-> n]
    BY AccountHeld
  <2> QED
    BY <2>1
<1>2. p.call = call /\ p.pay = PowerCost(a)
  BY DEF Withdraw
<1>3. n \in Nat /\ m \in Nat
  BY Lengths
<1>4. CallFits(call) /\ call.op = "withdraw" /\ call.end = 0
  BY DEF CallFits, IsCall
<1> HIDE DEF a, n, m
<1>5. Covers(p.refs, {StateBox(u)} \cup PowersToName(u, n))
  BY <1>1, <1>3, WithdrawCovers
<1>6. PowerCost(a) = IfSo(p2, Cost["power"])
  BY <1>1, <1>3, PowerPaid
<1> HIDE DEF p, call
<1>7. Single(g, u, call) /\ g.refs = p.refs /\ g.pay = p.pay
  <2>1. OneMade(g, u, local, p)
    BY DEF p, a
  <2>2. IsOne(g, u, p)
    BY <2>1, OneIs
  <2> QED
    BY Zenon, <1>2, <2>2 DEF IsOne
<1>8. RowsAdded(call) = 0
  BY <1>4 DEF RowsAdded
<1>9. SlopeMade(Vault, w, FALSE, 0)
  <2>1. w.slopeDelta = Vault.slopeDelta
    <3> DEFINE v == Vault
    <3>1. IsVault(v, now)
      BY VaultNow
    <3> HIDE DEF v
    <3>2. w = After(v, u, call)
      BY DEF v
    <3> HIDE DEF w
    <3>3. w.slopeDelta = v.slopeDelta
      BY <1>4, <3>1, <3>2, WithdrawnDeltas
    <3> QED
      BY <3>3 DEF v
  <2> HIDE DEF w
  <2> QED
    BY <2>1, SlopesMade
<1>10. NewOnes(Vault, u, n, 1, m, 0, FALSE, p2, FALSE)
  <2>1. Vault.account = account
    BY VaultNow
  <2>2. ~ (0 > freeSpaceCount(m))
    BY <1>3, NoneFree
  <2> QED
    BY <1>1, <2>1, <2>2 DEF NewOnes
<1>11. w = After(Vault, u, call)
  OBVIOUS
<1> HIDE DEF w
<1>12. SingleIn(u, call, w, n, m, 0, FALSE, p2, FALSE, FALSE, 0)
  <2>1. {FALSE, p2} \subseteq BOOLEAN /\ 0 \in 0 .. 3
    OBVIOUS
  <2>2. {FALSE, p2, FALSE, FALSE} \subseteq BOOLEAN
    BY <2>1
  <2>3. n = Len(account[u].powers) /\ m = Len(total) /\ 0 = RowsAdded(call)
    BY <1>8 DEF n, m
  <2> HIDE DEF p2
  <2> QED
    BY Zenon, <1>4, <1>9, <1>10, <1>11, <2>1, <2>2, <2>3 DEF SingleIn
<1>13. PaysSo(g, call, FALSE, p2, FALSE, FALSE)
  <2> HIDE DEF p2
  <2> DEFINE y == IfSo(p2, Cost["power"])
             z == CostSum(FALSE, p2, FALSE, FALSE)
  <2>1. y \in Nat
    BY CostsAre DEF IfSo
  <2>2. z = 0 + y + 0 + 0
    BY DEF CostSum, IfSo
  <2>3. g.pay = y
    BY Zenon, <1>2, <1>6, <1>7
  <2> HIDE DEF y, z
  <2>4. z + 0 = y
    BY <2>1, <2>2
  <2>5. g.pay = CostSum(FALSE, p2, FALSE, FALSE) + 0
    BY Zenon, <2>3, <2>4 DEF z
  <2>6. 0 \in Extra(call)
    BY DEF Extra
  <2> QED
    BY Zenon, <2>5, <2>6 DEF PaysSo
<1>14. NamesSo(g, u, n, m, call)
  BY Zenon, <1>4, <1>5, <1>7 DEF NamesSo
<1> HIDE DEF p2
<1> QED
  BY <1>7, <1>12, <1>13, <1>14, SingleRight

\* A lock made or changed: what it costs beyond the box of a slope change.
MakesState(u) == ~ account[u].exists
MakesPower(u) == 1 > freeSpaceCount(Len(account[u].powers))
MakesTotal(call) == RowsAdded(call) > freeSpaceCount(Len(total))

LEMMA LockIn ==
  ASSUME VInv, NEW u \in Users, NEW call, CallFits(call), RowsAdded(call) \in 1 .. 3,
         NEW made \in BOOLEAN, NEW t, SlopeMade(Vault, After(Vault, u, call), made, t)
  PROVE  SingleIn(u, call, After(Vault, u, call), Len(account[u].powers), Len(total),
                  RowsAdded(call), MakesState(u), MakesPower(u), MakesTotal(call), made, t)
<1> DEFINE w == After(Vault, u, call)
           n == Len(account[u].powers)
           m == Len(total)
           k == RowsAdded(call)
           p1 == MakesState(u)
           p2 == MakesPower(u)
           p3 == MakesTotal(call)
<1>1. Vault.account = account
  BY VaultNow
<1>2. NewOnes(Vault, u, n, 1, m, k, p1, p2, p3)
  BY <1>1 DEF NewOnes, MakesState, MakesPower, MakesTotal
<1>3. {p1, p2, p3, made} \subseteq BOOLEAN
  BY DEF MakesState, MakesPower, MakesTotal
<1>4. k \in 0 .. 3
  OBVIOUS
<1>5. w = After(Vault, u, call) /\ n = Len(account[u].powers) /\ m = Len(total) /\ k = RowsAdded(call)
  OBVIOUS
<1>6. SlopeMade(Vault, w, made, t)
  OBVIOUS
<1> HIDE DEF w, n, m, k, p1, p2, p3
<1>7. SingleIn(u, call, w, n, m, k, p1, p2, p3, made, t)
  BY Zenon, <1>2, <1>3, <1>4, <1>5, <1>6 DEF SingleIn
<1> QED
  BY Zenon, <1>7 DEF w, n, m, k, p1, p2, p3

LEMMA LockRight ==
  ASSUME VInv, NEW u \in Users, NEW call, CallFits(call), RowsAdded(call) \in 1 .. 3,
         NEW made \in BOOLEAN, NEW t, SlopeMade(Vault, After(Vault, u, call), made, t),
         NEW g, Single(g, u, call), NamesSo(g, u, Len(account[u].powers), Len(total), call),
         PaysSo(g, call, MakesState(u), MakesPower(u), MakesTotal(call), made)
  PROVE  Right(g)
<1> DEFINE w == After(Vault, u, call)
           n == Len(account[u].powers)
           m == Len(total)
           k == RowsAdded(call)
           p1 == MakesState(u)
           p2 == MakesPower(u)
           p3 == MakesTotal(call)
<1>1. SingleIn(u, call, w, n, m, k, p1, p2, p3, made, t)
  BY LockIn
<1>2. NamesSo(g, u, n, m, call) /\ PaysSo(g, call, p1, p2, p3, made)
  OBVIOUS
<1> HIDE DEF w, n, m, k, p1, p2, p3
<1> QED
  BY <1>1, <1>2, SingleRight

\* What is read for it, and paid.
ReadFor(u, s, e, call) ==
  /\ s.global.count = Len(total) /\ Len(e) = RowsAdded(call) /\ RowsAdded(call) \in 1 .. 3
  /\ TotalCost(s.global, e) = IfSo(MakesTotal(call), Cost["tp"])
  /\ Listed(WeekBoxes(e), 2, WeekSlopes(LastTime(total)))
LEMMA ForeseenFor ==
  ASSUME VInv, NEW u \in Users, NEW s, NEW local, Foreseen(u, s, local),
         NEW call, call.op # "withdraw"
  PROVE  ReadFor(u, s, Foretold(s, local), call)
<1> DEFINE e == Foretold(s, local)
<1>1. s.global.count = Len(total)
  BY Zenon DEF Foreseen, StillHolds
<1>2. ForetoldFor(s, e)
  BY WeeksSeen
<1> HIDE DEF e
<1>3. /\ Len(e) \in 1 .. 3 /\ Len(e) = RowsAdded(call)
      /\ Listed(WeekBoxes(e), 2, WeekSlopes(LastTime(total)))
  BY Zenon, <1>2 DEF ForetoldFor, RowsAdded
<1>4. TotalCost(s.global, e) = IfSo(MakesTotal(call), Cost["tp"])
  BY <1>1, <1>3 DEF TotalCost, MakesTotal, IfSo
<1>5. RowsAdded(call) \in 1 .. 3
  BY Zenon, <1>3
<1> QED
  BY Zenon, <1>1, <1>3, <1>4, <1>5 DEF ReadFor, e

HeldFor(u, s) ==
  LET a == ReadAccount(s)
  IN  /\ a.count = Len(account[u].powers) /\ a.end = account[u].end
      /\ PowerCost(a) = IfSo(MakesPower(u), Cost["power"])
LEMMA AccountFor ==
  ASSUME VInv, NEW u \in Users, NEW s, NEW local, Foreseen(u, s, local), s.account # {}
  PROVE  /\ HeldFor(u, s) /\ ~ MakesState(u) /\ s.account = {ReadAccount(s)}
         /\ ReadAccount(s) = [end |-> account[u].end, count |-> Len(account[u].powers)]
<1> DEFINE a == ReadAccount(s)
           n == Len(account[u].powers)
<1>1. s.account = StateOf(account[u])
  BY Zenon DEF Foreseen, StillHolds
<1>2. account[u].exists /\ a = [end |-> account[u].end, count |-> n] /\ s.account = {a}
  BY <1>1, AccountHeld
<1>3. n \in Nat
  BY Lengths
<1> HIDE DEF n, a
<1>4. a.count = n /\ a.end = account[u].end
  BY <1>2
<1>5. PowerCost(a) = IfSo(1 > freeSpaceCount(n), Cost["power"])
  BY <1>3, <1>4, PowerPaid
<1>6. HeldFor(u, s)
  BY Zenon, <1>4, <1>5 DEF HeldFor, MakesPower, a, n
<1> QED
  BY <1>2, <1>6 DEF MakesState, a, n

LEMMA IfSoType ==
  /\ \A p : /\ IfSo(p, Cost["state"]) \in Nat /\ IfSo(p, Cost["power"]) \in Nat
            /\ IfSo(p, Cost["tp"]) \in Nat /\ IfSo(p, Cost["sc"]) \in Nat
  /\ \A n : IfSo(FALSE, n) = 0 /\ IfSo(TRUE, n) = n
<1>1. \A p, n : n \in Nat => IfSo(p, n) \in Nat
  BY DEF IfSo
<1>2. \A n : IfSo(FALSE, n) = 0 /\ IfSo(TRUE, n) = n
  BY DEF IfSo
<1> QED
  BY Zenon, <1>1, <1>2, CostsAre

\* The slope changes that fall due where locks end, and where calls add them.
LEMMA EndThere ==
  ASSUME LocksEnd(account, slopeDelta), NEW u \in Users
  PROVE  /\ account[u].amount # 0 => account[u].end \in DOMAIN slopeDelta
         /\ account[u].amount = 0 => account[u].end = 0
  BY DEF LocksEnd

LEMMA ChangeMade ==
  ASSUME VInv, NEW u \in Users, NEW call, CallFits(call), call.op # "withdraw"
  PROVE  LET d == DOMAIN slopeDelta
             t == EndAfter(account[u], call)
         IN  call.op # "extend" \/ account[u].end \in d =>
               SlopeMade(Vault, After(Vault, u, call), t \notin d, t)
<1> DEFINE v == Vault
           w == After(v, u, call)
           t == EndAfter(account[u], call)
<1>1. IsVault(v, now) /\ now \in Nat /\ v.account = account /\ v.slopeDelta = slopeDelta
  BY VaultNow
<1> HIDE DEF v
<1>2. w = After(v, u, call)
  OBVIOUS
<1> HIDE DEF w
<1> DEFINE o == v.account[u].end
           x == EndAfter(v.account[u], call)
           d == DOMAIN v.slopeDelta
           f == DOMAIN w.slopeDelta
<1>3. f = d \cup {x} \cup (IF call.op = "extend" THEN {o} ELSE {})
  BY <1>1, <1>2, DeltasAdded
<1>4. x = t /\ o = account[u].end /\ d = DOMAIN slopeDelta
  BY Zenon, <1>1
<1> HIDE DEF x, o, d, f, t
<1>5. ASSUME call.op # "extend" \/ o \in d  PROVE SlopeMade(v, w, t \notin d, t)
  <2>1. f = d \cup {t}
    BY <1>3, <1>4, <1>5
  <2> QED
    BY <2>1, SlopesMade DEF d, f
<1> QED
  BY Zenon, <1>4, <1>5 DEF v, w, t

LEMMA IncreaseRight ==
  ASSUME VInv, LocksEnd(account, slopeDelta), NEW u \in Users, NEW s, NEW local,
         Foreseen(u, s, local), s.account # {}, NEW r \in Requests, r.op = "increase",
         NEW g, OneMade(g, u, local, IncreasePart(u, s, r, local)), Legally(g)
  PROVE  Right(g)
<1> DEFINE a == ReadAccount(s)
           e == Foretold(s, local)
           p == IncreasePart(u, s, r, local)
           call == [op |-> "increase", amount |-> r.amount, end |-> 0]
           n == Len(account[u].powers)
           m == Len(total)
           t == account[u].end
           W == WeekSlopes(LastTime(total))
<1>1. call.op = "increase" /\ call.op # "withdraw" /\ call.end = 0
  OBVIOUS
<1>2. p.call = call /\ p.pay = TotalCost(s.global, e) + PowerCost(a)
      /\ p.refs = IncreaseLockAmount(u, a, s.global, r, e).refs
  BY DEF IncreasePart, IncreaseLockAmount
<1>3. CallFits(call)
  <2>1. CallFits(p.call)
    BY Zenon, PartsFit
  <2> QED
    BY Zenon, <1>2, <2>1
<1> HIDE DEF a, e, p, call
<1>4. ReadFor(u, s, e, call)
  BY <1>1, ForeseenFor DEF e
<1>5. HeldFor(u, s) /\ ~ MakesState(u)
  BY AccountFor
<1>6. /\ s.global.count = m /\ RowsAdded(call) \in 1 .. 3
      /\ TotalCost(s.global, e) = IfSo(MakesTotal(call), Cost["tp"])
      /\ Listed(WeekBoxes(e), 2, W)
  BY Zenon, <1>4 DEF ReadFor
<1>7. a.count = n /\ a.end = t /\ PowerCost(a) = IfSo(MakesPower(u), Cost["power"])
  BY Zenon, <1>5 DEF HeldFor, a
<1>8. n \in Nat /\ m \in Nat /\ t \in Nat
  BY Lengths
<1>9. Single(g, u, call) /\ g.refs = p.refs /\ g.pay = p.pay
  <2>1. OneMade(g, u, local, p)
    BY DEF p
  <2>2. IsOne(g, u, p)
    BY <2>1, OneIs
  <2> QED
    BY Zenon, <1>2, <2>2 DEF IsOne
<1>10. EndAfter(account[u], call) = t
  BY <1>1 DEF EndAfter
<1>11. t \in DOMAIN slopeDelta
  <2>1. Legal(Vault, u, call)
    BY <1>9, SingleIs
  <2>2. Vault.account = account
    BY VaultNow
  <2>3. account[u].amount > 0
    BY <1>1, <2>1, <2>2 DEF Legal
  <2>4. account[u].amount # 0
    BY <2>3
  <2> QED
    BY <2>4, EndThere
<1>12. SlopeMade(Vault, After(Vault, u, call), FALSE, t)
  <2>1. SlopeMade(Vault, After(Vault, u, call), t \notin DOMAIN slopeDelta, t)
    BY <1>1, <1>3, <1>10, <1>11, ChangeMade
  <2>2. (t \notin DOMAIN slopeDelta) = FALSE
    BY <1>11
  <2> QED
    BY <2>1, <2>2
<1>13. NamesSo(g, u, n, m, call)
  <2> DEFINE E == {SlopeBox(t)}
  <2> HIDE DEF n, m, t, W
  <2>1. EndSlopes(account[u], call) \subseteq E
    BY <1>10 DEF EndSlopes, t
  <2>2. Covers(IncreaseLockAmount(u, a, s.global, r, e).refs,
                Needed(u, a.count, s.global.count, {SlopeBox(a.end)}, W))
    <3> DEFINE gl == s.global
    <3>1. a.count \in Nat /\ a.end \in Nat /\ gl.count \in Nat
      BY Zenon, <1>6, <1>7, <1>8
    <3> HIDE DEF gl
    <3>2. Covers(IncreaseLockAmount(u, a, gl, r, e).refs, Needed(u, a.count, gl.count, {SlopeBox(a.end)}, W))
      BY <1>6, <3>1, IncreaseCovers
    <3> QED
      BY <3>2 DEF gl
  <2>3. Covers(g.refs, Needed(u, n, m, E, W))
    BY Zenon, <1>2, <1>6, <1>7, <1>9, <2>2
  <2> HIDE DEF E
  <2> QED
    BY Zenon, <1>1, <2>1, <2>3 DEF NamesSo, W
<1>14. PaysSo(g, call, MakesState(u), MakesPower(u), MakesTotal(call), FALSE)
  <2> DEFINE z1 == IfSo(MakesState(u), Cost["state"])
             z2 == IfSo(MakesPower(u), Cost["power"])
             z3 == IfSo(MakesTotal(call), Cost["tp"])
             z4 == IfSo(FALSE, Cost["sc"])
             sum == CostSum(MakesState(u), MakesPower(u), MakesTotal(call), FALSE)
  <2>1. z1 \in Nat /\ z2 \in Nat /\ z3 \in Nat /\ z4 = 0
    BY Zenon, IfSoType
  <2>2. sum = z1 + z2 + z3 + z4
    BY Zenon DEF CostSum
  <2>3. z1 = 0
    BY <1>5 DEF IfSo
  <2>4. g.pay = z3 + z2
    BY Zenon, <1>2, <1>6, <1>7, <1>9
  <2> HIDE DEF z1, z2, z3, z4, sum
  <2>5. g.pay = sum + 0
    BY <2>1, <2>2, <2>3, <2>4
  <2>6. 0 \in Extra(call)
    BY DEF Extra
  <2> QED
    BY Zenon, <2>5, <2>6 DEF PaysSo, sum
<1>15. RowsAdded(call) \in 1 .. 3 /\ FALSE \in BOOLEAN
  BY <1>6
<1>16. NamesSo(g, u, Len(account[u].powers), Len(total), call)
  BY <1>13
<1> HIDE DEF n, m, t, W
<1> QED
  BY <1>3, <1>9, <1>12, <1>14, <1>15, <1>16, LockRight

\* The first payment of a lock made: for the account and its power.
LEMMA FirstPaid ==
  ASSUME VInv, NEW u \in Users, NEW s, NEW local, Foreseen(u, s, local)
  PROVE  (IF s.account = {} THEN Cost["state"] + Cost["power"] ELSE PowerCost(ReadAccount(s)))
           = IfSo(MakesState(u), Cost["state"]) + IfSo(MakesPower(u), Cost["power"])
<1> DEFINE z1 == IfSo(MakesState(u), Cost["state"])
           z2 == IfSo(MakesPower(u), Cost["power"])
<1>1. z1 \in Nat /\ z2 \in Nat
  BY Zenon, IfSoType
<1>2. s.account = StateOf(account[u])
  BY Zenon DEF Foreseen, StillHolds
<1>3. CASE s.account = {}
  <2>1. ~ account[u].exists /\ Len(account[u].powers) = 0
    BY <1>2, <1>3, AccountHeld
  <2>2. MakesState(u)
    BY <2>1 DEF MakesState
  <2>3. 1 \in 1 .. ArrayLen
    BY SizeAssumption
  <2>4. freeSpaceCount(0) = 0
    BY <2>3, FirstRows
  <2>5. MakesPower(u)
    BY <2>1, <2>4 DEF MakesPower
  <2>6. z1 = Cost["state"] /\ z2 = Cost["power"]
    BY <2>2, <2>5 DEF IfSo
  <2> HIDE DEF z1, z2
  <2>7. Cost["state"] + Cost["power"] = z1 + z2
    BY <2>6
  <2> QED
    BY Zenon, <1>3, <2>7 DEF z1, z2
<1>4. CASE s.account # {}
  <2>1. HeldFor(u, s) /\ ~ MakesState(u)
    BY <1>4, AccountFor
  <2>2. z1 = 0
    BY <2>1 DEF IfSo
  <2>3. PowerCost(ReadAccount(s)) = z2
    BY Zenon, <2>1 DEF HeldFor
  <2> HIDE DEF z1, z2
  <2>4. PowerCost(ReadAccount(s)) = z1 + z2
    BY <1>1, <2>2, <2>3
  <2> QED
    BY Zenon, <1>4, <2>4 DEF z1, z2
<1> QED
  BY <1>3, <1>4

LEMMA CreateRight ==
  ASSUME VInv, LocksEnd(account, slopeDelta), NEW u \in Users, NEW s, NEW local,
         Foreseen(u, s, local), NEW r \in Requests, r.op = "create",
         NEW there \in BOOLEAN, there <=> r.end \in DOMAIN slopeDelta,
         NEW g, OneMade(g, u, local, CreatePart(u, s, there, r, local)), Legally(g)
  PROVE  Right(g)
<1> DEFINE e == Foretold(s, local)
           p == CreatePart(u, s, there, r, local)
           call == [op |-> "create", amount |-> r.amount, end |-> r.end]
           n == Len(account[u].powers)
           m == Len(total)
           t == r.end
           W == WeekSlopes(LastTime(total))
           first == IF s.account = {} THEN Cost["state"] + Cost["power"] ELSE PowerCost(ReadAccount(s))
           slope == IF there THEN 0 ELSE Cost["sc"]
           made == ~ there
<1>1. call.op = "create" /\ call.op # "withdraw" /\ call.end = t
  OBVIOUS
<1>2. p.call = call /\ p.pay = first + TotalCost(s.global, e) + slope
      /\ p.refs = CreateLock(u, s.account, s.global, there, r, e).refs
  BY DEF CreatePart, CreateLock, ReadAccount
<1>3. CallFits(call)
  <2>1. CallFits(p.call)
    BY Zenon, PartsFit
  <2> QED
    BY Zenon, <1>2, <2>1
<1>4. first = IfSo(MakesState(u), Cost["state"]) + IfSo(MakesPower(u), Cost["power"])
  BY FirstPaid
<1>5. slope = IfSo(made, Cost["sc"])
  BY DEF IfSo
<1>6. t \in Nat
  BY RequestIs
<1> HIDE DEF e, p, call, first, slope
<1>7. ReadFor(u, s, e, call)
  BY <1>1, ForeseenFor DEF e
<1>8. /\ s.global.count = m /\ RowsAdded(call) \in 1 .. 3
      /\ TotalCost(s.global, e) = IfSo(MakesTotal(call), Cost["tp"])
      /\ Listed(WeekBoxes(e), 2, W)
  BY Zenon, <1>7 DEF ReadFor
<1>9. n \in Nat /\ m \in Nat
  BY Lengths
<1>10. \/ s.account = {} /\ n = 0
       \/ \E end : s.account = {[end |-> end, count |-> n]}
  <2>1. s.account = StateOf(account[u])
    BY Zenon DEF Foreseen, StillHolds
  <2>2. CASE s.account = {}
    BY <2>1, <2>2, AccountHeld
  <2>3. CASE s.account # {}
    <3> DEFINE o == account[u].end
    <3>1. s.account = {[end |-> o, count |-> n]}
      <4>1. s.account = {ReadAccount(s)} /\ ReadAccount(s) = [end |-> o, count |-> n]
        BY <2>3, AccountFor
      <4> QED
        BY Zenon, <4>1
    <3> HIDE DEF o
    <3> QED
      BY Zenon, <3>1
  <2> QED
    BY Zenon, <2>2, <2>3
<1>11. Single(g, u, call) /\ g.refs = p.refs /\ g.pay = p.pay
  <2>1. OneMade(g, u, local, p)
    BY DEF p
  <2>2. IsOne(g, u, p)
    BY <2>1, OneIs
  <2> QED
    BY Zenon, <1>2, <2>2 DEF IsOne
<1>12. EndAfter(account[u], call) = t
  BY <1>1 DEF EndAfter
<1>13. account[u].end = 0
  <2>1. Legal(Vault, u, call)
    BY <1>11, SingleIs
  <2>2. Vault.account = account
    BY VaultNow
  <2>3. account[u].amount = 0
    BY <1>1, <2>1, <2>2 DEF Legal
  <2> QED
    BY <2>3, EndThere
<1>14. SlopeMade(Vault, After(Vault, u, call), made, t)
  <2>1. SlopeMade(Vault, After(Vault, u, call), t \notin DOMAIN slopeDelta, t)
    BY <1>1, <1>3, <1>12, ChangeMade
  <2>2. (t \notin DOMAIN slopeDelta) = made
    OBVIOUS
  <2> QED
    BY <2>1, <2>2
<1>15. NamesSo(g, u, n, m, call)
  <2> DEFINE E == {SlopeBox(t)}
  <2> HIDE DEF n, m, W
  <2>1. EndSlopes(account[u], call) \subseteq E
    BY <1>12, <1>13 DEF EndSlopes
  <2>2. Covers(CreateLock(u, s.account, s.global, there, r, e).refs,
               Needed(u, n, s.global.count, {SlopeBox(r.end)}, W))
    <3> DEFINE gl == s.global
               accounts == s.account
    <3>1. gl.count \in Nat
      BY Zenon, <1>8, <1>9
    <3>2. \/ accounts = {} /\ n = 0
          \/ \E end : accounts = {[end |-> end, count |-> n]}
      BY Zenon, <1>10
    <3> HIDE DEF gl, accounts
    <3>3. Covers(CreateLock(u, accounts, gl, there, r, e).refs,
                 Needed(u, n, gl.count, {SlopeBox(r.end)}, W))
      BY <1>6, <1>8, <1>9, <3>1, <3>2, CreateCovers
    <3> QED
      BY <3>3 DEF gl, accounts
  <2>3. Covers(g.refs, Needed(u, n, m, E, W))
    BY Zenon, <1>2, <1>8, <1>11, <2>2
  <2> HIDE DEF E
  <2> QED
    BY Zenon, <1>1, <2>1, <2>3 DEF NamesSo, W
<1>16. PaysSo(g, call, MakesState(u), MakesPower(u), MakesTotal(call), made)
  <2> DEFINE z1 == IfSo(MakesState(u), Cost["state"])
             z2 == IfSo(MakesPower(u), Cost["power"])
             z3 == IfSo(MakesTotal(call), Cost["tp"])
             z4 == IfSo(made, Cost["sc"])
             sum == CostSum(MakesState(u), MakesPower(u), MakesTotal(call), made)
  <2>1. z1 \in Nat /\ z2 \in Nat /\ z3 \in Nat /\ z4 \in Nat
    BY Zenon, IfSoType
  <2>2. sum = z1 + z2 + z3 + z4
    BY Zenon DEF CostSum
  <2>3. g.pay = z1 + z2 + z3 + z4
    BY Zenon, <1>2, <1>4, <1>5, <1>8, <1>11
  <2> HIDE DEF z1, z2, z3, z4, sum
  <2>4. g.pay = sum + 0
    BY <2>1, <2>2, <2>3
  <2>5. 0 \in Extra(call)
    BY DEF Extra
  <2> QED
    BY Zenon, <2>4, <2>5 DEF PaysSo, sum
<1>17. RowsAdded(call) \in 1 .. 3 /\ made \in BOOLEAN
  BY <1>8
<1>18. NamesSo(g, u, Len(account[u].powers), Len(total), call)
  BY <1>15
<1> HIDE DEF n, m, t, W, made
<1> QED
  BY <1>3, <1>11, <1>14, <1>16, <1>17, <1>18, LockRight

LEMMA ExtendRight ==
  ASSUME VInv, LocksEnd(account, slopeDelta), NEW u \in Users, NEW s, NEW local,
         Foreseen(u, s, local), s.account # {}, NEW r \in Requests, r.op = "extend",
         NEW d, d = Owed(slopeDelta, r.end),
         NEW g, OneMade(g, u, local, ExtendPart(u, s, d, r, local)), Legally(g)
  PROVE  Right(g)
<1> DEFINE a == ReadAccount(s)
           e == Foretold(s, local)
           p == ExtendPart(u, s, d, r, local)
           call == [op |-> "extend", amount |-> 0, end |-> r.end]
           n == Len(account[u].powers)
           m == Len(total)
           o == account[u].end
           t == r.end
           slope == IF d = 0 THEN Cost["sc"] ELSE 0
           made == t \notin DOMAIN slopeDelta
           W == WeekSlopes(LastTime(total))
<1>1. call.op = "extend" /\ call.op # "withdraw" /\ call.end = t
  OBVIOUS
<1>2. p.call = call /\ p.pay = slope + PowerCost(a) + TotalCost(s.global, e)
      /\ p.refs = ExtendLockEndTime(u, a, s.global, d, r, e).refs
  BY DEF ExtendPart, ExtendLockEndTime
<1>3. CallFits(call)
  <2>1. CallFits(p.call)
    BY Zenon, PartsFit
  <2> QED
    BY Zenon, <1>2, <2>1
<1> HIDE DEF a, e, p, call, slope
<1>4. ReadFor(u, s, e, call)
  BY <1>1, ForeseenFor DEF e
<1>5. HeldFor(u, s) /\ ~ MakesState(u)
  BY AccountFor
<1>6. /\ s.global.count = m /\ RowsAdded(call) \in 1 .. 3
      /\ TotalCost(s.global, e) = IfSo(MakesTotal(call), Cost["tp"])
      /\ Listed(WeekBoxes(e), 2, W)
  BY Zenon, <1>4 DEF ReadFor
<1>7. a.count = n /\ a.end = o /\ PowerCost(a) = IfSo(MakesPower(u), Cost["power"])
  BY Zenon, <1>5 DEF HeldFor, a
<1>8. n \in Nat /\ m \in Nat /\ o \in Nat /\ t \in Nat
  BY Lengths, RequestIs
<1>9. Single(g, u, call) /\ g.refs = p.refs /\ g.pay = p.pay
  <2>1. OneMade(g, u, local, p)
    BY DEF p
  <2>2. IsOne(g, u, p)
    BY <2>1, OneIs
  <2> QED
    BY Zenon, <1>2, <2>2 DEF IsOne
<1>10. EndAfter(account[u], call) = t
  BY <1>1 DEF EndAfter
<1>11. o \in DOMAIN slopeDelta
  <2>1. Legal(Vault, u, call)
    BY <1>9, SingleIs
  <2>2. Vault.account = account
    BY VaultNow
  <2>3. account[u].amount > 0
    BY <1>1, <2>1, <2>2 DEF Legal
  <2>4. account[u].amount # 0
    BY <2>3
  <2> QED
    BY <2>4, EndThere
<1>12. SlopeMade(Vault, After(Vault, u, call), made, t)
  BY <1>1, <1>3, <1>10, <1>11, ChangeMade
<1>13. NamesSo(g, u, n, m, call)
  <2> DEFINE E == {SlopeBox(o), SlopeBox(t)}
  <2> HIDE DEF n, m, o, W
  <2>1. EndSlopes(account[u], call) \subseteq E
    BY <1>10 DEF EndSlopes, o
  <2>2. Covers(ExtendLockEndTime(u, a, s.global, d, r, e).refs,
                Needed(u, a.count, s.global.count, {SlopeBox(a.end), SlopeBox(r.end)}, W))
    <3> DEFINE gl == s.global
    <3>1. a.count \in Nat /\ a.end \in Nat /\ gl.count \in Nat
      BY Zenon, <1>6, <1>7, <1>8
    <3> HIDE DEF gl
    <3>2. Covers(ExtendLockEndTime(u, a, gl, d, r, e).refs,
                  Needed(u, a.count, gl.count, {SlopeBox(a.end), SlopeBox(r.end)}, W))
      BY <1>6, <1>8, <3>1, ExtendCovers
    <3> QED
      BY <3>2 DEF gl
  <2>3. Covers(g.refs, Needed(u, n, m, E, W))
    BY Zenon, <1>2, <1>6, <1>7, <1>9, <2>2
  <2> HIDE DEF E
  <2> QED
    BY Zenon, <1>1, <2>1, <2>3 DEF NamesSo, W
<1>14. PaysSo(g, call, MakesState(u), MakesPower(u), MakesTotal(call), made)
  <2> DEFINE z1 == IfSo(MakesState(u), Cost["state"])
             z2 == IfSo(MakesPower(u), Cost["power"])
             z3 == IfSo(MakesTotal(call), Cost["tp"])
             z4 == IfSo(made, Cost["sc"])
             sum == CostSum(MakesState(u), MakesPower(u), MakesTotal(call), made)
  <2>1. z1 \in Nat /\ z2 \in Nat /\ z3 \in Nat /\ z4 \in Nat
    BY Zenon, IfSoType
  <2>2. sum = z1 + z2 + z3 + z4
    BY Zenon DEF CostSum
  <2>3. z1 = 0
    BY <1>5 DEF IfSo
  <2>4. g.pay = slope + z2 + z3
    BY Zenon, <1>2, <1>6, <1>7, <1>9
  <2>5. PICK x \in Extra(call) : slope = z4 + x /\ x \in Nat
    <3>1. Cost["sc"] \in Nat
      BY CostsAre
    <3>2. CASE made
      <4>1. d = 0
        BY <3>2 DEF Owed
      <4>2. slope = Cost["sc"] /\ z4 = Cost["sc"]
        BY <3>2, <4>1 DEF slope, IfSo
      <4>3. slope = z4 + 0 /\ 0 \in Extra(call)
        BY <3>1, <4>2 DEF Extra
      <4> QED
        BY <4>3
    <3>3. CASE ~ made
      <4>1. z4 = 0
        BY <3>3 DEF IfSo
      <4>2. Extra(call) = {0, Cost["sc"]}
        BY <1>1, <3>3 DEF Extra
      <4>3. slope \in {0, Cost["sc"]}
        BY DEF slope
      <4>4. slope = z4 + slope /\ slope \in Extra(call) /\ slope \in Nat
        BY <3>1, <4>1, <4>2, <4>3
      <4> QED
        BY <4>4
    <3> QED
      BY <3>2, <3>3
  <2> HIDE DEF z1, z2, z3, z4, sum
  <2>6. g.pay = sum + x
    BY <2>1, <2>2, <2>3, <2>4, <2>5
  <2> QED
    BY Zenon, <2>5, <2>6 DEF PaysSo, sum
<1>15. RowsAdded(call) \in 1 .. 3 /\ made \in BOOLEAN
  BY <1>6
<1>16. NamesSo(g, u, Len(account[u].powers), Len(total), call)
  BY <1>13
<1> HIDE DEF n, m, o, t, W, made
<1> QED
  BY <1>3, <1>9, <1>12, <1>14, <1>15, <1>16, LockRight
-----------------------------------------------------------------------------
(* An increase and then an extension.                                       *)

Twice(u, p, q, mid, w) ==
  /\ u \in Users /\ CallFits(p) /\ CallFits(q) /\ p.op = "increase" /\ q.op = "extend"
  /\ RowsAdded(p) \in 1 .. 3 /\ account[u].end \in DOMAIN slopeDelta
  /\ mid = After(Vault, u, p) /\ w = After(mid, u, q)

InTheMiddle(u, p, mid) ==
  /\ IsVault(mid, now) /\ OneChanged(Vault, mid, u)
  /\ Len(mid.account[u].powers) = Len(account[u].powers) + 1
  /\ Len(mid.total) = Len(total) + RowsAdded(p) /\ LastTime(mid.total) = now
  /\ mid.account[u].end = account[u].end /\ DOMAIN mid.slopeDelta = DOMAIN slopeDelta
LEMMA MiddleIs ==
  ASSUME VInv, NEW u, NEW p, NEW q, NEW mid, NEW w, Twice(u, p, q, mid, w)
  PROVE  InTheMiddle(u, p, mid)
<1> DEFINE v == Vault
           o == account[u].end
<1>1. /\ u \in Users /\ CallFits(p) /\ p.op = "increase" /\ o \in DOMAIN slopeDelta
      /\ mid = After(Vault, u, p)
  BY Zenon DEF Twice
<1>2. p.op # "withdraw" /\ p.op # "extend" /\ EndAfter(account[u], p) = o
  BY <1>1 DEF EndAfter
<1>3. /\ IsVault(mid, now) /\ OneChanged(Vault, mid, u)
      /\ Len(mid.account[u].powers) = Len(account[u].powers) + 1
      /\ Len(mid.total) = Len(total) + RowsAdded(p)
      /\ LastTime(mid.total) = now /\ mid.account[u].end = EndAfter(account[u], p)
  BY <1>1, <1>2, AfterLengths
<1>4. IsVault(v, now) /\ now \in Nat /\ v.account = account /\ v.slopeDelta = slopeDelta
  BY VaultNow
<1> HIDE DEF v
<1>5. DOMAIN mid.slopeDelta =
        DOMAIN v.slopeDelta \cup {EndAfter(v.account[u], p)}
          \cup (IF p.op = "extend" THEN {v.account[u].end} ELSE {})
  <2>1. mid = After(v, u, p)
    BY Zenon, <1>1 DEF v
  <2> QED
    BY <1>1, <1>2, <1>4, <2>1, DeltasAdded
<1> HIDE DEF o
<1>6. DOMAIN mid.slopeDelta = DOMAIN slopeDelta
  <2> DEFINE D == DOMAIN mid.slopeDelta
             E == DOMAIN slopeDelta
  <2>1. D = E \cup {o} \cup {}
    BY Zenon, <1>2, <1>4, <1>5
  <2>2. o \in E
    BY <1>1
  <2> HIDE DEF D, E
  <2>3. D = E
    BY <2>1, <2>2
  <2> QED
    BY <2>3 DEF D, E
<1> QED
  BY Zenon, <1>2, <1>3, <1>6 DEF InTheMiddle, o

LEMMA NoWeeksLeft ==
  ASSUME now \in Nat
  PROVE  CheckWeeks(now) = 0 /\ WeekSlopes(now) = {}
<1>1. Weeks(now, now - 1) = {} /\ Weeks(now, now) = {}
  BY DEF Weeks
<1>2. CheckWeeks(now) = 0
  BY <1>1, FS_EmptySet DEF CheckWeeks
<1>3. WeekSlopes(now) = {}
  BY <1>1 DEF WeekSlopes
<1> QED
  BY <1>2, <1>3

AtTheEnd(u, p, q, w) ==
  /\ RowsMore(Vault, w, u, Len(account[u].powers), 2, Len(total), RowsAdded(p) + 1)
  /\ DOMAIN w.slopeDelta = DOMAIN slopeDelta \cup {q.end}
LEMMA EndIs ==
  ASSUME VInv, NEW u, NEW p, NEW q, NEW mid, NEW w, Twice(u, p, q, mid, w)
  PROVE  AtTheEnd(u, p, q, w)
<1> DEFINE v == Vault
           o == account[u].end
           n == Len(account[u].powers)
           m == Len(total)
           k == RowsAdded(p)
           acc == mid.account[u]
<1>1. /\ u \in Users /\ CallFits(q) /\ q.op = "extend" /\ o \in DOMAIN slopeDelta /\ k \in 1 .. 3
      /\ w = After(mid, u, q)
  BY Zenon DEF Twice
<1>2. InTheMiddle(u, p, mid)
  BY MiddleIs
<1>3. /\ IsVault(mid, now) /\ OneChanged(v, mid, u) /\ Len(acc.powers) = n + 1
      /\ Len(mid.total) = m + k /\ LastTime(mid.total) = now
      /\ acc.end = o /\ DOMAIN mid.slopeDelta = DOMAIN slopeDelta
  BY Zenon, <1>2 DEF InTheMiddle
<1>4. /\ now \in Nat /\ v.account = account /\ v.total = total
      /\ n \in Nat /\ m \in Nat
  BY <1>1, VaultNow, Lengths
<1>5. IsCall(q) /\ q.op # "withdraw"
  BY <1>1 DEF CallFits
<1> HIDE DEF v, o, acc, k
<1>6. OneChanged(mid, w, u)
  BY <1>1, <1>3, <1>4, CallChanges
<1>7. Len(w.account[u].powers) = Len(mid.account[u].powers) + 1
  BY <1>1, <1>3, <1>4, <1>5, AfterAccounts
<1>8. Len(w.account[u].powers) = n + 2
  <2> HIDE DEF n
  <2>1. Len(w.account[u].powers) = (n + 1) + 1
    BY Zenon, <1>3, <1>7 DEF acc
  <2> QED
    BY <1>4, <2>1
<1>9. Len(w.total) = m + (k + 1)
  <2> HIDE DEF m
  <2>1. Len(w.total) = Len(mid.total) + (CheckWeeks(LastTime(mid.total)) + 1)
    BY <1>1, <1>3, <1>4, <1>5, AfterTotal
  <2>2. CheckWeeks(now) = 0
    BY <1>4, NoWeeksLeft
  <2>3. Len(w.total) = (m + k) + (0 + 1)
    BY Zenon, <1>3, <2>1, <2>2
  <2> QED
    BY <1>1, <1>4, <2>3
<1>10. OneChanged(v, w, u)
  <2>1. \A x \in Users : x # u => w.account[x] = v.account[x]
    BY Zenon, <1>3, <1>6 DEF OneChanged
  <2>2. w.account[u].exists
    BY Zenon, <1>6 DEF OneChanged
  <2> QED
    BY Zenon, <2>1, <2>2 DEF OneChanged
<1>11. DOMAIN w.slopeDelta = DOMAIN slopeDelta \cup {q.end}
  <2> DEFINE D == DOMAIN w.slopeDelta
             E == DOMAIN slopeDelta
             F == DOMAIN mid.slopeDelta
             x == EndAfter(acc, q)
  <2>1. D = F \cup {EndAfter(mid.account[u], q)}
              \cup (IF q.op = "extend" THEN {mid.account[u].end} ELSE {})
    BY <1>1, <1>3, <1>4, <1>5, DeltasAdded
  <2>2. x = q.end
    BY <1>1 DEF EndAfter
  <2>3. D = F \cup {x} \cup {o}
    BY Zenon, <1>1, <1>3, <2>1 DEF acc
  <2>4. F = E /\ o \in E
    BY Zenon, <1>1, <1>3
  <2> HIDE DEF D, E, F, x
  <2>5. D = E \cup {q.end}
    BY <2>2, <2>3, <2>4
  <2> QED
    BY <2>5 DEF D, E
<1>12. Len(v.account[u].powers) = n /\ Len(v.total) = m
  BY <1>4
<1> HIDE DEF n, m
<1>13. RowsMore(v, w, u, n, 2, m, k + 1)
  BY Zenon, <1>8, <1>9, <1>10, <1>12 DEF RowsMore
<1> QED
  BY <1>11, <1>13 DEF AtTheEnd, v, n, m, k

\* What the two make together.
TwicePower(u) == 2 > freeSpaceCount(Len(account[u].powers))
TwiceTotal(p) == RowsAdded(p) + 1 > freeSpaceCount(Len(total))
LEMMA TwiceCost ==
  ASSUME VInv, NEW u, NEW p, NEW q, NEW mid, NEW w, Twice(u, p, q, mid, w)
  PROVE  CostOf(Boxes(w) \ Boxes(Vault))
           = CostSum(MakesState(u), TwicePower(u), TwiceTotal(p), q.end \notin DOMAIN slopeDelta)
<1> DEFINE v == Vault
           n == Len(account[u].powers)
           m == Len(total)
           k == RowsAdded(p) + 1
           t == q.end
           p1 == MakesState(u)
           p2 == TwicePower(u)
           p3 == TwiceTotal(p)
           made == t \notin DOMAIN slopeDelta
<1>1. u \in Users /\ RowsAdded(p) \in 1 .. 3
  BY Zenon DEF Twice
<1>2. AtTheEnd(u, p, q, w)
  BY EndIs
<1>3. RowsMore(v, w, u, n, 2, m, k) /\ DOMAIN w.slopeDelta = DOMAIN slopeDelta \cup {t}
  BY Zenon, <1>2 DEF AtTheEnd
<1>4. n \in Nat /\ m \in Nat
  BY <1>1, Lengths
<1>5. 2 \in 1 .. ArrayLen /\ k \in 0 .. ArrayLen
  BY <1>1, SizeAssumption
<1>6. v.account = account /\ v.slopeDelta = slopeDelta
  BY VaultNow
<1> HIDE DEF v
<1>7. NewOnes(v, u, n, 2, m, k, p1, p2, p3)
  BY <1>6 DEF NewOnes, MakesState, TwicePower, TwiceTotal
<1>8. SlopeMade(v, w, made, t)
  <2> DEFINE d == DOMAIN v.slopeDelta
             f == DOMAIN w.slopeDelta
  <2>1. f = d \cup {t} /\ (made = (t \notin d))
    BY Zenon, <1>3, <1>6
  <2> HIDE DEF t, made
  <2>2. f = d \cup {t} => SlopeMade(v, w, t \notin d, t)
    BY SlopesMade
  <2> HIDE DEF d, f
  <2> QED
    BY Zenon, <2>1, <2>2
<1>9. {p1, p2, p3, made} \subseteq BOOLEAN
  BY DEF MakesState, TwicePower, TwiceTotal
<1> HIDE DEF n, m, k, t, p1, p2, p3, made
<1>10. ChangeIs(v, w, u, n, 2, m, k, p1, p2, p3, made, t)
  BY Zenon, <1>1, <1>3, <1>4, <1>5, <1>7, <1>8, <1>9 DEF ChangeIs
<1>11. CostOf(Boxes(w) \ Boxes(v)) = CostSum(p1, p2, p3, made)
  BY <1>10, ChangeCost
<1> QED
  BY Zenon, <1>11 DEF v, p1, p2, p3, made, t

NeededTwice(u, n, m, ends, weeks) ==
  {StateBox(u)} \cup PowersToName(u, n) \cup PowersToName(u, n + 1) \cup TotalsToName(m)
    \cup ends \cup weeks
BothEnds(u, q) == {SlopeBox(account[u].end), SlopeBox(q.end)}

\* A group of two calls.
Double(g, u, p, q) == g.user = u /\ g.calls = <<p, q>>
LEMMA DoubleIs ==
  ASSUME NEW g, NEW u, NEW p, NEW q, Double(g, u, p, q),
         NEW mid, mid = After(Vault, u, p), NEW w, w = After(mid, u, q)
  PROVE  /\ Outcome(g) = w /\ Created(g) = Boxes(w) \ Boxes(Vault)
         /\ TouchedBy(g) = Touched(Vault, mid, u, p) \cup Touched(mid, w, u, q)
         /\ Legally(g) => Legal(Vault, u, p)
         /\ Len(g.calls) = 2
<1>1. g.user = u /\ g.calls = <<p, q>>
  BY DEF Double
<1>2. Len(g.calls) = 2 /\ Len(g.calls) # 1 /\ g.calls[1] = p /\ g.calls[2] = q
  BY <1>1
<1>3. Middle(g) = mid
  BY Zenon, <1>1, <1>2 DEF Middle
<1>4. Outcome(g) = w
  BY Zenon, <1>1, <1>2, <1>3 DEF Outcome
<1>5. Created(g) = Boxes(w) \ Boxes(Vault)
  BY Zenon, <1>4 DEF Created
<1>6. TouchedBy(g) = Touched(Vault, mid, u, p) \cup Touched(mid, w, u, q)
  BY Zenon, <1>1, <1>2, <1>3, <1>4 DEF TouchedBy
<1>7. Legally(g) => Legal(Vault, u, p)
  BY Zenon, <1>1, <1>2 DEF Legally
<1> QED
  BY Zenon, <1>2, <1>4, <1>5, <1>6, <1>7

LEMMA SecondTouches ==
  ASSUME VInv, NEW u, NEW p, NEW q, NEW mid, NEW w, Twice(u, p, q, mid, w)
  PROVE  Touched(mid, w, u, q)
           \subseteq {StateBox(u)} \cup PowersToName(u, Len(account[u].powers) + 1)
                       \cup TotalsToName(Len(total)) \cup BothEnds(u, q)
<1> DEFINE m == Len(total)
           k == RowsAdded(p)
           acc == mid.account[u]
           P == PowersToName(u, Len(account[u].powers) + 1)
<1>1. /\ u \in Users /\ CallFits(q) /\ q.op = "extend" /\ k \in 1 .. 3 /\ w = After(mid, u, q)
  BY Zenon DEF Twice
<1>2. InTheMiddle(u, p, mid) /\ AtTheEnd(u, p, q, w)
  BY MiddleIs, EndIs
<1>3. /\ IsVault(mid, now) /\ Len(acc.powers) = Len(account[u].powers) + 1
      /\ Len(mid.total) = m + k /\ LastTime(mid.total) = now
      /\ acc.end = account[u].end
  BY Zenon, <1>2 DEF InTheMiddle
<1>4. Len(w.total) = m + (k + 1)
  BY Zenon, <1>2 DEF AtTheEnd, RowsMore
<1>5. now \in Nat /\ m \in Nat \ {0}
  BY <1>1, Lengths
<1>6. q.op # "withdraw"
  BY <1>1
<1> HIDE DEF k
<1>7. TotalBoxesTouched(mid, w) \subseteq TotalsToName(m)
  <2> DEFINE j == k + 1
  <2>1. j \in 1 .. ArrayLen
    BY <1>1, SizeAssumption
  <2> HIDE DEF m
  <2>2. Len(mid.total) \in m .. m + j
    BY <1>1, <1>3, <1>5
  <2>3. Len(w.total) = m + j
    BY <1>4
  <2> HIDE DEF j
  <2> QED
    BY <1>5, <2>1, <2>2, <2>3, TotalsTouched
<1> HIDE DEF m
<1>8. Touched(mid, w, u, q)
        \subseteq {StateBox(u)} \cup PowersToName(u, Len(mid.account[u].powers))
                    \cup TotalBoxesTouched(mid, w)
                    \cup EndSlopes(mid.account[u], q) \cup WeekSlopes(LastTime(mid.total))
  BY <1>1, <1>3, <1>5, <1>6, CallTouches
<1>9. WeekSlopes(LastTime(mid.total)) = {}
  <2>1. WeekSlopes(now) = {}
    BY <1>5, NoWeeksLeft
  <2> QED
    BY Zenon, <1>3, <2>1
<1> HIDE DEF acc
<1>10. EndSlopes(acc, q) \subseteq BothEnds(u, q)
  <2>1. EndAfter(acc, q) = q.end
    BY <1>1 DEF EndAfter
  <2> DEFINE o == account[u].end
             t == q.end
  <2>2. EndSlopes(acc, q) = {SlopeBox(x) : x \in {o, t} \ {0}}
    BY Zenon, <1>3, <2>1 DEF EndSlopes
  <2>3. BothEnds(u, q) = {SlopeBox(o), SlopeBox(t)}
    BY Zenon DEF BothEnds
  <2> HIDE DEF o, t
  <2> QED
    BY <2>2, <2>3
<1> DEFINE T == Touched(mid, w, u, q)
           A == TotalBoxesTouched(mid, w)
           B == EndSlopes(acc, q)
           C == WeekSlopes(LastTime(mid.total))
<1>11. T \subseteq {StateBox(u)} \cup P \cup A \cup B \cup C
  BY Zenon, <1>3, <1>8 DEF acc
<1> HIDE DEF T, A, B, C, P
<1>12. T \subseteq {StateBox(u)} \cup P \cup TotalsToName(m) \cup BothEnds(u, q)
  <2>1. A \subseteq TotalsToName(m) /\ B \subseteq BothEnds(u, q) /\ C = {}
    BY Zenon, <1>7, <1>9, <1>10 DEF A, B, C
  <2> QED
    BY <1>11, <2>1
<1> QED
  BY Zenon, <1>12 DEF T, P, m

LEMMA TwiceTouches ==
  ASSUME VInv, NEW u, NEW p, NEW q, NEW mid, NEW w, Twice(u, p, q, mid, w),
         NEW g, Double(g, u, p, q)
  PROVE  TouchedBy(g) \subseteq
           NeededTwice(u, Len(account[u].powers), Len(total), BothEnds(u, q),
                       WeekSlopes(LastTime(total)))
<1> DEFINE A == Touched(Vault, mid, u, p)
           B == Touched(mid, w, u, q)
           n == Len(account[u].powers)
           m == Len(total)
           W == WeekSlopes(LastTime(total))
           E == EndSlopes(account[u], p)
           F == BothEnds(u, q)
<1>1. /\ u \in Users /\ CallFits(p) /\ p.op = "increase" /\ RowsAdded(p) \in 1 .. 3
      /\ mid = After(Vault, u, p) /\ w = After(mid, u, q)
  BY Zenon DEF Twice
<1>2. TouchedBy(g) = A \cup B
  BY <1>1, DoubleIs
<1>3. A \subseteq Needed(u, n, m, E, W)
  <2>1. p.op # "withdraw"
    BY <1>1
  <2> QED
    BY <1>1, <2>1, SingleTouches
<1>4. B \subseteq {StateBox(u)} \cup PowersToName(u, n + 1) \cup TotalsToName(m) \cup F
  BY SecondTouches
<1>5. E \subseteq F
  <2>1. EndAfter(account[u], p) = account[u].end
    BY <1>1 DEF EndAfter
  <2> DEFINE o == account[u].end
  <2>2. E = {SlopeBox(x) : x \in {o, o} \ {0}}
    BY Zenon, <2>1 DEF EndSlopes
  <2>3. SlopeBox(o) \in F
    BY DEF BothEnds
  <2> HIDE DEF o, E, F
  <2> QED
    BY <2>2, <2>3
<1>6. A \subseteq {StateBox(u)} \cup PowersToName(u, n) \cup TotalsToName(m) \cup E \cup W
  BY Zenon, <1>3 DEF Needed
<1> DEFINE P == PowersToName(u, n)
           Q == PowersToName(u, n + 1)
           T == TotalsToName(m)
<1> HIDE DEF A, B, E, F, W, P, Q, T
<1>7. A \cup B \subseteq {StateBox(u)} \cup P \cup Q \cup T \cup F \cup W
  <2>1. A \subseteq {StateBox(u)} \cup P \cup T \cup E \cup W
    BY Zenon, <1>6 DEF P, T
  <2>2. B \subseteq {StateBox(u)} \cup Q \cup T \cup F
    BY Zenon, <1>4 DEF Q, T
  <2> QED
    BY <1>5, <2>1, <2>2
<1> QED
  BY Zenon, <1>2, <1>7 DEF NeededTwice, P, Q, T, F, W, n, m

\* The second part pays for the box the first part's row has filled.
LEMMA PaidTwice ==
  ASSUME NEW n \in Nat \ {0}, NEW j \in Nat \ {0}, NEW k \in Nat \ {0}, NEW cost \in Nat
  PROVE  IfSo(k + 1 > freeSpaceCount(n), cost)
           <= IfSo(j > freeSpaceCount(n), cost) + IfSo(k > freeSpaceCount(n + 1), cost)
<1> DEFINE f == freeSpaceCount(n)
           h == freeSpaceCount(n + 1)
           x == IfSo(k + 1 > f, cost)
           y == IfSo(j > f, cost)
           z == IfSo(k > h, cost)
<1>1. f \in 0 .. ArrayLen - 1 /\ h \in 0 .. ArrayLen - 1 /\ ArrayLen \in Nat
  <2>1. n + 1 \in Nat
    OBVIOUS
  <2> QED
    BY <2>1, FreeSpace, SizeAssumption DEF FreeType
<1>2. f # 0 => h = f - 1
  BY NextFilling
<1> HIDE DEF f, h
<1>3. x \in {0, cost} /\ y \in {0, cost} /\ z \in {0, cost}
  BY DEF IfSo
<1>4. ASSUME f = 0  PROVE x <= y + z
  <2>1. y = cost
    BY <1>4 DEF IfSo
  <2> HIDE DEF x, y, z
  <2> QED
    BY <1>3, <2>1
<1>5. ASSUME f # 0  PROVE x <= y + z
  <2>1. (k + 1 > f) <=> (k > h)
    BY <1>1, <1>2, <1>5
  <2>2. x = z
    BY <2>1 DEF IfSo
  <2> HIDE DEF x, y, z
  <2> QED
    BY <1>3, <2>2
<1>6. x <= y + z
  BY Zenon, <1>4, <1>5
<1> QED
  BY Zenon, <1>6 DEF f, h

\* What the parts of the group pay and name.
GlobalShaped(s) ==
  s.global = [count |-> s.global.count, last |-> s.global.last, at |-> s.global.at]
LEMMA CountsOn ==
  ASSUME VInv, NEW u \in Users, NEW s, NEW local, Foreseen(u, s, local), s.account # {},
         GlobalShaped(s)
  PROVE  /\ CountedOn(ReadAccount(s)).count = Len(account[u].powers) + 1
         /\ CountedOn(ReadAccount(s)).end = account[u].end
         /\ CountedOn(s.global).count = Len(total) + 1
         /\ Len(account[u].powers) \in Nat \ {0}
<1> DEFINE o == account[u].end
           n == Len(account[u].powers)
           a == ReadAccount(s)
<1>1. a = [end |-> o, count |-> n] /\ ~ MakesState(u)
  BY AccountFor
<1>2. n \in Nat /\ (account[u].exists <=> n # 0)
  BY Lengths
<1>3. n # 0
  BY <1>1, <1>2 DEF MakesState
<1> HIDE DEF o, n, a
<1>4. CountedOn(a).count = n + 1 /\ CountedOn(a).end = o
  BY <1>1 DEF CountedOn
<1>5. s.global.count = Len(total)
  BY Zenon DEF Foreseen, StillHolds
<1>6. CountedOn(s.global).count = Len(total) + 1
  <2> DEFINE c == s.global.count
             x == s.global.last
             y == s.global.at
             gl == s.global
  <2>1. gl = [count |-> c, last |-> x, at |-> y]
    BY Zenon DEF GlobalShaped
  <2>2. c = Len(total)
    BY Zenon, <1>5
  <2> HIDE DEF c, x, y, gl
  <2>3. CountedOn(gl).count = c + 1
    BY <2>1 DEF CountedOn
  <2> QED
    BY <2>2, <2>3 DEF gl
<1> QED
  BY <1>2, <1>3, <1>4, <1>6 DEF o, n, a

\* The first part was built at any time before the second.
LEMMA FirstSeen ==
  ASSUME VInv, NEW u \in Users, NEW s, NEW local, Foreseen(u, s, local),
         NEW first, Timely(s, first, now)
  PROVE  Len(Foretold(s, first)) \in 1 .. 3 /\ Listed(WeekBoxes(Foretold(s, first)), 2, {})
<1> DEFINE last == LastTime(total)
           e == Foretold(s, first)
           b == WeekBoxes(e)
<1>1. now \in Nat /\ last \in Nat
  BY Lengths
<1>2. s.global.last = last /\ WeeksKnown(last)
  BY Zenon DEF Foreseen, StillHolds
<1>3. first \in Nat /\ last <= first /\ first <= now
  BY <1>2 DEF Timely
<1>4. e = getNewTotalPowerTimestamps(last, first)
  BY Zenon, <1>2 DEF Foretold
<1> HIDE DEF last, e
<1>5. b \in Seq(BoxNames) /\ Len(b) <= 2 /\ Len(e) \in 1 .. 3
  BY <1>1, <1>2, <1>3, <1>4, WeeksReached
<1>6. 2 \in Nat /\ \A x \in {} : Has(x, b)
  OBVIOUS
<1> HIDE DEF b
<1>7. Listed(b, 2, {})
  BY Zenon, <1>5, <1>6 DEF Listed
<1> QED
  BY Zenon, <1>5, <1>7 DEF e, b

TwoMade(g, u, local, x, y) == g = Group(u, local, <<x, y>>)
IsTwo(g, u, x, y) ==
  Double(g, u, x.call, y.call) /\ g.refs = Joined(x.refs, y.refs) /\ g.pay = x.pay + y.pay
LEMMA TwoIs ==
  ASSUME NEW g, NEW u, NEW local, NEW x, NEW y, TwoMade(g, u, local, x, y)
  PROVE  IsTwo(g, u, x, y)
<1>1. g = Group(u, local, <<x, y>>)
  BY Zenon DEF TwoMade
<1>2. /\ g.user = u /\ g.calls = <<x.call, y.call>> /\ g.refs = Joined(x.refs, y.refs)
      /\ g.pay = x.pay + y.pay
  BY <1>1, GroupTwoIs
<1> QED
  BY Zenon, <1>2 DEF IsTwo, Double

\* The parts of a group of two calls, by what they name and pay.
BothParts(u, s, d, r, first, local, x, y, p, q) ==
  /\ x = IncreasePart(u, s, r, first) /\ y = SecondPart(u, s, d, r, local)
  /\ p = [op |-> "increase", amount |-> r.amount, end |-> 0]
  /\ q = [op |-> "extend", amount |-> 0, end |-> r.end]
BothSeen(u, s, d, r, first, local) ==
  /\ u \in Users /\ Foreseen(u, s, local) /\ Timely(s, first, now) /\ s.account # {}
  /\ GlobalShaped(s) /\ r \in Requests /\ r.op = "both" /\ d = Owed(slopeDelta, r.end)

LEMMA BothName ==
  ASSUME VInv, NEW u, NEW s, NEW d, NEW r, NEW first, NEW local, NEW x, NEW y, NEW p, NEW q,
         BothSeen(u, s, d, r, first, local), BothParts(u, s, d, r, first, local, x, y, p, q)
  PROVE  /\ x.call = p /\ y.call = q /\ CallFits(p) /\ CallFits(q)
         /\ Covers(Joined(x.refs, y.refs),
                   NeededTwice(u, Len(account[u].powers), Len(total), BothEnds(u, q),
                               WeekSlopes(LastTime(total))))
<1> DEFINE a == ReadAccount(s)
           b == CountedOn(a)
           gl == s.global
           gm == CountedOn(gl)
           e == Foretold(s, first)
           f == Foretold(s, local)
           n == Len(account[u].powers)
           m == Len(total)
           o == account[u].end
           t == r.end
           W == WeekSlopes(LastTime(total))
<1>1. /\ u \in Users /\ Foreseen(u, s, local) /\ Timely(s, first, now) /\ s.account # {}
      /\ GlobalShaped(s) /\ r \in Requests /\ r.op = "both"
  BY Zenon DEF BothSeen
<1>2. /\ x = IncreasePart(u, s, r, first) /\ y = SecondPart(u, s, d, r, local)
      /\ p = [op |-> "increase", amount |-> r.amount, end |-> 0]
      /\ q = [op |-> "extend", amount |-> 0, end |-> r.end]
  BY Zenon DEF BothParts
<1>3. x.call = p /\ x.refs = IncreaseLockAmount(u, a, gl, r, e).refs
  BY <1>2 DEF IncreasePart, IncreaseLockAmount
<1>4. y.call = q /\ y.refs = ExtendLockEndTime(u, b, gm, d, r, f).refs
  BY <1>2 DEF SecondPart, ExtendLockEndTime
<1>5. CallFits(p) /\ CallFits(q)
  <2>1. r.op \in {"increase", "both"}
    BY <1>1
  <2>2. CallFits(x.call)
    BY Zenon, <1>1, <1>2, <2>1, PartsFit
  <2>3. CallFits(y.call)
    BY Zenon, <1>1, <1>2, PartsFit
  <2> QED
    BY Zenon, <1>3, <1>4, <2>2, <2>3
<1>6. n \in Nat /\ m \in Nat /\ o \in Nat /\ t \in Nat
  BY <1>1, Lengths, RequestIs
<1>7. gl.count = m /\ a.count = n /\ a.end = o
  <2>1. HeldFor(u, s)
    BY <1>1, AccountFor
  <2>2. StillHolds(u, s)
    BY Zenon, <1>1 DEF Foreseen
  <2> QED
    BY Zenon, <2>1, <2>2 DEF HeldFor, StillHolds
<1>8. b.count = n + 1 /\ b.end = o /\ gm.count = m + 1
  BY <1>1, CountsOn
<1>9. Listed(WeekBoxes(e), 2, {})
  BY <1>1, FirstSeen
<1>10. Listed(WeekBoxes(f), 2, W)
  <2>1. ForetoldFor(s, f)
    BY <1>1, WeeksSeen
  <2> QED
    BY Zenon, <2>1 DEF ForetoldFor
<1>11. q.end = t
  BY <1>2
<1> HIDE DEF a, b, gl, gm, e, f, n, m, o, t, W
<1>12. Covers(x.refs, Needed(u, n, m, {SlopeBox(o)}, {}))
  <2>1. a.count \in Nat /\ a.end \in Nat /\ gl.count \in Nat
    BY Zenon, <1>6, <1>7
  <2>2. Covers(IncreaseLockAmount(u, a, gl, r, e).refs,
               Needed(u, a.count, gl.count, {SlopeBox(a.end)}, {}))
    BY <1>1, <1>9, <2>1, IncreaseCovers
  <2> QED
    BY Zenon, <1>3, <1>7, <2>2
<1>13. Covers(y.refs, Needed(u, n + 1, m + 1, {SlopeBox(o), SlopeBox(t)}, W))
  <2>1. b.count \in Nat /\ b.end \in Nat /\ gm.count \in Nat /\ r.end \in Nat
    BY <1>6, <1>8 DEF t
  <2>2. Covers(ExtendLockEndTime(u, b, gm, d, r, f).refs,
               Needed(u, b.count, gm.count, {SlopeBox(b.end), SlopeBox(r.end)}, W))
    BY <1>1, <1>10, <2>1, ExtendCovers
  <2> QED
    BY Zenon, <1>4, <1>8, <2>2 DEF t
<1> DEFINE S == Needed(u, n, m, {SlopeBox(o)}, {})
           T == Needed(u, n + 1, m + 1, {SlopeBox(o), SlopeBox(t)}, W)
           U == NeededTwice(u, n, m, BothEnds(u, q), W)
           xr == x.refs
           yr == y.refs
<1>14. U \subseteq S \cup T
  <2>1. BothEnds(u, q) = {SlopeBox(o), SlopeBox(t)}
    BY Zenon, <1>11 DEF BothEnds, o
  <2> QED
    BY <2>1 DEF Needed, NeededTwice
<1>15. Covers(Joined(xr, yr), S \cup T)
  <2>1. Covers(xr, S) /\ Covers(yr, T)
    BY Zenon, <1>12, <1>13
  <2> HIDE DEF xr, yr, S, T
  <2> QED
    BY <2>1, JoinedCovers
<1>16. Covers(Joined(xr, yr), U)
  <2> HIDE DEF S, T, U, xr, yr
  <2> QED
    BY Zenon, <1>14, <1>15 DEF Covers
<1> QED
  BY Zenon, <1>3, <1>4, <1>5, <1>16 DEF n, m, W

\* The two parts pay for what they make together.
LEMMA BothPay ==
  ASSUME VInv, NEW u, NEW s, NEW d, NEW r, NEW first, NEW local, NEW x, NEW y, NEW p, NEW q,
         BothSeen(u, s, d, r, first, local), BothParts(u, s, d, r, first, local, x, y, p, q)
  PROVE  /\ CostSum(MakesState(u), TwicePower(u), TwiceTotal(p), q.end \notin DOMAIN slopeDelta)
              <= x.pay + y.pay
         /\ RowsAdded(p) \in 1 .. 3
<1> DEFINE a == ReadAccount(s)
           b == CountedOn(a)
           gl == s.global
           gm == CountedOn(gl)
           e == Foretold(s, first)
           f == Foretold(s, local)
           n == Len(account[u].powers)
           m == Len(total)
           t == r.end
           made == t \notin DOMAIN slopeDelta
           slope == IF d = 0 THEN Cost["sc"] ELSE 0
           j == Len(e)
           k == RowsAdded(p)
<1>1. /\ u \in Users /\ Foreseen(u, s, local) /\ Timely(s, first, now) /\ s.account # {}
      /\ GlobalShaped(s) /\ d = Owed(slopeDelta, t)
  BY Zenon DEF BothSeen
<1>2. /\ x = IncreasePart(u, s, r, first) /\ y = SecondPart(u, s, d, r, local)
      /\ p = [op |-> "increase", amount |-> r.amount, end |-> 0]
      /\ q = [op |-> "extend", amount |-> 0, end |-> r.end]
  BY Zenon DEF BothParts
<1>3. x.pay = TotalCost(gl, e) + PowerCost(a)
  BY <1>2 DEF IncreasePart, IncreaseLockAmount
<1>4. y.pay = slope + PowerCost(b) + TotalCost(gm, f)
  BY <1>2 DEF SecondPart, ExtendLockEndTime
<1>5. p.op # "withdraw" /\ q.end = t
  BY <1>2
<1>6. n \in Nat \ {0} /\ b.count = n + 1 /\ gm.count = m + 1
  BY <1>1, CountsOn
<1>7. m \in Nat \ {0}
  BY <1>1, Lengths
<1>8. gl.count = m /\ a.count = n /\ ~ MakesState(u)
  <2>1. HeldFor(u, s) /\ ~ MakesState(u)
    BY <1>1, AccountFor
  <2>2. StillHolds(u, s)
    BY Zenon, <1>1 DEF Foreseen
  <2> QED
    BY Zenon, <2>1, <2>2 DEF HeldFor, StillHolds
<1>9. j \in 1 .. 3
  BY <1>1, FirstSeen
<1>10. Len(f) = k /\ k \in 1 .. 3
  <2>1. ReadFor(u, s, f, p)
    BY <1>1, <1>5, ForeseenFor
  <2> QED
    BY Zenon, <2>1 DEF ReadFor
<1> DEFINE P == Cost["power"]
           T == Cost["tp"]
           C == Cost["sc"]
           p1 == IfSo(1 > freeSpaceCount(n), P)
           p2 == IfSo(1 > freeSpaceCount(n + 1), P)
           pp == IfSo(1 + 1 > freeSpaceCount(n), P)
           t1 == IfSo(j > freeSpaceCount(m), T)
           t2 == IfSo(k > freeSpaceCount(m + 1), T)
           tt == IfSo(k + 1 > freeSpaceCount(m), T)
           cc == IfSo(made, C)
           z == IfSo(MakesState(u), Cost["state"])
           sum == CostSum(MakesState(u), TwicePower(u), TwiceTotal(p), made)
<1>11. P \in Nat /\ T \in Nat /\ C \in Nat
  BY CostsAre
<1>12. slope \in Nat /\ cc <= slope /\ cc \in Nat
  <2>1. made => d = 0
    BY <1>1 DEF Owed
  <2>2. slope \in {0, C} /\ cc \in {0, C} /\ (made => slope = C) /\ (~ made => cc = 0)
    BY <2>1 DEF IfSo
  <2> HIDE DEF made, slope, cc, C
  <2> QED
    BY <1>11, <2>2
<1>13. sum = z + pp + tt + cc
  <2>1. (1 + 1 > freeSpaceCount(n)) = TwicePower(u)
    BY DEF TwicePower
  <2>2. (k + 1 > freeSpaceCount(m)) = TwiceTotal(p)
    BY DEF TwiceTotal
  <2> HIDE DEF k, n, m, made
  <2> QED
    BY <2>1, <2>2 DEF CostSum
<1>14. z = 0
  BY <1>8 DEF IfSo
<1> HIDE DEF a, b, gl, gm, e, f, n, m, t, made, slope, j, k, sum, z, cc, P, T
<1>15. PowerCost(a) = p1 /\ PowerCost(b) = p2
  <2>1. n + 1 \in Nat /\ n \in Nat
    BY <1>6
  <2> DEFINE i == n + 1
  <2>2. b.count = i /\ i \in Nat
    BY <1>6, <2>1
  <2> HIDE DEF i
  <2>3. PowerCost(b) = IfSo(1 > freeSpaceCount(i), Cost["power"])
    BY <2>2, PowerPaid
  <2>4. PowerCost(a) = IfSo(1 > freeSpaceCount(n), Cost["power"])
    BY <1>8, <2>1, PowerPaid
  <2> QED
    BY Zenon, <2>3, <2>4 DEF i, P
<1>16. TotalCost(gl, e) = t1 /\ TotalCost(gm, f) = t2
  <2>1. TotalCost(gl, e) = t1
    BY <1>8 DEF TotalCost, IfSo, j, T
  <2>2. TotalCost(gm, f) = t2
    BY <1>6, <1>10 DEF TotalCost, IfSo, T
  <2> QED
    BY <2>1, <2>2
<1>17. pp <= p1 + p2
  <2>1. 1 \in Nat \ {0}
    OBVIOUS
  <2> QED
    BY <1>6, <1>11, <2>1, PaidTwice
<1>18. tt <= t1 + t2
  <2>1. j \in Nat \ {0} /\ k \in Nat \ {0}
    BY <1>9, <1>10
  <2> QED
    BY <1>7, <1>11, <2>1, PaidTwice
<1>19. p1 \in Nat /\ p2 \in Nat /\ pp \in Nat /\ t1 \in Nat /\ t2 \in Nat /\ tt \in Nat
  BY Zenon, IfSoType DEF P, T
<1> HIDE DEF p1, p2, pp, t1, t2, tt
<1> DEFINE xp == x.pay
           yp == y.pay
<1>20. xp = t1 + p1 /\ yp = slope + p2 + t2
  BY Zenon, <1>3, <1>4, <1>15, <1>16
<1> HIDE DEF xp, yp
<1>21. sum <= xp + yp
  BY <1>12, <1>13, <1>14, <1>17, <1>18, <1>19, <1>20
<1> QED
  BY Zenon, <1>5, <1>10, <1>21 DEF sum, made, xp, yp, k

LEMMA BothRight ==
  ASSUME VInv, LocksEnd(account, slopeDelta), NEW u, NEW s, NEW d, NEW r, NEW first, NEW local,
         BothSeen(u, s, d, r, first, local), NEW g,
         TwoMade(g, u, local, IncreasePart(u, s, r, first), SecondPart(u, s, d, r, local)),
         Legally(g)
  PROVE  Right(g)
<1> DEFINE x == IncreasePart(u, s, r, first)
           y == SecondPart(u, s, d, r, local)
           p == [op |-> "increase", amount |-> r.amount, end |-> 0]
           q == [op |-> "extend", amount |-> 0, end |-> r.end]
           mid == After(Vault, u, p)
           w == After(mid, u, q)
           S == NeededTwice(u, Len(account[u].powers), Len(total), BothEnds(u, q),
                            WeekSlopes(LastTime(total)))
           sum == CostSum(MakesState(u), TwicePower(u), TwiceTotal(p), q.end \notin DOMAIN slopeDelta)
<1>1. BothParts(u, s, d, r, first, local, x, y, p, q) /\ p.op = "increase" /\ q.op = "extend"
  BY DEF BothParts
<1>2. IsTwo(g, u, x, y)
  <2>1. TwoMade(g, u, local, x, y)
    OBVIOUS
  <2> HIDE DEF x, y
  <2> QED
    BY <2>1, TwoIs
<1>3. mid = After(Vault, u, p) /\ w = After(mid, u, q)
  OBVIOUS
<1>4. u \in Users
  BY Zenon DEF BothSeen
<1> HIDE DEF x, y, p, q, mid, w
<1>5. x.call = p /\ y.call = q /\ CallFits(p) /\ CallFits(q) /\ Covers(Joined(x.refs, y.refs), S)
  BY <1>1, BothName
<1>6. sum <= x.pay + y.pay /\ RowsAdded(p) \in 1 .. 3
  BY <1>1, BothPay
<1> HIDE DEF S, sum
<1>7. Double(g, u, p, q) /\ g.refs = Joined(x.refs, y.refs) /\ g.pay = x.pay + y.pay
  BY Zenon, <1>2, <1>5 DEF IsTwo
<1>8. /\ Created(g) = Boxes(w) \ Boxes(Vault) /\ Legal(Vault, u, p) /\ Len(g.calls) = 2
  BY <1>3, <1>7, DoubleIs
<1>9. account[u].end \in DOMAIN slopeDelta
  <2>1. Vault.account = account
    BY VaultNow
  <2>2. account[u].amount > 0
    BY <1>1, <1>8, <2>1 DEF Legal
  <2>3. account[u].amount # 0
    BY <2>2
  <2> QED
    BY <1>4, <2>3, EndThere
<1>10. Twice(u, p, q, mid, w)
  BY Zenon, <1>1, <1>3, <1>4, <1>5, <1>6, <1>9 DEF Twice
<1>11. CostOf(Boxes(w) \ Boxes(Vault)) = sum
  BY <1>10, TwiceCost DEF sum
<1>12. TouchedBy(g) \subseteq S
  BY <1>7, <1>10, TwiceTouches DEF S
<1>13. Reached(g)
  <2>1. Covers(g.refs, S)
    BY Zenon, <1>5, <1>7
  <2> QED
    BY <1>12, <2>1, ReachedIs
<1>14. CostOf(Created(g)) <= g.pay
  BY Zenon, <1>6, <1>7, <1>8, <1>11
<1>15. Len(g.calls) # 1
  BY <1>8
<1> QED
  BY Zenon, <1>13, <1>14, <1>15 DEF Right
-----------------------------------------------------------------------------
(* A group built on states that still hold executes.                        *)

\* How a group was built, if no row was added since the global state was read.
BuiltNow(u, r, s, g, local) ==
  \/ /\ r.op = "create" /\ Timely(s, local, now)
     /\ \E there \in BOOLEAN : /\ there <=> r.end \in DOMAIN slopeDelta
                               /\ OneMade(g, u, local, CreatePart(u, s, there, r, local))
  \/ /\ r.op = "increase" /\ s.account # {} /\ Timely(s, local, now)
     /\ OneMade(g, u, local, IncreasePart(u, s, r, local))
  \/ /\ r.op = "extend" /\ s.account # {} /\ Timely(s, local, now)
     /\ \E d : /\ d = Owed(slopeDelta, r.end)
               /\ OneMade(g, u, local, ExtendPart(u, s, d, r, local))
  \/ /\ r.op = "both" /\ s.account # {} /\ Timely(s, local, now)
     /\ \E first, d : /\ Timely(s, first, now) /\ d = Owed(slopeDelta, r.end)
                      /\ TwoMade(g, u, local, IncreasePart(u, s, r, first),
                                 SecondPart(u, s, d, r, local))
  \/ /\ r.op = "withdraw" /\ s.account # {}
     /\ OneMade(g, u, local, Withdraw(u, ReadAccount(s)))

LEMMA BuiltIs ==
  ASSUME NEW u, NEW r, NEW s, NEW g, NEW local, local = g.built,
         BuiltFrom(u, r, s, g, total, slopeDelta, now),
         r.op # "withdraw" => Len(total) = s.global.count
  PROVE  BuiltNow(u, r, s, g, local)
<1>1. CASE r.op = "create"
  <2>1. PICK there \in BOOLEAN :
          /\ Len(total) = s.global.count => there = (r.end \in DOMAIN slopeDelta)
          /\ g = Group(u, g.built, <<CreatePart(u, s, there, r, g.built)>>)
    BY Zenon, <1>1 DEF BuiltFrom
  <2>2. there = (r.end \in DOMAIN slopeDelta)
    BY Zenon, <1>1, <2>1
  <2>3. Timely(s, g.built, now)
    BY Zenon, <1>1 DEF BuiltFrom
  <2>4. OneMade(g, u, local, CreatePart(u, s, there, r, local))
    BY Zenon, <2>1 DEF OneMade
  <2>5. there <=> r.end \in DOMAIN slopeDelta
    BY <2>2
  <2> QED
    BY Zenon, <1>1, <2>3, <2>4, <2>5 DEF BuiltNow
<1>2. CASE r.op = "increase"
  <2>1. /\ s.account # {} /\ Timely(s, g.built, now)
        /\ g = Group(u, g.built, <<IncreasePart(u, s, r, g.built)>>)
    BY Zenon, <1>2 DEF BuiltFrom
  <2>2. OneMade(g, u, local, IncreasePart(u, s, r, local))
    BY Zenon, <2>1 DEF OneMade
  <2> QED
    BY Zenon, <1>2, <2>1, <2>2 DEF BuiltNow
<1>3. CASE r.op = "extend"
  <2>1. /\ s.account # {} /\ Timely(s, g.built, now)
        /\ \E d : /\ SlopeRead(s, d, r.end, total, slopeDelta)
                  /\ g = Group(u, g.built, <<ExtendPart(u, s, d, r, g.built)>>)
    BY Zenon, <1>3 DEF BuiltFrom
  <2>2. PICK d : /\ SlopeRead(s, d, r.end, total, slopeDelta)
                 /\ g = Group(u, g.built, <<ExtendPart(u, s, d, r, g.built)>>)
    BY Zenon, <2>1
  <2>3. d = Owed(slopeDelta, r.end)
    BY Zenon, <1>3, <2>2 DEF SlopeRead
  <2>4. OneMade(g, u, local, ExtendPart(u, s, d, r, local))
    BY Zenon, <2>2 DEF OneMade
  <2> QED
    BY Zenon, <1>3, <2>1, <2>3, <2>4 DEF BuiltNow
<1>4. CASE r.op = "both"
  <2>1. /\ s.account # {} /\ Timely(s, g.built, now)
        /\ \E first, d : /\ Timely(s, first, now) /\ SlopeRead(s, d, r.end, total, slopeDelta)
                         /\ g = Group(u, g.built, <<IncreasePart(u, s, r, first),
                                                    SecondPart(u, s, d, r, g.built)>>)
    BY Zenon, <1>4 DEF BuiltFrom
  <2>2. PICK first, d : /\ Timely(s, first, now) /\ SlopeRead(s, d, r.end, total, slopeDelta)
                        /\ g = Group(u, g.built, <<IncreasePart(u, s, r, first),
                                                   SecondPart(u, s, d, r, g.built)>>)
    BY Zenon, <2>1
  <2>3. d = Owed(slopeDelta, r.end)
    BY Zenon, <1>4, <2>2 DEF SlopeRead
  <2>4. TwoMade(g, u, local, IncreasePart(u, s, r, first), SecondPart(u, s, d, r, local))
    BY Zenon, <2>2 DEF TwoMade
  <2> QED
    BY Zenon, <1>4, <2>1, <2>2, <2>3, <2>4 DEF BuiltNow
<1>5. CASE r.op = "withdraw"
  <2>1. s.account # {} /\ g = Group(u, g.built, <<Withdraw(u, ReadAccount(s))>>)
    BY Zenon, <1>5 DEF BuiltFrom
  <2>2. OneMade(g, u, local, Withdraw(u, ReadAccount(s)))
    BY Zenon, <2>1 DEF OneMade
  <2> QED
    BY Zenon, <1>5, <2>1, <2>2 DEF BuiltNow
<1> QED
  BY Zenon, <1>1, <1>2, <1>3, <1>4, <1>5 DEF BuiltFrom

\* What is seen, and is still so.
SeenNow(u, r, s, local) ==
  /\ u \in Users /\ r \in Requests /\ s.account = StateOf(account[u])
  /\ r.op # "withdraw" =>
       /\ StillHolds(u, s) /\ WeeksKnown(LastTime(total)) /\ AllBegun(LastTime(total), local)
       /\ GlobalShaped(s)
LEMMA BuiltRight ==
  ASSUME VInv, LocksEnd(account, slopeDelta), NEW u, NEW r, NEW s, NEW g, NEW local,
         BuiltNow(u, r, s, g, local), SeenNow(u, r, s, local), Legally(g)
  PROVE  Right(g)
<1>1. u \in Users /\ r \in Requests /\ s.account = StateOf(account[u])
  BY Zenon DEF SeenNow
<1>2. ASSUME r.op # "withdraw", Timely(s, local, now)  PROVE Foreseen(u, s, local) /\ GlobalShaped(s)
  BY Zenon, <1>2 DEF SeenNow, Foreseen
<1>3. CASE r.op = "create"
  <2>1. Timely(s, local, now) /\ r.op # "withdraw"
    BY <1>3 DEF BuiltNow
  <2>2. PICK there \in BOOLEAN : /\ there <=> r.end \in DOMAIN slopeDelta
                                 /\ OneMade(g, u, local, CreatePart(u, s, there, r, local))
    BY Zenon, <1>3 DEF BuiltNow
  <2>3. Foreseen(u, s, local)
    BY Zenon, <1>2, <2>1
  <2> QED
    BY <1>1, <1>3, <2>2, <2>3, CreateRight
<1>4. CASE r.op = "increase"
  <2>1. /\ s.account # {} /\ Timely(s, local, now) /\ r.op # "withdraw"
        /\ OneMade(g, u, local, IncreasePart(u, s, r, local))
    BY <1>4 DEF BuiltNow
  <2>2. Foreseen(u, s, local)
    BY Zenon, <1>2, <2>1
  <2> QED
    BY <1>1, <1>4, <2>1, <2>2, IncreaseRight
<1>5. CASE r.op = "extend"
  <2>1. s.account # {} /\ Timely(s, local, now) /\ r.op # "withdraw"
    BY <1>5 DEF BuiltNow
  <2>2. PICK d : /\ d = Owed(slopeDelta, r.end)
                 /\ OneMade(g, u, local, ExtendPart(u, s, d, r, local))
    BY Zenon, <1>5 DEF BuiltNow
  <2>3. Foreseen(u, s, local)
    BY Zenon, <1>2, <2>1
  <2> QED
    BY <1>1, <1>5, <2>1, <2>2, <2>3, ExtendRight
<1>6. CASE r.op = "both"
  <2>1. s.account # {} /\ Timely(s, local, now) /\ r.op # "withdraw"
    BY <1>6 DEF BuiltNow
  <2>2. PICK first, d : /\ Timely(s, first, now) /\ d = Owed(slopeDelta, r.end)
                        /\ TwoMade(g, u, local, IncreasePart(u, s, r, first),
                                   SecondPart(u, s, d, r, local))
    BY Zenon, <1>6 DEF BuiltNow
  <2>3. BothSeen(u, s, d, r, first, local)
    BY Zenon, <1>1, <1>2, <1>6, <2>1, <2>2 DEF BothSeen
  <2> QED
    BY <2>2, <2>3, BothRight
<1>7. CASE r.op = "withdraw"
  <2>1. s.account # {} /\ OneMade(g, u, local, Withdraw(u, ReadAccount(s)))
    BY Zenon, <1>7 DEF BuiltNow
  <2> QED
    BY <1>1, <2>1, WithdrawRight
<1> QED
  BY Zenon, <1>3, <1>4, <1>5, <1>6, <1>7 DEF BuiltNow

LEMMA QuietRight ==
  ASSUME TInv, NEW c \in Calls, pc[c] = "built", Undisturbed(c), WeeksForetold(c),
         Legally(group[c])
  PROVE  /\ Right(group[c]) /\ Fitting(group[c]) /\ group[c].pay \in Nat
<1> DEFINE u == Owner[c]
           r == req[c]
           s == seen[c]
           g == group[c]
           local == g.built
<1>1. VInv /\ AllKnow /\ LocksEnd(account, slopeDelta)
  BY Zenon DEF TInv, VTyped
<1>2. /\ Fitting(g) /\ g.pay \in Nat /\ r \in Requests
      /\ BuiltFrom(u, r, s, g, total, slopeDelta, now)
  BY <1>1, BuiltFitting
<1>3. /\ s.account = StateOf(account[u])
      /\ r.op # "withdraw" =>
           /\ StillHolds(u, s) /\ WeeksKnown(LastTime(total)) /\ AllBegun(LastTime(total), local)
           /\ Len(total) = s.global.count
  BY Zenon, <1>1, QuietSeen
<1>4. u \in Users
  BY OwnerIsUser
<1>5. ASSUME r.op # "withdraw"  PROVE GlobalShaped(s)
  <2>1. CallIs(c, pc[c], r, s, g, answer[c], account[u], total, now)
    BY Zenon, <1>1, CallShapes DEF CallIsHere
  <2>2. r.op \in {"create", "increase", "extend", "both", "withdraw"}
    BY Zenon, <1>2 DEF BuiltFrom
  <2>3. pc[c] \in {"global", "increase", "built"} /\ r.op \notin {"withdraw", "tinyPower"}
    BY <1>5, <2>2
  <2>4. GlobalSeen(s, total, now)
    BY Zenon, <2>1, <2>3 DEF CallIs
  <2> QED
    BY Zenon, <2>4 DEF GlobalSeen, GlobalShaped
<1>6. SeenNow(u, r, s, local)
  BY Zenon, <1>2, <1>3, <1>4, <1>5 DEF SeenNow
<1>7. BuiltNow(u, r, s, g, local)
  <2>1. local = g.built /\ (r.op # "withdraw" => Len(total) = s.global.count)
    BY Zenon, <1>3
  <2> HIDE DEF local, g, r, s, u
  <2> QED
    BY <1>2, <2>1, BuiltIs
<1>8. Legally(g)
  OBVIOUS
<1> HIDE DEF local, g, r, s, u
<1>9. Right(g)
  BY <1>1, <1>6, <1>7, <1>8, BuiltRight
<1> QED
  BY Zenon, <1>2, <1>9 DEF g

\* A group built is left as it is until it is executed or refused.
LEMMA AnsweredByVault ==
  ASSUME VInv, [Next]_vars, NEW c \in Calls, pc[c] = "built", pc'[c] # "built"
  PROVE  \/ Execute(c) /\ pc'[c] = "executed"
         \/ Refuse(c) /\ pc'[c] = "refused"
<1>1. DOMAIN pc = Calls
  BY CallShapes DEF OfCalls
<1>2. ~ UNCHANGED pc
  OBVIOUS
<1>3. ASSUME NEW d \in Calls, NEW x, pc' = [pc EXCEPT ![d] = x] PROVE d = c /\ pc'[c] = x
  BY <1>1, <1>3
<1>4. ASSUME Tick \/ \E l \in OtherLocks : OtherLock(l)  PROVE FALSE
  BY <1>2, <1>4 DEF Tick, OtherLock, callVars
<1>5. ASSUME NEW d \in Calls,
             \/ \E r \in Requests, failed \in BOOLEAN : FetchAccountState(d, r, failed)
             \/ \E r \in Requests : FetchGlobalState(d, r) \/ FailGlobalState(d, r)
      PROVE  FALSE
  <2>1. pc[d] # "built" /\ \E x : pc' = [pc EXCEPT ![d] = x]
    BY <1>5 DEF FetchAccountState, FetchGlobalState, FailGlobalState, Answers, Go
  <2> QED
    BY <1>3, <2>1
<1>6. ASSUME NEW d \in Calls, NEW local,
             \/ GenerateCreateLock(d, local) \/ GenerateIncreaseLockAmount(d, local)
             \/ GenerateExtendLockTime(d, local) \/ GenerateIncrease(d, local)
             \/ GenerateExtension(d, local)
      PROVE  FALSE
  <2>1. pc[d] # "built" /\ \E x : pc' = [pc EXCEPT ![d] = x]
    BY <1>6 DEF GenerateCreateLock, GenerateIncreaseLockAmount, GenerateExtendLockTime,
       GenerateIncrease, GenerateExtension, Generate, Builds, Go
  <2> QED
    BY <1>3, <2>1
<1>7. ASSUME NEW d \in Calls, GenerateWithdraw(d) \/ Throw(d)  PROVE FALSE
  <2>1. pc[d] # "built" /\ \E x : pc' = [pc EXCEPT ![d] = x]
    BY <1>7 DEF GenerateWithdraw, Builds, Throw, Go
  <2> QED
    BY <1>3, <2>1
<1>8. ASSUME NEW d \in Calls, ReadBox(d)  PROVE FALSE
  BY <1>2, <1>8 DEF ReadBox
<1>9. ASSUME NEW d \in Calls, AnswerTinyPower(d) \/ AnswerTotalPower(d)  PROVE FALSE
  <2>1. pc[d] # "built" /\ \E x : pc' = [pc EXCEPT ![d] = x]
    BY <1>9 DEF AnswerTinyPower, AnswerTotalPower, Answers, Go
  <2> QED
    BY <1>3, <2>1
<1>10. ASSUME NEW d \in Calls, Execute(d)  PROVE d = c /\ pc'[c] = "executed"
  <2>1. pc' = [pc EXCEPT ![d] = "executed"]
    BY <1>10 DEF Execute
  <2> QED
    BY <1>3, <2>1
<1>11. ASSUME NEW d \in Calls, Refuse(d)  PROVE d = c /\ pc'[c] = "refused"
  <2>1. pc' = [pc EXCEPT ![d] = "refused"]
    BY <1>11 DEF Refuse
  <2> QED
    BY <1>3, <2>1
<1>12. ~ UNCHANGED vars
  BY <1>2 DEF vars, callVars
<1> QED
  BY Zenon, <1>4, <1>5, <1>6, <1>7, <1>8, <1>9, <1>10, <1>11, <1>12 DEF Next

\* What a group made right is charged.
LEMMA RightPays ==
  ASSUME VInv, VTyped, NEW g, Right(g), Fitting(g), g.pay \in Nat
  PROVE  /\ Reached(g) /\ PaidFor(g) /\ spare \in Nat
         /\ spare + g.pay - CostOf(Created(g)) \in Nat
         /\ spare + g.pay - CostOf(Created(g)) >= spare
         /\ Len(g.calls) = 1 =>
              (spare + g.pay - CostOf(Created(g))) - spare \in Extra(g.calls[1])
<1> DEFINE k == CostOf(Created(g))
           p == g.pay
<1>1. k \in Nat /\ p \in Nat /\ spare \in Nat /\ k <= p /\ Reached(g)
  BY CreatedCost DEF Right, VTyped
<1>2. Len(g.calls) = 1 => p - k \in Extra(g.calls[1])
  BY Zenon DEF Right
<1> HIDE DEF k, p
<1>3. /\ k <= spare + p /\ spare + p - k \in Nat /\ spare + p - k >= spare
      /\ (spare + p - k) - spare = p - k
  BY <1>1
<1>4. PaidFor(g)
  BY Zenon, <1>3 DEF PaidFor, k, p
<1> QED
  BY Zenon, <1>1, <1>2, <1>3, <1>4 DEF k, p

\* A group whose user may do what it does, built on states that still hold and
\* on the weeks that begin, is not refused: for locks, extensions and both at
\* once, whatever the sizes of the boxes, the histories of the accounts and the
\* steps of others, it names every box the vault touches within the limit of a
\* transaction and pays for every box made.
THEOREM QuietGroupsExecute == Spec => QuietGroupExecutes
<1> DEFINE A == \A c \in Calls :
                  pc[c] = "built" /\ Undisturbed(c) /\ WeeksForetold(c) /\ Legally(group[c])
                    => pc'[c] # "refused"
<1>1. ASSUME TInv, [Next]_vars PROVE A
  <2> SUFFICES ASSUME NEW c \in Calls, pc[c] = "built", Undisturbed(c), WeeksForetold(c),
                      Legally(group[c]), pc'[c] = "refused"
               PROVE  FALSE
    OBVIOUS
  <2>1. VInv /\ VTyped
    BY Zenon, <1>1 DEF TInv
  <2>2. Refuse(c)
    BY <1>1, <2>1, AnsweredByVault
  <2>3. ~(Legally(group[c]) /\ Reached(group[c]) /\ PaidFor(group[c]))
    BY <2>2 DEF Refuse
  <2>4. Right(group[c]) /\ Fitting(group[c]) /\ group[c].pay \in Nat
    BY <1>1, QuietRight
  <2>5. Reached(group[c]) /\ PaidFor(group[c])
    BY <2>1, <2>4, RightPays
  <2> QED
    BY Zenon, <2>3, <2>5
<1>2. TInv /\ [Next]_vars => A
  BY <1>1
<1> QED
  BY <1>2, TInvInductive, PTL DEF Spec, QuietGroupExecutes

\* Such a group pays at least what its boxes cost and, if it is of one call,
\* exactly that, or the box of a slope change more if that stood there already.
THEOREM QuietGroupsPay == Spec => PaysForItsBoxes
<1> DEFINE A == \A c \in Calls :
                  /\ pc[c] = "built" /\ pc'[c] = "executed"
                  /\ Undisturbed(c) /\ WeeksForetold(c)
                  => /\ spare' >= spare
                     /\ Len(group[c].calls) = 1
                          => spare' - spare \in
                               {0} \cup (IF group[c].calls[1].end \in DOMAIN slopeDelta
                                         THEN {Cost["sc"]} ELSE {})
<1>1. ASSUME TInv, [Next]_vars PROVE A
  <2> SUFFICES ASSUME NEW c \in Calls, pc[c] = "built", Undisturbed(c), WeeksForetold(c),
                      pc'[c] = "executed"
               PROVE  /\ spare' >= spare
                      /\ Len(group[c].calls) = 1 => spare' - spare \in Extra(group[c].calls[1])
    BY DEF Extra
  <2>1. VInv /\ VTyped
    BY Zenon, <1>1 DEF TInv
  <2>2. Execute(c)
    BY <1>1, <2>1, AnsweredByVault
  <2>3. Legally(group[c]) /\ spare' = spare + group[c].pay - CostOf(Created(group[c]))
    BY <2>2 DEF Execute
  <2>4. Right(group[c]) /\ Fitting(group[c]) /\ group[c].pay \in Nat
    BY <1>1, <2>3, QuietRight
  <2> DEFINE new == spare + group[c].pay - CostOf(Created(group[c]))
  <2>5. new >= spare /\ (Len(group[c].calls) = 1 => new - spare \in Extra(group[c].calls[1]))
    BY <2>1, <2>4, RightPays
  <2>6. spare' = new
    BY Zenon, <2>3
  <2> HIDE DEF new
  <2> QED
    BY <2>5, <2>6
<1>2. TInv /\ [Next]_vars => A
  BY <1>1
<1> QED
  BY <1>2, TInvInductive, PTL DEF Spec, PaysForItsBoxes
=============================================================================
