-------------------------- MODULE Governance_proofs --------------------------
(***************************************************************************)
(* Proofs about Vault and Voting, for any calls of any accounts, amounts,  *)
(* ends, sizes of boxes and clocks.  VInv says of the chain that every     *)
(* history is in order and each row of power is that of the lock it stands *)
(* for, and of each call what it has seen of them and how that relates to  *)
(* what there is by now: histories only grow, and what is added is of that *)
(* time or of a week's beginning.  From it: a power answered is that of    *)
(* the lock at some moment of the call, and the boxes of total power a     *)
(* group names are enough while the rows fit in two.  WInv adds the voting *)
(* contracts: a call that votes has all rows older than its read of the    *)
(* account, and the row its group names is the last by its time among      *)
(* them.                                                                   *)
(***************************************************************************)
EXTENDS Voting, AmmMath_proofs, SequenceTheorems
-----------------------------------------------------------------------------
(* Arithmetic.                                                              *)

LEMMA DivType ==
  ASSUME NEW n \in Int, NEW d \in Nat \ {0}
  PROVE  n \div d \in Int /\ (n >= 0 => n \div d \in Nat) /\ (n <= 0 => n \div d <= 0)
  OBVIOUS

LEMMA SlopeType ==
  ASSUME NEW amount \in Nat
  PROVE  getSlope(amount) \in Nat
<1>1. amount * Unit \in Nat /\ MaxLockTime \in Nat \ {0}
  BY SizeAssumption, ProductMonotonic
<1> QED
  BY <1>1, DivType DEF getSlope

LEMMA BiasType ==
  ASSUME NEW slope \in Nat, NEW d \in Int
  PROVE  /\ getBias(slope, d) \in Int
         /\ d >= 0 => getBias(slope, d) \in Nat
         /\ d <= 0 => getBias(slope, d) <= 0
<1>1. slope * d \in Int /\ (d >= 0 => slope * d >= 0) /\ (d <= 0 => slope * d <= 0)
  BY Z3
<1>2. Unit \in Nat \ {0}
  BY SizeAssumption
<1> QED
  BY <1>1, <1>2, DivType DEF getBias

LEMMA ClampType ==
  ASSUME NEW n \in Int
  PROVE  AtLeast0(n) \in Nat /\ AtLeast0(n) >= n /\ (n >= 0 => AtLeast0(n) = n)
  BY DEF AtLeast0

LEMMA PowerType ==
  ASSUME NEW row \in Rows, NEW at \in Int
  PROVE  PowerOf(row, at) \in Nat
<1>1. row.bias \in Nat /\ row.slope \in Nat /\ row.timestamp \in Nat
  BY DEF Rows
<1>2. at - row.timestamp \in Int
  BY <1>1
<1>3. getBias(row.slope, at - row.timestamp) \in Int
  BY <1>1, <1>2, BiasType
<1> DEFINE lost == getBias(row.slope, at - row.timestamp)
<1>4. PowerOf(row, at) = AtLeast0(row.bias - lost)
  BY DEF PowerOf
<1> HIDE DEF lost
<1>5. row.bias - lost \in Int
  BY <1>1, <1>3 DEF lost
<1> QED
  BY <1>4, <1>5, ClampType

LEMMA PowerRowType ==
  ASSUME NEW lock \in Locks
  PROVE  PowerRow(lock) \in Rows /\ PowerRow(lock).timestamp = lock.timestamp
<1>1. lock.timestamp \in Nat /\ lock.amount \in Nat /\ lock.end \in Nat
  BY DEF Locks
<1>2. getSlope(lock.amount) \in Nat
  BY <1>1, SlopeType
<1>3. AtLeast0(lock.end - lock.timestamp) \in Nat
  BY <1>1, ClampType
<1>4. getBias(getSlope(lock.amount), AtLeast0(lock.end - lock.timestamp)) \in Nat
  BY <1>2, <1>3, BiasType
<1> QED
  BY <1>1, <1>2, <1>4 DEF PowerRow, Rows
-----------------------------------------------------------------------------
(* Histories.                                                               *)

\* q is p and what was added to it.
Prefix(p, q) == Len(p) <= Len(q) /\ \A i \in 1 .. Len(p) : q[i] = p[i]

\* All that was added is of a given time.
AddedAt(p, q, at) ==
  Prefix(p, q) /\ \A i \in Len(p) + 1 .. Len(q) : q[i].timestamp = at

LEMMA Appended ==
  ASSUME NEW S, NEW s \in Seq(S), NEW x \in S
  PROVE  /\ Append(s, x) \in Seq(S) /\ Len(s) \in Nat /\ Len(Append(s, x)) = Len(s) + 1
         /\ DOMAIN s = 1 .. Len(s) /\ DOMAIN Append(s, x) = 1 .. Len(s) + 1
         /\ \A i \in 1 .. Len(s) : Append(s, x)[i] = s[i]
         /\ Append(s, x)[Len(s) + 1] = x
         /\ Append(s, x) # <<>>
  OBVIOUS

LEMMA RelockedIsAccount ==
  ASSUME now \in Nat, NEW acc, IsAccount(acc, now), NEW amount \in Nat, NEW end \in Nat
  PROVE  /\ IsAccount(Relocked(acc, amount, end), now)
         /\ AddedAt(acc.powers, Relocked(acc, amount, end).powers, now)
         /\ Prefix(acc.log, Relocked(acc, amount, end).log)
         /\ Len(Relocked(acc, amount, end).powers) = Len(acc.powers) + 1
         /\ Relocked(acc, amount, end).powers # <<>>
<1> DEFINE lock == [timestamp |-> now, amount |-> amount, end |-> end]
           row == PowerRow(lock)
           p == Append(acc.powers, row)
           l == Append(acc.log, lock)
           new == Relocked(acc, amount, end)
<1>1. lock \in Locks
  BY DEF Locks
<1>2. row \in Rows /\ row.timestamp = now
  BY <1>1, PowerRowType
<1>3. new = [exists |-> TRUE, amount |-> amount, end |-> end, powers |-> p, log |-> l]
  BY DEF Relocked
<1>4. new.exists = TRUE /\ new.amount = amount /\ new.end = end /\ new.powers = p /\ new.log = l
  BY <1>3
<1>5. /\ acc.powers \in Seq(Rows) /\ acc.log \in Seq(Locks) /\ Len(acc.powers) = Len(acc.log)
      /\ InOrder(acc.powers, now)
      /\ \A i \in DOMAIN acc.log : acc.powers[i] = PowerRow(acc.log[i])
  BY DEF IsAccount
<1> DEFINE n == Len(acc.powers)
<1>6. row = PowerRow(lock)
  OBVIOUS
<1> HIDE DEF lock, row
<1>7. /\ p \in Seq(Rows) /\ n \in Nat /\ Len(p) = n + 1 /\ p # <<>>
      /\ DOMAIN acc.powers = 1 .. n /\ DOMAIN p = 1 .. n + 1
      /\ (\A i \in 1 .. n : p[i] = acc.powers[i]) /\ p[n + 1] = row
  BY <1>2, <1>5, Appended
<1>8. /\ l \in Seq(Locks) /\ Len(l) = n + 1
      /\ DOMAIN acc.log = 1 .. n /\ DOMAIN l = 1 .. n + 1
      /\ (\A i \in 1 .. n : l[i] = acc.log[i]) /\ l[n + 1] = lock
  BY <1>1, <1>5, Appended
<1> HIDE DEF n, p, l, new
<1>9. \A i \in DOMAIN l : p[i] = PowerRow(l[i])
  <2> TAKE i \in DOMAIN l
  <2>1. i \in 1 .. n \/ i = n + 1
    BY <1>7, <1>8
  <2> QED
    BY <1>5, <1>6, <1>7, <1>8, <2>1
<1>10. InOrder(p, now)
  <2> SUFFICES ASSUME NEW i \in DOMAIN p, NEW j \in DOMAIN p, i <= j
               PROVE  p[i].timestamp <= p[j].timestamp /\ p[j].timestamp <= now
    BY DEF InOrder
  <2>1. CASE j \in 1 .. n
    BY <1>5, <1>7, <2>1 DEF InOrder
  <2>2. CASE j = n + 1 /\ i \in 1 .. n
    BY <1>2, <1>5, <1>7, <2>2 DEF InOrder
  <2>3. CASE j = n + 1 /\ i = n + 1
    BY <1>2, <1>7, <2>3
  <2> QED
    BY <1>7, <2>1, <2>2, <2>3
<1>11. IsAccount(new, now)
  BY <1>4, <1>7, <1>8, <1>9, <1>10 DEF IsAccount
<1>12. AddedAt(acc.powers, p, now) /\ Prefix(acc.log, l)
  BY <1>2, <1>5, <1>7, <1>8 DEF AddedAt, Prefix, n
<1> QED
  BY <1>4, <1>7, <1>11, <1>12 DEF new, n

LEMMA AccountLater ==
  ASSUME NEW acc, NEW t \in Nat, NEW at \in Nat, t <= at, IsAccount(acc, t)
  PROVE  IsAccount(acc, at)
<1>1. InOrder(acc.powers, t) /\ acc.powers \in Seq(Rows)
  BY DEF IsAccount
<1>2. \A i \in DOMAIN acc.powers : acc.powers[i].timestamp \in Nat
  <2> TAKE i \in DOMAIN acc.powers
  <2>1. acc.powers[i] \in Rows
    BY <1>1
  <2> QED
    BY <2>1 DEF Rows
<1>3. InOrder(acc.powers, at)
  BY <1>1, <1>2 DEF InOrder
<1> QED
  BY <1>3 DEF IsAccount
-----------------------------------------------------------------------------
(* Functions defined from their values before.                              *)

\* f begins with a, and goes on by g.
Unfolds(f, n, a, g) == f = [i \in 0 .. n |-> IF i = 0 THEN a ELSE g[i][f[i - 1]]]

LEMMA UnfoldedAt ==
  ASSUME NEW n \in Nat, NEW a, NEW g, NEW f, Unfolds(f, n, a, g)
  PROVE  /\ DOMAIN f = 0 .. n /\ f[0] = a
         /\ \A i \in 1 .. n : f[i] = g[i][f[i - 1]]
<1>1. /\ DOMAIN f = 0 .. n
      /\ \A i \in 0 .. n : f[i] = IF i = 0 THEN a ELSE g[i][f[i - 1]]
  BY Zenon DEF Unfolds
<1>2. f[0] = a
  <2>1. 0 \in 0 .. n
    OBVIOUS
  <2>2. f[0] = IF 0 = 0 THEN a ELSE g[0][f[0 - 1]]
    BY Zenon, <1>1, <2>1
  <2> QED
    BY Zenon, <2>2
<1>3. \A i \in 1 .. n : f[i] = g[i][f[i - 1]]
  <2> TAKE i \in 1 .. n
  <2>1. i \in 0 .. n /\ i # 0
    OBVIOUS
  <2>2. f[i] = IF i = 0 THEN a ELSE g[i][f[i - 1]]
    BY Zenon, <1>1, <2>1
  <2> QED
    BY Zenon, <2>1, <2>2
<1> QED
  BY <1>1, <1>2, <1>3

\* What holds at first and is kept from each to the next holds of all.
LEMMA Stays ==
  ASSUME NEW n \in Nat, NEW X, NEW f, f[0] \in X,
         \A i \in 1 .. n : f[i - 1] \in X => f[i] \in X
  PROVE  \A i \in 0 .. n : f[i] \in X
<1> DEFINE T == {i \in 0 .. n : f[i] \notin X}
<1>1. CASE T = {}
  BY <1>1
<1>2. CASE T # {}
  <2>1. T \subseteq Nat
    OBVIOUS
  <2>2. PICK m \in T : \A k \in T : m <= k
    BY <1>2, <2>1, LeastElement
  <2>3. m \in 1 .. n
    BY <2>2
  <2>4. m - 1 \in 0 .. n /\ m - 1 \notin T
    BY <2>2, <2>3
  <2>5. f[m - 1] \in X
    BY <2>4
  <2> QED
    BY <2>2, <2>3, <2>5
<1> QED
  BY <1>1, <1>2

\* So such a function stays where g does.
LEMMA UnfoldedType ==
  ASSUME NEW n \in Nat, NEW X, NEW a \in X, NEW g,
         \A x \in X, i \in 1 .. n : g[i][x] \in X,
         NEW f, Unfolds(f, n, a, g)
  PROVE  /\ f \in [0 .. n -> X] /\ f[0] = a
         /\ \A i \in 1 .. n : f[i] = g[i][f[i - 1]]
<1>1. /\ DOMAIN f = 0 .. n /\ f[0] = a
      /\ \A i \in 1 .. n : f[i] = g[i][f[i - 1]]
  BY UnfoldedAt
<1>2. f[0] \in X
  BY Zenon, <1>1
<1>3. \A i \in 1 .. n : f[i - 1] \in X => f[i] \in X
  BY Zenon, <1>1
<1>4. \A i \in 0 .. n : f[i] \in X
  BY <1>2, <1>3, Stays
<1>5. f = [i \in 0 .. n |-> f[i]]
  BY Zenon DEF Unfolds
<1>6. f \in [0 .. n -> X]
  BY Zenon, <1>4, <1>5
<1> QED
  BY Zenon, <1>1, <1>6

\* There is one.
LEMMA Unfolding ==
  ASSUME NEW n \in Nat, NEW X, NEW a \in X, NEW g,
         \A x \in X, i \in 1 .. n : g[i][x] \in X
  PROVE  \E f : Unfolds(f, n, a, g)
<1> DEFINE T == {k \in 0 .. n : ~ \E f : Unfolds(f, k, a, g)}
<1>1. CASE T = {}
  <2>1. n \in 0 .. n
    OBVIOUS
  <2> QED
    BY Zenon, <1>1, <2>1
<1>2. CASE T # {}
  <2>1. T \subseteq Nat
    OBVIOUS
  <2>2. PICK m \in T : \A k \in T : m <= k
    BY <1>2, <2>1, LeastElement
  <2>3. CASE m = 0
    <3> DEFINE f == [i \in 0 .. 0 |-> a]
    <3>1. \A i \in 0 .. 0 : a = IF i = 0 THEN a ELSE g[i][f[i - 1]]
      OBVIOUS
    <3>2. f = [i \in 0 .. 0 |-> IF i = 0 THEN a ELSE g[i][f[i - 1]]]
      BY <3>1
    <3>3. Unfolds(f, 0, a, g)
      BY <3>2 DEF Unfolds
    <3> HIDE DEF f
    <3> QED
      BY <2>2, <2>3, <3>3
  <2>4. CASE m # 0
    <3>1. m \in 1 .. n /\ m - 1 \in 0 .. n /\ m - 1 \in Nat /\ m - 1 \notin T
      BY <2>2, <2>4
    <3>2. PICK f : Unfolds(f, m - 1, a, g)
      BY <3>1
    <3>3. f[0] = a /\ \A i \in 1 .. m - 1 : f[i] = g[i][f[i - 1]]
      BY <3>1, <3>2, UnfoldedAt
    <3> DEFINE h == [i \in 0 .. m |-> IF i = m THEN g[m][f[m - 1]] ELSE f[i]]
    <3>4. \A i \in 0 .. m : h[i] = IF i = 0 THEN a ELSE g[i][h[i - 1]]
      <4> TAKE i \in 0 .. m
      <4>1. CASE i = 0
        BY <3>1, <3>3, <4>1
      <4>2. CASE i = m
        <5>1. h[m - 1] = f[m - 1] /\ h[m] = g[m][f[m - 1]]
          BY <3>1
        <5> HIDE DEF h
        <5> QED
          BY <3>1, <4>2, <5>1
      <4>3. CASE i # 0 /\ i # m
        <5>1. i \in 1 .. m - 1 /\ i - 1 \in 0 .. m /\ i - 1 # m
          BY <3>1, <4>3
        <5>2. h[i] = f[i] /\ h[i - 1] = f[i - 1]
          BY <4>3, <5>1
        <5> HIDE DEF h
        <5> QED
          BY <3>3, <4>3, <5>1, <5>2
      <4> QED
        BY <4>1, <4>2, <4>3
    <3>5. h = [i \in 0 .. m |-> h[i]]
      OBVIOUS
    <3> HIDE DEF h
    <3>6. h = [i \in 0 .. m |-> IF i = 0 THEN a ELSE g[i][h[i - 1]]]
      BY Zenon, <3>4, <3>5
    <3>7. Unfolds(h, m, a, g)
      BY Zenon, <3>6 DEF Unfolds
    <3> QED
      BY <2>2, <3>7
  <2> QED
    BY <2>3, <2>4
<1> QED
  BY <1>1, <1>2
-----------------------------------------------------------------------------
(* Weeks.                                                                   *)

LEMMA WeekIs == WEEK \in Nat \ {0} /\ ArrayLen \in Nat \ {0}
  BY SizeAssumption

\* Multiples of a week.
LEMMA WeekOf ==
  ASSUME NEW t \in Nat
  PROVE  /\ t \div WEEK \in Nat /\ WEEK * (t \div WEEK) <= t
         /\ t < WEEK * (t \div WEEK) + WEEK
         /\ t % WEEK = t - WEEK * (t \div WEEK)
         /\ (t % WEEK = 0 <=> t = WEEK * (t \div WEEK))
<1>1. WEEK \in Nat \ {0}
  BY WeekIs
<1>2. /\ t \div WEEK \in Nat /\ WEEK * (t \div WEEK) <= t
      /\ t < WEEK * (t \div WEEK) + WEEK
  BY <1>1, DivBound
<1>3. t % WEEK = t - WEEK * (t \div WEEK)
  BY <1>1, Z3
<1>4. WEEK * (t \div WEEK) \in Nat
  BY <1>1, <1>2, ProductMonotonic
<1> DEFINE p == WEEK * (t \div WEEK)
<1> QED
  BY <1>2, <1>3, <1>4

LEMMA Multiple ==
  ASSUME NEW k \in Nat
  PROVE  WEEK * k \in Nat /\ (WEEK * k) % WEEK = 0 /\ (WEEK * k) \div WEEK = k
<1>1. WEEK \in Nat \ {0}
  BY WeekIs
<1>2. WEEK * k \in Nat
  BY <1>1, Z3
<1>3. (WEEK * k) \div WEEK = k
  BY <1>1, Z3
<1>4. (WEEK * k) % WEEK = 0
  BY <1>2, <1>3, WeekOf
<1> QED
  BY <1>2, <1>3, <1>4

LEMMA LessWeeks ==
  ASSUME NEW s \in Nat, NEW t \in Nat
  PROVE  /\ s <= t => s \div WEEK <= t \div WEEK
         /\ WEEK * s <= WEEK * t <=> s <= t
         /\ WEEK * s < WEEK * t <=> s < t
         /\ WEEK * (s + 1) = WEEK * s + WEEK
<1>1. WEEK \in Nat \ {0}
  BY WeekIs
<1>2. WEEK * (s + 1) = WEEK * s + WEEK /\ WEEK * (t + 1) = WEEK * t + WEEK
  BY <1>1, Z3
<1>3. \A a, b \in Nat : a <= b => WEEK * a <= WEEK * b /\ WEEK * a \in Nat /\ WEEK * b \in Nat
  BY <1>1, Z3
<1>4. s < t => s + 1 <= t
  OBVIOUS
<1>5. t < s => t + 1 <= s
  OBVIOUS
<1>6. /\ (WEEK * s <= WEEK * t <=> s <= t)
      /\ (WEEK * s < WEEK * t <=> s < t)
  <2>1. s < t => WEEK * s + WEEK <= WEEK * t
    BY <1>2, <1>3, <1>4
  <2>2. t < s => WEEK * t + WEEK <= WEEK * s
    BY <1>2, <1>3, <1>5
  <2>3. WEEK * s \in Nat /\ WEEK * t \in Nat
    BY <1>3
  <2>4. s = t => WEEK * s = WEEK * t
    OBVIOUS
  <2> DEFINE a == WEEK * s
             b == WEEK * t
  <2>5. /\ (s < t => a + WEEK <= b) /\ (t < s => b + WEEK <= a) /\ a \in Nat /\ b \in Nat
        /\ (s = t => a = b)
    BY <2>1, <2>2, <2>3, <2>4
  <2> HIDE DEF a, b
  <2>6. (a <= b <=> s <= t) /\ (a < b <=> s < t)
    BY <1>1, <2>5
  <2> QED
    BY <2>6 DEF a, b
<1>7. ASSUME s <= t  PROVE s \div WEEK <= t \div WEEK
  <2> DEFINE p == s \div WEEK
             q == t \div WEEK
  <2>1. p \in Nat /\ q \in Nat /\ WEEK * p <= s /\ t < WEEK * q + WEEK
    BY WeekOf
  <2> HIDE DEF p, q
  <2>2. CASE q < p
    <3>1. q + 1 <= p /\ q + 1 \in Nat
      BY <2>1, <2>2
    <3>2. WEEK * (q + 1) <= WEEK * p /\ WEEK * p \in Nat
      BY <1>3, <2>1, <3>1
    <3>3. WEEK * (q + 1) = WEEK * q + WEEK /\ WEEK * q \in Nat
      BY <1>1, <2>1, Z3
    <3> DEFINE a == WEEK * p
               b == WEEK * q
    <3>4. b + WEEK <= a /\ a \in Nat /\ b \in Nat /\ a <= s /\ t < b + WEEK
      BY <2>1, <3>2, <3>3
    <3> HIDE DEF a, b
    <3>5. FALSE
      BY <1>1, <1>7, <3>4
    <3> QED
      BY <3>5
  <2>3. CASE p <= q
    BY <2>3 DEF p, q
  <2> QED
    BY <2>1, <2>2, <2>3
<1> QED
  BY <1>2, <1>6, <1>7
-----------------------------------------------------------------------------
(* The weeks begun and the rows made for them.                              *)

LEMMA WeeksCount ==
  ASSUME NEW s \in Nat, NEW e \in Nat, s <= e
  PROVE  /\ IsFiniteSet(Weeks(s, e))
         /\ Cardinality(Weeks(s, e)) = e \div WEEK - s \div WEEK
<1> DEFINE p == s \div WEEK
           q == e \div WEEK
           f == [k \in p + 1 .. q |-> WEEK * k]
<1>1. /\ p \in Nat /\ q \in Nat /\ p <= q
      /\ WEEK * p <= s /\ s < WEEK * p + WEEK
      /\ WEEK * q <= e /\ e < WEEK * q + WEEK
  BY WeekOf, LessWeeks
<1>2. WEEK \in Nat \ {0}
  BY WeekIs
<1>3. \A k \in p + 1 .. q : WEEK * k \in Weeks(s, e)
  <2> HIDE DEF p, q
  <2> TAKE k \in p + 1 .. q
  <2>1. k \in Nat /\ p + 1 \in Nat /\ p + 1 <= k /\ k <= q
    BY <1>1
  <2>2. WEEK * (p + 1) <= WEEK * k /\ WEEK * k <= WEEK * q /\ WEEK * (p + 1) = WEEK * p + WEEK
    BY <1>1, <2>1, LessWeeks
  <2>3. WEEK * k \in Nat /\ (WEEK * k) % WEEK = 0 /\ WEEK * p \in Nat /\ WEEK * q \in Nat
    BY <1>1, <2>1, Multiple
  <2> DEFINE a == WEEK * p
             b == WEEK * q
             x == WEEK * k
  <2>4. /\ x \in Nat /\ a \in Nat /\ b \in Nat /\ a + WEEK <= x /\ x <= b /\ x % WEEK = 0
        /\ s < a + WEEK /\ b <= e
    BY <1>1, <2>2, <2>3
  <2> HIDE DEF a, b, x
  <2>5. x \in s + 1 .. e
    BY <1>2, <2>4
  <2>6. x \in Weeks(s, e)
    BY <2>4, <2>5 DEF Weeks
  <2> QED
    BY <2>6 DEF x
<1>4. \A t \in Weeks(s, e) : t \div WEEK \in p + 1 .. q /\ t = WEEK * (t \div WEEK)
  <2> HIDE DEF p, q
  <2> TAKE t \in Weeks(s, e)
  <2>1. t \in Nat /\ s < t /\ t <= e /\ t % WEEK = 0
    BY DEF Weeks
  <2> DEFINE k == t \div WEEK
  <2>2. k \in Nat /\ t = WEEK * k
    BY <2>1, WeekOf
  <2> HIDE DEF k
  <2>3. k <= q
    BY <2>1, LessWeeks DEF k, q
  <2>4. WEEK * p <= WEEK * k /\ ~ k <= p
    <3>1. CASE k <= p
      <4>1. WEEK * k <= WEEK * p
        BY <1>1, <2>2, <3>1, LessWeeks
      <4>2. WEEK * p \in Nat
        BY <1>1, Multiple
      <4> DEFINE a == WEEK * p
      <4>3. a \in Nat /\ t <= a /\ a <= s
        BY <1>1, <2>2, <4>1, <4>2
      <4> HIDE DEF a
      <4> QED
        BY <2>1, <4>3
    <3>2. CASE ~ k <= p
      BY <1>1, <2>2, <3>2, LessWeeks
    <3> QED
      BY <3>1, <3>2
  <2> QED
    BY <1>1, <2>2, <2>3, <2>4 DEF k
<1>5. f \in [p + 1 .. q -> Weeks(s, e)]
  BY <1>3
<1>6. \A i, j \in p + 1 .. q : f[i] = f[j] => i = j
  <2> HIDE DEF p, q
  <2> TAKE i, j \in p + 1 .. q
  <2>1. i \in Nat /\ j \in Nat
    BY <1>1
  <2>2. (WEEK * i) \div WEEK = i /\ (WEEK * j) \div WEEK = j
    BY <2>1, Multiple
  <2>3. f[i] = WEEK * i /\ f[j] = WEEK * j
    OBVIOUS
  <2> HIDE DEF f
  <2> QED
    BY <2>2, <2>3
<1>7. \A t \in Weeks(s, e) : \E k \in p + 1 .. q : f[k] = t
  <2> TAKE t \in Weeks(s, e)
  <2>1. t \div WEEK \in p + 1 .. q /\ t = WEEK * (t \div WEEK)
    BY <1>4
  <2> QED
    BY <2>1
<1> HIDE DEF f
<1>8. f \in Bijection(p + 1 .. q, Weeks(s, e))
  <2>1. f \in Injection(p + 1 .. q, Weeks(s, e))
    BY <1>5, <1>6 DEF Injection, IsInjective
  <2>2. f \in Surjection(p + 1 .. q, Weeks(s, e))
    BY <1>5, <1>7 DEF Surjection
  <2> QED
    BY <2>1, <2>2 DEF Bijection
<1> HIDE DEF p, q
<1>9. IsFiniteSet(p + 1 .. q) /\ Cardinality(p + 1 .. q) = q - p
  <2>1. p + 1 \in Int /\ q \in Int /\ p \in Nat /\ p <= q
    BY <1>1
  <2>2. /\ IsFiniteSet(p + 1 .. q)
        /\ Cardinality(p + 1 .. q) = IF p + 1 > q THEN 0 ELSE q - (p + 1) + 1
    BY Zenon, <2>1, FS_Interval
  <2> DEFINE n == Cardinality(p + 1 .. q)
  <2> HIDE DEF n
  <2>3. n = IF p + 1 > q THEN 0 ELSE q - (p + 1) + 1
    BY <2>2 DEF n
  <2>4. n = q - p
    BY <2>1, <2>3
  <2> QED
    BY <2>2, <2>4 DEF n
<1>10. ExistsBijection(p + 1 .. q, Weeks(s, e))
  BY <1>8 DEF ExistsBijection
<1>11. IsFiniteSet(Weeks(s, e)) /\ Cardinality(Weeks(s, e)) = q - p
  BY <1>9, <1>10, FS_Bijection
<1> QED
  BY <1>11 DEF p, q
-----------------------------------------------------------------------------
(* The rows a checkpoint adds.                                              *)

\* The times of the rows added after one of time start.
CheckWeeks(start) == Cardinality(Weeks(start, now - 1))
CheckAt(start, i) ==
  IF i <= CheckWeeks(start) THEN (start \div WEEK + 1) * WEEK + (i - 1) * WEEK ELSE now

LEMMA CheckWeeksAre ==
  ASSUME now \in Nat, NEW start \in Nat, start <= now
  PROVE  /\ CheckWeeks(start) \in Nat
         /\ \A k \in Nat : k <= CheckWeeks(start) /\ k > 0 =>
              /\ WEEK * (start \div WEEK + k) < now /\ start < WEEK * (start \div WEEK + k)
<1>1. CASE start = now
  <2>1. Weeks(start, now - 1) = {}
    BY <1>1 DEF Weeks
  <2>2. CheckWeeks(start) = 0
    BY <2>1, FS_EmptySet DEF CheckWeeks
  <2> QED
    BY <2>2
<1>2. CASE start < now
  <2> DEFINE e == now - 1
             p == start \div WEEK
             q == e \div WEEK
  <2>1. e \in Nat /\ start <= e
    BY <1>2
  <2>2. CheckWeeks(start) = q - p
    BY <2>1, WeeksCount DEF CheckWeeks
  <2>3. p \in Nat /\ q \in Nat /\ p <= q /\ start < WEEK * p + WEEK /\ WEEK * q <= e
    BY <2>1, WeekOf, LessWeeks
  <2>4. WEEK \in Nat \ {0}
    BY WeekIs
  <2> HIDE DEF p, q
  <2>5. ASSUME NEW k \in Nat, k <= q - p, k > 0
        PROVE  WEEK * (p + k) < now /\ start < WEEK * (p + k)
    <3>1. p + k \in Nat /\ p + k <= q /\ p + 1 <= p + k /\ p + 1 \in Nat
      BY <2>3, <2>5
    <3>2. /\ WEEK * (p + k) <= WEEK * q /\ WEEK * (p + 1) <= WEEK * (p + k)
          /\ WEEK * (p + 1) = WEEK * p + WEEK
      BY <2>3, <3>1, LessWeeks
    <3>3. WEEK * (p + k) \in Nat /\ WEEK * q \in Nat /\ WEEK * p \in Nat
      BY <2>3, <3>1, Multiple
    <3> DEFINE x == WEEK * (p + k)
               y == WEEK * q
               z == WEEK * p
    <3>4. x \in Nat /\ y \in Nat /\ z \in Nat /\ x <= y /\ z + WEEK <= x /\ y <= e /\ start < z + WEEK
      BY <2>3, <3>2, <3>3
    <3> HIDE DEF x, y, z
    <3>5. x < now /\ start < x
      BY <2>4, <3>4
    <3> QED
      BY <3>5 DEF x
  <2> QED
    BY <2>2, <2>3, <2>5 DEF p
<1> QED
  BY <1>1, <1>2

LEMMA CheckAtIs ==
  ASSUME now \in Nat, NEW start \in Nat, start <= now, NEW i \in 1 .. CheckWeeks(start) + 1
  PROVE  /\ CheckAt(start, i) \in Nat /\ start <= CheckAt(start, i) /\ CheckAt(start, i) <= now
         /\ CheckAt(start, i) = now \/ CheckAt(start, i) % WEEK = 0
         /\ i = CheckWeeks(start) + 1 => CheckAt(start, i) = now
         /\ i <= CheckWeeks(start) => CheckAt(start, i) = WEEK * (start \div WEEK + i)
<1> DEFINE n == CheckWeeks(start)
           p == start \div WEEK
<1>1. /\ n \in Nat /\ p \in Nat /\ WEEK \in Nat \ {0}
      /\ \A k \in Nat : k <= n /\ k > 0 => WEEK * (p + k) < now /\ start < WEEK * (p + k)
  BY CheckWeeksAre, WeekOf, WeekIs
<1>2. CASE i <= n
  <2>1. CheckAt(start, i) = (p + 1) * WEEK + (i - 1) * WEEK
    BY <1>2 DEF CheckAt
  <2> HIDE DEF n, p
  <2>2. i \in Nat /\ p + i \in Nat /\ i > 0 /\ i \in Int
    BY <1>1 DEF n
  <2>3. (p + 1) * WEEK + (i - 1) * WEEK = WEEK * (p + i)
    BY <1>1, <2>2, Z3
  <2>4. WEEK * (p + i) < now /\ start < WEEK * (p + i)
    BY <1>1, <1>2, <2>2
  <2>5. WEEK * (p + i) \in Nat /\ (WEEK * (p + i)) % WEEK = 0
    BY <2>2, Multiple
  <2>6. i # n + 1
    BY <1>1, <1>2, <2>2
  <2> DEFINE x == WEEK * (p + i)
  <2>7. x \in Nat /\ x % WEEK = 0 /\ x < now /\ start < x /\ CheckAt(start, i) = x
    BY <2>1, <2>3, <2>4, <2>5
  <2> HIDE DEF x
  <2>8. x <= now /\ start <= x
    BY <2>7
  <2> QED
    BY <2>6, <2>7, <2>8 DEF x, n, p
<1>3. CASE ~ i <= n
  <2>1. CheckAt(start, i) = now
    BY <1>3 DEF CheckAt
  <2> QED
    BY <1>3, <2>1
<1> QED
  BY <1>2, <1>3

LEMMA CheckAtInOrder ==
  ASSUME now \in Nat, NEW start \in Nat, start <= now,
         NEW i \in 1 .. CheckWeeks(start) + 1, NEW j \in 1 .. CheckWeeks(start) + 1, i <= j
  PROVE  CheckAt(start, i) <= CheckAt(start, j)
<1> DEFINE n == CheckWeeks(start)
           p == start \div WEEK
           a == CheckAt(start, i)
           b == CheckAt(start, j)
<1>1. n \in Nat /\ p \in Nat
  BY CheckWeeksAre, WeekOf
<1>2. /\ a \in Nat /\ a <= now /\ (i <= n => a = WEEK * (p + i))
      /\ (j <= n => b = WEEK * (p + j)) /\ (j = n + 1 => b = now)
  BY CheckAtIs
<1>3. i \in 1 .. n + 1 /\ j \in 1 .. n + 1
  OBVIOUS
<1> HIDE DEF n, p, a, b
<1>4. CASE j <= n
  <2>1. i <= n /\ p + i \in Nat /\ p + j \in Nat /\ p + i <= p + j
    BY <1>1, <1>3, <1>4
  <2>2. WEEK * (p + i) <= WEEK * (p + j)
    BY <2>1, LessWeeks
  <2>3. a <= b
    BY <1>2, <1>4, <2>1, <2>2
  <2> QED
    BY <2>3 DEF a, b
<1>5. CASE ~ j <= n
  <2>1. j = n + 1
    BY <1>1, <1>3, <1>5
  <2>2. a <= b
    BY <1>2, <2>1
  <2> QED
    BY <2>2 DEF a, b
<1> QED
  BY <1>4, <1>5

\* Slope changes as they are kept.
Deltas(d) == \A t \in DOMAIN d : t \in Nat /\ d[t] \in Int

LEMMA DecayedType ==
  ASSUME NEW row \in Rows, NEW at \in Nat, NEW deltas, Deltas(deltas)
  PROVE  Decayed(row, at, deltas) \in Rows /\ Decayed(row, at, deltas).timestamp = at
<1> DEFINE due == IF at % WEEK = 0 /\ at \in DOMAIN deltas THEN deltas[at] ELSE 0
           power == PowerOf(row, at)
           slope == AtLeast0(row.slope - due)
<1>1. Decayed(row, at, deltas) = [timestamp |-> at, bias |-> power, slope |-> slope]
  BY DEF Decayed
<1>2. due \in Int
  BY DEF Deltas
<1>3. row.slope \in Nat
  BY DEF Rows
<1>4. power \in Nat
  BY PowerType
<1> HIDE DEF due, power
<1>5. row.slope - due \in Int
  BY <1>2, <1>3
<1>6. slope \in Nat
  BY <1>5, ClampType
<1> HIDE DEF slope
<1> QED
  BY <1>1, <1>4, <1>6 DEF Rows

\* What was added are rows of weeks begun, and rows of a given time.
Checked(p, q, at) ==
  /\ Prefix(p, q) /\ Len(p) < Len(q)
  /\ \A i \in Len(p) + 1 .. Len(q) : q[i].timestamp = at \/ q[i].timestamp % WEEK = 0

\* Rows of total power as they are kept.
Totals(rows, at) == rows \in Seq(Rows) /\ rows # <<>> /\ InOrder(rows, at)

LEMMA LastRow ==
  ASSUME NEW at \in Nat, NEW rows, Totals(rows, at)
  PROVE  /\ Len(rows) \in Nat \ {0} /\ DOMAIN rows = 1 .. Len(rows)
         /\ rows[Len(rows)] \in Rows /\ LastTime(rows) \in Nat /\ LastTime(rows) <= at
         /\ \A i \in 1 .. Len(rows) : rows[i] \in Rows /\ rows[i].timestamp \in Nat
                                       /\ rows[i].timestamp <= LastTime(rows)
<1>1. rows \in Seq(Rows) /\ rows # <<>> /\ InOrder(rows, at)
  BY DEF Totals
<1>2. Len(rows) \in Nat \ {0} /\ DOMAIN rows = 1 .. Len(rows)
  BY <1>1
<1>3. \A i \in 1 .. Len(rows) : rows[i] \in Rows
  BY <1>1
<1>4. \A i \in 1 .. Len(rows) : rows[i].timestamp \in Nat
  BY <1>3 DEF Rows
<1>5. Len(rows) \in 1 .. Len(rows)
  BY <1>2
<1> QED
  BY <1>1, <1>2, <1>3, <1>4, <1>5 DEF LastTime, InOrder

LEMMA CheckpointsAre ==
  ASSUME now \in Nat, NEW rows, Totals(rows, now), NEW deltas, Deltas(deltas)
  PROVE  /\ Totals(Checkpoints(rows, deltas), now)
         /\ Checked(rows, Checkpoints(rows, deltas), now)
         /\ LastTime(Checkpoints(rows, deltas)) = now
         /\ Len(Checkpoints(rows, deltas)) = Len(rows) + (CheckWeeks(LastTime(rows)) + 1)
<1> DEFINE n == Len(rows)
           start == LastTime(rows)
           w == CheckWeeks(start)
           a == rows[Len(rows)]
           at(i) == CheckAt(start, i)
           E(f) == f = [i \in 0 .. w + 1 |-> IF i = 0 THEN a ELSE Decayed(f[i - 1], at(i), deltas)]
           new == CHOOSE f : E(f)
           added == [i \in 1 .. w + 1 |-> new[i]]
           cp == Checkpoints(rows, deltas)
<1>1. /\ n \in Nat \ {0} /\ DOMAIN rows = 1 .. n /\ a \in Rows
      /\ start \in Nat /\ start <= now
      /\ \A i \in 1 .. n : rows[i] \in Rows /\ rows[i].timestamp \in Nat
                            /\ rows[i].timestamp <= start
  BY LastRow
<1>2. w \in Nat
  BY <1>1, CheckWeeksAre
<1>3. cp = rows \o added
  BY Zenon DEF Checkpoints, CheckAt, CheckWeeks
<1>4. \A i \in 1 .. w + 1 : /\ at(i) \in Nat /\ start <= at(i) /\ at(i) <= now
                            /\ at(i) = now \/ at(i) % WEEK = 0
                            /\ i = w + 1 => at(i) = now
  BY <1>1, CheckAtIs
<1>5. \A i, j \in 1 .. w + 1 : i <= j => at(i) <= at(j)
  BY <1>1, CheckAtInOrder
<1> HIDE DEF n, start, w, a, at, E, cp
<1>6. \A i \in 1 .. w + 1, x \in Rows :
         Decayed(x, at(i), deltas) \in Rows /\ Decayed(x, at(i), deltas).timestamp = at(i)
  BY <1>4, DecayedType
<1>7. w + 1 \in Nat
  BY <1>2
<1>8. \E f : E(f)
  <2> DEFINE g == [i \in 1 .. w + 1 |-> [x \in Rows |-> Decayed(x, at(i), deltas)]]
  <2>1. \A x \in Rows, i \in 1 .. w + 1 : g[i][x] = Decayed(x, at(i), deltas)
    BY Zenon
  <2> HIDE DEF g
  <2>2. \A x \in Rows, i \in 1 .. w + 1 : g[i][x] \in Rows
    BY Zenon, <1>6, <2>1
  <2> DEFINE m == w + 1
  <2>3. m \in Nat /\ a \in Rows /\ \A x \in Rows, i \in 1 .. m : g[i][x] \in Rows
    BY <1>1, <1>7, <2>2
  <2> HIDE DEF m
  <2>4. PICK f : Unfolds(f, m, a, g)
    BY <2>3, Unfolding
  <2>5. f \in [0 .. m -> Rows]
    BY <2>3, <2>4, UnfoldedType
  <2>6. \A i \in 0 .. m : (IF i = 0 THEN a ELSE g[i][f[i - 1]])
                          = IF i = 0 THEN a ELSE Decayed(f[i - 1], at(i), deltas)
    <3> TAKE i \in 0 .. m
    <3>1. CASE i = 0
      BY Zenon, <3>1
    <3>2. CASE i # 0
      <4>1. i \in 1 .. m /\ i - 1 \in 0 .. m
        BY <2>3, <3>2
      <4>2. f[i - 1] \in Rows
        BY Zenon, <2>5, <4>1
      <4>3. g[i][f[i - 1]] = Decayed(f[i - 1], at(i), deltas)
        BY Zenon, <2>1, <4>1, <4>2 DEF m
      <4> QED
        BY Zenon, <3>2, <4>3
    <3> QED
      BY Zenon, <3>1, <3>2
  <2>7. f = [i \in 0 .. m |-> IF i = 0 THEN a ELSE g[i][f[i - 1]]]
    BY Zenon, <2>4 DEF Unfolds
  <2>8. f = [i \in 0 .. m |-> IF i = 0 THEN a ELSE Decayed(f[i - 1], at(i), deltas)]
    BY Zenon, <2>6, <2>7
  <2> QED
    BY Zenon, <2>8 DEF E, m
<1>9. E(new)
  BY Zenon, <1>8
<1> HIDE DEF new
<1>10. /\ new[0] = a
       /\ \A i \in 1 .. w + 1 : new[i] = Decayed(new[i - 1], at(i), deltas)
  <2>1. \A i \in 0 .. w + 1 : new[i] = IF i = 0 THEN a ELSE Decayed(new[i - 1], at(i), deltas)
    BY Zenon, <1>9 DEF E
  <2>2. 0 \in 0 .. w + 1 /\ \A i \in 1 .. w + 1 : i \in 0 .. w + 1 /\ i # 0
    BY <1>2
  <2> QED
    BY Zenon, <2>1, <2>2
<1>11. \A i \in 0 .. w + 1 : new[i] \in Rows
  <2>1. \A i \in 1 .. w + 1 : new[i - 1] \in Rows => new[i] \in Rows
    BY Zenon, <1>6, <1>10
  <2>2. new[0] \in Rows
    BY Zenon, <1>1, <1>10
  <2> DEFINE m == w + 1
  <2>3. m \in Nat /\ \A i \in 1 .. m : new[i - 1] \in Rows => new[i] \in Rows
    BY Zenon, <1>7, <2>1
  <2> HIDE DEF m
  <2>4. \A i \in 0 .. m : new[i] \in Rows
    BY <2>2, <2>3, Stays
  <2> QED
    BY Zenon, <2>4 DEF m
<1>12. \A i \in 1 .. w + 1 : new[i] \in Rows /\ new[i].timestamp = at(i)
  <2> TAKE i \in 1 .. w + 1
  <2>1. i \in 0 .. w + 1 /\ i - 1 \in 0 .. w + 1
    BY <1>2
  <2> QED
    BY Zenon, <1>6, <1>10, <1>11, <2>1
<1>13. \A i \in 1 .. w + 1 : added[i] \in Rows /\ added[i].timestamp = at(i)
  BY Zenon, <1>12
<1>14. added \in Seq(Rows) /\ Len(added) = w + 1
  <2>1. added \in [1 .. w + 1 -> Rows]
    BY Zenon, <1>12
  <2> DEFINE m == w + 1
  <2>2. m \in Nat /\ added \in [1 .. m -> Rows]
    BY Zenon, <1>7, <2>1
  <2> HIDE DEF m, added
  <2>3. added \in Seq(Rows)
    BY <2>2
  <2>4. DOMAIN added = 1 .. w + 1
    BY Zenon, <2>1
  <2> QED
    BY <1>7, <2>3, <2>4, LenProperties
<1> HIDE DEF added
<1>15. rows \in Seq(Rows) /\ InOrder(rows, now)
  BY DEF Totals
<1>16. /\ cp \in Seq(Rows) /\ Len(cp) = n + (w + 1)
       /\ \A i \in 1 .. n : cp[i] = rows[i]
       /\ \A i \in n + 1 .. n + (w + 1) : cp[i] = added[i - n] /\ i - n \in 1 .. w + 1
  <2>1. /\ cp \in Seq(Rows) /\ Len(cp) = Len(rows) + Len(added)
        /\ \A i \in 1 .. Len(rows) + Len(added) :
             cp[i] = IF i <= Len(rows) THEN rows[i] ELSE added[i - Len(rows)]
    BY <1>3, <1>14, <1>15, ConcatProperties
  <2>2. /\ cp \in Seq(Rows) /\ Len(cp) = n + (w + 1)
        /\ \A i \in 1 .. n + (w + 1) : cp[i] = IF i <= n THEN rows[i] ELSE added[i - n]
    BY Zenon, <1>14, <2>1 DEF n
  <2>3. \A i \in 1 .. n : i \in 1 .. n + (w + 1) /\ i <= n
    BY <1>1, <1>2
  <2>4. \A i \in n + 1 .. n + (w + 1) :
           i \in 1 .. n + (w + 1) /\ ~ i <= n /\ i - n \in 1 .. w + 1
    BY <1>1, <1>2
  <2> QED
    BY Zenon, <2>2, <2>3, <2>4
<1>17. \A i \in n + 1 .. Len(cp) :
         /\ cp[i] \in Rows /\ cp[i].timestamp = at(i - n) /\ i - n \in 1 .. w + 1
  BY Zenon, <1>13, <1>16
<1>18. Prefix(rows, cp) /\ Len(rows) < Len(cp)
  <2>1. n <= Len(cp) /\ n < Len(cp)
    BY <1>1, <1>2, <1>16
  <2> QED
    BY <1>16, <2>1 DEF Prefix, n
<1>19. Checked(rows, cp, now)
  <2>1. \A i \in n + 1 .. Len(cp) : cp[i].timestamp = now \/ cp[i].timestamp % WEEK = 0
    BY Zenon, <1>4, <1>17
  <2> QED
    BY Zenon, <1>18, <2>1 DEF Checked, n
<1>20. DOMAIN cp = 1 .. Len(cp) /\ \A i \in DOMAIN cp : i \in 1 .. n \/ i \in n + 1 .. Len(cp)
  BY <1>1, <1>2, <1>16
<1>21. InOrder(cp, now)
  <2> SUFFICES ASSUME NEW i \in DOMAIN cp, NEW j \in DOMAIN cp, i <= j
               PROVE  cp[i].timestamp <= cp[j].timestamp /\ cp[j].timestamp <= now
    BY DEF InOrder
  <2>1. CASE j \in 1 .. n
    <3>1. i \in 1 .. n /\ i \in DOMAIN rows /\ j \in DOMAIN rows
      BY <1>1, <1>20, <2>1
    <3>2. cp[i] = rows[i] /\ cp[j] = rows[j]
      BY Zenon, <1>16, <2>1, <3>1
    <3> QED
      BY Zenon, <1>15, <3>1, <3>2 DEF InOrder
  <2>2. CASE i \in 1 .. n /\ j \in n + 1 .. Len(cp)
    <3>1. cp[i] = rows[i] /\ cp[j].timestamp = at(j - n) /\ j - n \in 1 .. w + 1
      BY Zenon, <1>16, <1>17, <2>2
    <3>2. /\ rows[i].timestamp \in Nat /\ rows[i].timestamp <= start /\ at(j - n) \in Nat
          /\ start <= at(j - n) /\ at(j - n) <= now
      BY Zenon, <1>1, <1>4, <2>2, <3>1
    <3> QED
      BY <1>1, <3>1, <3>2
  <2>3. CASE i \in n + 1 .. Len(cp) /\ j \in n + 1 .. Len(cp)
    <3>1. /\ cp[i].timestamp = at(i - n) /\ i - n \in 1 .. w + 1
          /\ cp[j].timestamp = at(j - n) /\ j - n \in 1 .. w + 1
      BY Zenon, <1>17, <2>3
    <3>2. i - n <= j - n
      BY <1>1, <2>3
    <3> QED
      BY Zenon, <1>4, <1>5, <3>1, <3>2
  <2>4. i \in n + 1 .. Len(cp) => j \in n + 1 .. Len(cp)
    BY <1>1, <1>20
  <2> QED
    BY Zenon, <1>20, <2>1, <2>2, <2>3, <2>4
<1>22. LastTime(cp) = now
  <2>1. Len(cp) \in n + 1 .. Len(cp) /\ Len(cp) - n = w + 1
    BY <1>1, <1>2, <1>16
  <2>2. w + 1 \in 1 .. w + 1
    BY <1>2
  <2>3. cp[Len(cp)].timestamp = at(w + 1)
    BY <1>17, <2>1
  <2> QED
    BY Zenon, <1>4, <2>2, <2>3 DEF LastTime
<1>23. cp # <<>>
  BY <1>1, <1>2, <1>16
<1> QED
  <2>1. Totals(cp, now)
    BY <1>16, <1>21, <1>23 DEF Totals
  <2>2. Len(cp) = n + (w + 1)
    BY <1>16
  <2> QED
    BY Zenon, <1>19, <1>22, <2>1, <2>2 DEF cp, n, w, start
-----------------------------------------------------------------------------
(* What a call makes of the vault.                                          *)

LEMMA RaisedIs ==
  ASSUME NEW at \in Nat, NEW rows, Totals(rows, at), NEW bias \in Int, NEW slope \in Int
  PROVE  /\ Totals(Raised(rows, bias, slope), at)
         /\ Len(Raised(rows, bias, slope)) = Len(rows)
         /\ \A i \in 1 .. Len(rows) :
              /\ Raised(rows, bias, slope)[i].timestamp = rows[i].timestamp
              /\ i < Len(rows) => Raised(rows, bias, slope)[i] = rows[i]
<1> DEFINE n == Len(rows)
           last == rows[n]
           row == [timestamp |-> last.timestamp, bias |-> AtLeast0(last.bias + bias),
                   slope |-> AtLeast0(last.slope + slope)]
           new == Raised(rows, bias, slope)
<1>1. /\ n \in Nat \ {0} /\ DOMAIN rows = 1 .. n /\ last \in Rows
      /\ \A i \in 1 .. n : rows[i] \in Rows
  BY LastRow
<1>2. /\ last = [timestamp |-> last.timestamp, bias |-> last.bias, slope |-> last.slope]
      /\ last.timestamp \in Nat /\ last.bias \in Nat /\ last.slope \in Nat
  BY <1>1 DEF Rows
<1>3. n \in DOMAIN rows
  BY <1>1
<1>4. new = [rows EXCEPT ![n] = row]
  <2>1. new = [rows EXCEPT ![n] = [[last EXCEPT !.bias = AtLeast0(@ + bias)]
                                     EXCEPT !.slope = AtLeast0(@ + slope)]]
    BY <1>2, <1>3 DEF Raised
  <2> DEFINE t == last.timestamp
             b == last.bias
             s == last.slope
  <2>2. [[last EXCEPT !.bias = AtLeast0(@ + bias)] EXCEPT !.slope = AtLeast0(@ + slope)] = row
    <3>1. last = [timestamp |-> t, bias |-> b, slope |-> s]
      BY <1>2
    <3>2. row = [timestamp |-> t, bias |-> AtLeast0(b + bias), slope |-> AtLeast0(s + slope)]
      OBVIOUS
    <3> HIDE DEF last, t, b, s, row
    <3> DEFINE b1 == AtLeast0(b + bias)
               s1 == AtLeast0(s + slope)
    <3>3. [last EXCEPT !.bias = AtLeast0(@ + bias)] = [timestamp |-> t, bias |-> b1, slope |-> s]
      BY <3>1
    <3>4. [[timestamp |-> t, bias |-> b1, slope |-> s] EXCEPT !.slope = AtLeast0(@ + slope)]
            = [timestamp |-> t, bias |-> b1, slope |-> s1]
      OBVIOUS
    <3> QED
      BY Zenon, <3>2, <3>3, <3>4
  <2> QED
    BY Zenon, <2>1, <2>2
<1>5. last.bias + bias \in Int /\ last.slope + slope \in Int
  BY <1>2
<1>6. AtLeast0(last.bias + bias) \in Nat /\ AtLeast0(last.slope + slope) \in Nat
  BY <1>5, ClampType
<1>7. row \in Rows /\ row.timestamp = last.timestamp
  BY <1>2, <1>6 DEF Rows
<1> HIDE DEF row, new
<1>8. rows \in Seq(Rows) /\ InOrder(rows, at) /\ n \in 1 .. n
  BY <1>1 DEF Totals
<1>9. /\ new \in Seq(Rows) /\ Len(new) = n
      /\ \A j \in 1 .. n : new[j] = IF j = n THEN row ELSE rows[j]
  BY <1>4, <1>7, <1>8, ExceptSeq
<1>10. \A j \in 1 .. n : new[j].timestamp = rows[j].timestamp /\ (j < n => new[j] = rows[j])
  <2> TAKE j \in 1 .. n
  <2>1. CASE j = n
    <3>1. new[j] = row /\ rows[j] = last
      BY <1>9, <2>1
    <3>2. ~ j < n
      BY <1>1, <2>1
    <3> QED
      BY Zenon, <1>7, <3>1, <3>2
  <2>2. CASE j # n
    <3>1. new[j] = rows[j]
      BY Zenon, <1>9, <2>2
    <3> QED
      BY Zenon, <3>1
  <2> QED
    BY <2>1, <2>2
<1>11. DOMAIN new = 1 .. n /\ new # <<>>
  <2>1. DOMAIN new = 1 .. n
    BY <1>9, LenProperties
  <2>2. n # 0
    BY <1>1
  <2>3. new # <<>>
    BY <1>9, <2>2
  <2> QED
    BY <2>1, <2>3
<1>12. InOrder(new, at)
  BY <1>1, <1>8, <1>10, <1>11 DEF InOrder
<1> QED
  BY <1>9, <1>10, <1>11, <1>12 DEF Totals, new

LEMMA WithDeltaType ==
  ASSUME NEW deltas, Deltas(deltas), NEW t \in Nat, NEW d \in Int
  PROVE  /\ Deltas(WithDelta(deltas, t, d)) /\ DOMAIN WithDelta(deltas, t, d) = DOMAIN deltas \cup {t}
         /\ \A w \in DOMAIN deltas \cup {t} :
              WithDelta(deltas, t, d)[w] =
                (IF w \in DOMAIN deltas THEN deltas[w] ELSE 0) + (IF w = t THEN d ELSE 0)
<1> DEFINE new == WithDelta(deltas, t, d)
<1>1. /\ DOMAIN new = DOMAIN deltas \cup {t}
      /\ \A w \in DOMAIN deltas \cup {t} :
           new[w] = (IF w \in DOMAIN deltas THEN deltas[w] ELSE 0) + (IF w = t THEN d ELSE 0)
  BY DEF WithDelta
<1> HIDE DEF new
<1>2. \A w \in DOMAIN new : w \in Nat /\ new[w] \in Int
  BY <1>1 DEF Deltas
<1> QED
  BY <1>1, <1>2 DEF Deltas, new

LEMMA CurrentPowerType ==
  ASSUME now \in Nat, NEW acc, IsAccount(acc, now)
  PROVE  CurrentPower(acc) \in Int
<1>1. CASE acc.powers = <<>>
  BY <1>1 DEF CurrentPower
<1>2. CASE acc.powers # <<>>
  <2>1. Totals(acc.powers, now)
    BY <1>2 DEF IsAccount, Totals
  <2>2. acc.powers[Len(acc.powers)] \in Rows /\ now \in Int
    BY <2>1, LastRow
  <2>3. PowerOf(acc.powers[Len(acc.powers)], now) \in Nat
    BY <2>2, PowerType
  <2>4. CurrentPower(acc) = PowerOf(acc.powers[Len(acc.powers)], now)
    BY <1>2 DEF CurrentPower
  <2> QED
    BY <2>3, <2>4
<1> QED
  BY <1>1, <1>2
-----------------------------------------------------------------------------
(* What a call makes of the vault.                                          *)

IsVault(v, at) ==
  /\ v = [total |-> v.total, slopeDelta |-> v.slopeDelta, account |-> v.account]
  /\ Totals(v.total, at) /\ Deltas(v.slopeDelta)
  /\ v.account = [u \in Users |-> v.account[u]]
  /\ \A u \in Users : IsAccount(v.account[u], at)

IsCall(call) == call.amount \in Nat /\ call.end \in Nat

\* An account with what was added to its history since.
Further(p, q, at) == AddedAt(p.powers, q.powers, at) /\ Prefix(p.log, q.log)

Grown(v, w, at) ==
  /\ w.total = v.total \/ Checked(v.total, w.total, at)
  /\ \A u \in Users : Further(v.account[u], w.account[u], at)

LEMMA PrefixSame ==
  ASSUME NEW S, NEW p \in Seq(S), NEW at
  PROVE  Prefix(p, p) /\ AddedAt(p, p, at)
<1>1. Len(p) \in Nat
  OBVIOUS
<1>2. Prefix(p, p)
  BY <1>1 DEF Prefix
<1>3. \A i \in Len(p) + 1 .. Len(p) : FALSE
  BY <1>1
<1> QED
  BY <1>2, <1>3 DEF AddedAt

LEMMA PrefixTransitive ==
  ASSUME NEW S, NEW p \in Seq(S), NEW q \in Seq(S), NEW r \in Seq(S), Prefix(p, q), Prefix(q, r)
  PROVE  Prefix(p, r)
<1>1. Len(p) \in Nat /\ Len(q) \in Nat /\ Len(r) \in Nat
  OBVIOUS
<1> QED
  BY <1>1 DEF Prefix

LEMMA AddedTransitive ==
  ASSUME NEW S, NEW p \in Seq(S), NEW q \in Seq(S), NEW r \in Seq(S), NEW at,
         AddedAt(p, q, at), AddedAt(q, r, at)
  PROVE  AddedAt(p, r, at)
<1>1. Len(p) \in Nat /\ Len(q) \in Nat /\ Len(r) \in Nat
  OBVIOUS
<1>2. Prefix(p, q) /\ Prefix(q, r)
  BY DEF AddedAt
<1>3. Prefix(p, r) /\ Len(p) <= Len(q) /\ \A i \in 1 .. Len(q) : r[i] = q[i]
  BY <1>2, PrefixTransitive DEF Prefix
<1>4. \A i \in Len(p) + 1 .. Len(r) : i \in Len(q) + 1 .. Len(r) \/ i \in Len(p) + 1 .. Len(q)
  BY <1>1, <1>3
<1>5. \A i \in Len(p) + 1 .. Len(q) : i \in 1 .. Len(q)
  BY <1>1
<1>6. /\ \A i \in Len(p) + 1 .. Len(q) : q[i].timestamp = at
      /\ \A i \in Len(q) + 1 .. Len(r) : r[i].timestamp = at
  BY DEF AddedAt
<1>7. \A i \in Len(p) + 1 .. Len(r) : r[i].timestamp = at
  BY Zenon, <1>3, <1>4, <1>5, <1>6
<1> QED
  BY <1>3, <1>7 DEF AddedAt

LEMMA CheckedTransitive ==
  ASSUME NEW S, NEW p \in Seq(S), NEW q \in Seq(S), NEW r \in Seq(S), NEW at,
         Checked(p, q, at), Checked(q, r, at)
  PROVE  Checked(p, r, at)
<1>1. Len(p) \in Nat /\ Len(q) \in Nat /\ Len(r) \in Nat
  OBVIOUS
<1>2. Prefix(p, q) /\ Prefix(q, r) /\ Len(p) < Len(q) /\ Len(q) < Len(r)
  BY DEF Checked
<1>3. Prefix(p, r) /\ Len(p) < Len(r) /\ \A i \in 1 .. Len(q) : r[i] = q[i]
  BY <1>1, <1>2, PrefixTransitive DEF Prefix
<1>4. \A i \in Len(p) + 1 .. Len(r) : i \in Len(q) + 1 .. Len(r) \/ i \in Len(p) + 1 .. Len(q)
  BY <1>1, <1>2
<1>5. \A i \in Len(p) + 1 .. Len(q) : i \in 1 .. Len(q)
  BY <1>1
<1>6. /\ \A i \in Len(p) + 1 .. Len(q) : q[i].timestamp = at \/ q[i].timestamp % WEEK = 0
      /\ \A i \in Len(q) + 1 .. Len(r) : r[i].timestamp = at \/ r[i].timestamp % WEEK = 0
  BY DEF Checked
<1>7. \A i \in Len(p) + 1 .. Len(r) : r[i].timestamp = at \/ r[i].timestamp % WEEK = 0
  BY Zenon, <1>3, <1>4, <1>5, <1>6
<1> QED
  BY <1>3, <1>7 DEF Checked

LEMMA CheckpointedAndRaised ==
  ASSUME now \in Nat, NEW rows, Totals(rows, now), NEW deltas, Deltas(deltas),
         NEW bias \in Int, NEW slope \in Int
  PROVE  /\ Totals(Raised(Checkpoints(rows, deltas), bias, slope), now)
         /\ Checked(rows, Raised(Checkpoints(rows, deltas), bias, slope), now)
<1> DEFINE cp == Checkpoints(rows, deltas)
           r == Raised(cp, bias, slope)
<1>1. Totals(cp, now) /\ Checked(rows, cp, now)
  BY CheckpointsAre
<1> HIDE DEF cp
<1>2. /\ Totals(r, now) /\ Len(r) = Len(cp)
      /\ \A i \in 1 .. Len(cp) : r[i].timestamp = cp[i].timestamp /\ (i < Len(cp) => r[i] = cp[i])
  BY <1>1, RaisedIs
<1> HIDE DEF r
<1>3. Len(rows) \in Nat /\ Len(cp) \in Nat /\ Len(rows) < Len(cp) /\ Prefix(rows, cp)
  BY <1>1 DEF Totals, Checked
<1>4. \A i \in 1 .. Len(rows) : r[i] = rows[i]
  <2> TAKE i \in 1 .. Len(rows)
  <2>1. i \in 1 .. Len(cp) /\ i < Len(cp)
    BY <1>3
  <2> QED
    BY <1>2, <1>3, <2>1 DEF Prefix
<1>5. Prefix(rows, r)
  BY <1>2, <1>3, <1>4 DEF Prefix
<1>6. \A i \in Len(rows) + 1 .. Len(r) : r[i].timestamp = now \/ r[i].timestamp % WEEK = 0
  <2> TAKE i \in Len(rows) + 1 .. Len(r)
  <2>1. i \in 1 .. Len(cp) /\ i \in Len(rows) + 1 .. Len(cp)
    BY <1>2, <1>3
  <2> QED
    BY <1>1, <1>2, <2>1 DEF Checked
<1>7. Checked(rows, r, now)
  BY <1>2, <1>3, <1>5, <1>6 DEF Checked
<1> QED
  BY <1>2, <1>7 DEF r, cp

\* What the lock is once the call is made.
AmountAfter(acc, call) ==
  IF call.op = "extend" THEN acc.amount
  ELSE IF call.op = "withdraw" THEN 0 ELSE acc.amount + call.amount
EndAfter(acc, call) ==
  IF call.op \in {"create", "extend"} THEN call.end ELSE IF call.op = "withdraw" THEN 0 ELSE acc.end

LEMMA AfterIs ==
  ASSUME now \in Nat, NEW v, IsVault(v, now), NEW u \in Users, NEW call, IsCall(call)
  PROVE  /\ IsVault(After(v, u, call), now) /\ Grown(v, After(v, u, call), now)
         /\ After(v, u, call).account =
              [v.account EXCEPT ![u] = Relocked(v.account[u], AmountAfter(v.account[u], call),
                                                EndAfter(v.account[u], call))]
<1> DEFINE acc == v.account[u]
           amount == AmountAfter(acc, call)
           end == EndAfter(acc, call)
           after == Relocked(acc, amount, end)
           change == getSlope(amount) - getSlope(acc.amount)
           deltas == IF call.op = "extend"
                     THEN WithDelta(WithDelta(v.slopeDelta, acc.end, -getSlope(amount)),
                                    end, getSlope(amount))
                     ELSE WithDelta(v.slopeDelta, end, change)
           rows == Raised(Checkpoints(v.total, v.slopeDelta),
                          CurrentPower(after) - CurrentPower(acc), change)
           accounts == [v.account EXCEPT ![u] = after]
           w == After(v, u, call)
<1>1. w = IF call.op = "withdraw" THEN [v EXCEPT !.account[u] = after]
          ELSE [total |-> rows, slopeDelta |-> deltas, account |-> accounts]
  BY Zenon DEF After, AmountAfter, EndAfter
<1>2. /\ v = [total |-> v.total, slopeDelta |-> v.slopeDelta, account |-> v.account]
      /\ Totals(v.total, now) /\ Deltas(v.slopeDelta)
      /\ v.account = [x \in Users |-> v.account[x]]
      /\ \A x \in Users : IsAccount(v.account[x], now)
  BY DEF IsVault
<1>3. IsAccount(acc, now) /\ acc.amount \in Nat /\ acc.end \in Nat
  BY <1>2 DEF IsAccount
<1>4. amount \in Nat /\ end \in Nat
  <2>1. call.amount \in Nat /\ call.end \in Nat
    BY DEF IsCall
  <2> HIDE DEF acc
  <2> QED
    BY <1>3, <2>1 DEF AmountAfter, EndAfter
<1> HIDE DEF amount, end
<1>5. /\ IsAccount(after, now) /\ AddedAt(acc.powers, after.powers, now) /\ Prefix(acc.log, after.log)
  BY <1>3, <1>4, RelockedIsAccount
<1> HIDE DEF after
<1>6. [v EXCEPT !.account[u] = after]
        = [total |-> v.total, slopeDelta |-> v.slopeDelta, account |-> accounts]
  BY <1>2
<1>7. /\ getSlope(amount) \in Int /\ -getSlope(amount) \in Int /\ change \in Int
      /\ CurrentPower(after) - CurrentPower(acc) \in Int
  <2>1. getSlope(amount) \in Nat /\ getSlope(acc.amount) \in Nat
    BY <1>3, <1>4, SlopeType
  <2>2. CurrentPower(after) \in Int /\ CurrentPower(acc) \in Int
    BY <1>3, <1>5, CurrentPowerType
  <2> QED
    BY <2>1, <2>2
<1>8. /\ accounts = [x \in Users |-> IF x = u THEN after ELSE v.account[x]]
  BY <1>2
<1>9. \A x \in Users : accounts[x] = IF x = u THEN after ELSE v.account[x]
  BY Zenon, <1>8
<1>10. Totals(rows, now) /\ Checked(v.total, rows, now)
  BY <1>2, <1>7, CheckpointedAndRaised
<1>11. Deltas(deltas)
  <2> DEFINE s == getSlope(amount)
             first == WithDelta(v.slopeDelta, acc.end, -s)
  <2>1. s \in Int /\ -s \in Int
    BY <1>7
  <2> HIDE DEF s
  <2>2. Deltas(first)
    BY <1>2, <1>3, <2>1, WithDeltaType
  <2>3. Deltas(WithDelta(first, end, s))
    BY <1>4, <2>1, <2>2, WithDeltaType
  <2>4. Deltas(WithDelta(v.slopeDelta, end, change))
    BY <1>2, <1>4, <1>7, WithDeltaType
  <2> QED
    BY Zenon, <2>3, <2>4 DEF s
<1> HIDE DEF change, deltas, rows
<1>12. /\ \A x \in Users : IsAccount(accounts[x], now)
       /\ \A x \in Users : Further(v.account[x], accounts[x], now)
  <2> SUFFICES ASSUME NEW x \in Users
               PROVE  IsAccount(accounts[x], now) /\ Further(v.account[x], accounts[x], now)
    OBVIOUS
  <2>1. CASE x = u
    <3>1. accounts[x] = after /\ v.account[x] = acc
      BY Zenon, <1>9, <2>1
    <3> QED
      BY Zenon, <1>5, <3>1 DEF Further
  <2>2. CASE x # u
    <3>1. accounts[x] = v.account[x]
      BY Zenon, <1>9, <2>2
    <3>2. v.account[x].powers \in Seq(Rows) /\ v.account[x].log \in Seq(Locks)
      BY <1>2 DEF IsAccount
    <3>3. /\ AddedAt(v.account[x].powers, v.account[x].powers, now)
          /\ Prefix(v.account[x].log, v.account[x].log)
      BY <3>2, PrefixSame
    <3> QED
      BY Zenon, <1>2, <3>1, <3>3 DEF Further
  <2> QED
    BY <2>1, <2>2
<1>13. accounts = [x \in Users |-> accounts[x]]
  BY Zenon, <1>8, <1>9
<1> HIDE DEF accounts
<1>14. /\ w.total = IF call.op = "withdraw" THEN v.total ELSE rows
       /\ w.slopeDelta = IF call.op = "withdraw" THEN v.slopeDelta ELSE deltas
       /\ w.account = accounts
       /\ w = [total |-> w.total, slopeDelta |-> w.slopeDelta, account |-> w.account]
  BY <1>1, <1>6
<1> HIDE DEF w
<1>15. Totals(w.total, now) /\ (w.total = v.total \/ Checked(v.total, w.total, now))
  BY Zenon, <1>2, <1>10, <1>14
<1>16. Deltas(w.slopeDelta)
  BY Zenon, <1>2, <1>11, <1>14
<1>17. IsVault(w, now)
  BY Zenon, <1>12, <1>13, <1>14, <1>15, <1>16 DEF IsVault
<1>18. Grown(v, w, now)
  BY Zenon, <1>12, <1>14, <1>15 DEF Grown
<1>19. w.account = [v.account EXCEPT ![u] = after]
  BY Zenon, <1>14 DEF accounts
<1> QED
  BY Zenon, <1>17, <1>18, <1>19 DEF w, after, amount, end
-----------------------------------------------------------------------------
(* The power of a lock and of its row.                                      *)

LEMMA DivOfSum ==
  ASSUME NEW a \in Nat, NEW b \in Nat, NEW d \in Nat \ {0}
  PROVE  (a + b) \div d - a \div d - b \div d \in {0, 1}
<1> DEFINE p == a \div d
           q == b \div d
           r == (a + b) \div d
<1>1. a + b \in Nat
  OBVIOUS
<1>2. p \in Nat /\ d * p <= a /\ a < d * p + d
  BY DivBound
<1>3. q \in Nat /\ d * q <= b /\ b < d * q + d
  BY DivBound
<1>4. r \in Nat /\ d * r <= a + b /\ a + b < d * r + d
  BY <1>1, DivBound
<1> HIDE DEF p, q, r
<1>5. /\ d * p \in Nat /\ d * q \in Nat /\ d * r \in Nat
      /\ d * (p + q) = d * p + d * q /\ d * (p + q + 2) = d * p + d * q + d + d
      /\ d * (r + 1) = d * r + d
  BY <1>2, <1>3, <1>4, Z3
<1>6. \A m, n \in Nat : d * m < d * n => m < n
  <2> TAKE m, n \in Nat
  <2>1. n <= m => d * n <= d * m
    BY Z3
  <2>2. d * n \in Nat /\ d * m \in Nat
    BY Z3
  <2> QED
    BY <2>1, <2>2
<1>7. p + q \in Nat /\ p + q + 2 \in Nat /\ r + 1 \in Nat
  BY <1>2, <1>3, <1>4
<1> DEFINE x == d * p
           y == d * q
           z == d * r
<1>8. /\ x \in Nat /\ y \in Nat /\ z \in Nat /\ x <= a /\ a < x + d /\ y <= b /\ b < y + d
      /\ z <= a + b /\ a + b < z + d
      /\ d * (p + q) = x + y /\ d * (p + q + 2) = x + y + d + d /\ d * (r + 1) = z + d
  BY <1>2, <1>3, <1>4, <1>5
<1> HIDE DEF x, y, z
<1>9. x + y < z + d /\ z < x + y + d + d
  BY <1>8
<1>10. d * (p + q) < d * (r + 1) /\ d * r < d * (p + q + 2)
  BY <1>8, <1>9 DEF z
<1>11. p + q < r + 1 /\ r < p + q + 2
  BY <1>4, <1>6, <1>7, <1>10
<1>12. r - p - q \in {0, 1}
  BY <1>2, <1>3, <1>4, <1>11
<1> QED
  BY <1>12 DEF p, q, r

LEMMA DivInOrder ==
  ASSUME NEW a \in Nat, NEW b \in Nat, a <= b, NEW d \in Nat \ {0}
  PROVE  a \div d <= b \div d
<1>1. b - a \in Nat /\ a + (b - a) = b
  OBVIOUS
<1>2. b \div d - a \div d - (b - a) \div d \in {0, 1}
  BY <1>1, DivOfSum
<1>3. a \div d \in Nat /\ b \div d \in Nat /\ (b - a) \div d \in Nat
  BY <1>1, DivBound
<1> DEFINE p == a \div d
           q == b \div d
           r == (b - a) \div d
<1>4. q - p - r \in {0, 1} /\ p \in Nat /\ q \in Nat /\ r \in Nat
  BY <1>2, <1>3
<1> HIDE DEF p, q, r
<1>5. p <= q
  BY <1>4
<1> QED
  BY <1>5 DEF p, q

LEMMA BiasOfSum ==
  ASSUME NEW s \in Nat, NEW y \in Nat, NEW z \in Nat
  PROVE  getBias(s, y + z) - getBias(s, y) - getBias(s, z) \in {0, 1}
<1>1. s * y \in Nat /\ s * z \in Nat /\ s * (y + z) = s * y + s * z
  BY Z3
<1>2. Unit \in Nat \ {0}
  BY SizeAssumption
<1>3. (s * y + s * z) \div Unit - (s * y) \div Unit - (s * z) \div Unit \in {0, 1}
  BY <1>1, <1>2, DivOfSum
<1> QED
  BY <1>1, <1>3 DEF getBias

LEMMA LockPower ==
  ASSUME NEW lock \in Locks, NEW at \in Nat, lock.timestamp <= at
  PROVE  PowerOf(PowerRow(lock), at) - calculateTinyPower(lock.amount, lock.end, at) \in -1 .. 1
<1> DEFINE ts == lock.timestamp
           s == getSlope(lock.amount)
           y == at - ts
           bias == getBias(s, AtLeast0(lock.end - ts))
           lost == getBias(s, y)
<1>1. ts \in Nat /\ lock.amount \in Nat /\ lock.end \in Nat /\ ts <= at
  BY DEF Locks
<1>2. s \in Nat
  BY <1>1, SlopeType
<1>3. y \in Nat
  BY <1>1
<1>4. PowerRow(lock) = [timestamp |-> ts, bias |-> bias, slope |-> s]
  BY DEF PowerRow
<1>5. PowerOf(PowerRow(lock), at) = AtLeast0(bias - lost)
  BY <1>4 DEF PowerOf
<1>6. lost \in Nat
  <2> HIDE DEF s, y
  <2>1. y \in Int /\ y >= 0
    BY <1>3
  <2> QED
    BY <1>2, <2>1, BiasType
<1>7. CASE lock.end < at
  <2> DEFINE x == AtLeast0(lock.end - ts)
  <2>1. x \in Nat /\ x <= y
    BY <1>1, <1>7 DEF AtLeast0
  <2>2. bias = getBias(s, x)
    OBVIOUS
  <2> HIDE DEF s, x, y, bias
  <2>3. s * x \in Nat /\ s * y \in Nat /\ s * x <= s * y
    BY <1>2, <1>3, <2>1, Z3
  <2>4. Unit \in Nat \ {0}
    BY SizeAssumption
  <2>5. bias <= lost /\ bias \in Nat
    <3>1. bias = (s * x) \div Unit /\ lost = (s * y) \div Unit
      BY <2>2 DEF getBias
    <3>2. bias <= lost
      BY <2>3, <2>4, <3>1, DivInOrder
    <3>3. bias \in Nat
      BY <2>3, <2>4, <3>1, DivType
    <3> QED
      BY <3>2, <3>3
  <2> HIDE DEF lost
  <2>6. AtLeast0(bias - lost) = 0
    BY <1>6, <2>5 DEF AtLeast0
  <2>7. calculateTinyPower(lock.amount, lock.end, at) = 0
    BY <1>7 DEF calculateTinyPower
  <2> QED
    BY <1>5, <2>6, <2>7
<1>8. CASE ~ lock.end < at
  <2> DEFINE z == lock.end - at
             c == getBias(s, z)
  <2>1. z \in Nat /\ AtLeast0(lock.end - ts) = y + z
    BY <1>1, <1>8 DEF AtLeast0
  <2>2. bias = getBias(s, y + z)
    BY <2>1
  <2>3. calculateTinyPower(lock.amount, lock.end, at) = c
    BY <1>8 DEF calculateTinyPower
  <2> HIDE DEF s, y, z, bias
  <2>4. bias - lost - c \in {0, 1}
    BY <1>2, <1>3, <2>1, <2>2, BiasOfSum
  <2>5. c \in Nat /\ bias \in Nat
    <3>1. z \in Int /\ z >= 0 /\ y + z \in Int /\ y + z >= 0
      BY <1>3, <2>1
    <3>2. getBias(s, y + z) \in Nat /\ getBias(s, z) \in Nat
      BY <1>2, <3>1, BiasType
    <3> QED
      BY <2>2, <3>2
  <2> HIDE DEF lost, c
  <2>6. AtLeast0(bias - lost) = bias - lost
    BY <1>6, <2>4, <2>5 DEF AtLeast0
  <2>7. AtLeast0(bias - lost) - c \in -1 .. 1
    BY <1>6, <2>4, <2>5, <2>6
  <2> QED
    BY <1>5, <2>3, <2>7
<1> QED
  BY <1>7, <1>8
-----------------------------------------------------------------------------
(* The last row by a time.                                                  *)

\* A history: what happened in the order it did.
Timed(rows) ==
  /\ Len(rows) \in Nat /\ DOMAIN rows = 1 .. Len(rows)
  /\ \A i \in 1 .. Len(rows) : rows[i].timestamp \in Nat
  /\ \A i, j \in 1 .. Len(rows) : i <= j => rows[i].timestamp <= rows[j].timestamp

\* The first m rows are those made by a time.
MadeBy(rows, at, m) ==
  /\ m \in 0 .. Len(rows)
  /\ \A i \in 1 .. m : rows[i].timestamp <= at
  /\ \A i \in m + 1 .. Len(rows) : rows[i].timestamp > at

LEMMA MadeByOne ==
  ASSUME NEW rows, Timed(rows), NEW at \in Int, NEW m, NEW n, MadeBy(rows, at, m), MadeBy(rows, at, n)
  PROVE  m = n
<1>1. /\ m \in Nat /\ n \in Nat /\ m <= Len(rows) /\ n <= Len(rows) /\ Len(rows) \in Nat
  BY DEF MadeBy, Timed
<1>2. ASSUME NEW a \in Nat, NEW b \in Nat, MadeBy(rows, at, a), MadeBy(rows, at, b), a < b
      PROVE  FALSE
  <2>1. b \in 1 .. b /\ b \in a + 1 .. Len(rows) /\ b \in 1 .. Len(rows)
    BY <1>1, <1>2 DEF MadeBy
  <2>2. rows[b].timestamp <= at /\ rows[b].timestamp > at /\ rows[b].timestamp \in Nat
    BY <1>2, <2>1 DEF MadeBy, Timed
  <2> QED
    BY <2>2
<1>3. ~ m < n /\ ~ n < m
  BY <1>1, <1>2
<1> QED
  BY <1>1, <1>3

LEMMA IndexIs ==
  ASSUME NEW rows, Timed(rows), NEW at \in Int
  PROVE  /\ MadeBy(rows, at, getPowerIndexAt(rows, at))
         /\ LastAt(rows, at) = getPowerIndexAt(rows, at)
<1> DEFINE n == Len(rows)
           late == {i \in 1 .. n : rows[i].timestamp > at}
<1>1. /\ n \in Nat /\ DOMAIN rows = 1 .. n
      /\ \A i \in 1 .. n : rows[i].timestamp \in Nat
      /\ \A i, j \in 1 .. n : i <= j => rows[i].timestamp <= rows[j].timestamp
  BY DEF Timed
<1> HIDE DEF n
<1>2. \E m \in 0 .. n : /\ \A i \in 1 .. m : rows[i].timestamp <= at
                        /\ \A i \in m + 1 .. n : rows[i].timestamp > at
  <2>1. CASE late = {}
    <3>1. \A i \in 1 .. n : rows[i].timestamp <= at
      BY <1>1, <2>1
    <3>2. n \in 0 .. n /\ \A i \in n + 1 .. n : FALSE
      BY <1>1
    <3> QED
      BY Zenon, <3>1, <3>2
  <2>2. CASE late # {}
    <3>1. late \subseteq Nat
      BY <1>1
    <3>2. PICK k \in late : \A i \in late : k <= i
      BY <2>2, <3>1, LeastElement
    <3>3. k \in 1 .. n /\ rows[k].timestamp > at
      BY <3>2
    <3>4. \A i \in 1 .. k - 1 : rows[i].timestamp <= at
      <4> TAKE i \in 1 .. k - 1
      <4>1. i \in 1 .. n /\ ~ k <= i
        BY <1>1, <3>3
      <4>2. i \notin late
        BY <3>2, <4>1
      <4> QED
        BY <1>1, <4>1, <4>2
    <3>5. \A i \in (k - 1) + 1 .. n : rows[i].timestamp > at
      <4> TAKE i \in (k - 1) + 1 .. n
      <4>1. i \in 1 .. n /\ k <= i
        BY <1>1, <3>3
      <4>2. rows[k].timestamp <= rows[i].timestamp /\ rows[i].timestamp \in Nat /\ rows[k].timestamp \in Nat
        BY <1>1, <3>3, <4>1
      <4> QED
        BY <3>3, <4>2
    <3>6. k - 1 \in 0 .. n
      BY <1>1, <3>3
    <3> QED
      BY Zenon, <3>4, <3>5, <3>6
  <2> QED
    BY <2>1, <2>2
<1>3. PICK m \in 0 .. n : /\ \A i \in 1 .. m : rows[i].timestamp <= at
                          /\ \A i \in m + 1 .. n : rows[i].timestamp > at
  BY <1>2
<1>4. \A i \in 1 .. n : /\ i \in 1 .. m \/ i \in m + 1 .. n
                        /\ i \in m + 1 .. n => ~ rows[i].timestamp <= at
  BY <1>1, <1>3
<1>5. \A i \in 1 .. m : i \in 1 .. n
  BY <1>1, <1>3
<1>6. {i \in DOMAIN rows : rows[i].timestamp <= at} = 1 .. m
  BY Zenon, <1>1, <1>3, <1>4, <1>5
<1>7. {i \in DOMAIN rows : \A j \in 1 .. i : rows[j].timestamp <= at} = 1 .. m
  <2>1. \A i \in 1 .. m : \A j \in 1 .. i : j \in 1 .. m
    BY <1>1, <1>3
  <2>2. \A i \in 1 .. n : i \in 1 .. i
    BY <1>1
  <2> QED
    BY Zenon, <1>1, <1>3, <1>4, <1>5, <2>1, <2>2
<1>8. Cardinality(1 .. m) = m
  <2>1. m \in Nat
    BY <1>3
  <2> QED
    BY <2>1, FS_Interval
<1>9. getPowerIndexAt(rows, at) = m /\ LastAt(rows, at) = m
  BY Zenon, <1>6, <1>7, <1>8 DEF getPowerIndexAt, LastAt
<1>10. MadeBy(rows, at, m)
  BY Zenon, <1>3 DEF MadeBy, n
<1> QED
  BY Zenon, <1>9, <1>10

LEMMA TimedRows ==
  ASSUME NEW at \in Nat, NEW rows \in Seq(Rows), InOrder(rows, at)
  PROVE  Timed(rows) /\ \A i \in 1 .. Len(rows) : rows[i] \in Rows /\ rows[i].timestamp <= at
<1>1. Len(rows) \in Nat /\ DOMAIN rows = 1 .. Len(rows) /\ \A i \in 1 .. Len(rows) : rows[i] \in Rows
  OBVIOUS
<1>2. \A i \in 1 .. Len(rows) : rows[i].timestamp \in Nat
  BY <1>1 DEF Rows
<1> QED
  BY <1>1, <1>2 DEF Timed, InOrder

LEMMA TimedPrefix ==
  ASSUME NEW S, NEW p \in Seq(S), NEW rows, Timed(rows), Prefix(p, rows)
  PROVE  Timed(p)
<1>1. Len(p) \in Nat /\ DOMAIN p = 1 .. Len(p)
  OBVIOUS
<1>2. Len(p) <= Len(rows) /\ Len(rows) \in Nat /\ \A i \in 1 .. Len(p) : p[i] = rows[i]
  BY DEF Prefix, Timed
<1>3. \A i \in 1 .. Len(p) : i \in 1 .. Len(rows)
  BY <1>1, <1>2
<1>4. \A i \in 1 .. Len(p) : p[i].timestamp \in Nat
  BY <1>2, <1>3 DEF Timed
<1>5. \A i, j \in 1 .. Len(p) : i <= j => p[i].timestamp <= p[j].timestamp
  BY <1>2, <1>3 DEF Timed
<1> QED
  BY <1>1, <1>4, <1>5 DEF Timed
-----------------------------------------------------------------------------
(* Reading a history box by box.                                            *)

LEMMA BoxArithmetic ==
  ASSUME NEW a \in Nat, NEW b \in Nat
  PROVE  /\ a * ArrayLen \in Nat /\ (a + 1) * ArrayLen = a * ArrayLen + ArrayLen
         /\ a <= b <=> a * ArrayLen <= b * ArrayLen
         /\ a < b <=> a * ArrayLen < b * ArrayLen
<1>1. ArrayLen \in Nat \ {0}
  BY WeekIs
<1>2. /\ a * ArrayLen \in Nat /\ b * ArrayLen \in Nat
      /\ (a + 1) * ArrayLen = a * ArrayLen + ArrayLen
      /\ (b + 1) * ArrayLen = b * ArrayLen + ArrayLen
  BY <1>1, Z3
<1>3. \A m, n \in Nat : m <= n => m * ArrayLen <= n * ArrayLen
  BY <1>1, Z3
<1>4. /\ a < b => (a + 1) * ArrayLen <= b * ArrayLen
      /\ b < a => (b + 1) * ArrayLen <= a * ArrayLen
  <2>1. a + 1 \in Nat /\ b + 1 \in Nat /\ (a < b => a + 1 <= b) /\ (b < a => b + 1 <= a)
    OBVIOUS
  <2> QED
    BY <1>3, <2>1
<1> DEFINE x == a * ArrayLen
           y == b * ArrayLen
<1>5. /\ x \in Nat /\ y \in Nat /\ (a < b => x + ArrayLen <= y) /\ (b < a => y + ArrayLen <= x)
      /\ (a = b => x = y)
  BY <1>2, <1>4
<1> HIDE DEF x, y
<1>6. (a <= b <=> x <= y) /\ (a < b <=> x < y)
  BY <1>1, <1>5
<1> QED
  BY <1>2, <1>6 DEF x, y

LEMMA BoxCountIs ==
  ASSUME NEW n \in Nat
  PROVE  /\ BoxCount(n) \in Nat /\ n <= BoxCount(n) * ArrayLen
         /\ \A b \in Nat : b < BoxCount(n) => b * ArrayLen < n
<1> DEFINE k == BoxCount(n)
           m == n + ArrayLen - 1
<1>1. ArrayLen \in Nat \ {0}
  BY WeekIs
<1>2. m \in Nat /\ k = m \div ArrayLen
  BY <1>1 DEF BoxCount
<1> HIDE DEF k
<1>3. k \in Nat /\ ArrayLen * k <= m /\ m < ArrayLen * k + ArrayLen
  BY <1>1, <1>2, DivBound
<1>4. ArrayLen * k = k * ArrayLen /\ k * ArrayLen \in Nat
  BY <1>1, <1>3, Z3
<1> DEFINE x == k * ArrayLen
<1>5. x \in Nat /\ x <= m /\ m < x + ArrayLen
  BY <1>3, <1>4
<1> HIDE DEF x
<1>6. n <= x
  BY <1>1, <1>5
<1>7. ASSUME NEW b \in Nat, b < k  PROVE b * ArrayLen < n
  <2>1. b + 1 \in Nat /\ b + 1 <= k
    BY <1>3, <1>7
  <2>2. (b + 1) * ArrayLen <= k * ArrayLen /\ (b + 1) * ArrayLen = b * ArrayLen + ArrayLen
        /\ b * ArrayLen \in Nat
    BY <1>3, <2>1, BoxArithmetic
  <2> DEFINE y == b * ArrayLen
  <2>3. y \in Nat /\ y + ArrayLen <= x
    BY <2>2 DEF x
  <2> HIDE DEF y
  <2>4. y < n
    BY <1>1, <1>5, <2>3
  <2> QED
    BY <2>4 DEF y
<1> QED
  BY <1>3, <1>6, <1>7 DEF k, x

\* What a call has read, in so many boxes, of a history that had a count.
ReadBy(read, boxes, rows, count) ==
  /\ count \in Nat /\ count <= Len(rows) /\ boxes \in 0 .. BoxCount(count)
  /\ read \in Seq(Rows) /\ Prefix(read, rows)
  /\ boxes < BoxCount(count) => Len(read) = boxes * ArrayLen
  /\ boxes = BoxCount(count) => count <= Len(read)

LEMMA ReadFirst ==
  ASSUME NEW rows \in Seq(Rows), NEW count \in Nat, count <= Len(rows)
  PROVE  ReadBy(<<>>, 0, rows, count)
<1>1. /\ BoxCount(count) \in Nat /\ count <= BoxCount(count) * ArrayLen
  BY BoxCountIs
<1>2. 0 * ArrayLen = 0
  BY WeekIs
<1>3. /\ <<>> \in Seq(Rows) /\ Len(<<>>) = 0 /\ \A i \in 1 .. 0 : FALSE
  OBVIOUS
<1>4. Prefix(<<>>, rows)
  BY <1>3 DEF Prefix
<1>5. BoxCount(count) = 0 => count = 0
  BY <1>1, <1>2
<1> QED
  BY <1>1, <1>2, <1>3, <1>4, <1>5 DEF ReadBy

LEMMA ReadLater ==
  ASSUME NEW p \in Seq(Rows), NEW q \in Seq(Rows), Prefix(p, q),
         NEW read, NEW boxes, NEW count, ReadBy(read, boxes, p, count)
  PROVE  ReadBy(read, boxes, q, count)
<1>1. Len(p) \in Nat /\ Len(q) \in Nat /\ Len(p) <= Len(q) /\ count \in Nat /\ count <= Len(p)
  BY DEF Prefix, ReadBy
<1>2. count <= Len(q)
  BY <1>1
<1>3. read \in Seq(Rows) /\ Prefix(read, p)
  BY DEF ReadBy
<1>4. Prefix(read, q)
  BY <1>3, PrefixTransitive
<1> QED
  BY <1>2, <1>4 DEF ReadBy

LEMMA ReadOn ==
  ASSUME NEW rows \in Seq(Rows), NEW read, NEW boxes, NEW count,
         ReadBy(read, boxes, rows, count), boxes < BoxCount(count)
  PROVE  ReadBy(read \o RowsIn(rows, boxes), boxes + 1, rows, count)
<1> DEFINE n == Len(rows)
           x == boxes * ArrayLen
           y == (boxes + 1) * ArrayLen
           e == IF n < y THEN n ELSE y
           more == RowsIn(rows, boxes)
           new == read \o more
           k == BoxCount(count)
<1>1. /\ count \in Nat /\ count <= n /\ n \in Nat /\ read \in Seq(Rows) /\ Prefix(read, rows)
      /\ boxes \in 0 .. k /\ Len(read) = x
  BY DEF ReadBy
<1>2. /\ k \in Nat /\ count <= k * ArrayLen /\ \A b \in Nat : b < k => b * ArrayLen < count
  BY <1>1, BoxCountIs
<1>3. boxes \in Nat /\ boxes < k /\ boxes + 1 \in Nat /\ boxes + 1 <= k
  BY <1>1, <1>2
<1>4. /\ x \in Nat /\ y = x + ArrayLen /\ ArrayLen \in Nat \ {0}
      /\ x < count
  BY <1>2, <1>3, BoxArithmetic, WeekIs
<1>5. more = SubSeq(rows, x + 1, e)
  BY DEF RowsIn
<1> HIDE DEF n, x, y, more, k
<1>6. e \in Nat /\ x + 1 <= e /\ e <= n /\ e <= y
  BY <1>1, <1>4
<1>7. boxes + 1 < k => e = y
  <2> SUFFICES ASSUME boxes + 1 < k  PROVE e = y
    OBVIOUS
  <2>1. (boxes + 1) * ArrayLen < count
    BY <1>2, <1>3
  <2> QED
    BY <1>1, <1>4, <2>1 DEF y
<1>8. boxes + 1 = k => count <= e
  <2> SUFFICES ASSUME boxes + 1 = k  PROVE count <= e
    OBVIOUS
  <2>1. count <= y
    BY <1>2 DEF y
  <2> QED
    BY <1>1, <1>4, <2>1
<1> HIDE DEF e
<1>9. /\ more \in Seq(Rows) /\ Len(more) = e - x
      /\ \A i \in 1 .. e - x : more[i] = rows[x + i]
  <2>1. x + 1 \in 1 .. Len(rows) + 1 /\ e \in x + 1 - 1 .. Len(rows)
    BY <1>1, <1>4, <1>6 DEF n
  <2>2. /\ more \in Seq(Rows) /\ Len(more) = e - x
    BY <1>4, <1>5, <1>6, <1>1 DEF n
  <2>3. \A i \in 1 .. e - x : more[i] = rows[x + 1 + i - 1]
    BY <1>4, <1>5, <1>6, <1>1 DEF n
  <2>4. \A i \in 1 .. e - x : x + 1 + i - 1 = x + i
    BY <1>4, <1>6
  <2> QED
    BY Zenon, <2>2, <2>3, <2>4
<1>10. /\ new \in Seq(Rows) /\ Len(new) = x + (e - x)
       /\ \A i \in 1 .. x + (e - x) : new[i] = IF i <= x THEN read[i] ELSE more[i - x]
  <2>1. /\ new \in Seq(Rows) /\ Len(new) = Len(read) + Len(more)
        /\ \A i \in 1 .. Len(read) + Len(more) :
             new[i] = IF i <= Len(read) THEN read[i] ELSE more[i - Len(read)]
    BY <1>1, <1>9, ConcatProperties
  <2> QED
    BY Zenon, <1>1, <1>9, <2>1
<1> HIDE DEF new
<1>11. x + (e - x) = e
  BY <1>4, <1>6
<1>12. \A i \in 1 .. e : new[i] = rows[i]
  <2> TAKE i \in 1 .. e
  <2>1. CASE i <= x
    <3>1. i \in 1 .. x
      BY <1>4, <1>6, <2>1
    <3>2. read[i] = rows[i]
      BY <1>1, <3>1 DEF Prefix
    <3> QED
      BY Zenon, <1>10, <1>11, <2>1, <3>2
  <2>2. CASE ~ i <= x
    <3>1. i - x \in 1 .. e - x /\ x + (i - x) = i
      BY <1>4, <1>6, <2>2
    <3>2. more[i - x] = rows[i]
      BY Zenon, <1>9, <3>1
    <3> QED
      BY Zenon, <1>10, <1>11, <2>2, <3>2
  <2> QED
    BY <2>1, <2>2
<1>13. new \in Seq(Rows) /\ Len(new) = e
  BY Zenon, <1>10, <1>11
<1>14. Prefix(new, rows)
  BY <1>6, <1>12, <1>13 DEF Prefix, n
<1>15. boxes + 1 \in 0 .. k
  BY <1>2, <1>3
<1> QED
  BY <1>1, <1>7, <1>8, <1>13, <1>14, <1>15 DEF ReadBy, new, n, k, y, more
-----------------------------------------------------------------------------
(* What is true of a call: p is where it is, r what was asked, s what it    *)
(* saw, g its group, a its answer, acc its account, tot the rows of total   *)
(* power, all at a time at.                                                 *)

VaultPlaces == {"account", "global", "increase", "built", "answered"}

IsSeen(s) ==
  s = [account |-> s.account, failed |-> s.failed, rows |-> s.rows, global |-> s.global,
       first |-> s.first, boxes |-> s.boxes, read |-> s.read]

\* An account state read is of a number of rows the account had.
CountOf(accounts) == IF accounts = {} THEN 0 ELSE (CHOOSE x \in accounts : TRUE).count
CountSeen(s) == CountOf(s.account)
AccountSeen(s, acc) ==
  /\ s.rows \in Nat /\ s.rows <= Len(acc.powers)
  /\ \/ s.account = {} /\ (s.failed \/ s.rows = 0)
     \/ \E e \in Nat : s.account = {[end |-> e, count |-> s.rows]}

\* A global state read: of a time, and of a number of rows; those added since
\* are of that time or later, or of a week's beginning.
GlobalSeen(s, tot, at) ==
  /\ s.global = [count |-> s.global.count, last |-> s.global.last, at |-> s.global.at]
  /\ s.global.count \in Nat \ {0} /\ s.global.count <= Len(tot)
  /\ s.global.at \in Nat /\ s.global.at <= at /\ s.global.last \in Nat
  /\ \A i \in s.global.count + 1 .. Len(tot) :
       tot[i].timestamp % WEEK = 0 \/ tot[i].timestamp >= s.global.at

\* A box is among those named.
InRefs(b, refs) == \E k \in DOMAIN refs : \E i \in DOMAIN refs[k] : refs[k][i] = b

\* The box of the last row of total power seen is named, and the next one.
TotalNamed(refs, s) ==
  /\ InRefs(TotalBox(lastBoxIndex(s.global.count)), refs)
  /\ InRefs(TotalBox(lastBoxIndex(s.global.count) + 1), refs)

BoxNames ==
  {StateBox(u) : u \in Users} \cup {PowerBox(u, i) : u \in Users, i \in Nat}
    \cup {TotalBox(i) : i \in Nat} \cup {SlopeBox(t) : t \in Nat}

\* A call as it goes into a group: what it does and what it names.
IsPart(p, s) == IsCall(p.call) /\ p.refs \in Seq(Seq(BoxNames)) /\ TotalNamed(p.refs, s)

FirstBuilt(s) == \E p : s.first = <<p>> /\ IsPart(p, s)

IsGroup(g) ==
  /\ g.user \in Users /\ Len(g.calls) \in 1 .. 2
  /\ \A i \in 1 .. Len(g.calls) : IsCall(g.calls[i])

PowerReal(s, r, a, acc) ==
  \E k \in s.rows .. Len(acc.log) : a - PowerByLog(SubSeq(acc.log, 1, k), r.at) \in -1 .. 1

CallIs(c, p, r, s, g, a, acc, tot, at) ==
  /\ IsSeen(s)
  /\ p = "idle" => s = Unread
  /\ p \in VaultPlaces => r \in Requests
  /\ p \in VaultPlaces /\ r.op # "totalPower" => AccountSeen(s, acc)
  /\ p \in {"global", "increase", "built"} /\ r.op \notin {"withdraw", "tinyPower"}
       => GlobalSeen(s, tot, at)
  /\ p = "increase" => r.op = "both" /\ FirstBuilt(s)
  /\ p = "built" => /\ IsGroup(g) /\ g.user = Owner[c] /\ r.op \notin {"tinyPower", "totalPower"}
                    /\ r.op # "withdraw" => TotalNamed(g.refs, s)
  /\ p = "account" /\ r.op = "tinyPower" => ReadBy(s.read, s.boxes, acc.powers, CountSeen(s))
  /\ p = "global" /\ r.op = "totalPower" => ReadBy(s.read, s.boxes, tot, s.global.count)
  /\ p = "answered" => a \in Nat
  /\ p = "answered" /\ r.op = "tinyPower" /\ ~s.failed => PowerReal(s, r, a, acc)

LEMMA SubSeqSame ==
  ASSUME NEW S, NEW p \in Seq(S), NEW q \in Seq(S), Prefix(p, q), NEW k \in 0 .. Len(p)
  PROVE  SubSeq(q, 1, k) = SubSeq(p, 1, k) /\ k \in 0 .. Len(q)
<1>1. Len(p) \in Nat /\ Len(q) \in Nat /\ Len(p) <= Len(q) /\ \A i \in 1 .. Len(p) : q[i] = p[i]
  BY DEF Prefix
<1>2. k \in 0 .. Len(q)
  BY <1>1
<1>3. /\ SubSeq(p, 1, k) \in Seq(S) /\ Len(SubSeq(p, 1, k)) = k
      /\ \A i \in 1 .. k : SubSeq(p, 1, k)[i] = p[i]
  OBVIOUS
<1>4. /\ SubSeq(q, 1, k) \in Seq(S) /\ Len(SubSeq(q, 1, k)) = k
      /\ \A i \in 1 .. k : SubSeq(q, 1, k)[i] = q[i]
  BY <1>1, <1>2
<1>5. \A i \in 1 .. k : i \in 1 .. Len(p)
  BY <1>1
<1>6. \A i \in 1 .. k : SubSeq(q, 1, k)[i] = SubSeq(p, 1, k)[i]
  BY Zenon, <1>1, <1>3, <1>4, <1>5
<1>7. SubSeq(q, 1, k) = SubSeq(p, 1, k)
  BY <1>3, <1>4, <1>6, SeqEqual
<1> QED
  BY <1>2, <1>7

LEMMA RequestIs ==
  ASSUME NEW r \in Requests
  PROVE  /\ r.amount \in Nat /\ r.end \in Nat /\ r.at \in Nat /\ r.end % WEEK = 0
         /\ r.op \in {"create", "both", "increase", "extend", "withdraw", "tinyPower", "totalPower"}
<1>1. /\ Amounts \subseteq Nat /\ Ends \subseteq Nat /\ Times \subseteq Nat
  BY RequestAssumption
<1>2. 0 % WEEK = 0
  BY WeekIs
<1> DEFINE amounts == {a \in Amounts : a >= MinLockAmount}
           ends == {e \in Ends : e % WEEK = 0}
           S1 == [op : {"create", "both"}, amount : amounts, end : ends, at : {0}]
           S2 == [op : {"increase"}, amount : amounts, end : {0}, at : {0}]
           S3 == [op : {"extend"}, amount : {0}, end : ends, at : {0}]
           S4 == [op : {"withdraw"}, amount : {0}, end : {0}, at : {0}]
           S5 == [op : {"tinyPower", "totalPower"}, amount : {0}, end : {0}, at : Times]
<1>3. amounts \subseteq Nat /\ ends \subseteq Nat /\ \A e \in ends : e % WEEK = 0
  BY <1>1
<1>4. r \in S1 \/ r \in S2 \/ r \in S3 \/ r \in S4 \/ r \in S5
  BY Zenon DEF Requests
<1> HIDE DEF amounts, ends
<1>5. CASE r \in S1
  <2>1. r.op \in {"create", "both"} /\ r.amount \in amounts /\ r.end \in ends /\ r.at = 0
    BY <1>5
  <2>2. r.amount \in Nat
    BY <1>3, <2>1
  <2>3. r.end \in Nat
    BY <1>3, <2>1
  <2>4. r.end % WEEK = 0
    BY Zenon, <1>2, <1>3, <2>1
  <2>5. r.at \in Nat
    BY <2>1
  <2> QED
    BY <2>1, <2>2, <2>3, <2>4, <2>5
<1>6. CASE r \in S2
  <2>1. r.op \in {"increase"} /\ r.amount \in amounts /\ r.end = 0 /\ r.at = 0
    BY <1>6
  <2>2. r.amount \in Nat
    BY <1>3, <2>1
  <2>3. r.end \in Nat
    BY <1>3, <2>1
  <2>4. r.end % WEEK = 0
    BY Zenon, <1>2, <1>3, <2>1
  <2>5. r.at \in Nat
    BY <2>1
  <2> QED
    BY <2>1, <2>2, <2>3, <2>4, <2>5
<1>7. CASE r \in S3
  <2>1. r.op \in {"extend"} /\ r.amount = 0 /\ r.end \in ends /\ r.at = 0
    BY <1>7
  <2>2. r.amount \in Nat
    BY <1>3, <2>1
  <2>3. r.end \in Nat
    BY <1>3, <2>1
  <2>4. r.end % WEEK = 0
    BY Zenon, <1>2, <1>3, <2>1
  <2>5. r.at \in Nat
    BY <2>1
  <2> QED
    BY <2>1, <2>2, <2>3, <2>4, <2>5
<1>8. CASE r \in S4
  <2>1. r.op = "withdraw" /\ r.amount = 0 /\ r.end = 0 /\ r.at = 0
    BY <1>8
  <2>2. r.amount \in Nat
    BY <1>3, <2>1
  <2>3. r.end \in Nat
    BY <1>3, <2>1
  <2>4. r.end % WEEK = 0
    BY Zenon, <1>2, <1>3, <2>1
  <2>5. r.at \in Nat
    BY <2>1
  <2> QED
    BY Zenon, <2>1, <2>2, <2>3, <2>4, <2>5
<1>9. CASE r \in S5
  <2>1. r.op \in {"tinyPower", "totalPower"} /\ r.amount = 0 /\ r.end = 0 /\ r.at \in Times
    BY <1>9
  <2>2. r.amount \in Nat
    BY <1>3, <2>1
  <2>3. r.end \in Nat
    BY <1>3, <2>1
  <2>4. r.end % WEEK = 0
    BY Zenon, <1>2, <1>3, <2>1
  <2>5. r.at \in Nat
    BY <1>1, <2>1
  <2> QED
    BY <2>1, <2>2, <2>3, <2>4, <2>5
<1> QED
  BY <1>4, <1>5, <1>6, <1>7, <1>8, <1>9

LEMMA PowerRealLater ==
  ASSUME NEW s, NEW r, NEW a, NEW acc, NEW acc2, NEW at \in Nat, NEW at2 \in Nat,
         IsAccount(acc, at), IsAccount(acc2, at2), Further(acc, acc2, at),
         s.rows \in Nat, PowerReal(s, r, a, acc)
  PROVE  PowerReal(s, r, a, acc2)
<1>1. PICK k \in s.rows .. Len(acc.log) : a - PowerByLog(SubSeq(acc.log, 1, k), r.at) \in -1 .. 1
  BY DEF PowerReal
<1>2. acc.log \in Seq(Locks) /\ acc2.log \in Seq(Locks) /\ Prefix(acc.log, acc2.log)
  BY DEF IsAccount, Further
<1>3. k \in 0 .. Len(acc.log)
  BY <1>1
<1>4. SubSeq(acc2.log, 1, k) = SubSeq(acc.log, 1, k) /\ k \in 0 .. Len(acc2.log)
  BY <1>2, <1>3, SubSeqSame
<1>5. k \in s.rows .. Len(acc2.log)
  BY <1>1, <1>4
<1> QED
  BY Zenon, <1>1, <1>4, <1>5 DEF PowerReal

LEMMA GlobalSeenLater ==
  ASSUME NEW s, NEW tot, NEW tot2, NEW at \in Nat, NEW at2 \in Nat, at <= at2,
         Totals(tot, at), Totals(tot2, at2), tot2 = tot \/ Checked(tot, tot2, at),
         GlobalSeen(s, tot, at)
  PROVE  GlobalSeen(s, tot2, at2)
<1>1. CASE tot2 = tot
  BY <1>1 DEF GlobalSeen
<1>2. CASE Checked(tot, tot2, at)
  <2>1. /\ Len(tot) \in Nat /\ Len(tot2) \in Nat /\ Len(tot) < Len(tot2)
        /\ \A i \in 1 .. Len(tot) : tot2[i] = tot[i]
        /\ \A i \in Len(tot) + 1 .. Len(tot2) :
             tot2[i].timestamp = at \/ tot2[i].timestamp % WEEK = 0
    BY <1>2 DEF Totals, Checked, Prefix
  <2>2. /\ s.global.count \in Nat \ {0} /\ s.global.count <= Len(tot)
        /\ s.global.at \in Nat /\ s.global.at <= at /\ s.global.last \in Nat
        /\ \A i \in s.global.count + 1 .. Len(tot) :
             tot[i].timestamp % WEEK = 0 \/ tot[i].timestamp >= s.global.at
    BY DEF GlobalSeen
  <2>3. \A i \in s.global.count + 1 .. Len(tot2) :
          tot2[i].timestamp % WEEK = 0 \/ tot2[i].timestamp >= s.global.at
    <3> TAKE i \in s.global.count + 1 .. Len(tot2)
    <3>1. CASE i <= Len(tot)
      <4>1. i \in s.global.count + 1 .. Len(tot) /\ i \in 1 .. Len(tot)
        BY <2>1, <2>2, <3>1
      <4> QED
        BY Zenon, <2>1, <2>2, <4>1
    <3>2. CASE ~ i <= Len(tot)
      <4>1. i \in Len(tot) + 1 .. Len(tot2)
        BY <2>1, <2>2, <3>2
      <4>2. tot2[i].timestamp = at \/ tot2[i].timestamp % WEEK = 0
        BY Zenon, <2>1, <4>1
      <4>3. tot2[i].timestamp = at => tot2[i].timestamp >= s.global.at
        BY <2>2
      <4> QED
        BY <4>2, <4>3
    <3> QED
      BY <3>1, <3>2
  <2>4. s.global.count <= Len(tot2) /\ s.global.at <= at2
    BY <2>1, <2>2
  <2> QED
    BY Zenon, <2>2, <2>3, <2>4 DEF GlobalSeen
<1> QED
  BY <1>1, <1>2

-----------------------------------------------------------------------------
(* The invariant of the vault and its calls.                                *)

LEMMA CallLater ==
  ASSUME NEW at \in Nat, NEW at2 \in Nat, at <= at2,
         NEW acc, NEW acc2, IsAccount(acc, at), IsAccount(acc2, at2), Further(acc, acc2, at),
         NEW tot, NEW tot2, Totals(tot, at), Totals(tot2, at2),
         tot2 = tot \/ Checked(tot, tot2, at),
         NEW c, NEW p, NEW r, NEW s, NEW g, NEW a, CallIs(c, p, r, s, g, a, acc, tot, at)
  PROVE  CallIs(c, p, r, s, g, a, acc2, tot2, at2)
<1>1. /\ acc.powers \in Seq(Rows) /\ acc2.powers \in Seq(Rows) /\ Prefix(acc.powers, acc2.powers)
      /\ Len(acc.powers) \in Nat /\ Len(acc2.powers) \in Nat /\ Len(acc.powers) <= Len(acc2.powers)
  BY DEF IsAccount, Further, AddedAt, Prefix
<1>2. tot \in Seq(Rows) /\ tot2 \in Seq(Rows) /\ Prefix(tot, tot2)
  BY PrefixSame DEF Totals, Checked
<1>3. AccountSeen(s, acc) => AccountSeen(s, acc2)
  BY <1>1 DEF AccountSeen
<1>4. GlobalSeen(s, tot, at) => GlobalSeen(s, tot2, at2)
  BY GlobalSeenLater
<1>5. /\ ReadBy(s.read, s.boxes, acc.powers, CountSeen(s))
           => ReadBy(s.read, s.boxes, acc2.powers, CountSeen(s))
      /\ ReadBy(s.read, s.boxes, tot, s.global.count) => ReadBy(s.read, s.boxes, tot2, s.global.count)
  BY <1>1, <1>2, ReadLater
<1>6. AccountSeen(s, acc) /\ PowerReal(s, r, a, acc) => PowerReal(s, r, a, acc2)
  BY PowerRealLater DEF AccountSeen
<1>8. p = "answered" => p \in VaultPlaces
  BY DEF VaultPlaces
<1>9. "totalPower" \notin {"withdraw", "tinyPower"} /\ "tinyPower" # "totalPower"
  OBVIOUS
<1>10. /\ IsSeen(s)
       /\ p = "idle" => s = Unread
       /\ p \in VaultPlaces => r \in Requests
       /\ p = "increase" => r.op = "both" /\ FirstBuilt(s)
       /\ p = "built" => /\ IsGroup(g) /\ g.user = Owner[c]
                         /\ r.op \notin {"tinyPower", "totalPower"}
                         /\ r.op # "withdraw" => TotalNamed(g.refs, s)
       /\ p = "answered" => a \in Nat
  BY Zenon DEF CallIs
<1>11. p \in VaultPlaces /\ r.op # "totalPower" => AccountSeen(s, acc)
  BY Zenon DEF CallIs
<1>12. p \in {"global", "increase", "built"} /\ r.op \notin {"withdraw", "tinyPower"}
         => GlobalSeen(s, tot, at)
  BY Zenon DEF CallIs
<1>13. /\ p = "account" /\ r.op = "tinyPower" => ReadBy(s.read, s.boxes, acc.powers, CountSeen(s))
       /\ p = "global" /\ r.op = "totalPower" => ReadBy(s.read, s.boxes, tot, s.global.count)
  BY Zenon DEF CallIs
<1>14. p = "answered" /\ r.op = "tinyPower" /\ ~s.failed => PowerReal(s, r, a, acc)
  BY Zenon DEF CallIs
<1>16. p = "answered" /\ r.op = "tinyPower" /\ ~s.failed => PowerReal(s, r, a, acc2)
  BY Zenon, <1>6, <1>8, <1>9, <1>11, <1>14
<1>18. /\ p \in VaultPlaces /\ r.op # "totalPower" => AccountSeen(s, acc2)
       /\ p \in {"global", "increase", "built"} /\ r.op \notin {"withdraw", "tinyPower"}
            => GlobalSeen(s, tot2, at2)
       /\ p = "account" /\ r.op = "tinyPower" => ReadBy(s.read, s.boxes, acc2.powers, CountSeen(s))
       /\ p = "global" /\ r.op = "totalPower" => ReadBy(s.read, s.boxes, tot2, s.global.count)
  BY Zenon, <1>3, <1>4, <1>5, <1>11, <1>12, <1>13
<1> QED
  BY Zenon, <1>10, <1>16, <1>18 DEF CallIs
-----------------------------------------------------------------------------
(* The invariant.                                                           *)

ChainIs(n, tot, deltas, accounts) ==
  /\ n \in Nat /\ Totals(tot, n) /\ Deltas(deltas)
  /\ accounts = [u \in Users |-> accounts[u]]
  /\ \A u \in Users : IsAccount(accounts[u], n)
ChainOK == ChainIs(now, total, slopeDelta, account)

CallOK(c) == CallIs(c, pc[c], req[c], seen[c], group[c], answer[c], account[Owner[c]], total, now)

OfCalls(f) == f = [c \in Calls |-> f[c]]
CallsShaped == OfCalls(pc) /\ OfCalls(req) /\ OfCalls(seen) /\ OfCalls(group) /\ OfCalls(answer)

VInv == ChainOK /\ CallsShaped /\ \A c \in Calls : CallOK(c)

Grows ==
  /\ now <= now' /\ (total' = total \/ Checked(total, total', now))
  /\ \A u \in Users : Further(account[u], account'[u], now)

SameCall(c) ==
  /\ pc'[c] = pc[c] /\ req'[c] = req[c] /\ seen'[c] = seen[c] /\ group'[c] = group[c]
  /\ answer'[c] = answer[c]

LEMMA OwnerIsUser == \A c \in Calls : Owner[c] \in Users
  BY DEF Users

LEMMA SameCallKept ==
  ASSUME VInv, ChainOK', Grows, NEW c \in Calls, SameCall(c)
  PROVE  CallOK(c)'
<1> DEFINE u == Owner[c]
<1>1. u \in Users /\ CallOK(c) /\ now \in Nat /\ now' \in Nat /\ now <= now'
  BY OwnerIsUser DEF VInv, ChainOK, ChainIs, Grows
<1>2. /\ IsAccount(account[u], now) /\ IsAccount(account'[u], now')
      /\ Further(account[u], account'[u], now)
  BY <1>1 DEF VInv, ChainOK, ChainIs, Grows
<1>3. /\ Totals(total, now) /\ Totals(total', now')
      /\ total' = total \/ Checked(total, total', now)
  BY DEF VInv, ChainOK, ChainIs, Grows
<1>4. CallIs(c, pc[c], req[c], seen[c], group[c], answer[c], account[u], total, now)
  BY Zenon, <1>1 DEF CallOK
<1>5. CallIs(c, pc[c], req[c], seen[c], group[c], answer[c], account'[u], total', now')
  BY <1>1, <1>2, <1>3, <1>4, CallLater
<1> QED
  BY Zenon, <1>5 DEF CallOK, SameCall

LEMMA SameChainGrows ==
  ASSUME VInv, now' \in Nat, now <= now', UNCHANGED <<total, slopeDelta, account>>
  PROVE  ChainOK' /\ Grows
<1>1. /\ now \in Nat /\ Totals(total, now) /\ Deltas(slopeDelta)
      /\ account = [u \in Users |-> account[u]]
      /\ \A u \in Users : IsAccount(account[u], now)
  BY DEF VInv, ChainOK, ChainIs
<1>2. \A u \in Users : IsAccount(account[u], now')
  BY <1>1, AccountLater
<1>3. InOrder(total, now')
  <2>1. LastTime(total) <= now /\ \A i \in 1 .. Len(total) : total[i].timestamp \in Nat
          /\ total[i].timestamp <= LastTime(total) /\ LastTime(total) \in Nat
    BY <1>1, LastRow
  <2>2. InOrder(total, now) /\ DOMAIN total = 1 .. Len(total)
    BY <1>1, LastRow DEF Totals
  <2>3. \A i \in DOMAIN total : total[i].timestamp <= now'
    BY <1>1, <2>1, <2>2
  <2> QED
    BY <2>2, <2>3 DEF InOrder
<1>4. Totals(total, now')
  BY <1>1, <1>3 DEF Totals
<1>5. total' = total /\ slopeDelta' = slopeDelta /\ account' = account
  OBVIOUS
<1>6. ChainIs(now', total, slopeDelta, account)
  BY Zenon, <1>1, <1>2, <1>4 DEF ChainIs
<1>7. ChainOK'
  BY Zenon, <1>5, <1>6 DEF ChainOK
<1>8. \A u \in Users : Further(account[u], account[u], now)
  <2> TAKE u \in Users
  <2>1. account[u].powers \in Seq(Rows) /\ account[u].log \in Seq(Locks)
    BY <1>1 DEF IsAccount
  <2> QED
    BY <2>1, PrefixSame DEF Further
<1>9. Grows
  BY Zenon, <1>5, <1>8 DEF Grows
<1> QED
  BY <1>7, <1>9
-----------------------------------------------------------------------------
(* The boxes a group names.                                                 *)

Has(b, s) == \E i \in DOMAIN s : s[i] = b

LEMMA HasInConcat ==
  ASSUME NEW S, NEW p \in Seq(S), NEW q \in Seq(S)
  PROVE  p \o q \in Seq(S) /\ \A b : Has(b, p) \/ Has(b, q) => Has(b, p \o q)
<1> DEFINE pq == p \o q
<1>1. /\ pq \in Seq(S) /\ Len(pq) = Len(p) + Len(q)
      /\ \A i \in 1 .. Len(p) + Len(q) : pq[i] = IF i <= Len(p) THEN p[i] ELSE q[i - Len(p)]
  BY ConcatProperties
<1>2. /\ Len(p) \in Nat /\ Len(q) \in Nat /\ DOMAIN p = 1 .. Len(p) /\ DOMAIN q = 1 .. Len(q)
      /\ DOMAIN pq = 1 .. Len(p) + Len(q)
  BY <1>1, LenProperties
<1> HIDE DEF pq
<1>3. ASSUME NEW b, Has(b, p)  PROVE Has(b, pq)
  <2>1. PICK i \in 1 .. Len(p) : p[i] = b
    BY <1>2, <1>3 DEF Has
  <2>2. i \in 1 .. Len(p) + Len(q) /\ i <= Len(p)
    BY <1>2
  <2>3. pq[i] = b
    BY Zenon, <1>1, <2>1, <2>2
  <2> QED
    BY <1>2, <2>2, <2>3 DEF Has
<1>4. ASSUME NEW b, Has(b, q)  PROVE Has(b, pq)
  <2>1. PICK i \in 1 .. Len(q) : q[i] = b
    BY <1>2, <1>4 DEF Has
  <2> DEFINE j == i + Len(p)
  <2>2. j \in 1 .. Len(p) + Len(q) /\ ~ j <= Len(p) /\ j - Len(p) = i
    BY <1>2
  <2>3. pq[j] = b
    BY Zenon, <1>1, <2>1, <2>2
  <2> QED
    BY <1>2, <2>2, <2>3 DEF Has
<1> QED
  BY <1>1, <1>3, <1>4 DEF pq

LEMMA SlicesAre ==
  ASSUME NEW S, NEW boxes \in Seq(S)
  PROVE  /\ Slices(boxes) \in Seq(Seq(S)) /\ Len(Slices(boxes)) = 2 /\ DOMAIN Slices(boxes) = 1 .. 2
         /\ \A b : Has(b, boxes) => InRefs(b, Slices(boxes))
<1> DEFINE n == Len(boxes)
           m == IF n < 8 THEN n ELSE 8
           first == SubSeq(boxes, 1, m)
           second == SubSeq(boxes, 9, n)
           refs == Slices(boxes)
<1>1. refs = <<first, second>>
  BY DEF Slices
<1>2. n \in Nat /\ DOMAIN boxes = 1 .. n
  OBVIOUS
<1>3. m \in Nat /\ m <= n
  BY <1>2
<1>4. /\ first \in Seq(S) /\ Len(first) = m
      /\ \A i \in 1 .. m : first[i] = boxes[i]
  <2> HIDE DEF m
  <2> QED
    BY <1>2, <1>3
<1>5. /\ second \in Seq(S) /\ Len(second) = IF 9 <= n THEN n - 9 + 1 ELSE 0
      /\ \A i \in 1 .. n - 9 + 1 : second[i] = boxes[9 + i - 1]
  <2>1. \A i \in 9 .. n : boxes[i] \in S
    BY <1>2
  <2> QED
    BY <1>2, <2>1, SubSeqProperties
<1>6. DOMAIN first = 1 .. m /\ DOMAIN second = 1 .. (IF 9 <= n THEN n - 9 + 1 ELSE 0)
  BY <1>4, <1>5, LenProperties
<1> HIDE DEF first, second
<1>7. refs \in Seq(Seq(S))
  <2> DEFINE T == Seq(S)
  <2>1. first \in T /\ second \in T
    BY <1>4, <1>5
  <2> HIDE DEF T
  <2>2. <<first, second>> \in Seq(T)
    BY <2>1
  <2> QED
    BY Zenon, <1>1, <2>2 DEF T
<1>8. Len(refs) = 2 /\ DOMAIN refs = 1 .. 2 /\ refs[1] = first /\ refs[2] = second
  BY <1>1
<1> HIDE DEF refs
<1>9. ASSUME NEW b, Has(b, boxes)  PROVE InRefs(b, refs)
  <2>1. PICK i \in 1 .. n : boxes[i] = b
    BY <1>2, <1>9 DEF Has
  <2>2. CASE i <= 8
    <3>1. i \in 1 .. m
      BY <1>2, <2>2
    <3>2. i \in DOMAIN refs[1] /\ refs[1][i] = b
      BY Zenon, <1>4, <1>6, <1>8, <2>1, <3>1
    <3>3. 1 \in DOMAIN refs
      BY <1>8
    <3> QED
      BY Zenon, <3>2, <3>3 DEF InRefs
  <2>3. CASE ~ i <= 8
    <3> DEFINE j == i - 8
    <3>1. j \in 1 .. n - 9 + 1 /\ 9 + j - 1 = i /\ 9 <= n
      BY <1>2, <2>3
    <3>2. j \in DOMAIN refs[2] /\ refs[2][j] = b
      BY Zenon, <1>5, <1>6, <1>8, <2>1, <3>1
    <3>3. 2 \in DOMAIN refs
      BY <1>8
    <3> QED
      BY Zenon, <3>2, <3>3 DEF InRefs
  <2> QED
    BY <2>2, <2>3
<1> QED
  BY Zenon, <1>8, <1>9, <1>7 DEF refs

LEMMA ExpectedType ==
  ASSUME NEW old \in Nat, NEW new \in Int, old <= new
  PROVE  /\ getNewTotalPowerTimestamps(old, new) \in Seq(Nat)
         /\ Len(getNewTotalPowerTimestamps(old, new)) \in Nat \ {0}
<1> DEFINE first == getStartTimestampOfWeek(old) + WEEK
           weeks == IF first < new THEN (new - first + WEEK - 1) \div WEEK ELSE 0
           f == [i \in 1 .. weeks + 1 |-> IF i <= weeks THEN first + (i - 1) * WEEK ELSE new]
<1>1. getNewTotalPowerTimestamps(old, new) = f
  BY DEF getNewTotalPowerTimestamps
<1>2. WEEK \in Nat \ {0} /\ new \in Nat
  BY WeekIs
<1>3. first \in Nat
  <2>1. old + WEEK - 1 \in Nat
    BY <1>2
  <2>2. (old + WEEK - 1) \div WEEK \in Nat
    BY <1>2, <2>1, DivBound
  <2>3. ((old + WEEK - 1) \div WEEK) * WEEK \in Nat
    BY <1>2, <2>2, Z3
  <2> QED
    BY <1>2, <2>3 DEF getStartTimestampOfWeek
<1> HIDE DEF first
<1>4. weeks \in Nat
  <2>1. CASE first < new
    <3>1. new - first + WEEK - 1 \in Nat
      BY <1>2, <1>3, <2>1
    <3>2. (new - first + WEEK - 1) \div WEEK \in Nat
      BY <1>2, <3>1, DivBound
    <3> QED
      BY <2>1, <3>2
  <2>2. CASE ~ first < new
    BY <2>2
  <2> QED
    BY <2>1, <2>2
<1> HIDE DEF weeks
<1>5. \A i \in 1 .. weeks + 1 : (IF i <= weeks THEN first + (i - 1) * WEEK ELSE new) \in Nat
  <2> TAKE i \in 1 .. weeks + 1
  <2>1. i - 1 \in Nat
    BY <1>4
  <2>2. (i - 1) * WEEK \in Nat
    BY <1>2, <2>1, Z3
  <2> QED
    BY <1>2, <1>3, <2>2
<1>6. weeks + 1 \in Nat \ {0}
  BY <1>4
<1> DEFINE m == weeks + 1
<1>7. f \in [1 .. m -> Nat]
  BY Zenon, <1>5
<1>8. m \in Nat \ {0}
  BY <1>6
<1> HIDE DEF f, m
<1>9. f \in Seq(Nat)
  BY <1>7, <1>8
<1>10. Len(f) = m
  <2>1. DOMAIN f = 1 .. m
    BY <1>7
  <2> QED
    BY <1>8, <1>9, <2>1, LenProperties
<1> QED
  BY <1>1, <1>8, <1>9, <1>10

\* The boxes of the weeks among so many of the times.
Begun(begun, expected) ==
  /\ begun[0] = <<>>
  /\ \A i \in 0 .. Len(expected) : begun[i] \in Seq(BoxNames)
  /\ \A i \in 1 .. Len(expected) :
       begun[i] = IF expected[i] % WEEK = 0
                  THEN Append(begun[i - 1], SlopeBox(expected[i])) ELSE begun[i - 1]

LEMMA WeekBoxesBegun ==
  ASSUME NEW expected \in Seq(Nat)
  PROVE  \E begun : Begun(begun, expected) /\ WeekBoxes(expected) = begun[Len(expected)]
<1> DEFINE n == Len(expected)
           X == Seq(BoxNames)
           E(f) == f = [i \in 0 .. n |->
                          IF i = 0 THEN <<>>
                          ELSE IF expected[i] % WEEK = 0
                               THEN Append(f[i - 1], SlopeBox(expected[i])) ELSE f[i - 1]]
           begun == CHOOSE f : E(f)
           g == [i \in 1 .. n |-> [x \in X |->
                   IF expected[i] % WEEK = 0 THEN Append(x, SlopeBox(expected[i])) ELSE x]]
<1>1. WeekBoxes(expected) = begun[n]
  BY Zenon DEF WeekBoxes
<1>2. n \in Nat /\ \A i \in 1 .. n : expected[i] \in Nat
  OBVIOUS
<1>3. <<>> \in X
  OBVIOUS
<1>4. \A t \in Nat, x \in X : Append(x, SlopeBox(t)) \in X
  <2> TAKE t \in Nat, x \in X
  <2>1. SlopeBox(t) \in BoxNames
    BY DEF BoxNames
  <2> QED
    BY <2>1, AppendProperties
<1>5. \A x \in X, i \in 1 .. n :
         g[i][x] = IF expected[i] % WEEK = 0 THEN Append(x, SlopeBox(expected[i])) ELSE x
  BY Zenon
<1> HIDE DEF g, X, n
<1>6. \A x \in X, i \in 1 .. n : g[i][x] \in X
  BY Zenon, <1>2, <1>4, <1>5
<1>7. PICK f : Unfolds(f, n, <<>>, g)
  BY <1>2, <1>3, <1>6, Unfolding
<1>8. f \in [0 .. n -> X]
  BY <1>2, <1>3, <1>6, <1>7, UnfoldedType
<1>9. E(f)
  <2>1. \A i \in 0 .. n : (IF i = 0 THEN <<>> ELSE g[i][f[i - 1]])
                          = IF i = 0 THEN <<>>
                            ELSE IF expected[i] % WEEK = 0
                                 THEN Append(f[i - 1], SlopeBox(expected[i])) ELSE f[i - 1]
    <3> TAKE i \in 0 .. n
    <3>1. CASE i = 0
      BY Zenon, <3>1
    <3>2. CASE i # 0
      <4>1. i \in 1 .. n /\ i - 1 \in 0 .. n
        BY <1>2, <3>2
      <4>2. f[i - 1] \in X
        BY Zenon, <1>8, <4>1
      <4> QED
        BY Zenon, <1>5, <3>2, <4>1, <4>2
    <3> QED
      BY Zenon, <3>1, <3>2
  <2>2. f = [i \in 0 .. n |-> IF i = 0 THEN <<>> ELSE g[i][f[i - 1]]]
    BY Zenon, <1>7 DEF Unfolds
  <2> QED
    BY Zenon, <2>1, <2>2
<1>10. E(begun)
  BY Zenon, <1>9
<1> HIDE DEF begun
<1>11. /\ begun[0] = <<>>
       /\ \A i \in 0 .. n : begun[i] \in X
       /\ \A i \in 1 .. n :
            begun[i] = IF expected[i] % WEEK = 0
                       THEN Append(begun[i - 1], SlopeBox(expected[i])) ELSE begun[i - 1]
  <2>1. \A i \in 0 .. n : begun[i] =
          IF i = 0 THEN <<>>
          ELSE IF expected[i] % WEEK = 0
               THEN Append(begun[i - 1], SlopeBox(expected[i])) ELSE begun[i - 1]
    BY Zenon, <1>10
  <2>2. 0 \in 0 .. n /\ \A i \in 1 .. n : i \in 0 .. n /\ i # 0
    BY <1>2
  <2>3. begun[0] = <<>> /\ begun[0] \in X
    BY Zenon, <1>3, <2>1, <2>2
  <2>4. \A i \in 1 .. n : begun[i - 1] \in X => begun[i] \in X
    BY Zenon, <1>2, <1>4, <2>1, <2>2
  <2>5. \A i \in 0 .. n : begun[i] \in X
    BY <1>2, <2>3, <2>4, Stays
  <2>6. \A i \in 1 .. n :
          begun[i] = IF expected[i] % WEEK = 0
                     THEN Append(begun[i - 1], SlopeBox(expected[i])) ELSE begun[i - 1]
    BY Zenon, <2>1, <2>2
  <2> QED
    BY Zenon, <2>3, <2>5, <2>6
<1> QED
  BY Zenon, <1>1, <1>11 DEF Begun, n, X

LEMMA WeekBoxesType ==
  ASSUME NEW expected \in Seq(Nat)
  PROVE  WeekBoxes(expected) \in Seq(BoxNames)
<1>1. PICK begun : Begun(begun, expected) /\ WeekBoxes(expected) = begun[Len(expected)]
  BY WeekBoxesBegun
<1>2. Len(expected) \in 0 .. Len(expected)
  OBVIOUS
<1> QED
  BY Zenon, <1>1, <1>2 DEF Begun
-----------------------------------------------------------------------------
(* The parts of a group.                                                    *)

LEMMA LastBoxType ==
  ASSUME NEW count \in Nat
  PROVE  lastBoxIndex(count) \in Nat /\ lastBoxIndex(count) + 1 \in Nat
<1>1. CASE count = 0
  BY <1>1 DEF lastBoxIndex
<1>2. CASE count # 0
  <2>1. count - 1 \in Nat /\ ArrayLen \in Nat \ {0}
    BY <1>2, WeekIs
  <2>2. (count - 1) \div ArrayLen \in Nat
    BY <2>1, DivBound
  <2> QED
    BY <1>2, <2>2 DEF lastBoxIndex
<1> QED
  BY <1>1, <1>2

LEMMA SmallSequences ==
  ASSUME NEW S, NEW x \in S, NEW y \in S
  PROVE  /\ <<x>> \in Seq(S) /\ <<x, y>> \in Seq(S) /\ <<>> \in Seq(S)
         /\ Has(x, <<x>>) /\ Has(x, <<x, y>>) /\ Has(y, <<x, y>>)
<1>1. <<x>> \in Seq(S) /\ <<x, y>> \in Seq(S) /\ <<>> \in Seq(S)
  OBVIOUS
<1>2. 1 \in DOMAIN <<x>> /\ <<x>>[1] = x
  OBVIOUS
<1>3. 1 \in DOMAIN <<x, y>> /\ 2 \in DOMAIN <<x, y>> /\ <<x, y>>[1] = x /\ <<x, y>>[2] = y
  OBVIOUS
<1> QED
  BY Zenon, <1>1, <1>2, <1>3 DEF Has

LEMMA BoxNamesAre ==
  /\ \A u \in Users : StateBox(u) \in BoxNames
  /\ \A u \in Users, i \in Nat : PowerBox(u, i) \in BoxNames
  /\ \A i \in Nat : TotalBox(i) \in BoxNames
  /\ \A t \in Nat : SlopeBox(t) \in BoxNames
  BY DEF BoxNames

\* The boxes of total power are among those of a sequence.
HasTotals(s, boxes) ==
  /\ Has(TotalBox(lastBoxIndex(s.global.count)), boxes)
  /\ Has(TotalBox(lastBoxIndex(s.global.count) + 1), boxes)

LEMMA TotalBoxesAre ==
  ASSUME NEW s, s.global.count \in Nat, NEW expected
  PROVE  /\ TotalBoxes(s.global, expected) \in Seq(BoxNames)
         /\ HasTotals(s, TotalBoxes(s.global, expected))
<1> DEFINE x == TotalBox(lastBoxIndex(s.global.count))
           y == TotalBox(lastBoxIndex(s.global.count) + 1)
<1>1. TotalBoxes(s.global, expected) = <<x, y>>
  BY DEF TotalBoxes
<1>2. x \in BoxNames /\ y \in BoxNames
  BY LastBoxType, BoxNamesAre
<1> HIDE DEF x, y
<1>3. <<x, y>> \in Seq(BoxNames) /\ Has(x, <<x, y>>) /\ Has(y, <<x, y>>)
  BY <1>2, SmallSequences
<1> QED
  BY Zenon, <1>1, <1>3 DEF HasTotals, x, y

LEMMA NextPowerBoxType ==
  ASSUME NEW u \in Users, NEW s, s.count \in Nat
  PROVE  NextPowerBox(u, s) \in Seq(BoxNames)
<1>1. PowerBox(u, lastBoxIndex(s.count) + 1) \in BoxNames
  BY LastBoxType, BoxNamesAre
<1>2. <<PowerBox(u, lastBoxIndex(s.count) + 1)>> \in Seq(BoxNames) /\ <<>> \in Seq(BoxNames)
  BY <1>1, SmallSequences
<1> QED
  BY Zenon, <1>2 DEF NextPowerBox

LEMMA MoreBoxes ==
  ASSUME NEW s, NEW p \in Seq(BoxNames), NEW q \in Seq(BoxNames)
  PROVE  p \o q \in Seq(BoxNames) /\ (HasTotals(s, p) \/ HasTotals(s, q) => HasTotals(s, p \o q))
  BY HasInConcat DEF HasTotals

LEMMA SlicedPart ==
  ASSUME NEW s, NEW boxes \in Seq(BoxNames), HasTotals(s, boxes), NEW call, IsCall(call), NEW pay
  PROVE  IsPart([call |-> call, refs |-> Slices(boxes), pay |-> pay], s)
<1>1. /\ Slices(boxes) \in Seq(Seq(BoxNames))
      /\ \A b : Has(b, boxes) => InRefs(b, Slices(boxes))
  BY SlicesAre
<1> DEFINE refs == Slices(boxes)
           p == [call |-> call, refs |-> refs, pay |-> pay]
<1>2. refs \in Seq(Seq(BoxNames))
  BY Zenon, <1>1
<1>3. TotalNamed(refs, s)
  BY Zenon, <1>1 DEF HasTotals, TotalNamed
<1> HIDE DEF refs
<1>4. p.call = call /\ p.refs = refs
  OBVIOUS
<1> HIDE DEF p
<1>5. IsPart(p, s)
  BY Zenon, <1>2, <1>3, <1>4 DEF IsPart
<1> QED
  BY Zenon, <1>5 DEF p, refs

LEMMA IncreaseIsPart ==
  ASSUME NEW u \in Users, NEW a, NEW s, a.count \in Nat, a.end \in Nat, s.global.count \in Nat,
         NEW r \in Requests, NEW expected \in Seq(Nat)
  PROVE  IsPart(IncreaseLockAmount(u, a, s.global, r, expected), s)
<1> DEFINE b1 == <<StateBox(u), PowerBox(u, lastBoxIndex(a.count))>>
           b2 == TotalBoxes(s.global, expected)
           b3 == <<SlopeBox(a.end)>>
           b4 == WeekBoxes(expected)
           b5 == NextPowerBox(u, a)
           boxes == b1 \o b2 \o b3 \o b4 \o b5
           call == [op |-> "increase", amount |-> r.amount, end |-> 0]
           refs == <<boxes, <<>>>>
           pay == TotalCost(s.global, expected) + PowerCost(a)
<1>1. IncreaseLockAmount(u, a, s.global, r, expected) = [call |-> call, refs |-> refs, pay |-> pay]
  BY Zenon DEF IncreaseLockAmount
<1>2. /\ b1 \in Seq(BoxNames) /\ b3 \in Seq(BoxNames)
  BY LastBoxType, BoxNamesAre, SmallSequences
<1>3. /\ b2 \in Seq(BoxNames) /\ HasTotals(s, b2) /\ b4 \in Seq(BoxNames) /\ b5 \in Seq(BoxNames)
  BY TotalBoxesAre, WeekBoxesType, NextPowerBoxType
<1>4. IsCall(call)
  BY RequestIs DEF IsCall
<1> HIDE DEF b1, b2, b3, b4, b5, call, pay
<1>5. b1 \o b2 \in Seq(BoxNames) /\ HasTotals(s, b1 \o b2)
  BY <1>2, <1>3, MoreBoxes
<1>6. b1 \o b2 \o b3 \in Seq(BoxNames) /\ HasTotals(s, b1 \o b2 \o b3)
  BY <1>2, <1>5, MoreBoxes
<1>7. b1 \o b2 \o b3 \o b4 \in Seq(BoxNames) /\ HasTotals(s, b1 \o b2 \o b3 \o b4)
  BY <1>3, <1>6, MoreBoxes
<1>8. boxes \in Seq(BoxNames) /\ HasTotals(s, boxes)
  BY <1>3, <1>7, MoreBoxes
<1> HIDE DEF boxes
<1>9. Len(refs) = 2 /\ DOMAIN refs = 1 .. 2 /\ refs[1] = boxes
  OBVIOUS
<1>10. refs \in Seq(Seq(BoxNames))
  <2> DEFINE T == Seq(BoxNames)
  <2>1. boxes \in T /\ <<>> \in T
    BY <1>8
  <2> HIDE DEF T
  <2>2. <<boxes, <<>>>> \in Seq(T)
    BY <2>1
  <2> QED
    BY Zenon, <2>2 DEF T
<1> HIDE DEF refs
<1>11. 1 \in DOMAIN refs
  BY <1>9
<1>12. \A b : Has(b, boxes) => InRefs(b, refs)
  BY Zenon, <1>9, <1>11 DEF Has, InRefs
<1>13. TotalNamed(refs, s)
  BY Zenon, <1>8, <1>12 DEF HasTotals, TotalNamed
<1> DEFINE p == [call |-> call, refs |-> refs, pay |-> pay]
<1>14. p.call = call /\ p.refs = refs
  OBVIOUS
<1> HIDE DEF p
<1>15. IsPart(p, s)
  BY Zenon, <1>4, <1>13, <1>14, <1>10 DEF IsPart
<1> QED
  BY Zenon, <1>1, <1>15 DEF p

LEMMA ExtendIsPart ==
  ASSUME NEW u \in Users, NEW a, NEW s, a.count \in Nat, a.end \in Nat, s.global.count \in Nat,
         NEW delta, NEW r \in Requests, NEW expected \in Seq(Nat)
  PROVE  IsPart(ExtendLockEndTime(u, a, s.global, delta, r, expected), s)
<1> DEFINE b1 == <<StateBox(u), PowerBox(u, lastBoxIndex(a.count))>>
           b2 == TotalBoxes(s.global, expected)
           b3 == <<SlopeBox(a.end), SlopeBox(r.end)>>
           b4 == NextPowerBox(u, a)
           b5 == WeekBoxes(expected)
           boxes == b1 \o b2 \o b3 \o b4 \o b5
           call == [op |-> "extend", amount |-> 0, end |-> r.end]
           pay == (IF delta = 0 THEN Cost["sc"] ELSE 0) + PowerCost(a) + TotalCost(s.global, expected)
<1>1. ExtendLockEndTime(u, a, s.global, delta, r, expected)
        = [call |-> call, refs |-> Slices(boxes), pay |-> pay]
  BY Zenon DEF ExtendLockEndTime
<1>2. b1 \in Seq(BoxNames)
  BY LastBoxType, BoxNamesAre, SmallSequences
<1>3. b3 \in Seq(BoxNames)
  <2>1. SlopeBox(a.end) \in BoxNames /\ SlopeBox(r.end) \in BoxNames
    BY BoxNamesAre, RequestIs
  <2> QED
    BY <2>1, SmallSequences
<1>4. /\ b2 \in Seq(BoxNames) /\ HasTotals(s, b2) /\ b4 \in Seq(BoxNames) /\ b5 \in Seq(BoxNames)
  BY TotalBoxesAre, WeekBoxesType, NextPowerBoxType
<1>5. IsCall(call)
  BY RequestIs DEF IsCall
<1> HIDE DEF b1, b2, b3, b4, b5, call, pay
<1>6. b1 \o b2 \in Seq(BoxNames) /\ HasTotals(s, b1 \o b2)
  BY <1>2, <1>4, MoreBoxes
<1>7. b1 \o b2 \o b3 \in Seq(BoxNames) /\ HasTotals(s, b1 \o b2 \o b3)
  BY <1>3, <1>6, MoreBoxes
<1>8. b1 \o b2 \o b3 \o b4 \in Seq(BoxNames) /\ HasTotals(s, b1 \o b2 \o b3 \o b4)
  BY <1>4, <1>7, MoreBoxes
<1>9. boxes \in Seq(BoxNames) /\ HasTotals(s, boxes)
  BY <1>4, <1>8, MoreBoxes
<1> HIDE DEF boxes
<1> QED
  BY <1>1, <1>5, <1>9, SlicedPart

LEMMA CreateIsPart ==
  ASSUME NEW u \in Users, NEW accounts, NEW s, s.global.count \in Nat,
         accounts = {} \/ \E x : accounts = {x} /\ x.count \in Nat,
         NEW there, NEW r \in Requests, NEW expected \in Seq(Nat)
  PROVE  IsPart(CreateLock(u, accounts, s.global, there, r, expected), s)
<1> DEFINE a == CHOOSE x \in accounts : TRUE
           b1 == <<StateBox(u)>>
           b2 == TotalBoxes(s.global, expected)
           b3 == IF accounts = {} THEN <<PowerBox(u, 0)>>
                 ELSE <<PowerBox(u, lastBoxIndex(a.count))>> \o NextPowerBox(u, a)
           b4 == <<SlopeBox(r.end)>>
           b5 == WeekBoxes(expected)
           boxes == b1 \o b2 \o b3 \o b4 \o b5
           call == [op |-> "create", amount |-> r.amount, end |-> r.end]
           pay == (IF accounts = {} THEN Cost["state"] + Cost["power"] ELSE PowerCost(a))
                    + TotalCost(s.global, expected) + (IF there THEN 0 ELSE Cost["sc"])
<1>1. CreateLock(u, accounts, s.global, there, r, expected)
        = [call |-> call, refs |-> Slices(boxes), pay |-> pay]
  BY Zenon DEF CreateLock
<1>2. b1 \in Seq(BoxNames) /\ b4 \in Seq(BoxNames)
  BY BoxNamesAre, RequestIs, SmallSequences
<1>3. b3 \in Seq(BoxNames)
  <2>1. CASE accounts = {}
    <3>1. <<PowerBox(u, 0)>> \in Seq(BoxNames)
      BY BoxNamesAre, SmallSequences
    <3> QED
      BY Zenon, <2>1, <3>1
  <2>2. CASE accounts # {}
    <3>1. a.count \in Nat
      BY Zenon, <2>2
    <3> HIDE DEF a
    <3>2. PowerBox(u, lastBoxIndex(a.count)) \in BoxNames
      BY <3>1, LastBoxType, BoxNamesAre
    <3>3. <<PowerBox(u, lastBoxIndex(a.count))>> \in Seq(BoxNames)
      BY <3>2, SmallSequences
    <3>4. NextPowerBox(u, a) \in Seq(BoxNames)
      BY <3>1, NextPowerBoxType
    <3>5. <<PowerBox(u, lastBoxIndex(a.count))>> \o NextPowerBox(u, a) \in Seq(BoxNames)
      BY <3>3, <3>4, MoreBoxes
    <3> QED
      BY Zenon, <2>2, <3>5
  <2> QED
    BY <2>1, <2>2
<1>4. /\ b2 \in Seq(BoxNames) /\ HasTotals(s, b2) /\ b5 \in Seq(BoxNames)
  BY TotalBoxesAre, WeekBoxesType
<1>5. IsCall(call)
  BY RequestIs DEF IsCall
<1> HIDE DEF b1, b2, b3, b4, b5, call, pay, a
<1>6. b1 \o b2 \in Seq(BoxNames) /\ HasTotals(s, b1 \o b2)
  BY <1>2, <1>4, MoreBoxes
<1>7. b1 \o b2 \o b3 \in Seq(BoxNames) /\ HasTotals(s, b1 \o b2 \o b3)
  BY <1>3, <1>6, MoreBoxes
<1>8. b1 \o b2 \o b3 \o b4 \in Seq(BoxNames) /\ HasTotals(s, b1 \o b2 \o b3 \o b4)
  BY <1>2, <1>7, MoreBoxes
<1>9. boxes \in Seq(BoxNames) /\ HasTotals(s, boxes)
  BY <1>4, <1>8, MoreBoxes
<1> HIDE DEF boxes
<1> QED
  BY <1>1, <1>5, <1>9, SlicedPart

LEMMA InTwoRefs ==
  ASSUME NEW S, NEW b, NEW p \in Seq(S), NEW q \in Seq(S), InRefs(b, p)
  PROVE  InRefs(b, p \o q)
<1> DEFINE pq == p \o q
<1>1. /\ pq \in Seq(S) /\ Len(pq) = Len(p) + Len(q)
      /\ \A i \in 1 .. Len(p) + Len(q) : pq[i] = IF i <= Len(p) THEN p[i] ELSE q[i - Len(p)]
  BY ConcatProperties
<1>2. /\ Len(p) \in Nat /\ Len(q) \in Nat /\ DOMAIN p = 1 .. Len(p)
      /\ DOMAIN pq = 1 .. Len(p) + Len(q)
  BY <1>1, LenProperties
<1> HIDE DEF pq
<1>3. PICK k \in 1 .. Len(p) : \E i \in DOMAIN p[k] : p[k][i] = b
  BY Zenon, <1>2 DEF InRefs
<1>4. k \in 1 .. Len(p) + Len(q) /\ k <= Len(p)
  BY <1>2
<1>5. pq[k] = p[k]
  BY Zenon, <1>1, <1>4
<1>6. InRefs(b, pq)
  BY Zenon, <1>2, <1>3, <1>4, <1>5 DEF InRefs
<1> QED
  BY Zenon, <1>6 DEF pq

\* A group of one part, or of two of which the first names what it must.
LEMMA GroupOfOne ==
  ASSUME NEW u \in Users, NEW local, NEW s, NEW p, IsPart(p, s)
  PROVE  LET g == Group(u, local, <<p>>) IN IsGroup(g) /\ g.user = u /\ TotalNamed(g.refs, s)
<1> DEFINE g == Group(u, local, <<p>>)
           calls == [i \in DOMAIN <<p>> |-> <<p>>[i].call]
<1>1. DOMAIN <<p>> = 1 .. 1 /\ <<p>>[1] = p /\ Len(<<p>>) = 1
  OBVIOUS
<1>2. g.user = u /\ g.calls = calls /\ g.refs = p.refs
  BY <1>1 DEF Group
<1>3. DOMAIN calls = 1 .. 1 /\ calls[1] = p.call
  BY <1>1
<1>4. calls = <<p.call>>
  BY <1>1
<1> HIDE DEF calls, g
<1>5. Len(calls) = 1
  BY <1>4
<1>6. \A i \in 1 .. 1 : i = 1
  OBVIOUS
<1> QED
  BY <1>2, <1>3, <1>5, <1>6 DEF IsPart, IsGroup, g

LEMMA GroupOfTwo ==
  ASSUME NEW u \in Users, NEW local, NEW s, NEW t, NEW p, NEW q, IsPart(p, s), IsPart(q, t)
  PROVE  LET g == Group(u, local, <<p>> \o <<q>>)
         IN IsGroup(g) /\ g.user = u /\ TotalNamed(g.refs, s)
<1> DEFINE parts == <<p>> \o <<q>>
           g == Group(u, local, parts)
           calls == [i \in DOMAIN parts |-> parts[i].call]
<1>1. Len(parts) = 2 /\ DOMAIN parts = 1 .. 2 /\ parts[1] = p /\ parts[2] = q
  <2> DEFINE S == {p, q}
             x == <<p>>
             y == <<q>>
  <2>1. x \in Seq(S) /\ y \in Seq(S) /\ Len(x) = 1 /\ Len(y) = 1 /\ x[1] = p /\ y[1] = q
    OBVIOUS
  <2> HIDE DEF S, x, y
  <2>2. /\ x \o y \in Seq(S) /\ Len(x \o y) = Len(x) + Len(y)
        /\ \A i \in 1 .. Len(x) + Len(y) : (x \o y)[i] = IF i <= Len(x) THEN x[i] ELSE y[i - Len(x)]
    BY <2>1, ConcatProperties
  <2>3. Len(x) + Len(y) = 2 /\ 1 \in 1 .. Len(x) + Len(y) /\ 2 \in 1 .. Len(x) + Len(y)
        /\ 2 - Len(x) = 1 /\ 1 <= Len(x) /\ ~ 2 <= Len(x)
    BY <2>1
  <2>4. (x \o y)[1] = p /\ (x \o y)[2] = q
    BY Zenon, <2>1, <2>2, <2>3
  <2>5. Len(x \o y) = 2 /\ DOMAIN (x \o y) = 1 .. 2
    BY <2>2, <2>3, LenProperties
  <2> QED
    BY Zenon, <2>4, <2>5 DEF x, y
<1> HIDE DEF parts
<1>2. Len(parts) # 1
  BY <1>1
<1>3. g.user = u /\ g.calls = calls /\ g.refs = p.refs \o q.refs
  <2> DEFINE rest == IF Len(parts) = 1 THEN parts[1].pay ELSE parts[1].pay + parts[2].pay
             refs == IF Len(parts) = 1 THEN parts[1].refs ELSE parts[1].refs \o parts[2].refs
  <2>1. g = [user |-> u, built |-> local, calls |-> calls, refs |-> refs, pay |-> rest]
    BY Zenon DEF Group
  <2>2. refs = p.refs \o q.refs
    BY Zenon, <1>1, <1>2
  <2> HIDE DEF rest, refs, calls, g
  <2>3. g.user = u /\ g.calls = calls /\ g.refs = refs
    BY <2>1
  <2> QED
    BY <2>2, <2>3
<1>4. DOMAIN calls = 1 .. 2 /\ calls[1] = p.call /\ calls[2] = q.call
  BY <1>1
<1>5. calls = <<p.call, q.call>>
  BY <1>1
<1> HIDE DEF calls, g
<1>6. Len(calls) = 2
  BY <1>5
<1>7. \A i \in 1 .. 2 : i = 1 \/ i = 2
  OBVIOUS
<1>8. IsCall(p.call) /\ IsCall(q.call) /\ TotalNamed(p.refs, s)
      /\ p.refs \in Seq(Seq(BoxNames)) /\ q.refs \in Seq(Seq(BoxNames))
  BY Zenon DEF IsPart
<1>9. Len(g.calls) \in 1 .. 2 /\ \A i \in 1 .. Len(g.calls) : IsCall(g.calls[i])
  <2>1. Len(g.calls) = 2 /\ 2 \in 1 .. 2
    BY <1>3, <1>6
  <2>2. \A i \in 1 .. 2 : IsCall(calls[i])
    BY Zenon, <1>4, <1>7, <1>8
  <2> QED
    BY Zenon, <1>3, <2>1, <2>2
<1>10. IsGroup(g)
  BY Zenon, <1>3, <1>9 DEF IsGroup
<1>11. \A b : InRefs(b, p.refs) => InRefs(b, p.refs \o q.refs)
  BY Zenon, <1>8, InTwoRefs
<1>12. TotalNamed(g.refs, s)
  BY Zenon, <1>3, <1>8, <1>11 DEF TotalNamed
<1> QED
  BY Zenon, <1>3, <1>10, <1>12 DEF g, parts
-----------------------------------------------------------------------------
(* One call at a time.                                                      *)

\* f but for the call c, which has x.
But(f, g, c, x) == OfCalls(g) /\ g[c] = x /\ \A d \in Calls : d # c => g[d] = f[d]

LEMMA Excepted ==
  ASSUME NEW f, OfCalls(f), NEW c \in Calls, NEW x, NEW g, g = [f EXCEPT ![c] = x]
  PROVE  But(f, g, c, x)
<1>1. DOMAIN f = Calls
  BY DEF OfCalls
<1>2. g = [d \in Calls |-> IF d = c THEN x ELSE f[d]]
  BY <1>1
<1>3. \A d \in Calls : g[d] = IF d = c THEN x ELSE f[d]
  BY <1>2
<1>4. g = [d \in Calls |-> g[d]]
  BY <1>2, <1>3
<1> QED
  BY <1>3, <1>4 DEF OfCalls, But

LEMMA OthersKept ==
  ASSUME VInv, ChainOK', Grows, CallsShaped', NEW c \in Calls, CallOK(c)',
         \A d \in Calls : d # c => SameCall(d)
  PROVE  VInv'
<1>1. \A d \in Calls : CallOK(d)'
  <2> TAKE d \in Calls
  <2>1. CASE d = c
    BY <2>1
  <2>2. CASE d # c
    BY <2>2, SameCallKept
  <2> QED
    BY <2>1, <2>2
<1> QED
  BY <1>1 DEF VInv

\* One call goes on while the vault stays as it is.
SameChain == UNCHANGED <<now, total, slopeDelta, account>>
Moves(c, p, r, s, g, a) ==
  /\ But(pc, pc', c, p) /\ But(req, req', c, r) /\ But(seen, seen', c, s)
  /\ But(group, group', c, g) /\ But(answer, answer', c, a)
CallIsHere(c, p, r, s, g, a) == CallIs(c, p, r, s, g, a, account[Owner[c]], total, now)
Kept == VInv' /\ Grows

LEMMA CallMoves ==
  ASSUME VInv, SameChain, NEW c \in Calls, NEW p, NEW r, NEW s, NEW g, NEW a,
         Moves(c, p, r, s, g, a), CallIsHere(c, p, r, s, g, a)
  PROVE  Kept
<1>1. now \in Nat /\ UNCHANGED <<now, total, slopeDelta, account>>
  BY DEF VInv, ChainOK, ChainIs, SameChain
<1>2. ChainOK' /\ Grows
  BY <1>1, SameChainGrows
<1>3. /\ But(pc, pc', c, p) /\ But(req, req', c, r) /\ But(seen, seen', c, s)
      /\ But(group, group', c, g) /\ But(answer, answer', c, a)
  BY DEF Moves
<1>4. CallsShaped'
  BY <1>3 DEF CallsShaped, But, OfCalls
<1>5. now' = now /\ total' = total /\ account' = account
  BY <1>1
<1>6. CallOK(c)'
  BY Zenon, <1>3, <1>5 DEF CallOK, But, CallIsHere
<1>7. \A d \in Calls : d # c => SameCall(d)
  BY Zenon, <1>3 DEF SameCall, But
<1> QED
  BY <1>2, <1>4, <1>6, <1>7, OthersKept DEF Kept

LEMMA SameBut ==
  ASSUME NEW f, OfCalls(f), NEW c \in Calls
  PROVE  But(f, f, c, f[c])
  BY DEF But

LEMMA SameIsExcept ==
  ASSUME NEW f, OfCalls(f), NEW c \in Calls
  PROVE  f = [f EXCEPT ![c] = f[c]]
<1>1. DOMAIN f = Calls /\ f = [d \in Calls |-> f[d]]
  BY DEF OfCalls
<1> QED
  BY <1>1

\* Only its place changes, to one of no consequence.
LEMMA CallEnds ==
  ASSUME VInv, SameChain, UNCHANGED <<req, seen, group, answer>>,
         NEW c \in Calls, NEW p, p \notin VaultPlaces, p # "idle", pc' = [pc EXCEPT ![c] = p]
  PROVE  Kept
<1>1. IsSeen(seen[c])
  BY Zenon DEF VInv, CallOK, CallIs
<1>2. p \notin {"idle", "account", "global", "increase", "built", "answered"}
  BY DEF VaultPlaces
<1>3. CallIsHere(c, p, req[c], seen[c], group[c], answer[c])
  BY <1>1, <1>2 DEF CallIs, VaultPlaces, CallIsHere
<1>4. OfCalls(pc) /\ OfCalls(req) /\ OfCalls(seen) /\ OfCalls(group) /\ OfCalls(answer)
  BY DEF VInv, CallsShaped
<1>5. But(pc, pc', c, p)
  BY <1>4, Excepted
<1>6. /\ But(req, req, c, req[c]) /\ But(seen, seen, c, seen[c])
      /\ But(group, group, c, group[c]) /\ But(answer, answer, c, answer[c])
  BY <1>4, SameBut
<1>7. req' = req /\ seen' = seen /\ group' = group /\ answer' = answer
  OBVIOUS
<1>8. Moves(c, p, req[c], seen[c], group[c], answer[c])
  BY Zenon, <1>5, <1>6, <1>7 DEF Moves
<1> QED
  BY <1>3, <1>8, CallMoves

LEMMA ThrowStep ==
  ASSUME VInv, NEW c \in Calls, Throw(c)
  PROVE  Kept
<1>1. pc' = [pc EXCEPT ![c] = "threw"] /\ SameChain /\ UNCHANGED <<req, seen, group, answer>>
  BY DEF Throw, Go, chainVars, SameChain
<1>2. "threw" \notin VaultPlaces /\ "threw" # "idle"
  BY DEF VaultPlaces
<1> QED
  BY <1>1, <1>2, CallEnds

LEMMA RefuseStep ==
  ASSUME VInv, NEW c \in Calls, Refuse(c)
  PROVE  Kept
<1>1. pc' = [pc EXCEPT ![c] = "refused"] /\ SameChain /\ UNCHANGED <<req, seen, group, answer>>
  BY DEF Refuse, chainVars, SameChain
<1>2. "refused" \notin VaultPlaces /\ "refused" # "idle"
  BY DEF VaultPlaces
<1> QED
  BY <1>1, <1>2, CallEnds

LEMMA CallShapes ==
  ASSUME VInv
  PROVE  /\ OfCalls(pc) /\ OfCalls(req) /\ OfCalls(seen) /\ OfCalls(group) /\ OfCalls(answer)
         /\ now \in Nat
         /\ \A c \in Calls : CallIsHere(c, pc[c], req[c], seen[c], group[c], answer[c])
  BY DEF VInv, CallsShaped, ChainOK, ChainIs, CallOK, CallIsHere

LEMMA ChainNow ==
  ASSUME VInv
  PROVE  /\ now \in Nat /\ Totals(total, now) /\ Deltas(slopeDelta)
         /\ account = [u \in Users |-> account[u]]
         /\ \A u \in Users : IsAccount(account[u], now)
  BY DEF VInv, ChainOK, ChainIs

LEMMA SeenSteps ==
  ASSUME OfCalls(seen), NEW c \in Calls, IsSeen(seen[c]), NEW x, NEW y, NEW z
  PROVE  /\ seen' = [seen EXCEPT ![c].account = x, ![c].failed = y, ![c].rows = z]
              => But(seen, seen', c,
                   [account |-> x, failed |-> y, rows |-> z, global |-> seen[c].global,
                    first |-> seen[c].first, boxes |-> seen[c].boxes, read |-> seen[c].read])
         /\ seen' = [seen EXCEPT ![c].global = x]
              => But(seen, seen', c,
                   [account |-> seen[c].account, failed |-> seen[c].failed, rows |-> seen[c].rows,
                    global |-> x, first |-> seen[c].first, boxes |-> seen[c].boxes,
                    read |-> seen[c].read])
         /\ seen' = [seen EXCEPT ![c].first = x]
              => But(seen, seen', c,
                   [account |-> seen[c].account, failed |-> seen[c].failed, rows |-> seen[c].rows,
                    global |-> seen[c].global, first |-> x, boxes |-> seen[c].boxes,
                    read |-> seen[c].read])
         /\ seen' = [seen EXCEPT ![c].boxes = x, ![c].read = y]
              => But(seen, seen', c,
                   [account |-> seen[c].account, failed |-> seen[c].failed, rows |-> seen[c].rows,
                    global |-> seen[c].global, first |-> seen[c].first, boxes |-> x,
                    read |-> y])
         /\ seen' = [seen EXCEPT ![c].account = x, ![c].failed = y]
              => But(seen, seen', c,
                   [account |-> x, failed |-> y, rows |-> seen[c].rows,
                    global |-> seen[c].global, first |-> seen[c].first, boxes |-> seen[c].boxes,
                    read |-> seen[c].read])
<1> DEFINE s == seen[c]
<1>1. s = [account |-> s.account, failed |-> s.failed, rows |-> s.rows, global |-> s.global,
           first |-> s.first, boxes |-> s.boxes, read |-> s.read]
  BY DEF IsSeen
<1>2. ASSUME seen' = [seen EXCEPT ![c].account = x, ![c].failed = y, ![c].rows = z]
      PROVE  But(seen, seen', c, [account |-> x, failed |-> y, rows |-> z, global |-> s.global, first |-> s.first, boxes |-> s.boxes, read |-> s.read])
  <2>1. seen' = [seen EXCEPT ![c] = [[[s EXCEPT !.account = x] EXCEPT !.failed = y] EXCEPT !.rows = z]]
    BY <1>2
  <2>2. [s EXCEPT !.account = x]
          = [account |-> x, failed |-> s.failed, rows |-> s.rows, global |-> s.global, first |-> s.first, boxes |-> s.boxes, read |-> s.read]
    BY <1>1
  <2>3. [[account |-> x, failed |-> s.failed, rows |-> s.rows, global |-> s.global, first |-> s.first, boxes |-> s.boxes, read |-> s.read] EXCEPT !.failed = y]
          = [account |-> x, failed |-> y, rows |-> s.rows, global |-> s.global, first |-> s.first, boxes |-> s.boxes, read |-> s.read]
    OBVIOUS
  <2>4. [[account |-> x, failed |-> y, rows |-> s.rows, global |-> s.global, first |-> s.first, boxes |-> s.boxes, read |-> s.read] EXCEPT !.rows = z]
          = [account |-> x, failed |-> y, rows |-> z, global |-> s.global, first |-> s.first, boxes |-> s.boxes, read |-> s.read]
    OBVIOUS
  <2>5. [[[s EXCEPT !.account = x] EXCEPT !.failed = y] EXCEPT !.rows = z] = [account |-> x, failed |-> y, rows |-> z, global |-> s.global, first |-> s.first, boxes |-> s.boxes, read |-> s.read]
    BY Zenon, <2>2, <2>3, <2>4
  <2> QED
    BY <2>1, <2>5, Excepted
<1>3. ASSUME seen' = [seen EXCEPT ![c].global = x]
      PROVE  But(seen, seen', c, [account |-> s.account, failed |-> s.failed, rows |-> s.rows, global |-> x, first |-> s.first, boxes |-> s.boxes, read |-> s.read])
  <2>1. seen' = [seen EXCEPT ![c] = [s EXCEPT !.global = x]]
    BY <1>3
  <2>2. [s EXCEPT !.global = x]
          = [account |-> s.account, failed |-> s.failed, rows |-> s.rows, global |-> x, first |-> s.first, boxes |-> s.boxes, read |-> s.read]
    BY <1>1
  <2>3. [s EXCEPT !.global = x] = [account |-> s.account, failed |-> s.failed, rows |-> s.rows, global |-> x, first |-> s.first, boxes |-> s.boxes, read |-> s.read]
    BY Zenon, <2>2
  <2> QED
    BY <2>1, <2>3, Excepted
<1>4. ASSUME seen' = [seen EXCEPT ![c].first = x]
      PROVE  But(seen, seen', c, [account |-> s.account, failed |-> s.failed, rows |-> s.rows, global |-> s.global, first |-> x, boxes |-> s.boxes, read |-> s.read])
  <2>1. seen' = [seen EXCEPT ![c] = [s EXCEPT !.first = x]]
    BY <1>4
  <2>2. [s EXCEPT !.first = x]
          = [account |-> s.account, failed |-> s.failed, rows |-> s.rows, global |-> s.global, first |-> x, boxes |-> s.boxes, read |-> s.read]
    BY <1>1
  <2>3. [s EXCEPT !.first = x] = [account |-> s.account, failed |-> s.failed, rows |-> s.rows, global |-> s.global, first |-> x, boxes |-> s.boxes, read |-> s.read]
    BY Zenon, <2>2
  <2> QED
    BY <2>1, <2>3, Excepted
<1>5. ASSUME seen' = [seen EXCEPT ![c].boxes = x, ![c].read = y]
      PROVE  But(seen, seen', c, [account |-> s.account, failed |-> s.failed, rows |-> s.rows, global |-> s.global, first |-> s.first, boxes |-> x, read |-> y])
  <2>1. seen' = [seen EXCEPT ![c] = [[s EXCEPT !.boxes = x] EXCEPT !.read = y]]
    BY <1>5
  <2>2. [s EXCEPT !.boxes = x]
          = [account |-> s.account, failed |-> s.failed, rows |-> s.rows, global |-> s.global, first |-> s.first, boxes |-> x, read |-> s.read]
    BY <1>1
  <2>3. [[account |-> s.account, failed |-> s.failed, rows |-> s.rows, global |-> s.global, first |-> s.first, boxes |-> x, read |-> s.read] EXCEPT !.read = y]
          = [account |-> s.account, failed |-> s.failed, rows |-> s.rows, global |-> s.global, first |-> s.first, boxes |-> x, read |-> y]
    OBVIOUS
  <2>4. [[s EXCEPT !.boxes = x] EXCEPT !.read = y] = [account |-> s.account, failed |-> s.failed, rows |-> s.rows, global |-> s.global, first |-> s.first, boxes |-> x, read |-> y]
    BY Zenon, <2>2, <2>3
  <2> QED
    BY <2>1, <2>4, Excepted
<1>6. ASSUME seen' = [seen EXCEPT ![c].account = x, ![c].failed = y]
      PROVE  But(seen, seen', c, [account |-> x, failed |-> y, rows |-> s.rows, global |-> s.global, first |-> s.first, boxes |-> s.boxes, read |-> s.read])
  <2>1. seen' = [seen EXCEPT ![c] = [[s EXCEPT !.account = x] EXCEPT !.failed = y]]
    BY <1>6
  <2>2. [s EXCEPT !.account = x]
          = [account |-> x, failed |-> s.failed, rows |-> s.rows, global |-> s.global, first |-> s.first, boxes |-> s.boxes, read |-> s.read]
    BY <1>1
  <2>3. [[account |-> x, failed |-> s.failed, rows |-> s.rows, global |-> s.global, first |-> s.first, boxes |-> s.boxes, read |-> s.read] EXCEPT !.failed = y]
          = [account |-> x, failed |-> y, rows |-> s.rows, global |-> s.global, first |-> s.first, boxes |-> s.boxes, read |-> s.read]
    OBVIOUS
  <2>4. [[s EXCEPT !.account = x] EXCEPT !.failed = y] = [account |-> x, failed |-> y, rows |-> s.rows, global |-> s.global, first |-> s.first, boxes |-> s.boxes, read |-> s.read]
    BY Zenon, <2>2, <2>3
  <2> QED
    BY <2>1, <2>4, Excepted
<1> QED
  BY <1>2, <1>3, <1>4, <1>5, <1>6

\* What is kept of a call when only its place, request and what it saw change.
LEMMA SeesOn ==
  ASSUME VInv, SameChain, NEW c \in Calls, NEW p, NEW r, NEW s,
         pc' = [pc EXCEPT ![c] = p], But(req, req', c, r), But(seen, seen', c, s),
         UNCHANGED <<group, answer>>, CallIsHere(c, p, r, s, group[c], answer[c])
  PROVE  Kept
<1>1. OfCalls(pc) /\ OfCalls(group) /\ OfCalls(answer)
  BY CallShapes
<1>2. But(pc, pc', c, p)
  BY <1>1, Excepted
<1>3. But(group, group, c, group[c]) /\ But(answer, answer, c, answer[c])
  BY <1>1, SameBut
<1>4. group' = group /\ answer' = answer
  OBVIOUS
<1>5. Moves(c, p, r, s, group[c], answer[c])
  BY Zenon, <1>2, <1>3, <1>4 DEF Moves
<1> QED
  BY <1>5, CallMoves

LEMMA AccountReadIs ==
  ASSUME VInv, NEW u \in Users, NEW failed \in BOOLEAN
  PROVE  /\ Len(account[u].powers) \in Nat
         /\ \/ AccountRead(u, failed) = {} /\ (failed \/ Len(account[u].powers) = 0)
            \/ \E e \in Nat : AccountRead(u, failed) = {[end |-> e, count |-> Len(account[u].powers)]}
<1>1. IsAccount(account[u], now)
  BY ChainNow
<1>2. account[u].powers \in Seq(Rows) /\ account[u].end \in Nat
      /\ account[u].exists = (account[u].powers # <<>>)
  BY <1>1 DEF IsAccount
<1>3. Len(account[u].powers) \in Nat /\ (account[u].powers = <<>> => Len(account[u].powers) = 0)
  BY <1>2
<1>4. CASE failed \/ ~account[u].exists
  <2>1. AccountRead(u, failed) = {}
    BY Zenon, <1>4 DEF AccountRead
  <2>2. failed \/ account[u].powers = <<>>
    BY <1>2, <1>4
  <2> QED
    BY Zenon, <1>3, <2>1, <2>2
<1>5. CASE ~(failed \/ ~account[u].exists)
  <2>1. AccountRead(u, failed) = {[end |-> account[u].end, count |-> Len(account[u].powers)]}
    BY Zenon, <1>5 DEF AccountRead
  <2> QED
    BY Zenon, <1>2, <1>3, <2>1
<1> QED
  BY <1>4, <1>5

LEMMA CountIs ==
  ASSUME NEW s, NEW acc, AccountSeen(s, acc)
  PROVE  /\ CountSeen(s) \in Nat /\ CountSeen(s) <= s.rows /\ s.rows \in Nat
         /\ CountSeen(s) = s.rows \/ s.failed
         /\ s.account # {} => /\ (CHOOSE x \in s.account : TRUE).count \in Nat
                              /\ (CHOOSE x \in s.account : TRUE).end \in Nat
                              /\ \E x : s.account = {x} /\ x.count \in Nat
<1>1. s.rows \in Nat
  BY DEF AccountSeen
<1>2. CASE s.account = {} /\ (s.failed \/ s.rows = 0)
  BY <1>1, <1>2 DEF CountSeen, CountOf
<1>3. CASE \E e \in Nat : s.account = {[end |-> e, count |-> s.rows]}
  <2>1. PICK e \in Nat : s.account = {[end |-> e, count |-> s.rows]}
    BY <1>3
  <2> DEFINE x == [end |-> e, count |-> s.rows]
  <2>2. x.count = s.rows /\ x.end = e
    OBVIOUS
  <2> HIDE DEF x
  <2>3. (CHOOSE y \in {x} : TRUE) = x
    OBVIOUS
  <2>4. s.account = {x}
    BY <2>1 DEF x
  <2>5. s.account # {}
    BY <2>4
  <2>6. (CHOOSE y \in s.account : TRUE) = x
    BY Zenon, <2>3, <2>4
  <2>7. CountSeen(s) = s.rows
    BY Zenon, <2>2, <2>5, <2>6 DEF CountSeen, CountOf
  <2>8. /\ (CHOOSE y \in s.account : TRUE).count \in Nat
        /\ (CHOOSE y \in s.account : TRUE).end \in Nat
        /\ \E y : s.account = {y} /\ y.count \in Nat
    BY Zenon, <1>1, <2>1, <2>2, <2>4, <2>6
  <2> QED
    BY <1>1, <2>7, <2>8
<1> QED
  BY <1>2, <1>3 DEF AccountSeen

LEMMA FetchAccountStep ==
  ASSUME VInv, NEW c \in Calls, NEW r \in Requests, NEW failed \in BOOLEAN,
         FetchAccountState(c, r, failed)
  PROVE  Kept
<1> DEFINE u == Owner[c]
           n == Len(account[u].powers)
           s == [account |-> AccountRead(u, failed), failed |-> failed, rows |-> n,
                 global |-> seen[c].global, first |-> seen[c].first, boxes |-> seen[c].boxes,
                 read |-> seen[c].read]
<1>1. /\ pc[c] = "idle" /\ req' = [req EXCEPT ![c] = r] /\ pc' = [pc EXCEPT ![c] = "account"]
      /\ seen' = [seen EXCEPT ![c].account = AccountRead(u, failed), ![c].failed = failed,
                    ![c].rows = n]
      /\ SameChain /\ UNCHANGED <<group, answer>>
  BY DEF FetchAccountState, Go, chainVars, SameChain
<1>2. u \in Users
  BY OwnerIsUser
<1>3. seen[c] = Unread /\ IsSeen(seen[c])
  BY Zenon, <1>1, CallShapes DEF CallIsHere, CallIs
<1>4. But(seen, seen', c, s)
  BY <1>1, <1>3, CallShapes, SeenSteps
<1>5. But(req, req', c, r)
  BY <1>1, CallShapes, Excepted
<1>6. seen[c].boxes = 0 /\ seen[c].read = <<>>
  BY <1>3 DEF Unread
<1>7. IsSeen(s) /\ s.account = AccountRead(u, failed) /\ s.failed = failed /\ s.rows = n
      /\ s.boxes = 0 /\ s.read = <<>>
  BY <1>6 DEF IsSeen
<1> HIDE DEF s
<1>8. /\ n \in Nat
      /\ \/ AccountRead(u, failed) = {} /\ (failed \/ n = 0)
         \/ \E e \in Nat : AccountRead(u, failed) = {[end |-> e, count |-> n]}
  BY <1>2, AccountReadIs
<1>9. AccountSeen(s, account[u])
  <2>1. s.rows \in Nat /\ s.rows <= n
    BY <1>7, <1>8
  <2>2. \/ s.account = {} /\ (s.failed \/ s.rows = 0)
        \/ \E e \in Nat : s.account = {[end |-> e, count |-> s.rows]}
    BY Zenon, <1>7, <1>8
  <2> QED
    BY Zenon, <2>1, <2>2 DEF AccountSeen
<1>10. account[u].powers \in Seq(Rows) /\ CountSeen(s) \in Nat /\ CountSeen(s) <= n
  BY <1>2, <1>7, <1>9, CountIs, ChainNow DEF IsAccount
<1>11. ReadBy(s.read, s.boxes, account[u].powers, CountSeen(s))
  <2>1. ReadBy(<<>>, 0, account[u].powers, CountSeen(s))
    BY <1>10, ReadFirst
  <2> QED
    BY Zenon, <1>7, <2>1
<1>12. "account" \notin {"idle", "global", "increase", "built", "answered"}
  OBVIOUS
<1>13. CallIsHere(c, "account", r, s, group[c], answer[c])
  BY <1>7, <1>9, <1>11, <1>12 DEF CallIsHere, CallIs
<1> QED
  BY <1>1, <1>4, <1>5, <1>13, SeesOn

LEMMA FetchGlobalStep ==
  ASSUME VInv, NEW c \in Calls, NEW r \in Requests, FetchGlobalState(c, r)
  PROVE  Kept
<1> DEFINE acc == account[Owner[c]]
           g == [count |-> Len(total), last |-> LastTime(total), at |-> now]
           s == [account |-> seen[c].account, failed |-> seen[c].failed, rows |-> seen[c].rows,
                 global |-> g, first |-> seen[c].first, boxes |-> seen[c].boxes,
                 read |-> seen[c].read]
<1>1. /\ \/ pc[c] = "idle" /\ r.op = "totalPower"
         \/ pc[c] = "account" /\ r = req[c] /\ r.op \in {"create", "increase", "extend", "both"}
      /\ req' = [req EXCEPT ![c] = r] /\ pc' = [pc EXCEPT ![c] = "global"]
      /\ seen' = [seen EXCEPT ![c].global = g]
      /\ SameChain /\ UNCHANGED <<group, answer>>
  BY DEF FetchGlobalState, Go, Sees, chainVars, SameChain
<1>2. CallIsHere(c, pc[c], req[c], seen[c], group[c], answer[c])
  BY CallShapes
<1>3. IsSeen(seen[c])
  BY Zenon, <1>2 DEF CallIsHere, CallIs
<1>4. But(seen, seen', c, s)
  BY <1>1, <1>3, CallShapes, SeenSteps
<1>5. But(req, req', c, r)
  BY <1>1, CallShapes, Excepted
<1>6. IsSeen(s) /\ s.account = seen[c].account /\ s.failed = seen[c].failed /\ s.rows = seen[c].rows
      /\ s.global.count = Len(total) /\ s.global.last = LastTime(total) /\ s.global.at = now
      /\ s.boxes = seen[c].boxes /\ s.read = seen[c].read
  BY DEF IsSeen
<1> HIDE DEF s, g
<1>7. Len(total) \in Nat \ {0} /\ LastTime(total) \in Nat /\ now \in Nat /\ total \in Seq(Rows)
  BY ChainNow, LastRow DEF Totals
<1>8. GlobalSeen(s, total, now)
  <2>1. s.global.count + 1 .. Len(total) = {}
    BY <1>6, <1>7
  <2>2. /\ s.global.count \in Nat \ {0} /\ s.global.count <= Len(total)
        /\ s.global.at \in Nat /\ s.global.at <= now /\ s.global.last \in Nat
    BY <1>6, <1>7
  <2>3. s.global = g
    BY DEF s
  <2>4. g = [count |-> Len(total), last |-> LastTime(total), at |-> now]
    BY DEF g
  <2>5. s.global = [count |-> s.global.count, last |-> s.global.last, at |-> s.global.at]
    BY Zenon, <1>6, <2>3, <2>4
  <2> QED
    BY <2>1, <2>2, <2>5 DEF GlobalSeen
<1>9. r.op # "totalPower" => AccountSeen(s, acc)
  <2> SUFFICES ASSUME r.op # "totalPower" PROVE AccountSeen(s, acc)
    OBVIOUS
  <2>1. pc[c] = "account" /\ r = req[c]
    BY <1>1
  <2>2. AccountSeen(seen[c], acc)
    BY <1>2, <2>1 DEF CallIsHere, CallIs, VaultPlaces
  <2> QED
    BY Zenon, <1>6, <2>2 DEF AccountSeen
<1>10. r.op = "totalPower" => ReadBy(s.read, s.boxes, total, s.global.count)
  <2> SUFFICES ASSUME r.op = "totalPower" PROVE ReadBy(s.read, s.boxes, total, s.global.count)
    OBVIOUS
  <2>1. pc[c] = "idle"
    BY <1>1
  <2>2. seen[c] = Unread
    BY Zenon, <1>2, <2>1 DEF CallIsHere, CallIs
  <2>3. s.boxes = 0 /\ s.read = <<>>
    BY <1>6, <2>2 DEF Unread
  <2>4. ReadBy(<<>>, 0, total, Len(total))
    BY <1>7, ReadFirst
  <2> QED
    BY Zenon, <1>6, <2>3, <2>4
<1>11. "global" \notin {"idle", "account", "increase", "built", "answered"}
  OBVIOUS
<1>12. CallIsHere(c, "global", r, s, group[c], answer[c])
  BY <1>6, <1>8, <1>9, <1>10, <1>11 DEF CallIsHere, CallIs
<1> QED
  BY <1>1, <1>4, <1>5, <1>12, SeesOn

\* A failed read of the global state is answered 0.
LEMMA FailGlobalStep ==
  ASSUME VInv, NEW c \in Calls, NEW r \in Requests, FailGlobalState(c, r)
  PROVE  Kept
<1> DEFINE s == [account |-> seen[c].account, failed |-> TRUE, rows |-> seen[c].rows,
                 global |-> seen[c].global, first |-> seen[c].first, boxes |-> seen[c].boxes,
                 read |-> seen[c].read]
<1>1. /\ pc[c] = "idle" /\ r.op = "totalPower"
      /\ req' = [req EXCEPT ![c] = r] /\ pc' = [pc EXCEPT ![c] = "answered"]
      /\ answer' = [answer EXCEPT ![c] = 0]
      /\ seen' = [seen EXCEPT ![c].failed = TRUE]
      /\ SameChain /\ UNCHANGED group
  BY DEF FailGlobalState, Go, Sees, Answers, chainVars, SameChain
<1>2. IsSeen(seen[c])
  BY Zenon, CallShapes DEF CallIsHere, CallIs
<1>3. But(seen, seen', c, s)
  BY <1>1, <1>2, CallShapes, SeenSteps
<1>4. /\ But(pc, pc', c, "answered") /\ But(req, req', c, r) /\ But(answer, answer', c, 0)
  BY <1>1, CallShapes, Excepted
<1>5. group' = group /\ But(group, group, c, group[c])
  BY <1>1, CallShapes, SameBut
<1>6. IsSeen(s)
  BY DEF IsSeen
<1>7. "answered" \notin {"idle", "account", "global", "increase", "built"}
  OBVIOUS
<1>8. r.op # "tinyPower" /\ 0 \in Nat
  BY <1>1
<1> HIDE DEF s
<1>9. CallIsHere(c, "answered", r, s, group[c], 0)
  BY <1>1, <1>6, <1>7, <1>8 DEF CallIsHere, CallIs
<1>10. Moves(c, "answered", r, s, group[c], 0)
  BY Zenon, <1>3, <1>4, <1>5 DEF Moves
<1> QED
  BY <1>1, <1>9, <1>10, CallMoves

\* A box is read, and no more.
LEMMA ReadStep ==
  ASSUME VInv, NEW c \in Calls, ReadBox(c)
  PROVE  Kept
<1> DEFINE acc == account[Owner[c]]
           rows == IF req[c].op = "tinyPower" THEN acc.powers ELSE total
           n == seen[c].boxes + 1
           more == seen[c].read \o RowsIn(rows, seen[c].boxes)
           s == [account |-> seen[c].account, failed |-> seen[c].failed, rows |-> seen[c].rows,
                 global |-> seen[c].global, first |-> seen[c].first, boxes |-> n, read |-> more]
<1>1. /\ \/ pc[c] = "account" /\ req[c].op = "tinyPower"
         \/ pc[c] = "global" /\ req[c].op = "totalPower"
      /\ seen[c].boxes < BoxesToRead(c)
      /\ SameChain /\ UNCHANGED <<pc, req, group, answer>>
  BY DEF ReadBox, Reading, chainVars, SameChain
<1>2. CallIsHere(c, pc[c], req[c], seen[c], group[c], answer[c])
  BY CallShapes
<1>3. IsSeen(seen[c])
  BY Zenon, <1>2 DEF CallIsHere, CallIs
<1>4. seen' = [seen EXCEPT ![c].boxes = n, ![c].read = more]
  BY DEF ReadBox
<1>5. But(seen, seen', c, s)
  BY <1>3, <1>4, CallShapes, SeenSteps
<1>6. IsSeen(s) /\ s.account = seen[c].account /\ s.failed = seen[c].failed /\ s.rows = seen[c].rows
      /\ s.global = seen[c].global /\ s.boxes = n /\ s.read = more
  BY DEF IsSeen
<1> HIDE DEF s
<1>7. CountSeen(s) = CountSeen(seen[c])
  BY Zenon, <1>6 DEF CountSeen
<1>8. ASSUME pc[c] = "account", req[c].op = "tinyPower"
      PROVE  CallIsHere(c, "account", req[c], s, group[c], answer[c])
  <2>1. req[c] \in Requests /\ AccountSeen(seen[c], acc)
        /\ ReadBy(seen[c].read, seen[c].boxes, acc.powers, CountSeen(seen[c]))
    BY <1>2, <1>8 DEF CallIsHere, CallIs, VaultPlaces
  <2>2. rows = acc.powers /\ acc.powers \in Seq(Rows)
    BY <1>8, ChainNow, OwnerIsUser DEF IsAccount
  <2>3. seen[c].boxes < BoxCount(CountSeen(seen[c]))
    <3>1. BoxesToRead(c) = IF seen[c].account = {} THEN 0 ELSE BoxCount(SeenAccount(c).count)
      BY Zenon, <1>8 DEF BoxesToRead
    <3>2. SeenAccount(c) = CHOOSE x \in seen[c].account : TRUE
      BY Zenon DEF SeenAccount
    <3>3. seen[c].account # {}
      <4>1. seen[c].boxes \in 0 .. BoxCount(CountSeen(seen[c])) /\ CountSeen(seen[c]) \in Nat
        BY <2>1, CountIs DEF ReadBy
      <4>2. ~ seen[c].boxes < 0
        BY <4>1, BoxCountIs
      <4>3. seen[c].account = {} => BoxesToRead(c) = 0
        BY Zenon, <3>1
      <4> QED
        BY <1>1, <4>2, <4>3
    <3>4. CountSeen(seen[c]) = SeenAccount(c).count
      BY Zenon, <3>2, <3>3 DEF CountSeen, CountOf
    <3> QED
      BY <1>1, <3>1, <3>3, <3>4
  <2>4. ReadBy(seen[c].read \o RowsIn(acc.powers, seen[c].boxes), seen[c].boxes + 1, acc.powers,
               CountSeen(seen[c]))
    BY <2>1, <2>2, <2>3, ReadOn
  <2>5. ReadBy(s.read, s.boxes, acc.powers, CountSeen(s))
    BY Zenon, <1>6, <1>7, <2>2, <2>4
  <2>6. AccountSeen(s, acc)
    BY Zenon, <1>6, <2>1 DEF AccountSeen
  <2>7. "account" \notin {"idle", "global", "increase", "built", "answered"}
    OBVIOUS
  <2> QED
    BY <1>6, <1>8, <2>1, <2>5, <2>6, <2>7 DEF CallIsHere, CallIs
<1>9. ASSUME pc[c] = "global", req[c].op = "totalPower"
      PROVE  CallIsHere(c, "global", req[c], s, group[c], answer[c])
  <2>1. req[c] \in Requests /\ GlobalSeen(seen[c], total, now)
        /\ ReadBy(seen[c].read, seen[c].boxes, total, seen[c].global.count)
    BY <1>2, <1>9 DEF CallIsHere, CallIs, VaultPlaces
  <2>2. rows = total /\ total \in Seq(Rows)
    BY <1>9, ChainNow DEF Totals
  <2>3. seen[c].boxes < BoxCount(seen[c].global.count)
    BY <1>1, <1>9 DEF BoxesToRead
  <2>4. ReadBy(seen[c].read \o RowsIn(total, seen[c].boxes), seen[c].boxes + 1, total,
               seen[c].global.count)
    BY <2>1, <2>2, <2>3, ReadOn
  <2>5. ReadBy(s.read, s.boxes, total, s.global.count)
    BY Zenon, <1>6, <2>2, <2>4
  <2>6. GlobalSeen(s, total, now)
    BY Zenon, <1>6, <2>1 DEF GlobalSeen
  <2>7. "global" \notin {"idle", "account", "increase", "built", "answered"}
    OBVIOUS
  <2> QED
    BY <1>6, <1>9, <2>1, <2>5, <2>6, <2>7 DEF CallIsHere, CallIs
<1>10. CallIsHere(c, pc[c], req[c], s, group[c], answer[c])
  BY Zenon, <1>1, <1>8, <1>9
<1>11. pc' = [pc EXCEPT ![c] = pc[c]]
  BY <1>1, CallShapes, SameIsExcept
<1>12. But(req, req', c, req[c])
  BY <1>1, CallShapes, SameBut
<1>13. UNCHANGED <<group, answer>>
  BY <1>1
<1> QED
  BY <1>1, <1>5, <1>10, <1>11, <1>12, <1>13, SeesOn
-----------------------------------------------------------------------------
(* Building the groups.                                                     *)

LEMMA BuildStep ==
  ASSUME VInv, SameChain, NEW c \in Calls, UNCHANGED <<req, seen, answer>>,
         NEW g, group' = [group EXCEPT ![c] = g], pc' = [pc EXCEPT ![c] = "built"],
         IsGroup(g), g.user = Owner[c], req[c] \in Requests,
         req[c].op \notin {"tinyPower", "totalPower"}, AccountSeen(seen[c], account[Owner[c]]),
         req[c].op # "withdraw" => GlobalSeen(seen[c], total, now) /\ TotalNamed(g.refs, seen[c])
  PROVE  Kept
<1>1. OfCalls(pc) /\ OfCalls(req) /\ OfCalls(seen) /\ OfCalls(group) /\ OfCalls(answer)
      /\ CallIsHere(c, pc[c], req[c], seen[c], group[c], answer[c])
  BY CallShapes
<1>2. But(pc, pc', c, "built") /\ But(group, group', c, g)
  <2>1. But(pc, pc', c, "built")
    BY <1>1, Excepted
  <2>2. But(group, group', c, g)
    BY <1>1, Excepted
  <2> QED
    BY <2>1, <2>2
<1>3. But(req, req, c, req[c]) /\ But(seen, seen, c, seen[c]) /\ But(answer, answer, c, answer[c])
  BY <1>1, SameBut
<1>4. req' = req /\ seen' = seen /\ answer' = answer
  OBVIOUS
<1>5. Moves(c, "built", req[c], seen[c], g, answer[c])
  BY Zenon, <1>2, <1>3, <1>4 DEF Moves
<1>6. IsSeen(seen[c])
  BY Zenon, <1>1 DEF CallIsHere, CallIs
<1>7. "built" \notin {"idle", "account", "global", "increase", "answered"}
  OBVIOUS
<1>8. CallIsHere(c, "built", req[c], seen[c], g, answer[c])
  BY <1>6, <1>7 DEF CallIsHere, CallIs
<1> QED
  BY <1>5, <1>8, CallMoves

\* What a call knows as it builds its group.
LEMMA Generated ==
  ASSUME VInv, NEW c \in Calls, NEW place \in {"global", "increase"}, NEW local \in Int,
         Generate(c, place, local), req[c].op \in {"create", "increase", "extend", "both"}
  PROVE  /\ req[c] \in Requests /\ AccountSeen(seen[c], account[Owner[c]])
         /\ GlobalSeen(seen[c], total, now) /\ seen[c].global.count \in Nat
         /\ Expected(c, local) \in Seq(Nat) /\ SameChain /\ UNCHANGED <<req, answer>>
         /\ pc[c] = place
<1>1. /\ pc[c] = place /\ local >= seen[c].global.last /\ SameChain /\ UNCHANGED <<req, answer>>
  BY DEF Generate, chainVars, SameChain
<1>2. CallIsHere(c, pc[c], req[c], seen[c], group[c], answer[c])
  BY CallShapes
<1>3. /\ req[c] \in Requests /\ AccountSeen(seen[c], account[Owner[c]])
      /\ GlobalSeen(seen[c], total, now)
  BY <1>1, <1>2 DEF CallIsHere, CallIs, VaultPlaces
<1>4. seen[c].global.count \in Nat /\ seen[c].global.last \in Nat
  BY <1>3 DEF GlobalSeen
<1>5. Expected(c, local) \in Seq(Nat)
  BY <1>1, <1>4, ExpectedType DEF Expected
<1> QED
  BY <1>1, <1>3, <1>4, <1>5

LEMMA AccountRequired ==
  ASSUME VInv, NEW c \in Calls, AccountSeen(seen[c], account[Owner[c]]),
         seen[c].account # {}
  PROVE  SeenAccount(c).count \in Nat /\ SeenAccount(c).end \in Nat
<1>1. /\ (CHOOSE x \in seen[c].account : TRUE).count \in Nat
      /\ (CHOOSE x \in seen[c].account : TRUE).end \in Nat
  BY CountIs
<1> QED
  BY Zenon, <1>1 DEF SeenAccount

LEMMA GenerateCreateStep ==
  ASSUME VInv, NEW c \in Calls, NEW local \in Int, GenerateCreateLock(c, local)
  PROVE  Kept
<1> DEFINE u == Owner[c]
           p == CreateLock(u, seen[c].account, seen[c].global, req[c].end \in DOMAIN slopeDelta,
                           req[c], Expected(c, local))
           g == Group(u, local, <<p>>)
<1>1. /\ Generate(c, "global", local) /\ req[c].op = "create" /\ UNCHANGED seen
      /\ group' = [group EXCEPT ![c] = g] /\ pc' = [pc EXCEPT ![c] = "built"]
  BY DEF GenerateCreateLock, Builds, Go
<1>2. /\ req[c] \in Requests /\ AccountSeen(seen[c], account[u])
      /\ GlobalSeen(seen[c], total, now) /\ seen[c].global.count \in Nat
      /\ Expected(c, local) \in Seq(Nat) /\ SameChain /\ UNCHANGED <<req, answer>>
  BY <1>1, Generated
<1>3. u \in Users
  BY OwnerIsUser
<1>4. seen[c].account = {} \/ \E x : seen[c].account = {x} /\ x.count \in Nat
  BY <1>2, CountIs
<1>5. IsPart(p, seen[c])
  BY <1>2, <1>3, <1>4, CreateIsPart
<1> HIDE DEF p
<1>6. IsGroup(g) /\ g.user = u /\ TotalNamed(g.refs, seen[c])
  BY <1>3, <1>5, GroupOfOne
<1> HIDE DEF g
<1>7. req[c].op \notin {"tinyPower", "totalPower"}
  BY <1>1
<1>8. UNCHANGED <<req, seen, answer>>
  BY <1>1, <1>2
<1> QED
  BY <1>1, <1>2, <1>6, <1>7, <1>8, BuildStep

LEMMA GenerateIncreaseLockStep ==
  ASSUME VInv, NEW c \in Calls, NEW local \in Int, GenerateIncreaseLockAmount(c, local)
  PROVE  Kept
<1> DEFINE u == Owner[c]
           a == SeenAccount(c)
           p == IncreaseLockAmount(u, a, seen[c].global, req[c], Expected(c, local))
           g == Group(u, local, <<p>>)
<1>1. /\ Generate(c, "global", local) /\ req[c].op = "increase" /\ UNCHANGED seen
      /\ group' = [group EXCEPT ![c] = g] /\ pc' = [pc EXCEPT ![c] = "built"]
  BY DEF GenerateIncreaseLockAmount, Builds, Go
<1>2. /\ req[c] \in Requests /\ AccountSeen(seen[c], account[u])
      /\ GlobalSeen(seen[c], total, now) /\ seen[c].global.count \in Nat
      /\ Expected(c, local) \in Seq(Nat) /\ SameChain /\ UNCHANGED <<req, answer>>
  BY <1>1, Generated
<1>3. u \in Users
  BY OwnerIsUser
<1>4. a.count \in Nat /\ a.end \in Nat
  BY <1>1, <1>2, AccountRequired DEF Generate
<1> HIDE DEF a
<1>5. IsPart(p, seen[c])
  BY <1>2, <1>3, <1>4, IncreaseIsPart
<1> HIDE DEF p
<1>6. IsGroup(g) /\ g.user = u /\ TotalNamed(g.refs, seen[c])
  BY <1>3, <1>5, GroupOfOne
<1> HIDE DEF g
<1>7. req[c].op \notin {"tinyPower", "totalPower"}
  BY <1>1
<1>8. UNCHANGED <<req, seen, answer>>
  BY <1>1, <1>2
<1> QED
  BY <1>1, <1>2, <1>6, <1>7, <1>8, BuildStep

LEMMA GenerateExtendLockStep ==
  ASSUME VInv, NEW c \in Calls, NEW local \in Int, GenerateExtendLockTime(c, local)
  PROVE  Kept
<1> DEFINE u == Owner[c]
           a == SeenAccount(c)
           p == ExtendLockEndTime(u, a, seen[c].global, DeltaAt(req[c].end), req[c],
                                  Expected(c, local))
           g == Group(u, local, <<p>>)
<1>1. /\ Generate(c, "global", local) /\ req[c].op = "extend" /\ UNCHANGED seen
      /\ group' = [group EXCEPT ![c] = g] /\ pc' = [pc EXCEPT ![c] = "built"]
  BY DEF GenerateExtendLockTime, Builds, Go
<1>2. /\ req[c] \in Requests /\ AccountSeen(seen[c], account[u])
      /\ GlobalSeen(seen[c], total, now) /\ seen[c].global.count \in Nat
      /\ Expected(c, local) \in Seq(Nat) /\ SameChain /\ UNCHANGED <<req, answer>>
  BY <1>1, Generated
<1>3. u \in Users
  BY OwnerIsUser
<1>4. a.count \in Nat /\ a.end \in Nat
  BY <1>1, <1>2, AccountRequired DEF Generate
<1> HIDE DEF a
<1>5. IsPart(p, seen[c])
  BY <1>2, <1>3, <1>4, ExtendIsPart
<1> HIDE DEF p
<1>6. IsGroup(g) /\ g.user = u /\ TotalNamed(g.refs, seen[c])
  BY <1>3, <1>5, GroupOfOne
<1> HIDE DEF g
<1>7. req[c].op \notin {"tinyPower", "totalPower"}
  BY <1>1
<1>8. UNCHANGED <<req, seen, answer>>
  BY <1>1, <1>2
<1> QED
  BY <1>1, <1>2, <1>6, <1>7, <1>8, BuildStep

LEMMA GenerateIncreaseStep ==
  ASSUME VInv, NEW c \in Calls, NEW local \in Int, GenerateIncrease(c, local)
  PROVE  Kept
<1> DEFINE u == Owner[c]
           a == SeenAccount(c)
           p == IncreaseLockAmount(u, a, seen[c].global, req[c], Expected(c, local))
           f == <<p>>
           s == [account |-> seen[c].account, failed |-> seen[c].failed, rows |-> seen[c].rows,
                 global |-> seen[c].global, first |-> f, boxes |-> seen[c].boxes,
                 read |-> seen[c].read]
<1>1. /\ Generate(c, "global", local) /\ req[c].op = "both" /\ UNCHANGED group
      /\ seen' = [seen EXCEPT ![c].first = f] /\ pc' = [pc EXCEPT ![c] = "increase"]
  BY DEF GenerateIncrease, Go
<1>2. /\ req[c] \in Requests /\ AccountSeen(seen[c], account[u])
      /\ GlobalSeen(seen[c], total, now) /\ seen[c].global.count \in Nat
      /\ Expected(c, local) \in Seq(Nat) /\ SameChain /\ UNCHANGED <<req, answer>>
  BY <1>1, Generated
<1>3. u \in Users
  BY OwnerIsUser
<1>4. a.count \in Nat /\ a.end \in Nat
  BY <1>1, <1>2, AccountRequired DEF Generate
<1>5. IsSeen(seen[c])
  BY Zenon, CallShapes DEF CallIsHere, CallIs
<1>6. But(seen, seen', c, s)
  BY <1>1, <1>5, CallShapes, SeenSteps
<1> HIDE DEF a
<1>7. IsPart(p, seen[c])
  BY <1>2, <1>3, <1>4, IncreaseIsPart
<1> HIDE DEF p
<1>8. IsSeen(s) /\ s.account = seen[c].account /\ s.failed = seen[c].failed /\ s.rows = seen[c].rows
      /\ s.global = seen[c].global /\ s.first = f
  BY DEF IsSeen
<1> HIDE DEF s
<1>9. AccountSeen(s, account[u])
  BY Zenon, <1>2, <1>8 DEF AccountSeen
<1>10. GlobalSeen(s, total, now)
  BY Zenon, <1>2, <1>8 DEF GlobalSeen
<1>11. FirstBuilt(s)
  BY Zenon, <1>7, <1>8 DEF FirstBuilt, IsPart, TotalNamed
<1>12. "increase" \notin {"idle", "account", "global", "built", "answered"}
  OBVIOUS
<1>13. CallIsHere(c, "increase", req[c], s, group[c], answer[c])
  BY <1>1, <1>2, <1>8, <1>9, <1>10, <1>11, <1>12 DEF CallIsHere, CallIs
<1>14. But(req, req', c, req[c])
  BY <1>2, CallShapes, SameBut
<1>15. UNCHANGED <<group, answer>>
  BY <1>1, <1>2
<1> QED
  BY <1>1, <1>2, <1>6, <1>13, <1>14, <1>15, SeesOn

LEMMA GenerateExtensionStep ==
  ASSUME VInv, NEW c \in Calls, NEW local \in Int, GenerateExtension(c, local)
  PROVE  Kept
<1> DEFINE u == Owner[c]
           a == CountedOn(SeenAccount(c))
           t == [global |-> CountedOn(seen[c].global)]
           q == ExtendLockEndTime(u, a, t.global, DeltaAt(req[c].end), req[c], Expected(c, local))
           g == Group(u, local, seen[c].first \o <<q>>)
<1>1. /\ Generate(c, "increase", local) /\ UNCHANGED seen
      /\ group' = [group EXCEPT ![c] = g] /\ pc' = [pc EXCEPT ![c] = "built"]
  BY DEF GenerateExtension, Builds, Go
<1>2. req[c].op = "both" /\ FirstBuilt(seen[c])
  BY <1>1, CallShapes DEF CallIsHere, CallIs, Generate
<1>3. /\ req[c] \in Requests /\ AccountSeen(seen[c], account[u])
      /\ GlobalSeen(seen[c], total, now) /\ seen[c].global.count \in Nat
      /\ Expected(c, local) \in Seq(Nat) /\ SameChain /\ UNCHANGED <<req, answer>>
  BY <1>1, <1>2, Generated
<1>4. u \in Users
  BY OwnerIsUser
<1>5. seen[c].account # {}
  BY <1>1, <1>2 DEF Generate
<1>6. PICK e \in Nat : seen[c].account = {[end |-> e, count |-> seen[c].rows]}
  BY <1>3, <1>5 DEF AccountSeen
<1>7. SeenAccount(c) = [end |-> e, count |-> seen[c].rows]
  BY <1>6 DEF SeenAccount
<1>8. a.count \in Nat /\ a.end \in Nat
  BY <1>3, <1>7 DEF CountedOn, AccountSeen
<1>9. t.global.count \in Nat
  <2>1. seen[c].global = [count |-> seen[c].global.count, last |-> seen[c].global.last,
                          at |-> seen[c].global.at]
    BY Zenon, <1>3 DEF GlobalSeen
  <2> QED
    BY <1>3, <2>1 DEF CountedOn
<1> HIDE DEF a, t
<1>10. IsPart(q, t)
  BY <1>3, <1>4, <1>8, <1>9, ExtendIsPart
<1> HIDE DEF q
<1>11. PICK p : seen[c].first = <<p>> /\ IsPart(p, seen[c])
  BY <1>2 DEF FirstBuilt
<1>12. g = Group(u, local, <<p>> \o <<q>>)
  BY Zenon, <1>11
<1> HIDE DEF g
<1>13. IsGroup(g) /\ g.user = u /\ TotalNamed(g.refs, seen[c])
  BY <1>4, <1>10, <1>11, <1>12, GroupOfTwo
<1>14. req[c].op \notin {"tinyPower", "totalPower"}
  BY <1>2
<1>15. UNCHANGED <<req, seen, answer>>
  BY <1>1, <1>3
<1> QED
  BY <1>1, <1>3, <1>13, <1>14, <1>15, BuildStep

LEMMA GenerateWithdrawStep ==
  ASSUME VInv, NEW c \in Calls, GenerateWithdraw(c)
  PROVE  Kept
<1> DEFINE u == Owner[c]
           p == Withdraw(u, SeenAccount(c))
           g == Group(u, now, <<p>>)
           calls == [i \in DOMAIN <<p>> |-> <<p>>[i].call]
<1>1. /\ pc[c] = "account" /\ req[c].op = "withdraw" /\ SameChain /\ UNCHANGED <<req, seen, answer>>
      /\ group' = [group EXCEPT ![c] = g] /\ pc' = [pc EXCEPT ![c] = "built"]
  BY DEF GenerateWithdraw, Builds, Go, chainVars, SameChain
<1>2. req[c] \in Requests /\ AccountSeen(seen[c], account[u])
  BY <1>1, CallShapes DEF CallIsHere, CallIs, VaultPlaces
<1>3. u \in Users
  BY OwnerIsUser
<1>4. p.call = [op |-> "withdraw", amount |-> 0, end |-> 0]
  BY DEF Withdraw
<1>5. IsCall(p.call)
  BY <1>4 DEF IsCall
<1> HIDE DEF p
<1>6. g.user = u /\ g.calls = calls
  BY DEF Group
<1>7. calls = <<p.call>>
  OBVIOUS
<1> HIDE DEF calls, g
<1>8. Len(calls) = 1 /\ calls[1] = p.call
  BY <1>7
<1>9. \A i \in 1 .. 1 : i = 1
  OBVIOUS
<1>10. IsGroup(g) /\ g.user = u
  BY <1>3, <1>5, <1>6, <1>8, <1>9 DEF IsGroup
<1>11. req[c].op \notin {"tinyPower", "totalPower"}
  BY <1>1
<1> QED
  BY <1>1, <1>2, <1>10, <1>11, BuildStep
-----------------------------------------------------------------------------
(* Answering with a power.                                                  *)

\* What reading the power at a time answers, by the rows read.
PowerRead(read, at) ==
  LET i == getPowerIndexAt(read, at) IN IF i = 0 THEN 0 ELSE PowerOf(read[i], at)

LEMMA PowerReadIs ==
  ASSUME NEW n \in Nat, NEW acc, IsAccount(acc, n), NEW read \in Seq(Rows),
         Prefix(read, acc.powers), NEW at \in Nat
  PROVE  /\ PowerRead(read, at) \in Nat /\ Len(read) \in 0 .. Len(acc.log)
         /\ PowerRead(read, at) - PowerByLog(SubSeq(acc.log, 1, Len(read)), at) \in -1 .. 1
<1> DEFINE k == Len(read)
           log == SubSeq(acc.log, 1, k)
           i == getPowerIndexAt(read, at)
<1>1. /\ acc.powers \in Seq(Rows) /\ acc.log \in Seq(Locks) /\ InOrder(acc.powers, n)
      /\ Len(acc.powers) = Len(acc.log)
      /\ \A j \in DOMAIN acc.log : acc.powers[j] = PowerRow(acc.log[j])
  BY DEF IsAccount
<1>2. /\ Len(acc.log) \in Nat /\ DOMAIN acc.log = 1 .. Len(acc.log) /\ k \in Nat
      /\ k <= Len(acc.log) /\ \A j \in 1 .. k : acc.powers[j] = read[j]
      /\ \A j \in 1 .. k : read[j] \in Rows
      /\ \A j \in 1 .. Len(acc.log) : acc.log[j] \in Locks
  BY <1>1 DEF Prefix
<1>3. Timed(read)
  BY <1>1, TimedRows, TimedPrefix
<1>4. log \in Seq(Locks) /\ Len(log) = k /\ \A j \in 1 .. k : log[j] = acc.log[j]
  BY <1>1, <1>2
<1> HIDE DEF log
<1>5. DOMAIN log = 1 .. k
  BY <1>4, LenProperties
<1> HIDE DEF k
<1>6. \A j \in 1 .. k : j \in 1 .. Len(acc.log)
  BY <1>2
<1>7. \A j \in 1 .. k : log[j] \in Locks /\ read[j] = PowerRow(log[j])
  BY Zenon, <1>1, <1>2, <1>4, <1>6
<1>8. \A j \in 1 .. k : read[j].timestamp = log[j].timestamp
  BY Zenon, <1>7, PowerRowType
<1>9. Timed(log)
  <2>1. /\ \A j \in 1 .. k : read[j].timestamp \in Nat
        /\ \A j, m \in 1 .. k : j <= m => read[j].timestamp <= read[m].timestamp
    BY Zenon, <1>3 DEF Timed, k
  <2>2. /\ \A j \in 1 .. k : log[j].timestamp \in Nat
        /\ \A j, m \in 1 .. k : j <= m => log[j].timestamp <= log[m].timestamp
    BY Zenon, <1>8, <2>1
  <2> QED
    BY Zenon, <1>2, <1>4, <1>5, <2>2 DEF Timed
<1>10. MadeBy(read, at, i)
  BY <1>3, IndexIs
<1> HIDE DEF i
<1>11. i \in 0 .. k
  BY <1>10 DEF MadeBy, k
<1>12. MadeBy(log, at, i)
  <2>1. /\ \A j \in 1 .. i : read[j].timestamp <= at
        /\ \A j \in i + 1 .. k : read[j].timestamp > at
    BY Zenon, <1>10 DEF MadeBy, k
  <2>2. (\A j \in 1 .. i : j \in 1 .. k) /\ (\A j \in i + 1 .. k : j \in 1 .. k)
    BY <1>2, <1>11
  <2>3. /\ \A j \in 1 .. i : log[j].timestamp <= at
        /\ \A j \in i + 1 .. k : log[j].timestamp > at
    BY Zenon, <1>8, <2>1, <2>2
  <2> QED
    BY Zenon, <1>4, <1>11, <2>3 DEF MadeBy
<1>13. LastAt(log, at) = i
  BY <1>9, <1>12, IndexIs, MadeByOne
<1>14. CASE i = 0
  <2>1. PowerRead(read, at) = 0
    BY Zenon, <1>14 DEF PowerRead, i
  <2>2. PowerByLog(log, at) = 0
    BY Zenon, <1>13, <1>14 DEF PowerByLog
  <2> QED
    BY <1>2, <2>1, <2>2 DEF log, k
<1>15. CASE i # 0
  <2>1. i \in 1 .. k /\ i \in 1 .. i
    BY <1>2, <1>11, <1>15
  <2>2. PowerRead(read, at) = PowerOf(read[i], at)
    BY Zenon, <1>15 DEF PowerRead, i
  <2>3. PowerByLog(log, at) = calculateTinyPower(log[i].amount, log[i].end, at)
    BY Zenon, <1>13, <1>15 DEF PowerByLog
  <2>4. log[i] \in Locks /\ read[i] = PowerRow(log[i]) /\ log[i].timestamp <= at /\ read[i] \in Rows
    BY Zenon, <1>2, <1>7, <1>12, <2>1 DEF MadeBy, k
  <2>5. PowerOf(read[i], at) - calculateTinyPower(log[i].amount, log[i].end, at) \in -1 .. 1
    BY Zenon, <2>4, LockPower
  <2>6. PowerOf(read[i], at) \in Nat
    BY <2>4, PowerType
  <2>7. k \in 0 .. Len(acc.log)
    BY <1>2 DEF k
  <2> QED
    BY Zenon, <2>2, <2>3, <2>5, <2>6, <2>7 DEF log, k
<1> QED
  BY <1>14, <1>15

LEMMA AnswerTinyStep ==
  ASSUME VInv, NEW c \in Calls, AnswerTinyPower(c)
  PROVE  Kept
<1> DEFINE acc == account[Owner[c]]
           s == seen[c]
           r == req[c]
           n == PowerRead(s.read, r.at)
<1>1. /\ pc[c] = "account" /\ r.op = "tinyPower" /\ s.boxes = BoxesToRead(c)
      /\ pc' = [pc EXCEPT ![c] = "answered"] /\ answer' = [answer EXCEPT ![c] = n]
      /\ SameChain /\ UNCHANGED <<req, seen, group>>
  BY DEF AnswerTinyPower, Answers, Go, PowerRead, chainVars, SameChain
<1>2. CallIsHere(c, pc[c], r, s, group[c], answer[c])
  BY CallShapes
<1>3. /\ IsSeen(s) /\ r \in Requests /\ AccountSeen(s, acc)
      /\ ReadBy(s.read, s.boxes, acc.powers, CountSeen(s))
  BY <1>1, <1>2 DEF CallIsHere, CallIs, VaultPlaces
<1>4. IsAccount(acc, now) /\ now \in Nat
  BY ChainNow, OwnerIsUser
<1>5. s.boxes = BoxCount(CountSeen(s))
  <2>1. BoxesToRead(c) = IF s.account = {} THEN 0 ELSE BoxCount(SeenAccount(c).count)
    BY Zenon, <1>1 DEF BoxesToRead
  <2>2. SeenAccount(c) = CHOOSE x \in s.account : TRUE
    BY Zenon DEF SeenAccount
  <2>3. CASE s.account = {}
    <3>1. CountSeen(s) = 0
      BY Zenon, <2>3 DEF CountSeen, CountOf
    <3>2. s.boxes = 0
      BY Zenon, <1>1, <2>1, <2>3
    <3>3. s.boxes \in 0 .. BoxCount(CountSeen(s))
      BY Zenon, <1>3 DEF ReadBy
    <3>4. BoxCount(0) \in Nat /\ \A b \in Nat : b < BoxCount(0) => b * ArrayLen < 0
      BY BoxCountIs
    <3>5. ~ 0 < BoxCount(0)
      <4>1. 0 < BoxCount(0) => 0 * ArrayLen < 0
        BY <3>4
      <4>2. 0 * ArrayLen = 0
        BY WeekIs
      <4> QED
        BY <4>1, <4>2
    <3>6. BoxCount(0) = 0
      BY <3>4, <3>5
    <3> QED
      BY <3>1, <3>2, <3>6
  <2>4. CASE s.account # {}
    <3>1. CountSeen(s) = SeenAccount(c).count
      BY Zenon, <2>2, <2>4 DEF CountSeen, CountOf
    <3> QED
      BY Zenon, <1>1, <2>1, <2>4, <3>1
  <2> QED
    BY <2>3, <2>4
<1>6. s.read \in Seq(Rows) /\ Prefix(s.read, acc.powers) /\ CountSeen(s) <= Len(s.read)
  BY <1>3, <1>5 DEF ReadBy
<1>7. r.at \in Nat
  BY <1>3, RequestIs
<1>8. /\ n \in Nat /\ Len(s.read) \in 0 .. Len(acc.log)
      /\ n - PowerByLog(SubSeq(acc.log, 1, Len(s.read)), r.at) \in -1 .. 1
  BY <1>4, <1>6, <1>7, PowerReadIs
<1> HIDE DEF n
<1>9. CountSeen(s) \in Nat /\ s.rows \in Nat /\ (CountSeen(s) = s.rows \/ s.failed)
  BY <1>3, CountIs
<1>10. ~s.failed => PowerReal(s, r, n, acc)
  <2> SUFFICES ASSUME ~s.failed PROVE PowerReal(s, r, n, acc)
    OBVIOUS
  <2>1. s.rows = CountSeen(s)
    BY <1>9
  <2>2. Len(acc.log) \in Nat
    BY <1>4 DEF IsAccount
  <2>3. Len(s.read) \in s.rows .. Len(acc.log)
    BY <1>6, <1>8, <1>9, <2>1, <2>2
  <2> QED
    BY Zenon, <1>8, <2>3 DEF PowerReal
<1>11. "answered" \notin {"idle", "account", "global", "increase", "built"}
  OBVIOUS
<1>12. r.op \in {"withdraw", "tinyPower"}
  BY <1>1
<1>13. r.op # "totalPower"
  BY <1>1
<1>14. CallIsHere(c, "answered", r, s, group[c], n)
  BY <1>3, <1>8, <1>10, <1>11, <1>12, <1>13 DEF CallIsHere, CallIs
<1>15. But(pc, pc', c, "answered")
  BY <1>1, CallShapes, Excepted
<1>16. But(answer, answer', c, n)
  BY <1>1, CallShapes, Excepted
<1>17. But(req, req, c, r) /\ But(seen, seen, c, s) /\ But(group, group, c, group[c])
  BY CallShapes, SameBut
<1>18. req' = req /\ seen' = seen /\ group' = group
  BY <1>1
<1>19. Moves(c, "answered", r, s, group[c], n)
  BY Zenon, <1>15, <1>16, <1>17, <1>18 DEF Moves
<1> QED
  BY <1>1, <1>14, <1>19, CallMoves

LEMMA TotalDecayedType ==
  ASSUME NEW bias \in Nat, NEW slope \in Nat, NEW time \in Nat, NEW delta \in Int
  PROVE  TotalDecayed(bias, slope, time, delta) \in Nat \X Nat
<1> DEFINE b == AtLeast0(bias - getBias(slope, time))
           s == AtLeast0(slope - delta)
<1>1. getBias(slope, time) \in Int
  BY BiasType
<1>2. b \in Nat /\ s \in Nat
  BY <1>1, ClampType
<1>3. TotalDecayed(bias, slope, time, delta) = IF b = 0 \/ s = 0 THEN <<0, 0>> ELSE <<b, s>>
  BY DEF TotalDecayed
<1> HIDE DEF b, s
<1> QED
  BY <1>2, <1>3

LEMMA TotalReadIs ==
  ASSUME NEW row \in Rows, NEW at \in Nat, row.timestamp <= at, Deltas(slopeDelta)
  PROVE  /\ getTotalTinyPower(row, at) \in Nat
         /\ at \div WEEK = row.timestamp \div WEEK => getTotalTinyPower(row, at) = row.bias
<1> DEFINE week == row.timestamp \div WEEK
           n == at \div WEEK - week
           X == Nat \X Nat
           a == <<row.bias, row.slope>>
           step(x, i) == TotalDecayed(x[1], x[2], IF i = 1 THEN 0 ELSE WEEK,
                                      DeltaAt((week + i - 1) * WEEK))
           E(h) == h = [i \in 0 .. n |->
                          IF i = 0 THEN <<row.bias, row.slope>>
                          ELSE TotalDecayed(h[i - 1][1], h[i - 1][2], IF i = 1 THEN 0 ELSE WEEK,
                                            DeltaAt((week + i - 1) * WEEK))]
           f == CHOOSE h : E(h)
           g == [i \in 1 .. n |-> [x \in X |-> step(x, i)]]
<1>1. getTotalTinyPower(row, at) = f[n][1]
  BY Zenon DEF getTotalTinyPower
<1>2. row.timestamp \in Nat /\ row.bias \in Nat /\ row.slope \in Nat
  BY DEF Rows
<1>3. n \in Nat
  <2>1. week \in Nat /\ at \div WEEK \in Nat /\ week <= at \div WEEK
    BY <1>2, WeekOf, LessWeeks
  <2> QED
    BY <2>1
<1>4. a \in X
  BY <1>2
<1>5. \A t : DeltaAt(t) \in Int
  BY DEF DeltaAt, Deltas
<1>6. \A x \in X, i \in 1 .. n : step(x, i) \in X
  <2> TAKE x \in X, i \in 1 .. n
  <2>1. x[1] \in Nat /\ x[2] \in Nat
    OBVIOUS
  <2>2. DeltaAt((week + i - 1) * WEEK) \in Int
    BY Zenon, <1>5
  <2>3. (IF i = 1 THEN 0 ELSE WEEK) \in Nat
    BY WeekIs
  <2> QED
    BY <2>1, <2>2, <2>3, TotalDecayedType
<1>7. \A x \in X, i \in 1 .. n : g[i][x] = step(x, i)
  BY Zenon
<1>8. \A x \in X, i \in 1 .. n : g[i][x] \in X
  BY Zenon, <1>6, <1>7
<1> HIDE DEF g, X, n
<1>9. PICK h : Unfolds(h, n, a, g)
  BY <1>3, <1>4, <1>8, Unfolding
<1>10. h \in [0 .. n -> X]
  BY <1>3, <1>4, <1>8, <1>9, UnfoldedType
<1>11. E(h)
  <2>1. \A i \in 0 .. n : (IF i = 0 THEN a ELSE g[i][h[i - 1]])
                          = IF i = 0 THEN a ELSE step(h[i - 1], i)
    <3> TAKE i \in 0 .. n
    <3>1. CASE i = 0
      BY Zenon, <3>1
    <3>2. CASE i # 0
      <4>1. i \in 1 .. n /\ i - 1 \in 0 .. n
        BY <1>3, <3>2
      <4>2. h[i - 1] \in X
        BY Zenon, <1>10, <4>1
      <4> QED
        BY Zenon, <1>7, <3>2, <4>1, <4>2
    <3> QED
      BY Zenon, <3>1, <3>2
  <2>2. h = [i \in 0 .. n |-> IF i = 0 THEN a ELSE g[i][h[i - 1]]]
    BY Zenon, <1>9 DEF Unfolds
  <2> QED
    BY Zenon, <2>1, <2>2
<1>12. E(f)
  BY Zenon, <1>11
<1> HIDE DEF f
<1>13. \A i \in 0 .. n : f[i] = IF i = 0 THEN a ELSE step(f[i - 1], i)
  BY Zenon, <1>12
<1> HIDE DEF step, a
<1>14. 0 \in 0 .. n /\ n \in 0 .. n /\ \A i \in 1 .. n : i \in 0 .. n /\ i # 0
  BY <1>3
<1>15. f[0] = a
  BY Zenon, <1>13, <1>14
<1>16. \A i \in 1 .. n : f[i - 1] \in X => f[i] \in X
  BY Zenon, <1>6, <1>13, <1>14
<1>17. \A i \in 0 .. n : f[i] \in X
  BY <1>3, <1>4, <1>15, <1>16, Stays
<1>18. f[n] \in X
  BY Zenon, <1>14, <1>17
<1>19. f[n][1] \in Nat
  BY <1>18 DEF X
<1>20. ASSUME at \div WEEK = week PROVE f[n][1] = row.bias
  <2>1. n = 0
    <3>1. week \in Nat
      BY <1>2, WeekOf
    <3> HIDE DEF week
    <3> QED
      BY <1>20, <3>1 DEF n
  <2>2. f[n] = a
    BY <1>15, <2>1
  <2> QED
    BY <2>2 DEF a
<1> QED
  BY Zenon, <1>1, <1>19, <1>20

\* What reading the total at a time answers, by the rows read.
TotalAnswer(read, at) ==
  LET i == getPowerIndexAt(read, at) IN IF i \in {0, 1} THEN 0 ELSE getTotalTinyPower(read[i], at)

LEMMA TotalAnswerIs ==
  ASSUME VInv, NEW s, NEW r \in Requests, GlobalSeen(s, total, now), s.read \in Seq(Rows),
         Prefix(s.read, total), s.global.count <= Len(s.read),
         LET i == getPowerIndexAt(s.read, r.at)
         IN  i \in {0, 1} \/ ~TotalPowerThrows(s.read[i], r.at)
  PROVE  TotalAnswer(s.read, r.at) \in Nat
<1> DEFINE i == getPowerIndexAt(s.read, r.at)
           n == Len(s.read)
<1>1. r.at \in Nat
  BY RequestIs
<1>2. Totals(total, now) /\ now \in Nat /\ Deltas(slopeDelta)
  BY ChainNow
<1>3. /\ total \in Seq(Rows) /\ Timed(total) /\ Len(total) \in Nat
      /\ \A j \in 1 .. Len(total) : total[j] \in Rows /\ total[j].timestamp \in Nat
  <2>1. total \in Seq(Rows) /\ InOrder(total, now)
    BY <1>2 DEF Totals
  <2>2. Timed(total) /\ \A j \in 1 .. Len(total) : total[j] \in Rows
    BY <1>2, <2>1, TimedRows
  <2> QED
    BY Zenon, <2>1, <2>2 DEF Timed
<1>4. Timed(s.read) /\ n \in Nat /\ n <= Len(total) /\ \A j \in 1 .. n : total[j] = s.read[j]
  BY <1>3, TimedPrefix DEF Prefix
<1>5. MadeBy(s.read, r.at, i)
  BY <1>1, <1>4, IndexIs
<1>6. i \in {0, 1} \/ ~TotalPowerThrows(s.read[i], r.at)
  OBVIOUS
<1>7. TotalAnswer(s.read, r.at) = IF i \in {0, 1} THEN 0 ELSE getTotalTinyPower(s.read[i], r.at)
  BY Zenon DEF TotalAnswer
<1> HIDE DEF i, n
<1>8. i \in 0 .. n
  BY Zenon, <1>5 DEF MadeBy, n
<1>9. ASSUME i \notin {0, 1}
      PROVE  /\ s.read[i] \in Rows /\ s.read[i].timestamp <= r.at
             /\ getTotalTinyPower(s.read[i], r.at) \in Nat
             /\ s.read[i].timestamp % WEEK # 0 => getTotalTinyPower(s.read[i], r.at) = s.read[i].bias
  <2>1. i \in 1 .. n /\ i \in 1 .. i /\ i \in 1 .. Len(total)
    BY <1>4, <1>8, <1>9
  <2>2. s.read[i] \in Rows /\ s.read[i].timestamp <= r.at /\ s.read[i].timestamp \in Nat
    <3>1. s.read[i].timestamp <= r.at
      BY Zenon, <1>5, <2>1 DEF MadeBy
    <3>2. s.read[i] \in Rows /\ s.read[i].timestamp \in Nat
      BY Zenon, <1>3, <1>4, <2>1
    <3> QED
      BY <3>1, <3>2
  <2>3. /\ getTotalTinyPower(s.read[i], r.at) \in Nat
        /\ r.at \div WEEK = s.read[i].timestamp \div WEEK
             => getTotalTinyPower(s.read[i], r.at) = s.read[i].bias
    BY <1>1, <1>2, <2>2, TotalReadIs
  <2>4. s.read[i].timestamp % WEEK # 0 => ~ r.at \div WEEK > s.read[i].timestamp \div WEEK
    BY <1>6, <1>9 DEF TotalPowerThrows
  <2>5. /\ r.at \div WEEK \in Nat /\ s.read[i].timestamp \div WEEK \in Nat
        /\ s.read[i].timestamp \div WEEK <= r.at \div WEEK
    BY <1>1, <2>2, WeekOf, LessWeeks
  <2>6. s.read[i].timestamp % WEEK # 0 => r.at \div WEEK = s.read[i].timestamp \div WEEK
    BY <2>4, <2>5
  <2> QED
    BY Zenon, <2>2, <2>3, <2>6
<1>10. TotalAnswer(s.read, r.at) \in Nat
  <2>1. CASE i \in {0, 1}
    BY <1>7, <2>1
  <2>2. CASE i \notin {0, 1}
    BY Zenon, <1>7, <1>9, <2>2
  <2> QED
    BY <2>1, <2>2
<1> QED
  BY <1>10

LEMMA AnswerTotalStep ==
  ASSUME VInv, NEW c \in Calls, AnswerTotalPower(c)
  PROVE  Kept
<1> DEFINE s == seen[c]
           r == req[c]
           i == getPowerIndexAt(s.read, r.at)
           n == TotalAnswer(s.read, r.at)
<1>1. /\ pc[c] = "global" /\ r.op = "totalPower" /\ s.boxes = BoxesToRead(c)
      /\ SameChain /\ UNCHANGED <<req, seen, group>>
  BY DEF AnswerTotalPower, chainVars, SameChain
<1>2. \/ /\ i \in {0, 1}
         /\ pc' = [pc EXCEPT ![c] = "answered"] /\ answer' = [answer EXCEPT ![c] = 0]
      \/ /\ i \notin {0, 1} /\ TotalPowerThrows(s.read[i], r.at)
         /\ pc' = [pc EXCEPT ![c] = "threw"] /\ UNCHANGED answer
      \/ /\ i \notin {0, 1} /\ ~TotalPowerThrows(s.read[i], r.at)
         /\ pc' = [pc EXCEPT ![c] = "answered"]
         /\ answer' = [answer EXCEPT ![c] = getTotalTinyPower(s.read[i], r.at)]
  BY Zenon DEF AnswerTotalPower, Answers, Go
<1>3. n = IF i \in {0, 1} THEN 0 ELSE getTotalTinyPower(s.read[i], r.at)
  BY Zenon DEF TotalAnswer
<1>4. CallIsHere(c, pc[c], r, s, group[c], answer[c])
  BY CallShapes
<1>5. /\ IsSeen(s) /\ r \in Requests /\ GlobalSeen(s, total, now)
      /\ ReadBy(s.read, s.boxes, total, s.global.count)
  BY <1>1, <1>4 DEF CallIsHere, CallIs, VaultPlaces
<1>6. s.boxes = BoxCount(s.global.count)
  BY <1>1 DEF BoxesToRead
<1>7. s.read \in Seq(Rows) /\ Prefix(s.read, total) /\ s.global.count <= Len(s.read)
  BY <1>5, <1>6 DEF ReadBy
<1>8. ASSUME i \notin {0, 1}, TotalPowerThrows(s.read[i], r.at),
             pc' = [pc EXCEPT ![c] = "threw"], UNCHANGED answer
      PROVE  Kept
  <2>1. "threw" \notin VaultPlaces /\ "threw" # "idle"
    BY DEF VaultPlaces
  <2>2. UNCHANGED <<req, seen, group, answer>>
    BY <1>1, <1>8
  <2> QED
    BY <1>1, <1>8, <2>1, <2>2, CallEnds
<1>9. ASSUME i \in {0, 1} \/ ~TotalPowerThrows(s.read[i], r.at),
             pc' = [pc EXCEPT ![c] = "answered"], answer' = [answer EXCEPT ![c] = n]
      PROVE  Kept
  <2>1. n \in Nat
    BY <1>5, <1>7, <1>9, TotalAnswerIs
  <2> HIDE DEF n, i
  <2>2. "answered" \notin {"idle", "account", "global", "increase", "built"}
    OBVIOUS
  <2>3. r.op # "tinyPower"
    BY <1>1
  <2>4. CallIsHere(c, "answered", r, s, group[c], n)
    BY <1>1, <1>5, <2>1, <2>2, <2>3 DEF CallIsHere, CallIs
  <2>5. But(pc, pc', c, "answered")
    BY <1>9, CallShapes, Excepted
  <2>6. But(answer, answer', c, n)
    BY <1>9, CallShapes, Excepted
  <2>7. But(req, req, c, r) /\ But(seen, seen, c, s) /\ But(group, group, c, group[c])
    BY CallShapes, SameBut
  <2>8. req' = req /\ seen' = seen /\ group' = group
    BY <1>1
  <2>9. Moves(c, "answered", r, s, group[c], n)
    BY Zenon, <2>5, <2>6, <2>7, <2>8 DEF Moves
  <2> QED
    BY <1>1, <2>4, <2>9, CallMoves
<1> QED
  BY Zenon, <1>2, <1>3, <1>8, <1>9
-----------------------------------------------------------------------------
(* Every step keeps the invariant.                                          *)

LEMMA FurtherTransitive ==
  ASSUME NEW n, NEW p, NEW q, NEW r, IsAccount(p, n), IsAccount(q, n), IsAccount(r, n),
         Further(p, q, n), Further(q, r, n)
  PROVE  Further(p, r, n)
<1>1. /\ p.powers \in Seq(Rows) /\ q.powers \in Seq(Rows) /\ r.powers \in Seq(Rows)
      /\ p.log \in Seq(Locks) /\ q.log \in Seq(Locks) /\ r.log \in Seq(Locks)
  BY Zenon DEF IsAccount
<1>2. /\ AddedAt(p.powers, q.powers, n) /\ AddedAt(q.powers, r.powers, n)
      /\ Prefix(p.log, q.log) /\ Prefix(q.log, r.log)
  BY DEF Further
<1>3. AddedAt(p.powers, r.powers, n)
  BY <1>1, <1>2, AddedTransitive
<1>4. Prefix(p.log, r.log)
  BY <1>1, <1>2, PrefixTransitive
<1> QED
  BY <1>3, <1>4 DEF Further

LEMMA OutcomeIs ==
  ASSUME VInv, NEW g, IsGroup(g)
  PROVE  IsVault(Outcome(g), now) /\ Grown(Vault, Outcome(g), now)
<1> DEFINE v == Vault
           m == Middle(g)
           w == After(m, g.user, g.calls[2])
<1>1. /\ now \in Nat /\ Totals(total, now) /\ Deltas(slopeDelta)
      /\ account = [u \in Users |-> account[u]] /\ \A u \in Users : IsAccount(account[u], now)
  BY ChainNow
<1>2. /\ v = [total |-> v.total, slopeDelta |-> v.slopeDelta, account |-> v.account]
      /\ v.total = total /\ v.slopeDelta = slopeDelta /\ v.account = account
  BY DEF Vault
<1>3. IsVault(v, now)
  BY Zenon, <1>1, <1>2 DEF IsVault
<1>4. g.user \in Users /\ Len(g.calls) \in 1 .. 2 /\ \A i \in 1 .. Len(g.calls) : IsCall(g.calls[i])
  BY DEF IsGroup
<1>5. IsCall(g.calls[1]) /\ (Len(g.calls) # 1 => IsCall(g.calls[2]))
  BY <1>4
<1>6. m = After(v, g.user, g.calls[1])
  BY DEF Middle
<1> HIDE DEF v, m
<1>7. IsVault(m, now) /\ Grown(v, m, now)
  BY <1>1, <1>3, <1>4, <1>5, <1>6, AfterIs
<1>8. CASE Len(g.calls) = 1
  <2>1. Outcome(g) = m
    BY <1>8 DEF Outcome, m
  <2> QED
    BY Zenon, <1>7, <2>1 DEF v
<1>9. CASE Len(g.calls) # 1
  <2>1. Outcome(g) = w
    BY <1>9 DEF Outcome, m
  <2>2. IsVault(w, now) /\ Grown(m, w, now)
    BY <1>1, <1>4, <1>5, <1>7, <1>9, AfterIs
  <2> HIDE DEF w
  <2>3. v.total \in Seq(Rows) /\ m.total \in Seq(Rows) /\ w.total \in Seq(Rows)
    BY <1>3, <1>7, <2>2 DEF IsVault, Totals
  <2>4. w.total = v.total \/ Checked(v.total, w.total, now)
    <3>1. CASE m.total = v.total
      BY Zenon, <2>2, <3>1 DEF Grown
    <3>2. CASE w.total = m.total
      BY Zenon, <1>7, <3>2 DEF Grown
    <3>3. CASE Checked(v.total, m.total, now) /\ Checked(m.total, w.total, now)
      BY <2>3, <3>3, CheckedTransitive
    <3> QED
      BY Zenon, <1>7, <2>2, <3>1, <3>2, <3>3 DEF Grown
  <2>5. \A u \in Users : Further(v.account[u], w.account[u], now)
    <3> TAKE u \in Users
    <3>1. IsAccount(v.account[u], now) /\ IsAccount(m.account[u], now) /\ IsAccount(w.account[u], now)
      BY <1>3, <1>7, <2>2 DEF IsVault
    <3>2. Further(v.account[u], m.account[u], now) /\ Further(m.account[u], w.account[u], now)
      BY <1>7, <2>2 DEF Grown
    <3> QED
      BY <3>1, <3>2, FurtherTransitive
  <2>6. Grown(v, w, now)
    BY Zenon, <2>4, <2>5 DEF Grown
  <2> QED
    BY Zenon, <2>1, <2>2, <2>6 DEF v
<1> QED
  BY <1>8, <1>9

LEMMA ExecuteStep ==
  ASSUME VInv, NEW c \in Calls, Execute(c)
  PROVE  Kept
<1> DEFINE w == Outcome(group[c])
<1>1. /\ pc[c] = "built" /\ total' = w.total /\ slopeDelta' = w.slopeDelta /\ account' = w.account
      /\ pc' = [pc EXCEPT ![c] = "executed"]
      /\ now' = now /\ req' = req /\ seen' = seen /\ group' = group /\ answer' = answer
  BY DEF Execute
<1>2. IsGroup(group[c]) /\ IsSeen(seen[c])
  BY <1>1, CallShapes DEF CallIsHere, CallIs
<1>3. IsVault(w, now) /\ Grown(Vault, w, now) /\ now \in Nat
  BY <1>2, OutcomeIs, ChainNow
<1> HIDE DEF w
<1>4. ChainIs(now, w.total, w.slopeDelta, w.account)
  BY Zenon, <1>3 DEF IsVault, ChainIs
<1>5. ChainOK'
  BY Zenon, <1>1, <1>4 DEF ChainOK
<1>6. Vault.total = total /\ Vault.account = account
  BY DEF Vault
<1>7. now <= now
  BY <1>3
<1>8. Grows
  BY Zenon, <1>1, <1>3, <1>6, <1>7 DEF Grown, Grows
<1>9. OfCalls(pc) /\ OfCalls(req) /\ OfCalls(seen) /\ OfCalls(group) /\ OfCalls(answer)
  BY CallShapes
<1>10. But(pc, pc', c, "executed")
  BY <1>1, <1>9, Excepted
<1>11. CallsShaped'
  BY Zenon, <1>1, <1>9, <1>10 DEF CallsShaped, But, OfCalls
<1>12. \A d \in Calls : d # c => SameCall(d)
  BY Zenon, <1>1, <1>10 DEF SameCall, But
<1>13. "executed" \notin {"idle", "account", "global", "increase", "built", "answered"}
  OBVIOUS
<1>14. CallIs(c, "executed", req[c], seen[c], group[c], answer[c], account'[Owner[c]], total', now')
  BY <1>2, <1>13 DEF CallIs, VaultPlaces
<1>15. CallOK(c)'
  BY Zenon, <1>1, <1>10, <1>14 DEF CallOK, But
<1> QED
  BY <1>5, <1>8, <1>11, <1>12, <1>15, OthersKept DEF Kept

LEMMA AllKept ==
  ASSUME VInv, ChainOK', Grows, UNCHANGED callVars
  PROVE  Kept
<1>1. /\ pc' = pc /\ req' = req /\ seen' = seen /\ group' = group /\ answer' = answer
  BY DEF callVars
<1>2. \A c \in Calls : SameCall(c)
  BY Zenon, <1>1 DEF SameCall
<1>3. CallsShaped'
  BY Zenon, <1>1 DEF VInv, CallsShaped, OfCalls
<1>4. \A c \in Calls : CallOK(c)'
  BY <1>2, SameCallKept
<1> QED
  BY <1>3, <1>4 DEF VInv, Kept

LEMMA TickStep ==
  ASSUME VInv, Tick
  PROVE  Kept
<1>1. PICK t \in Instants : t > now /\ now' = t
  BY DEF Tick
<1>2. t \in Nat /\ now \in Nat
  BY RequestAssumption, ChainNow
<1>3. UNCHANGED <<total, slopeDelta, account>> /\ UNCHANGED callVars
  BY DEF Tick
<1>4. now' \in Nat /\ now <= now'
  BY <1>1, <1>2
<1>5. ChainOK' /\ Grows
  BY <1>3, <1>4, SameChainGrows
<1> QED
  BY <1>3, <1>5, AllKept

LEMMA OtherLockStep ==
  ASSUME VInv, NEW l \in OtherLocks, OtherLock(l)
  PROVE  Kept
<1> DEFINE bias == calculateTinyPower(l.amount, l.end, now)
           slope == getSlope(l.amount)
           t == Raised(Checkpoints(total, slopeDelta), bias, slope)
           d == WithDelta(slopeDelta, l.end, slope)
<1>1. total' = t /\ slopeDelta' = d /\ now' = now /\ account' = account /\ UNCHANGED callVars
  BY DEF OtherLock
<1>2. /\ now \in Nat /\ Totals(total, now) /\ Deltas(slopeDelta)
      /\ account = [u \in Users |-> account[u]] /\ \A u \in Users : IsAccount(account[u], now)
  BY ChainNow
<1>3. l.amount \in Nat /\ l.end \in Nat
  BY RequestAssumption
<1>4. slope \in Nat
  BY <1>3, SlopeType
<1>5. bias \in Int
  <2>1. getBias(getSlope(l.amount), l.end - now) \in Int
    <3>1. l.end - now \in Int
      BY <1>2, <1>3
    <3> QED
      BY <1>4, <3>1, BiasType
  <2> QED
    BY <2>1 DEF calculateTinyPower
<1>6. slope \in Int
  BY <1>4
<1> HIDE DEF bias, slope
<1>7. Totals(t, now) /\ Checked(total, t, now)
  BY <1>2, <1>5, <1>6, CheckpointedAndRaised
<1>8. Deltas(d)
  BY <1>2, <1>3, <1>6, WithDeltaType
<1> HIDE DEF t, d
<1>9. ChainIs(now, t, d, account)
  BY Zenon, <1>2, <1>7, <1>8 DEF ChainIs
<1>10. ChainOK'
  BY Zenon, <1>1, <1>9 DEF ChainOK
<1>11. \A u \in Users : Further(account[u], account[u], now)
  <2> TAKE u \in Users
  <2>1. account[u].powers \in Seq(Rows) /\ account[u].log \in Seq(Locks)
    BY <1>2 DEF IsAccount
  <2> QED
    BY <2>1, PrefixSame DEF Further
<1>12. now <= now
  BY <1>2
<1>13. Grows
  BY Zenon, <1>1, <1>7, <1>11, <1>12 DEF Grows
<1> QED
  BY <1>1, <1>10, <1>13, AllKept

LEMMA VInvAtFirst ==
  ASSUME Init
  PROVE  VInv
<1>1. PICK start \in Starts :
        now = start.now /\ total = start.total /\ slopeDelta = start.slopeDelta
        /\ account = start.account
  BY DEF Init
<1>2. /\ start.now \in Nat
      /\ start.total \in Seq(Rows) /\ start.total # <<>> /\ InOrder(start.total, start.now)
      /\ \A t \in DOMAIN start.slopeDelta : t \in Nat /\ start.slopeDelta[t] \in Nat
      /\ start.account = [u \in Users |-> start.account[u]]
      /\ \A u \in Users : IsAccount(start.account[u], start.now)
  BY StartAssumption
<1>3. Totals(start.total, start.now)
  BY Zenon, <1>2 DEF Totals
<1>4. Deltas(start.slopeDelta)
  BY <1>2 DEF Deltas
<1>5. ChainIs(start.now, start.total, start.slopeDelta, start.account)
  BY Zenon, <1>2, <1>3, <1>4 DEF ChainIs
<1>6. ChainOK
  BY Zenon, <1>1, <1>5 DEF ChainOK
<1>7. /\ pc = [c \in Calls |-> "idle"] /\ req = [c \in Calls |-> None]
      /\ seen = [c \in Calls |-> Unread] /\ group = [c \in Calls |-> None]
      /\ answer = [c \in Calls |-> None]
  BY DEF Init
<1>8. CallsShaped
  BY <1>7 DEF CallsShaped, OfCalls
<1>9. IsSeen(Unread)
  BY DEF IsSeen, Unread
<1>10. ASSUME NEW c \in Calls PROVE CallOK(c)
  <2>1. pc[c] = "idle" /\ seen[c] = Unread
    BY <1>7
  <2>2. "idle" \notin {"account", "global", "increase", "built", "answered"}
    OBVIOUS
  <2>3. CallIs(c, "idle", req[c], seen[c], group[c], answer[c], account[Owner[c]], total, now)
    BY <1>9, <2>1, <2>2 DEF CallIs, VaultPlaces
  <2> QED
    BY Zenon, <2>1, <2>3 DEF CallOK
<1> QED
  BY <1>6, <1>8, <1>10 DEF VInv

LEMMA LagsAre == VInv => \A lag \in Lags : now - lag \in Int
<1> SUFFICES ASSUME VInv, NEW lag \in Lags PROVE now - lag \in Int
  OBVIOUS
<1>1. now \in Nat /\ lag \in Nat
  BY ChainNow, RequestAssumption
<1> QED
  BY <1>1

\* Every step of the vault's specification keeps the invariant.
LEMMA VInvKept ==
  ASSUME VInv, Next
  PROVE  Kept
<1>1. \A lag \in Lags : now - lag \in Int
  BY LagsAre
<1>2. CASE Tick
  BY <1>2, TickStep
<1>3. CASE \E l \in OtherLocks : OtherLock(l)
  BY <1>3, OtherLockStep
<1>4. ASSUME NEW c \in Calls,
             \E r \in Requests, failed \in BOOLEAN : FetchAccountState(c, r, failed)
      PROVE  Kept
  BY <1>4, FetchAccountStep
<1>5. ASSUME NEW c \in Calls, \E r \in Requests : FetchGlobalState(c, r) \/ FailGlobalState(c, r)
      PROVE  Kept
  BY <1>5, FetchGlobalStep, FailGlobalStep
<1>6. ASSUME NEW c \in Calls, NEW lag \in Lags, GenerateCreateLock(c, now - lag)  PROVE Kept
  BY <1>1, <1>6, GenerateCreateStep
<1>7. ASSUME NEW c \in Calls, NEW lag \in Lags, GenerateIncreaseLockAmount(c, now - lag)
      PROVE  Kept
  BY <1>1, <1>7, GenerateIncreaseLockStep
<1>8. ASSUME NEW c \in Calls, NEW lag \in Lags, GenerateExtendLockTime(c, now - lag)  PROVE Kept
  BY <1>1, <1>8, GenerateExtendLockStep
<1>9. ASSUME NEW c \in Calls, NEW lag \in Lags, GenerateIncrease(c, now - lag)  PROVE Kept
  BY <1>1, <1>9, GenerateIncreaseStep
<1>10. ASSUME NEW c \in Calls, NEW lag \in Lags, GenerateExtension(c, now - lag)  PROVE Kept
  BY <1>1, <1>10, GenerateExtensionStep
<1>11. ASSUME NEW c \in Calls, GenerateWithdraw(c)  PROVE Kept
  BY <1>11, GenerateWithdrawStep
<1>12. ASSUME NEW c \in Calls, Throw(c)  PROVE Kept
  BY <1>12, ThrowStep
<1>13. ASSUME NEW c \in Calls, ReadBox(c)  PROVE Kept
  BY <1>13, ReadStep
<1>14. ASSUME NEW c \in Calls, AnswerTinyPower(c)  PROVE Kept
  BY <1>14, AnswerTinyStep
<1>15. ASSUME NEW c \in Calls, AnswerTotalPower(c)  PROVE Kept
  BY <1>15, AnswerTotalStep
<1>16. ASSUME NEW c \in Calls, Execute(c)  PROVE Kept
  BY <1>16, ExecuteStep
<1>17. ASSUME NEW c \in Calls, Refuse(c)  PROVE Kept
  BY <1>17, RefuseStep
<1> QED
  BY Zenon, <1>2, <1>3, <1>4, <1>5, <1>6, <1>7, <1>8, <1>9, <1>10, <1>11, <1>12, <1>13, <1>14,
     <1>15, <1>16, <1>17 DEF Next

LEMMA VaultStutters ==
  ASSUME VInv, UNCHANGED vars
  PROVE  VInv'
<1>1. /\ now' = now /\ total' = total /\ slopeDelta' = slopeDelta /\ account' = account
      /\ pc' = pc /\ req' = req /\ seen' = seen /\ group' = group /\ answer' = answer
  BY DEF vars, chainVars, callVars
<1>2. ChainOK' /\ CallsShaped'
  BY Zenon, <1>1 DEF VInv, ChainOK, CallsShaped
<1>3. ASSUME NEW c \in Calls PROVE CallOK(c)'
  BY Zenon, <1>1 DEF VInv, CallOK
<1> QED
  BY <1>2, <1>3 DEF VInv

THEOREM VInvInductive == Spec => []VInv
<1>1. Init => VInv
  BY VInvAtFirst
<1>2. VInv /\ [Next]_vars => VInv'
  BY VInvKept, VaultStutters DEF Kept
<1> QED
  BY <1>1, <1>2, PTL DEF Spec
-----------------------------------------------------------------------------
(* The total of all power.                                                  *)

LEMMA PowerFalls ==
  ASSUME NEW row \in Rows, NEW at \in Nat, row.timestamp <= at
  PROVE  PowerOf(row, at) <= row.bias
<1>1. row.bias \in Nat /\ row.slope \in Nat /\ row.timestamp \in Nat
  BY DEF Rows
<1>2. getBias(row.slope, at - row.timestamp) \in Nat
  <2>1. at - row.timestamp \in Int /\ at - row.timestamp >= 0
    BY <1>1
  <2> QED
    BY <1>1, <2>1, BiasType
<1> QED
  BY <1>1, <1>2 DEF PowerOf, AtLeast0

LEMMA DecayedBias ==
  ASSUME NEW row \in Rows, NEW at \in Nat, row.timestamp <= at, NEW deltas
  PROVE  Decayed(row, at, deltas).bias <= row.bias
<1>1. Decayed(row, at, deltas).bias = PowerOf(row, at)
  BY DEF Decayed
<1> QED
  BY <1>1, PowerFalls

-----------------------------------------------------------------------------
(* The properties.                                                          *)

LEMMA VInvPowerReal == VInv => PowerReadIsReal
<1> SUFFICES ASSUME VInv, NEW c \in Calls,
                    pc[c] = "answered" /\ req[c].op = "tinyPower" /\ ~seen[c].failed
             PROVE  PowerReal(seen[c], req[c], answer[c], account[Owner[c]])
  BY Zenon DEF PowerReadIsReal, PowerReal
<1>1. CallIs(c, pc[c], req[c], seen[c], group[c], answer[c], account[Owner[c]], total, now)
  BY Zenon DEF VInv, CallOK
<1> QED
  BY Zenon, <1>1 DEF CallIs

\* A power answered is, but for rounding, that of the lock as it stood at some
\* moment of the call.
THEOREM PowerAnsweredIsReal == Spec => []PowerReadIsReal
BY VInvInductive, VInvPowerReal, PTL

LEMMA NamedIs ==
  ASSUME NEW b, NEW g, InRefs(b, g.refs)
  PROVE  b \in Named(g)
<1>1. PICK k \in DOMAIN g.refs : \E i \in DOMAIN g.refs[k] : g.refs[k][i] = b
  BY Zenon DEF InRefs
<1>2. PICK i \in DOMAIN g.refs[k] : g.refs[k][i] = b
  BY <1>1
<1> DEFINE refs == g.refs[k]
<1>3. refs \in {g.refs[j] : j \in DOMAIN g.refs}
  BY Zenon
<1>4. b \in {refs[j] : j \in DOMAIN refs}
  BY Zenon, <1>2
<1> HIDE DEF refs
<1> QED
  BY Zenon, <1>3, <1>4 DEF Named

\* The box of a row at or after the last of a count is the one of that or a
\* later one; how late, is bounded by how many rows there are.
LEMMA RowsFitTwoBoxes ==
  ASSUME NEW count \in Nat \ {0}, NEW r \in Nat, count - 1 <= r,
         r < (lastBoxIndex(count) + 2) * ArrayLen
  PROVE  BoxOf(r) = lastBoxIndex(count) \/ BoxOf(r) = lastBoxIndex(count) + 1
<1> DEFINE n == count - 1
           i == n \div ArrayLen
           q == r \div ArrayLen
<1>1. ArrayLen \in Nat \ {0}
  BY WeekIs
<1>2. n \in Nat /\ n <= r
  OBVIOUS
<1>3. lastBoxIndex(count) = i /\ BoxOf(r) = q
  BY DEF lastBoxIndex, BoxOf
<1> HIDE DEF n
<1>4. i \in Nat /\ i <= q
  BY <1>1, <1>2, DivBound, DivInOrder
<1>5. q \in Nat /\ ArrayLen * q <= r
  BY <1>1, DivBound
<1>6. r < (i + 2) * ArrayLen
  BY <1>3
<1> HIDE DEF i, q
<1>7. ArrayLen * q = q * ArrayLen
  BY <1>1, <1>5, Z3
<1>8. i + 2 \in Nat
  BY <1>4
<1>9. /\ q * ArrayLen \in Nat /\ (i + 2) * ArrayLen \in Nat
      /\ q < i + 2 <=> q * ArrayLen < (i + 2) * ArrayLen
  BY <1>5, <1>8, BoxArithmetic
<1> DEFINE x == q * ArrayLen
           y == (i + 2) * ArrayLen
<1>10. x \in Nat /\ y \in Nat /\ x <= r /\ r < y
  BY <1>5, <1>6, <1>7, <1>9
<1> HIDE DEF x, y
<1>11. x < y
  BY <1>10
<1>12. q < i + 2
  BY <1>9, <1>11 DEF x, y
<1> QED
  BY <1>3, <1>4, <1>5, <1>12

LEMMA VInvNextBox == VInv => NextTotalBoxSuffices
<1> SUFFICES ASSUME VInv, NEW c \in Calls, pc[c] = "built", req[c].op # "withdraw",
                    Len(Outcome(group[c]).total)
                      <= (lastBoxIndex(seen[c].global.count) + 2) * ArrayLen
             PROVE  TotalBoxesTouched(Vault, Outcome(group[c])) \subseteq Named(group[c])
  BY Zenon DEF NextTotalBoxSuffices
<1> DEFINE g == group[c]
           s == seen[c]
           w == Outcome(g)
           last == lastBoxIndex(s.global.count)
<1>1. CallIs(c, "built", req[c], s, g, answer[c], account[Owner[c]], total, now)
  BY Zenon, CallShapes DEF CallIsHere
<1>2. IsGroup(g) /\ TotalNamed(g.refs, s) /\ req[c].op \notin {"tinyPower", "totalPower"}
  BY <1>1 DEF CallIs
<1>3. GlobalSeen(s, total, now)
  <2>1. "built" \in {"global", "increase", "built"}
        /\ req[c].op \notin {"withdraw", "tinyPower"}
    BY <1>2
  <2> QED
    BY Zenon, <1>1, <2>1 DEF CallIs
<1>4. s.global.count \in Nat \ {0} /\ s.global.count <= Len(total)
  BY <1>3 DEF GlobalSeen
<1>5. Vault.total = total
  BY DEF Vault
<1>6. Len(total) \in Nat
  BY ChainNow DEF Totals
<1>7. Len(w.total) \in Nat
  <2>1. w.total \in Seq(Rows)
    BY <1>2, OutcomeIs DEF IsVault, Totals
  <2> HIDE DEF w
  <2> QED
    BY <2>1
<1>8. Len(w.total) <= (last + 2) * ArrayLen
  OBVIOUS
<1>9. TotalBoxesTouched(Vault, w) = {TotalBox(i) : i \in RowBoxes(Len(total), Len(w.total))}
  BY Zenon, <1>5 DEF TotalBoxesTouched
<1> HIDE DEF w
<1>10. ASSUME NEW i \in RowBoxes(Len(total), Len(w.total))
       PROVE  TotalBox(i) \in Named(g)
  <2>1. PICK r \in AtLeast0(Len(total) - 1) .. Len(w.total) - 1 : i = BoxOf(r)
    BY DEF RowBoxes
  <2>2. r \in Nat /\ s.global.count - 1 <= r /\ r < Len(w.total)
    <3> DEFINE count == s.global.count
               l == Len(total)
               m == Len(w.total)
    <3>1. count \in Nat \ {0} /\ count <= l /\ l \in Nat /\ m \in Nat
      BY <1>4, <1>6, <1>7
    <3>2. r \in AtLeast0(l - 1) .. m - 1
      BY <2>1
    <3> HIDE DEF count, l, m
    <3>3. AtLeast0(l - 1) = l - 1
      BY <3>1 DEF AtLeast0
    <3>4. r \in Nat /\ count - 1 <= r /\ r < m
      BY <3>1, <3>2, <3>3
    <3> QED
      BY Zenon, <3>4 DEF count, l, m
  <2>3. (last + 2) * ArrayLen \in Nat
    <3>1. last + 2 \in Nat
      <4>1. s.global.count \in Nat
        BY <1>4
      <4>2. last \in Nat
        BY <4>1, LastBoxType
      <4> HIDE DEF last
      <4> QED
        BY <4>2
    <3> QED
      BY <3>1, BoxArithmetic
  <2> DEFINE most == (last + 2) * ArrayLen
  <2>4. most \in Nat /\ Len(w.total) <= most
    BY <1>8, <2>3
  <2> HIDE DEF most
  <2>5. r < most
    BY <1>7, <2>2, <2>4
  <2>6. r < (last + 2) * ArrayLen
    BY <2>5 DEF most
  <2>7. i = last \/ i = last + 1
    BY <1>4, <2>1, <2>2, <2>6, RowsFitTwoBoxes
  <2>8. InRefs(TotalBox(i), g.refs)
    BY Zenon, <1>2, <2>7 DEF TotalNamed
  <2> QED
    BY <2>8, NamedIs
<1> QED
  BY <1>9, <1>10 DEF w

\* While the rows others add and the group's own fit in the last box of total
\* power and the next one, the group names the boxes of it that it touches.
THEOREM NextBoxSuffices == Spec => []NextTotalBoxSuffices
BY VInvInductive, VInvNextBox, PTL
-----------------------------------------------------------------------------
(* Calls that vote, next to those of the vault.                             *)

VotingPlaces == {"proposal", "voter", "powers", "vault", "prepared"}

\* A call of the vault acts, none that votes, and the others stay as they are.
Acts(d) ==
  /\ pc[d] \notin VotingPlaces /\ pc'[d] \notin VotingPlaces
  /\ \A c \in Calls : c # d => SameCall(c)

Domains ==
  /\ DOMAIN pc = Calls /\ DOMAIN req = Calls /\ DOMAIN seen = Calls /\ DOMAIN group = Calls
  /\ DOMAIN answer = Calls /\ pc = [c \in Calls |-> pc[c]]

LEMMA DomainsAre == VInv => Domains
  BY CallShapes DEF OfCalls, Domains

LEMMA GoActs ==
  ASSUME Domains, NEW d \in Calls, NEW p, p \notin VotingPlaces, pc[d] \notin VotingPlaces,
         pc' = [pc EXCEPT ![d] = p],
         req' = req \/ \E x : req' = [req EXCEPT ![d] = x],
         seen' = seen \/ \E x : seen' = [seen EXCEPT ![d] = x],
         group' = group \/ \E x : group' = [group EXCEPT ![d] = x],
         answer' = answer \/ \E x : answer' = [answer EXCEPT ![d] = x]
  PROVE  Acts(d)
<1>1. pc'[d] = p
  BY DEF Domains
<1>2. ASSUME NEW c \in Calls, c # d PROVE SameCall(c)
  <2>1. pc'[c] = pc[c]
    BY <1>2 DEF Domains
  <2>2. req'[c] = req[c]
    BY <1>2 DEF Domains
  <2>3. seen'[c] = seen[c]
    BY <1>2 DEF Domains
  <2>4. group'[c] = group[c]
    BY <1>2 DEF Domains
  <2>5. answer'[c] = answer[c]
    BY <1>2 DEF Domains
  <2> QED
    BY <2>1, <2>2, <2>3, <2>4, <2>5 DEF SameCall
<1> QED
  BY <1>1, <1>2 DEF Acts

LEMMA FetchAccountActs ==
  ASSUME Domains, NEW d \in Calls, NEW r, NEW failed, FetchAccountState(d, r, failed)
  PROVE  Acts(d)
<1>1. pc[d] = "idle" /\ pc' = [pc EXCEPT ![d] = "account"]
  BY DEF FetchAccountState, Go
<1>2. req' = [req EXCEPT ![d] = r] /\ group' = group /\ answer' = answer
  BY DEF FetchAccountState
<1>3. \E x : seen' = [seen EXCEPT ![d] = x]
  BY DEF FetchAccountState
<1>4. "idle" \notin VotingPlaces /\ "account" \notin VotingPlaces
  BY DEF VotingPlaces
<1> QED
  BY <1>1, <1>2, <1>3, <1>4, GoActs

LEMMA FetchGlobalActs ==
  ASSUME Domains, NEW d \in Calls, NEW r, FetchGlobalState(d, r)
  PROVE  Acts(d)
<1>1. pc[d] \in {"idle", "account"} /\ pc' = [pc EXCEPT ![d] = "global"]
  BY DEF FetchGlobalState, Go
<1>2. req' = [req EXCEPT ![d] = r] /\ group' = group /\ answer' = answer
  BY DEF FetchGlobalState
<1>3. \E x : seen' = [seen EXCEPT ![d] = x]
  BY DEF FetchGlobalState, Sees
<1>4. pc[d] \notin VotingPlaces /\ "global" \notin VotingPlaces
  BY <1>1 DEF VotingPlaces
<1> QED
  BY <1>1, <1>2, <1>3, <1>4, GoActs

LEMMA FailGlobalActs ==
  ASSUME Domains, NEW d \in Calls, NEW r, FailGlobalState(d, r)
  PROVE  Acts(d)
<1>1. pc[d] = "idle" /\ pc' = [pc EXCEPT ![d] = "answered"]
  BY DEF FailGlobalState, Answers, Go
<1>2. /\ req' = [req EXCEPT ![d] = r] /\ group' = group
      /\ \E x : answer' = [answer EXCEPT ![d] = x]
  BY DEF FailGlobalState, Answers
<1>3. \E x : seen' = [seen EXCEPT ![d] = x]
  BY DEF FailGlobalState, Sees
<1>4. pc[d] \notin VotingPlaces /\ "answered" \notin VotingPlaces
  BY <1>1 DEF VotingPlaces
<1> QED
  BY <1>1, <1>2, <1>3, <1>4, GoActs

\* Building a group or a part of one.
LEMMA BuildActs ==
  ASSUME Domains, NEW d \in Calls, NEW local, NEW parts, pc[d] \in {"account", "global", "increase"},
         req' = req, answer' = answer, Builds(d, local, parts)
  PROVE  Acts(d)
<1>1. pc' = [pc EXCEPT ![d] = "built"] /\ seen' = seen
  BY DEF Builds, Go
<1>2. \E x : group' = [group EXCEPT ![d] = x]
  BY DEF Builds
<1>3. pc[d] \notin VotingPlaces /\ "built" \notin VotingPlaces
  BY DEF VotingPlaces
<1> QED
  BY <1>1, <1>2, <1>3, GoActs

LEMMA GenerateActs ==
  ASSUME Domains, NEW d \in Calls, NEW local,
         \/ GenerateCreateLock(d, local) \/ GenerateIncreaseLockAmount(d, local)
         \/ GenerateExtendLockTime(d, local) \/ GenerateIncrease(d, local)
         \/ GenerateExtension(d, local)
  PROVE  Acts(d)
<1>1. CASE GenerateCreateLock(d, local)
  BY <1>1, BuildActs DEF GenerateCreateLock, Generate
<1>2. CASE GenerateIncreaseLockAmount(d, local)
  BY <1>2, BuildActs DEF GenerateIncreaseLockAmount, Generate
<1>3. CASE GenerateExtendLockTime(d, local)
  BY <1>3, BuildActs DEF GenerateExtendLockTime, Generate
<1>4. CASE GenerateIncrease(d, local)
  <2>1. /\ pc[d] = "global" /\ pc' = [pc EXCEPT ![d] = "increase"] /\ req' = req
        /\ group' = group /\ answer' = answer
    BY <1>4 DEF GenerateIncrease, Generate, Go
  <2>2. \E x : seen' = [seen EXCEPT ![d] = x]
    BY <1>4 DEF GenerateIncrease
  <2>3. pc[d] \notin VotingPlaces /\ "increase" \notin VotingPlaces
    BY <2>1 DEF VotingPlaces
  <2> QED
    BY <2>1, <2>2, <2>3, GoActs
<1>5. CASE GenerateExtension(d, local)
  BY <1>5, BuildActs DEF GenerateExtension, Generate
<1> QED
  BY <1>1, <1>2, <1>3, <1>4, <1>5

LEMMA OtherActs ==
  ASSUME Domains, NEW d \in Calls,
         \/ GenerateWithdraw(d) \/ Throw(d) \/ ReadBox(d) \/ AnswerTinyPower(d)
         \/ AnswerTotalPower(d) \/ Execute(d) \/ Refuse(d)
  PROVE  Acts(d)
<1> USE DEF VotingPlaces
<1>1. CASE GenerateWithdraw(d)
  BY <1>1, BuildActs DEF GenerateWithdraw
<1>2. CASE Throw(d)
  <2>1. /\ pc[d] \in {"account", "global", "increase"} /\ pc' = [pc EXCEPT ![d] = "threw"]
        /\ req' = req /\ seen' = seen /\ group' = group /\ answer' = answer
    BY <1>2 DEF Throw, Go
  <2> QED
    BY <2>1, GoActs
<1>3. CASE ReadBox(d)
  <2>1. /\ pc[d] \in {"account", "global"} /\ pc' = pc
        /\ req' = req /\ group' = group /\ answer' = answer
    BY <1>3 DEF ReadBox, Reading
  <2> DEFINE n == seen[d].boxes + 1
             more == seen[d].read \o RowsIn(IF req[d].op = "tinyPower" THEN account[Owner[d]].powers
                                           ELSE total, seen[d].boxes)
  <2>2. \E x : seen' = [seen EXCEPT ![d] = x]
    <3>1. seen' = [seen EXCEPT ![d].boxes = n, ![d].read = more]
      BY <1>3 DEF ReadBox
    <3> HIDE DEF n, more
    <3> DEFINE v == [[seen[d] EXCEPT !.boxes = n] EXCEPT !.read = more]
    <3>2. seen' = [seen EXCEPT ![d] = v]
      BY <3>1
    <3> HIDE DEF v
    <3> QED
      BY <3>2
  <2>3. pc' = [pc EXCEPT ![d] = pc[d]]
    <3>1. pc = [pc EXCEPT ![d] = pc[d]]
      BY DEF Domains
    <3> QED
      BY <2>1, <3>1
  <2>4. pc[d] \notin VotingPlaces
    BY <2>1
  <2> QED
    BY <2>1, <2>2, <2>3, <2>4, GoActs
<1>4. CASE AnswerTinyPower(d)
  <2>1. /\ pc[d] = "account" /\ pc' = [pc EXCEPT ![d] = "answered"]
        /\ req' = req /\ seen' = seen /\ group' = group
    BY <1>4 DEF AnswerTinyPower, Answers, Go
  <2>2. \E x : answer' = [answer EXCEPT ![d] = x]
    BY <1>4 DEF AnswerTinyPower, Answers
  <2> QED
    BY <2>1, <2>2, GoActs
<1>5. CASE AnswerTotalPower(d)
  <2>1. /\ pc[d] = "global" /\ req' = req /\ seen' = seen /\ group' = group
    BY <1>5 DEF AnswerTotalPower
  <2>2. \/ pc' = [pc EXCEPT ![d] = "threw"] /\ answer' = answer
        \/ pc' = [pc EXCEPT ![d] = "answered"] /\ \E x : answer' = [answer EXCEPT ![d] = x]
    BY Zenon, <1>5 DEF AnswerTotalPower, Answers, Go
  <2>3. "threw" \notin VotingPlaces /\ "answered" \notin VotingPlaces /\ pc[d] \notin VotingPlaces
    BY <2>1
  <2> QED
    BY <2>1, <2>2, <2>3, GoActs
<1>6. CASE Execute(d)
  <2>1. /\ pc[d] = "built" /\ pc' = [pc EXCEPT ![d] = "executed"]
        /\ req' = req /\ seen' = seen /\ group' = group /\ answer' = answer
    BY <1>6 DEF Execute
  <2> QED
    BY <2>1, GoActs
<1>7. CASE Refuse(d)
  <2>1. /\ pc[d] = "built" /\ pc' = [pc EXCEPT ![d] = "refused"]
        /\ req' = req /\ seen' = seen /\ group' = group /\ answer' = answer
    BY <1>7 DEF Refuse
  <2> QED
    BY <2>1, GoActs
<1> QED
  BY <1>1, <1>2, <1>3, <1>4, <1>5, <1>6, <1>7

\* A step of the vault touches no call that votes.
Aside(c) == SameCall(c) \/ (pc[c] \notin VotingPlaces /\ pc'[c] \notin VotingPlaces)

LEMMA VaultAside ==
  ASSUME Domains, Next, NEW c \in Calls
  PROVE  Aside(c)
<1>1. ASSUME UNCHANGED callVars PROVE SameCall(c)
  BY <1>1 DEF callVars, SameCall
<1>2. ASSUME NEW d \in Calls, Acts(d) PROVE Aside(c)
  BY <1>2 DEF Acts, Aside
<1>3. CASE Tick
  BY <1>1, <1>3 DEF Tick, Aside
<1>4. CASE \E l \in OtherLocks : OtherLock(l)
  <2>1. UNCHANGED callVars
    BY <1>4 DEF OtherLock
  <2> QED
    BY <1>1, <2>1 DEF Aside
<1>5. ASSUME NEW d \in Calls, NEW r \in Requests, NEW failed \in BOOLEAN,
             FetchAccountState(d, r, failed)
      PROVE  Aside(c)
  BY <1>2, <1>5, FetchAccountActs
<1>6. ASSUME NEW d \in Calls, NEW r \in Requests,
             FetchGlobalState(d, r) \/ FailGlobalState(d, r)
      PROVE  Aside(c)
  BY <1>2, <1>6, FetchGlobalActs, FailGlobalActs
<1>7. ASSUME NEW d \in Calls, NEW lag \in Lags,
             \/ GenerateCreateLock(d, now - lag) \/ GenerateIncreaseLockAmount(d, now - lag)
             \/ GenerateExtendLockTime(d, now - lag) \/ GenerateIncrease(d, now - lag)
             \/ GenerateExtension(d, now - lag)
      PROVE  Aside(c)
  BY <1>2, <1>7, GenerateActs
<1>8. ASSUME NEW d \in Calls,
             \/ GenerateWithdraw(d) \/ Throw(d) \/ ReadBox(d) \/ AnswerTinyPower(d)
             \/ AnswerTotalPower(d) \/ Execute(d) \/ Refuse(d)
      PROVE  Aside(c)
  BY <1>2, <1>8, OtherActs
<1> QED
  BY Zenon, <1>3, <1>4, <1>5, <1>6, <1>7, <1>8 DEF Next

\* Of a call that votes the vault's invariant only says the shape of what it saw.
LEMMA VoterMoves ==
  ASSUME VInv, UNCHANGED chainVars, NEW c \in Calls, NEW p, p \notin VaultPlaces, p # "idle",
         NEW r, NEW s, IsSeen(s),
         pc' = [pc EXCEPT ![c] = p], req' = [req EXCEPT ![c] = r], But(seen, seen', c, s),
         UNCHANGED <<group, answer>>
  PROVE  Kept
<1>1. p \notin {"idle", "account", "global", "increase", "built", "answered"}
  BY DEF VaultPlaces
<1>2. CallIsHere(c, p, r, s, group[c], answer[c])
  BY <1>1 DEF CallIs, VaultPlaces, CallIsHere
<1>3. OfCalls(req)
  BY CallShapes
<1>4. But(req, req', c, r)
  BY <1>3, Excepted
<1>5. SameChain
  BY DEF chainVars, SameChain
<1> QED
  BY <1>2, <1>4, <1>5, SeesOn

LEMMA VoterEnds ==
  ASSUME VInv, UNCHANGED <<chainVars, req, seen, group, answer>>,
         NEW c \in Calls, NEW p, p \notin VaultPlaces, p # "idle", pc' = [pc EXCEPT ![c] = p]
  PROVE  Kept
<1>1. SameChain
  BY DEF chainVars, SameChain
<1> QED
  BY <1>1, CallEnds

LEMMA VotingPlacesAre ==
  \A p \in VotingPlaces \cup {"counted", "notCounted", "gaveUp"} : p \notin VaultPlaces /\ p # "idle"
  BY DEF VotingPlaces, VaultPlaces

LEMMA FetchVoterStep ==
  ASSUME VInv, NEW c \in Calls, NEW r, NEW failed \in BOOLEAN, NEW local,
         FetchVoter(c, r, failed, local)
  PROVE  /\ Kept
         /\ But(seen, seen', c,
              [account |-> AccountRead(Owner[c], failed), failed |-> failed,
               rows |-> seen[c].rows, global |-> seen[c].global, first |-> seen[c].first,
               boxes |-> seen[c].boxes, read |-> seen[c].read])
<1> DEFINE p == IF r.op = "vote" THEN "powers" ELSE "voter"
           x == AccountRead(Owner[c], failed)
           s == [account |-> x, failed |-> failed,
                 rows |-> seen[c].rows, global |-> seen[c].global, first |-> seen[c].first,
                 boxes |-> seen[c].boxes, read |-> seen[c].read]
<1>1. /\ UNCHANGED chainVars /\ UNCHANGED <<group, answer>>
      /\ pc' = [pc EXCEPT ![c] = p] /\ req' = [req EXCEPT ![c] = r]
  BY DEF FetchVoter, Go
<1>2. seen' = [seen EXCEPT ![c].account = x, ![c].failed = failed]
  BY DEF FetchVoter
<1>3. IsSeen(seen[c]) /\ OfCalls(seen)
  BY CallShapes DEF CallIsHere, CallIs
<1> HIDE DEF x
<1>4. But(seen, seen', c, s)
  BY <1>2, <1>3, SeenSteps
<1>5. IsSeen(s)
  BY DEF IsSeen
<1>6. p \in VotingPlaces
  BY DEF VotingPlaces
<1> HIDE DEF s, p
<1>7. Kept
  BY <1>1, <1>4, <1>5, <1>6, VotingPlacesAre, VoterMoves
<1> QED
  BY <1>4, <1>7 DEF s, x

LEMMA ReadPowerStep ==
  ASSUME VInv, NEW c \in Calls, ReadPowerBox(c)
  PROVE  /\ Kept
         /\ But(seen, seen', c,
              [account |-> seen[c].account, failed |-> seen[c].failed,
               rows |-> seen[c].rows, global |-> seen[c].global, first |-> seen[c].first,
               boxes |-> seen[c].boxes + 1,
               read |-> seen[c].read \o RowsIn(account[Owner[c]].powers, seen[c].boxes)])
<1> DEFINE n == seen[c].boxes + 1
           more == seen[c].read \o RowsIn(account[Owner[c]].powers, seen[c].boxes)
           s == [account |-> seen[c].account, failed |-> seen[c].failed,
                 rows |-> seen[c].rows, global |-> seen[c].global, first |-> seen[c].first,
                 boxes |-> n, read |-> more]
<1>1. /\ UNCHANGED chainVars /\ UNCHANGED <<pc, req, group, answer>> /\ pc[c] = "powers"
  BY DEF ReadPowerBox
<1>2. seen' = [seen EXCEPT ![c].boxes = n, ![c].read = more]
  BY DEF ReadPowerBox
<1>3. IsSeen(seen[c]) /\ OfCalls(seen) /\ OfCalls(pc) /\ OfCalls(req)
  BY CallShapes DEF CallIsHere, CallIs
<1> HIDE DEF n, more
<1>4. But(seen, seen', c, s)
  BY <1>2, <1>3, SeenSteps
<1>5. IsSeen(s)
  BY DEF IsSeen
<1>6. "powers" \in VotingPlaces
  BY DEF VotingPlaces
<1>7. pc = [pc EXCEPT ![c] = "powers"] /\ req = [req EXCEPT ![c] = req[c]]
  BY <1>1, <1>3, SameIsExcept
<1>8. pc' = [pc EXCEPT ![c] = "powers"] /\ req' = [req EXCEPT ![c] = req[c]]
  BY Zenon, <1>1, <1>7
<1> HIDE DEF s
<1>9. Kept
  BY <1>1, <1>4, <1>5, <1>6, <1>8, VotingPlacesAre, VoterMoves
<1> QED
  BY <1>4, <1>9 DEF s, n, more

LEMMA FetchVaultStep ==
  ASSUME VInv, NEW c \in Calls, NEW r, FetchVaultState(c, r)
  PROVE  /\ Kept
         /\ But(seen, seen', c,
              [account |-> seen[c].account, failed |-> seen[c].failed,
               rows |-> seen[c].rows,
               global |-> [count |-> Len(total), last |-> LastTime(total), at |-> now],
               first |-> seen[c].first, boxes |-> seen[c].boxes, read |-> seen[c].read])
<1> DEFINE g == [count |-> Len(total), last |-> LastTime(total), at |-> now]
           s == [account |-> seen[c].account, failed |-> seen[c].failed,
                 rows |-> seen[c].rows, global |-> g, first |-> seen[c].first,
                 boxes |-> seen[c].boxes, read |-> seen[c].read]
<1>1. /\ UNCHANGED chainVars /\ UNCHANGED <<group, answer>>
      /\ pc' = [pc EXCEPT ![c] = "vault"] /\ req' = [req EXCEPT ![c] = r]
  BY DEF FetchVaultState, Go
<1>2. seen' = [seen EXCEPT ![c].global = g]
  BY DEF FetchVaultState, Sees
<1>3. IsSeen(seen[c]) /\ OfCalls(seen)
  BY CallShapes DEF CallIsHere, CallIs
<1> HIDE DEF g
<1>4. But(seen, seen', c, s)
  BY <1>2, <1>3, SeenSteps
<1>5. IsSeen(s)
  BY DEF IsSeen
<1>6. "vault" \in VotingPlaces
  BY DEF VotingPlaces
<1> HIDE DEF s
<1>7. Kept
  BY <1>1, <1>4, <1>5, <1>6, VotingPlacesAre, VoterMoves
<1> QED
  BY <1>4, <1>7 DEF s, g

LEMMA FetchProposalStep ==
  ASSUME VInv, NEW c \in Calls, NEW r, FetchProposal(c, r)
  PROVE  Kept
<1>1. /\ UNCHANGED chainVars /\ UNCHANGED <<group, answer>> /\ seen' = seen
      /\ pc' = [pc EXCEPT ![c] = "proposal"] /\ req' = [req EXCEPT ![c] = r]
  BY DEF FetchProposal, Go
<1>2. IsSeen(seen[c]) /\ OfCalls(seen)
  BY CallShapes DEF CallIsHere, CallIs
<1>3. But(seen, seen', c, seen[c])
  BY <1>1, <1>2, SameBut
<1>4. "proposal" \in VotingPlaces
  BY DEF VotingPlaces
<1> QED
  BY <1>1, <1>2, <1>3, <1>4, VotingPlacesAre, VoterMoves

LEMMA OtherVotingSteps ==
  ASSUME VInv, NEW c \in Calls,
         \/ GetAllBoxNames(c) \/ FetchRewardsState(c) \/ \E failed \in BOOLEAN : GenerateCastVote(c, failed)
         \/ GenerateStakingVote(c) \/ GenerateClaimReward(c) \/ GenerateCreateProposal(c)
         \/ GiveUp(c) \/ ExecuteBallot(c) \/ RefuseBallot(c)
  PROVE  Kept
<1>1. \A p \in {"powers", "prepared", "gaveUp", "counted", "notCounted"} :
         p \notin VaultPlaces /\ p # "idle"
  BY VotingPlacesAre DEF VotingPlaces
<1>2. CASE GetAllBoxNames(c)
  BY <1>1, <1>2, VoterEnds DEF GetAllBoxNames, Go
<1>3. CASE FetchRewardsState(c)
  BY <1>1, <1>3, VoterEnds DEF FetchRewardsState, Go
<1>4. CASE \E failed \in BOOLEAN : GenerateCastVote(c, failed)
  <2>1. PICK failed \in BOOLEAN : GenerateCastVote(c, failed)
    BY <1>4
  <2>2. /\ UNCHANGED <<chainVars, req, seen, group, answer>>
        /\ pc' = [pc EXCEPT ![c] = "prepared"]
    BY Zenon, <2>1 DEF GenerateCastVote, Prepares, Go
  <2> QED
    BY <1>1, <2>2, VoterEnds
<1>5. CASE GenerateStakingVote(c)
  <2>1. /\ UNCHANGED <<chainVars, req, seen, group, answer>>
        /\ pc' = [pc EXCEPT ![c] = "prepared"]
    BY Zenon, <1>5 DEF GenerateStakingVote, Prepares, Go
  <2> QED
    BY <1>1, <2>1, VoterEnds
<1>6. CASE GenerateClaimReward(c)
  <2>1. /\ UNCHANGED <<chainVars, req, seen, group, answer>>
        /\ pc' = [pc EXCEPT ![c] = "prepared"]
    BY Zenon, <1>6 DEF GenerateClaimReward, Prepares, Go
  <2> QED
    BY <1>1, <2>1, VoterEnds
<1>7. CASE GenerateCreateProposal(c)
  <2>1. /\ UNCHANGED <<chainVars, req, seen, group, answer>>
        /\ pc' = [pc EXCEPT ![c] = "prepared"]
    BY Zenon, <1>7 DEF GenerateCreateProposal, Prepares, Go
  <2> QED
    BY <1>1, <2>1, VoterEnds
<1>8. CASE GiveUp(c)
  BY <1>1, <1>8, VoterEnds DEF GiveUp, Go
<1>9. CASE ExecuteBallot(c)
  BY <1>1, <1>9, VoterEnds DEF ExecuteBallot
<1>10. CASE RefuseBallot(c)
  BY <1>1, <1>10, VoterEnds DEF RefuseBallot
<1> QED
  BY <1>2, <1>3, <1>4, <1>5, <1>6, <1>7, <1>8, <1>9, <1>10
-----------------------------------------------------------------------------
(* What a call that votes has read, and the group it prepares.              *)

\* What a call read of its account's history: once it has read all, and unless the
\* read of the account failed, all of what there was at a time.
HistorySeen(s, since, acc) ==
  /\ ReadBy(s.read, s.boxes, acc.powers, CountSeen(s))
  /\ s.failed \/ \A i \in CountSeen(s) + 1 .. Len(acc.powers) : acc.powers[i].timestamp >= since

\* The k-th time power counts at.
TimeOf(b, props, k) ==
  IF b.op = "claim" THEN FirstPeriod + (b.from + k - 1) * WEEK ELSE props[b.id].created

\* For a time before since, the row chosen is the last by then, or the first one.
Chosen(b, props, since, acc) ==
  \A k \in DOMAIN b.indexes :
    TimeOf(b, props, k) < since =>
      \E m \in Nat :
        /\ MadeBy(acc.powers, TimeOf(b, props, k), m)
        /\ \/ b.indexes[k] = m - 1
           \/ b.op = "claim" /\ m = 0 /\ b.indexes[k] = 0

\* The group prepared for a request.
IsBallot(c, r, b, names, props) ==
  \/ r.op = "vote"
     /\ \E i \in Nat : b = CastVote(Owner[c], r.id, props[r.id], i, names)
  \/ r.op = "stake"
     /\ \E i \in Nat : b = StakingVote(Owner[c], r, props[r.id], i, names)
  \/ /\ r.op = "claim"
     /\ \E indexes \in [1 .. r.count + 1 -> Nat] : b = ClaimReward(Owner[c], r, indexes, names)
     /\ Cardinality(b.boxes) < 11
  \/ r.op = "propose" /\ \E n : b = CreateProposal(Owner[c], r.id, n)

ProposalSeen(r, f, props) == r.id \in DOMAIN props /\ f.proposal = {props[r.id]}

IsFacts(f, h, at) ==
  /\ f = [proposal |-> f.proposal, at |-> f.at, names |-> f.names]
  /\ f.at \in Nat /\ f.at <= at /\ f.names \subseteq h

\* What is true of a call that votes: p is where it is, r what was asked, s what
\* it saw, f what it read besides, b its group, acc its account.
VoteIs(c, p, r, s, f, b, acc, props) ==
  /\ p \in VotingPlaces => r \in Ballots[c]
  /\ p = "proposal" => s = Unread
  /\ p = "voter" => r.op \in {"stake", "claim"}
  /\ p = "powers" => r.op \in {"vote", "stake", "claim"}
  /\ p = "vault" => r.op = "propose"
  /\ p = "proposal" => r.op \in {"vote", "stake"}
  /\ p \in VotingPlaces /\ r.op \in {"vote", "stake"} => ProposalSeen(r, f, props)
  /\ p \in {"voter", "powers"} => HistorySeen(s, f.at, acc)
  /\ p = "prepared" => /\ IsBallot(c, r, b, f.names, props)
                       /\ ~s.failed => Chosen(b, props, f.at, acc)

IsProposal(p) == p.created \in Nat /\ p.index \in Nat

ContractsAre(props, per, mk, h, sur) ==
  /\ IsFiniteSet(DOMAIN props) /\ \A id \in DOMAIN props : IsProposal(props[id])
  /\ per \in 0 .. MaxPeriods
  /\ \A m \in mk : m[1] \in Apps /\ m[2] \in Users /\ m[3] \in Nat
  /\ \A id : ProposalBox(id) \in h => id \in DOMAIN props
  /\ sur \in [Apps -> Nat]

\* Proposals only come to be.
MoreProposals(p, q) == \A id \in DOMAIN p : id \in DOMAIN q /\ q[id] = p[id]

LEMMA MadeByLater ==
  ASSUME NEW at \in Nat, NEW p \in Seq(Rows), NEW q \in Seq(Rows), AddedAt(p, q, at),
         NEW t \in Int, t < at, NEW m \in Nat, MadeBy(p, t, m)
  PROVE  MadeBy(q, t, m)
<1>1. Len(p) \in Nat /\ Len(q) \in Nat /\ Len(p) <= Len(q) /\ \A i \in 1 .. Len(p) : q[i] = p[i]
  BY DEF AddedAt, Prefix
<1>2. \A i \in Len(p) + 1 .. Len(q) : q[i].timestamp = at
  BY DEF AddedAt
<1>3. m <= Len(p) /\ (\A i \in 1 .. m : p[i].timestamp <= t)
      /\ (\A i \in m + 1 .. Len(p) : p[i].timestamp > t)
  BY DEF MadeBy
<1>4. \A i \in 1 .. m : i \in 1 .. Len(p)
  BY <1>1, <1>3
<1>5. \A i \in 1 .. m : q[i].timestamp <= t
  BY Zenon, <1>1, <1>3, <1>4
<1>6. \A i \in m + 1 .. Len(q) : \/ i \in Len(p) + 1 .. Len(q)
                                 \/ i \in m + 1 .. Len(p) /\ i \in 1 .. Len(p)
  BY <1>1, <1>3
<1>7. at > t
  OBVIOUS
<1>8. \A i \in m + 1 .. Len(q) : q[i].timestamp > t
  BY Zenon, <1>1, <1>2, <1>3, <1>6, <1>7
<1>9. m \in 0 .. Len(q)
  BY <1>1, <1>3
<1> QED
  BY Zenon, <1>5, <1>8, <1>9 DEF MadeBy

LEMMA HistoryLater ==
  ASSUME NEW at \in Nat, NEW at2 \in Nat, NEW acc, NEW acc2, IsAccount(acc, at), IsAccount(acc2, at2),
         Further(acc, acc2, at), NEW s, NEW since \in Nat, since <= at, HistorySeen(s, since, acc)
  PROVE  HistorySeen(s, since, acc2)
<1> DEFINE p == acc.powers
           q == acc2.powers
           n == CountSeen(s)
<1>1. p \in Seq(Rows) /\ q \in Seq(Rows) /\ AddedAt(p, q, at)
  BY DEF IsAccount, Further
<1>2. Prefix(p, q)
  BY <1>1 DEF AddedAt
<1>3. /\ ReadBy(s.read, s.boxes, p, n)
      /\ s.failed \/ \A i \in n + 1 .. Len(p) : p[i].timestamp >= since
  BY DEF HistorySeen
<1> HIDE DEF p, q, n
<1>4. ReadBy(s.read, s.boxes, q, n)
  BY <1>1, <1>2, <1>3, ReadLater
<1>5. n \in Nat /\ Len(p) \in Nat /\ Len(q) \in Nat /\ n <= Len(p)
      /\ \A i \in 1 .. Len(p) : q[i] = p[i]
  BY <1>1, <1>2, <1>3 DEF ReadBy, Prefix
<1>6. \A i \in Len(p) + 1 .. Len(q) : q[i].timestamp = at
  BY <1>1 DEF AddedAt
<1>7. \A i \in n + 1 .. Len(q) : \/ i \in Len(p) + 1 .. Len(q)
                                 \/ i \in n + 1 .. Len(p) /\ i \in 1 .. Len(p)
  BY <1>5
<1>8. at >= since
  OBVIOUS
<1>9. s.failed \/ \A i \in n + 1 .. Len(q) : q[i].timestamp >= since
  BY Zenon, <1>3, <1>5, <1>6, <1>7, <1>8
<1> QED
  BY <1>4, <1>9 DEF HistorySeen, q, n

\* A time is a number.
LEMMA TimeOfType ==
  ASSUME NEW c \in Calls, NEW r \in Ballots[c], NEW b, NEW names, NEW props,
         r.op \in {"vote", "stake"} => r.id \in DOMAIN props /\ IsProposal(props[r.id]),
         IsBallot(c, r, b, names, props), NEW k \in DOMAIN b.indexes
  PROVE  TimeOf(b, props, k) \in Int
<1>1. CASE r.op = "vote"
  <2>1. PICK i \in Nat : b = CastVote(Owner[c], r.id, props[r.id], i, names)
    BY <1>1 DEF IsBallot
  <2>2. b.op = "vote" /\ b.id = r.id
    BY <2>1 DEF CastVote
  <2> QED
    BY <1>1, <2>2 DEF TimeOf, IsProposal
<1>2. CASE r.op = "stake"
  <2>1. PICK i \in Nat : b = StakingVote(Owner[c], r, props[r.id], i, names)
    BY <1>2 DEF IsBallot
  <2>2. b.op = "stake" /\ b.id = r.id
    BY <2>1 DEF StakingVote
  <2> QED
    BY <1>2, <2>2 DEF TimeOf, IsProposal
<1>3. CASE r.op = "claim"
  <2>1. PICK indexes \in [1 .. r.count + 1 -> Nat] : b = ClaimReward(Owner[c], r, indexes, names)
    BY <1>3 DEF IsBallot
  <2>2. b.op = "claim" /\ b.from = r.from /\ b.indexes = indexes
    BY <2>1 DEF ClaimReward
  <2>3. r.from \in Nat /\ r.count \in Nat
    BY <1>3, BallotAssumption
  <2>4. k \in 1 .. r.count + 1
    BY <2>2
  <2>5. FirstPeriod \in Nat /\ WEEK \in Nat /\ r.from + k - 1 \in Int
    BY <2>3, <2>4, VotingAssumption, WeekIs
  <2>6. (r.from + k - 1) * WEEK \in Int
    BY <2>5
  <2> QED
    BY <2>2, <2>5, <2>6 DEF TimeOf
<1>4. CASE r.op = "propose"
  <2>1. PICK n : b = CreateProposal(Owner[c], r.id, n)
    BY <1>4 DEF IsBallot
  <2>2. b.indexes = <<>>
    BY <2>1 DEF CreateProposal
  <2> QED
    BY <2>2
<1>5. r.op \in {"vote", "stake", "claim", "propose"}
  BY BallotAssumption
<1> QED
  BY <1>1, <1>2, <1>3, <1>4, <1>5

\* The proposal a group is for, if any, stays as it is.
LEMMA BallotLater ==
  ASSUME NEW c \in Calls, NEW r \in Ballots[c], NEW b, NEW f, NEW props, NEW props2,
         r.op \in {"vote", "stake"} => ProposalSeen(r, f, props), MoreProposals(props, props2),
         IsBallot(c, r, b, f.names, props)
  PROVE  /\ IsBallot(c, r, b, f.names, props2)
         /\ \A k \in DOMAIN b.indexes : TimeOf(b, props2, k) = TimeOf(b, props, k)
<1>1. r.op \in {"vote", "stake"} => props2[r.id] = props[r.id]
  BY DEF ProposalSeen, MoreProposals
<1>2. CASE r.op = "vote"
  <2>1. PICK i \in Nat : b = CastVote(Owner[c], r.id, props[r.id], i, f.names)
    BY <1>2 DEF IsBallot
  <2>2. b.op = "vote" /\ b.id = r.id
    BY <2>1 DEF CastVote
  <2>3. props2[r.id] = props[r.id]
    BY <1>1, <1>2
  <2>4. b = CastVote(Owner[c], r.id, props2[r.id], i, f.names)
    BY Zenon, <2>1, <2>3
  <2>5. \A k : TimeOf(b, props2, k) = TimeOf(b, props, k)
    BY <2>2, <2>3 DEF TimeOf
  <2> QED
    BY Zenon, <1>2, <2>4, <2>5 DEF IsBallot
<1>3. CASE r.op = "stake"
  <2>1. PICK i \in Nat : b = StakingVote(Owner[c], r, props[r.id], i, f.names)
    BY <1>3 DEF IsBallot
  <2>2. b.op = "stake" /\ b.id = r.id
    BY <2>1 DEF StakingVote
  <2>3. props2[r.id] = props[r.id]
    BY <1>1, <1>3
  <2>4. b = StakingVote(Owner[c], r, props2[r.id], i, f.names)
    BY Zenon, <2>1, <2>3
  <2>5. \A k : TimeOf(b, props2, k) = TimeOf(b, props, k)
    BY <2>2, <2>3 DEF TimeOf
  <2> QED
    BY Zenon, <1>3, <2>4, <2>5 DEF IsBallot
<1>4. CASE r.op = "claim"
  <2>1. PICK indexes \in [1 .. r.count + 1 -> Nat] : b = ClaimReward(Owner[c], r, indexes, f.names)
    BY <1>4 DEF IsBallot
  <2>2. b.op = "claim"
    BY <2>1 DEF ClaimReward
  <2>3. \A k : TimeOf(b, props2, k) = TimeOf(b, props, k)
    BY <2>2 DEF TimeOf
  <2>4. IsBallot(c, r, b, f.names, props2)
    BY <1>4 DEF IsBallot
  <2> QED
    BY <2>3, <2>4
<1>5. CASE r.op = "propose"
  <2>1. PICK n : b = CreateProposal(Owner[c], r.id, n)
    BY <1>5 DEF IsBallot
  <2>2. b.indexes = <<>>
    BY <2>1 DEF CreateProposal
  <2>3. IsBallot(c, r, b, f.names, props2)
    BY <1>5 DEF IsBallot
  <2> QED
    BY <2>2, <2>3
<1>6. r.op \in {"vote", "stake", "claim", "propose"}
  BY BallotAssumption
<1> QED
  BY <1>2, <1>3, <1>4, <1>5, <1>6

LEMMA ChosenLater ==
  ASSUME NEW at \in Nat, NEW acc, NEW acc2, acc.powers \in Seq(Rows), acc2.powers \in Seq(Rows),
         AddedAt(acc.powers, acc2.powers, at), NEW since \in Nat, since <= at,
         NEW b, NEW props, NEW props2,
         \A k \in DOMAIN b.indexes :
           TimeOf(b, props2, k) = TimeOf(b, props, k) /\ TimeOf(b, props, k) \in Int,
         Chosen(b, props, since, acc)
  PROVE  Chosen(b, props2, since, acc2)
<1> SUFFICES ASSUME NEW k \in DOMAIN b.indexes, TimeOf(b, props2, k) < since
             PROVE  \E m \in Nat :
                      /\ MadeBy(acc2.powers, TimeOf(b, props2, k), m)
                      /\ \/ b.indexes[k] = m - 1
                         \/ b.op = "claim" /\ m = 0 /\ b.indexes[k] = 0
  BY Zenon DEF Chosen
<1> DEFINE t == TimeOf(b, props, k)
<1>1. TimeOf(b, props2, k) = t /\ t \in Int
  OBVIOUS
<1> HIDE DEF t
<1>2. t < since /\ t < at
  BY <1>1
<1>3. PICK m \in Nat :
        /\ MadeBy(acc.powers, t, m)
        /\ \/ b.indexes[k] = m - 1
           \/ b.op = "claim" /\ m = 0 /\ b.indexes[k] = 0
  BY Zenon, <1>2 DEF Chosen, t
<1>4. MadeBy(acc2.powers, t, m)
  BY <1>1, <1>2, <1>3, MadeByLater
<1> QED
  BY Zenon, <1>1, <1>3, <1>4

LEMMA VoteLater ==
  ASSUME NEW at \in Nat, NEW at2 \in Nat, NEW acc, NEW acc2, IsAccount(acc, at), IsAccount(acc2, at2),
         Further(acc, acc2, at), NEW props, NEW props2, MoreProposals(props, props2),
         \A id \in DOMAIN props : IsProposal(props[id]),
         NEW c \in Calls, NEW p, NEW r, NEW s, NEW f, NEW b, NEW h, IsFacts(f, h, at),
         VoteIs(c, p, r, s, f, b, acc, props)
  PROVE  VoteIs(c, p, r, s, f, b, acc2, props2)
<1>1. f.at \in Nat /\ f.at <= at
  BY DEF IsFacts
<1>2. ProposalSeen(r, f, props) => ProposalSeen(r, f, props2)
  BY DEF ProposalSeen, MoreProposals
<1>3. HistorySeen(s, f.at, acc) => HistorySeen(s, f.at, acc2)
  BY <1>1, HistoryLater
<1>4. ASSUME p = "prepared"
      PROVE  IsBallot(c, r, b, f.names, props2) /\ (~s.failed => Chosen(b, props2, f.at, acc2))
  <2>1. /\ r \in Ballots[c] /\ (r.op \in {"vote", "stake"} => ProposalSeen(r, f, props))
        /\ IsBallot(c, r, b, f.names, props)
        /\ ~s.failed => Chosen(b, props, f.at, acc)
    <3>1. p \in VotingPlaces
      BY <1>4 DEF VotingPlaces
    <3>2. r \in Ballots[c]
      BY Zenon, <3>1 DEF VoteIs
    <3>3. r.op \in {"vote", "stake"} => ProposalSeen(r, f, props)
      BY Zenon, <3>1 DEF VoteIs
    <3>4. IsBallot(c, r, b, f.names, props) /\ (~s.failed => Chosen(b, props, f.at, acc))
      BY Zenon, <1>4 DEF VoteIs
    <3> QED
      BY <3>2, <3>3, <3>4
  <2>2. /\ IsBallot(c, r, b, f.names, props2)
        /\ \A k \in DOMAIN b.indexes : TimeOf(b, props2, k) = TimeOf(b, props, k)
    BY Z3, <2>1, BallotLater
  <2>3. r.op \in {"vote", "stake"} => r.id \in DOMAIN props /\ IsProposal(props[r.id])
    BY <2>1 DEF ProposalSeen
  <2>4. \A k \in DOMAIN b.indexes : TimeOf(b, props, k) \in Int
    BY <2>1, <2>3, TimeOfType
  <2>5. acc.powers \in Seq(Rows) /\ acc2.powers \in Seq(Rows) /\ AddedAt(acc.powers, acc2.powers, at)
    BY DEF IsAccount, Further
  <2>6. Chosen(b, props, f.at, acc) => Chosen(b, props2, f.at, acc2)
    BY <1>1, <2>2, <2>4, <2>5, ChosenLater
  <2> QED
    BY <2>1, <2>2, <2>6
<1> QED
  BY Zenon, <1>2, <1>3, <1>4 DEF VoteIs

-----------------------------------------------------------------------------
(* The invariant of the votes.                                              *)

VoteOK(c) ==
  /\ IsFacts(facts[c], held, now)
  /\ VoteIs(c, pc[c], req[c], seen[c], facts[c], ballot[c], account[Owner[c]], proposals)

ContractsOK == ContractsAre(proposals, periods, marks, held, surplus)

WInv ==
  /\ VInv /\ OfCalls(facts) /\ OfCalls(ballot) /\ ContractsOK
  /\ \A c \in Calls : VoteOK(c)

\* The contracts' states only grow.
ContractsGrow == MoreProposals(proposals, proposals') /\ held \subseteq held'

SameVote(c) == SameCall(c) /\ facts'[c] = facts[c] /\ ballot'[c] = ballot[c]

LEMMA SameVoteKept ==
  ASSUME WInv, VInv', Grows, ContractsGrow, NEW c \in Calls, SameVote(c)
  PROVE  VoteOK(c)'
<1> DEFINE u == Owner[c]
<1>1. u \in Users /\ VoteOK(c) /\ VInv
  BY OwnerIsUser DEF WInv
<1>2. /\ now \in Nat /\ now' \in Nat /\ now <= now' /\ IsAccount(account[u], now)
      /\ IsAccount(account'[u], now') /\ Further(account[u], account'[u], now)
  BY <1>1 DEF VInv, ChainOK, ChainIs, Grows
<1>3. \A id \in DOMAIN proposals : IsProposal(proposals[id])
  BY DEF WInv, ContractsOK, ContractsAre
<1>4. IsFacts(facts[c], held, now)
  BY Zenon, <1>1 DEF VoteOK
<1>5. VoteIs(c, pc[c], req[c], seen[c], facts[c], ballot[c], account[u], proposals)
  BY Zenon, <1>1 DEF VoteOK
<1>6. MoreProposals(proposals, proposals')
  BY DEF ContractsGrow
<1>7. VoteIs(c, pc[c], req[c], seen[c], facts[c], ballot[c], account'[u], proposals')
  BY <1>2, <1>3, <1>4, <1>5, <1>6, VoteLater
<1>8. IsFacts(facts[c], held', now')
  <2>1. facts[c].at \in Nat /\ facts[c].at <= now'
    BY <1>2, <1>4 DEF IsFacts
  <2>2. facts[c].names \subseteq held'
    BY <1>4 DEF IsFacts, ContractsGrow
  <2> QED
    BY <1>4, <2>1, <2>2 DEF IsFacts
<1> QED
  BY Zenon, <1>7, <1>8 DEF VoteOK, SameVote, SameCall

\* A call that does not vote.
LEMMA NoVote ==
  ASSUME NEW c, NEW p, p \notin VotingPlaces, NEW r, NEW s, NEW f, NEW b, NEW acc, NEW props
  PROVE  VoteIs(c, p, r, s, f, b, acc, props)
<1>1. p \notin {"proposal", "voter", "powers", "vault", "prepared"}
  BY DEF VotingPlaces
<1> QED
  BY <1>1 DEF VoteIs, VotingPlaces

LEMMA FactsLater ==
  ASSUME WInv, Grows, now' \in Nat, ContractsGrow, NEW c \in Calls, facts'[c] = facts[c]
  PROVE  IsFacts(facts'[c], held', now')
<1>1. IsFacts(facts[c], held, now) /\ now \in Nat
  BY Zenon, CallShapes DEF WInv, VoteOK
<1>2. facts[c].at \in Nat /\ facts[c].at <= now'
  BY <1>1 DEF IsFacts, Grows
<1>3. facts[c].names \subseteq held'
  BY <1>1 DEF IsFacts, ContractsGrow
<1>4. IsFacts(facts[c], held', now')
  BY <1>1, <1>2, <1>3 DEF IsFacts
<1> QED
  BY <1>4

LEMMA SameContractsGrow ==
  ASSUME proposals' = proposals, held \subseteq held'
  PROVE  ContractsGrow
  BY DEF ContractsGrow, MoreProposals

LEMMA VaultStepVotes ==
  ASSUME WInv, Next, UNCHANGED votingVars
  PROVE  WInv'
<1>1. VInv /\ Domains /\ VInv' /\ Grows
  BY VInvKept, DomainsAre DEF WInv, Kept
<1>2. /\ proposals' = proposals /\ periods' = periods /\ marks' = marks /\ held' = held
      /\ surplus' = surplus /\ facts' = facts /\ ballot' = ballot
  BY DEF votingVars, contracts
<1>3. OfCalls(facts)' /\ OfCalls(ballot)' /\ ContractsOK'
  BY Zenon, <1>2 DEF WInv, OfCalls, ContractsOK
<1>4. ContractsGrow
  BY <1>2, SameContractsGrow
<1>5. ASSUME NEW c \in Calls PROVE VoteOK(c)'
  <2>1. Aside(c)
    BY <1>1, VaultAside
  <2>2. facts'[c] = facts[c] /\ ballot'[c] = ballot[c]
    BY <1>2
  <2>3. CASE SameCall(c)
    <3>1. SameVote(c)
      BY Zenon, <2>2, <2>3 DEF SameVote
    <3> QED
      BY <1>1, <1>4, <3>1, SameVoteKept
  <2>4. CASE pc'[c] \notin VotingPlaces
    <3>1. now' \in Nat
      BY <1>1 DEF VInv, ChainOK, ChainIs
    <3>2. IsFacts(facts'[c], held', now')
      BY <1>1, <1>4, <2>2, <3>1, FactsLater
    <3>3. VoteIs(c, pc'[c], req'[c], seen'[c], facts'[c], ballot'[c], account'[Owner[c]], proposals')
      BY <2>4, NoVote
    <3> QED
      BY Zenon, <3>2, <3>3 DEF VoteOK
  <2> QED
    BY <2>1, <2>3, <2>4 DEF Aside
<1> QED
  BY Zenon, <1>1, <1>3, <1>5 DEF WInv
-----------------------------------------------------------------------------
(* One call that votes at a time.                                           *)

\* One call that votes goes on.
Votes(c, p, r, s, f, b) ==
  /\ But(pc, pc', c, p) /\ But(req, req', c, r) /\ But(seen, seen', c, s)
  /\ But(facts, facts', c, f) /\ But(ballot, ballot', c, b)
  /\ UNCHANGED <<group, answer>>

VoteIsHere(c, p, r, s, f, b) ==
  VoteIs(c, p, r, s, f, b, account[Owner[c]], proposals) /\ IsFacts(f, held, now)

LEMMA VoteChanges ==
  ASSUME WInv, Kept, SameChain, ContractsOK', ContractsGrow,
         NEW c \in Calls, NEW p, NEW r, NEW s, NEW f, NEW b, Votes(c, p, r, s, f, b),
         VoteIs(c, p, r, s, f, b, account[Owner[c]], proposals'), IsFacts(f, held', now)
  PROVE  WInv'
<1>1. OfCalls(facts)' /\ OfCalls(ballot)'
  BY DEF Votes, But, OfCalls
<1>2. now' = now /\ account' = account
  BY DEF SameChain
<1>3. VoteOK(c)'
  BY Zenon, <1>2 DEF VoteOK, Votes, But
<1>4. group' = group /\ answer' = answer
  BY DEF Votes
<1>5. ASSUME NEW d \in Calls, d # c PROVE VoteOK(d)'
  <2>1. SameVote(d)
    BY Zenon, <1>4, <1>5 DEF SameVote, SameCall, Votes, But
  <2> QED
    BY <2>1, SameVoteKept DEF Kept
<1>6. \A d \in Calls : VoteOK(d)'
  BY Zenon, <1>3, <1>5
<1> QED
  BY Zenon, <1>1, <1>6 DEF WInv, Kept

LEMMA VoteMoves ==
  ASSUME WInv, Kept, SameChain, UNCHANGED contracts,
         NEW c \in Calls, NEW p, NEW r, NEW s, NEW f, NEW b, Votes(c, p, r, s, f, b),
         VoteIsHere(c, p, r, s, f, b)
  PROVE  WInv'
<1>1. /\ proposals' = proposals /\ periods' = periods /\ marks' = marks /\ held' = held
      /\ surplus' = surplus
  BY DEF contracts
<1>2. ContractsOK'
  BY Zenon, <1>1 DEF WInv, ContractsOK
<1>3. ContractsGrow
  BY <1>1, SameContractsGrow
<1>4. VoteIs(c, p, r, s, f, b, account[Owner[c]], proposals') /\ IsFacts(f, held', now)
  BY Zenon, <1>1 DEF VoteIsHere
<1> QED
  BY <1>2, <1>3, <1>4, VoteChanges

LEMMA FactsSteps ==
  ASSUME OfCalls(facts), NEW c \in Calls, NEW h, NEW n, IsFacts(facts[c], h, n), NEW x
  PROVE  /\ facts' = [facts EXCEPT ![c].proposal = x]
              => But(facts, facts', c,
                   [proposal |-> x, at |-> facts[c].at, names |-> facts[c].names])
         /\ facts' = [facts EXCEPT ![c].at = x]
              => But(facts, facts', c,
                   [proposal |-> facts[c].proposal, at |-> x, names |-> facts[c].names])
         /\ facts' = [facts EXCEPT ![c].names = x]
              => But(facts, facts', c,
                   [proposal |-> facts[c].proposal, at |-> facts[c].at, names |-> x])
<1> DEFINE f == facts[c]
<1>1. f = [proposal |-> f.proposal, at |-> f.at, names |-> f.names]
  BY DEF IsFacts
<1>2. ASSUME facts' = [facts EXCEPT ![c].proposal = x]
      PROVE  But(facts, facts', c, [proposal |-> x, at |-> f.at, names |-> f.names])
  <2>1. facts' = [facts EXCEPT ![c] = [f EXCEPT !.proposal = x]]
    BY <1>2
  <2>2. [f EXCEPT !.proposal = x] = [proposal |-> x, at |-> f.at, names |-> f.names]
    BY <1>1
  <2> QED
    BY <2>1, <2>2, Excepted
<1>3. ASSUME facts' = [facts EXCEPT ![c].at = x]
      PROVE  But(facts, facts', c, [proposal |-> f.proposal, at |-> x, names |-> f.names])
  <2>1. facts' = [facts EXCEPT ![c] = [f EXCEPT !.at = x]]
    BY <1>3
  <2>2. [f EXCEPT !.at = x] = [proposal |-> f.proposal, at |-> x, names |-> f.names]
    BY <1>1
  <2> QED
    BY <2>1, <2>2, Excepted
<1>4. ASSUME facts' = [facts EXCEPT ![c].names = x]
      PROVE  But(facts, facts', c, [proposal |-> f.proposal, at |-> f.at, names |-> x])
  <2>1. facts' = [facts EXCEPT ![c] = [f EXCEPT !.names = x]]
    BY <1>4
  <2>2. [f EXCEPT !.names = x] = [proposal |-> f.proposal, at |-> f.at, names |-> x]
    BY <1>1
  <2> QED
    BY <2>1, <2>2, Excepted
<1> QED
  BY <1>2, <1>3, <1>4

\* What is known of one call.
LEMMA VoteNow ==
  ASSUME WInv, NEW c \in Calls
  PROVE  /\ VInv /\ OfCalls(pc) /\ OfCalls(req) /\ OfCalls(seen) /\ OfCalls(facts) /\ OfCalls(ballot)
         /\ now \in Nat /\ IsAccount(account[Owner[c]], now)
         /\ IsSeen(seen[c]) /\ (pc[c] = "idle" => seen[c] = Unread)
         /\ VoteIsHere(c, pc[c], req[c], seen[c], facts[c], ballot[c])
         /\ \A id \in DOMAIN proposals : IsProposal(proposals[id])
<1>1. VInv /\ OfCalls(facts) /\ OfCalls(ballot) /\ VoteOK(c) /\ ContractsOK
  BY DEF WInv
<1>2. /\ OfCalls(pc) /\ OfCalls(req) /\ OfCalls(seen) /\ now \in Nat
      /\ CallIsHere(c, pc[c], req[c], seen[c], group[c], answer[c])
  BY <1>1, CallShapes
<1>3. IsSeen(seen[c]) /\ (pc[c] = "idle" => seen[c] = Unread)
  BY Zenon, <1>2 DEF CallIsHere, CallIs
<1>4. IsAccount(account[Owner[c]], now)
  BY <1>1, ChainNow, OwnerIsUser
<1>5. VoteIsHere(c, pc[c], req[c], seen[c], facts[c], ballot[c])
  BY Zenon, <1>1 DEF VoteOK, VoteIsHere
<1>6. \A id \in DOMAIN proposals : IsProposal(proposals[id])
  BY <1>1 DEF ContractsOK, ContractsAre
<1> QED
  BY <1>1, <1>2, <1>3, <1>4, <1>5, <1>6

\* The last row by a time before all was read is found in what was read.
LEMMA RowFound ==
  ASSUME NEW at \in Nat, NEW acc, IsAccount(acc, at), NEW s, NEW since \in Nat,
         HistorySeen(s, since, acc), s.boxes = BoxCount(CountSeen(s)), NEW t \in Int
  PROVE  /\ getPowerIndexAt(s.read, t) \in Nat
         /\ ~s.failed /\ t < since => MadeBy(acc.powers, t, getPowerIndexAt(s.read, t))
<1> DEFINE q == acc.powers
           p == s.read
           n == CountSeen(s)
           m == getPowerIndexAt(s.read, t)
<1>1. q \in Seq(Rows) /\ InOrder(q, at)
  BY DEF IsAccount
<1>2. /\ n \in Nat /\ n <= Len(q) /\ p \in Seq(Rows) /\ Prefix(p, q) /\ n <= Len(p)
      /\ s.failed \/ \A i \in n + 1 .. Len(q) : q[i].timestamp >= since
  BY DEF HistorySeen, ReadBy
<1> HIDE DEF q, n
<1>3. Timed(q)
  BY <1>1, TimedRows
<1>4. Timed(p)
  BY <1>2, <1>3, TimedPrefix
<1>5. MadeBy(p, t, m)
  BY <1>4, IndexIs
<1> HIDE DEF m, p
<1>6. /\ m \in 0 .. Len(p) /\ Len(p) \in Nat /\ Len(q) \in Nat /\ Len(p) <= Len(q)
      /\ \A i \in 1 .. Len(p) : q[i] = p[i]
  BY <1>2, <1>3, <1>4, <1>5 DEF MadeBy, Prefix, Timed
<1> SUFFICES ASSUME ~s.failed, t < since PROVE MadeBy(q, t, m)
  BY <1>6 DEF m, q
<1>7. /\ \A i \in 1 .. m : p[i].timestamp <= t
      /\ \A i \in m + 1 .. Len(p) : p[i].timestamp > t
  BY <1>5 DEF MadeBy
<1>8. \A i \in 1 .. m : i \in 1 .. Len(p)
  BY <1>6
<1>9. \A i \in 1 .. m : q[i].timestamp <= t
  BY Zenon, <1>6, <1>7, <1>8
<1>10. \A i \in m + 1 .. Len(q) : \/ i \in m + 1 .. Len(p) /\ i \in 1 .. Len(p)
                                  \/ i \in n + 1 .. Len(q) /\ i \in 1 .. Len(q)
  BY <1>2, <1>6
<1>11. \A i \in n + 1 .. Len(q) : i \in 1 .. Len(q) => q[i].timestamp > t
  <2> TAKE i \in n + 1 .. Len(q)
  <2> HAVE i \in 1 .. Len(q)
  <2>1. q[i].timestamp >= since /\ q[i].timestamp \in Nat
    BY <1>2, <1>3 DEF Timed
  <2> QED
    BY <2>1
<1>12. \A i \in m + 1 .. Len(q) : q[i].timestamp > t
  BY Zenon, <1>6, <1>7, <1>10, <1>11
<1>13. m \in 0 .. Len(q)
  BY <1>6
<1> QED
  BY Zenon, <1>9, <1>12, <1>13 DEF MadeBy

LEMMA ProposalVotes ==
  ASSUME WInv, NEW c \in Calls, NEW r \in Ballots[c], FetchProposal(c, r)
  PROVE  WInv'
<1> DEFINE x == {proposals[r.id]}
           f == [proposal |-> x, at |-> facts[c].at, names |-> facts[c].names]
<1>1. /\ pc[c] = "idle" /\ r.op \in {"vote", "stake"} /\ r.id \in DOMAIN proposals
      /\ req' = [req EXCEPT ![c] = r] /\ pc' = [pc EXCEPT ![c] = "proposal"]
      /\ facts' = [facts EXCEPT ![c].proposal = x]
      /\ UNCHANGED contracts /\ UNCHANGED <<seen, group, answer, ballot>> /\ SameChain
  BY DEF FetchProposal, Go, chainVars, SameChain
<1>2. /\ VInv /\ OfCalls(pc) /\ OfCalls(req) /\ OfCalls(seen) /\ OfCalls(facts) /\ OfCalls(ballot)
      /\ VoteIsHere(c, pc[c], req[c], seen[c], facts[c], ballot[c]) /\ seen[c] = Unread
  BY <1>1, VoteNow
<1>3. Kept
  BY <1>2, FetchProposalStep
<1>4. IsFacts(facts[c], held, now)
  BY Zenon, <1>2 DEF VoteIsHere
<1> HIDE DEF x
<1>5. But(facts, facts', c, f)
  BY <1>1, <1>2, <1>4, FactsSteps
<1>6. f.proposal = x /\ IsFacts(f, held, now)
  BY <1>4 DEF IsFacts
<1> HIDE DEF f
<1>7. But(pc, pc', c, "proposal") /\ But(req, req', c, r)
  BY <1>1, <1>2, Excepted
<1>8. But(seen, seen, c, seen[c]) /\ But(ballot, ballot, c, ballot[c])
  BY <1>2, SameBut
<1>9. seen' = seen /\ ballot' = ballot /\ group' = group /\ answer' = answer
  BY <1>1
<1>10. Votes(c, "proposal", r, seen[c], f, ballot[c])
  BY Zenon, <1>5, <1>7, <1>8, <1>9 DEF Votes
<1>11. ProposalSeen(r, f, proposals)
  BY Zenon, <1>1, <1>6 DEF ProposalSeen, x
<1>12. "proposal" \notin {"voter", "powers", "vault", "prepared"}
  OBVIOUS
<1>13. VoteIsHere(c, "proposal", r, seen[c], f, ballot[c])
  BY <1>1, <1>2, <1>6, <1>11, <1>12 DEF VoteIs, VoteIsHere
<1> QED
  BY <1>1, <1>3, <1>10, <1>13, VoteMoves

\* All the rows there are when the state of the account is read.
LEMMA HistoryBegins ==
  ASSUME VInv, NEW u \in Users, NEW s, s.failed \in BOOLEAN, s.account = AccountRead(u, s.failed),
         s.boxes = 0, s.read = <<>>
  PROVE  HistorySeen(s, now, account[u])
<1> DEFINE n == Len(account[u].powers)
           x == AccountRead(u, s.failed)
<1>1. IsAccount(account[u], now)
  BY ChainNow
<1>2. account[u].powers \in Seq(Rows) /\ n \in Nat
  BY <1>1 DEF IsAccount
<1>3. \/ x = {} /\ (s.failed \/ n = 0)
      \/ \E e \in Nat : x = {[end |-> e, count |-> n]}
  BY AccountReadIs
<1> HIDE DEF x
<1>4. CountOf(x) \in Nat /\ CountOf(x) <= n /\ (s.failed \/ CountOf(x) = n)
  <2>1. CASE x = {} /\ (s.failed \/ n = 0)
    BY <1>2, <2>1 DEF CountOf
  <2>2. CASE \E e \in Nat : x = {[end |-> e, count |-> n]}
    <3>1. PICK e \in Nat : x = {[end |-> e, count |-> n]}
      BY <2>2
    <3> DEFINE y == [end |-> e, count |-> n]
    <3>2. y.count = n
      OBVIOUS
    <3> HIDE DEF y
    <3>3. x = {y} /\ x # {}
      BY <3>1 DEF y
    <3>4. (CHOOSE z \in {y} : TRUE) = y
      OBVIOUS
    <3>5. (CHOOSE z \in x : TRUE) = y
      BY Zenon, <3>3, <3>4
    <3>6. CountOf(x) = n
      BY Zenon, <3>2, <3>3, <3>5 DEF CountOf
    <3> QED
      BY <1>2, <3>6
  <2> QED
    BY <1>3, <2>1, <2>2
<1>5. CountSeen(s) = CountOf(x)
  BY Zenon DEF CountSeen, x
<1>6. ReadBy(<<>>, 0, account[u].powers, CountOf(x))
  BY <1>2, <1>4, ReadFirst
<1>7. ReadBy(s.read, s.boxes, account[u].powers, CountSeen(s))
  BY Zenon, <1>5, <1>6
<1>8. s.failed \/ \A i \in CountSeen(s) + 1 .. n : FALSE
  BY <1>2, <1>4, <1>5
<1> QED
  BY <1>7, <1>8 DEF HistorySeen

LEMMA VoterVotes ==
  ASSUME WInv, NEW c \in Calls, NEW r \in Ballots[c], NEW failed \in BOOLEAN, NEW local,
         FetchVoter(c, r, failed, local)
  PROVE  WInv'
<1> DEFINE p == IF r.op = "vote" THEN "powers" ELSE "voter"
           x == AccountRead(Owner[c], failed)
           s == [account |-> x, failed |-> failed,
                 rows |-> seen[c].rows, global |-> seen[c].global, first |-> seen[c].first,
                 boxes |-> seen[c].boxes, read |-> seen[c].read]
           f == [proposal |-> facts[c].proposal, at |-> now, names |-> facts[c].names]
<1>1. /\ \/ pc[c] = "idle" /\ r.op = "claim"
         \/ pc[c] = "proposal" /\ r = req[c]
      /\ req' = [req EXCEPT ![c] = r] /\ pc' = [pc EXCEPT ![c] = p]
      /\ facts' = [facts EXCEPT ![c].at = now]
      /\ UNCHANGED contracts /\ UNCHANGED <<group, answer, ballot>> /\ SameChain
  BY DEF FetchVoter, Go, chainVars, SameChain
<1>2. /\ VInv /\ OfCalls(pc) /\ OfCalls(req) /\ OfCalls(seen) /\ OfCalls(facts) /\ OfCalls(ballot)
      /\ now \in Nat
      /\ VoteIsHere(c, pc[c], req[c], seen[c], facts[c], ballot[c])
      /\ (pc[c] = "idle" => seen[c] = Unread)
  BY VoteNow
<1>3. /\ IsFacts(facts[c], held, now)
      /\ VoteIs(c, pc[c], req[c], seen[c], facts[c], ballot[c], account[Owner[c]], proposals)
  BY Zenon, <1>2 DEF VoteIsHere
<1>4. Kept /\ But(seen, seen', c, s)
  BY <1>2, FetchVoterStep
<1>5. seen[c] = Unread
  BY Zenon, <1>1, <1>2, <1>3 DEF VoteIs
<1>6. seen[c].boxes = 0 /\ seen[c].read = <<>>
  BY <1>5 DEF Unread
<1>7. s.account = x /\ s.failed = failed /\ s.boxes = 0 /\ s.read = <<>>
  BY <1>6
<1> HIDE DEF s
<1>8. HistorySeen(s, now, account[Owner[c]])
  <2>1. s.account = AccountRead(Owner[c], s.failed)
    BY Zenon, <1>7
  <2> QED
    BY <1>2, <1>7, <2>1, HistoryBegins, OwnerIsUser
<1>9. But(facts, facts', c, f)
  BY <1>1, <1>2, <1>3, FactsSteps
<1>10. /\ f.proposal = facts[c].proposal /\ f.at = now /\ IsFacts(f, held, now)
  BY <1>2, <1>3 DEF IsFacts
<1> HIDE DEF f
<1>11. But(pc, pc', c, p) /\ But(req, req', c, r)
  BY <1>1, <1>2, Excepted
<1>12. But(ballot, ballot, c, ballot[c])
  BY <1>2, SameBut
<1>13. ballot' = ballot /\ group' = group /\ answer' = answer
  BY <1>1
<1>14. Votes(c, p, r, s, f, ballot[c])
  BY Zenon, <1>4, <1>9, <1>11, <1>12, <1>13 DEF Votes
<1>15. r.op \in {"vote", "stake"} => ProposalSeen(r, f, proposals)
  <2> SUFFICES ASSUME r.op \in {"vote", "stake"} PROVE ProposalSeen(r, f, proposals)
    OBVIOUS
  <2>1. pc[c] = "proposal" /\ r = req[c] /\ pc[c] \in VotingPlaces
    BY <1>1 DEF VotingPlaces
  <2>2. pc[c] \in VotingPlaces /\ req[c].op \in {"vote", "stake"} => ProposalSeen(req[c], facts[c], proposals)
    BY Zenon, <1>3 DEF VoteIs
  <2>3. ProposalSeen(r, facts[c], proposals)
    BY <2>1, <2>2
  <2> QED
    BY Zenon, <1>10, <2>3 DEF ProposalSeen
<1>16. r.op \in {"vote", "stake", "claim"}
  <2>1. pc[c] = "proposal" => req[c].op \in {"vote", "stake"}
    BY Zenon, <1>3 DEF VoteIs
  <2> QED
    BY <1>1, <2>1
<1>17. VoteIs(c, p, r, s, f, ballot[c], account[Owner[c]], proposals)
  <2>1. CASE r.op = "vote"
    <3>1. p = "powers"
      BY <2>1
    <3> HIDE DEF p
    <3>2. "powers" \notin {"proposal", "voter", "vault", "prepared"}
      OBVIOUS
    <3>3. VoteIs(c, "powers", r, s, f, ballot[c], account[Owner[c]], proposals)
      BY <1>7, <1>8, <1>10, <1>15, <1>16, <3>2 DEF VoteIs
    <3> QED
      BY Zenon, <3>1, <3>3
  <2>2. CASE r.op # "vote"
    <3>1. p = "voter" /\ r.op \in {"stake", "claim"}
      BY <1>16, <2>2
    <3> HIDE DEF p
    <3>2. "voter" \notin {"proposal", "powers", "vault", "prepared"}
      OBVIOUS
    <3>3. VoteIs(c, "voter", r, s, f, ballot[c], account[Owner[c]], proposals)
      BY <1>7, <1>8, <1>10, <1>15, <3>1, <3>2 DEF VoteIs
    <3> QED
      BY Zenon, <3>1, <3>3
  <2> QED
    BY <2>1, <2>2
<1>18. VoteIsHere(c, p, r, s, f, ballot[c])
  BY Zenon, <1>10, <1>17 DEF VoteIsHere
<1> QED
  BY <1>1, <1>4, <1>14, <1>18, VoteMoves

\* A call that votes goes on with what it asked for and has read.
LEMMA VoteGoesOn ==
  ASSUME WInv, Kept, SameChain, UNCHANGED contracts, UNCHANGED <<req, seen, group, answer>>,
         NEW c \in Calls, NEW p, pc' = [pc EXCEPT ![c] = p],
         NEW f, But(facts, facts', c, f), NEW b, But(ballot, ballot', c, b),
         VoteIsHere(c, p, req[c], seen[c], f, b)
  PROVE  WInv'
<1>1. OfCalls(pc) /\ OfCalls(req) /\ OfCalls(seen)
  BY VoteNow
<1>2. But(pc, pc', c, p)
  BY <1>1, Excepted
<1>3. But(req, req, c, req[c]) /\ But(seen, seen, c, seen[c])
  BY <1>1, SameBut
<1>4. req' = req /\ seen' = seen /\ group' = group /\ answer' = answer
  OBVIOUS
<1>5. Votes(c, p, req[c], seen[c], f, b)
  BY Zenon, <1>2, <1>3, <1>4 DEF Votes
<1> QED
  BY <1>5, VoteMoves

\* Of what is true of a call that votes, what does not depend on its place.
LEMMA VotingCall ==
  ASSUME WInv, NEW c \in Calls, pc[c] \in VotingPlaces
  PROVE  /\ req[c] \in Ballots[c] /\ IsFacts(facts[c], held, now)
         /\ req[c].op \in {"vote", "stake"} => ProposalSeen(req[c], facts[c], proposals)
         /\ pc[c] \in {"voter", "powers"} => HistorySeen(seen[c], facts[c].at, account[Owner[c]])
         /\ pc[c] = "voter" => req[c].op \in {"stake", "claim"}
         /\ pc[c] = "powers" => req[c].op \in {"vote", "stake", "claim"}
         /\ pc[c] = "vault" => req[c].op = "propose"
<1>1. /\ VoteIs(c, pc[c], req[c], seen[c], facts[c], ballot[c], account[Owner[c]], proposals)
      /\ IsFacts(facts[c], held, now)
  BY Zenon DEF WInv, VoteOK
<1>2. req[c] \in Ballots[c]
  BY Zenon, <1>1 DEF VoteIs
<1>3. pc[c] \in VotingPlaces /\ req[c].op \in {"vote", "stake"} => ProposalSeen(req[c], facts[c], proposals)
  BY Zenon, <1>1 DEF VoteIs
<1>4. pc[c] \in {"voter", "powers"} => HistorySeen(seen[c], facts[c].at, account[Owner[c]])
  BY Zenon, <1>1 DEF VoteIs
<1>5. /\ pc[c] = "voter" => req[c].op \in {"stake", "claim"}
      /\ pc[c] = "powers" => req[c].op \in {"vote", "stake", "claim"}
      /\ pc[c] = "vault" => req[c].op = "propose"
  BY Zenon, <1>1 DEF VoteIs
<1> QED
  BY <1>1, <1>2, <1>3, <1>4, <1>5

\* On to reading the history.
LEMMA ToPowers ==
  ASSUME NEW c, NEW r, NEW s, NEW f, NEW b, NEW acc, NEW props,
         r \in Ballots[c], r.op \in {"vote", "stake", "claim"},
         r.op \in {"vote", "stake"} => ProposalSeen(r, f, props),
         HistorySeen(s, f.at, acc)
  PROVE  VoteIs(c, "powers", r, s, f, b, acc, props)
<1>1. "powers" \notin {"proposal", "voter", "vault", "prepared"}
  OBVIOUS
<1> QED
  BY <1>1 DEF VoteIs

LEMMA NamesVotes ==
  ASSUME WInv, NEW c \in Calls, GetAllBoxNames(c)
  PROVE  WInv'
<1> DEFINE f == [proposal |-> facts[c].proposal, at |-> facts[c].at, names |-> held]
<1>1. /\ pc[c] = "voter" /\ facts' = [facts EXCEPT ![c].names = held]
      /\ pc' = [pc EXCEPT ![c] = "powers"] /\ ballot' = ballot
      /\ UNCHANGED contracts /\ UNCHANGED <<req, seen, group, answer>> /\ SameChain
  BY DEF GetAllBoxNames, Go, chainVars, SameChain
<1>2. VInv /\ OfCalls(facts) /\ OfCalls(ballot)
  BY VoteNow
<1>3. pc[c] \in VotingPlaces
  BY <1>1 DEF VotingPlaces
<1>4. /\ req[c] \in Ballots[c] /\ req[c].op \in {"stake", "claim"} /\ IsFacts(facts[c], held, now)
      /\ req[c].op \in {"vote", "stake"} => ProposalSeen(req[c], facts[c], proposals)
      /\ HistorySeen(seen[c], facts[c].at, account[Owner[c]])
  BY <1>1, <1>3, VotingCall
<1>5. But(facts, facts', c, f)
  BY <1>1, <1>2, <1>4, FactsSteps
<1>6. IsFacts(f, held, now) /\ f.at = facts[c].at /\ f.proposal = facts[c].proposal
  BY <1>4 DEF IsFacts
<1> HIDE DEF f
<1>7. req[c].op \in {"vote", "stake"} => ProposalSeen(req[c], f, proposals)
  BY <1>4, <1>6 DEF ProposalSeen
<1>8. VoteIs(c, "powers", req[c], seen[c], f, ballot[c], account[Owner[c]], proposals)
  BY <1>4, <1>6, <1>7, ToPowers
<1>9. VoteIsHere(c, "powers", req[c], seen[c], f, ballot[c])
  BY Zenon, <1>6, <1>8 DEF VoteIsHere
<1>10. But(ballot, ballot', c, ballot[c])
  BY <1>1, <1>2, SameBut
<1>11. Kept
  BY <1>2, OtherVotingSteps
<1> QED
  BY <1>1, <1>5, <1>9, <1>10, <1>11, VoteGoesOn

LEMMA RewardsVotes ==
  ASSUME WInv, NEW c \in Calls, FetchRewardsState(c)
  PROVE  WInv'
<1>1. /\ pc[c] = "voter" /\ req[c].op = "claim" /\ facts' = facts
      /\ pc' = [pc EXCEPT ![c] = "powers"] /\ ballot' = ballot
      /\ UNCHANGED contracts /\ UNCHANGED <<req, seen, group, answer>> /\ SameChain
  BY DEF FetchRewardsState, Go, chainVars, votingVars, SameChain
<1>2. VInv /\ OfCalls(facts) /\ OfCalls(ballot)
  BY VoteNow
<1>3. pc[c] \in VotingPlaces
  BY <1>1 DEF VotingPlaces
<1>4. /\ req[c] \in Ballots[c] /\ req[c].op \in {"vote", "stake", "claim"}
      /\ IsFacts(facts[c], held, now)
      /\ req[c].op \in {"vote", "stake"} => ProposalSeen(req[c], facts[c], proposals)
      /\ HistorySeen(seen[c], facts[c].at, account[Owner[c]])
  BY <1>1, <1>3, VotingCall
<1>5. VoteIs(c, "powers", req[c], seen[c], facts[c], ballot[c], account[Owner[c]], proposals)
  BY <1>4, ToPowers
<1>6. VoteIsHere(c, "powers", req[c], seen[c], facts[c], ballot[c])
  BY Zenon, <1>4, <1>5 DEF VoteIsHere
<1>7. But(ballot, ballot', c, ballot[c]) /\ But(facts, facts', c, facts[c])
  BY <1>1, <1>2, SameBut
<1>8. Kept
  BY <1>2, OtherVotingSteps
<1> QED
  BY <1>1, <1>6, <1>7, <1>8, VoteGoesOn

LEMMA PowerBoxesAre == \A c \in Calls : PowerBoxes(c) = BoxCount(CountSeen(seen[c]))
<1> TAKE c \in Calls
<1> DEFINE s == seen[c]
<1>1. CASE s.account = {}
  <2>1. PowerBoxes(c) = 0 /\ CountSeen(s) = 0
    BY Zenon, <1>1 DEF PowerBoxes, CountSeen, CountOf
  <2>2. BoxCount(0) \in Nat /\ \A b \in Nat : b < BoxCount(0) => b * ArrayLen < 0
    BY BoxCountIs
  <2>3. ~ 0 < BoxCount(0)
    <3>1. 0 < BoxCount(0) => 0 * ArrayLen < 0
      BY <2>2
    <3>2. 0 * ArrayLen = 0
      BY WeekIs
    <3> QED
      BY <3>1, <3>2
  <2>4. BoxCount(0) = 0
    BY <2>2, <2>3
  <2> QED
    BY <2>1, <2>4
<1>2. CASE s.account # {}
  <2>1. SeenAccount(c) = CHOOSE x \in s.account : TRUE
    BY Zenon DEF SeenAccount
  <2>2. CountSeen(s) = SeenAccount(c).count
    BY Zenon, <1>2, <2>1 DEF CountSeen, CountOf
  <2>3. PowerBoxes(c) = BoxCount(SeenAccount(c).count)
    BY Zenon, <1>2 DEF PowerBoxes
  <2> QED
    BY Zenon, <2>2, <2>3
<1> QED
  BY <1>1, <1>2

LEMMA ReadVotes ==
  ASSUME WInv, NEW c \in Calls, ReadPowerBox(c)
  PROVE  WInv'
<1> DEFINE acc == account[Owner[c]]
           more == seen[c].read \o RowsIn(acc.powers, seen[c].boxes)
           s == [account |-> seen[c].account, failed |-> seen[c].failed,
                 rows |-> seen[c].rows, global |-> seen[c].global, first |-> seen[c].first,
                 boxes |-> seen[c].boxes + 1, read |-> more]
<1>1. /\ pc[c] = "powers" /\ seen[c].boxes < PowerBoxes(c)
      /\ facts' = facts /\ ballot' = ballot /\ pc' = pc /\ req' = req /\ group' = group
      /\ answer' = answer /\ UNCHANGED contracts /\ SameChain
  BY DEF ReadPowerBox, chainVars, votingVars, SameChain
<1>2. /\ VInv /\ OfCalls(pc) /\ OfCalls(req) /\ OfCalls(facts) /\ OfCalls(ballot)
      /\ IsAccount(acc, now)
  BY VoteNow
<1>3. Kept /\ But(seen, seen', c, s)
  BY <1>2, ReadPowerStep
<1>4. /\ s.account = seen[c].account /\ s.failed = seen[c].failed /\ s.boxes = seen[c].boxes + 1
      /\ s.read = more
  OBVIOUS
<1> HIDE DEF s
<1>5. pc[c] \in VotingPlaces
  BY <1>1 DEF VotingPlaces
<1>6. /\ req[c] \in Ballots[c] /\ req[c].op \in {"vote", "stake", "claim"}
      /\ IsFacts(facts[c], held, now)
      /\ req[c].op \in {"vote", "stake"} => ProposalSeen(req[c], facts[c], proposals)
      /\ HistorySeen(seen[c], facts[c].at, acc)
  BY <1>1, <1>5, VotingCall
<1>7. CountSeen(s) = CountSeen(seen[c])
  BY Zenon, <1>4 DEF CountSeen
<1>8. HistorySeen(s, facts[c].at, acc)
  <2> DEFINE n == CountSeen(seen[c])
  <2>1. HistorySeen(seen[c], facts[c].at, acc)
    BY <1>4, <1>6
  <2>2. ReadBy(seen[c].read, seen[c].boxes, acc.powers, n) /\ seen[c].boxes < BoxCount(n)
    BY <1>1, <2>1, PowerBoxesAre DEF HistorySeen
  <2>3. acc.powers \in Seq(Rows)
    BY <1>2 DEF IsAccount
  <2> HIDE DEF n
  <2>4. ReadBy(more, seen[c].boxes + 1, acc.powers, n)
    BY <2>2, <2>3, ReadOn
  <2> QED
    BY Zenon, <1>4, <1>7, <2>1, <2>4 DEF HistorySeen, n
<1>9. VoteIs(c, "powers", req[c], s, facts[c], ballot[c], acc, proposals)
  BY <1>6, <1>8, ToPowers
<1>10. VoteIsHere(c, "powers", req[c], s, facts[c], ballot[c])
  BY Zenon, <1>6, <1>9 DEF VoteIsHere
<1>11. /\ But(pc, pc, c, pc[c]) /\ But(req, req, c, req[c])
       /\ But(facts, facts, c, facts[c]) /\ But(ballot, ballot, c, ballot[c])
  BY <1>2, SameBut
<1>12. Votes(c, "powers", req[c], s, facts[c], ballot[c])
  BY Zenon, <1>1, <1>3, <1>11 DEF Votes
<1> QED
  BY <1>1, <1>3, <1>10, <1>12, VoteMoves

LEMMA VaultVotes ==
  ASSUME WInv, NEW c \in Calls, NEW r \in Ballots[c], FetchVaultState(c, r)
  PROVE  WInv'
<1> DEFINE g == [count |-> Len(total), last |-> LastTime(total), at |-> now]
           s == [account |-> seen[c].account, failed |-> seen[c].failed,
                 rows |-> seen[c].rows, global |-> g,
                 first |-> seen[c].first, boxes |-> seen[c].boxes, read |-> seen[c].read]
<1>1. /\ r.op = "propose" /\ req' = [req EXCEPT ![c] = r] /\ pc' = [pc EXCEPT ![c] = "vault"]
      /\ facts' = facts /\ ballot' = ballot /\ group' = group
      /\ answer' = answer /\ UNCHANGED contracts /\ SameChain
  BY DEF FetchVaultState, Go, chainVars, votingVars, SameChain
<1>2. /\ VInv /\ OfCalls(pc) /\ OfCalls(req) /\ OfCalls(facts) /\ OfCalls(ballot)
      /\ VoteIsHere(c, pc[c], req[c], seen[c], facts[c], ballot[c])
  BY VoteNow
<1>3. Kept /\ But(seen, seen', c, s)
  BY <1>2, FetchVaultStep
<1> HIDE DEF s
<1>4. IsFacts(facts[c], held, now)
  BY Zenon, <1>2 DEF VoteIsHere
<1>5. "vault" \notin {"proposal", "voter", "powers", "prepared"}
  OBVIOUS
<1>6. r.op \notin {"vote", "stake"}
  BY <1>1
<1>7. VoteIs(c, "vault", r, s, facts[c], ballot[c], account[Owner[c]], proposals)
  BY <1>1, <1>5, <1>6 DEF VoteIs
<1>8. VoteIsHere(c, "vault", r, s, facts[c], ballot[c])
  BY Zenon, <1>4, <1>7 DEF VoteIsHere
<1>9. But(pc, pc', c, "vault") /\ But(req, req', c, r)
  BY <1>1, <1>2, Excepted
<1>10. But(facts, facts, c, facts[c]) /\ But(ballot, ballot, c, ballot[c])
  BY <1>2, SameBut
<1>11. Votes(c, "vault", r, s, facts[c], ballot[c])
  BY Zenon, <1>1, <1>3, <1>9, <1>10 DEF Votes
<1> QED
  BY <1>1, <1>3, <1>8, <1>11, VoteMoves

\* A call that ends without a change to the contracts.
LEMMA VoteEnds ==
  ASSUME WInv, NEW c \in Calls, GiveUp(c) \/ RefuseBallot(c)
  PROVE  WInv'
<1> DEFINE p == IF GiveUp(c) THEN "gaveUp" ELSE "notCounted"
<1>1. /\ pc' = [pc EXCEPT ![c] = p] /\ facts' = facts /\ ballot' = ballot
      /\ UNCHANGED contracts /\ UNCHANGED <<req, seen, group, answer>> /\ SameChain
  BY DEF GiveUp, RefuseBallot, Go, chainVars, votingVars, SameChain
<1>2. p \notin VotingPlaces
  BY DEF VotingPlaces
<1> HIDE DEF p
<1>3. VInv /\ OfCalls(facts) /\ OfCalls(ballot)
      /\ VoteIsHere(c, pc[c], req[c], seen[c], facts[c], ballot[c])
  BY VoteNow
<1>4. VoteIsHere(c, p, req[c], seen[c], facts[c], ballot[c])
  <2>1. IsFacts(facts[c], held, now)
    BY Zenon, <1>3 DEF VoteIsHere
  <2> QED
    BY <1>2, <2>1, NoVote DEF VoteIsHere
<1>5. But(ballot, ballot', c, ballot[c]) /\ But(facts, facts', c, facts[c])
  BY <1>1, <1>3, SameBut
<1>6. Kept
  BY <1>3, OtherVotingSteps
<1> QED
  BY <1>1, <1>4, <1>5, <1>6, VoteGoesOn

LEMMA PowersAreRead ==
  ASSUME WInv, NEW c \in Calls, PowersRead(c), NEW t \in Int
  PROVE  /\ getPowerIndexAt(seen[c].read, t) \in Nat
         /\ ~seen[c].failed /\ t < facts[c].at
              => MadeBy(account[Owner[c]].powers, t, getPowerIndexAt(seen[c].read, t))
<1>1. pc[c] = "powers" /\ seen[c].boxes = BoxCount(CountSeen(seen[c]))
  BY PowerBoxesAre DEF PowersRead
<1>2. pc[c] \in VotingPlaces
  BY <1>1 DEF VotingPlaces
<1>3. HistorySeen(seen[c], facts[c].at, account[Owner[c]]) /\ IsFacts(facts[c], held, now)
  BY <1>1, <1>2, VotingCall
<1>4. now \in Nat /\ IsAccount(account[Owner[c]], now) /\ facts[c].at \in Nat
  BY <1>3, VoteNow DEF IsFacts
<1> QED
  BY <1>1, <1>3, <1>4, RowFound

\* The row of the time the proposal was made.
LEMMA RowThenIs ==
  ASSUME WInv, NEW c \in Calls, PowersRead(c), req[c].op \in {"vote", "stake"}, RowThen(c) >= 0
  PROVE  /\ ProposalOf(c) = proposals[req[c].id] /\ RowThen(c) \in Nat
         /\ ~seen[c].failed /\ proposals[req[c].id].created < facts[c].at =>
              \E m \in Nat : /\ MadeBy(account[Owner[c]].powers, proposals[req[c].id].created, m)
                             /\ RowThen(c) = m - 1
<1> DEFINE p == proposals[req[c].id]
           t == p.created
           m == getPowerIndexAt(seen[c].read, t)
<1>1. pc[c] \in VotingPlaces
  BY DEF PowersRead, VotingPlaces
<1>2. ProposalSeen(req[c], facts[c], proposals)
  BY <1>1, VotingCall
<1>3. facts[c].proposal = {p} /\ req[c].id \in DOMAIN proposals
  BY <1>2 DEF ProposalSeen
<1>4. IsProposal(p)
  BY <1>3, VoteNow
<1>5. t \in Int
  BY <1>4 DEF IsProposal
<1> HIDE DEF p
<1>6. (CHOOSE x \in {p} : TRUE) = p
  OBVIOUS
<1>7. ProposalOf(c) = p
  BY Zenon, <1>3, <1>6 DEF ProposalOf
<1>8. RowThen(c) = m - 1
  BY Zenon, <1>7 DEF RowThen
<1>9. m \in Nat /\ (~seen[c].failed /\ t < facts[c].at => MadeBy(account[Owner[c]].powers, t, m))
  BY <1>5, PowersAreRead
<1> HIDE DEF m
<1>10. RowThen(c) \in Nat
  BY <1>8, <1>9
<1> QED
  BY Zenon, <1>7, <1>8, <1>9, <1>10 DEF p

LEMMA PreparedNow ==
  ASSUME WInv, NEW c \in Calls, pc[c] \in VotingPlaces, NEW f, NEW b,
         f.at = facts[c].at, f.proposal = facts[c].proposal,
         IsBallot(c, req[c], b, f.names, proposals), IsFacts(f, held, now),
         ~seen[c].failed => Chosen(b, proposals, f.at, account[Owner[c]])
  PROVE  VoteIsHere(c, "prepared", req[c], seen[c], f, b)
<1>1. /\ req[c] \in Ballots[c]
      /\ req[c].op \in {"vote", "stake"} => ProposalSeen(req[c], facts[c], proposals)
  BY VotingCall
<1>2. req[c].op \in {"vote", "stake"} => ProposalSeen(req[c], f, proposals)
  BY <1>1 DEF ProposalSeen
<1>3. "prepared" \notin {"proposal", "voter", "powers", "vault"}
  OBVIOUS
<1>4. VoteIs(c, "prepared", req[c], seen[c], f, b, account[Owner[c]], proposals)
  BY <1>1, <1>2, <1>3 DEF VoteIs
<1> QED
  BY Zenon, <1>4 DEF VoteIsHere

LEMMA CastVotes ==
  ASSUME WInv, NEW c \in Calls, NEW failed \in BOOLEAN, GenerateCastVote(c, failed)
  PROVE  WInv'
<1> DEFINE names == IF failed THEN {} ELSE held
           f == [proposal |-> facts[c].proposal, at |-> facts[c].at, names |-> names]
           i == RowThen(c)
           p == proposals[req[c].id]
           b == CastVote(Owner[c], req[c].id, p, i, names)
<1>1. /\ PowersRead(c) /\ req[c].op = "vote" /\ i >= 0
      /\ facts' = [facts EXCEPT ![c].names = names]
      /\ ballot' = [ballot EXCEPT ![c] = CastVote(Owner[c], req[c].id, ProposalOf(c), i, names)]
      /\ pc' = [pc EXCEPT ![c] = "prepared"]
      /\ UNCHANGED contracts /\ UNCHANGED <<req, seen, group, answer>> /\ SameChain
  BY Zenon DEF GenerateCastVote, Prepares, Go, chainVars, SameChain
<1>2. VInv /\ OfCalls(facts) /\ OfCalls(ballot)
  BY VoteNow
<1>3. pc[c] \in VotingPlaces
  BY <1>1 DEF VotingPlaces, PowersRead
<1>4. IsFacts(facts[c], held, now)
  BY <1>3, VotingCall
<1>5. names \subseteq held
  OBVIOUS
<1> HIDE DEF names
<1>6. But(facts, facts', c, f)
  BY <1>1, <1>2, <1>4, FactsSteps
<1>7. /\ f.at = facts[c].at /\ f.proposal = facts[c].proposal /\ f.names = names
      /\ IsFacts(f, held, now)
  BY <1>4, <1>5 DEF IsFacts
<1> HIDE DEF f
<1>8. /\ ProposalOf(c) = p /\ i \in Nat
      /\ ~seen[c].failed /\ p.created < facts[c].at =>
              \E m \in Nat : MadeBy(account[Owner[c]].powers, p.created, m) /\ i = m - 1
  BY <1>1, RowThenIs
<1>9. ballot' = [ballot EXCEPT ![c] = b]
  BY Zenon, <1>1, <1>8
<1>10. b.op = "vote" /\ b.id = req[c].id /\ b.indexes = <<i>>
  BY DEF CastVote
<1> HIDE DEF i
<1>11. IsBallot(c, req[c], b, f.names, proposals)
  BY Zenon, <1>1, <1>7, <1>8 DEF IsBallot
<1> HIDE DEF b
<1>12. ~seen[c].failed => Chosen(b, proposals, f.at, account[Owner[c]])
  <2>1. DOMAIN b.indexes = {1} /\ b.indexes[1] = i
    BY <1>10
  <2>2. TimeOf(b, proposals, 1) = p.created
    BY <1>10 DEF TimeOf
  <2> QED
    BY Zenon, <1>7, <1>8, <2>1, <2>2 DEF Chosen
<1>13. VoteIsHere(c, "prepared", req[c], seen[c], f, b)
  BY <1>3, <1>7, <1>11, <1>12, PreparedNow
<1>14. But(ballot, ballot', c, b)
  BY <1>2, <1>9, Excepted
<1>15. Kept
  BY <1>2, OtherVotingSteps
<1> QED
  BY <1>1, <1>6, <1>13, <1>14, <1>15, VoteGoesOn

LEMMA StakingVotes ==
  ASSUME WInv, NEW c \in Calls, GenerateStakingVote(c)
  PROVE  WInv'
<1> DEFINE f == facts[c]
           i == RowThen(c)
           p == proposals[req[c].id]
           b == StakingVote(Owner[c], req[c], p, i, f.names)
<1>1. /\ PowersRead(c) /\ req[c].op = "stake" /\ i >= 0
      /\ facts' = facts
      /\ ballot' = [ballot EXCEPT ![c] = StakingVote(Owner[c], req[c], ProposalOf(c), i, f.names)]
      /\ pc' = [pc EXCEPT ![c] = "prepared"]
      /\ UNCHANGED contracts /\ UNCHANGED <<req, seen, group, answer>> /\ SameChain
  BY Zenon DEF GenerateStakingVote, Prepares, Go, chainVars, SameChain
<1>2. VInv /\ OfCalls(facts) /\ OfCalls(ballot)
  BY VoteNow
<1>3. pc[c] \in VotingPlaces
  BY <1>1 DEF VotingPlaces, PowersRead
<1>4. IsFacts(f, held, now)
  BY <1>3, VotingCall
<1>5. But(facts, facts', c, f)
  BY <1>1, <1>2, SameBut
<1>6. /\ ProposalOf(c) = p /\ i \in Nat
      /\ ~seen[c].failed /\ p.created < f.at =>
              \E m \in Nat : MadeBy(account[Owner[c]].powers, p.created, m) /\ i = m - 1
  BY <1>1, RowThenIs
<1>7. ballot' = [ballot EXCEPT ![c] = b]
  BY Zenon, <1>1, <1>6
<1>8. b.op = "stake" /\ b.id = req[c].id /\ b.indexes = <<i>>
  BY DEF StakingVote
<1> HIDE DEF i
<1>9. IsBallot(c, req[c], b, f.names, proposals)
  BY Zenon, <1>1, <1>6 DEF IsBallot
<1> HIDE DEF b
<1>10. ~seen[c].failed => Chosen(b, proposals, f.at, account[Owner[c]])
  <2>1. DOMAIN b.indexes = {1} /\ b.indexes[1] = i
    BY <1>8
  <2>2. TimeOf(b, proposals, 1) = p.created
    BY <1>8 DEF TimeOf
  <2> QED
    BY Zenon, <1>6, <2>1, <2>2 DEF Chosen
<1>11. VoteIsHere(c, "prepared", req[c], seen[c], f, b)
  BY <1>3, <1>4, <1>9, <1>10, PreparedNow
<1>12. But(ballot, ballot', c, b)
  BY <1>2, <1>7, Excepted
<1>13. Kept
  BY <1>2, OtherVotingSteps
<1> QED
  BY <1>1, <1>5, <1>11, <1>12, <1>13, VoteGoesOn

\* The bounds of the weeks claimed.
LEMMA ClaimTimesAre ==
  ASSUME NEW from \in Nat, NEW count \in Nat
  PROVE  /\ DOMAIN ClaimTimes(from, count) = 1 .. count + 1
         /\ \A k \in 1 .. count + 1 : /\ ClaimTimes(from, count)[k] = FirstPeriod + (from + k - 1) * WEEK
                                      /\ ClaimTimes(from, count)[k] \in Int
<1>1. FirstPeriod \in Nat /\ WEEK \in Nat
  BY VotingAssumption, WeekIs
<1>2. \A k \in 1 .. count + 1 : (from + k - 1) * WEEK \in Int
  BY <1>1
<1>3. \A k \in 1 .. count + 1 : FirstPeriod + (from + k - 1) * WEEK \in Int
  <2> TAKE k \in 1 .. count + 1
  <2> DEFINE x == (from + k - 1) * WEEK
  <2>1. x \in Int
    BY <1>2
  <2> HIDE DEF x
  <2> QED
    BY <1>1, <2>1 DEF x
<1> QED
  BY <1>3 DEF ClaimTimes

LEMMA ClaimVotes ==
  ASSUME WInv, NEW c \in Calls, GenerateClaimReward(c)
  PROVE  WInv'
<1> DEFINE f == [proposal |-> facts[c].proposal, at |-> facts[c].at, names |-> held]
           r == req[c]
           times == ClaimTimes(r.from, r.count)
           indexes == RowsAt(c, times)
           b == ClaimReward(Owner[c], r, indexes, held)
           acc == account[Owner[c]]
<1>1. /\ PowersRead(c) /\ r.op = "claim" /\ Cardinality(b.boxes) < 11
      /\ facts' = [facts EXCEPT ![c].names = held]
      /\ ballot' = [ballot EXCEPT ![c] = b]
      /\ pc' = [pc EXCEPT ![c] = "prepared"]
      /\ UNCHANGED contracts /\ UNCHANGED <<req, seen, group, answer>> /\ SameChain
  BY Zenon DEF GenerateClaimReward, Prepares, Go, chainVars, SameChain
<1>2. VInv /\ OfCalls(facts) /\ OfCalls(ballot)
  BY VoteNow
<1>3. pc[c] \in VotingPlaces
  BY <1>1 DEF VotingPlaces, PowersRead
<1>4. IsFacts(facts[c], held, now) /\ r \in Ballots[c]
  BY <1>3, VotingCall
<1>5. But(facts, facts', c, f)
  BY <1>1, <1>2, <1>4, FactsSteps
<1>6. /\ f.at = facts[c].at /\ f.proposal = facts[c].proposal /\ f.names = held
      /\ IsFacts(f, held, now)
  BY <1>4 DEF IsFacts
<1> HIDE DEF f
<1>7. r.from \in Nat /\ r.count \in Nat
  BY <1>1, <1>4, BallotAssumption
<1>8. /\ DOMAIN times = 1 .. r.count + 1
      /\ \A k \in 1 .. r.count + 1 : /\ times[k] = FirstPeriod + (r.from + k - 1) * WEEK
                                     /\ times[k] \in Int
  BY <1>7, ClaimTimesAre
<1> HIDE DEF times
<1>9. /\ indexes = [k \in 1 .. r.count + 1 |-> AtLeast(getPowerIndexAt(seen[c].read, times[k]) - 1, 0)]
  BY Zenon, <1>8 DEF RowsAt
<1>10. \A k \in 1 .. r.count + 1 :
         /\ getPowerIndexAt(seen[c].read, times[k]) \in Nat
         /\ ~seen[c].failed /\ times[k] < facts[c].at
              => MadeBy(acc.powers, times[k], getPowerIndexAt(seen[c].read, times[k]))
  BY <1>1, <1>8, PowersAreRead
<1>11. \A k \in 1 .. r.count + 1 :
         /\ indexes[k] = AtLeast(getPowerIndexAt(seen[c].read, times[k]) - 1, 0)
         /\ indexes[k] \in Nat
  <2> TAKE k \in 1 .. r.count + 1
  <2> DEFINE m == getPowerIndexAt(seen[c].read, times[k])
  <2>1. m \in Nat
    BY <1>10
  <2>2. indexes[k] = AtLeast(m - 1, 0)
    BY <1>9
  <2> HIDE DEF m, indexes
  <2>3. AtLeast(m - 1, 0) \in Nat
    BY <2>1 DEF AtLeast
  <2> QED
    BY Zenon, <2>2, <2>3 DEF m
<1> DEFINE ix == RowsAt(c, times)
<1>12. ix \in [1 .. r.count + 1 -> Nat]
  BY <1>9, <1>11
<1>13. b.op = "claim" /\ b.from = r.from /\ b.indexes = indexes
  BY DEF ClaimReward
<1> HIDE DEF indexes
<1>14. indexes \in [1 .. r.count + 1 -> Nat]
  BY <1>12 DEF indexes
<1>15. IsBallot(c, r, b, f.names, proposals)
  BY Zenon, <1>1, <1>6, <1>14 DEF IsBallot
<1> HIDE DEF b, ix
<1>16. ~seen[c].failed => Chosen(b, proposals, f.at, acc)
  <2> SUFFICES ASSUME ~seen[c].failed, NEW k \in DOMAIN b.indexes, TimeOf(b, proposals, k) < f.at
               PROVE  \E m \in Nat :
                        /\ MadeBy(acc.powers, TimeOf(b, proposals, k), m)
                        /\ \/ b.indexes[k] = m - 1
                           \/ b.op = "claim" /\ m = 0 /\ b.indexes[k] = 0
    BY Zenon DEF Chosen
  <2> DEFINE m == getPowerIndexAt(seen[c].read, times[k])
  <2>1. k \in 1 .. r.count + 1
    BY <1>13, <1>14
  <2>2. TimeOf(b, proposals, k) = times[k]
    BY Zenon, <1>8, <1>13, <2>1 DEF TimeOf
  <2>3. m \in Nat /\ MadeBy(acc.powers, times[k], m)
    BY Zenon, <1>6, <1>10, <2>1, <2>2
  <2>4. indexes[k] = AtLeast(m - 1, 0)
    BY <1>11, <2>1
  <2> HIDE DEF m
  <2>5. indexes[k] = m - 1 \/ (m = 0 /\ indexes[k] = 0)
    BY <2>3, <2>4 DEF AtLeast
  <2> QED
    BY Zenon, <1>13, <2>2, <2>3, <2>5
<1>17. VoteIsHere(c, "prepared", r, seen[c], f, b)
  BY <1>3, <1>6, <1>15, <1>16, PreparedNow
<1>18. But(ballot, ballot', c, b)
  BY <1>1, <1>2, Excepted
<1>19. Kept
  BY <1>2, OtherVotingSteps
<1> QED
  BY <1>1, <1>5, <1>17, <1>18, <1>19, VoteGoesOn

LEMMA ProposeVotes ==
  ASSUME WInv, NEW c \in Calls, GenerateCreateProposal(c)
  PROVE  WInv'
<1> DEFINE n == seen[c].global.count
           b == CreateProposal(Owner[c], req[c].id, n)
<1>1. /\ pc[c] = "vault" /\ facts' = facts
      /\ ballot' = [ballot EXCEPT ![c] = b]
      /\ pc' = [pc EXCEPT ![c] = "prepared"]
      /\ UNCHANGED contracts /\ UNCHANGED <<req, seen, group, answer>> /\ SameChain
  BY Zenon DEF GenerateCreateProposal, Prepares, Go, chainVars, SameChain
<1>2. VInv /\ OfCalls(facts) /\ OfCalls(ballot)
  BY VoteNow
<1>3. pc[c] \in VotingPlaces
  BY <1>1 DEF VotingPlaces
<1>4. IsFacts(facts[c], held, now) /\ req[c].op = "propose"
  BY <1>1, <1>3, VotingCall
<1>5. But(facts, facts', c, facts[c])
  BY <1>1, <1>2, SameBut
<1>6. b.indexes = <<>>
  BY DEF CreateProposal
<1>7. IsBallot(c, req[c], b, facts[c].names, proposals)
  BY Zenon, <1>4 DEF IsBallot
<1> HIDE DEF b
<1>8. Chosen(b, proposals, facts[c].at, account[Owner[c]])
  <2>1. DOMAIN b.indexes = {}
    BY <1>6
  <2> QED
    BY <2>1 DEF Chosen
<1>9. VoteIsHere(c, "prepared", req[c], seen[c], facts[c], b)
  BY <1>3, <1>4, <1>7, <1>8, PreparedNow
<1>10. But(ballot, ballot', c, b)
  BY <1>1, <1>2, Excepted
<1>11. Kept
  BY <1>2, OtherVotingSteps
<1> QED
  BY <1>1, <1>5, <1>9, <1>10, <1>11, VoteGoesOn
-----------------------------------------------------------------------------
(* Finite sets.                                                             *)

LEMMA ImageFinite ==
  ASSUME NEW S, IsFiniteSet(S), NEW f
  PROVE  /\ IsFiniteSet({f[x] : x \in S}) /\ Cardinality({f[x] : x \in S}) \in Nat
         /\ Cardinality({f[x] : x \in S}) <= Cardinality(S)
<1> DEFINE T == {f[x] : x \in S}
           g == [x \in S |-> f[x]]
<1>1. g \in [S -> T]
  OBVIOUS
<1>2. \A t \in T : \E x \in S : g[x] = t
  OBVIOUS
<1>3. g \in Surjection(S, T)
  BY <1>1, <1>2 DEF Surjection
<1> HIDE DEF T, g
<1>4. IsFiniteSet(T) /\ Cardinality(T) <= Cardinality(S)
  BY <1>3, FS_Surjection
<1>5. Cardinality(T) \in Nat
  BY <1>4, FS_CardinalityType
<1> QED
  BY <1>4, <1>5 DEF T

LEMMA UnionBound ==
  ASSUME NEW S, NEW T, IsFiniteSet(S), IsFiniteSet(T)
  PROVE  /\ IsFiniteSet(S \cup T) /\ Cardinality(S \cup T) \in Nat
         /\ Cardinality(S) \in Nat /\ Cardinality(T) \in Nat
         /\ Cardinality(S \cup T) <= Cardinality(S) + Cardinality(T)
         /\ S \cap T = {} => Cardinality(S \cup T) = Cardinality(S) + Cardinality(T)
<1>1. /\ IsFiniteSet(S \cup T)
      /\ Cardinality(S \cup T) = Cardinality(S) + Cardinality(T) - Cardinality(S \cap T)
  BY FS_Union
<1>2. IsFiniteSet(S \cap T)
  BY FS_Intersection
<1>3. /\ Cardinality(S) \in Nat /\ Cardinality(T) \in Nat /\ Cardinality(S \cap T) \in Nat
      /\ Cardinality(S \cup T) \in Nat
  BY <1>1, <1>2, FS_CardinalityType
<1>4. S \cap T = {} => Cardinality(S \cap T) = 0
  BY FS_EmptySet
<1> QED
  BY <1>1, <1>3, <1>4

LEMMA SmallSets ==
  ASSUME NEW a, NEW b, NEW c
  PROVE  /\ IsFiniteSet({a, b}) /\ Cardinality({a, b}) <= 2 /\ Cardinality({a, b}) \in Nat
         /\ IsFiniteSet({a, b, c}) /\ Cardinality({a, b, c}) <= 3 /\ Cardinality({a, b, c}) \in Nat
<1>1. IsFiniteSet({a}) /\ Cardinality({a}) = 1 /\ IsFiniteSet({b}) /\ Cardinality({b}) = 1
      /\ IsFiniteSet({c}) /\ Cardinality({c}) = 1
  BY FS_Singleton
<1>2. /\ IsFiniteSet({a} \cup {b}) /\ Cardinality({a} \cup {b}) \in Nat
      /\ Cardinality({a} \cup {b}) <= 1 + 1
  BY <1>1, UnionBound
<1>3. {a, b} = {a} \cup {b} /\ {a, b, c} = {a, b} \cup {c}
  OBVIOUS
<1>4. IsFiniteSet({a, b}) /\ Cardinality({a, b}) <= 2 /\ Cardinality({a, b}) \in Nat
  BY <1>2, <1>3
<1>5. /\ IsFiniteSet({a, b} \cup {c}) /\ Cardinality({a, b} \cup {c}) \in Nat
      /\ Cardinality({a, b} \cup {c}) <= Cardinality({a, b}) + Cardinality({c})
  BY <1>1, <1>4, UnionBound
<1> QED
  BY <1>1, <1>3, <1>4, <1>5

-----------------------------------------------------------------------------
(* What boxes cost.                                                         *)

SheetsIn(B, app) == {b \in B : b[1] = "sheet" /\ b[2] = app}
OfKind(B, kind) == {b \in B : b[1] = kind}

LEMMA PriceIs ==
  ASSUME NEW B
  PROVE  PriceOf(B) = Price["voting"] * Cardinality(SheetsIn(B, "voting"))
                      + Price["staking"] * Cardinality(SheetsIn(B, "staking"))
                      + Price["rewards"] * Cardinality(SheetsIn(B, "rewards"))
                      + Price["option"] * Cardinality(OfKind(B, "option"))
                      + Price["proposal"] * Cardinality(OfKind(B, "proposal"))
  BY Zenon DEF PriceOf, SheetsIn, OfKind

LEMMA Prices ==
  /\ Price["voting"] \in Nat \ {0} /\ Price["staking"] \in Nat \ {0} /\ Price["rewards"] \in Nat \ {0}
  /\ Price["option"] \in Nat \ {0} /\ Price["proposal"] \in Nat \ {0}
  /\ {SheetBits, StakingSpan, ClaimBits, PeriodsPerBox} \subseteq Nat \ {0} /\ MaxRefs >= 8
  BY VotingAssumption, SizeAssumption DEF Apps

LEMMA PartsFinite ==
  ASSUME NEW B, IsFiniteSet(B)
  PROVE  /\ \A app : IsFiniteSet(SheetsIn(B, app)) /\ Cardinality(SheetsIn(B, app)) \in Nat
         /\ \A kind : IsFiniteSet(OfKind(B, kind)) /\ Cardinality(OfKind(B, kind)) \in Nat
<1>1. \A app : SheetsIn(B, app) \in SUBSET B
  BY DEF SheetsIn
<1>2. \A kind : OfKind(B, kind) \in SUBSET B
  BY DEF OfKind
<1>3. \A T \in SUBSET B : IsFiniteSet(T) /\ Cardinality(T) \in Nat
  BY FS_Subset, FS_CardinalityType
<1> QED
  BY Zenon, <1>1, <1>2, <1>3

LEMMA PriceType ==
  ASSUME NEW B, IsFiniteSet(B)
  PROVE  PriceOf(B) \in Nat
<1> DEFINE a == Cardinality(SheetsIn(B, "voting"))
           b == Cardinality(SheetsIn(B, "staking"))
           c == Cardinality(SheetsIn(B, "rewards"))
           d == Cardinality(OfKind(B, "option"))
           e == Cardinality(OfKind(B, "proposal"))
<1>1. a \in Nat /\ b \in Nat /\ c \in Nat /\ d \in Nat /\ e \in Nat
  BY PartsFinite
<1>2. PriceOf(B) = Price["voting"] * a + Price["staking"] * b + Price["rewards"] * c
                   + Price["option"] * d + Price["proposal"] * e
  BY PriceIs
<1> HIDE DEF a, b, c, d, e
<1>3. \A m, n \in Nat : m * n \in Nat
  OBVIOUS
<1>4. /\ Price["voting"] * a \in Nat /\ Price["staking"] * b \in Nat /\ Price["rewards"] * c \in Nat
      /\ Price["option"] * d \in Nat /\ Price["proposal"] * e \in Nat
  BY <1>1, <1>3, Prices
<1> QED
  BY <1>2, <1>4

-----------------------------------------------------------------------------
(* The groups prepared.                                                     *)

IsRefs(refs) == \A k \in DOMAIN refs : refs[k] \in 1 .. MaxRefs

\* What is true of every group.
BallotShape(c, r, b) ==
  /\ b.op = r.op /\ b.app \in Apps /\ b.user = Owner[c] /\ b.numbers \subseteq Nat
  /\ b.op = "propose" => b.id = r.id
  /\ IsFiniteSet(KeptFor(b)) /\ b.pay \in Nat /\ IsRefs(b.refs)

LEMMA CastVoteShape ==
  ASSUME NEW c, NEW r, r.op = "vote", NEW p, IsProposal(p), NEW i, NEW names, NEW b,
         b = CastVote(Owner[c], r.id, p, i, names)
  PROVE  BallotShape(c, r, b)
<1>1. /\ b.op = "vote" /\ b.app = "voting" /\ b.user = Owner[c] /\ b.numbers = {p.index}
      /\ b.refs = <<5 + 1>> /\ b.pay \in {0, Price["voting"]}
  BY DEF CastVote
<1>2. KeptFor(b) = {SheetBox("voting", Owner[c], n \div BitsOf("voting")) : n \in {p.index}}
  BY <1>1 DEF KeptFor
<1>3. KeptFor(b) = {SheetBox("voting", Owner[c], p.index \div BitsOf("voting"))}
  BY <1>2
<1>4. IsFiniteSet(KeptFor(b))
  BY Zenon, <1>3, FS_Singleton
<1>5. b.pay \in Nat
  BY <1>1, Prices
<1>6. IsRefs(b.refs)
  BY <1>1, Prices, VotingAssumption, SizeAssumption DEF IsRefs
<1>7. b.numbers \subseteq Nat
  BY <1>1 DEF IsProposal
<1> QED
  BY <1>1, <1>4, <1>5, <1>6, <1>7 DEF BallotShape, Apps

LEMMA ProposeShape ==
  ASSUME NEW c, NEW r, r.op = "propose", NEW n, NEW b, b = CreateProposal(Owner[c], r.id, n)
  PROVE  BallotShape(c, r, b)
<1>1. /\ b.op = "propose" /\ b.app = "voting" /\ b.user = Owner[c] /\ b.numbers = {}
      /\ b.id = r.id /\ b.refs = <<3 + 1>> /\ b.pay = Price["proposal"]
  BY DEF CreateProposal
<1>2. KeptFor(b) = {ProposalBox(r.id)}
  BY <1>1 DEF KeptFor
<1>3. IsFiniteSet(KeptFor(b))
  BY Zenon, <1>2, FS_Singleton
<1>4. b.pay \in Nat
  BY <1>1, Prices
<1>5. IsRefs(b.refs)
  BY <1>1, Prices, SizeAssumption DEF IsRefs
<1> QED
  BY <1>1, <1>3, <1>4, <1>5 DEF BallotShape, Apps

\* The boxes of the options voted for.
OptionBoxes(n, options) == {OptionBox(n, a) : a \in options}

LEMMA OptionsFinite ==
  ASSUME NEW n, NEW options, IsFiniteSet(options)
  PROVE  /\ IsFiniteSet(OptionBoxes(n, options)) /\ Cardinality(OptionBoxes(n, options)) \in Nat
         /\ Cardinality(OptionBoxes(n, options)) <= Cardinality(options)
<1> DEFINE f == [a \in options |-> OptionBox(n, a)]
<1>1. OptionBoxes(n, options) = {f[a] : a \in options}
  BY DEF OptionBoxes
<1> HIDE DEF f
<1>2. /\ IsFiniteSet({f[a] : a \in options}) /\ Cardinality({f[a] : a \in options}) \in Nat
      /\ Cardinality({f[a] : a \in options}) <= Cardinality(options)
  BY ImageFinite
<1> QED
  BY Zenon, <1>1, <1>2

LEMMA PairIs ==
  ASSUME NEW x, NEW y
  PROVE  <<x>> \o <<y>> = <<x, y>>
<1> DEFINE S == {x, y}
           s == <<x>>
           t == <<y>>
           z == <<x, y>>
<1>1. s \in Seq(S) /\ t \in Seq(S) /\ z \in Seq(S)
  OBVIOUS
<1>2. Len(s) = 1 /\ Len(t) = 1 /\ Len(z) = 2 /\ s[1] = x /\ t[1] = y /\ z[1] = x /\ z[2] = y
  OBVIOUS
<1> HIDE DEF s, t, z
<1> DEFINE st == s \o t
<1>3. /\ st \in Seq(S) /\ Len(st) = Len(s) + Len(t)
      /\ \A i \in 1 .. Len(s) + Len(t) : st[i] = IF i <= Len(s) THEN s[i] ELSE t[i - Len(s)]
  BY <1>1, ConcatProperties
<1> HIDE DEF st
<1>4. Len(st) = 2 /\ st[1] = x /\ st[2] = y
  BY <1>2, <1>3
<1>5. \A i \in 1 .. Len(st) : st[i] = z[i]
  BY <1>2, <1>4
<1>6. st = z
  BY <1>1, <1>2, <1>3, <1>4, <1>5, SeqEqual
<1> QED
  BY <1>6 DEF st, s, t, z

LEMMA StakeRefsAre ==
  ASSUME NEW n \in 0 .. 13
  PROVE  IsRefs(StakeRefs(n))
<1>1. MaxRefs \in Nat /\ MaxRefs >= 8
  BY SizeAssumption, Prices
<1>2. CASE n >= 7
  <2> DEFINE x == Upto(n, 7) + 1
             y == AtLeast(n - 6, 8)
  <2>1. StakeRefs(n) = <<x, y>>
    <3>1. StakeRefs(n) = <<x>> \o <<y>>
      BY Zenon, <1>2 DEF StakeRefs
    <3> HIDE DEF x, y
    <3> QED
      BY Zenon, <3>1, PairIs
  <2>2. Upto(n, 7) + 1 \in 1 .. 8 /\ AtLeast(n - 6, 8) = 8
    BY <1>2 DEF Upto, AtLeast
  <2> QED
    BY <1>1, <2>1, <2>2 DEF IsRefs
<1>3. CASE ~ n >= 7
  <2>1. StakeRefs(n) = <<Upto(n, 7) + 1>>
    BY <1>3 DEF StakeRefs
  <2>2. Upto(n, 7) + 1 \in 1 .. 8
    BY <1>3 DEF Upto
  <2> QED
    BY <1>1, <2>1, <2>2 DEF IsRefs
<1> QED
  BY <1>2, <1>3

LEMMA ClaimRefsAre ==
  ASSUME NEW n \in 0 .. 10
  PROVE  IsRefs(ClaimRefs(n))
<1>1. MaxRefs \in Nat /\ MaxRefs >= 8
  BY SizeAssumption, Prices
<1>2. CASE n > 6
  <2> DEFINE x == Upto(n, 6) + 2
             y == AtLeast(n - 5, 8)
  <2>1. ClaimRefs(n) = <<x, y>>
    <3>1. ClaimRefs(n) = <<x>> \o <<y>>
      BY Zenon, <1>2 DEF ClaimRefs
    <3> HIDE DEF x, y
    <3> QED
      BY Zenon, <3>1, PairIs
  <2>2. Upto(n, 6) + 2 \in 1 .. 8 /\ AtLeast(n - 5, 8) = 8
    BY <1>2 DEF Upto, AtLeast
  <2> QED
    BY <1>1, <2>1, <2>2 DEF IsRefs
<1>3. CASE ~ n > 6
  <2>1. ClaimRefs(n) = <<Upto(n, 6) + 2>>
    BY <1>3 DEF ClaimRefs
  <2>2. Upto(n, 6) + 2 \in 1 .. 8
    BY <1>3 DEF Upto
  <2> QED
    BY <1>1, <2>1, <2>2 DEF IsRefs
<1> QED
  BY <1>2, <1>3

LEMMA StakingKept ==
  ASSUME NEW b, NEW n, b.op = "stake", b.app = "staking", b.numbers = {n}
  PROVE  KeptFor(b) = {SheetBox("staking", b.user, n \div SheetBits)} \cup OptionBoxes(n, b.options)
<1> DEFINE sheets == {SheetBox(b.app, b.user, m \div BitsOf(b.app)) : m \in b.numbers}
           new == IF b.op = "propose" THEN {ProposalBox(b.id)} ELSE {}
           options == IF b.op = "stake" THEN {OptionBox(m, a) : m \in b.numbers, a \in b.options} ELSE {}
<1>1. KeptFor(b) = sheets \cup new \cup options
  BY DEF KeptFor
<1>2. sheets = {SheetBox("staking", b.user, n \div SheetBits)}
  BY DEF BitsOf
<1>3. new = {}
  OBVIOUS
<1>4. ASSUME NEW x PROVE x \in OptionBoxes(n, b.options) <=> \E a \in b.options : x = OptionBox(n, a)
  BY DEF OptionBoxes
<1>5. ASSUME NEW x PROVE x \in options <=> \E a \in b.options : x = OptionBox(n, a)
  OBVIOUS
<1> HIDE DEF options, sheets, new
<1>6. options = OptionBoxes(n, b.options)
  BY <1>4, <1>5
<1> QED
  BY Zenon, <1>1, <1>2, <1>3, <1>6

LEMMA StakingShape ==
  ASSUME NEW c \in Calls, NEW r \in Ballots[c], r.op = "stake", NEW p, IsProposal(p), NEW i, NEW names, NEW b,
         b = StakingVote(Owner[c], r, p, i, names)
  PROVE  /\ BallotShape(c, r, b)
         /\ KeptFor(b) = {SheetBox("staking", Owner[c], p.index \div SheetBits)}
                           \cup OptionBoxes(p.index, r.options)
<1> DEFINE options == OptionBoxes(p.index, r.options)
           sheet == SheetBox("staking", Owner[c], p.index \div StakingSpan)
           others3 == {ProposalBox(r.id), sheet, StateBox(Owner[c])}
           rows == PowerBoxesAround(Owner[c], i)
           boxes == others3 \cup options \cup rows
           new == Cardinality(options \ names)
           paid == IF sheet \in names THEN 0 ELSE Price["staking"]
<1>1. /\ b.op = "stake" /\ b.app = "staking" /\ b.user = Owner[c] /\ b.numbers = {p.index}
      /\ b.options = r.options /\ b.refs = StakeRefs(Cardinality(boxes))
      /\ b.pay = paid + new * Price["option"]
  BY DEF StakingVote, OptionBoxes, NewOptions
<1>2. IsFiniteSet(r.options) /\ Cardinality(r.options) <= 8 /\ Cardinality(r.options) \in Nat
  <2>1. IsFiniteSet(r.options) /\ Cardinality(r.options) <= 8
    BY BallotAssumption
  <2> QED
    BY <2>1, FS_CardinalityType
<1>3. /\ IsFiniteSet(options) /\ Cardinality(options) \in Nat
      /\ Cardinality(options) <= Cardinality(r.options)
  BY <1>2, OptionsFinite
<1>4. KeptFor(b) = {SheetBox("staking", Owner[c], p.index \div SheetBits)} \cup options
  BY <1>1, StakingKept
<1> HIDE DEF options
<1>5. IsFiniteSet(KeptFor(b))
  <2> DEFINE one == {SheetBox("staking", Owner[c], p.index \div SheetBits)}
  <2>1. IsFiniteSet(one)
    BY FS_Singleton
  <2> HIDE DEF one
  <2>2. IsFiniteSet(one \cup options)
    BY <1>3, <2>1, UnionBound
  <2> QED
    BY Zenon, <1>4, <2>2 DEF one
<1>6. new \in Nat
  <2>1. IsFiniteSet(options \ names)
    BY <1>3, FS_Difference
  <2> QED
    BY <2>1, FS_CardinalityType
<1> HIDE DEF new
<1>7. b.pay \in Nat
  <2>1. paid \in Nat
    BY Prices
  <2>2. new * Price["option"] \in Nat
    BY <1>6, Prices
  <2> HIDE DEF paid
  <2> QED
    BY <1>1, <2>1, <2>2
<1>8. Cardinality(boxes) \in 0 .. 13
  <2>1. IsFiniteSet(others3) /\ Cardinality(others3) <= 3
    BY SmallSets
  <2>2. IsFiniteSet(rows) /\ Cardinality(rows) <= 2
    BY SmallSets DEF PowerBoxesAround
  <2> HIDE DEF others3, rows
  <2>3. /\ IsFiniteSet(others3 \cup options) /\ Cardinality(others3) \in Nat
        /\ Cardinality(others3 \cup options) \in Nat
        /\ Cardinality(others3 \cup options) <= Cardinality(others3) + Cardinality(options)
    BY <1>3, <2>1, UnionBound
  <2>4. /\ Cardinality(boxes) \in Nat /\ Cardinality(rows) \in Nat
        /\ Cardinality(boxes) <= Cardinality(others3 \cup options) + Cardinality(rows)
    BY <2>2, <2>3, UnionBound
  <2> QED
    BY <1>2, <1>3, <2>1, <2>2, <2>3, <2>4
<1> HIDE DEF boxes
<1>9. IsRefs(b.refs)
  BY <1>1, <1>8, StakeRefsAre
<1>10. b.numbers \subseteq Nat
  BY <1>1 DEF IsProposal
<1> QED
  BY <1>1, <1>4, <1>5, <1>7, <1>9, <1>10 DEF BallotShape, Apps, options

LEMMA ClaimShape ==
  ASSUME NEW c \in Calls, NEW r \in Ballots[c], r.op = "claim", NEW names,
         NEW indexes \in [1 .. r.count + 1 -> Nat], NEW b,
         b = ClaimReward(Owner[c], r, indexes, names), Cardinality(b.boxes) < 11
  PROVE  /\ BallotShape(c, r, b)
         /\ KeptFor(b) = {SheetBox("rewards", Owner[c], n \div ClaimBits) : n \in b.numbers}
<1> DEFINE u == Owner[c]
           numbers == r.from .. r.from + r.count - 1
           sheets == {SheetBox("rewards", u, n \div ClaimBits) : n \in numbers}
           weeks == {PeriodBox(n \div PeriodsPerBox) : n \in numbers}
           each == {PowerBoxesAround(u, indexes[k]) : k \in DOMAIN indexes}
           boxes == {StateBox(u)} \cup sheets \cup weeks \cup UNION each
<1>1. /\ b.op = "claim" /\ b.app = "rewards" /\ b.user = u /\ b.numbers = numbers
      /\ b.boxes = boxes /\ b.refs = ClaimRefs(Cardinality(boxes))
      /\ b.pay = ClaimPay(u, r, names)
  BY DEF ClaimReward
<1>2. r.from \in Nat /\ r.count \in Nat
  BY BallotAssumption
<1>3. IsFiniteSet(numbers) /\ numbers \subseteq Nat
  <2> DEFINE i == r.from
             j == r.from + r.count - 1
  <2>1. i \in Int /\ j \in Int /\ i >= 0
    BY <1>2
  <2>2. numbers = i .. j
    OBVIOUS
  <2> HIDE DEF i, j, numbers
  <2>3. IsFiniteSet(numbers)
    BY <2>1, <2>2, FS_Interval
  <2>4. numbers \subseteq Nat
    BY <2>1, <2>2
  <2> QED
    BY <2>3, <2>4
<1>4. KeptFor(b) = {SheetBox("rewards", u, n \div ClaimBits) : n \in b.numbers}
  BY <1>1 DEF KeptFor, BitsOf
<1> HIDE DEF numbers
<1>5. IsFiniteSet(sheets)
  <2> DEFINE f == [n \in numbers |-> SheetBox("rewards", u, n \div ClaimBits)]
  <2>1. sheets = {f[n] : n \in numbers}
    OBVIOUS
  <2> HIDE DEF f, sheets
  <2> QED
    BY <1>3, <2>1, ImageFinite
<1>6. IsFiniteSet(weeks)
  <2> DEFINE f == [n \in numbers |-> PeriodBox(n \div PeriodsPerBox)]
  <2>1. weeks = {f[n] : n \in numbers}
    OBVIOUS
  <2> HIDE DEF f, weeks
  <2> QED
    BY <1>3, <2>1, ImageFinite
<1>7. IsFiniteSet(UNION each)
  <2> DEFINE f == [k \in 1 .. r.count + 1 |-> PowerBoxesAround(u, indexes[k])]
  <2>1. DOMAIN indexes = 1 .. r.count + 1
    OBVIOUS
  <2>2. each = {f[k] : k \in 1 .. r.count + 1}
    BY <2>1
  <2>3. \A T \in each : IsFiniteSet(T)
    BY SmallSets DEF PowerBoxesAround
  <2>4. IsFiniteSet(1 .. r.count + 1)
    BY <1>2, FS_Interval
  <2> HIDE DEF f, each
  <2>5. IsFiniteSet(each)
    BY <2>2, <2>4, ImageFinite
  <2> QED
    BY <2>3, <2>5, FS_UNION
<1>8. IsFiniteSet(boxes)
  <2>1. IsFiniteSet({StateBox(u)})
    BY FS_Singleton
  <2> HIDE DEF sheets, weeks, each
  <2> DEFINE one == {StateBox(u)}
             all == UNION each
  <2>2. IsFiniteSet(one) /\ IsFiniteSet(all)
    BY <1>7, <2>1
  <2> HIDE DEF one, all
  <2>3. IsFiniteSet(one \cup sheets)
    BY <1>5, <2>2, UnionBound
  <2>4. IsFiniteSet(one \cup sheets \cup weeks)
    BY <1>6, <2>3, UnionBound
  <2>5. IsFiniteSet(one \cup sheets \cup weeks \cup all)
    BY <2>2, <2>4, UnionBound
  <2> QED
    BY <2>5 DEF one, all
<1> HIDE DEF boxes
<1>9. IsRefs(b.refs)
  <2>1. Cardinality(boxes) \in Nat /\ Cardinality(boxes) < 11
    BY <1>1, <1>8, FS_CardinalityType
  <2>2. Cardinality(boxes) \in 0 .. 10
    BY <2>1
  <2> QED
    BY <1>1, <2>2, ClaimRefsAre
<1>10. IsFiniteSet(KeptFor(b))
  BY Zenon, <1>1, <1>4, <1>5
<1>11. b.pay \in Nat
  BY <1>1, Prices DEF ClaimPay
<1> QED
  BY <1>1, <1>3, <1>4, <1>9, <1>10, <1>11 DEF BallotShape, Apps

LEMMA BallotShapeIs ==
  ASSUME NEW c \in Calls, NEW r \in Ballots[c], NEW b, NEW names, NEW props,
         r.op \in {"vote", "stake"} => IsProposal(props[r.id]), IsBallot(c, r, b, names, props)
  PROVE  BallotShape(c, r, b)
<1>1. CASE r.op = "vote"
  <2>1. PICK i \in Nat : b = CastVote(Owner[c], r.id, props[r.id], i, names)
    BY <1>1 DEF IsBallot
  <2>2. IsProposal(props[r.id])
    BY <1>1
  <2> QED
    BY <1>1, <2>1, <2>2, CastVoteShape
<1>2. CASE r.op = "stake"
  <2>1. PICK i \in Nat : b = StakingVote(Owner[c], r, props[r.id], i, names)
    BY <1>2 DEF IsBallot
  <2>2. IsProposal(props[r.id])
    BY <1>2
  <2> QED
    BY <1>2, <2>1, <2>2, StakingShape
<1>3. CASE r.op = "claim"
  <2>1. PICK indexes \in [1 .. r.count + 1 -> Nat] :
          b = ClaimReward(Owner[c], r, indexes, names) /\ Cardinality(b.boxes) < 11
    BY <1>3 DEF IsBallot
  <2> QED
    BY <1>3, <2>1, ClaimShape
<1>4. CASE r.op = "propose"
  <2>1. PICK n : b = CreateProposal(Owner[c], r.id, n)
    BY <1>4 DEF IsBallot
  <2> QED
    BY <1>4, <2>1, ProposeShape
<1>5. r.op \in {"vote", "stake", "claim", "propose"}
  BY BallotAssumption
<1> QED
  BY <1>1, <1>2, <1>3, <1>4, <1>5

\* A group prepared.
LEMMA PreparedBallot ==
  ASSUME WInv, NEW c \in Calls, pc[c] = "prepared"
  PROVE  /\ req[c] \in Ballots[c] /\ IsBallot(c, req[c], ballot[c], facts[c].names, proposals)
         /\ req[c].op \in {"vote", "stake"} =>
              ProposalSeen(req[c], facts[c], proposals) /\ IsProposal(proposals[req[c].id])
         /\ BallotShape(c, req[c], ballot[c]) /\ facts[c].names \subseteq held
         /\ facts[c].at \in Nat
         /\ ~seen[c].failed => Chosen(ballot[c], proposals, facts[c].at, account[Owner[c]])
<1>1. pc[c] \in VotingPlaces
  BY DEF VotingPlaces
<1>2. /\ req[c] \in Ballots[c] /\ IsFacts(facts[c], held, now)
      /\ req[c].op \in {"vote", "stake"} => ProposalSeen(req[c], facts[c], proposals)
  BY <1>1, VotingCall
<1>3. VoteIs(c, pc[c], req[c], seen[c], facts[c], ballot[c], account[Owner[c]], proposals)
  BY Zenon DEF WInv, VoteOK
<1>4. /\ IsBallot(c, req[c], ballot[c], facts[c].names, proposals)
      /\ ~seen[c].failed => Chosen(ballot[c], proposals, facts[c].at, account[Owner[c]])
  BY Zenon, <1>3 DEF VoteIs
<1>5. req[c].op \in {"vote", "stake"} => IsProposal(proposals[req[c].id])
  BY <1>2, VoteNow DEF ProposalSeen
<1>6. BallotShape(c, req[c], ballot[c])
  BY <1>2, <1>4, <1>5, BallotShapeIs
<1>7. facts[c].names \subseteq held /\ facts[c].at \in Nat
  BY <1>2 DEF IsFacts
<1> QED
  BY <1>2, <1>4, <1>5, <1>6, <1>7
-----------------------------------------------------------------------------
(* What a group executed changes.                                           *)

\* A box of a proposal is made with the proposal.
LEMMA BoxesDiffer ==
  ASSUME NEW id, NEW app, NEW u, NEW i, NEW n, NEW a
  PROVE  /\ ProposalBox(id) # SheetBox(app, u, i) /\ ProposalBox(id) # OptionBox(n, a)
         /\ SheetBox(app, u, i) # OptionBox(n, a)
<1>1. ProposalBox(id)[1] = "proposal" /\ SheetBox(app, u, i)[1] = "sheet" /\ OptionBox(n, a)[1] = "option"
  BY DEF ProposalBox, SheetBox, OptionBox
<1>2. "proposal" # "sheet" /\ "proposal" # "option" /\ "sheet" # "option"
  OBVIOUS
<1> QED
  BY Zenon, <1>1, <1>2

LEMMA KeptProposals ==
  ASSUME NEW b, NEW id, ProposalBox(id) \in KeptFor(b)
  PROVE  b.op = "propose" /\ id = b.id
<1> DEFINE sheets == {SheetBox(b.app, b.user, m \div BitsOf(b.app)) : m \in b.numbers}
           new == IF b.op = "propose" THEN {ProposalBox(b.id)} ELSE {}
           options == IF b.op = "stake" THEN {OptionBox(m, a) : m \in b.numbers, a \in b.options} ELSE {}
<1>1. KeptFor(b) = sheets \cup new \cup options
  BY DEF KeptFor
<1>2. ASSUME NEW x \in sheets PROVE \E app, u, i : x = SheetBox(app, u, i)
  OBVIOUS
<1>3. ASSUME NEW x \in options PROVE \E n, a : x = OptionBox(n, a)
  OBVIOUS
<1>4. ASSUME NEW x \in new PROVE b.op = "propose" /\ x = ProposalBox(b.id)
  OBVIOUS
<1> HIDE DEF sheets, new, options
<1>5. ProposalBox(id) \notin sheets
  <2>1. \A app, u, i : ProposalBox(id) # SheetBox(app, u, i)
    BY BoxesDiffer
  <2> QED
    BY Zenon, <1>2, <2>1
<1>6. ProposalBox(id) \notin options
  <2>1. \A n, a : ProposalBox(id) # OptionBox(n, a)
    BY BoxesDiffer
  <2> QED
    BY Zenon, <1>3, <2>1
<1>7. ProposalBox(id) \in new
  BY <1>1, <1>5, <1>6
<1>8. b.op = "propose" /\ ProposalBox(id) = ProposalBox(b.id)
  BY Zenon, <1>4, <1>7
<1>9. ProposalBox(id)[2] = id /\ ProposalBox(b.id)[2] = b.id
  BY DEF ProposalBox
<1> QED
  BY Zenon, <1>8, <1>9

\* What the contracts are once a group is executed.
LEMMA BallotCounts ==
  ASSUME WInv, NEW c \in Calls, ExecuteBallot(c)
  PROVE  ContractsOK' /\ ContractsGrow
<1> DEFINE b == ballot[c]
           made == KeptFor(b) \ held
           cost == PriceOf(made)
           id0 == b.id
           new == [app |-> "voting", index |-> Cardinality(DOMAIN proposals),
                   created |-> now, start |-> 0, end |-> 0, approved |-> FALSE]
<1>1. /\ pc[c] = "prepared" /\ Entitled(b) /\ cost <= surplus[b.app] + b.pay
      /\ marks' = marks \cup {<<b.app, b.user, n>> : n \in b.numbers}
      /\ held' = held \cup KeptFor(b) /\ periods' = periods /\ now' = now
      /\ surplus' = [surplus EXCEPT ![b.app] = @ + b.pay - cost]
      /\ proposals' = IF b.op # "propose" THEN proposals
                      ELSE [id \in DOMAIN proposals \cup {id0} |->
                              IF id \in DOMAIN proposals THEN proposals[id] ELSE new]
  BY DEF ExecuteBallot, Counted, chainVars
<1>2. BallotShape(c, req[c], b)
  BY <1>1, PreparedBallot
<1>3. /\ b.app \in Apps /\ b.user = Owner[c] /\ b.numbers \subseteq Nat /\ IsFiniteSet(KeptFor(b))
      /\ b.pay \in Nat
  BY <1>2 DEF BallotShape
<1>4. ContractsAre(proposals, periods, marks, held, surplus) /\ now \in Nat
  BY VoteNow DEF WInv, ContractsOK
<1>5. cost \in Nat
  <2>1. IsFiniteSet(made)
    BY <1>3, FS_Difference
  <2> HIDE DEF made
  <2> QED
    BY <2>1, PriceType
<1> HIDE DEF cost, b, new, id0
<1>6. surplus' \in [Apps -> Nat]
  <2>1. surplus \in [Apps -> Nat]
    BY <1>4 DEF ContractsAre
  <2>2. surplus[b.app] + b.pay - cost \in Nat
    <3> DEFINE x == surplus[b.app]
               y == b.pay
    <3>1. x \in Nat /\ y \in Nat
      BY <1>3, <2>1
    <3>2. cost <= x + y
      BY <1>1 DEF b
    <3> HIDE DEF x, y
    <3>3. x + y - cost \in Nat
      BY <1>5, <3>1, <3>2
    <3> QED
      BY <3>3 DEF x, y
  <2> QED
    BY <1>1, <2>1, <2>2 DEF b
<1>7. \A m \in marks' : m[1] \in Apps /\ m[2] \in Users /\ m[3] \in Nat
  <2>1. \A m \in marks : m[1] \in Apps /\ m[2] \in Users /\ m[3] \in Nat
    BY <1>4 DEF ContractsAre
  <2>2. b.user \in Users
    BY <1>3, OwnerIsUser DEF b
  <2>3. \A n \in b.numbers : n \in Nat
    BY <1>3 DEF b
  <2>4. b.app \in Apps
    BY <1>3 DEF b
  <2>5. marks' = marks \cup {<<b.app, b.user, n>> : n \in b.numbers}
    BY <1>1 DEF b
  <2> QED
    BY <2>1, <2>2, <2>3, <2>4, <2>5
<1>8. CASE b.op # "propose"
  <2>1. proposals' = proposals
    BY <1>1, <1>8
  <2>2. \A id : ProposalBox(id) \in held' => id \in DOMAIN proposals'
    <3>1. \A id : ProposalBox(id) \notin KeptFor(b)
      BY Zenon, <1>8, KeptProposals
    <3>2. \A id : ProposalBox(id) \in held => id \in DOMAIN proposals
      BY <1>4 DEF ContractsAre
    <3>3. held' = held \cup KeptFor(b)
      BY <1>1 DEF b
    <3> QED
      BY <2>1, <3>1, <3>2, <3>3
  <2>3. ContractsOK'
    BY <1>1, <1>4, <1>6, <1>7, <2>1, <2>2 DEF ContractsOK, ContractsAre
  <2>4. held \subseteq held'
    BY <1>1
  <2> QED
    BY <2>1, <2>3, <2>4, SameContractsGrow
<1>9. CASE b.op = "propose"
  <2> DEFINE D == DOMAIN proposals
  <2>1. proposals' = [id \in D \cup {id0} |-> IF id \in D THEN proposals[id] ELSE new]
    BY <1>1, <1>9
  <2>2. IsFiniteSet(D) /\ Cardinality(D) \in Nat
    <3>1. IsFiniteSet(D)
      BY <1>4 DEF ContractsAre
    <3> QED
      BY <3>1, FS_CardinalityType
  <2>3. IsProposal(new)
    BY <1>4, <2>2 DEF IsProposal, new
  <2>4. IsFiniteSet(D \cup {id0})
    <3> HIDE DEF D
    <3> QED
      BY <2>2, FS_AddElement
  <2>5. DOMAIN proposals' = D \cup {id0}
    BY <2>1
  <2>6. \A id \in DOMAIN proposals' : IsProposal(proposals'[id])
    <3>1. \A id \in D : IsProposal(proposals[id])
      BY <1>4 DEF ContractsAre
    <3> QED
      BY <2>1, <2>3, <3>1
  <2>7. \A id : ProposalBox(id) \in held' => id \in DOMAIN proposals'
    <3>1. \A id : ProposalBox(id) \in KeptFor(b) => id = id0
      BY Zenon, KeptProposals DEF id0, b
    <3>2. \A id : ProposalBox(id) \in held => id \in D
      BY <1>4 DEF ContractsAre
    <3>3. held' = held \cup KeptFor(b)
      BY <1>1 DEF b
    <3> HIDE DEF D
    <3> QED
      BY <2>5, <3>1, <3>2, <3>3
  <2>8. IsFiniteSet(DOMAIN proposals')
    BY Zenon, <2>4, <2>5
  <2>9. ContractsOK'
    BY <1>1, <1>4, <1>6, <1>7, <2>6, <2>7, <2>8 DEF ContractsOK, ContractsAre
  <2>10. MoreProposals(proposals, proposals')
    BY <2>1 DEF MoreProposals
  <2>11. held \subseteq held'
    BY <1>1
  <2> QED
    BY <2>9, <2>10, <2>11 DEF ContractsGrow
<1> QED
  BY <1>8, <1>9

LEMMA ExecuteVotes ==
  ASSUME WInv, NEW c \in Calls, ExecuteBallot(c)
  PROVE  WInv'
<1>1. /\ pc' = [pc EXCEPT ![c] = "counted"] /\ facts' = facts /\ ballot' = ballot
      /\ req' = req /\ seen' = seen /\ group' = group /\ answer' = answer /\ SameChain
  BY DEF ExecuteBallot, chainVars, SameChain
<1>2. /\ VInv /\ OfCalls(pc) /\ OfCalls(req) /\ OfCalls(seen) /\ OfCalls(facts) /\ OfCalls(ballot)
      /\ now \in Nat
  BY VoteNow
<1>3. Kept
  BY <1>2, OtherVotingSteps
<1>4. ContractsOK' /\ ContractsGrow
  BY BallotCounts
<1>5. But(pc, pc', c, "counted")
  BY <1>1, <1>2, Excepted
<1>6. /\ But(req, req, c, req[c]) /\ But(seen, seen, c, seen[c])
      /\ But(facts, facts, c, facts[c]) /\ But(ballot, ballot, c, ballot[c])
  BY <1>2, SameBut
<1>7. Votes(c, "counted", req[c], seen[c], facts[c], ballot[c])
  BY Zenon, <1>1, <1>5, <1>6 DEF Votes
<1>8. "counted" \notin VotingPlaces
  BY DEF VotingPlaces
<1>9. VoteIs(c, "counted", req[c], seen[c], facts[c], ballot[c], account[Owner[c]], proposals')
  BY <1>8, NoVote
<1>10. IsFacts(facts[c], held', now)
  <2>1. now' = now
    BY <1>1 DEF SameChain
  <2>2. IsFacts(facts'[c], held', now')
    <3>1. Grows /\ now' \in Nat /\ facts'[c] = facts[c]
      BY <1>1, <1>2, <1>3, <2>1 DEF Kept
    <3> QED
      BY <1>4, <3>1, FactsLater
  <2> QED
    BY Zenon, <1>1, <2>1, <2>2
<1> QED
  BY <1>1, <1>3, <1>4, <1>7, <1>9, <1>10, VoteChanges

\* No call acts: the vault and the calls are as they were.
LEMMA OthersVote ==
  ASSUME WInv, UNCHANGED vars, facts' = facts, ballot' = ballot, ContractsOK', ContractsGrow
  PROVE  WInv'
<1>1. VInv
  BY DEF WInv
<1>2. /\ now' = now /\ total' = total /\ slopeDelta' = slopeDelta /\ account' = account /\ pc' = pc
      /\ req' = req /\ seen' = seen /\ group' = group /\ answer' = answer
  BY DEF vars, chainVars, callVars
<1>3. VInv' /\ Grows
  <2>1. VInv'
    BY <1>1, VaultStutters
  <2>2. now \in Nat /\ now' \in Nat /\ now <= now'
    BY <1>1, <1>2 DEF VInv, ChainOK, ChainIs
  <2>3. Grows
    BY <1>1, <1>2, <2>2, SameChainGrows
  <2> QED
    BY <2>1, <2>3
<1>4. \A c \in Calls : SameVote(c)
  BY <1>2 DEF SameVote, SameCall
<1>5. \A c \in Calls : VoteOK(c)'
  BY <1>3, <1>4, SameVoteKept
<1>6. OfCalls(facts)' /\ OfCalls(ballot)'
  BY Zenon DEF WInv, OfCalls
<1> QED
  BY Zenon, <1>3, <1>5, <1>6 DEF WInv
-----------------------------------------------------------------------------
(* Every step keeps the invariant of the votes.                             *)

LEMMA VotingBegins == VotingInit => WInv
<1> SUFFICES ASSUME VotingInit PROVE WInv
  OBVIOUS
<1>1. /\ Init /\ proposals = FirstProposals /\ periods = FirstPeriods /\ marks = {} /\ held = {}
      /\ surplus = [a \in Apps |-> 0] /\ facts = [c \in Calls |-> NoFacts]
      /\ ballot = [c \in Calls |-> None]
  BY DEF VotingInit
<1>2. VInv
  BY <1>1, VInvAtFirst
<1>3. OfCalls(facts) /\ OfCalls(ballot)
  BY <1>1 DEF OfCalls
<1>4. ContractsOK
  <2>1. /\ IsFiniteSet(DOMAIN FirstProposals) /\ FirstPeriods \in 0 .. MaxPeriods
        /\ \A id \in DOMAIN FirstProposals : IsProposal(FirstProposals[id])
    BY VotingAssumption DEF IsProposal
  <2>2. surplus \in [Apps -> Nat]
    BY <1>1
  <2> QED
    BY <1>1, <2>1, <2>2 DEF ContractsOK, ContractsAre
<1>5. ASSUME NEW c \in Calls PROVE VoteOK(c)
  <2>1. pc[c] = "idle"
    BY <1>1 DEF Init
  <2>2. facts[c] = NoFacts
    BY <1>1
  <2>3. now \in Nat
    BY <1>2 DEF VInv, ChainOK, ChainIs
  <2>4. IsFacts(NoFacts, held, now)
    BY <2>3 DEF IsFacts, NoFacts
  <2>5. "idle" \notin VotingPlaces
    BY DEF VotingPlaces
  <2>6. VoteIs(c, "idle", req[c], seen[c], facts[c], ballot[c], account[Owner[c]], proposals)
    BY <2>5, NoVote
  <2> QED
    BY Zenon, <2>1, <2>2, <2>4, <2>6 DEF VoteOK
<1> QED
  BY <1>2, <1>3, <1>4, <1>5 DEF WInv

LEMMA OtherVoteKept ==
  ASSUME WInv, NEW id, NEW a, OtherVote(id, a)
  PROVE  WInv'
<1>1. /\ held' = held \cup {OptionBox(proposals[id].index, a)} /\ UNCHANGED vars /\ proposals' = proposals
      /\ periods' = periods /\ marks' = marks /\ surplus' = surplus /\ facts' = facts /\ ballot' = ballot
  BY DEF OtherVote
<1>2. \A i : ProposalBox(i) # OptionBox(proposals[id].index, a)
  BY BoxesDiffer
<1>3. \A i : ProposalBox(i) \in held' => ProposalBox(i) \in held
  BY <1>1, <1>2
<1>4. ContractsAre(proposals, periods, marks, held, surplus)
  BY DEF WInv, ContractsOK
<1>5. ContractsAre(proposals, periods, marks, held', surplus)
  BY <1>3, <1>4 DEF ContractsAre
<1>6. ContractsOK'
  BY Zenon, <1>1, <1>5 DEF ContractsOK
<1>7. ContractsGrow
  BY <1>1, SameContractsGrow
<1> QED
  BY <1>1, <1>6, <1>7, OthersVote

LEMMA NewPeriodKept ==
  ASSUME WInv, NewPeriod
  PROVE  WInv'
<1>1. /\ periods < MaxPeriods /\ periods' = periods + 1 /\ UNCHANGED vars /\ proposals' = proposals
      /\ held' = held /\ marks' = marks /\ surplus' = surplus /\ facts' = facts /\ ballot' = ballot
  BY DEF NewPeriod
<1>2. ContractsAre(proposals, periods, marks, held, surplus) /\ MaxPeriods \in Nat
  BY VotingAssumption DEF WInv, ContractsOK
<1>3. periods + 1 \in 0 .. MaxPeriods
  BY <1>1, <1>2 DEF ContractsAre
<1>4. ContractsAre(proposals, periods + 1, marks, held, surplus)
  BY <1>2, <1>3 DEF ContractsAre
<1>5. ContractsOK'
  BY Zenon, <1>1, <1>4 DEF ContractsOK
<1>6. ContractsGrow
  BY <1>1, SameContractsGrow
<1> QED
  BY <1>1, <1>5, <1>6, OthersVote

LEMMA VotingStutters ==
  ASSUME WInv, UNCHANGED <<vars, votingVars>>
  PROVE  WInv'
<1>1. /\ UNCHANGED vars /\ proposals' = proposals /\ periods' = periods /\ marks' = marks
      /\ held' = held /\ surplus' = surplus /\ facts' = facts /\ ballot' = ballot
  BY DEF votingVars, contracts
<1>2. ContractsOK'
  BY Zenon, <1>1 DEF WInv, ContractsOK
<1>3. ContractsGrow
  BY <1>1, SameContractsGrow
<1> QED
  BY <1>1, <1>2, <1>3, OthersVote

\* What is known of the contracts and of every call that votes stays known.
THEOREM WInvInductive == VotingSpec => []WInv
<1>1. VotingInit => WInv
  BY VotingBegins
<1>2. ASSUME WInv, [VotingNext]_<<vars, votingVars>> PROVE WInv'
  <2>1. CASE Next /\ UNCHANGED votingVars
    BY <1>2, <2>1, VaultStepVotes
  <2>2. CASE NewPeriod
    BY <1>2, <2>2, NewPeriodKept
  <2>3. ASSUME NEW v \in OtherVotes, OtherVote(v[1], v[2]) PROVE WInv'
    BY <1>2, <2>3, OtherVoteKept
  <2>4. ASSUME NEW c \in Calls, NEW r \in Ballots[c], FetchProposal(c, r) PROVE WInv'
    BY <1>2, <2>4, ProposalVotes
  <2>5. ASSUME NEW c \in Calls, NEW r \in Ballots[c], NEW failed \in BOOLEAN, NEW lag \in Lags,
               FetchVoter(c, r, failed, now - lag)
        PROVE  WInv'
    BY <1>2, <2>5, VoterVotes
  <2>6. ASSUME NEW c \in Calls, NEW r \in Ballots[c], FetchVaultState(c, r) PROVE WInv'
    BY <1>2, <2>6, VaultVotes
  <2>7. ASSUME NEW c \in Calls, GetAllBoxNames(c) PROVE WInv'
    BY <1>2, <2>7, NamesVotes
  <2>8. ASSUME NEW c \in Calls, FetchRewardsState(c) PROVE WInv'
    BY <1>2, <2>8, RewardsVotes
  <2>9. ASSUME NEW c \in Calls, ReadPowerBox(c) PROVE WInv'
    BY <1>2, <2>9, ReadVotes
  <2>10. ASSUME NEW c \in Calls, NEW failed \in BOOLEAN, GenerateCastVote(c, failed) PROVE WInv'
    BY <1>2, <2>10, CastVotes
  <2>11. ASSUME NEW c \in Calls, GenerateStakingVote(c) PROVE WInv'
    BY <1>2, <2>11, StakingVotes
  <2>12. ASSUME NEW c \in Calls, GenerateClaimReward(c) PROVE WInv'
    BY <1>2, <2>12, ClaimVotes
  <2>13. ASSUME NEW c \in Calls, GenerateCreateProposal(c) PROVE WInv'
    BY <1>2, <2>13, ProposeVotes
  <2>14. ASSUME NEW c \in Calls, GiveUp(c) \/ RefuseBallot(c) PROVE WInv'
    BY <1>2, <2>14, VoteEnds
  <2>15. ASSUME NEW c \in Calls, ExecuteBallot(c) PROVE WInv'
    BY <1>2, <2>15, ExecuteVotes
  <2>16. CASE UNCHANGED <<vars, votingVars>>
    BY <1>2, <2>16, VotingStutters
  <2> QED
    BY Zenon, <1>2, <2>1, <2>2, <2>3, <2>4, <2>5, <2>6, <2>7, <2>8, <2>9, <2>10, <2>11, <2>12, <2>13,
       <2>14, <2>15, <2>16 DEF VotingNext
<1>3. WInv /\ [VotingNext]_<<vars, votingVars>> => WInv'
  BY <1>2
<1> QED
  BY <1>1, <1>3, PTL DEF VotingSpec

LEMMA WInvTypes == WInv => VotingTypeOK
<1> SUFFICES ASSUME WInv PROVE VotingTypeOK
  OBVIOUS
<1>1. ContractsAre(proposals, periods, marks, held, surplus)
  BY DEF WInv, ContractsOK
<1>2. /\ periods \in 0 .. MaxPeriods /\ surplus \in [Apps -> Nat]
      /\ \A m \in marks : m[1] \in Apps /\ m[2] \in Users /\ m[3] \in Nat
  BY <1>1 DEF ContractsAre
<1>3. ASSUME NEW c \in Calls, pc[c] = "prepared"
      PROVE  ballot[c].pay \in Nat /\ \A k \in DOMAIN ballot[c].refs : ballot[c].refs[k] \in 1 .. MaxRefs
  BY <1>3, PreparedBallot DEF BallotShape, IsRefs
<1> QED
  BY <1>2, <1>3 DEF VotingTypeOK

\* The votes and claims made are of accounts, the contracts owe nobody, and no
\* transaction of a group refers to more than it may.
THEOREM VotingTypesHold == VotingSpec => []VotingTypeOK
BY WInvInductive, WInvTypes, PTL
-----------------------------------------------------------------------------
(* The rows of power named.                                                 *)

\* The times a group's rows are of.
LEMMA BallotTimes ==
  ASSUME NEW c \in Calls, NEW r \in Ballots[c], NEW b, NEW names,
         r.op \in {"vote", "stake"} => IsProposal(proposals[r.id]), IsBallot(c, r, b, names, proposals)
  PROVE  /\ b.user = Owner[c]
         /\ Len(TimesOf(b)) = Len(b.indexes) /\ DOMAIN TimesOf(b) = DOMAIN b.indexes
         /\ \A k \in DOMAIN b.indexes :
              /\ b.indexes[k] \in Nat /\ TimesOf(b)[k] = TimeOf(b, proposals, k)
<1>1. CASE r.op = "vote"
  <2>1. PICK i \in Nat : b = CastVote(Owner[c], r.id, proposals[r.id], i, names)
    BY <1>1 DEF IsBallot
  <2>2. b.op = "vote" /\ b.id = r.id /\ b.indexes = <<i>> /\ b.user = Owner[c]
    BY <2>1 DEF CastVote
  <2>3. TimesOf(b) = <<proposals[b.id].created>>
    BY <2>2 DEF TimesOf
  <2>4. \A k : TimeOf(b, proposals, k) = proposals[b.id].created
    BY <2>2 DEF TimeOf
  <2> QED
    BY <2>2, <2>3, <2>4
<1>2. CASE r.op = "stake"
  <2>1. PICK i \in Nat : b = StakingVote(Owner[c], r, proposals[r.id], i, names)
    BY <1>2 DEF IsBallot
  <2>2. b.op = "stake" /\ b.id = r.id /\ b.indexes = <<i>> /\ b.user = Owner[c]
    BY <2>1 DEF StakingVote
  <2>3. TimesOf(b) = <<proposals[b.id].created>>
    BY <2>2 DEF TimesOf
  <2>4. \A k : TimeOf(b, proposals, k) = proposals[b.id].created
    BY <2>2 DEF TimeOf
  <2> QED
    BY <2>2, <2>3, <2>4
<1>3. CASE r.op = "claim"
  <2>1. PICK indexes \in [1 .. r.count + 1 -> Nat] : b = ClaimReward(Owner[c], r, indexes, names)
    BY <1>3 DEF IsBallot
  <2>2. /\ b.op = "claim" /\ b.from = r.from /\ b.indexes = indexes /\ b.user = Owner[c]
        /\ b.numbers = r.from .. r.from + r.count - 1
    BY <2>1 DEF ClaimReward
  <2>3. r.from \in Nat /\ r.count \in Nat \ {0}
    BY <1>3, BallotAssumption
  <2>4. Cardinality(b.numbers) = r.count
    <3> DEFINE i == r.from
               j == r.from + r.count - 1
    <3>1. i \in Int /\ j \in Int /\ ~ i > j /\ j - i + 1 = r.count /\ b.numbers = i .. j
      BY <2>2, <2>3
    <3> HIDE DEF i, j
    <3>2. Cardinality(i .. j) = IF i > j THEN 0 ELSE j - i + 1
      BY <3>1, FS_Interval
    <3> QED
      BY <3>1, <3>2
  <2> DEFINE n == r.count + 1
             time(k) == FirstPeriod + (b.from + k - 1) * WEEK
  <2>5. TimesOf(b) = [k \in 1 .. n |-> time(k)]
    BY Zenon, <2>2, <2>4 DEF TimesOf
  <2>6. n \in Nat /\ DOMAIN indexes = 1 .. n /\ \A k \in 1 .. n : indexes[k] \in Nat
    BY <2>3
  <2>7. \A k : TimeOf(b, proposals, k) = time(k)
    BY Zenon, <2>2 DEF TimeOf
  <2> HIDE DEF n, time
  <2>8. DOMAIN TimesOf(b) = 1 .. n /\ \A k \in 1 .. n : TimesOf(b)[k] = time(k)
    BY <2>5
  <2>9. Len(TimesOf(b)) = n /\ Len(indexes) = n
    <3> DEFINE times == TimesOf(b)
    <3>1. DOMAIN times = 1 .. n
      BY <2>8
    <3> HIDE DEF times
    <3>2. Len(times) = n
      BY <2>6, <3>1
    <3>3. Len(indexes) = n
      BY <2>6
    <3> QED
      BY <3>2, <3>3 DEF times
  <2> QED
    BY Zenon, <2>2, <2>6, <2>7, <2>8, <2>9
<1>4. CASE r.op = "propose"
  <2>1. PICK n : b = CreateProposal(Owner[c], r.id, n)
    BY <1>4 DEF IsBallot
  <2>2. b.op = "propose" /\ b.indexes = <<>> /\ b.user = Owner[c]
    BY <2>1 DEF CreateProposal
  <2>3. TimesOf(b) = <<>>
    BY <2>2 DEF TimesOf
  <2> QED
    BY <2>2, <2>3
<1>5. r.op \in {"vote", "stake", "claim", "propose"}
  BY BallotAssumption
<1> QED
  BY <1>1, <1>2, <1>3, <1>4, <1>5

\* The row chosen is the one the contract asks for.
LEMMA ChosenIsRight ==
  ASSUME NEW b, NEW acc, acc = account[b.user], NEW at, IsAccount(acc, at), NEW since \in Nat,
         Chosen(b, proposals, since, acc), NEW k \in DOMAIN b.indexes, b.indexes[k] \in Nat,
         TimesOf(b)[k] = TimeOf(b, proposals, k), TimesOf(b)[k] < since, acc.powers # <<>>
  PROVE  RightIndex(b, k)
<1> DEFINE t == TimesOf(b)[k]
           rows == acc.powers
           i == b.indexes[k]
<1>1. TimeOf(b, proposals, k) = t /\ t < since
  OBVIOUS
<1> HIDE DEF t
<1>2. PICK m \in Nat : /\ MadeBy(rows, t, m)
                       /\ \/ i = m - 1
                          \/ b.op = "claim" /\ m = 0 /\ i = 0
  BY Zenon, <1>1 DEF Chosen
<1>3. rows \in Seq(Rows) /\ i \in Nat /\ rows # <<>>
  BY DEF IsAccount
<1> HIDE DEF rows, i
<1>4. Len(rows) \in Nat /\ Len(rows) >= 1 /\ DOMAIN rows = 1 .. Len(rows)
  BY <1>3
<1>5. /\ m \in 0 .. Len(rows) /\ (\A j \in 1 .. m : rows[j].timestamp <= t)
      /\ (\A j \in m + 1 .. Len(rows) : rows[j].timestamp > t)
  BY <1>2 DEF MadeBy
<1>6. CASE i = m - 1
  <2>1. m = i + 1 /\ m \in 1 .. m /\ i < Len(rows)
    BY <1>3, <1>4, <1>5, <1>6
  <2>2. rows[i + 1].timestamp <= t
    BY <1>5, <2>1
  <2>3. i + 1 < Len(rows) => rows[i + 2].timestamp > t
    <3>1. i + 1 < Len(rows) => i + 2 \in m + 1 .. Len(rows)
      BY <1>3, <1>4, <2>1
    <3> QED
      BY Zenon, <1>5, <3>1
  <2>4. IsLastBy(rows, i, t)
    BY Zenon, <2>1, <2>2, <2>3 DEF IsLastBy
  <2> QED
    BY Zenon, <2>4 DEF RightIndex, rows, i, t
<1>7. CASE b.op = "claim" /\ m = 0 /\ i = 0
  <2>1. 1 \in m + 1 .. Len(rows)
    BY <1>4, <1>7
  <2>2. rows[1].timestamp > t
    BY Zenon, <1>5, <2>1
  <2> QED
    BY Zenon, <1>3, <1>7, <2>2 DEF RightIndex, rows, i, t
<1> QED
  BY <1>2, <1>6, <1>7

LEMMA WInvRow == WInv => PowerIndexStaysRight
<1> SUFFICES ASSUME WInv, NEW c \in Calls, pc[c] = "prepared", ~seen[c].failed,
                    account[Owner[c]].powers # <<>>,
                    NEW k \in DOMAIN ballot[c].indexes, TimesOf(ballot[c])[k] < facts[c].at
             PROVE  RightIndex(ballot[c], k)
  BY DEF PowerIndexStaysRight
<1> DEFINE b == ballot[c]
           acc == account[Owner[c]]
<1>1. /\ req[c] \in Ballots[c] /\ IsBallot(c, req[c], b, facts[c].names, proposals)
      /\ req[c].op \in {"vote", "stake"} => IsProposal(proposals[req[c].id])
      /\ facts[c].at \in Nat /\ Chosen(b, proposals, facts[c].at, acc)
  BY PreparedBallot
<1>2. b.user = Owner[c] /\ b.indexes[k] \in Nat /\ TimesOf(b)[k] = TimeOf(b, proposals, k)
  BY <1>1, BallotTimes
<1>3. IsAccount(acc, now)
  BY VoteNow
<1> QED
  BY <1>1, <1>2, <1>3, ChosenIsRight

\* The row of power a group names stays the last by its time: for any locks, any
\* history and any steps of other calls between the read and the group.
THEOREM PowerIndexHolds == VotingSpec => []PowerIndexStaysRight
BY WInvInductive, WInvRow, PTL
-----------------------------------------------------------------------------
(* What the groups pay.                                                     *)

\* What the boxes of each kind cost is added up.
LEMMA PriceSplit ==
  ASSUME NEW a \in Apps, NEW S, IsFiniteSet(S), NEW O, IsFiniteSet(O), NEW P, IsFiniteSet(P),
         \A x \in S : x[1] = "sheet" /\ x[2] = a,
         \A x \in O : x[1] = "option", \A x \in P : x[1] = "proposal"
  PROVE  /\ PriceOf(S \cup O \cup P) = Price[a] * Cardinality(S) + Price["option"] * Cardinality(O)
                                        + Price["proposal"] * Cardinality(P)
         /\ Cardinality(S) \in Nat /\ Cardinality(O) \in Nat /\ Cardinality(P) \in Nat
<1> DEFINE B == S \cup O \cup P
<1>1. Cardinality(S) \in Nat /\ Cardinality(O) \in Nat /\ Cardinality(P) \in Nat
  BY FS_CardinalityType
<1>2. "sheet" # "option" /\ "sheet" # "proposal" /\ "option" # "proposal"
  OBVIOUS
<1>3. OfKind(B, "option") = O
  BY <1>2 DEF OfKind
<1>4. OfKind(B, "proposal") = P
  BY <1>2 DEF OfKind
<1>5. \A app : SheetsIn(B, app) = IF app = a THEN S ELSE {}
  BY <1>2 DEF SheetsIn
<1>6. Cardinality({}) = 0
  BY FS_EmptySet
<1> DEFINE of(app) == Cardinality(SheetsIn(B, app))
<1>7. \A app : of(app) = IF app = a THEN Cardinality(S) ELSE 0
  BY Zenon, <1>5, <1>6
<1>8. PriceOf(B) = Price["voting"] * of("voting") + Price["staking"] * of("staking")
                    + Price["rewards"] * of("rewards")
                    + Price["option"] * Cardinality(O) + Price["proposal"] * Cardinality(P)
  BY Zenon, <1>3, <1>4, PriceIs
<1> DEFINE s == Cardinality(S)
           o == Price["option"] * Cardinality(O)
           p == Price["proposal"] * Cardinality(P)
<1>9. o \in Nat /\ p \in Nat /\ s \in Nat
  <2>1. \A m, n \in Nat : m * n \in Nat
    OBVIOUS
  <2> QED
    BY <1>1, <2>1, Prices
<1>10. PriceOf(B) = Price["voting"] * of("voting") + Price["staking"] * of("staking")
                     + Price["rewards"] * of("rewards") + o + p
  BY <1>8
<1>11. \A app : of(app) = IF app = a THEN s ELSE 0
  BY <1>7
<1> HIDE DEF s, o, p, of, B
<1>12. \A x \in Nat : x * 0 = 0
  OBVIOUS
<1>13. a \in {"voting", "staking", "rewards"}
  BY DEF Apps
<1>14. \A x \in Nat : x * s \in Nat
  BY <1>9
<1>15. CASE a = "voting"
  <2>1. of("voting") = s /\ of("staking") = 0 /\ of("rewards") = 0
    BY <1>11, <1>15
  <2>2. Price["staking"] * 0 = 0 /\ Price["rewards"] * 0 = 0 /\ Price["voting"] * s \in Nat
    BY <1>12, <1>14, Prices
  <2>3. PriceOf(B) = Price["voting"] * s + 0 + 0 + o + p
    BY Zenon, <1>10, <2>1, <2>2
  <2>4. PriceOf(B) = Price["voting"] * s + o + p
    BY <1>9, <2>2, <2>3
  <2> QED
    BY Zenon, <1>1, <1>15, <2>4 DEF s, o, p, B
<1>16. CASE a = "staking"
  <2>1. of("voting") = 0 /\ of("staking") = s /\ of("rewards") = 0
    BY <1>11, <1>16
  <2>2. Price["voting"] * 0 = 0 /\ Price["rewards"] * 0 = 0 /\ Price["staking"] * s \in Nat
    BY <1>12, <1>14, Prices
  <2>3. PriceOf(B) = 0 + Price["staking"] * s + 0 + o + p
    BY Zenon, <1>10, <2>1, <2>2
  <2>4. PriceOf(B) = Price["staking"] * s + o + p
    BY <1>9, <2>2, <2>3
  <2> QED
    BY Zenon, <1>1, <1>16, <2>4 DEF s, o, p, B
<1>17. CASE a = "rewards"
  <2>1. of("voting") = 0 /\ of("staking") = 0 /\ of("rewards") = s
    BY <1>11, <1>17
  <2>2. Price["voting"] * 0 = 0 /\ Price["staking"] * 0 = 0 /\ Price["rewards"] * s \in Nat
    BY <1>12, <1>14, Prices
  <2>3. PriceOf(B) = 0 + 0 + Price["rewards"] * s + o + p
    BY Zenon, <1>10, <2>1, <2>2
  <2>4. PriceOf(B) = Price["rewards"] * s + o + p
    BY <1>9, <2>2, <2>3
  <2> QED
    BY Zenon, <1>1, <1>17, <2>4 DEF s, o, p, B
<1> QED
  BY <1>13, <1>15, <1>16, <1>17

\* A box costs its price unless it is there.
LEMMA OneMissing ==
  ASSUME NEW x, NEW h
  PROVE  IsFiniteSet({x} \ h) /\ Cardinality({x} \ h) = IF x \in h THEN 0 ELSE 1
<1>1. CASE x \in h
  <2>1. {x} \ h = {}
    BY <1>1
  <2> QED
    BY <1>1, <2>1, FS_EmptySet
<1>2. CASE x \notin h
  <2>1. {x} \ h = {x}
    BY <1>2
  <2> QED
    BY <1>2, <2>1, FS_Singleton
<1> QED
  BY <1>1, <1>2

LEMMA FewerLeft ==
  ASSUME NEW S, IsFiniteSet(S), NEW g, NEW h, g \subseteq h
  PROVE  /\ IsFiniteSet(S \ g) /\ IsFiniteSet(S \ h)
         /\ Cardinality(S \ g) \in Nat /\ Cardinality(S \ h) \in Nat
         /\ Cardinality(S \ h) <= Cardinality(S \ g)
         /\ Cardinality(S \ h) = Cardinality(S \ g) <=> S \cap h \subseteq g
<1>1. IsFiniteSet(S \ g) /\ S \ h \subseteq S \ g
  BY FS_Difference
<1>2. /\ IsFiniteSet(S \ h) /\ Cardinality(S \ h) <= Cardinality(S \ g)
      /\ Cardinality(S \ g) = Cardinality(S \ h) => S \ h = S \ g
  BY <1>1, FS_Subset
<1>3. Cardinality(S \ g) \in Nat /\ Cardinality(S \ h) \in Nat
  BY <1>1, <1>2, FS_CardinalityType
<1>4. S \ h = S \ g <=> S \cap h \subseteq g
  OBVIOUS
<1>5. S \ h = S \ g => Cardinality(S \ h) = Cardinality(S \ g)
  OBVIOUS
<1> QED
  BY <1>1, <1>2, <1>3, <1>4, <1>5

\* A group that pays for its boxes, and for no more than it found missing.
PaysFor(b, names, h) ==
  LET cost == PriceOf(KeptFor(b) \ h)
  IN  /\ cost \in Nat /\ cost <= b.pay
      /\ cost = b.pay \/ ~(KeptFor(b) \cap h \subseteq names)

\* The price of sheets and options, none of another kind.
LEMMA PriceOfTwo ==
  ASSUME NEW a \in Apps, NEW S, IsFiniteSet(S), NEW O, IsFiniteSet(O),
         \A x \in S : x[1] = "sheet" /\ x[2] = a, \A x \in O : x[1] = "option"
  PROVE  PriceOf(S \cup O) = Price[a] * Cardinality(S) + Price["option"] * Cardinality(O)
<1> DEFINE P == {x \in {} : x[1] = "proposal"}
<1>1. P = {} /\ IsFiniteSet({}) /\ Cardinality({}) = 0
  BY FS_EmptySet
<1>2. \A x \in P : x[1] = "proposal"
  OBVIOUS
<1>3. IsFiniteSet(P) /\ Cardinality(P) = 0
  BY Zenon, <1>1
<1>4. S \cup O \cup P = S \cup O
  BY <1>1
<1> HIDE DEF P
<1>5. /\ PriceOf(S \cup O \cup P) = Price[a] * Cardinality(S) + Price["option"] * Cardinality(O)
                                       + Price["proposal"] * Cardinality(P)
      /\ Cardinality(S) \in Nat /\ Cardinality(O) \in Nat
  <2>1. PriceOf(S \cup O \cup P) = Price[a] * Cardinality(S) + Price["option"] * Cardinality(O)
                                       + Price["proposal"] * Cardinality(P)
    BY Z3, <1>2, <1>3, PriceSplit
  <2>2. Cardinality(S) \in Nat /\ Cardinality(O) \in Nat
    BY FS_CardinalityType
  <2> QED
    BY Zenon, <2>1, <2>2
<1>6. Price["proposal"] * 0 = 0 /\ Price[a] \in Nat /\ Price["option"] \in Nat
  BY Prices DEF Apps
<1> DEFINE s == Price[a] * Cardinality(S)
           o == Price["option"] * Cardinality(O)
<1>7. s \in Nat /\ o \in Nat
  BY <1>5, <1>6
<1> HIDE DEF s, o
<1>8. PriceOf(S \cup O) = s + o + 0
  BY Zenon, <1>3, <1>4, <1>5, <1>6 DEF s, o
<1> QED
  BY <1>7, <1>8 DEF s, o

LEMMA PriceOfSheets ==
  ASSUME NEW a \in Apps, NEW S, IsFiniteSet(S), \A x \in S : x[1] = "sheet" /\ x[2] = a
  PROVE  PriceOf(S) = Price[a] * Cardinality(S)
<1> DEFINE O == {x \in {} : x[1] = "option"}
<1>1. O = {} /\ IsFiniteSet({}) /\ Cardinality({}) = 0
  BY FS_EmptySet
<1>2. \A x \in O : x[1] = "option"
  OBVIOUS
<1>3. IsFiniteSet(O) /\ Cardinality(O) = 0
  BY Zenon, <1>1
<1>4. S \cup O = S
  BY <1>1
<1> HIDE DEF O
<1>5. PriceOf(S \cup O) = Price[a] * Cardinality(S) + Price["option"] * Cardinality(O)
  BY <1>2, <1>3, PriceOfTwo
<1>6. Price["option"] * 0 = 0 /\ Price[a] \in Nat /\ Cardinality(S) \in Nat
  BY Prices, FS_CardinalityType DEF Apps
<1> DEFINE s == Price[a] * Cardinality(S)
<1>7. s \in Nat
  BY <1>6
<1> HIDE DEF s
<1>8. PriceOf(S) = s + 0
  BY Zenon, <1>3, <1>4, <1>5, <1>6 DEF s
<1> QED
  BY <1>7, <1>8 DEF s

LEMMA VotePays ==
  ASSUME NEW u, NEW id, NEW p, NEW i, NEW names, NEW h, names \subseteq h, NEW b,
         b = CastVote(u, id, p, i, names)
  PROVE  PaysFor(b, names, h)
<1> DEFINE x == SheetBox("voting", u, p.index \div SheetBits)
           n == Cardinality({x} \ h)
<1>1. /\ b.op = "vote" /\ b.app = "voting" /\ b.user = u /\ b.numbers = {p.index}
      /\ b.pay = IF x \in names THEN 0 ELSE Price["voting"]
  BY DEF CastVote
<1>2. KeptFor(b) = {x}
  <2>1. KeptFor(b) = {SheetBox("voting", u, m \div BitsOf("voting")) : m \in {p.index}}
    BY <1>1 DEF KeptFor
  <2> QED
    BY <2>1 DEF BitsOf
<1>3. IsFiniteSet({x} \ h) /\ n = IF x \in h THEN 0 ELSE 1
  BY OneMissing
<1>4. PriceOf({x} \ h) = Price["voting"] * n
  <2> DEFINE S == {x} \ h
  <2>1. \A y \in S : y[1] = "sheet" /\ y[2] = "voting"
    BY DEF SheetBox
  <2>2. IsFiniteSet(S) /\ "voting" \in Apps
    BY <1>3 DEF Apps
  <2>3. n = Cardinality(S)
    OBVIOUS
  <2> HIDE DEF S, n
  <2>4. PriceOf(S) = Price["voting"] * Cardinality(S)
    BY <2>1, <2>2, PriceOfSheets
  <2> QED
    BY Zenon, <2>3, <2>4 DEF S
<1> HIDE DEF n
<1>5. Price["voting"] \in Nat
  BY Prices
<1>6. CASE x \in names
  <2>1. x \in h /\ n = 0 /\ b.pay = 0
    BY <1>1, <1>3, <1>6
  <2>2. PriceOf(KeptFor(b) \ h) = 0
    BY <1>2, <1>4, <1>5, <2>1
  <2> QED
    BY <2>1, <2>2 DEF PaysFor
<1>7. CASE x \notin names /\ x \in h
  <2>1. n = 0 /\ b.pay = Price["voting"]
    BY <1>1, <1>3, <1>7
  <2>2. PriceOf(KeptFor(b) \ h) = 0
    BY <1>2, <1>4, <1>5, <2>1
  <2>3. ~(KeptFor(b) \cap h \subseteq names)
    BY <1>2, <1>7
  <2> QED
    BY <1>5, <2>1, <2>2, <2>3 DEF PaysFor
<1>8. CASE x \notin h
  <2>1. n = 1 /\ b.pay = Price["voting"]
    BY <1>1, <1>3, <1>8
  <2>2. PriceOf(KeptFor(b) \ h) = Price["voting"]
    BY <1>2, <1>4, <1>5, <2>1
  <2> QED
    BY <1>5, <2>1, <2>2 DEF PaysFor
<1> QED
  BY <1>6, <1>7, <1>8

\* A staking vote, when both divide the number into the same sheet.
LEMMA StakePays ==
  ASSUME NEW u, NEW r, IsFiniteSet(r.options), NEW p, NEW i, NEW names, NEW h, names \subseteq h, NEW b,
         b = StakingVote(u, r, p, i, names), p.index \div SheetBits = p.index \div StakingSpan
  PROVE  PaysFor(b, names, h)
<1> DEFINE x == SheetBox("staking", u, p.index \div SheetBits)
           options == OptionBoxes(p.index, r.options)
           n == Cardinality({x} \ h)
           k == Cardinality(options \ names)
           m == Cardinality(options \ h)
           paid == IF x \in names THEN 0 ELSE Price["staking"]
<1>1. /\ b.op = "stake" /\ b.app = "staking" /\ b.user = u /\ b.numbers = {p.index}
      /\ b.options = r.options /\ b.pay = paid + k * Price["option"]
  BY DEF StakingVote, OptionBoxes, NewOptions
<1>2. KeptFor(b) = {x} \cup options
  BY <1>1, StakingKept
<1>3. IsFiniteSet({x} \ h) /\ n = IF x \in h THEN 0 ELSE 1
  BY OneMissing
<1>4. IsFiniteSet(options)
  BY OptionsFinite
<1>5. /\ IsFiniteSet(options \ h) /\ k \in Nat /\ m \in Nat /\ m <= k
      /\ m = k <=> options \cap h \subseteq names
  <2> HIDE DEF options
  <2> QED
    BY <1>4, FewerLeft
<1>6. \A y \in options : y[1] = "option"
  BY DEF OptionBoxes, OptionBox
<1>7. PriceOf(KeptFor(b) \ h) = Price["staking"] * n + Price["option"] * m
  <2> DEFINE S == {x} \ h
             O == options \ h
  <2>1. \A y \in S : y[1] = "sheet" /\ y[2] = "staking"
    BY DEF SheetBox
  <2>2. \A y \in O : y[1] = "option"
    BY <1>6
  <2>3. IsFiniteSet(S) /\ IsFiniteSet(O) /\ "staking" \in Apps
    BY <1>3, <1>5 DEF Apps
  <2>4. n = Cardinality(S) /\ m = Cardinality(O)
    OBVIOUS
  <2>5. KeptFor(b) \ h = S \cup O
    BY <1>2
  <2> HIDE DEF S, O, n, m
  <2>6. PriceOf(S \cup O) = Price["staking"] * Cardinality(S) + Price["option"] * Cardinality(O)
    BY <2>1, <2>2, <2>3, PriceOfTwo
  <2> QED
    BY Zenon, <2>4, <2>5, <2>6
<1> HIDE DEF n, k, m, options
<1>8. /\ Price["staking"] \in Nat \ {0} /\ Price["option"] \in Nat \ {0}
  BY Prices
<1>9. /\ Price["option"] * m \in Nat /\ k * Price["option"] \in Nat
      /\ Price["option"] * m <= k * Price["option"]
      /\ Price["option"] * m = k * Price["option"] => m = k
  <2> DEFINE o == Price["option"]
  <2>1. o \in Nat \ {0}
    BY <1>8
  <2> HIDE DEF o
  <2>2. k * o - o * m = (k - m) * o
    BY <1>5, <2>1
  <2>3. k - m \in Nat /\ (k - m) * o \in Nat /\ o * m \in Nat /\ k * o \in Nat
    BY <1>5, <2>1
  <2>4. k # m => (k - m) * o > 0
    <3>1. \A a \in Nat \ {0} : a * o > 0
      BY <2>1
    <3> QED
      BY <1>5, <2>3, <3>1
  <2> QED
    BY <1>5, <2>2, <2>3, <2>4 DEF o
<1> DEFINE a == Price["staking"] * n
           s == Price["option"] * m
           t == k * Price["option"]
<1>10. /\ a \in Nat /\ paid \in Nat /\ a <= paid
       /\ a = paid <=> {x} \cap h \subseteq names
  <2>1. CASE x \in names
    <3>1. n = 0 /\ paid = 0 /\ x \in h
      BY <1>3, <2>1
    <3> QED
      BY <1>8, <2>1, <3>1
  <2>2. CASE x \notin names /\ x \in h
    <3>1. n = 0 /\ paid = Price["staking"]
      BY <1>3, <2>2
    <3>2. a = 0
      BY <1>8, <3>1
    <3> QED
      BY <1>8, <2>2, <3>1, <3>2
  <2>3. CASE x \notin h
    <3>1. n = 1 /\ paid = Price["staking"]
      BY <1>3, <2>3
    <3>2. a = Price["staking"]
      BY <1>8, <3>1
    <3> QED
      BY <1>8, <2>3, <3>1, <3>2
  <2> QED
    BY <2>1, <2>2, <2>3
<1>11. s \in Nat /\ t \in Nat /\ s <= t /\ (s = t => m = k)
  BY <1>9
<1>12. PriceOf(KeptFor(b) \ h) = a + s /\ b.pay = paid + t
  BY <1>1, <1>7
<1> HIDE DEF a, s, t, paid
<1>13. a + s \in Nat /\ a + s <= paid + t /\ (a + s = paid + t => a = paid /\ s = t)
  BY <1>10, <1>11
<1>14. a + s # paid + t => ~(KeptFor(b) \cap h \subseteq names)
  <2>1. a + s # paid + t => a # paid \/ m # k
    <3>1. m = k => s = t
      BY <1>5, <1>8 DEF s, t
    <3> QED
      BY <3>1
  <2>2. a # paid => ~({x} \cap h \subseteq names)
    BY <1>10
  <2>3. m # k => ~(options \cap h \subseteq names)
    BY <1>5
  <2> QED
    BY <1>2, <2>1, <2>2, <2>3
<1> QED
  BY <1>12, <1>13, <1>14 DEF PaysFor

LEMMA ProposePays ==
  ASSUME NEW u, NEW id, NEW n, NEW h, ProposalBox(id) \notin h, NEW b, b = CreateProposal(u, id, n)
  PROVE  PriceOf(KeptFor(b) \ h) = b.pay /\ b.pay \in Nat
<1> DEFINE P == {ProposalBox(id)}
           S == {x \in {} : x[1] = "sheet" /\ x[2] = "voting"}
           O == {x \in {} : x[1] = "option"}
<1>1. b.op = "propose" /\ b.numbers = {} /\ b.id = id /\ b.pay = Price["proposal"]
  BY DEF CreateProposal
<1>2. KeptFor(b) = P
  BY <1>1 DEF KeptFor
<1>3. KeptFor(b) \ h = P
  BY <1>2
<1>4. S = {} /\ O = {}
  OBVIOUS
<1>5. IsFiniteSet({}) /\ Cardinality({}) = 0 /\ IsFiniteSet(P) /\ Cardinality(P) = 1
  BY FS_EmptySet, FS_Singleton
<1>6. \A x \in P : x[1] = "proposal"
  BY DEF ProposalBox
<1>7. (\A x \in S : x[1] = "sheet" /\ x[2] = "voting") /\ (\A x \in O : x[1] = "option")
  OBVIOUS
<1>8. S \cup O \cup P = P
  BY <1>4
<1> HIDE DEF P, S, O
<1>9. IsFiniteSet(S) /\ IsFiniteSet(O) /\ Cardinality(S) = 0 /\ Cardinality(O) = 0
  BY Zenon, <1>4, <1>5
<1>10. "voting" \in Apps
  BY DEF Apps
<1>11. PriceOf(S \cup O \cup P) = Price["voting"] * Cardinality(S) + Price["option"] * Cardinality(O)
                                   + Price["proposal"] * Cardinality(P)
  BY Z3, <1>5, <1>6, <1>7, <1>9, <1>10, PriceSplit
<1>12. /\ Price["voting"] * 0 = 0 /\ Price["option"] * 0 = 0 /\ Price["proposal"] \in Nat
       /\ Price["proposal"] * 1 = Price["proposal"]
  BY Prices
<1>13. PriceOf(P) = 0 + 0 + Price["proposal"]
  BY Zenon, <1>5, <1>8, <1>9, <1>11, <1>12
<1>14. PriceOf(P) = Price["proposal"]
  BY <1>12, <1>13
<1> QED
  BY Zenon, <1>1, <1>3, <1>12, <1>14

\* A claim pays for one sheet or none.
LEMMA ClaimPays ==
  ASSUME NEW c \in Calls, NEW r \in Ballots[c], r.op = "claim", NEW names, NEW h, names \subseteq h,
         NEW indexes \in [1 .. r.count + 1 -> Nat], NEW b,
         b = ClaimReward(Owner[c], r, indexes, names), Cardinality(b.boxes) < 11
  PROVE  LET missing == KeptFor(b) \ h
             cost == PriceOf(missing)
             looked == SheetsLookedUp(Owner[c], r)
         IN  /\ Cardinality(missing) <= 1 /\ missing \subseteq looked => cost <= b.pay
             /\ \/ b.pay = cost
                \/ /\ b.pay > cost
                   /\ ~(KeptFor(b) \cap h \subseteq names) \/ ~(looked \subseteq KeptFor(b))
                \/ b.pay < cost /\ Cardinality(KeptFor(b)) > 1
<1> DEFINE kept == KeptFor(b)
           missing == kept \ h
           cost == PriceOf(missing)
           looked == SheetsLookedUp(Owner[c], r)
           n == Cardinality(missing)
           first == SheetBox("rewards", Owner[c], r.from \div ClaimBits)
<1>1. /\ b.pay = (IF looked \subseteq names THEN 0 ELSE Price["rewards"])
      /\ b.numbers = r.from .. r.from + r.count - 1
  BY DEF ClaimReward, ClaimPay
<1>2. r.from \in Nat /\ r.count \in Nat \ {0}
  BY BallotAssumption
<1>3. /\ IsFiniteSet(kept)
      /\ kept = {SheetBox("rewards", Owner[c], m \div ClaimBits) : m \in b.numbers}
  <2>1. /\ BallotShape(c, r, b)
        /\ KeptFor(b) = {SheetBox("rewards", Owner[c], m \div ClaimBits) : m \in b.numbers}
    BY ClaimShape
  <2> QED
    BY Zenon, <2>1 DEF BallotShape
<1>4. first \in kept /\ first \in looked
  <2>1. r.from \in b.numbers
    BY <1>1, <1>2
  <2>2. first \in looked
    BY DEF SheetsLookedUp
  <2> QED
    BY <1>3, <2>1, <2>2
<1>5. \A x \in kept : x[1] = "sheet" /\ x[2] = "rewards"
  BY <1>3 DEF SheetBox
<1> HIDE DEF first, looked, kept
<1>6. /\ IsFiniteSet(missing) /\ n <= Cardinality(kept) /\ n \in Nat /\ Cardinality(kept) \in Nat
      /\ n = Cardinality(kept) => missing = kept
  <2>1. missing \in SUBSET kept
    OBVIOUS
  <2> HIDE DEF missing
  <2>2. /\ IsFiniteSet(missing) /\ n <= Cardinality(kept)
        /\ Cardinality(kept) = n => kept = missing
    BY <1>3, <2>1, FS_Subset
  <2>3. n \in Nat /\ Cardinality(kept) \in Nat
    BY <1>3, <2>2, FS_CardinalityType
  <2> QED
    BY <2>2, <2>3
<1>7. cost = Price["rewards"] * n
  <2>1. "rewards" \in Apps
    BY DEF Apps
  <2>2. \A x \in missing : x[1] = "sheet" /\ x[2] = "rewards"
    BY <1>5
  <2> HIDE DEF missing
  <2> QED
    BY <1>6, <2>1, <2>2, PriceOfSheets
<1>8. n = 0 => missing = {}
  <2> HIDE DEF missing
  <2> QED
    BY <1>6, FS_EmptySet
<1>9. Price["rewards"] \in Nat \ {0}
  BY Prices
<1> HIDE DEF n
<1> DEFINE q == Price["rewards"]
<1>10. /\ cost = q * n /\ q \in Nat /\ q > 0 /\ (n = 0 => cost = 0) /\ (n = 1 => cost = q)
       /\ (n >= 1 => cost >= q) /\ cost \in Nat
  <2>1. cost = q * n /\ q \in Nat /\ q > 0
    BY <1>7, <1>9
  <2> HIDE DEF q, cost
  <2>2. n = 0 => q * n = 0
    BY <2>1
  <2>3. n = 1 => q * n = q
    BY <2>1
  <2>4. n >= 1 => q * n >= q /\ q * n \in Nat
    BY <1>6, <2>1
  <2>5. n = 0 \/ n >= 1
    BY <1>6
  <2> QED
    BY <2>1, <2>2, <2>3, <2>4, <2>5
<1> HIDE DEF q
<1>11. b.pay = IF looked \subseteq names THEN 0 ELSE q
  BY <1>1 DEF q
<1> HIDE DEF cost
<1>12. ASSUME n <= 1, missing \subseteq looked PROVE cost <= b.pay
  <2>1. CASE n = 0
    BY <1>10, <1>11, <2>1
  <2>2. CASE n = 1
    <3>1. missing # {}
      <4>1. Cardinality({}) = 0
        BY FS_EmptySet
      <4>2. n = Cardinality(missing)
        BY DEF n
      <4>3. 0 # 1
        OBVIOUS
      <4> HIDE DEF missing
      <4> QED
        BY Zenon, <2>2, <4>1, <4>2, <4>3
    <3>2. ~(looked \subseteq names)
      BY <1>12, <3>1
    <3> QED
      BY <1>10, <1>11, <2>2, <3>2
  <2> QED
    BY <1>6, <1>12, <2>1, <2>2
<1> DEFINE fair == \/ b.pay = cost
                   \/ /\ b.pay > cost
                      /\ ~(kept \cap h \subseteq names) \/ ~(looked \subseteq kept)
                   \/ b.pay < cost /\ Cardinality(kept) > 1
<1>13. ASSUME looked \subseteq names PROVE fair
  <2>1. b.pay = 0 /\ first \in h
    BY <1>4, <1>11, <1>13
  <2>2. missing # kept
    BY <1>4, <2>1
  <2>3. n < Cardinality(kept)
    BY <1>6, <2>2
  <2>4. n = 0 => b.pay = cost
    BY <1>10, <2>1
  <2>5. n >= 1 => b.pay < cost /\ Cardinality(kept) > 1
    BY <1>6, <1>10, <2>1, <2>3
  <2> QED
    BY <1>6, <2>4, <2>5
<1>14. ASSUME ~(looked \subseteq names) PROVE fair
  <2>1. b.pay = q
    BY <1>11, <1>14
  <2>2. ASSUME n = 0 PROVE fair
    <3>1. kept \subseteq h
      BY <1>8, <2>2
    <3>2. ~(kept \cap h \subseteq names) \/ ~(looked \subseteq kept)
      BY <1>14, <3>1
    <3>3. b.pay > cost
      BY <1>10, <2>1, <2>2
    <3> QED
      BY <3>2, <3>3
  <2>3. n = 1 => b.pay = cost
    BY <1>10, <2>1
  <2>4. ASSUME n >= 2 PROVE fair
    <3>1. cost >= q /\ b.pay <= cost
      BY <1>6, <1>10, <2>1, <2>4
    <3>2. Cardinality(kept) > 1
      BY <1>6, <2>4
    <3> QED
      BY <1>10, <2>1, <3>1, <3>2
  <2> QED
    BY <1>6, <2>2, <2>3, <2>4
<1>15. fair
  BY <1>13, <1>14
<1> QED
  BY Zenon, <1>12, <1>15 DEF cost, missing, n, kept, looked
-----------------------------------------------------------------------------
(* The boxes named.                                                         *)

LEMMA NextRowBox ==
  ASSUME NEW i \in Nat
  PROVE  BoxOf(i + 1) = BoxOf(i) \/ BoxOf(i + 1) = BoxOf(i) + 1
<1> DEFINE q == i \div ArrayLen
<1>1. ArrayLen \in Nat \ {0}
  BY WeekIs
<1>2. q \in Nat /\ i < ArrayLen * q + ArrayLen
  BY <1>1, DivBound
<1>3. i + 1 \in Nat \ {0} /\ i + 1 # 0 /\ (i + 1) - 1 = i
  OBVIOUS
<1>4. lastBoxIndex(i + 1) = (i + 1 - 1) \div ArrayLen
  BY <1>3 DEF lastBoxIndex
<1>5. lastBoxIndex(i + 1) = q /\ BoxOf(i) = q
  BY <1>3, <1>4 DEF BoxOf
<1> HIDE DEF q
<1>6. i + 1 < (q + 2) * ArrayLen
  <2>1. ArrayLen * q = q * ArrayLen /\ ArrayLen * q \in Nat
    BY <1>1, <1>2
  <2>2. (q + 2) * ArrayLen = q * ArrayLen + ArrayLen + ArrayLen
    BY <1>1, <1>2, Z3
  <2> DEFINE x == q * ArrayLen
  <2>3. x \in Nat /\ i < x + ArrayLen /\ (q + 2) * ArrayLen = x + ArrayLen + ArrayLen
    BY <1>2, <2>1, <2>2
  <2> HIDE DEF x
  <2> QED
    BY <1>1, <2>3
<1> DEFINE n == i + 1
<1>7. n \in Nat \ {0} /\ n \in Nat /\ n - 1 <= n /\ n < (lastBoxIndex(n) + 2) * ArrayLen
  BY <1>3, <1>5, <1>6
<1> HIDE DEF n
<1>8. BoxOf(n) = lastBoxIndex(n) \/ BoxOf(n) = lastBoxIndex(n) + 1
  BY <1>7, RowsFitTwoBoxes
<1> QED
  BY <1>5, <1>8 DEF n

\* The boxes of the rows a group names.
RowBoxesOf(b) ==
  {PowerBox(b.user, BoxOf(r)) :
     r \in UNION {{b.indexes[k], b.indexes[k] + 1} : k \in DOMAIN b.indexes}
             \cap (0 .. Len(account[b.user].powers) - 1)}

LEMMA RowBoxesNamed ==
  ASSUME NEW b,
         \A k \in DOMAIN b.indexes : /\ b.indexes[k] \in Nat
                                     /\ PowerBoxesAround(b.user, b.indexes[k]) \subseteq b.boxes
  PROVE  RowBoxesOf(b) \subseteq b.boxes
<1> SUFFICES ASSUME NEW x \in RowBoxesOf(b) PROVE x \in b.boxes
  OBVIOUS
<1>1. PICK r \in UNION {{b.indexes[k], b.indexes[k] + 1} : k \in DOMAIN b.indexes} :
        x = PowerBox(b.user, BoxOf(r))
  BY DEF RowBoxesOf
<1>2. PICK k \in DOMAIN b.indexes : r \in {b.indexes[k], b.indexes[k] + 1}
  BY <1>1
<1> DEFINE i == b.indexes[k]
<1>3. i \in Nat /\ PowerBoxesAround(b.user, i) \subseteq b.boxes /\ (r = i \/ r = i + 1)
  BY <1>2
<1> HIDE DEF i
<1>4. BoxOf(r) = BoxOf(i) \/ BoxOf(r) = BoxOf(i) + 1
  BY <1>3, NextRowBox
<1>5. x \in PowerBoxesAround(b.user, i)
  BY <1>1, <1>4 DEF PowerBoxesAround
<1> QED
  BY <1>3, <1>5

\* What a group touches, in parts.
LEMMA TouchedIs ==
  ASSUME NEW b
  PROVE  BoxesTouched(b) =
           KeptFor(b) \cup {StateBox(b.user)}
             \cup (IF b.op = "propose" THEN {LastTotalBox} ELSE {})
             \cup (IF b.op \in {"vote", "stake"} THEN {ProposalBox(b.id)} ELSE {})
             \cup (IF b.op = "claim" THEN {PeriodBox(n \div PeriodsPerBox) : n \in b.numbers} ELSE {})
             \cup RowBoxesOf(b)
  BY Zenon DEF BoxesTouched, RowBoxesOf

LEMMA AllNamed ==
  ASSUME NEW b, KeptFor(b) \subseteq b.boxes, StateBox(b.user) \in b.boxes,
         b.op = "propose" => LastTotalBox \in b.boxes,
         b.op \in {"vote", "stake"} => ProposalBox(b.id) \in b.boxes,
         b.op = "claim" => {PeriodBox(n \div PeriodsPerBox) : n \in b.numbers} \subseteq b.boxes,
         RowBoxesOf(b) \subseteq b.boxes
  PROVE  BoxesTouched(b) \subseteq b.boxes
<1> DEFINE periodBoxes == {PeriodBox(n \div PeriodsPerBox) : n \in b.numbers}
<1>1. BoxesTouched(b) =
           KeptFor(b) \cup {StateBox(b.user)}
             \cup (IF b.op = "propose" THEN {LastTotalBox} ELSE {})
             \cup (IF b.op \in {"vote", "stake"} THEN {ProposalBox(b.id)} ELSE {})
             \cup (IF b.op = "claim" THEN periodBoxes ELSE {})
             \cup RowBoxesOf(b)
  BY TouchedIs
<1>2. b.op = "claim" => periodBoxes \subseteq b.boxes
  OBVIOUS
<1> HIDE DEF periodBoxes
<1> QED
  BY <1>1, <1>2

LEMMA VoteNamesBoxes ==
  ASSUME NEW u, NEW id, NEW p, NEW i \in Nat, NEW names, NEW b, b = CastVote(u, id, p, i, names)
  PROVE  BoxesTouched(b) \subseteq b.boxes
<1> DEFINE x == SheetBox("voting", u, p.index \div SheetBits)
<1>1. /\ b.op = "vote" /\ b.app = "voting" /\ b.user = u /\ b.numbers = {p.index} /\ b.id = id
      /\ b.indexes = <<i>>
      /\ b.boxes = {ProposalBox(id), x, StateBox(u)} \cup PowerBoxesAround(u, i)
  BY DEF CastVote
<1>2. KeptFor(b) = {x}
  <2>1. KeptFor(b) = {SheetBox("voting", u, m \div BitsOf("voting")) : m \in {p.index}}
    BY <1>1 DEF KeptFor
  <2> QED
    BY <2>1 DEF BitsOf
<1>3. DOMAIN b.indexes = {1} /\ b.indexes[1] = i
  BY <1>1
<1>4. \A k \in DOMAIN b.indexes : /\ b.indexes[k] \in Nat
                                  /\ PowerBoxesAround(b.user, b.indexes[k]) \subseteq b.boxes
  BY <1>1, <1>3
<1>5. RowBoxesOf(b) \subseteq b.boxes
  BY <1>4, RowBoxesNamed
<1>6. KeptFor(b) \subseteq b.boxes /\ StateBox(b.user) \in b.boxes /\ ProposalBox(b.id) \in b.boxes
  BY <1>1, <1>2
<1>7. b.op # "propose" /\ b.op # "claim"
  BY <1>1
<1> QED
  BY <1>5, <1>6, <1>7, AllNamed

LEMMA StakeNamesBoxes ==
  ASSUME NEW u, NEW r, NEW p, NEW i \in Nat, NEW names, NEW b, b = StakingVote(u, r, p, i, names),
         p.index \div SheetBits = p.index \div StakingSpan
  PROVE  BoxesTouched(b) \subseteq b.boxes
<1> DEFINE x == SheetBox("staking", u, p.index \div StakingSpan)
<1>1. /\ b.op = "stake" /\ b.app = "staking" /\ b.user = u /\ b.numbers = {p.index} /\ b.id = r.id
      /\ b.indexes = <<i>> /\ b.options = r.options
      /\ b.boxes = {ProposalBox(r.id), x, StateBox(u)} \cup OptionBoxes(p.index, r.options)
                     \cup PowerBoxesAround(u, i)
  BY DEF StakingVote, OptionBoxes
<1>2. KeptFor(b) = {x} \cup OptionBoxes(p.index, r.options)
  BY <1>1, StakingKept
<1>3. DOMAIN b.indexes = {1} /\ b.indexes[1] = i
  BY <1>1
<1>4. \A k \in DOMAIN b.indexes : /\ b.indexes[k] \in Nat
                                  /\ PowerBoxesAround(b.user, b.indexes[k]) \subseteq b.boxes
  BY <1>1, <1>3
<1>5. RowBoxesOf(b) \subseteq b.boxes
  BY <1>4, RowBoxesNamed
<1>6. KeptFor(b) \subseteq b.boxes /\ StateBox(b.user) \in b.boxes /\ ProposalBox(b.id) \in b.boxes
  BY <1>1, <1>2
<1>7. b.op # "propose" /\ b.op # "claim"
  BY <1>1
<1> QED
  BY <1>5, <1>6, <1>7, AllNamed

\* A group that is executed names the sheet it marks.
LEMMA SheetNamed ==
  ASSUME NEW u, NEW r, NEW p, NEW i, NEW names, NEW b, b = StakingVote(u, r, p, i, names),
         BoxesTouched(b) \subseteq b.boxes
  PROVE  p.index \div SheetBits = p.index \div StakingSpan
<1> DEFINE m == p.index \div SheetBits
           x == SheetBox("staking", u, m)
           y == SheetBox("staking", u, p.index \div StakingSpan)
<1>1. /\ b.op = "stake" /\ b.app = "staking" /\ b.user = u /\ b.numbers = {p.index}
      /\ b.options = r.options
      /\ b.boxes = {ProposalBox(r.id), y, StateBox(u)} \cup OptionBoxes(p.index, r.options)
                     \cup PowerBoxesAround(u, i)
  BY DEF StakingVote, OptionBoxes
<1>2. KeptFor(b) = {x} \cup OptionBoxes(p.index, r.options)
  BY <1>1, StakingKept
<1>3. KeptFor(b) \subseteq BoxesTouched(b)
  <2> HIDE DEF m, x, y
  <2> DEFINE most == {StateBox(b.user)}
             \cup (IF b.op = "propose" THEN {LastTotalBox} ELSE {})
             \cup (IF b.op \in {"vote", "stake"} THEN {ProposalBox(b.id)} ELSE {})
             \cup (IF b.op = "claim" THEN {PeriodBox(n \div PeriodsPerBox) : n \in b.numbers} ELSE {})
             \cup RowBoxesOf(b)
  <2>1. BoxesTouched(b) = KeptFor(b) \cup most
    BY TouchedIs
  <2> HIDE DEF most
  <2> QED
    BY <2>1
<1>4. x \in b.boxes
  BY <1>2, <1>3
<1>5. \A z \in OptionBoxes(p.index, r.options) : z[1] = "option"
  BY DEF OptionBoxes, OptionBox
<1>6. \A z \in PowerBoxesAround(u, i) : z[1] = "power"
  BY DEF PowerBoxesAround, PowerBox
<1>7. ProposalBox(r.id)[1] = "proposal" /\ StateBox(u)[1] = "state" /\ x[1] = "sheet"
  BY DEF ProposalBox, StateBox, SheetBox
<1>8. x[4] = m /\ y[4] = p.index \div StakingSpan
  BY DEF SheetBox
<1> HIDE DEF m, x, y
<1>9. "sheet" \notin {"option", "power", "proposal", "state"}
  OBVIOUS
<1>10. x = y
  BY <1>1, <1>4, <1>5, <1>6, <1>7, <1>9
<1> QED
  BY <1>8, <1>10 DEF m

LEMMA ClaimNamesBoxes ==
  ASSUME NEW c \in Calls, NEW r \in Ballots[c], r.op = "claim", NEW names,
         NEW indexes \in [1 .. r.count + 1 -> Nat], NEW b,
         b = ClaimReward(Owner[c], r, indexes, names), Cardinality(b.boxes) < 11
  PROVE  BoxesTouched(b) \subseteq b.boxes
<1> DEFINE u == Owner[c]
           sheets == {SheetBox("rewards", u, n \div ClaimBits) : n \in b.numbers}
           weeks == {PeriodBox(n \div PeriodsPerBox) : n \in b.numbers}
           each == {PowerBoxesAround(u, indexes[k]) : k \in DOMAIN indexes}
<1>1. /\ b.op = "claim" /\ b.user = u /\ b.indexes = indexes
      /\ b.boxes = {StateBox(u)} \cup sheets \cup weeks \cup UNION each
  BY DEF ClaimReward
<1>2. KeptFor(b) = sheets
  BY ClaimShape
<1>3. \A k \in DOMAIN indexes : PowerBoxesAround(u, indexes[k]) \in each
  OBVIOUS
<1> HIDE DEF sheets, each
<1>4. \A k \in DOMAIN indexes : PowerBoxesAround(u, indexes[k]) \subseteq b.boxes
  BY <1>1, <1>3
<1>5. \A k \in DOMAIN b.indexes : /\ b.indexes[k] \in Nat
                                  /\ PowerBoxesAround(b.user, b.indexes[k]) \subseteq b.boxes
  BY <1>1, <1>4
<1>6. RowBoxesOf(b) \subseteq b.boxes
  BY <1>5, RowBoxesNamed
<1>7. KeptFor(b) \subseteq b.boxes /\ StateBox(b.user) \in b.boxes /\ weeks \subseteq b.boxes
  BY <1>1, <1>2
<1>8. b.op # "propose" /\ b.op # "vote" /\ b.op # "stake"
  BY <1>1
<1> QED
  BY <1>6, <1>7, <1>8, AllNamed

LEMMA ProposeNamesBoxes ==
  ASSUME NEW u, NEW id, NEW n, NEW b, b = CreateProposal(u, id, n), LastTotalBox \in b.boxes
  PROVE  BoxesTouched(b) \subseteq b.boxes
<1>1. /\ b.op = "propose" /\ b.user = u /\ b.numbers = {} /\ b.id = id /\ b.indexes = <<>>
      /\ b.boxes = {ProposalBox(id), StateBox(u), TotalBox(lastBoxIndex(n))}
  BY DEF CreateProposal
<1>2. KeptFor(b) = {ProposalBox(id)}
  BY <1>1 DEF KeptFor
<1>3. DOMAIN b.indexes = {}
  BY <1>1
<1>4. RowBoxesOf(b) \subseteq b.boxes
  BY <1>3, RowBoxesNamed
<1>5. KeptFor(b) \subseteq b.boxes /\ StateBox(b.user) \in b.boxes
  BY <1>1, <1>2
<1>6. b.op \notin {"claim", "vote", "stake"}
  BY <1>1
<1> QED
  BY <1>4, <1>5, <1>6, AllNamed
-----------------------------------------------------------------------------
(* Refused for a known reason, and paid for.                                *)

LEMMA FirstSheet ==
  ASSUME NEW n \in Nat, n < SheetBits
  PROVE  n \div SheetBits = n \div StakingSpan
<1>1. SheetBits \in Nat \ {0} /\ StakingSpan \in Nat \ {0} /\ SheetBits <= StakingSpan
  BY VotingAssumption
<1>2. \A d \in Nat \ {0} : n < d => n \div d = 0
  <2> TAKE d \in Nat \ {0}
  <2> HAVE n < d
  <2> DEFINE q == n \div d
  <2>1. q \in Nat /\ d * q <= n
    BY DivBound
  <2> HIDE DEF q
  <2>2. q >= 1 => d * q >= d
    BY <2>1
  <2>3. q = 0
    BY <2>1, <2>2
  <2> QED
    BY <2>3 DEF q
<1> QED
  BY <1>1, <1>2

\* What each group is, once prepared.
LEMMA PreparedIs ==
  ASSUME WInv, NEW c \in Calls, pc[c] = "prepared"
  PROVE  LET b == ballot[c]
             r == req[c]
             names == facts[c].names
         IN  /\ r \in Ballots[c] /\ names \subseteq held
             /\ \/ /\ r.op = "vote" /\ b.op = "vote" /\ IsProposal(proposals[r.id])
                   /\ \E i \in Nat : b = CastVote(Owner[c], r.id, proposals[r.id], i, names)
                \/ /\ r.op = "stake" /\ b.op = "stake" /\ IsProposal(proposals[r.id])
                   /\ \E i \in Nat : b = StakingVote(Owner[c], r, proposals[r.id], i, names)
                \/ /\ r.op = "claim" /\ b.op = "claim"
                   /\ \E indexes \in [1 .. r.count + 1 -> Nat] :
                        b = ClaimReward(Owner[c], r, indexes, names)
                   /\ Cardinality(b.boxes) < 11
                \/ /\ r.op = "propose" /\ b.op = "propose" /\ b.id = r.id
                   /\ \E n : b = CreateProposal(Owner[c], r.id, n)
<1>1. /\ req[c] \in Ballots[c] /\ IsBallot(c, req[c], ballot[c], facts[c].names, proposals)
      /\ req[c].op \in {"vote", "stake"} => IsProposal(proposals[req[c].id])
      /\ BallotShape(c, req[c], ballot[c]) /\ facts[c].names \subseteq held
  BY PreparedBallot
<1>2. ballot[c].op = req[c].op /\ (ballot[c].op = "propose" => ballot[c].id = req[c].id)
  BY <1>1 DEF BallotShape
<1> QED
  BY <1>1, <1>2 DEF IsBallot

LEMMA WInvFair ==
  ASSUME WInv, NEW c \in Calls, pc[c] = "prepared", Counted(ballot[c])
  PROVE  PaysFairly(c, ballot[c], PriceOf(KeptFor(ballot[c]) \ held))
<1> DEFINE b == ballot[c]
           r == req[c]
           names == facts[c].names
           cost == PriceOf(KeptFor(b) \ held)
<1>1. names \subseteq held /\ r \in Ballots[c] /\ b.user = Owner[c] /\ b.pay \in Nat
  BY PreparedBallot DEF BallotShape
<1>2. BoxesTouched(b) \subseteq b.boxes /\ Entitled(b)
  BY DEF Counted
<1>3. ASSUME PaysFor(b, names, held) PROVE PaysFairly(c, b, cost)
  <2>1. /\ cost \in Nat /\ cost <= b.pay
        /\ cost = b.pay \/ ~(KeptFor(b) \cap held \subseteq names)
    BY <1>3 DEF PaysFor
  <2> HIDE DEF cost
  <2>2. b.pay = cost \/ b.pay > cost
    BY <1>1, <2>1
  <2> QED
    BY Zenon, <2>1, <2>2 DEF PaysFairly
<1>4. CASE \E i \in Nat : b = CastVote(Owner[c], r.id, proposals[r.id], i, names)
  <2>1. PaysFor(b, names, held)
    BY <1>1, <1>4, VotePays
  <2> QED
    BY <1>3, <2>1
<1>5. CASE r.op = "stake" /\ \E i \in Nat : b = StakingVote(Owner[c], r, proposals[r.id], i, names)
  <2>1. PICK i \in Nat : b = StakingVote(Owner[c], r, proposals[r.id], i, names)
    BY <1>5
  <2> DEFINE p == proposals[r.id]
  <2>2. p.index \div SheetBits = p.index \div StakingSpan
    BY <1>2, <2>1, SheetNamed
  <2>3. IsFiniteSet(r.options)
    BY <1>1, <1>5, BallotAssumption
  <2>4. PaysFor(b, names, held)
    BY <1>1, <2>1, <2>2, <2>3, StakePays
  <2> QED
    BY <1>3, <2>4
<1>6. CASE /\ r.op = "claim" /\ b.op = "claim"
           /\ \E indexes \in [1 .. r.count + 1 -> Nat] : b = ClaimReward(Owner[c], r, indexes, names)
           /\ Cardinality(b.boxes) < 11
  <2> DEFINE looked == SheetsLookedUp(Owner[c], r)
  <2>1. PICK indexes \in [1 .. r.count + 1 -> Nat] : b = ClaimReward(Owner[c], r, indexes, names)
    BY <1>6
  <2>2. \/ b.pay = cost
        \/ /\ b.pay > cost
           /\ ~(KeptFor(b) \cap held \subseteq names) \/ ~(looked \subseteq KeptFor(b))
        \/ b.pay < cost /\ Cardinality(KeptFor(b)) > 1
    BY <1>1, <1>6, <2>1, ClaimPays
  <2>3. looked = SheetsLookedUp(b.user, req[c])
    BY <1>1
  <2> HIDE DEF cost, looked
  <2>4. PaysFairly(c, b, cost)
    BY Zenon, <1>6, <2>2, <2>3 DEF PaysFairly
  <2> QED
    BY <2>4 DEF cost
<1>7. CASE r.op = "propose" /\ b.op = "propose" /\ b.id = r.id /\ \E n : b = CreateProposal(Owner[c], r.id, n)
  <2>1. r.id \notin DOMAIN proposals
    BY <1>2, <1>7 DEF Entitled
  <2>2. ContractsAre(proposals, periods, marks, held, surplus)
    BY DEF WInv, ContractsOK
  <2>3. ProposalBox(r.id) \notin held
    BY <2>1, <2>2 DEF ContractsAre
  <2>4. cost = b.pay
    BY <1>7, <2>3, ProposePays
  <2> HIDE DEF cost
  <2>5. PaysFairly(c, b, cost)
    BY Zenon, <2>4 DEF PaysFairly
  <2> QED
    BY <2>5 DEF cost
<1> QED
  BY <1>4, <1>5, <1>6, <1>7, PreparedIs

LEMMA WInvCounts ==
  ASSUME WInv, NEW c \in Calls, pc[c] = "prepared", Entitled(ballot[c]), ~MayBeRefused(c, ballot[c])
  PROVE  Counted(ballot[c])
<1> DEFINE b == ballot[c]
           r == req[c]
           names == facts[c].names
           cost == PriceOf(KeptFor(b) \ held)
<1>1. /\ names \subseteq held /\ r \in Ballots[c] /\ b.user = Owner[c] /\ b.pay \in Nat /\ b.app \in Apps
      /\ IsBallot(c, r, b, names, proposals) /\ facts[c].at \in Nat
      /\ r.op \in {"vote", "stake"} => IsProposal(proposals[r.id])
      /\ ~seen[c].failed => Chosen(b, proposals, facts[c].at, account[Owner[c]])
  BY PreparedBallot DEF BallotShape
<1>2. /\ ~seen[c].failed
      /\ \A k \in DOMAIN TimesOf(b) : ~(TimesOf(b)[k] >= facts[c].at)
      /\ b.op = "stake" => \A n \in b.numbers : ~(n >= SheetBits)
      /\ b.op = "claim" => PaidSheetSuffices(c, b) /\ account[b.user].powers # <<>>
      /\ b.op = "propose" => LastTotalBox \in b.boxes
  BY Zenon DEF MayBeRefused
<1>3. /\ Len(TimesOf(b)) = Len(b.indexes) /\ DOMAIN TimesOf(b) = DOMAIN b.indexes
      /\ \A k \in DOMAIN b.indexes :
           /\ b.indexes[k] \in Nat /\ TimesOf(b)[k] = TimeOf(b, proposals, k)
  BY <1>1, BallotTimes
<1>4. \A k \in DOMAIN b.indexes : TimesOf(b)[k] \in Int /\ TimesOf(b)[k] < facts[c].at
  <2> TAKE k \in DOMAIN b.indexes
  <2>1. r.op \in {"vote", "stake"} => r.id \in DOMAIN proposals /\ IsProposal(proposals[r.id])
    BY PreparedBallot DEF ProposalSeen
  <2>2. TimeOf(b, proposals, k) \in Int
    BY <1>1, <2>1, TimeOfType
  <2>3. TimesOf(b)[k] \in Int /\ ~(TimesOf(b)[k] >= facts[c].at)
    BY <1>2, <1>3, <2>2
  <2> QED
    BY <1>1, <2>3
<1>5. IsAccount(account[Owner[c]], now)
  BY VoteNow
<1>6. ASSUME account[b.user].powers # <<>> PROVE \A k \in DOMAIN b.indexes : RightIndex(b, k)
  <2> TAKE k \in DOMAIN b.indexes
  <2> DEFINE acc == account[Owner[c]]
  <2>1. /\ acc = account[b.user] /\ IsAccount(acc, now) /\ Chosen(b, proposals, facts[c].at, acc)
        /\ acc.powers # <<>> /\ TimesOf(b)[k] < facts[c].at /\ b.indexes[k] \in Nat
        /\ TimesOf(b)[k] = TimeOf(b, proposals, k)
    BY <1>1, <1>2, <1>3, <1>4, <1>5, <1>6
  <2> HIDE DEF acc
  <2> QED
    BY <1>1, <2>1, ChosenIsRight
<1>7. ASSUME b.op # "claim", NEW k \in DOMAIN b.indexes PROVE account[b.user].powers # <<>>
  <2> DEFINE acc == account[Owner[c]]
  <2>1. /\ acc = account[b.user] /\ IsAccount(acc, now) /\ Chosen(b, proposals, facts[c].at, acc)
        /\ TimeOf(b, proposals, k) < facts[c].at /\ b.indexes[k] \in Nat
    BY <1>1, <1>2, <1>3, <1>4, <1>5
  <2> HIDE DEF acc
  <2>2. PICK m \in Nat : MadeBy(acc.powers, TimeOf(b, proposals, k), m) /\ b.indexes[k] = m - 1
    BY Zenon, <1>7, <2>1 DEF Chosen
  <2>3. m \in 0 .. Len(acc.powers) /\ m >= 1
    BY <2>1, <2>2 DEF MadeBy
  <2>4. acc.powers \in Seq(Rows)
    BY <2>1 DEF IsAccount
  <2>5. acc.powers # <<>>
    BY <2>3, <2>4
  <2> QED
    BY <2>1, <2>5
<1>8. \A k \in DOMAIN b.indexes : RightIndex(b, k)
  BY <1>2, <1>6, <1>7
<1>9. surplus[b.app] \in Nat
  BY <1>1 DEF WInv, ContractsOK, ContractsAre
<1>10. ASSUME BoxesTouched(b) \subseteq b.boxes, cost \in Int, cost <= b.pay PROVE Counted(b)
  <2>1. cost <= surplus[b.app] + b.pay
    <3> DEFINE x == surplus[b.app]
               y == b.pay
    <3>1. x \in Nat /\ y \in Nat
      BY <1>1, <1>9
    <3> HIDE DEF x, y, cost
    <3>2. cost <= y
      BY <1>10 DEF y
    <3>3. cost <= x + y
      BY <1>10, <3>1, <3>2
    <3> QED
      BY <3>3 DEF x, y
  <2>2. Len(b.indexes) = Len(TimesOf(b))
    BY <1>3
  <2> QED
    BY Zenon, <1>8, <1>10, <2>1, <2>2 DEF Counted
<1>11. cost \in Nat
  <2> DEFINE S == KeptFor(b) \ held
  <2>1. IsFiniteSet(KeptFor(b))
    BY PreparedBallot DEF BallotShape
  <2>2. IsFiniteSet(S)
    BY <2>1, FS_Difference
  <2> HIDE DEF S
  <2>3. PriceOf(S) \in Nat
    BY <2>2, PriceType
  <2> QED
    BY <2>3 DEF S
<1>12. CASE \E i \in Nat : b = CastVote(Owner[c], r.id, proposals[r.id], i, names)
  <2>1. BoxesTouched(b) \subseteq b.boxes
    BY <1>12, VoteNamesBoxes
  <2>2. PaysFor(b, names, held)
    BY <1>1, <1>12, VotePays
  <2>3. cost <= b.pay
    BY <2>2 DEF PaysFor
  <2> QED
    BY <1>10, <1>11, <2>1, <2>3
<1>13. CASE /\ r.op = "stake" /\ b.op = "stake" /\ IsProposal(proposals[r.id])
            /\ \E i \in Nat : b = StakingVote(Owner[c], r, proposals[r.id], i, names)
  <2> DEFINE p == proposals[r.id]
  <2>1. PICK i \in Nat : b = StakingVote(Owner[c], r, p, i, names)
    BY <1>13
  <2>2. b.numbers = {p.index} /\ p.index \in Nat
    <3>1. p.index \in Nat
      BY <1>13 DEF IsProposal
    <3> HIDE DEF p
    <3>2. b.numbers = {p.index}
      BY <2>1 DEF StakingVote
    <3> QED
      BY <3>1, <3>2
  <2>3. p.index < SheetBits
    <3>1. ~(p.index >= SheetBits)
      BY <1>2, <1>13, <2>2
    <3> QED
      BY <2>2, <3>1, VotingAssumption
  <2> DEFINE n == p.index
  <2>4. n \div SheetBits = n \div StakingSpan
    <3> HIDE DEF n
    <3> QED
      BY <2>2, <2>3, FirstSheet DEF n
  <2>5. IsFiniteSet(r.options)
    BY <1>1, <1>13, BallotAssumption
  <2>6. BoxesTouched(b) \subseteq b.boxes
    BY <2>1, <2>4, StakeNamesBoxes
  <2>7. PaysFor(b, names, held)
    BY <1>1, <2>1, <2>4, <2>5, StakePays
  <2>8. cost <= b.pay
    BY <2>7 DEF PaysFor
  <2> QED
    BY <1>10, <1>11, <2>6, <2>8
<1>14. CASE /\ r.op = "claim" /\ b.op = "claim"
            /\ \E indexes \in [1 .. r.count + 1 -> Nat] : b = ClaimReward(Owner[c], r, indexes, names)
            /\ Cardinality(b.boxes) < 11
  <2>1. PICK indexes \in [1 .. r.count + 1 -> Nat] : b = ClaimReward(Owner[c], r, indexes, names)
    BY <1>14
  <2>2. BoxesTouched(b) \subseteq b.boxes
    BY <1>1, <1>14, <2>1, ClaimNamesBoxes
  <2>3. /\ Cardinality(KeptFor(b) \ held) <= 1
        /\ KeptFor(b) \ held \subseteq SheetsLookedUp(Owner[c], r)
    BY <1>1, <1>2, <1>14 DEF PaidSheetSuffices
  <2>4. cost <= b.pay
    BY <1>1, <1>14, <2>1, <2>3, ClaimPays
  <2> QED
    BY <1>10, <1>11, <2>2, <2>4
<1>15. CASE r.op = "propose" /\ b.op = "propose" /\ b.id = r.id /\ \E n : b = CreateProposal(Owner[c], r.id, n)
  <2>1. r.id \notin DOMAIN proposals
    BY <1>15 DEF Entitled
  <2>2. ContractsAre(proposals, periods, marks, held, surplus)
    BY DEF WInv, ContractsOK
  <2>3. ProposalBox(r.id) \notin held
    BY <2>1, <2>2 DEF ContractsAre
  <2>4. cost = b.pay
    BY <1>15, <2>3, ProposePays
  <2>5. BoxesTouched(b) \subseteq b.boxes
    BY <1>2, <1>15, ProposeNamesBoxes
  <2>6. cost <= b.pay
    BY <1>1, <2>4
  <2> QED
    BY <1>10, <1>11, <2>5, <2>6
<1> QED
  BY <1>12, <1>13, <1>14, <1>15, PreparedIs

\* A group prepared is left as it is until the contract answers it.
LEMMA AnsweredByContract ==
  ASSUME WInv, [VotingNext]_<<vars, votingVars>>, NEW c \in Calls, pc[c] = "prepared", pc'[c] # "prepared"
  PROVE  \/ ExecuteBallot(c) /\ pc'[c] = "counted"
         \/ RefuseBallot(c) /\ pc'[c] = "notCounted"
<1>1. Domains /\ DOMAIN pc = Calls
  BY DomainsAre DEF WInv, Domains
<1>2. ~ UNCHANGED pc
  OBVIOUS
<1>3. ASSUME NEW d \in Calls, NEW x, pc' = [pc EXCEPT ![d] = x] PROVE d = c /\ pc'[c] = x
  BY <1>1, <1>3
<1>4. ASSUME Next PROVE FALSE
  <2>1. Aside(c)
    BY <1>1, <1>4, VaultAside
  <2> QED
    BY <2>1 DEF Aside, SameCall, VotingPlaces
<1>5. ASSUME NewPeriod \/ \E v \in OtherVotes : OtherVote(v[1], v[2]) PROVE FALSE
  BY <1>2, <1>5 DEF NewPeriod, OtherVote, vars, callVars
<1>6. ASSUME NEW d \in Calls, NEW r \in Ballots[d],
             \/ FetchProposal(d, r) \/ FetchVaultState(d, r)
             \/ \E failed \in BOOLEAN, lag \in Lags : FetchVoter(d, r, failed, now - lag)
      PROVE  FALSE
  <2>1. /\ pc[d] # "prepared" /\ \E x : pc' = [pc EXCEPT ![d] = x]
    BY <1>6 DEF FetchProposal, FetchVaultState, FetchVoter, Go
  <2> QED
    BY <1>3, <2>1
<1>7. ASSUME NEW d \in Calls, GetAllBoxNames(d) \/ FetchRewardsState(d) \/ GiveUp(d) PROVE FALSE
  <2>1. /\ pc[d] # "prepared" /\ \E x : pc' = [pc EXCEPT ![d] = x]
    BY <1>7 DEF GetAllBoxNames, FetchRewardsState, GiveUp, Go
  <2> QED
    BY <1>3, <2>1
<1>8. ASSUME NEW d \in Calls, ReadPowerBox(d) PROVE FALSE
  BY <1>2, <1>8 DEF ReadPowerBox
<1>9. ASSUME NEW d \in Calls,
             \/ \E failed \in BOOLEAN : GenerateCastVote(d, failed)
             \/ GenerateStakingVote(d) \/ GenerateClaimReward(d) \/ GenerateCreateProposal(d)
      PROVE  FALSE
  <2>1. pc[d] # "prepared" /\ pc' = [pc EXCEPT ![d] = "prepared"]
    BY <1>9 DEF GenerateCastVote, GenerateStakingVote, GenerateClaimReward, GenerateCreateProposal,
       Prepares, Go, PowersRead
  <2> QED
    BY <1>3, <2>1
<1>10. ASSUME NEW d \in Calls, ExecuteBallot(d) PROVE d = c /\ pc'[c] = "counted"
  <2>1. pc' = [pc EXCEPT ![d] = "counted"]
    BY <1>10 DEF ExecuteBallot
  <2> QED
    BY <1>3, <2>1
<1>11. ASSUME NEW d \in Calls, RefuseBallot(d) PROVE d = c /\ pc'[c] = "notCounted"
  <2>1. pc' = [pc EXCEPT ![d] = "notCounted"]
    BY <1>11 DEF RefuseBallot
  <2> QED
    BY <1>3, <2>1
<1>12. ~ UNCHANGED <<vars, votingVars>>
  BY <1>2 DEF vars, callVars
<1> QED
  BY Zenon, <1>4, <1>5, <1>6, <1>7, <1>8, <1>9, <1>10, <1>11, <1>12 DEF VotingNext

\* A group of a user entitled to what it does is refused only for the reasons
\* RefusedOnlyIfKnown lists: whatever the sizes of the boxes, the histories and
\* the steps of others, a row of power, a box or a payment is wrong for no other.
THEOREM BallotRefusedOnlyIfKnown == VotingSpec => RefusedOnlyIfKnown
<1> DEFINE A == \A c \in Calls :
                  pc[c] = "prepared" /\ Entitled(ballot[c]) /\ pc'[c] = "notCounted" =>
                    MayBeRefused(c, ballot[c])
<1>1. ASSUME WInv, [VotingNext]_<<vars, votingVars>> PROVE A
  <2> SUFFICES ASSUME NEW c \in Calls, pc[c] = "prepared", Entitled(ballot[c]),
                      pc'[c] = "notCounted", ~MayBeRefused(c, ballot[c])
               PROVE  FALSE
    OBVIOUS
  <2>1. RefuseBallot(c)
    BY <1>1, AnsweredByContract
  <2>2. ~Counted(ballot[c])
    BY <2>1 DEF RefuseBallot
  <2> QED
    BY <1>1, <2>2, WInvCounts
<1>2. WInv /\ [VotingNext]_<<vars, votingVars>> => A
  BY <1>1
<1> QED
  BY <1>2, WInvInductive, PTL DEF VotingSpec, RefusedOnlyIfKnown

\* A group executed pays for what it makes, but for the cases PaysForWhatItMakes
\* names: for any prices, and any sheets and options others make meanwhile.
THEOREM BallotPaysFairly == VotingSpec => PaysForWhatItMakes
<1> DEFINE A == \A c \in Calls :
                  pc[c] = "prepared" /\ pc'[c] = "counted" =>
                    PaysFairly(c, ballot[c], PriceOf(KeptFor(ballot[c]) \ held))
<1>1. ASSUME WInv, [VotingNext]_<<vars, votingVars>> PROVE A
  <2> SUFFICES ASSUME NEW c \in Calls, pc[c] = "prepared", pc'[c] = "counted"
               PROVE  PaysFairly(c, ballot[c], PriceOf(KeptFor(ballot[c]) \ held))
    OBVIOUS
  <2>1. ExecuteBallot(c)
    BY <1>1, AnsweredByContract
  <2>2. Counted(ballot[c])
    BY <2>1 DEF ExecuteBallot
  <2> QED
    BY <1>1, <2>2, WInvFair
<1>2. WInv /\ [VotingNext]_<<vars, votingVars>> => A
  BY <1>1
<1> QED
  BY <1>2, WInvInductive, PTL DEF VotingSpec, PaysForWhatItMakes
=============================================================================
