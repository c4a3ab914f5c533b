---------------------------- MODULE SwapV2_proofs ----------------------------
(***************************************************************************)
(* Proofs about SwapV2, for any users, amounts, slippages, reserves and    *)
(* fees: its type invariant, that swapping never lowers the product of the *)
(* reserves, that an undisturbed swap is not refused, and that the whole   *)
(* implements AuthorizedExchange.                                          *)
(***************************************************************************)
EXTENDS SwapV2, AmmMath_proofs

USE DEF Assets

-----------------------------------------------------------------------------
(* The inductive invariant: besides the types, how a quote and a group      *)
(* relate to the reserves they were made from, and which ids are taken.     *)

PricedQuote(q) ==
  LET inS == q.seen[q.assetIn]
      outS == q.seen[Other(q.assetIn)]
  IN  /\ q.in > 0
      /\ q.type = "FixedInput" => q.out = FixedInputOut(inS, outS, q.in, FeeShare)
      /\ q.type = "FixedOutput" =>
           /\ q.out >= 0 /\ q.out < outS
           /\ q.in = FixedOutputIn(inS, outS, q.out, FeeShare)

PricedGroup(g) ==
  LET inS == g.seen[g.assetIn]
      outS == g.seen[Other(g.assetIn)]
  IN  /\ g.type = "FixedInput" =>
           /\ g.sent = g.quotedIn /\ g.sent > 0
           /\ g.quotedOut = FixedInputOut(inS, outS, g.sent, FeeShare)
           /\ g.bound <= g.quotedOut \/ g.quotedOut < 0
           /\ 100 * g.bound >= g.quotedOut * (100 - g.slippage) - 100
      /\ g.type = "FixedOutput" =>
           /\ g.bound = g.quotedOut /\ g.bound < outS
           /\ g.quotedIn = FixedOutputIn(inS, outS, g.bound, FeeShare)
           /\ g.quotedIn <= g.sent
           /\ 100 * g.sent <= g.quotedIn * (100 + g.slippage)

QuotesPriced == \A u \in Users : pc[u] = "quoted" => PricedQuote(quote[u])

GroupsPriced ==
  /\ \A g \in pending : PricedGroup(g)
  /\ \A u \in Users : pc[u] \in {"generated", "signed"} => PricedGroup(group[u])

\* The groups that may be executed or have been.
Accepted == pending \cup {x.group : x \in applied}

IdsTaken ==
  /\ \A g \in Accepted : g.id[2] <= swaps[g.id[1]]
  /\ \A u \in Users :
       /\ pc[u] \in {"info", "quoted"} =>
            \A g \in Accepted : g.id # <<u, swaps[u]>>
       /\ pc[u] \in {"generated", "signed"} =>
            /\ group[u].id = <<u, swaps[u]>>
            /\ \A g \in Accepted : g.id = <<u, swaps[u]>> => g = group[u]

\* What the users hold is held by user (TypeOK types it only when it is used).
ByUser ==
  /\ info = [u \in Users |-> info[u]]
  /\ quote = [u \in Users |-> quote[u]]
  /\ group = [u \in Users |-> group[u]]

IInv == TypeOK /\ ByUser /\ QuotesPriced /\ GroupsPriced /\ IdsTaken
-----------------------------------------------------------------------------
LEMMA OtherAsset ==
  ASSUME NEW a \in Assets
  PROVE  Other(a) \in Assets /\ Other(a) # a /\ Other(Other(a)) = a
  BY DEF Other

\* A fixed input, for any reserves: the output, and what the product of the
\* reserves is once any part of the fee has left with the protocol.
LEMMA FixedInputSwap ==
  ASSUME NEW inS \in Nat, NEW outS \in Nat, NEW input \in Nat \ {0},
         NEW protocol \in Nat, protocol <= FixedInputFee(input, FeeShare)
  PROVE  LET out == FixedInputOut(inS, outS, input, FeeShare)
         IN  /\ out \in Nat \cup {-1}
             /\ out < outS
             /\ input - protocol \in Nat
             /\ (inS + input - protocol) * (outS - out) >= inS * outS
<1> DEFINE fee == FixedInputFee(input, FeeShare)
           x == input - fee
           out == OutputOfFixedInput(inS, outS, x)
<1>0. FeeShare \in Nat /\ FeeShare < 10000
  BY FeeAssumption
<1>1. fee \in 0 .. input - 1
  BY <1>0, FixedInputFeeBounds
<1>2. FixedInputOut(inS, outS, input, FeeShare) = out
  BY DEF FixedInputOut
<1>3. protocol \in 0 .. fee
  BY <1>1
<1>4. x \in Nat \ {0} /\ x + (fee - protocol) = input - protocol
  BY <1>1, <1>3
<1> HIDE DEF fee
<1>5. fee - protocol \in Nat
  BY <1>1, <1>3
<1> HIDE DEF x
<1>6. /\ out \in Int /\ out <= outS - 1
      /\ outS > 0 => out >= 0
      /\ outS = 0 => out = -1
      /\ (inS + x) * (outS - out) > inS * outS
  BY <1>4, FixedInputKeepsProduct
<1> HIDE DEF out
<1>7. outS - out \in Nat
  BY <1>6
<1>8. /\ (inS + x) * (outS - out) <= (inS + input - protocol) * (outS - out)
      /\ inS + x \in Nat /\ inS + input - protocol \in Nat
  <2>1. inS + x \in Nat /\ inS + input - protocol \in Nat
        /\ inS + x <= inS + input - protocol
    BY <1>1, <1>4, <1>5
  <2> QED
    BY <1>7, <2>1, ProductMonotonic
<1>9. /\ (inS + x) * (outS - out) \in Int /\ inS * outS \in Int
      /\ (inS + input - protocol) * (outS - out) \in Int
  BY <1>7, <1>8, ProductMonotonic
<1>10. (inS + input - protocol) * (outS - out) >= inS * outS
  BY <1>6, <1>8, <1>9
<1>11. out \in Nat \cup {-1} /\ out < outS /\ input - protocol \in Nat
  BY <1>1, <1>4, <1>5, <1>6
<1> QED
  BY <1>2, <1>10, <1>11

\* A fixed output likewise.
LEMMA FixedOutputSwap ==
  ASSUME NEW inS \in Nat, NEW outS \in Nat, NEW out \in Nat, out < outS
  PROVE  LET swapAmount == SwapAmountOfFixedOutput(inS, outS, out)
             input == FixedOutputIn(inS, outS, out, FeeShare)
         IN  /\ swapAmount \in Nat /\ input \in Nat \ {0} /\ input >= swapAmount
             /\ \A protocol \in 0 .. (input - swapAmount) :
                  /\ inS + input - protocol \in Nat
                  /\ (inS + input - protocol) * (outS - out) >= inS * outS
<1> DEFINE x == SwapAmountOfFixedOutput(inS, outS, out)
           fee == FixedOutputFee(x, FeeShare)
<1>1. x \in Nat \ {0} /\ (inS + x) * (outS - out) > inS * outS
  BY FixedOutputKeepsProduct
<1> HIDE DEF x
<1>2. fee \in Nat
  <2>1. x \in Nat /\ FeeShare \in Nat /\ FeeShare < 10000
    BY <1>1, FeeAssumption
  <2> QED
    BY <2>1, FixedOutputFeeBounds
<1>3. FixedOutputIn(inS, outS, out, FeeShare) = x + fee
  BY DEF FixedOutputIn, x
<1> HIDE DEF fee
<1>4. ASSUME NEW protocol \in 0 .. fee
      PROVE  /\ inS + (x + fee) - protocol \in Nat
             /\ (inS + (x + fee) - protocol) * (outS - out) >= inS * outS
  <2>1. /\ inS + x \in Nat /\ inS + (x + fee) - protocol \in Nat
        /\ inS + x <= inS + (x + fee) - protocol
    BY <1>1, <1>2
  <2>2. outS - out \in Nat
    OBVIOUS
  <2>3. /\ (inS + x) * (outS - out) <= (inS + (x + fee) - protocol) * (outS - out)
        /\ (inS + x) * (outS - out) \in Nat /\ inS * outS \in Nat
        /\ (inS + (x + fee) - protocol) * (outS - out) \in Nat
    BY <2>1, <2>2, ProductMonotonic
  <2> QED
    BY <1>1, <2>1, <2>3
<1>5. (x + fee) - x = fee /\ x + fee \in Nat \ {0} /\ x + fee >= x
  BY <1>1, <1>2
<1>6. \A protocol \in 0 .. ((x + fee) - x) :
         /\ inS + (x + fee) - protocol \in Nat
         /\ (inS + (x + fee) - protocol) * (outS - out) >= inS * outS
  BY <1>4, <1>5
<1>7. x = SwapAmountOfFixedOutput(inS, outS, out)
  BY DEF x
<1> QED
  BY <1>1, <1>3, <1>5, <1>6, <1>7

\* A quote that getQuote returns is priced from the reserves it saw.
LEMMA QuoteIsPriced ==
  ASSUME NEW type \in SwapTypes, NEW reserves \in [Assets -> Nat],
         NEW assetIn \in Assets, NEW amount \in Amounts,
         ~QuoteFails(type, reserves, assetIn, amount)
  PROVE  LET q == DirectSwapQuote(type, reserves, assetIn, amount)
         IN  q \in Quotes /\ PricedQuote(q)
<1> DEFINE inS == reserves[assetIn]
           outS == reserves[Other(assetIn)]
           q == DirectSwapQuote(type, reserves, assetIn, amount)
<1>1. inS \in Nat /\ outS \in Nat /\ amount \in Nat \ {0}
  BY OtherAsset, AmountAssumption
<1>2. CASE type = "FixedInput"
  <2> DEFINE out == FixedInputOut(inS, outS, amount, FeeShare)
  <2>1. out \in Nat \cup {-1}
    <3>1. amount \in Nat /\ amount > 0 /\ FeeShare \in Nat /\ FeeShare < 10000
      BY <1>1, FeeAssumption
    <3>2. FixedInputFee(amount, FeeShare) \in 0 .. amount - 1
      BY <1>1, <3>1, FixedInputFeeBounds
    <3>3. 0 \in Nat /\ 0 <= FixedInputFee(amount, FeeShare)
      BY <3>1, <3>2
    <3> QED
      BY <1>1, <3>3, FixedInputSwap
  <2>2. q = [type |-> type, assetIn |-> assetIn, in |-> amount, out |-> out,
             seen |-> reserves]
    BY <1>2 DEF DirectSwapQuote
  <2> HIDE DEF q, out
  <2>3. q \in Quotes
    BY <1>1, <2>1, <2>2 DEF Quotes
  <2>4. PricedQuote(q)
    BY <1>1, <1>2, <2>2 DEF PricedQuote, out
  <2> QED
    BY <2>3, <2>4 DEF q
<1>3. CASE type = "FixedOutput"
  <2> DEFINE in == FixedOutputIn(inS, outS, amount, FeeShare)
  <2>1. amount < outS
    BY <1>1, <1>3 DEF QuoteFails
  <2>2. in \in Nat \ {0}
    BY <1>1, <2>1, FixedOutputSwap
  <2>3. q = [type |-> type, assetIn |-> assetIn, in |-> in, out |-> amount,
             seen |-> reserves]
    BY <1>3 DEF DirectSwapQuote
  <2> HIDE DEF q, in
  <2>4. q \in Quotes
    BY <1>1, <2>2, <2>3 DEF Quotes
  <2>5. PricedQuote(q)
    BY <1>1, <1>3, <2>1, <2>2, <2>3 DEF PricedQuote, in
  <2> QED
    BY <2>4, <2>5 DEF q
<1> QED
  BY <1>2, <1>3 DEF SwapTypes

\* The group generateTxns makes of a priced quote is priced as well.
LEMMA GroupIsPriced ==
  ASSUME NEW q \in Quotes, PricedQuote(q), NEW slippage \in Slippages,
         NEW sent \in SentAmounts(q, slippage),
         NEW bound \in BoundAmounts(q, slippage), Encodable(bound),
         NEW u \in Users, NEW n \in Nat
  PROVE  LET g == [id |-> <<u, n>>, user |-> u, type |-> q.type,
                   assetIn |-> q.assetIn, quotedIn |-> q.in, quotedOut |-> q.out,
                   slippage |-> slippage, sent |-> sent, bound |-> bound,
                   seen |-> q.seen]
         IN  g \in Groups /\ PricedGroup(g)
<1> DEFINE g == [id |-> <<u, n>>, user |-> u, type |-> q.type,
                 assetIn |-> q.assetIn, quotedIn |-> q.in, quotedOut |-> q.out,
                 slippage |-> slippage, sent |-> sent, bound |-> bound,
                 seen |-> q.seen]
<1>1. /\ q.type \in SwapTypes /\ q.assetIn \in Assets /\ q.in \in Nat
      /\ q.out \in Nat \cup {-1} /\ q.seen \in [Assets -> Nat]
  BY DEF Quotes
<1>2. slippage \in Nat /\ slippage <= 100
  BY AmountAssumption
<1>3. CASE q.type = "FixedInput"
  <2>1. sent = q.in
    BY <1>3 DEF SentAmounts
  <2>2. /\ bound \in Int
        /\ q.out \in Nat => bound <= q.out
        /\ 100 * bound >= q.out * (100 - slippage) - 100
    <3>1. bound \in SlippageAmounts("negative", slippage, q.out)
      BY <1>3 DEF BoundAmounts, SwapTypes
    <3> QED
      BY <1>1, <1>2, <3>1, NegativeSlippage
  <2>3. bound \in Nat
    BY <2>2 DEF Encodable
  <2>4. g \in Groups
    BY <1>1, <2>1, <2>3 DEF Groups
  <2>5. PricedGroup(g)
    BY <1>1, <1>3, <2>1, <2>2 DEF PricedGroup, PricedQuote
  <2> QED
    BY <2>4, <2>5
<1>4. CASE q.type = "FixedOutput"
  <2>1. bound = q.out /\ bound \in Nat
    BY <1>1, <1>4 DEF BoundAmounts, Encodable
  <2>2. /\ sent \in Nat
        /\ q.in <= sent
        /\ 100 * sent <= q.in * (100 + slippage)
    <3>1. sent \in SlippageAmounts("positive", slippage, q.in)
      BY <1>4 DEF SentAmounts
    <3> QED
      BY <1>1, <1>2, <3>1, PositiveSlippage
  <2>3. g \in Groups
    BY <1>1, <2>1, <2>2 DEF Groups
  <2>4. PricedGroup(g)
    BY <1>1, <1>4, <2>1, <2>2 DEF PricedGroup, PricedQuote
  <2> QED
    BY <2>3, <2>4
<1> QED
  BY <1>1, <1>3, <1>4 DEF SwapTypes

\* A protocol's part of a fee is part of it.
LEMMA ProtocolPart ==
  ASSUME NEW fee \in Nat
  PROVE  fee \div ProtocolRatio \in 0 .. fee
<1> DEFINE p == fee \div ProtocolRatio
<1>1. p \in Nat /\ ProtocolRatio * p <= fee /\ ProtocolRatio \in Nat \ {0}
  BY DivBound, FeeAssumption
<1> HIDE DEF p
<1>2. 1 * p <= ProtocolRatio * p /\ ProtocolRatio * p \in Nat
  BY <1>1, ProductMonotonic
<1> QED
  BY <1>1, <1>2 DEF p

(***************************************************************************)
(* What the execution of a priced group does: the amounts it moves are     *)
(* within the group's bounds, the reserves remain natural numbers and      *)
(* their product does not decrease.                                        *)
(***************************************************************************)
LEMMA ApplyEffect ==
  ASSUME TypeOK, NEW g \in Groups, PricedGroup(g), Executable(g)
  PROVE  LET paid == Paid(g, pool)
             got  == Got(g, pool)
             inS  == pool[g.assetIn]
             outS == pool[Other(g.assetIn)]
             left == inS + paid - ProtocolFee(g, pool)
         IN  /\ paid \in Nat /\ paid <= g.sent
             /\ got \in Nat /\ got <= outS
             /\ left \in Nat
             /\ left * (outS - got) >= inS * outS
             /\ g.type = "FixedInput" => paid = g.sent /\ got >= g.bound
             /\ g.type = "FixedOutput" => got = g.bound
<1> DEFINE inS  == pool[g.assetIn]
           outS == pool[Other(g.assetIn)]
<1>1. /\ g.type \in SwapTypes /\ g.assetIn \in Assets
      /\ g.sent \in Nat /\ g.bound \in Nat
      /\ inS \in Nat /\ outS \in Nat
  BY OtherAsset DEF Groups, TypeOK
<1>2. CASE g.type = "FixedInput"
  <2> DEFINE fee == FixedInputFee(g.sent, FeeShare)
             out == FixedInputOut(inS, outS, g.sent, FeeShare)
             protocol == fee \div ProtocolRatio
  <2>0. FeeShare \in Nat /\ FeeShare < 10000
    BY FeeAssumption
  <2>1. g.sent > 0
    BY <1>2 DEF PricedGroup
  <2>2. fee \in 0 .. g.sent - 1
    BY <1>1, <2>0, <2>1, FixedInputFeeBounds
  <2>3. protocol \in 0 .. fee
    BY <2>2, ProtocolPart
  <2>4. /\ out \in Nat \cup {-1} /\ out < outS /\ g.sent - protocol \in Nat
        /\ (inS + g.sent - protocol) * (outS - out) >= inS * outS
    <3>1. protocol \in Nat /\ protocol <= fee /\ g.sent \in Nat \ {0}
      BY <1>1, <2>1, <2>2, <2>3
    <3> QED
      BY <1>1, <3>1, FixedInputSwap
  <2>5. /\ Paid(g, pool) = g.sent /\ Got(g, pool) = out
        /\ ProtocolFee(g, pool) = protocol
    BY <1>2 DEF Paid, Got, ProtocolFee
  <2>6. out >= g.bound
    BY <1>2, <2>5 DEF Executable
  <2> HIDE DEF out, protocol
  <2>7. out \in Nat /\ out <= outS /\ inS + g.sent - protocol \in Nat
    BY <1>1, <2>2, <2>3, <2>4, <2>6
  <2> QED
    BY <1>1, <1>2, <2>4, <2>5, <2>6, <2>7
<1>3. CASE g.type = "FixedOutput"
  <2> DEFINE swapAmount == SwapAmountOfFixedOutput(inS, outS, g.bound)
             in == FixedOutputIn(inS, outS, g.bound, FeeShare)
             protocol == (in - swapAmount) \div ProtocolRatio
  <2>1. outS > g.bound /\ in <= g.sent
    BY <1>3 DEF Executable, Paid
  <2>2. /\ swapAmount \in Nat /\ in \in Nat /\ in >= swapAmount
        /\ \A p \in 0 .. (in - swapAmount) :
             /\ inS + in - p \in Nat
             /\ (inS + in - p) * (outS - g.bound) >= inS * outS
    BY <1>1, <2>1, FixedOutputSwap
  <2>3. protocol \in 0 .. (in - swapAmount)
    BY <2>2, ProtocolPart
  <2>4. /\ Paid(g, pool) = in /\ Got(g, pool) = g.bound
        /\ ProtocolFee(g, pool) = protocol
    BY <1>3 DEF Paid, Got, ProtocolFee
  <2> HIDE DEF in, swapAmount, protocol
  <2>5. /\ inS + in - protocol \in Nat
        /\ (inS + in - protocol) * (outS - g.bound) >= inS * outS
    BY <2>2, <2>3
  <2> QED
    BY <1>1, <1>3, <2>1, <2>2, <2>4, <2>5
<1> QED
  BY <1>1, <1>2, <1>3 DEF SwapTypes
-----------------------------------------------------------------------------
LEMMA InitIInv == Init => IInv
<1> SUFFICES ASSUME Init  PROVE IInv
  OBVIOUS
<1>1. TypeOK
  BY PoolAssumption, WalletAssumption, BoundAssumption DEF Init, TypeOK
<1>2. ByUser /\ QuotesPriced /\ GroupsPriced
  BY DEF Init, ByUser, QuotesPriced, GroupsPriced
<1>3. IdsTaken
  BY DEF Init, IdsTaken, Accepted
<1> QED
  BY <1>1, <1>2, <1>3 DEF IInv

\* The steps that leave the chain as it is.
LEMMA CallerStep ==
  ASSUME IInv, NEW u \in Users, UNCHANGED chainVars,
         \/ FetchPool(u) \/ Quoting(u) \/ Generating(u) \/ SignTxns(u)
         \/ Report(u) \/ ReportRejection(u)
  PROVE  IInv'
<1> USE DEF IInv, ByUser, chainVars
<1>1. Accepted' = Accepted
  BY DEF Accepted
<1>2. CASE FetchPool(u)
  <2>0. ByUser'
    BY <1>2 DEF FetchPool
  <2>1. TypeOK'
    BY <1>2, BoundAssumption DEF FetchPool, TypeOK
  <2>2. QuotesPriced'
    BY <1>2 DEF FetchPool, QuotesPriced, TypeOK
  <2>3. GroupsPriced'
    BY <1>2 DEF FetchPool, GroupsPriced, TypeOK
  <2>4. \A g \in Accepted : g.id \in Users \X Nat /\ g.id[2] <= swaps[g.id[1]]
    BY DEF TypeOK, IdsTaken, Accepted, Groups
  <2>5. \A v \in Users : swaps[v] \in Nat /\ swaps'[v] \in Nat
                         /\ swaps'[v] = IF v = u THEN swaps[v] + 1 ELSE swaps[v]
    BY <1>2, <2>1 DEF FetchPool, TypeOK
  <2>6. IdsTaken'
    <3>1. \A g \in Accepted : g.id[2] <= swaps'[g.id[1]]
      BY <2>4, <2>5
    <3>2. \A g \in Accepted : g.id # <<u, swaps'[u]>>
      BY <2>4, <2>5
    <3>3. \A v \in Users \ {u} : pc'[v] = pc[v] /\ swaps'[v] = swaps[v]
      BY <1>2, <2>5 DEF FetchPool, TypeOK
    <3>4. pc'[u] = "info" /\ group' = group
      BY <1>2 DEF FetchPool, TypeOK
    <3> QED
      BY <1>1, <3>1, <3>2, <3>3, <3>4 DEF IdsTaken
  <2> QED
    BY <2>0, <2>1, <2>2, <2>3, <2>6
<1>3. CASE Quoting(u)
  <2> SUFFICES ASSUME NEW type \in SwapTypes, NEW assetIn \in Assets,
                      NEW amount \in Amounts,
                      \/ GetQuote(u, type, assetIn, amount)
                      \/ QuoteRejected(u, type, assetIn, amount)
               PROVE  IInv'
    BY <1>3 DEF Quoting
  <2>1. CASE GetQuote(u, type, assetIn, amount)
    <3> DEFINE q == DirectSwapQuote(type, info[u], assetIn, amount)
    <3>1. q \in Quotes /\ PricedQuote(q)
      <4>1. info[u] \in [Assets -> Nat] /\ ~QuoteFails(type, info[u], assetIn, amount)
        BY <2>1 DEF GetQuote, TypeOK
      <4> QED
        BY <4>1, QuoteIsPriced
    <3>2. /\ quote' = [quote EXCEPT ![u] = q]
          /\ pc' = [pc EXCEPT ![u] = "quoted"]
          /\ pc[u] = "info"
          /\ UNCHANGED <<swaps, info, group, report>>
      BY <2>1 DEF GetQuote
    <3> HIDE DEF q
    <3>0. ByUser'
      BY <3>2
    <3>3. TypeOK'
      BY <3>1, <3>2 DEF TypeOK
    <3>4. QuotesPriced'
      BY <3>1, <3>2 DEF QuotesPriced, TypeOK
    <3>5. GroupsPriced'
      BY <3>2 DEF GroupsPriced, TypeOK
    <3>6. IdsTaken'
      BY <1>1, <3>2 DEF IdsTaken, TypeOK
    <3> QED
      BY <3>0, <3>3, <3>4, <3>5, <3>6
  <2>2. CASE QuoteRejected(u, type, assetIn, amount)
    <3>1. TypeOK'
      BY <2>2 DEF QuoteRejected, TypeOK
    <3>2. ByUser' /\ QuotesPriced' /\ GroupsPriced'
      BY <2>2 DEF QuoteRejected, QuotesPriced, GroupsPriced, TypeOK
    <3>3. IdsTaken'
      BY <1>1, <2>2 DEF QuoteRejected, IdsTaken, TypeOK
    <3> QED
      BY <3>1, <3>2, <3>3
  <2> QED
    BY <2>1, <2>2
<1>4. CASE Generating(u)
  <2> SUFFICES ASSUME NEW slippage \in Slippages,
                      GenerateTxns(u, slippage) \/ GenerateFails(u, slippage)
               PROVE  IInv'
    BY <1>4 DEF Generating
  <2>1. CASE GenerateTxns(u, slippage)
    <3>1. PICK sent \in SentAmounts(quote[u], slippage),
               bound \in BoundAmounts(quote[u], slippage) :
            /\ Encodable(bound)
            /\ group' = [group EXCEPT ![u] =
                 [id |-> <<u, swaps[u]>>, user |-> u, type |-> quote[u].type,
                  assetIn |-> quote[u].assetIn, quotedIn |-> quote[u].in,
                  quotedOut |-> quote[u].out, slippage |-> slippage,
                  sent |-> sent, bound |-> bound, seen |-> quote[u].seen]]
      BY <2>1 DEF GenerateTxns
    <3> DEFINE g == [id |-> <<u, swaps[u]>>, user |-> u, type |-> quote[u].type,
                     assetIn |-> quote[u].assetIn, quotedIn |-> quote[u].in,
                     quotedOut |-> quote[u].out, slippage |-> slippage,
                     sent |-> sent, bound |-> bound, seen |-> quote[u].seen]
    <3>2. g \in Groups /\ PricedGroup(g)
      <4>1. quote[u] \in Quotes /\ PricedQuote(quote[u]) /\ swaps[u] \in Nat
        BY <2>1, BoundAssumption DEF GenerateTxns, TypeOK, QuotesPriced
      <4> QED
        BY <3>1, <4>1, GroupIsPriced
    <3>3. g.id = <<u, swaps[u]>>
      OBVIOUS
    <3>4. /\ group' = [group EXCEPT ![u] = g]
          /\ pc' = [pc EXCEPT ![u] = "generated"]
          /\ pc[u] = "quoted"
          /\ UNCHANGED <<swaps, info, quote, report>>
      BY <2>1, <3>1 DEF GenerateTxns
    <3> HIDE DEF g
    <3>0. ByUser'
      BY <3>4
    <3>5. TypeOK'
      BY <3>2, <3>4 DEF TypeOK
    <3>6. QuotesPriced'
      BY <3>4 DEF QuotesPriced, TypeOK
    <3>7. GroupsPriced'
      BY <3>2, <3>4 DEF GroupsPriced, TypeOK
    <3>8. IdsTaken'
      BY <1>1, <3>3, <3>4 DEF IdsTaken, TypeOK
    <3> QED
      BY <3>0, <3>5, <3>6, <3>7, <3>8
  <2>2. CASE GenerateFails(u, slippage)
    <3>1. TypeOK'
      BY <2>2 DEF GenerateFails, TypeOK
    <3>2. ByUser' /\ QuotesPriced' /\ GroupsPriced'
      BY <2>2 DEF GenerateFails, QuotesPriced, GroupsPriced, TypeOK
    <3>3. IdsTaken'
      BY <1>1, <2>2 DEF GenerateFails, IdsTaken, TypeOK
    <3> QED
      BY <3>1, <3>2, <3>3
  <2> QED
    BY <2>1, <2>2
<1>5. CASE SignTxns(u)
  <2>1. TypeOK'
    BY <1>5 DEF SignTxns, TypeOK
  <2>2. ByUser' /\ QuotesPriced' /\ GroupsPriced'
    BY <1>5 DEF SignTxns, QuotesPriced, GroupsPriced, TypeOK
  <2>3. IdsTaken'
    BY <1>1, <1>5 DEF SignTxns, IdsTaken, TypeOK
  <2> QED
    BY <2>1, <2>2, <2>3
<1>6. CASE Report(u)
  <2>1. TypeOK'
    BY <1>6 DEF Report, TypeOK
  <2>2. ByUser' /\ QuotesPriced' /\ GroupsPriced'
    BY <1>6 DEF Report, QuotesPriced, GroupsPriced, TypeOK
  <2>3. IdsTaken'
    BY <1>1, <1>6 DEF Report, IdsTaken, TypeOK
  <2> QED
    BY <2>1, <2>2, <2>3
<1>7. CASE ReportRejection(u)
  <2>1. TypeOK'
    BY <1>7 DEF ReportRejection, TypeOK
  <2>2. ByUser' /\ QuotesPriced' /\ GroupsPriced'
    BY <1>7 DEF ReportRejection, QuotesPriced, GroupsPriced, TypeOK
  <2>3. IdsTaken'
    BY <1>1, <1>7 DEF ReportRejection, IdsTaken, TypeOK
  <2> QED
    BY <2>1, <2>2, <2>3
<1> QED
  BY <1>2, <1>3, <1>4, <1>5, <1>6, <1>7

\* The steps that hand a signed group to the node, or fail to.
LEMMA SubmitStep ==
  ASSUME IInv, NEW u \in Users, Send(u) \/ SendThrows(u)
  PROVE  IInv'
<1> USE DEF IInv, ByUser
<1>1. /\ pc[u] = "signed"
      /\ pending' \in {pending, pending \cup {group[u]}}
      /\ rejected' \in {rejected, rejected \ {group[u]}}
      /\ pc' \in {pc, [pc EXCEPT ![u] = "waiting"], [pc EXCEPT ![u] = "idle"]}
      /\ UNCHANGED <<pool, wallet, applied, expired, swaps, info, quote, group>>
  BY DEF Send, SendThrows
<1>2. group[u] \in Groups /\ PricedGroup(group[u])
  BY <1>1 DEF TypeOK, GroupsPriced
<1>3. TypeOK'
  BY <1>1, <1>2 DEF TypeOK
<1>4. ByUser'
  BY <1>1
<1>5. QuotesPriced'
  BY <1>1 DEF QuotesPriced, TypeOK
<1>6. GroupsPriced'
  BY <1>1, <1>2 DEF GroupsPriced, TypeOK
<1>7. Accepted' \subseteq Accepted \cup {group[u]}
  BY <1>1 DEF Accepted
<1>8. /\ group[u].id = <<u, swaps[u]>>
      /\ group[u].id[1] = u /\ group[u].id[2] = swaps[u] /\ swaps[u] \in Nat
  BY <1>1, BoundAssumption DEF IdsTaken, TypeOK
<1>9. IdsTaken'
  <2>1. \A g \in Accepted' : g.id[2] <= swaps'[g.id[1]]
    BY <1>1, <1>7, <1>8 DEF IdsTaken
  <2>2. ASSUME NEW v \in Users, pc'[v] \in {"info", "quoted"}
        PROVE  \A g \in Accepted' : g.id # <<v, swaps'[v]>>
    BY <1>1, <1>7, <1>8, <2>2 DEF IdsTaken, TypeOK
  <2>3. ASSUME NEW v \in Users, pc'[v] \in {"generated", "signed"}
        PROVE  /\ group'[v].id = <<v, swaps'[v]>>
               /\ \A g \in Accepted' : g.id = <<v, swaps'[v]>> => g = group'[v]
    BY <1>1, <1>7, <1>8, <2>3 DEF IdsTaken, TypeOK
  <2> QED
    BY <2>1, <2>2, <2>3 DEF IdsTaken
<1> QED
  BY <1>3, <1>4, <1>5, <1>6, <1>9

\* The chain's steps.
LEMMA ChainStep ==
  ASSUME IInv, NEW g \in pending, Apply(g) \/ Reject(g) \/ Expire(g)
  PROVE  IInv'
<1> USE DEF IInv, ByUser, userVars
<1>1. g \in Groups /\ PricedGroup(g)
  BY DEF TypeOK, GroupsPriced
<1>2. pending' = pending \ {g} /\ UNCHANGED userVars
  BY DEF Apply, Reject, Expire
<1>3. TypeOK'
  <2>1. CASE Apply(g)
    <3> DEFINE paid == Paid(g, pool)
               got  == Got(g, pool)
               protocol == ProtocolFee(g, pool)
               a == g.assetIn
               b == Other(g.assetIn)
    <3>1. /\ paid \in Nat /\ paid <= g.sent
          /\ got \in Nat /\ got <= pool[b]
          /\ pool[a] + paid - protocol \in Nat
      BY <1>1, <2>1, ApplyEffect DEF Apply
    <3>2. wallet[g.user][a] >= g.sent
      BY <2>1 DEF Apply, Executable
    <3>3. a \in Assets /\ b \in Assets /\ a # b /\ g.user \in Users /\ g.sent \in Nat
      BY <1>1, OtherAsset DEF Groups
    <3>4. /\ pool' = [pool EXCEPT ![a] = @ + paid - protocol, ![b] = @ - got]
          /\ wallet' = [wallet EXCEPT ![g.user][a] = @ - paid, ![g.user][b] = @ + got]
          /\ applied' = applied \cup {[group |-> g, paid |-> paid, got |-> got]}
          /\ UNCHANGED <<rejected, expired>>
      BY <2>1 DEF Apply
    <3> HIDE DEF paid, got, protocol, a, b
    <3>5. pool' \in [Assets -> Nat]
      BY <3>1, <3>3, <3>4 DEF TypeOK
    <3>6. wallet' \in [Users -> [Assets -> Nat]]
      BY <3>1, <3>2, <3>3, <3>4 DEF TypeOK
    <3>7. \A x \in applied' : x.group \in Groups /\ x.paid \in Nat /\ x.got \in Nat
      BY <1>1, <3>1, <3>4 DEF TypeOK
    <3> QED
      BY <1>2, <3>4, <3>5, <3>6, <3>7 DEF TypeOK
  <2>2. CASE Reject(g)
    BY <1>1, <1>2, <2>2 DEF Reject, TypeOK
  <2>3. CASE Expire(g)
    BY <1>1, <1>2, <2>3 DEF Expire, TypeOK
  <2> QED
    BY <2>1, <2>2, <2>3
<1>4. ByUser' /\ QuotesPriced'
  BY <1>2 DEF QuotesPriced
<1>5. GroupsPriced'
  BY <1>2 DEF GroupsPriced
<1>6. IdsTaken'
  <2>1. Accepted' \subseteq Accepted
    BY <1>2 DEF Apply, Reject, Expire, Accepted
  <2> QED
    BY <1>2, <2>1 DEF IdsTaken
<1> QED
  BY <1>3, <1>4, <1>5, <1>6
-----------------------------------------------------------------------------
THEOREM IInvInductive == IInv /\ [Next]_vars => IInv'
<1> SUFFICES ASSUME IInv, [Next]_vars  PROVE IInv'
  OBVIOUS
<1>1. CASE UNCHANGED vars
  BY <1>1 DEF vars, chainVars, userVars, IInv, TypeOK, ByUser, QuotesPriced,
              GroupsPriced, IdsTaken, Accepted
<1>2. ASSUME NEW u \in Users, UserNext(u)
      PROVE  IInv'
  <2>1. CASE Send(u) \/ SendThrows(u)
    BY <2>1, SubmitStep
  <2>2. CASE FetchPool(u) \/ Quoting(u) \/ Generating(u) \/ SignTxns(u)
             \/ Report(u) \/ ReportRejection(u)
    <3>1. UNCHANGED chainVars
      BY <2>2 DEF FetchPool, Quoting, GetQuote, QuoteRejected, Generating,
                  GenerateTxns, GenerateFails, SignTxns, Report, ReportRejection
    <3> QED
      BY <2>2, <3>1, CallerStep
  <2> QED
    BY <1>2, <2>1, <2>2 DEF UserNext
<1>3. CASE ChainNext
  BY <1>3, ChainStep DEF ChainNext
<1> QED
  BY <1>1, <1>2, <1>3 DEF Next

THEOREM InvariantHolds == Spec => []IInv
  BY InitIInv, IInvInductive, PTL DEF Spec

\* TypeOK: no reserve, balance or amount of a group ever goes below zero.
THEOREM TypeCorrect == Spec => []TypeOK
<1>1. IInv => TypeOK
  BY DEF IInv
<1> QED
  BY <1>1, InvariantHolds, PTL

(***************************************************************************)
(* ConstantProduct: whatever stale quotes are executed in whatever order,  *)
(* no step takes value out of the pool.                                    *)
(***************************************************************************)
THEOREM ProductNeverDecreases == Spec => ConstantProduct
<1>1. IInv /\ [Next]_vars => [pool'[1] * pool'[2] >= pool[1] * pool[2]]_pool
  <2> SUFFICES ASSUME IInv, [Next]_vars, pool' # pool
               PROVE  pool'[1] * pool'[2] >= pool[1] * pool[2]
    OBVIOUS
  <2>1. PICK g \in pending : Apply(g)
    BY DEF vars, chainVars, Next, ChainNext, UserNext, Reject, Expire, FetchPool,
           Quoting, GetQuote, QuoteRejected, Generating, GenerateTxns,
           GenerateFails, SignTxns, Send, SendThrows, Report, ReportRejection
  <2>2. TypeOK /\ g \in Groups /\ PricedGroup(g) /\ Executable(g)
    BY <2>1 DEF IInv, TypeOK, GroupsPriced, Apply
  <2> DEFINE a == g.assetIn
             b == Other(g.assetIn)
             left == pool[a] + Paid(g, pool) - ProtocolFee(g, pool)
             got == Got(g, pool)
  <2>3. /\ left \in Nat /\ got \in Nat /\ got <= pool[b]
        /\ left * (pool[b] - got) >= pool[a] * pool[b]
    BY <2>2, ApplyEffect
  <2>4. a \in Assets /\ b \in Assets /\ a # b /\ pool \in [Assets -> Nat]
    BY <2>2, OtherAsset DEF Groups, TypeOK
  <2>5. pool' = [pool EXCEPT ![a] = left, ![b] = @ - got]
    BY <2>1 DEF Apply
  <2> HIDE DEF a, b, left, got
  <2>6. pool'[a] = left /\ pool'[b] = pool[b] - got
    BY <2>4, <2>5
  <2>7. pool'[a] * pool'[b] >= pool[a] * pool[b]
    BY <2>3, <2>6
  <2>8. CASE a = 1 /\ b = 2
    BY <2>7, <2>8
  <2>9. CASE a = 2 /\ b = 1
    <3>1. /\ pool[1] \in Nat /\ pool[2] \in Nat
          /\ pool'[1] \in Nat /\ pool'[2] \in Nat
      BY <2>3, <2>4, <2>6, <2>9
    <3>2. pool'[2] * pool'[1] >= pool[2] * pool[1]
      BY <2>7, <2>9
    <3>3. pool'[2] * pool'[1] = pool'[1] * pool'[2] /\ pool[2] * pool[1] = pool[1] * pool[2]
      BY <3>1, Z3
    <3> QED
      BY <3>2, <3>3
  <2> QED
    BY <2>4, <2>8, <2>9
<1> QED
  BY <1>1, InvariantHolds, PTL DEF Spec, ConstantProduct

(***************************************************************************)
(* RefusedOnlyIfPoolMoved: on the reserves it was quoted from, every       *)
(* group passes the contract's comparison, however applySlippageToAmount   *)
(* rounded.                                                                *)
(***************************************************************************)
LEMMA UndisturbedGroupExecutes ==
  ASSUME TypeOK, NEW g \in Groups, PricedGroup(g),
         pool = g.seen, wallet[g.user][g.assetIn] >= g.sent, g.quotedOut >= 0
  PROVE  Executable(g)
<1>1. /\ g.type \in SwapTypes /\ g.bound \in Nat /\ g.quotedOut \in Nat \cup {-1}
  BY DEF Groups
<1>2. CASE g.type = "FixedInput"
  <2>1. Got(g, pool) = g.quotedOut /\ g.bound <= g.quotedOut
    BY <1>1, <1>2 DEF Got, PricedGroup
  <2> QED
    BY <1>1, <1>2, <2>1 DEF Executable
<1>3. CASE g.type = "FixedOutput"
  <2>1. /\ Paid(g, pool) = g.quotedIn /\ g.quotedIn <= g.sent
        /\ g.bound < pool[Other(g.assetIn)]
    BY <1>3 DEF Paid, PricedGroup
  <2>2. pool[Other(g.assetIn)] \in Nat
    BY OtherAsset DEF Groups, TypeOK
  <2> QED
    BY <1>1, <1>3, <2>1, <2>2 DEF Executable
<1> QED
  BY <1>1, <1>2, <1>3 DEF SwapTypes

THEOREM UndisturbedSwapIsNotRefused == Spec => RefusedOnlyIfPoolMoved
<1> DEFINE Reasoned == \A g \in rejected' \ rejected :
                         \/ pool # g.seen
                         \/ wallet[g.user][g.assetIn] < g.sent
                         \/ g.quotedOut < 0
<1>1. IInv /\ [Next]_vars => [Reasoned]_rejected
  <2> SUFFICES ASSUME IInv, [Next]_vars, NEW g \in rejected' \ rejected
               PROVE  \/ pool # g.seen
                      \/ wallet[g.user][g.assetIn] < g.sent
                      \/ g.quotedOut < 0
    OBVIOUS
  <2>1. g \in pending /\ Reject(g)
    BY DEF vars, chainVars, Next, ChainNext, UserNext, Apply, Reject, Expire,
           FetchPool, Quoting, GetQuote, QuoteRejected, Generating, GenerateTxns,
           GenerateFails, SignTxns, Send, SendThrows, Report, ReportRejection
  <2>2. g \in Groups /\ PricedGroup(g) /\ TypeOK /\ ~Executable(g)
    BY <2>1 DEF IInv, TypeOK, GroupsPriced, Reject
  <2>3. /\ wallet[g.user][g.assetIn] \in Nat /\ g.sent \in Nat
        /\ g.quotedOut \in Nat \cup {-1}
    BY <2>2 DEF Groups, TypeOK
  <2> QED
    BY <2>2, <2>3, UndisturbedGroupExecutes
<1> QED
  BY <1>1, InvariantHolds, PTL DEF Spec, RefusedOnlyIfPoolMoved
-----------------------------------------------------------------------------
(* The refinement: one lemma for each kind of step of the abstract          *)
(* specification.                                                           *)

LEMMA ExecutionIsExchange ==
  ASSUME IInv, IInv', NEW g \in pending, Apply(g)
  PROVE  Exchange!Exchange(g)
<1>1. TypeOK /\ g \in Groups /\ PricedGroup(g) /\ Executable(g)
  BY DEF IInv, TypeOK, GroupsPriced, Apply
<1> DEFINE a == g.assetIn
           b == Other(g.assetIn)
           paid == Paid(g, pool)
           got == Got(g, pool)
<1>2. /\ paid \in Nat /\ paid <= g.sent /\ got \in Nat
      /\ g.type = "FixedInput" => paid = g.sent /\ got >= g.bound
      /\ g.type = "FixedOutput" => got = g.bound
  BY <1>1, ApplyEffect
<1>3. /\ a \in Assets /\ b \in Assets /\ a # b /\ g.user \in Users
      /\ wallet \in [Users -> [Assets -> Nat]]
  BY <1>1, OtherAsset DEF Groups, TypeOK
<1>4. Exchange!Other(g.assetIn) = b
  BY <1>3 DEF Exchange!Other
<1>5. /\ wallet' = [wallet EXCEPT ![g.user][a] = @ - paid, ![g.user][b] = @ + got]
      /\ pending' = pending \ {g}
      /\ applied' = applied \cup {[group |-> g, paid |-> paid, got |-> got]}
  BY DEF Apply
<1>6. wallet' \in [Users -> [Assets -> Nat]]
  BY DEF IInv, TypeOK
<1>7. {x.group : x \in applied'} = {x.group : x \in applied} \cup {g}
  <2> DEFINE last == [group |-> g, paid |-> paid, got |-> got]
  <2>1. last.group = g
    OBVIOUS
  <2>2. applied' = applied \cup {last}
    BY <1>5
  <2> HIDE DEF last
  <2> QED
    BY <2>1, <2>2
<1> HIDE DEF paid, got, b
<1>8. /\ wallet[g.user][a] - wallet'[g.user][a] = paid
      /\ wallet'[g.user][b] - wallet[g.user][b] = got
      /\ \A u \in Users \ {g.user} : wallet'[u] = wallet[u]
  BY <1>2, <1>3, <1>5
<1>9. Exchange!WithinLimits(g, paid, got)
  <2>1. /\ g.type \in SwapTypes /\ g.quotedIn \in Nat /\ g.sent \in Nat
        /\ g.bound \in Nat /\ g.quotedOut \in Nat \cup {-1} /\ g.slippage \in Nat
        /\ g.slippage <= 100
    <3>1. /\ g.type \in SwapTypes /\ g.quotedIn \in Nat /\ g.sent \in Nat
          /\ g.bound \in Nat /\ g.quotedOut \in Nat \cup {-1}
          /\ g.slippage \in Slippages
      BY <1>1 DEF Groups
    <3>2. \A s \in Slippages : s \in Nat /\ s <= 100
      BY AmountAssumption
    <3> QED
      BY <3>1, <3>2
  <2>2. CASE g.type = "FixedInput"
    <3>1. paid = g.quotedIn
      BY <1>1, <1>2, <2>2 DEF PricedGroup
    <3>2. 100 * g.bound >= g.quotedOut * (100 - g.slippage) - 100
      BY <1>1, <2>2 DEF PricedGroup
    <3> DEFINE asked == g.quotedOut * (100 - g.slippage)
    <3>3. asked \in Int
      BY <2>1
    <3> HIDE DEF asked
    <3>4. 100 * got >= asked - 100
      BY <1>2, <2>1, <2>2, <3>2, <3>3 DEF asked
    <3> QED
      BY <2>2, <3>1, <3>4 DEF Exchange!WithinLimits, asked
  <2>3. CASE g.type = "FixedOutput"
    <3>1. got = g.quotedOut
      BY <1>1, <1>2, <2>3 DEF PricedGroup
    <3>2. 100 * g.sent <= g.quotedIn * (100 + g.slippage)
      BY <1>1, <2>3 DEF PricedGroup
    <3> DEFINE allowed == g.quotedIn * (100 + g.slippage)
    <3>3. allowed \in Nat
      BY <2>1
    <3> HIDE DEF allowed
    <3>4. 100 * paid <= allowed
      BY <1>2, <2>1, <3>2, <3>3 DEF allowed
    <3> QED
      BY <2>3, <3>1, <3>4 DEF Exchange!WithinLimits, allowed
  <2> QED
    BY <2>1, <2>2, <2>3 DEF SwapTypes
<1> QED
  BY <1>4, <1>5, <1>6, <1>7, <1>8, <1>9 DEF Exchange!Exchange

LEMMA SubmissionAuthorizes ==
  ASSUME IInv, NEW u \in Users, Send(u) \/ SendThrows(u)
  PROVE  (\E o \in pending' : Exchange!Authorize(o)) \/ UNCHANGED Exchange!vars
<1>1. UNCHANGED <<wallet, applied>>
  BY DEF Send, SendThrows
<1>2. CASE pending' = pending
  BY <1>1, <1>2 DEF Exchange!vars
<1>3. CASE Submittable(group[u]) /\ pending' = pending \cup {group[u]}
  <2>1. pc[u] = "signed"
    BY DEF Send, SendThrows
  <2>2. \A p \in Accepted : p.id = group[u].id => p = group[u]
    BY <2>1 DEF IInv, IdsTaken
  <2>3. group[u] \notin Accepted
    BY <1>3 DEF Submittable, Accepted
  <2>4. \A p \in Accepted : p.id # group[u].id
    BY <2>2, <2>3
  <2>5. Exchange!Authorize(group[u])
    BY <1>1, <1>3, <2>4 DEF Exchange!Authorize, Accepted
  <2> QED
    BY <1>3, <2>5
<1> QED
  BY <1>2, <1>3 DEF Send, SendThrows

(***************************************************************************)
(* ImplementsExchange: the swap, with its stale quotes, lost answers and   *)
(* repeated submissions, implements the exchange the user authorized.      *)
(***************************************************************************)
THEOREM SwapImplementsExchange == Spec => ImplementsExchange
<1>1. Init => Exchange!Init
  BY WalletAssumption DEF Init, Exchange!Init
<1>2. IInv /\ IInv' /\ [Next]_vars => [Exchange!Next]_(Exchange!vars)
  <2> SUFFICES ASSUME IInv, IInv', [Next]_vars
               PROVE  Exchange!Next \/ UNCHANGED Exchange!vars
    OBVIOUS
  <2>1. CASE UNCHANGED vars
    BY <2>1 DEF vars, chainVars, Exchange!vars
  <2>2. ASSUME NEW u \in Users, UserNext(u)
        PROVE  Exchange!Next \/ UNCHANGED Exchange!vars
    <3>1. CASE Send(u) \/ SendThrows(u)
      BY <3>1, SubmissionAuthorizes DEF Exchange!Next
    <3>2. CASE FetchPool(u) \/ Quoting(u) \/ Generating(u) \/ SignTxns(u)
               \/ Report(u) \/ ReportRejection(u)
      BY <3>2 DEF FetchPool, Quoting, GetQuote, QuoteRejected, Generating,
                  GenerateTxns, GenerateFails, SignTxns, Report, ReportRejection,
                  chainVars, Exchange!vars
    <3> QED
      BY <2>2, <3>1, <3>2 DEF UserNext
  <2>3. ASSUME NEW g \in pending, Apply(g)
        PROVE  Exchange!Next
    BY <2>3, ExecutionIsExchange DEF Exchange!Next
  <2>4. ASSUME NEW g \in pending, Reject(g) \/ Expire(g)
        PROVE  Exchange!Next
    BY <2>4 DEF Reject, Expire, Exchange!Withdraw, Exchange!Next
  <2> QED
    BY <2>1, <2>2, <2>3, <2>4 DEF Next, ChainNext
<1> QED
  BY <1>1, <1>2, InvariantHolds, PTL DEF Spec, ImplementsExchange, Exchange!Spec
-----------------------------------------------------------------------------
(* The report: what its inductive invariant adds is that the group a user   *)
(* waits for was made from the quote the user holds, and that a fixed input *)
(* is spent in full.                                                        *)

SpentInFull ==
  \A x \in applied : x.group.type = "FixedInput" =>
    x.paid = x.group.sent /\ x.group.sent = x.group.quotedIn

MadeFromQuote ==
  \A u \in Users : pc[u] \in {"generated", "signed", "waiting"} =>
    group[u].quotedIn = quote[u].in

RInv ==
  /\ SpentInFull /\ MadeFromQuote /\ ReportsTheExchange
  /\ report = [u \in Users |-> report[u]]

LEMMA ReportStep ==
  ASSUME IInv, IInv', RInv, NEW u \in Users, Report(u)
  PROVE  RInv'
<1>1. PICK x \in applied, fetched \in BOOLEAN :
        /\ x.group = group[u]
        /\ report' = [report EXCEPT ![u] = ExecutionReport(quote[u], x, fetched)]
  BY DEF Report
<1>2. /\ pc[u] = "waiting" /\ pc' = [pc EXCEPT ![u] = "done"]
      /\ UNCHANGED <<applied, quote, group>>
  BY DEF Report, chainVars
<1>3. report'[u] = ExecutionReport(quote[u], x, fetched)
  BY <1>1 DEF RInv
<1>4. /\ quote[u].in \in Nat /\ x.paid \in Nat /\ group[u].sent \in Nat
      /\ group[u].quotedIn = quote[u].in
  BY <1>2 DEF IInv, TypeOK, Quotes, Groups, RInv, MadeFromQuote
<1>5. group[u].type = "FixedInput" => report'[u].in = x.paid
  BY <1>1, <1>3, <1>4 DEF ExecutionReport, RInv, SpentInFull
<1>6. report'[u].out \in {{}, {x.got}}
  BY <1>3 DEF ExecutionReport
<1>7. ReportsTheExchange'
  BY <1>1, <1>2, <1>5, <1>6 DEF ReportsTheExchange, RInv, IInv, TypeOK
<1>8. SpentInFull' /\ MadeFromQuote'
  BY <1>2 DEF SpentInFull, MadeFromQuote, RInv, IInv, TypeOK
<1> QED
  BY <1>1, <1>7, <1>8 DEF RInv

LEMMA OtherSteps ==
  ASSUME IInv, IInv', RInv, Next, \A u \in Users : ~Report(u)
  PROVE  RInv'
<1> USE DEF RInv
<1>1. CASE ChainNext
  <2> SUFFICES ASSUME NEW g \in pending, Apply(g) \/ Reject(g) \/ Expire(g)
               PROVE  RInv'
    BY <1>1 DEF ChainNext
  <2>1. UNCHANGED userVars /\ applied \subseteq applied'
    BY DEF Apply, Reject, Expire
  <2>2. SpentInFull'
    <3>1. CASE Apply(g)
      <4>1. /\ TypeOK /\ g \in Groups /\ PricedGroup(g) /\ Executable(g)
            /\ applied' = applied \cup
                 {[group |-> g, paid |-> Paid(g, pool), got |-> Got(g, pool)]}
        BY <3>1 DEF IInv, TypeOK, GroupsPriced, Apply
      <4>2. g.type = "FixedInput" => Paid(g, pool) = g.sent /\ g.sent = g.quotedIn
        BY <4>1 DEF Paid, PricedGroup
      <4> QED
        BY <4>1, <4>2 DEF SpentInFull
    <3>2. CASE Reject(g) \/ Expire(g)
      BY <3>2 DEF Reject, Expire, SpentInFull
    <3> QED
      BY <3>1, <3>2
  <2>3. MadeFromQuote' /\ ReportsTheExchange'
    BY <2>1 DEF userVars, MadeFromQuote, ReportsTheExchange
  <2> QED
    BY <2>1, <2>2, <2>3 DEF userVars
<1>2. ASSUME NEW u \in Users, UserNext(u)
      PROVE  RInv'
  <2>1. UNCHANGED applied
    BY <1>2 DEF UserNext, chainVars, FetchPool, Quoting, GetQuote, QuoteRejected,
                Generating, GenerateTxns, GenerateFails, SignTxns, Send, SendThrows,
                Report, ReportRejection
  <2>2. CASE FetchPool(u)
    <3>1. MadeFromQuote' /\ SpentInFull'
      BY <2>1, <2>2 DEF FetchPool, MadeFromQuote, SpentInFull, IInv, TypeOK
    <3>2. ReportsTheExchange'
      BY <2>1, <2>2 DEF FetchPool, ReportsTheExchange, IInv, TypeOK
    <3> QED
      BY <2>2, <3>1, <3>2 DEF FetchPool
  <2>3. ASSUME /\ pc' \in {pc} \cup {[pc EXCEPT ![u] = s] :
                                   s \in {"idle", "signed", "waiting"}}
               /\ pc[u] \notin {"idle", "done"}
               /\ pc'[u] \in {"signed", "waiting"} => pc[u] \in {"generated", "signed"}
               /\ UNCHANGED <<quote, group, report>>
        PROVE  RInv'
    <3>1. MadeFromQuote' /\ SpentInFull'
      BY <2>1, <2>3 DEF MadeFromQuote, SpentInFull, IInv, TypeOK
    <3>2. ReportsTheExchange'
      BY <2>1, <2>3 DEF ReportsTheExchange, IInv, TypeOK
    <3> QED
      BY <2>3, <3>1, <3>2
  <2>4. CASE SignTxns(u) \/ Send(u) \/ SendThrows(u) \/ ReportRejection(u)
    BY <2>3, <2>4 DEF SignTxns, Send, SendThrows, ReportRejection, IInv, TypeOK
  <2>5. CASE Quoting(u)
    <3> SUFFICES ASSUME NEW type \in SwapTypes, NEW assetIn \in Assets,
                        NEW amount \in Amounts,
                        \/ GetQuote(u, type, assetIn, amount)
                        \/ QuoteRejected(u, type, assetIn, amount)
                 PROVE  RInv'
      BY <2>5 DEF Quoting
    <3>1. CASE QuoteRejected(u, type, assetIn, amount)
      BY <2>3, <3>1 DEF QuoteRejected, IInv, TypeOK
    <3>2. CASE GetQuote(u, type, assetIn, amount)
      <4> DEFINE q == DirectSwapQuote(type, info[u], assetIn, amount)
      <4>1. /\ quote' = [quote EXCEPT ![u] = q] /\ pc[u] = "info"
            /\ pc' = [pc EXCEPT ![u] = "quoted"] /\ UNCHANGED <<group, report>>
        BY <3>2 DEF GetQuote
      <4> HIDE DEF q
      <4>2. MadeFromQuote' /\ SpentInFull'
        BY <2>1, <4>1 DEF MadeFromQuote, SpentInFull, IInv, TypeOK, ByUser
      <4>3. ReportsTheExchange'
        BY <2>1, <4>1 DEF ReportsTheExchange, IInv, TypeOK
      <4> QED
        BY <4>1, <4>2, <4>3
    <3> QED
      BY <3>1, <3>2
  <2>6. CASE Generating(u)
    <3> SUFFICES ASSUME NEW slippage \in Slippages,
                        GenerateTxns(u, slippage) \/ GenerateFails(u, slippage)
                 PROVE  RInv'
      BY <2>6 DEF Generating
    <3>1. CASE GenerateFails(u, slippage)
      BY <2>3, <3>1 DEF GenerateFails, IInv, TypeOK
    <3>2. CASE GenerateTxns(u, slippage)
      <4>1. /\ pc[u] = "quoted" /\ pc' = [pc EXCEPT ![u] = "generated"]
            /\ UNCHANGED <<quote, report>>
            /\ group'[u].quotedIn = quote[u].in
            /\ \A v \in Users \ {u} : group'[v] = group[v]
        BY <3>2 DEF GenerateTxns, IInv, ByUser
      <4>2. MadeFromQuote' /\ SpentInFull'
        BY <2>1, <4>1 DEF MadeFromQuote, SpentInFull, IInv, TypeOK
      <4>3. \A v \in Users : pc'[v] = "done" => pc[v] = "done" /\ group'[v] = group[v]
        BY <4>1 DEF IInv, TypeOK
      <4>4. ReportsTheExchange'
        BY <2>1, <4>1, <4>3 DEF ReportsTheExchange
      <4> QED
        BY <4>1, <4>2, <4>4
    <3> QED
      BY <3>1, <3>2
  <2> QED
    BY <1>2, <2>2, <2>4, <2>5, <2>6 DEF UserNext
<1> QED
  BY <1>1, <1>2 DEF Next

(***************************************************************************)
(* ReportsTheExchange: execute never reports another user's swap, nor the  *)
(* user's own with amounts other than the executed ones.                   *)
(***************************************************************************)
THEOREM ReportIsTheExchange == Spec => []ReportsTheExchange
<1>1. Init => RInv
  BY DEF Init, RInv, SpentInFull, MadeFromQuote, ReportsTheExchange
<1>2. IInv /\ IInv' /\ RInv /\ [Next]_vars => RInv'
  <2> SUFFICES ASSUME IInv, IInv', RInv, [Next]_vars  PROVE RInv'
    OBVIOUS
  <2>1. CASE UNCHANGED vars
    BY <2>1 DEF vars, chainVars, userVars, RInv, SpentInFull, MadeFromQuote,
                ReportsTheExchange
  <2>2. CASE Next
    BY <2>2, ReportStep, OtherSteps
  <2> QED
    BY <2>1, <2>2
<1>3. RInv => ReportsTheExchange
  BY DEF RInv
<1> QED
  BY <1>1, <1>2, <1>3, InvariantHolds, PTL DEF Spec
=============================================================================
