--------------------------- MODULE AmountsProofs ----------------------------
(***************************************************************************)
(* The Router's arithmetic stays within the naturals: no guarded           *)
(* subtraction underflows and no division has a zero divisor.  What the    *)
(* picks of decomposeCascading return, for every amount and every entropy  *)
(* byte: transfers that add up to the claim, none of which shows it, and   *)
(* for whole ICP denominations only.  And that the claim is the amount.    *)
(***************************************************************************)
EXTENDS SealAmounts, FiniteSetTheorems, SequenceTheorems, TLAPS

(* The arithmetic of prepare_deposit and seal_deposit *)

LEMMA DivNat == \A a \in Nat, b \in Nat \ {0} : a \div b \in Nat
  OBVIOUS

LEMMA MonusNat == \A a, b \in Nat : Monus(a, b) \in Nat
  BY DEF Monus

LEMMA LesserNat == \A a, b \in Nat : Lesser(a, b) \in Nat
  BY DEF Lesser

LEMMA CeilDivNat == \A a \in Nat, b \in Nat \ {0} : CeilDiv(a, b) \in Nat
<1> SUFFICES ASSUME NEW a \in Nat, NEW b \in Nat \ {0}
             PROVE  CeilDiv(a, b) \in Nat
  OBVIOUS
<1>1. a + (b - 1) \in Nat
  OBVIOUS
<1> QED
  BY <1>1, DivNat DEF CeilDiv

LEMMA SpawnFeeEstimateNat ==
  ASSUME NEW rate \in Nat \ {0}
  PROVE  SpawnFeeEstimate(rate) \in Nat
<1>1. (TOTAL_CYCLES * 11) \div 10 \in Nat
  BY CyclesAssumption, DivNat
<1>2. CeilDiv((TOTAL_CYCLES * 11) \div 10, rate) \in Nat
  BY <1>1, CeilDivNat
<1> QED
  BY <1>2, FeeAssumption DEF SpawnFeeEstimate

LEMMA ConvertAmountNat ==
  ASSUME NEW balance \in Nat, NEW rate \in Nat \ {0}, NEW pct \in 0..100
  PROVE  ConvertAmount(balance, rate, pct) \in Nat
<1> DEFINE burn == ((TOTAL_CYCLES - ROUTER_CYCLES_PER_TX) * Monus(100, pct))
                     \div 100 + ROUTER_CYCLES_PER_TX
<1>1. /\ TOTAL_CYCLES - ROUTER_CYCLES_PER_TX \in Nat
      /\ ROUTER_CYCLES_PER_TX \in Nat
  <2>1. TOTAL_CYCLES \in Nat
    BY CyclesAssumption
  <2>2. ROUTER_CYCLES_PER_TX \in 1..TOTAL_CYCLES
    BY CyclesAssumption
  <2> QED
    BY <2>1, <2>2
<1>2. Monus(100, pct) \in Nat
  <2>1. 100 \in Nat /\ pct \in Nat
    OBVIOUS
  <2> QED
    BY <2>1, MonusNat
<1>3. \A a, b \in Nat : a * b \in Nat
  OBVIOUS
<1>4. (TOTAL_CYCLES - ROUTER_CYCLES_PER_TX) * Monus(100, pct) \in Nat
  BY <1>1, <1>2, <1>3
<1>5. burn \in Nat
  BY <1>1, <1>4, DivNat
<1> HIDE DEF burn
<1>6. CeilDiv(burn, rate) \in Nat
  BY <1>5, CeilDivNat
<1>7. 5 * LEDGER_FEE \in Nat
  BY FeeAssumption
<1>8. Monus(balance, 5 * LEDGER_FEE) \in Nat
  BY <1>7, MonusNat
<1> QED
  BY <1>6, <1>8, LesserNat DEF ConvertAmount, burn

LEMMA SealSplitNat ==
  ASSUME NEW balance \in Nat, NEW spawn_fee \in Nat, NEW rate \in Nat,
         NEW pct \in 0..100
  PROVE  LET split == SealSplit(balance, spawn_fee, rate, pct)
         IN  /\ split.claim \in Nat
             /\ split.fee_buffer \in Nat
             /\ split.to_cycles \in Nat
<1> DEFINE original == balance + spawn_fee
           zz == IF rate > 0 THEN (TOTAL_CYCLES * 11) \div (rate * 10) ELSE 0
           x == Monus(original, zz + TotalFees)
           q == Monus(original, x + TotalFees)
           to_pool == (q * pct) \div 100
           whole == RoundICP(x)
           dust == Monus(x, whole)
           borrow == Monus(whole, x)
<1>1. original \in Nat /\ TotalFees \in Nat /\ LEDGER_FEE \in Nat
  BY FeeAssumption DEF TotalFees
<1>2. zz \in Nat
  <2>1. TOTAL_CYCLES * 11 \in Nat
    BY CyclesAssumption
  <2>2. CASE rate > 0
    <3>1. rate * 10 \in Nat \ {0}
      BY <2>2
    <3> QED
      BY <2>1, <2>2, <3>1, DivNat
  <2>3. CASE ~(rate > 0)
    BY <2>3
  <2> QED
    BY <2>2, <2>3
<1> HIDE DEF original, zz
<1>3. x \in Nat
  BY <1>1, <1>2, MonusNat
<1> HIDE DEF x
<1>4. q \in Nat
  BY <1>1, <1>3, MonusNat
<1> HIDE DEF q
<1>5. to_pool \in Nat
  <2>1. q * pct \in Nat
    BY <1>4
  <2> QED
    BY <2>1, DivNat
<1>6. whole \in Nat
  <2>1. x + E8S_PER_ICP \div 2 \in Nat
    BY <1>3, UnitAssumption, DivNat
  <2>2. (x + E8S_PER_ICP \div 2) \div E8S_PER_ICP \in Nat
    BY <2>1, UnitAssumption, DivNat
  <2>3. \A a, b \in Nat : a * b \in Nat
    OBVIOUS
  <2> QED
    BY <2>2, <2>3, UnitAssumption DEF RoundICP
<1> HIDE DEF to_pool, whole
<1>7. dust \in Nat /\ borrow \in Nat
  BY <1>3, <1>6, MonusNat
<1>8. Monus(to_pool, borrow) \in Nat /\ Monus(q, to_pool) \in Nat
  BY <1>4, <1>5, <1>7, MonusNat
<1> HIDE DEF dust, borrow
<1>9. dust + Monus(to_pool, borrow) + WithdrawalPrefunding \in Nat
  BY <1>1, <1>7, <1>8 DEF WithdrawalPrefunding
<1>10. SealSplit(balance, spawn_fee, rate, pct) =
         [claim |-> whole,
          fee_buffer |-> dust + Monus(to_pool, borrow) + WithdrawalPrefunding,
          to_cycles |-> Monus(q, to_pool)]
  BY DEF SealSplit, original, zz, x, q, to_pool, whole, dust, borrow
<1> QED
  BY <1>6, <1>8, <1>9, <1>10

LEMMA ResidueNat ==
  ASSUME NEW a \in Nat, NEW b \in Nat
  PROVE  Residue(a, b) \in Nat
  BY MonusNat, FeeAssumption DEF Residue

-----------------------------------------------------------------------------
(* The picks of decomposeCascading *)

Indices == 1..DenominationCount

\* The tables are sorted: a denomination further down is smaller.
LEMMA DenominationFacts ==
  /\ \A i \in Indices : Denomination[i] \in Nat \ {0}
  /\ \A i, j \in Indices : i <= j => Denomination[j] <= Denomination[i]
<1>1. \A i \in Indices : WholeDenomination[i] \in Nat \ {0}
  BY DEF Indices, DenominationCount, WholeDenomination
<1>2. \A i, j \in Indices : i <= j => WholeDenomination[j] <= WholeDenomination[i]
  BY DEF Indices, DenominationCount, WholeDenomination
<1>3. \A i \in Indices : Denomination[i] = WholeDenomination[i] * E8S_PER_ICP
  BY DEF Indices, Denomination
<1>4. \A a, b, u \in Nat : a <= b => a * u <= b * u
  OBVIOUS
<1>5. \A a, u \in Nat \ {0} : a * u \in Nat \ {0}
  OBVIOUS
<1> QED
  BY <1>1, <1>2, <1>3, <1>4, <1>5, UnitAssumption

\* The number of denominations skipped leads to the first usable one.
LEMMA SkippedFacts ==
  ASSUME NEW limit \in Nat
  PROVE  /\ Skipped[limit] \in 0..DenominationCount
         /\ \A k \in Indices : k > Skipped[limit] => Denomination[k] <= limit
<1> DEFINE Above == {i \in Indices : Denomination[i] > limit}
<1>1. IsFiniteSet(Indices) /\ Cardinality(Indices) = DenominationCount
  <2>1. 1 \in Int /\ 29 \in Int /\ ~(1 > 29) /\ 29 - 1 + 1 = 29
    OBVIOUS
  <2> QED
    BY <2>1, FS_Interval DEF Indices, DenominationCount
<1>2. IsFiniteSet(Above) /\ Cardinality(Above) <= DenominationCount
  BY <1>1, FS_Subset
<1>3. Cardinality(Above) \in Nat
  BY <1>2, FS_CardinalityType
<1>4. Skipped[limit] = Cardinality(Above)
  BY DEF Skipped, Indices
<1>5. ASSUME NEW k \in Indices, k > Skipped[limit], Denomination[k] > limit
      PROVE  FALSE
  <2>1. 1..k \subseteq Above
    BY <1>5, DenominationFacts DEF Indices, DenominationCount
  <2>2. Cardinality(1..k) = k
    <3>1. k \in Nat /\ k >= 1
      BY DEF Indices
    <3>2. Cardinality(1..k) = IF 1 > k THEN 0 ELSE k - 1 + 1
      BY <3>1, FS_Interval
    <3> QED
      BY <3>1, <3>2
  <2>3. Cardinality(1..k) <= Cardinality(Above)
    <3> HIDE DEF Above
    <3> QED
      BY <2>1, <1>2, FS_Subset, Zenon
  <2> QED
    BY <2>2, <2>3, <1>3, <1>4, <1>5 DEF Indices
<1> QED
  BY <1>2, <1>3, <1>4, <1>5, DenominationFacts DEF DenominationCount, Indices

\* What a sequence of at most five transfers adds up to.
Part(transfers, i) == IF i <= Len(transfers) THEN transfers[i] ELSE 0
Sum(transfers) ==
  Part(transfers, 1) + Part(transfers, 2) + Part(transfers, 3)
    + Part(transfers, 4) + Part(transfers, 5)

LEMMA PartNat ==
  ASSUME NEW transfers \in Seq(Nat), NEW i \in 1..5
  PROVE  Part(transfers, i) \in Nat
<1>1. Len(transfers) \in Nat
  OBVIOUS
<1>2. CASE i <= Len(transfers)
  <2>1. transfers[i] \in Nat
    BY <1>1, <1>2, ElementOfSeq
  <2> QED
    BY <1>2, <2>1 DEF Part
<1>3. CASE ~(i <= Len(transfers))
  BY <1>3 DEF Part
<1> QED
  BY <1>2, <1>3

\* Changing one part of a sum changes the sum by as much.
LEMMA SumChanges ==
  ASSUME NEW s \in Seq(Nat), NEW t \in Seq(Nat), NEW k \in 1..5, NEW d \in Nat,
         \A i \in 1..5 : Part(t, i) = Part(s, i) + (IF i = k THEN d ELSE 0)
  PROVE  Sum(t) = Sum(s) + d
<1>1. \A i \in 1..5 : Part(s, i) \in Nat
  BY PartNat
<1>2. /\ Part(s, 1) \in Nat /\ Part(s, 2) \in Nat /\ Part(s, 3) \in Nat
      /\ Part(s, 4) \in Nat /\ Part(s, 5) \in Nat
  BY <1>1
<1>3. /\ Part(t, 1) = Part(s, 1) + (IF 1 = k THEN d ELSE 0)
      /\ Part(t, 2) = Part(s, 2) + (IF 2 = k THEN d ELSE 0)
      /\ Part(t, 3) = Part(s, 3) + (IF 3 = k THEN d ELSE 0)
      /\ Part(t, 4) = Part(s, 4) + (IF 4 = k THEN d ELSE 0)
      /\ Part(t, 5) = Part(s, 5) + (IF 5 = k THEN d ELSE 0)
  OBVIOUS
<1>4. k = 1 \/ k = 2 \/ k = 3 \/ k = 4 \/ k = 5
  OBVIOUS
<1> DEFINE a == Part(s, 1)
           b == Part(s, 2)
           c == Part(s, 3)
           e == Part(s, 4)
           f == Part(s, 5)
<1>5. Part(t, 1) + Part(t, 2) + Part(t, 3) + Part(t, 4) + Part(t, 5)
        = a + b + c + e + f + d
  <2> HIDE DEF a, b, c, e, f
  <2>1. CASE k = 1
    BY <1>2, <1>3, <2>1 DEF a, b, c, e, f
  <2>2. CASE k = 2
    BY <1>2, <1>3, <2>2 DEF a, b, c, e, f
  <2>3. CASE k = 3
    BY <1>2, <1>3, <2>3 DEF a, b, c, e, f
  <2>4. CASE k = 4
    BY <1>2, <1>3, <2>4 DEF a, b, c, e, f
  <2>5. CASE k = 5
    BY <1>2, <1>3, <2>5 DEF a, b, c, e, f
  <2> QED
    BY <1>4, <2>1, <2>2, <2>3, <2>4, <2>5
<1> QED
  BY <1>5 DEF Sum

LEMMA SumNat ==
  ASSUME NEW transfers \in Seq(Nat)
  PROVE  Sum(transfers) \in Nat
  BY PartNat DEF Sum

\* A decomposition of amount in progress, with at most n transfers.
Partial(n, amount) ==
  {p \in Progresses : /\ Len(p.result) <= n
                      /\ Sum(p.result) + p.remaining = amount}

LEMMA TakeFacts ==
  ASSUME NEW n \in 0..4, NEW amount \in Nat, NEW p \in Partial(n, amount),
         NEW d \in Nat, d <= p.remaining
  PROVE  Take(p, d) \in Partial(n + 1, amount)
<1> DEFINE s == p.result
           t == Append(s, d)
<1>1. /\ s \in Seq(Nat) /\ p.remaining \in Nat /\ Len(s) <= n
      /\ Sum(s) + p.remaining = amount
  BY DEF Partial, Progresses
<1>2. /\ t \in Seq(Nat) /\ Len(t) = Len(s) + 1
      /\ \A i \in 1..Len(s) : t[i] = s[i]
      /\ t[Len(s) + 1] = d
  BY <1>1, AppendProperties
<1>3. Len(s) \in Nat
  BY <1>1
<1>4. p.remaining - d \in Nat
  BY <1>1
<1>5. Sum(t) = Sum(s) + d
  <2> DEFINE k == Len(s) + 1
  <2>1. k \in 1..5
    <3> HIDE DEF s, t
    <3>1. \A l \in Nat : l <= n => l + 1 \in 1..5
      OBVIOUS
    <3> QED
      BY <1>1, <1>3, <3>1
  <2>2. ASSUME NEW i \in 1..5
        PROVE  Part(t, i) = Part(s, i) + (IF i = k THEN d ELSE 0)
    <3> HIDE DEF t
    <3>1. CASE i <= Len(s)
      <4>1. t[i] = s[i] /\ i # k /\ i <= Len(t)
        BY <1>2, <1>3, <3>1
      <4>2. s[i] \in Nat
        BY <1>1, <1>3, <3>1, ElementOfSeq
      <4> HIDE DEF s, k
      <4> QED
        BY <3>1, <4>1, <4>2 DEF Part
    <3>2. CASE i = k
      <4>1. t[i] = d /\ i <= Len(t) /\ ~(i <= Len(s))
        BY <1>2, <1>3, <3>2
      <4> HIDE DEF s, k
      <4> QED
        BY <3>2, <4>1 DEF Part
    <3>3. CASE i > k
      <4>1. ~(i <= Len(t)) /\ ~(i <= Len(s)) /\ i # k
        BY <1>2, <1>3, <3>3
      <4> HIDE DEF s, k
      <4> QED
        BY <4>1 DEF Part
    <3> QED
      BY <1>3, <3>1, <3>2, <3>3
  <2> HIDE DEF s, t, k
  <2> QED
    BY <1>1, <1>2, <2>1, <2>2, SumChanges
<1>6. Sum(s) \in Nat
  BY <1>1, SumNat
<1>7. Take(p, d) = [result |-> t, remaining |-> p.remaining - d]
  BY DEF Take
<1>8. Sum(t) + (p.remaining - d) = amount
  <2> HIDE DEF s, t
  <2> QED
    BY <1>1, <1>4, <1>5, <1>6
<1> HIDE DEF s, t
<1> QED
  BY <1>1, <1>2, <1>3, <1>4, <1>7, <1>8 DEF Partial, Progresses

LEMMA PickFirstFacts ==
  ASSUME NEW amount \in Nat, NEW byte \in 0..255
  PROVE  PickFirst(byte)[amount] \in Partial(1, amount)
<1> DEFINE half == amount \div 2
           skipped == Skipped[half]
           index == skipped + 1 + (byte % (DenominationCount - skipped))
           start == [result |-> <<>>, remaining |-> amount]
<1>1. half \in Nat /\ half <= amount
  OBVIOUS
<1>2. Sum(<<>>) = 0
  <2>1. \A i \in 1..5 : Part(<<>>, i) = 0
    BY DEF Part
  <2> QED
    BY <2>1 DEF Sum
<1>3. start \in Partial(0, amount) /\ start.remaining = amount
  BY <1>2 DEF Partial, Progresses
<1>4. start \in Partial(1, amount)
  BY <1>3 DEF Partial
<1>5. ASSUME AnyUsable(half)
      PROVE  Take(start, Denomination[index]) \in Partial(1, amount)
  <2>1. skipped \in 0..(DenominationCount - 1)
    BY <1>1, <1>5, SkippedFacts DEF AnyUsable, DenominationCount
  <2> DEFINE count == DenominationCount - skipped
             choice == byte % count
  <2>2. count \in 1..29 /\ skipped + count = 29
    BY <2>1 DEF DenominationCount
  <2> HIDE DEF skipped, count
  <2>3. choice \in 0..(count - 1)
    BY <2>2
  <2> HIDE DEF choice
  <2>4. skipped + 1 + choice \in Indices /\ skipped + 1 + choice > skipped
    BY <2>1, <2>2, <2>3 DEF Indices, DenominationCount
  <2>5. index \in Indices /\ index > Skipped[half]
    BY <2>4 DEF choice, count, skipped
  <2>6. Denomination[index] \in Nat /\ Denomination[index] <= half
    BY <1>1, <2>5, SkippedFacts, DenominationFacts
  <2>7. Denomination[index] <= start.remaining
    BY <1>1, <1>3, <2>6
  <2> HIDE DEF index, start
  <2>8. Take(start, Denomination[index]) \in Partial(0 + 1, amount)
    BY <1>3, <2>6, <2>7, TakeFacts
  <2> QED
    BY <2>8
<1>6. PickFirst(byte)[amount] =
        IF AnyUsable(half) THEN Take(start, Denomination[index]) ELSE start
  BY DEF PickFirst
<1> QED
  BY <1>4, <1>5, <1>6

LEMMA PickGreedyFacts ==
  ASSUME NEW amount \in Nat, NEW p \in Partial(MAX_POOL_TRANSFERS, amount)
  PROVE  PickGreedy[p] \in Partial(MAX_POOL_TRANSFERS, amount)
<1> DEFINE index == Skipped[p.remaining] + 1
<1>1. p \in Progresses /\ p.remaining \in Nat /\ Len(p.result) \in Nat
  BY DEF Partial, Progresses
<1>2. ASSUME Len(p.result) < MAX_POOL_TRANSFERS, AnyUsable(p.remaining)
      PROVE  Take(p, Denomination[index]) \in Partial(MAX_POOL_TRANSFERS, amount)
  <2>1. Skipped[p.remaining] \in 0..DenominationCount
    BY <1>1, SkippedFacts
  <2>2. Skipped[p.remaining] \in 0..(DenominationCount - 1)
    BY <2>1, <1>2 DEF AnyUsable, DenominationCount
  <2>3. index \in Indices /\ index > Skipped[p.remaining]
    BY <2>2 DEF Indices, DenominationCount
  <2>4. Denomination[index] \in Nat /\ Denomination[index] <= p.remaining
    BY <1>1, <2>3, SkippedFacts, DenominationFacts
  <2>5. p \in Partial(4, amount)
    BY <1>1, <1>2 DEF Partial, MAX_POOL_TRANSFERS
  <2>6. Take(p, Denomination[index]) \in Partial(4 + 1, amount)
    BY <2>4, <2>5, TakeFacts
  <2> QED
    BY <2>6 DEF MAX_POOL_TRANSFERS
<1>3. PickGreedy[p] =
        IF Len(p.result) < MAX_POOL_TRANSFERS /\ AnyUsable(p.remaining)
        THEN Take(p, Denomination[index]) ELSE p
  BY <1>1 DEF PickGreedy
<1> QED
  BY <1>2, <1>3

\* A split of an amount: transfers that add up to it.
Splits(amount) == {s \in Seq(Nat) : /\ Len(s) <= MAX_POOL_TRANSFERS
                                    /\ Sum(s) = amount}

\* A single transfer.
LEMMA SingleFacts ==
  ASSUME NEW amount \in Nat
  PROVE  <<amount>> \in Splits(amount)
<1>1. <<amount>> \in Seq(Nat) /\ Len(<<amount>>) = 1 /\ <<amount>>[1] = amount
  OBVIOUS
<1> DEFINE t == <<amount>>
<1> HIDE DEF t
<1>2. Part(t, 1) = amount /\ \A i \in 2..5 : Part(t, i) = 0
  BY <1>1 DEF Part, t
<1>3. Sum(t) = amount
  BY <1>2 DEF Sum
<1> QED
  BY <1>1, <1>3 DEF Splits, MAX_POOL_TRANSFERS, t

LEMMA PlaceRestFacts ==
  ASSUME NEW amount \in Nat, NEW p \in Partial(MAX_POOL_TRANSFERS, amount)
  PROVE  PlaceRest[p] \in Splits(amount)
<1> DEFINE s == p.result
           n == Len(s)
           more == [s EXCEPT ![n] = @ + p.remaining]
<1>1. /\ p \in Progresses /\ p.remaining \in Nat
      /\ s \in Seq(Nat) /\ n \in Nat /\ n <= MAX_POOL_TRANSFERS
      /\ Sum(s) + p.remaining = amount
  BY DEF Partial, Progresses
<1>2. Sum(s) \in Nat
  BY <1>1, SumNat
<1>3. CASE p.remaining = 0
  <2>1. PlaceRest[p] = s
    BY <1>1, <1>3 DEF PlaceRest
  <2>2. Sum(s) = amount
    BY <1>1, <1>2, <1>3
  <2> QED
    BY <1>1, <2>1, <2>2 DEF Splits
<1>4. CASE p.remaining # 0 /\ n = 0
  <2>1. PlaceRest[p] = <<p.remaining>>
    BY <1>1, <1>4 DEF PlaceRest
  <2>2. \A i \in 1..5 : Part(s, i) = 0
    BY <1>4 DEF Part
  <2>3. Sum(s) = 0
    BY <2>2 DEF Sum
  <2>4. p.remaining = amount
    BY <1>1, <2>3
  <2> QED
    BY <2>1, <2>4, SingleFacts
<1>5. CASE p.remaining # 0 /\ n # 0
  <2>1. PlaceRest[p] = more
    BY <1>1, <1>5 DEF PlaceRest
  <2>2. n \in 1..n /\ s[n] \in Nat /\ s[n] + p.remaining \in Nat
    BY <1>1, <1>5
  <2>3. more = [s EXCEPT ![n] = s[n] + p.remaining]
    OBVIOUS
  <2>4. /\ more \in Seq(Nat) /\ Len(more) = n
        /\ \A i \in 1..n : more[i] = IF i = n THEN s[n] + p.remaining ELSE s[i]
    BY <1>1, <2>2, <2>3, ExceptSeq
  <2>5. ASSUME NEW i \in 1..5
        PROVE  Part(more, i) = Part(s, i) + (IF i = n THEN p.remaining ELSE 0)
    <3> HIDE DEF more
    <3>1. CASE i <= n
      <4>1. more[i] = s[i] + (IF i = n THEN p.remaining ELSE 0)
        <5>1. s[i] \in Nat
          BY <1>1, <3>1, ElementOfSeq
        <5>2. more[i] = IF i = n THEN s[n] + p.remaining ELSE s[i]
          BY <1>1, <2>4, <3>1
        <5> HIDE DEF s, n
        <5> QED
          BY <5>1, <5>2, <1>1
      <4>2. Part(more, i) = more[i] /\ Part(s, i) = s[i]
        BY <2>4, <3>1 DEF Part
      <4> QED
        BY <4>1, <4>2
    <3>2. CASE ~(i <= n)
      <4>1. Part(more, i) = 0 /\ Part(s, i) = 0 /\ i # n
        BY <1>1, <2>4, <3>2 DEF Part
      <4> QED
        BY <4>1
    <3> QED
      BY <3>1, <3>2
  <2>6. n \in 1..5
    <3> HIDE DEF n
    <3> QED
      BY <1>1, <1>5 DEF MAX_POOL_TRANSFERS
  <2>7. Sum(more) = Sum(s) + p.remaining
    <3> HIDE DEF s, n, more
    <3> QED
      BY <1>1, <2>4, <2>5, <2>6, SumChanges
  <2> HIDE DEF more
  <2> QED
    BY <1>1, <2>1, <2>4, <2>7 DEF Splits
<1> QED
  BY <1>3, <1>4, <1>5

\* For every claim and every entropy byte decomposeCascading returns at most
\* MAX_POOL_TRANSFERS amounts, and they add up to the claim: what pool_claims
\* records at a seal is what the mixer is sent.
THEOREM TransfersAddUp ==
  ASSUME NEW amount \in Nat, NEW byte \in 0..255
  PROVE  /\ Decompose(byte)[amount] \in Seq(Nat)
         /\ Len(Decompose(byte)[amount]) <= MAX_POOL_TRANSFERS
         /\ Sum(Decompose(byte)[amount]) = amount
<1> DEFINE p0 == PickFirst(byte)[amount]
           p1 == PickGreedy[p0]
           p2 == PickGreedy[p1]
           p3 == PickGreedy[p2]
           p4 == PickGreedy[p3]
           p5 == PickGreedy[p4]
           P == Partial(MAX_POOL_TRANSFERS, amount)
<1>1. p0 \in P
  <2>1. p0 \in Partial(1, amount)
    BY PickFirstFacts
  <2> HIDE DEF p0
  <2> QED
    BY <2>1 DEF Partial, Progresses, MAX_POOL_TRANSFERS
<1> HIDE DEF p0, P
<1>2. \A p \in P : PickGreedy[p] \in P
  BY PickGreedyFacts DEF P
<1>3. p5 \in P
  BY <1>1, <1>2
<1>4. PlaceRest[p5] \in Splits(amount)
  BY <1>3, PlaceRestFacts DEF P
<1>5. Decompose(byte)[amount] =
        IF amount = 0 THEN <<>>
        ELSE IF amount < MIN_DENOMINATION_THRESHOLD THEN <<amount>>
        ELSE PlaceRest[p5]
  BY DEF Decompose, p0
<1>6. <<>> \in Splits(0)
  <2>1. <<>> \in Seq(Nat) /\ Len(<<>>) = 0
    OBVIOUS
  <2>2. \A i \in 1..5 : Part(<<>>, i) = 0
    BY DEF Part
  <2>3. Sum(<<>>) = 0
    BY <2>2 DEF Sum
  <2> QED
    BY <2>1, <2>3 DEF Splits, MAX_POOL_TRANSFERS
<1>7. <<amount>> \in Splits(amount)
  BY SingleFacts
<1> HIDE DEF p5
<1>8. Decompose(byte)[amount] \in Splits(amount)
  BY <1>4, <1>5, <1>6, <1>7
<1> QED
  BY <1>8 DEF Splits

-----------------------------------------------------------------------------
(* What the picks are: denominations, as large as fit *)

LEMMA UpTo ==
  ASSUME NEW n \in Nat
  PROVE  IsFiniteSet(1..n) /\ Cardinality(1..n) = n
<1>1. Cardinality(1..n) = IF 1 > n THEN 0 ELSE n - 1 + 1
  BY FS_Interval
<1> QED
  BY <1>1, FS_Interval

\* The denominations skipped are those above the limit, and from one ICP on some
\* denomination is usable.
LEMMA SkippedAbove ==
  ASSUME NEW limit \in Nat
  PROVE  \A k \in Indices : k <= Skipped[limit] => Denomination[k] > limit
<1> DEFINE Above == {i \in Indices : Denomination[i] > limit}
<1> TAKE k \in Indices
<1> SUFFICES ASSUME k <= Skipped[limit], ~(Denomination[k] > limit) PROVE FALSE
  OBVIOUS
<1>1. Skipped[limit] = Cardinality(Above)
  BY DEF Skipped, Indices
<1>2. k \in Nat /\ k >= 1 /\ Denomination[k] <= limit
  BY DenominationFacts DEF Indices
<1>3. Above \subseteq 1..(k - 1)
  <2> SUFFICES ASSUME NEW i \in Above PROVE i \in 1..(k - 1)
    OBVIOUS
  <2>1. i \in Indices /\ Denomination[i] > limit /\ Denomination[i] \in Nat /\ Denomination[k] \in Nat
    BY DenominationFacts
  <2>2. ~(k <= i)
    BY <1>2, <2>1, DenominationFacts
  <2> QED
    BY <1>2, <2>1, <2>2 DEF Indices
<1>4. IsFiniteSet(1..(k - 1)) /\ Cardinality(1..(k - 1)) = k - 1
  <2>1. k - 1 \in Nat
    BY <1>2
  <2> QED
    BY <2>1, UpTo
<1>5. Cardinality(Above) <= k - 1 /\ Cardinality(Above) \in Nat
  BY <1>3, <1>4, FS_Subset, FS_CardinalityType
<1> QED
  BY <1>1, <1>2, <1>5

LEMMA UsableFacts ==
  ASSUME NEW limit \in Nat
  PROVE  AnyUsable(limit) <=> limit >= E8S_PER_ICP
<1>1. Denomination[29] = E8S_PER_ICP /\ 29 \in Indices
  <2>1. WholeDenomination[29] = 1 /\ 29 \in Indices
    BY DEF WholeDenomination, DenominationCount, Indices
  <2> QED
    BY <2>1, UnitAssumption DEF Denomination, Indices
<1>2. Skipped[limit] \in 0..29
  BY SkippedFacts DEF DenominationCount
<1>3. ASSUME AnyUsable(limit) PROVE limit >= E8S_PER_ICP
  <2>1. 29 > Skipped[limit]
    BY <1>2, <1>3 DEF AnyUsable, DenominationCount
  <2> QED
    BY <1>1, <2>1, SkippedFacts, UnitAssumption
<1>4. ASSUME ~AnyUsable(limit) PROVE ~(limit >= E8S_PER_ICP)
  <2>1. 29 <= Skipped[limit]
    BY <1>2, <1>4 DEF AnyUsable, DenominationCount
  <2> QED
    BY <1>1, <2>1, SkippedAbove, UnitAssumption
<1> QED
  BY <1>3, <1>4

\* The first transfer is a denomination of at most one half.
LEMMA FirstPick ==
  ASSUME NEW amount \in Nat, NEW byte \in 0..255, amount >= MIN_DENOMINATION_THRESHOLD
  PROVE  \E k \in Indices :
           /\ Denomination[k] <= amount \div 2
           /\ PickFirst(byte)[amount] =
                Take([result |-> << >>, remaining |-> amount], Denomination[k])
<1> DEFINE half == amount \div 2
           skipped == Skipped[half]
           count == DenominationCount - skipped
           choice == byte % count
           k == skipped + 1 + choice
<1>1. half \in Nat /\ half >= E8S_PER_ICP
  <2>1. \A u \in Nat, a \in Nat : a >= 2 * u => a \div 2 >= u /\ a \div 2 \in Nat
    OBVIOUS
  <2> QED
    BY <2>1, UnitAssumption DEF MIN_DENOMINATION_THRESHOLD
<1>2. AnyUsable(half)
  BY <1>1, UsableFacts
<1>3. skipped \in 0..28
  BY <1>1, <1>2, SkippedFacts DEF AnyUsable, DenominationCount
<1>4. count \in 1..29 /\ skipped + count = 29
  BY <1>3 DEF DenominationCount
<1>5. PickFirst(byte)[amount] =
        Take([result |-> << >>, remaining |-> amount], Denomination[k])
  BY <1>2 DEF PickFirst
<1> HIDE DEF skipped, count, half
<1>6. choice \in 0..(count - 1)
  BY <1>4
<1> HIDE DEF choice
<1>7. k \in Indices /\ k > skipped
  BY <1>3, <1>4, <1>6 DEF Indices, DenominationCount
<1> HIDE DEF k
<1>8. Denomination[k] <= half
  BY <1>1, <1>7, SkippedFacts DEF skipped
<1> QED
  BY <1>5, <1>7, <1>8 DEF half

\* A greedy pick takes a denomination, as large as fits.
LEMMA GreedyPick ==
  ASSUME NEW p \in Progresses, Len(p.result) < MAX_POOL_TRANSFERS,
         p.remaining >= E8S_PER_ICP
  PROVE  \E k \in Indices :
           /\ Denomination[k] <= p.remaining
           /\ k > 1 => Denomination[k - 1] > p.remaining
           /\ PickGreedy[p] = Take(p, Denomination[k])
<1> DEFINE limit == p.remaining
           skipped == Skipped[limit]
           k == skipped + 1
<1>1. limit \in Nat
  BY DEF Progresses
<1>2. AnyUsable(limit)
  BY <1>1, UsableFacts
<1>4. PickGreedy[p] = Take(p, Denomination[k])
  BY <1>2 DEF PickGreedy
<1> HIDE DEF limit
<1>3. skipped \in 0..28
  BY <1>1, <1>2, SkippedFacts DEF AnyUsable, DenominationCount
<1>5. k \in Indices /\ k > skipped /\ k - 1 = skipped /\ (k > 1 => k - 1 \in Indices)
  <2> HIDE DEF skipped
  <2> QED
    BY <1>3 DEF Indices, DenominationCount
<1> HIDE DEF k
<1>6. Denomination[k] <= limit
  BY <1>1, <1>5, SkippedFacts
<1>7. k > 1 => Denomination[k - 1] > limit
  <2>1. k > 1 => k - 1 \in Indices /\ k - 1 <= skipped
    <3> HIDE DEF skipped
    <3> QED
      BY <1>3, <1>5
  <2> QED
    BY <1>1, <2>1, SkippedAbove
<1> QED
  BY <1>4, <1>5, <1>6, <1>7 DEF k, limit

LEMMA NothingToPick ==
  ASSUME NEW p \in Progresses,
         Len(p.result) >= MAX_POOL_TRANSFERS \/ p.remaining < E8S_PER_ICP
  PROVE  PickGreedy[p] = p
<1>1. p.remaining \in Nat /\ Len(p.result) \in Nat
  BY DEF Progresses
<1>2. ~(Len(p.result) < MAX_POOL_TRANSFERS /\ AnyUsable(p.remaining))
  BY <1>1, UsableFacts, UnitAssumption DEF MAX_POOL_TRANSFERS
<1> QED
  BY <1>2 DEF PickGreedy

\* Decompositions in progress of which every transfer is in a set D.
Among(D) == {p \in Progresses : \A i \in 1..Len(p.result) : p.result[i] \in D}

LEMMA TakeAmong ==
  ASSUME NEW D \in SUBSET Nat, NEW p \in Among(D), NEW d \in D, d <= p.remaining
  PROVE  /\ Take(p, d) \in Among(D)
         /\ Len(Take(p, d).result) = Len(p.result) + 1
         /\ Take(p, d).remaining = p.remaining - d
<1> DEFINE s == p.result
           t == Append(s, d)
<1>1. s \in Seq(Nat) /\ p.remaining \in Nat /\ \A i \in 1..Len(s) : s[i] \in D
  BY DEF Among, Progresses
<1>2. /\ t \in Seq(Nat) /\ Len(t) = Len(s) + 1 /\ Len(s) \in Nat
      /\ \A i \in 1..Len(s) : t[i] = s[i]
      /\ t[Len(s) + 1] = d
  BY <1>1, AppendProperties
<1>3. Take(p, d) = [result |-> t, remaining |-> p.remaining - d]
  BY DEF Take
<1> HIDE DEF s, t
<1>4. p.remaining - d \in Nat
  BY <1>1
<1>5. \A i \in 1..Len(t) : t[i] \in D
  <2> TAKE i \in 1..Len(t)
  <2>1. i \in 1..Len(s) \/ i = Len(s) + 1
    BY <1>2
  <2> QED
    BY <2>1, <1>1, <1>2
<1> QED
  BY <1>2, <1>3, <1>4, <1>5 DEF Among, Progresses, s

\* The amounts that can be picked.
Picks == {Denomination[k] : k \in Indices}

LEMMA PicksPositive == Picks \in SUBSET Nat /\ \A d \in Picks : d > 0
BY DenominationFacts DEF Picks

\* A greedy pick places a denomination, as large as fits.
LEMMA GreedyTake ==
  ASSUME NEW p \in Among(Picks), Len(p.result) < MAX_POOL_TRANSFERS,
         p.remaining >= E8S_PER_ICP
  PROVE  \E k \in Indices :
           /\ Denomination[k] <= p.remaining
           /\ k > 1 => Denomination[k - 1] > p.remaining
           /\ PickGreedy[p] \in Among(Picks)
           /\ Len(PickGreedy[p].result) = Len(p.result) + 1
           /\ PickGreedy[p].remaining = p.remaining - Denomination[k]
<1>1. p \in Progresses
  BY DEF Among
<1>2. PICK k \in Indices : /\ Denomination[k] <= p.remaining
                           /\ k > 1 => Denomination[k - 1] > p.remaining
                           /\ PickGreedy[p] = Take(p, Denomination[k])
  BY <1>1, GreedyPick
<1>3. Denomination[k] \in Picks /\ Picks \in SUBSET Nat
  BY PicksPositive DEF Picks
<1>4. /\ Take(p, Denomination[k]) \in Among(Picks)
      /\ Len(Take(p, Denomination[k]).result) = Len(p.result) + 1
      /\ Take(p, Denomination[k]).remaining = p.remaining - Denomination[k]
  BY <1>2, <1>3, TakeAmong
<1> QED
  BY <1>2, <1>4

LEMMA GreedyAmong ==
  ASSUME NEW p \in Among(Picks)
  PROVE  /\ PickGreedy[p] \in Among(Picks)
         /\ Len(PickGreedy[p].result) \in {Len(p.result), Len(p.result) + 1}
<1>1. p \in Progresses /\ Len(p.result) \in Nat /\ p.remaining \in Nat
  BY DEF Among, Progresses
<1>2. CASE Len(p.result) < MAX_POOL_TRANSFERS /\ p.remaining >= E8S_PER_ICP
  BY <1>2, GreedyTake
<1>3. CASE ~(Len(p.result) < MAX_POOL_TRANSFERS /\ p.remaining >= E8S_PER_ICP)
  <2>1. PickGreedy[p] = p
    BY <1>1, <1>3, NothingToPick, UnitAssumption DEF MAX_POOL_TRANSFERS
  <2> QED
    BY <2>1
<1> QED
  BY <1>2, <1>3

LEMMA FirstAmong ==
  ASSUME NEW amount \in Nat, NEW byte \in 0..255, amount >= MIN_DENOMINATION_THRESHOLD
  PROVE  LET p == PickFirst(byte)[amount]
         IN  /\ p \in Among(Picks) /\ Len(p.result) = 1
             /\ \E k \in Indices : /\ Denomination[k] <= amount \div 2
                                   /\ p.remaining = amount - Denomination[k]
<1> DEFINE start == [result |-> << >>, remaining |-> amount]
<1>1. PICK k \in Indices : /\ Denomination[k] <= amount \div 2
                           /\ PickFirst(byte)[amount] = Take(start, Denomination[k])
  BY FirstPick
<1>2. start \in Among(Picks) /\ Len(start.result) = 0 /\ start.remaining = amount
  BY DEF Among, Progresses
<1>3. Denomination[k] \in Picks /\ Denomination[k] \in Nat
  BY PicksPositive DEF Picks
<1>4. Denomination[k] <= amount
  BY <1>1, <1>3
<1> HIDE DEF start
<1>5. /\ Take(start, Denomination[k]) \in Among(Picks)
      /\ Len(Take(start, Denomination[k]).result) = Len(start.result) + 1
      /\ Take(start, Denomination[k]).remaining = start.remaining - Denomination[k]
  BY <1>2, <1>3, <1>4, PicksPositive, TakeAmong
<1> QED
  BY <1>1, <1>2, <1>5

LEMMA DecomposeLarge ==
  ASSUME NEW amount \in Nat, NEW byte \in 0..255, amount >= MIN_DENOMINATION_THRESHOLD
  PROVE  Decompose(byte)[amount] =
           PlaceRest[PickGreedy[PickGreedy[PickGreedy[PickGreedy[PickGreedy[
             PickFirst(byte)[amount]]]]]]]
<1>1. amount # 0 /\ ~(amount < MIN_DENOMINATION_THRESHOLD)
  BY UnitAssumption DEF MIN_DENOMINATION_THRESHOLD
<1> QED
  BY <1>1 DEF Decompose

\* Of two or more positive transfers none is as large as their sum.
LEMMA PartOfSum ==
  ASSUME NEW s \in Seq(Nat), Len(s) \in 2..5, \A i \in 1..Len(s) : s[i] > 0,
         NEW k \in 1..Len(s)
  PROVE  s[k] < Sum(s)
<1>1. \A i \in 1..5 : Part(s, i) \in Nat
  BY PartNat
<1> DEFINE n == Len(s)
<1>2. n \in Nat /\ 1 <= n /\ 2 <= n /\ 1 \in 1..n /\ 2 \in 1..n /\ k \in 1..5 /\ k <= n
  <2>1. n \in 2..5 /\ k \in 1..n
    OBVIOUS
  <2> HIDE DEF n
  <2> QED
    BY <2>1
<1>3. Part(s, 1) > 0 /\ Part(s, 2) > 0 /\ Part(s, k) = s[k] /\ k \in 1..5
  <2>1. s[1] > 0 /\ s[2] > 0
    BY <1>2
  <2>2. Part(s, 1) = s[1] /\ Part(s, 2) = s[2] /\ Part(s, k) = s[k]
    BY <1>2 DEF Part
  <2> QED
    BY <1>2, <2>1, <2>2
<1> DEFINE a == Part(s, 1)
           b == Part(s, 2)
           c == Part(s, 3)
           e == Part(s, 4)
           f == Part(s, 5)
<1>4. a \in Nat /\ b \in Nat /\ c \in Nat /\ e \in Nat /\ f \in Nat /\ a > 0 /\ b > 0
  BY <1>1, <1>3
<1>5. Part(s, k) \in {a, b, c, e, f}
  BY <1>3
<1>6. Sum(s) = a + b + c + e + f
  BY DEF Sum
<1> HIDE DEF a, b, c, e, f
<1>7. ASSUME NEW x \in {a, b, c, e, f} PROVE x < a + b + c + e + f
  BY <1>4
<1> QED
  BY <1>3, <1>5, <1>6, <1>7

\* From 2 ICP on the first transfer is a denomination of at most one half of the
\* claim and leaves enough for a second one, so that no transfer to the mixer
\* shows the claim: for every amount, whole or not, and every entropy byte.
THEOREM ClaimNeverShown ==
  ASSUME NEW amount \in Nat, NEW byte \in 0..255, amount >= MIN_DENOMINATION_THRESHOLD
  PROVE  Hides(Decompose(byte)[amount], amount)
<1> DEFINE p0 == PickFirst(byte)[amount]
           p1 == PickGreedy[p0]
           p2 == PickGreedy[p1]
           p3 == PickGreedy[p2]
           p4 == PickGreedy[p3]
           p5 == PickGreedy[p4]
           P == {p \in Among(Picks) : Len(p.result) >= 2}
           t == PlaceRest[p5]
<1>1. p0 \in Among(Picks) /\ Len(p0.result) = 1 /\ p0.remaining >= E8S_PER_ICP
  <2>1. PICK k \in Indices : /\ p0 \in Among(Picks) /\ Len(p0.result) = 1
                             /\ Denomination[k] <= amount \div 2
                             /\ p0.remaining = amount - Denomination[k]
    BY FirstAmong
  <2>2. Denomination[k] \in Nat
    BY DenominationFacts
  <2>3. \A a, u, d \in Nat : a >= 2 * u /\ d <= a \div 2 => a - d >= u
    OBVIOUS
  <2> HIDE DEF p0
  <2> QED
    BY <2>1, <2>2, <2>3, UnitAssumption DEF MIN_DENOMINATION_THRESHOLD
<1>2. Decompose(byte)[amount] = t
  BY DecomposeLarge
<1>3. t \in Seq(Nat) /\ Len(t) <= MAX_POOL_TRANSFERS /\ Sum(t) = amount
  <2>1. /\ Decompose(byte)[amount] \in Seq(Nat)
        /\ Len(Decompose(byte)[amount]) <= MAX_POOL_TRANSFERS
        /\ Sum(Decompose(byte)[amount]) = amount
    BY TransfersAddUp
  <2> HIDE DEF t
  <2> QED
    BY <1>2, <2>1, Zenon
<1> HIDE DEF p0
<1>4. p1 \in P
  <2>1. p1 \in Among(Picks) /\ Len(p1.result) = Len(p0.result) + 1
    <3>1. Len(p0.result) < MAX_POOL_TRANSFERS
      BY <1>1 DEF MAX_POOL_TRANSFERS
    <3> QED
      BY <1>1, <3>1, GreedyTake
  <2> HIDE DEF p1
  <2>2. Len(p1.result) >= 2
    BY <1>1, <2>1
  <2> QED
    BY <2>1, <2>2
<1>5. \A p \in P : PickGreedy[p] \in P
  <2> TAKE p \in P
  <2>1. Len(p.result) \in Nat
    BY DEF Among, Progresses
  <2> QED
    BY <2>1, GreedyAmong
<1> HIDE DEF p1, P
<1>6. p5 \in P
  BY <1>4, <1>5
<1> HIDE DEF p5
<1>7. Len(t) >= 2 /\ \A i \in 1..Len(t) : t[i] > 0
  <2> DEFINE s == p5.result
             n == Len(s)
  <2>1. s \in Seq(Nat) /\ n \in Nat /\ n >= 2 /\ p5.remaining \in Nat /\ p5 \in Progresses
        /\ \A i \in 1..n : s[i] \in Nat /\ s[i] > 0
    BY <1>6, PicksPositive DEF P, Among, Progresses
  <2>2. CASE p5.remaining = 0
    BY <2>1, <2>2 DEF PlaceRest
  <2>3. CASE p5.remaining # 0
    <3>1. t = [s EXCEPT ![n] = s[n] + p5.remaining]
      BY <2>1, <2>3 DEF PlaceRest
    <3>2. n \in 1..n /\ s[n] + p5.remaining \in Nat /\ s[n] + p5.remaining > 0
      <4>1. n \in Nat /\ n >= 2 /\ p5.remaining \in Nat
        BY <2>1
      <4>2. n \in 1..n
        <5> HIDE DEF s, n
        <5> QED
          BY <4>1
      <4>3. s[n] \in Nat /\ s[n] > 0
        BY <2>1, <4>2, Zenon
      <4> HIDE DEF s, n
      <4> DEFINE v == s[n]
                 w == p5.remaining
      <4>4. v \in Nat /\ v > 0 /\ w \in Nat
        BY <4>1, <4>3
      <4> HIDE DEF v, w
      <4>5. v + w \in Nat /\ v + w > 0
        BY <4>4
      <4> QED
        BY <4>2, <4>5 DEF v, w
    <3>3. /\ Len(t) = n
          /\ \A i \in 1..n : t[i] = IF i = n THEN s[n] + p5.remaining ELSE s[i]
      BY <2>1, <3>1, <3>2, ExceptSeq
    <3> HIDE DEF s, t
    <3> QED
      BY <2>1, <3>2, <3>3
  <2> QED
    BY <2>2, <2>3
<1> HIDE DEF t
<1>8. Len(t) \in 2..5
  <2>1. Len(t) \in Nat
    BY <1>3
  <2>2. Len(t) <= 5 /\ Len(t) >= 2
    BY <1>3, <1>7 DEF MAX_POOL_TRANSFERS
  <2> HIDE DEF MAX_POOL_TRANSFERS
  <2> DEFINE l == Len(t)
  <2> HIDE DEF l
  <2>3. l \in Nat /\ l <= 5 /\ l >= 2 => l \in 2..5
    OBVIOUS
  <2> QED
    BY <2>1, <2>2, <2>3 DEF l
<1> QED
  BY <1>2, <1>3, <1>7, <1>8, PartOfSum DEF Hides

\* What remains after a greedy pick of whole ICP: less than the step between the
\* denominations of the tier picked from.
LEMMA WholeDrop ==
  ASSUME NEW k \in Indices, NEW r \in Nat,
         WholeDenomination[k] <= r, k > 1 => WholeDenomination[k - 1] > r
  PROVE  /\ r - WholeDenomination[k] \in Nat
         /\ r <= 1999 => r - WholeDenomination[k] <= 499
         /\ r <= 499 => r - WholeDenomination[k] <= 99
         /\ r <= 99 => r - WholeDenomination[k] <= 9
         /\ r <= 9 => r - WholeDenomination[k] = 0
<1>1. k \in 1..29 /\ (k > 1 => k - 1 \in 1..29)
  BY DEF Indices, DenominationCount
<1>2. WholeDenomination[k] = IF k <= 2 THEN 2000 - 500 * k
                             ELSE IF k <= 11 THEN 100 * (12 - k)
                             ELSE IF k <= 20 THEN 10 * (21 - k)
                             ELSE 30 - k
  BY <1>1 DEF WholeDenomination, DenominationCount
<1>3. k > 1 => WholeDenomination[k - 1] = IF k - 1 <= 2 THEN 2000 - 500 * (k - 1)
                             ELSE IF k - 1 <= 11 THEN 100 * (12 - (k - 1))
                             ELSE IF k - 1 <= 20 THEN 10 * (21 - (k - 1))
                             ELSE 30 - (k - 1)
  BY <1>1 DEF WholeDenomination, DenominationCount
<1> QED
  BY <1>1, <1>2, <1>3

\* Whole ICP in ledger units.
Units(icp) == icp * E8S_PER_ICP

LEMMA WholeFacts ==
  \A k \in Indices : /\ WholeDenomination[k] \in Nat /\ WholeDenomination[k] > 0
                     /\ Denomination[k] = Units(WholeDenomination[k])
<1>1. \A k \in Indices : WholeDenomination[k] \in Nat /\ WholeDenomination[k] > 0
  BY DEF Indices, DenominationCount, WholeDenomination
<1>2. \A k \in Indices : Denomination[k] = WholeDenomination[k] * E8S_PER_ICP
  BY DEF Indices, Denomination
<1> QED
  BY <1>1, <1>2 DEF Units

LEMMA UnitsNat == \A a \in Nat : Units(a) \in Nat
<1>1. \A a, u \in Nat : a * u \in Nat
  OBVIOUS
<1> QED
  BY <1>1, UnitAssumption DEF Units

LEMMA UnitsConstants ==
  Units(0) = 0 /\ Units(1) = E8S_PER_ICP /\ Units(2) = MIN_DENOMINATION_THRESHOLD
  BY UnitAssumption DEF Units, MIN_DENOMINATION_THRESHOLD

LEMMA UnitsOrder ==
  ASSUME NEW a \in Nat, NEW b \in Nat
  PROVE  Units(a) <= Units(b) <=> a <= b
<1> DEFINE u == E8S_PER_ICP
<1>1. u \in Nat /\ u >= 1
  BY UnitAssumption
<1>2. Units(a) = a * u /\ Units(b) = b * u
  BY DEF Units
<1> HIDE DEF u
<1>3. a <= b => a * u <= b * u
  BY <1>1
<1>4. ASSUME ~(a <= b) PROVE ~(a * u <= b * u)
  <2>1. PICK c \in Nat : a = b + 1 + c
    <3>1. a - b - 1 \in Nat /\ a = b + 1 + (a - b - 1)
      BY <1>4
    <3> QED
      BY <3>1
  <2>2. a * u = b * u + u + c * u /\ c * u \in Nat /\ b * u \in Nat
    BY <1>1, <2>1
  <2> QED
    BY <1>1, <2>2
<1> QED
  BY <1>2, <1>3, <1>4

LEMMA UnitsDifference ==
  ASSUME NEW a \in Nat, NEW b \in Nat
  PROVE  Units(b) - Units(a) = Units(b - a)
<1>1. \A u \in Nat : b * u - a * u = (b - a) * u
  OBVIOUS
<1> QED
  BY <1>1, UnitAssumption DEF Units

\* Decompositions in progress of at most n denominations that leave at most
\* bound whole ICP.
WholeLeft(n, bound) ==
  {p \in Among(Picks) : /\ Len(p.result) \in 1..n
                        /\ \E r \in 0..bound : p.remaining = Units(r)}

\* What is left after the first pick of a claim of at most 2000 ICP.
WholeAfterFirst == WholeLeft(1, LargestClaim - 1)

LEMMA WholePick ==
  ASSUME NEW n \in 1..4, NEW bound \in Nat, NEW p \in WholeLeft(n, bound),
         NEW next \in Nat,
         \A k \in Indices, r \in 0..bound :
           /\ WholeDenomination[k] <= r
           /\ k > 1 => WholeDenomination[k - 1] > r
           => r - WholeDenomination[k] \in 0..next
  PROVE  PickGreedy[p] \in WholeLeft(n + 1, next)
<1>1. p \in Among(Picks) /\ p \in Progresses /\ Len(p.result) \in 1..n
  BY DEF WholeLeft, Among
<1>2. PICK r \in 0..bound : p.remaining = Units(r)
  BY DEF WholeLeft
<1>3. Len(p.result) < MAX_POOL_TRANSFERS
  <2> DEFINE l == Len(p.result)
  <2> HIDE DEF l
  <2>1. l \in 1..n => l < 5
    OBVIOUS
  <2> QED
    BY <1>1, <2>1 DEF l, MAX_POOL_TRANSFERS
<1>4. CASE r = 0
  <2>1. p.remaining = 0 /\ p.remaining < E8S_PER_ICP
    BY <1>2, <1>4, UnitsConstants, UnitAssumption
  <2>2. PickGreedy[p] = p
    BY <1>1, <2>1, NothingToPick
  <2>3. p.remaining = Units(0) /\ 0 \in 0..next
    BY <2>1, UnitsConstants
  <2>4. Len(p.result) \in 1..(n + 1)
    BY <1>1
  <2> QED
    BY <1>1, <2>2, <2>3, <2>4 DEF WholeLeft
<1>5. CASE r # 0
  <2>1. p.remaining >= E8S_PER_ICP
    <3>1. r \in Nat /\ 1 \in Nat /\ 1 <= r
      BY <1>5
    <3>2. Units(1) <= Units(r) /\ Units(r) \in Nat
      BY <3>1, UnitsOrder, UnitsNat
    <3> QED
      BY <1>2, <3>2, UnitsConstants, UnitAssumption
  <2>2. PICK k \in Indices : /\ Denomination[k] <= p.remaining
                             /\ k > 1 => Denomination[k - 1] > p.remaining
                             /\ PickGreedy[p] \in Among(Picks)
                             /\ Len(PickGreedy[p].result) = Len(p.result) + 1
                             /\ PickGreedy[p].remaining = p.remaining - Denomination[k]
    BY <1>1, <1>3, <2>1, GreedyTake
  <2> DEFINE d == Denomination[k]
             w == WholeDenomination[k]
  <2>3. w \in Nat /\ d = Units(w) /\ w <= r
    <3>1. w \in Nat /\ d = Units(w)
      BY WholeFacts
    <3>2. Units(w) <= Units(r)
      BY <1>2, <2>2, <3>1
    <3> HIDE DEF w
    <3> QED
      BY <3>1, <3>2, UnitsOrder
  <2>4. k > 1 => WholeDenomination[k - 1] > r
    <3> SUFFICES ASSUME k > 1 PROVE WholeDenomination[k - 1] > r
      OBVIOUS
    <3>1. k - 1 \in Indices
      BY DEF Indices, DenominationCount
    <3> DEFINE v == WholeDenomination[k - 1]
    <3>2. v \in Nat /\ Denomination[k - 1] = Units(v)
      BY <3>1, WholeFacts
    <3>3. Units(v) > Units(r)
      BY <1>2, <2>2, <3>2
    <3>4. r \in Nat
      OBVIOUS
    <3> HIDE DEF v
    <3>5. Units(v) \in Nat /\ Units(r) \in Nat
      BY <3>2, <3>4, UnitsNat
    <3>6. ~(v <= r)
      BY <3>2, <3>3, <3>4, <3>5, UnitsOrder
    <3>7. v > r
      BY <3>2, <3>4, <3>6
    <3> QED
      BY <3>7 DEF v
  <2>5. r - w \in 0..next
    <3>1. WholeDenomination[k] <= r
      BY <2>3
    <3> QED
      BY <2>4, <3>1, Zenon
  <2>6. /\ PickGreedy[p] \in Among(Picks)
        /\ Len(PickGreedy[p].result) = Len(p.result) + 1
        /\ PickGreedy[p].remaining = p.remaining - d
    BY <2>2
  <2> HIDE DEF d, w
  <2>7. PickGreedy[p].remaining = Units(r - w)
    BY <1>2, <2>3, <2>6, UnitsDifference
  <2>8. Len(PickGreedy[p].result) \in 1..(n + 1)
    BY <1>1, <2>6
  <2> QED
    BY <2>5, <2>6, <2>7, <2>8 DEF WholeLeft
<1> QED
  BY <1>4, <1>5

\* The first pick of a claim of 2 to 2000 ICP leaves less than 2000 ICP.
LEMMA FirstWhole ==
  ASSUME NEW amount \in Nat, NEW byte \in 0..255, amount >= MIN_DENOMINATION_THRESHOLD,
         NEW icp \in Nat, icp <= LargestClaim
  PROVE  amount = Units(icp) => PickFirst(byte)[amount] \in WholeAfterFirst
<1> DEFINE p0 == PickFirst(byte)[amount]
<1>1. PICK k \in Indices : /\ p0 \in Among(Picks) /\ Len(p0.result) = 1
                           /\ Denomination[k] <= amount \div 2
                           /\ p0.remaining = amount - Denomination[k]
  BY FirstAmong
<1> HIDE DEF p0
<1> SUFFICES ASSUME amount = Units(icp) PROVE p0 \in WholeAfterFirst
  BY DEF p0
<1> DEFINE w == WholeDenomination[k]
<1>2. w \in Nat /\ w > 0 /\ Denomination[k] = Units(w)
  BY WholeFacts
<1> HIDE DEF w
<1>3. Units(w) <= Units(icp)
  <2>1. \A a, d \in Nat : d <= a \div 2 => d <= a
    OBVIOUS
  <2>2. Units(w) \in Nat
    BY <1>2, UnitsNat
  <2> QED
    BY <1>1, <1>2, <2>1, <2>2
<1>4. w <= icp
  BY <1>2, <1>3, UnitsOrder
<1> DEFINE left == icp - w
<1>5. left \in 0..1999
  <2>1. w \in Nat /\ w > 0
    BY <1>2
  <2>2. icp \in Nat /\ icp <= 2000
    BY DEF LargestClaim
  <2> QED
    BY <1>4, <2>1, <2>2
<1>6. p0.remaining = Units(left)
  BY <1>1, <1>2, UnitsDifference
<1> HIDE DEF left
<1> QED
  <2>1. Len(p0.result) \in 1..1 /\ p0 \in Among(Picks)
    BY <1>1
  <2> DEFINE bound == LargestClaim - 1
  <2>2. left \in 0..bound
    BY <1>5 DEF LargestClaim
  <2> HIDE DEF bound
  <2>3. p0 \in WholeLeft(1, bound)
    BY <1>6, <2>1, <2>2, Zenon DEF WholeLeft
  <2> QED
    BY <2>3 DEF WholeAfterFirst, bound

\* Four greedy picks then finish, and the last does nothing.
LEMMA GreedyExact ==
  ASSUME NEW p0 \in WholeAfterFirst
  PROVE  LET p5 == PickGreedy[PickGreedy[PickGreedy[PickGreedy[PickGreedy[p0]]]]]
         IN  /\ Len(PlaceRest[p5]) \in 1..MAX_POOL_TRANSFERS
             /\ Denominated(PlaceRest[p5])
<1> DEFINE p1 == PickGreedy[p0]
           p2 == PickGreedy[p1]
           p3 == PickGreedy[p2]
           p4 == PickGreedy[p3]
           p5 == PickGreedy[p4]
<1>1. p1 \in WholeLeft(1 + 1, 499)
  <2>1. p0 \in WholeLeft(1, 1999)
    BY DEF WholeAfterFirst, LargestClaim
  <2> QED
    BY <2>1, WholePick, WholeDrop
<1> HIDE DEF p1
<1>2. p2 \in WholeLeft(2 + 1, 99)
  BY <1>1, WholePick, WholeDrop
<1> HIDE DEF p2
<1>3. p3 \in WholeLeft(3 + 1, 9)
  BY <1>2, WholePick, WholeDrop
<1> HIDE DEF p3
<1>4. p4 \in WholeLeft(4 + 1, 0)
  BY <1>3, WholePick, WholeDrop
<1> HIDE DEF p4
<1>5. /\ p4 \in Among(Picks) /\ p4 \in Progresses
      /\ Len(p4.result) \in 1..MAX_POOL_TRANSFERS /\ p4.remaining = 0
  BY <1>4, UnitsConstants DEF WholeLeft, Among, MAX_POOL_TRANSFERS
<1>6. p5 = p4
  BY <1>5, NothingToPick, UnitAssumption
<1> HIDE DEF p5
<1>7. PlaceRest[p5] = p4.result
  BY <1>5, <1>6 DEF PlaceRest
<1>8. Denominated(p4.result)
  BY <1>5 DEF Denominated, Among, Picks, Indices
<1>9. Len(PlaceRest[p5]) \in 1..MAX_POOL_TRANSFERS /\ Denominated(PlaceRest[p5])
  BY <1>5, <1>7, <1>8
<1> QED
  BY <1>9, Zenon DEF p1, p2, p3, p4, p5

LEMMA LargeExact ==
  ASSUME NEW amount \in Nat, NEW byte \in 0..255, amount >= MIN_DENOMINATION_THRESHOLD,
         PickFirst(byte)[amount] \in WholeAfterFirst
  PROVE  /\ Len(Decompose(byte)[amount]) \in 1..MAX_POOL_TRANSFERS
         /\ Denominated(Decompose(byte)[amount])
<1> DEFINE p0 == PickFirst(byte)[amount]
           p5 == PickGreedy[PickGreedy[PickGreedy[PickGreedy[PickGreedy[p0]]]]]
<1>1. Decompose(byte)[amount] = PlaceRest[p5]
  BY DecomposeLarge
<1> HIDE DEF p0
<1>2. Len(PlaceRest[p5]) \in 1..MAX_POOL_TRANSFERS /\ Denominated(PlaceRest[p5])
  BY GreedyExact DEF p0
<1> QED
  BY <1>1, <1>2, Zenon

\* A claim of one ICP is the smallest denomination.
LEMMA OneICP ==
  ASSUME NEW byte \in 0..255
  PROVE  LET transfers == Decompose(byte)[E8S_PER_ICP]
         IN  Len(transfers) \in 1..MAX_POOL_TRANSFERS /\ Denominated(transfers)
<1> DEFINE t == <<E8S_PER_ICP>>
<1>1. Decompose(byte)[E8S_PER_ICP] = t
  <2> DEFINE a == E8S_PER_ICP
  <2>1. a \in Nat /\ a # 0 /\ a < MIN_DENOMINATION_THRESHOLD
    BY UnitAssumption DEF MIN_DENOMINATION_THRESHOLD
  <2> HIDE DEF a
  <2>2. Decompose(byte)[a] = <<a>>
    BY <2>1 DEF Decompose
  <2> QED
    BY <2>2 DEF a
<1>2. Denomination[29] = E8S_PER_ICP /\ 29 \in 1..DenominationCount
  <2>1. WholeDenomination[29] = 1 /\ 29 \in Indices
    BY DEF WholeDenomination, DenominationCount, Indices
  <2> QED
    BY <2>1, WholeFacts, UnitsConstants DEF Indices
<1>3. Len(t) = 1 /\ \A i \in 1..Len(t) : t[i] = Denomination[29]
  BY <1>2
<1> HIDE DEF t
<1>4. Denominated(t)
  BY <1>2, <1>3 DEF Denominated
<1>5. Len(t) \in 1..MAX_POOL_TRANSFERS
  BY <1>3 DEF MAX_POOL_TRANSFERS
<1> QED
  BY <1>1, <1>4, <1>5

\* decomposeCascading: "Any amount 1-2000 ICP decomposes exactly", into at most
\* five transfers each of which is a denomination, whatever the entropy byte.
THEOREM DenominationsExact ==
  ASSUME NEW icp \in 1..LargestClaim, NEW byte \in 0..255
  PROVE  LET transfers == Decompose(byte)[icp * E8S_PER_ICP]
         IN  Len(transfers) \in 1..MAX_POOL_TRANSFERS /\ Denominated(transfers)
<1>1. icp \in Nat /\ 2 \in Nat /\ icp <= LargestClaim
  BY DEF LargestClaim
<1>2. Units(icp) = icp * E8S_PER_ICP /\ Units(icp) \in Nat
  BY <1>1, UnitsNat DEF Units
<1>3. CASE icp = 1
  <2>1. icp * E8S_PER_ICP = E8S_PER_ICP
    BY <1>2, <1>3, UnitsConstants
  <2> QED
    BY <2>1, OneICP, Zenon
<1>4. CASE icp # 1
  <2>1. Units(2) <= Units(icp)
    BY <1>1, <1>4, UnitsOrder
  <2>2. Units(icp) >= MIN_DENOMINATION_THRESHOLD
    BY <1>2, <2>1, UnitsConstants, UnitAssumption DEF MIN_DENOMINATION_THRESHOLD
  <2>3. PickFirst(byte)[Units(icp)] \in WholeAfterFirst
    BY <1>1, <1>2, <2>2, FirstWhole
  <2>4. /\ Len(Decompose(byte)[Units(icp)]) \in 1..MAX_POOL_TRANSFERS
        /\ Denominated(Decompose(byte)[Units(icp)])
    BY <1>2, <2>2, <2>3, LargeExact
  <2> QED
    BY <1>2, <2>4, Zenon
<1> QED
  BY <1>3, <1>4

-----------------------------------------------------------------------------
(* Bob's claim *)

\* A quotient is known by the interval the dividend is in.
LEMMA Quotient ==
  ASSUME NEW y \in Nat, NEW e \in Nat \ {0}, NEW n \in Nat,
         n * e <= y, y < n * e + e
  PROVE  y \div e = n
<1> DEFINE m == y \div e
<1>1. m \in Nat /\ m * e <= y /\ y < m * e + e
  OBVIOUS
<1> HIDE DEF m
<1>2. \A a, b \in Nat : a < b => a * e + e <= b * e
  <2> TAKE a, b \in Nat
  <2> HAVE a < b
  <2>1. PICK c \in Nat : b = a + 1 + c
    <3>1. b - a - 1 \in Nat /\ b = a + 1 + (b - a - 1)
      OBVIOUS
    <3> QED
      BY <3>1
  <2>2. b * e = a * e + e + c * e /\ c * e \in Nat /\ a * e \in Nat
    BY <2>1
  <2> QED
    BY <2>2
<1>3. m * e \in Nat /\ n * e \in Nat
  BY <1>1
<1>4. ~(m < n)
  BY <1>1, <1>2, <1>3
<1>5. ~(n < m)
  BY <1>1, <1>2, <1>3
<1> QED
  BY <1>1, <1>4, <1>5 DEF m

\* The cycles of a transaction with their margin, in ledger units, as seal_push
\* computes them at its rate.
SealEstimate(rate) == (TOTAL_CYCLES * 11) \div (rate * 10)

\* The estimates of the spawn at two rates, deposit_alloc's and seal_push's, differ,
\* by three fees more or less, by under half an ICP.
EstimatesClose(quoted, sealed) ==
  LET estimate == CeilDiv((TOTAL_CYCLES * 11) \div 10, quoted)
  IN  /\ 2 * (SealEstimate(sealed) + 3 * LEDGER_FEE - estimate) <= E8S_PER_ICP - 1
      /\ 2 * (estimate - SealEstimate(sealed) - 3 * LEDGER_FEE) <= E8S_PER_ICP - 1

\* Bob's claim, which seal_push reconstructs from what is left of the deposit, is
\* the amount that Alice sent, if this is a whole number of ICP: for any rates when
\* deposit_alloc quoted the spawn and when the deposit is sealed, as long as the two
\* estimates of the spawn differ, by three fees more or less, by under half an ICP.
\* What deposit_prepare burned in between does not matter.
THEOREM ClaimIsAmount ==
  ASSUME NEW n \in Nat, NEW balance \in Nat, NEW spawn_fee \in Nat,
         NEW quoted \in Nat \ {0}, NEW sealed \in Nat \ {0}, NEW pct,
         balance + spawn_fee =
           RouterDeposit(n * E8S_PER_ICP, SpawnFeeEstimate(quoted)),
         n > 0, EstimatesClose(quoted, sealed)
  PROVE  SealSplit(balance, spawn_fee, sealed, pct).claim = n * E8S_PER_ICP
<1> DEFINE est == CeilDiv((TOTAL_CYCLES * 11) \div 10, quoted)
           zz == SealEstimate(sealed)
           E == E8S_PER_ICP
           F == LEDGER_FEE
           h == E \div 2
           amount == n * E
           original == balance + spawn_fee
           x == Monus(original, zz + TotalFees)
<1>1. E \in Nat /\ E > 0 /\ F \in Nat /\ h \in Nat /\ 2 * h <= E /\ E <= 2 * h + 1
  BY UnitAssumption, FeeAssumption
<1>2. est \in Nat
  <2>1. (TOTAL_CYCLES * 11) \div 10 \in Nat
    BY CyclesAssumption, DivNat
  <2> QED
    BY <2>1, CeilDivNat
<1>3. zz \in Nat
  <2>1. TOTAL_CYCLES * 11 \in Nat /\ sealed * 10 \in Nat \ {0}
    BY CyclesAssumption
  <2> QED
    BY <2>1, DivNat DEF SealEstimate
<1>4. amount \in Nat /\ amount >= E
  <2>1. \A a \in Nat, e \in Nat : a > 0 => a * e \in Nat /\ a * e >= e
    <3> TAKE a \in Nat, e \in Nat
    <3> HAVE a > 0
    <3>1. PICK b \in Nat : a = b + 1
      <4>1. a - 1 \in Nat /\ a = (a - 1) + 1
        OBVIOUS
      <4> QED
        BY <4>1
    <3>2. a * e = b * e + e /\ b * e \in Nat
      BY <3>1
    <3> QED
      BY <3>2
  <2> QED
    BY <1>1, <2>1
<1>5. original = amount + (est + 2 * F) + 5 * F
  BY Zenon DEF RouterDeposit, SpawnFeeEstimate
<1>6. /\ 2 * (zz + 3 * F - est) <= E - 1
      /\ 2 * (est - zz - 3 * F) <= E - 1
  BY DEF EstimatesClose
<1>7. TotalFees = 10 * F
  BY DEF TotalFees
<1> HIDE DEF est, zz, E, F, h, amount, original
<1>8. x = amount + est - zz - 3 * F /\ x \in Nat
  <2>1. original > zz + 10 * F \/ original = zz + 10 * F
    BY <1>1, <1>2, <1>3, <1>4, <1>5, <1>6
  <2> QED
    BY <1>1, <1>2, <1>3, <1>4, <1>5, <1>7, <2>1 DEF Monus
<1> HIDE DEF x
<1>9. x + h \in Nat /\ amount <= x + h /\ x + h < amount + E
  <2> DEFINE drift == est - zz - 3 * F
  <2>1. drift \in Int /\ x = amount + drift
    BY <1>1, <1>2, <1>3, <1>4, <1>8
  <2>2. 2 * drift <= E - 1 /\ 2 * (0 - drift) <= E - 1
    BY <1>1, <1>2, <1>3, <1>6
  <2> HIDE DEF drift
  <2>3. 0 - drift <= h /\ drift + h < E
    BY <1>1, <2>1, <2>2
  <2> QED
    BY <1>1, <1>4, <1>8, <2>1, <2>3
<1>10. (x + h) \div E = n
  BY <1>1, <1>9, Quotient DEF amount
<1>11. RoundICP(x) = n * E
  BY <1>10 DEF RoundICP, E, h
<1>12. SealSplit(balance, spawn_fee, sealed, pct).claim = RoundICP(x)
  <2>1. sealed > 0
    OBVIOUS
  <2> QED
    BY <2>1 DEF SealSplit, x, original, zz, SealEstimate
<1> QED
  BY <1>11, <1>12 DEF E

\* So it is at a steady rate, whatever the rate and the cycles of a transaction: the
\* fees and the rounding of the estimates do not add up to half an ICP.
COROLLARY SteadyClaim ==
  ASSUME NEW n \in Nat, NEW balance \in Nat, NEW spawn_fee \in Nat,
         NEW rate \in Nat \ {0}, NEW pct, n > 0,
         balance + spawn_fee =
           RouterDeposit(n * E8S_PER_ICP, SpawnFeeEstimate(rate)),
         6 * LEDGER_FEE + 3 <= E8S_PER_ICP
  PROVE  SealSplit(balance, spawn_fee, rate, pct).claim = n * E8S_PER_ICP
<1> DEFINE cycles == TOTAL_CYCLES * 11
           tenth == cycles \div 10
           est == CeilDiv(tenth, rate)
           zz == SealEstimate(rate)
           k == tenth \div rate
           t == tenth - k * rate
           step == rate * 10
<1>1. cycles \in Nat /\ tenth \in Nat /\ 10 * tenth <= cycles /\ cycles < 10 * tenth + 10
  BY CyclesAssumption
<1>2. /\ k \in Nat /\ k * rate \in Nat
      /\ k * rate <= tenth /\ tenth < k * rate + rate
  <2> HIDE DEF tenth, cycles
  <2> QED
    BY <1>1
<1>3. t \in 0..(rate - 1) /\ tenth = k * rate + t
  <2> HIDE DEF tenth, cycles, k
  <2> QED
    BY <1>1, <1>2
<1>4. zz = k
  <2>1. step \in Nat \ {0} /\ k * step = 10 * (k * rate)
    <3> HIDE DEF tenth, cycles, k
    <3> QED
      BY <1>2
  <2>2. k * step <= cycles /\ cycles < k * step + step
    <3> DEFINE m == k * rate
    <3>1. m \in Nat /\ k * step = 10 * m /\ tenth = m + t /\ step = rate * 10
      BY <1>2, <1>3, <2>1
    <3> HIDE DEF m, tenth, cycles, t, k, step
    <3> QED
      BY <1>1, <1>3, <3>1
  <2> HIDE DEF step, cycles, k
  <2>3. cycles \div step = k
    BY <1>1, <1>2, <2>1, <2>2, Quotient
  <2> QED
    BY <2>3 DEF SealEstimate, cycles, step
<1>5. est \in {k, k + 1}
  <2> DEFINE m == k * rate
             y == tenth + (rate - 1)
  <2>1. m \in Nat /\ tenth = m + t /\ (k + 1) * rate = m + rate
    <3> HIDE DEF tenth, cycles, t, k
    <3> QED
      BY <1>2, <1>3
  <2>2. CASE t = 0
    <3>1. y \in Nat /\ k * rate <= y /\ y < k * rate + rate
      <4> HIDE DEF m, tenth, t
      <4> QED
        BY <2>1, <2>2, <1>3
    <3> HIDE DEF y, k
    <3>2. y \div rate = k
      BY <1>2, <3>1, Quotient
    <3> QED
      BY <3>2 DEF CeilDiv, y
  <2>3. CASE t # 0
    <3>1. y \in Nat /\ (k + 1) * rate <= y /\ y < (k + 1) * rate + rate
      <4> DEFINE next == (k + 1) * rate
      <4> HIDE DEF m, tenth, t, next
      <4>1. next = m + rate
        BY <2>1 DEF next
      <4>2. y \in Nat /\ next <= y /\ y < next + rate
        BY <2>1, <2>3, <1>3, <4>1
      <4> QED
        BY <4>2 DEF next
    <3> HIDE DEF y, k
    <3>2. k + 1 \in Nat
      BY <1>2
    <3>3. y \div rate = k + 1
      BY <3>1, <3>2, Quotient
    <3> QED
      BY <3>3 DEF CeilDiv, y
  <2> QED
    BY <2>2, <2>3
<1> HIDE DEF est, zz, k
<1>6. /\ 2 * (zz + 3 * LEDGER_FEE - est) <= E8S_PER_ICP - 1
      /\ 2 * (est - zz - 3 * LEDGER_FEE) <= E8S_PER_ICP - 1
  BY <1>2, <1>4, <1>5, UnitAssumption, FeeAssumption
<1>7. EstimatesClose(rate, rate)
  BY <1>6, Zenon DEF EstimatesClose, est, zz
<1> QED
  BY <1>7, ClaimIsAmount
=============================================================================
