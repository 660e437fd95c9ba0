--------------------------- MODULE Decomposition ---------------------------
(***************************************************************************)
(* The split of Bob's claim into pool transfers: Router.decomposeCascading *)
(* and the denomination tables it draws from.  Amounts are naturals in     *)
(* ledger units; E8S_PER_ICP is the number of units in one ICP.            *)
(***************************************************************************)
EXTENDS Integers, Sequences, FiniteSets

CONSTANT E8S_PER_ICP

ASSUME UnitAssumption == E8S_PER_ICP \in Nat \ {0}

\* The four tiers DENOM_LARGE, DENOM_HUNDREDS, DENOM_TENS and DENOM_UNITS in
\* the order the code scans them, from 1500 ICP down to 1 ICP.
DenominationCount == 29
WholeDenomination[i \in 1..DenominationCount] ==
  IF i <= 2 THEN 2000 - 500 * i
  ELSE IF i <= 11 THEN 100 * (12 - i)
  ELSE IF i <= 20 THEN 10 * (21 - i)
  ELSE 30 - i
Denomination[i \in 1..DenominationCount] == WholeDenomination[i] * E8S_PER_ICP

\* Mutant: one transfer too few.
FourTransfers == 4

MAX_POOL_TRANSFERS == 5
MIN_DENOMINATION_THRESHOLD == 2 * E8S_PER_ICP

\* The denominations above a limit come first; those after them are usable.
Skipped[limit \in Nat] ==
  Cardinality({i \in 1..DenominationCount : Denomination[i] > limit})
AnyUsable(limit) == Skipped[limit] < DenominationCount

\* A decomposition in progress: the transfers chosen and what is still to place.
Progresses == [result : Seq(Nat), remaining : Nat]

\* Mutant: what is left is not reduced.
TakeAgain(p, d) == [p EXCEPT !.result = Append(@, d)]

Take(p, d) == [result |-> Append(p.result, d), remaining |-> p.remaining - d]

\* Mutant: the first pick among the denominations up to the whole amount.
PickWhole(byte) == [amount \in Nat |->
  Take([result |-> <<>>, remaining |-> amount],
       Denomination[Skipped[amount] + 1])]

\* Pick 1: the entropy byte selects among the denominations up to one half.
PickFirst(byte) == [amount \in Nat |->
  LET skipped == Skipped[amount \div 2]
      start == [result |-> <<>>, remaining |-> amount]
  IN  IF AnyUsable(amount \div 2)
      THEN Take(start,
             Denomination[skipped + 1 + (byte % (DenominationCount - skipped))])
      ELSE start]

\* One pick of the greedy scan: the largest denomination that still fits.
\* The nested scans of the code make the same picks in the same order, since
\* a denomination passed over is never usable again.
PickGreedy[p \in Progresses] ==
  IF Len(p.result) < MAX_POOL_TRANSFERS /\ AnyUsable(p.remaining)
  THEN Take(p, Denomination[Skipped[p.remaining] + 1])
  ELSE p

\* Whatever is left goes on top of the last transfer.
PlaceRest[p \in Progresses] ==
  LET n == Len(p.result)
  IN  IF p.remaining = 0 THEN p.result
      ELSE IF n = 0 THEN <<p.remaining>>
      ELSE [p.result EXCEPT ![n] = @ + p.remaining]

\* Five greedy picks exhaust MAX_POOL_TRANSFERS whatever the first pick did.
Decompose(byte) == [amount \in Nat |->
  IF amount = 0 THEN <<>>
  ELSE IF amount < MIN_DENOMINATION_THRESHOLD THEN <<amount>>
  ELSE PlaceRest[PickGreedy[PickGreedy[PickGreedy[PickGreedy[PickGreedy[
         PickFirst(byte)[amount]]]]]]]]

-----------------------------------------------------------------------------
(* What a split may promise *)

\* decomposeCascading: "Any amount 1-2000 ICP decomposes exactly".
LargestClaim == 2000

\* Every transfer is an amount that other claims make as well.
Denominated(transfers) ==
  \A i \in 1..Len(transfers) :
    \E n \in 1..DenominationCount : transfers[i] = Denomination[n]

\* No transfer shows the claim.
Hides(transfers, claim) == \A i \in 1..Len(transfers) : transfers[i] < claim
=============================================================================
