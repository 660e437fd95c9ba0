----------------------------- MODULE MCAmounts ------------------------------
(***************************************************************************)
(* The arithmetic of the Router over samples.  A state is one sample:      *)
(* either a claim with one entropy byte, for the decomposition, or one     *)
(* deposit on its way through quote, prepare and seal without its          *)
(* interleavings, with the rates it met.  One unit is 10_000 e8s, the      *)
(* ledger fee; cycles are counted in millions.                             *)
(***************************************************************************)
EXTENDS SealAmounts, SequencesExt

CONSTANTS
  Claims, MaxByte,        \* what is decomposed
  Amounts, Rates, Bytes   \* what is deposited

\* Claims in whole ICP, as seal_push rounds them: the range the Router's comment
\* promises, and the claims past the point where five transfers no longer
\* suffice.  29 denominations make the bytes 0..28 enough.
AllClaims == 0..2000 \cup 2480..2520

\* 1, 2, 5, 37 and 2000 ICP; 36.4 and 36.6 ICP, on both sides of the rounding.
SampleAmounts == {10000, 20000, 50000, 370000, 20000000, 364000, 366000}
\* The rate moves by at most 2.7 percent in all.
DriftingRates == {296, 298, 300, 304}
SampleBytes == {0, 3, 7, 11, 15}

VARIABLE sample

\* The rates of a sample's deposit: one when quoted, a second when prepared, a
\* third when sealed.
Init ==
  \/ \E icp \in Claims :
       sample = [kind |-> "claim", claim |-> icp * E8S_PER_ICP, byte |-> 0,
                 transfers |-> Decompose(0)[icp * E8S_PER_ICP]]
  \/ \E amount \in Amounts, r0, r1 \in Bytes, rate \in Rates :
       sample = [kind |-> "deposit", amount |-> amount, r0 |-> r0, r1 |-> r1,
                 rates |-> <<rate>>]

NextByte ==
  /\ sample.kind = "claim" /\ sample.byte < MaxByte
  /\ sample' = [sample EXCEPT !.byte = @ + 1,
                  !.transfers = Decompose(sample.byte + 1)[sample.claim]]

NextRate ==
  /\ sample.kind = "deposit" /\ Len(sample.rates) < 3
  /\ \E rate \in Rates : sample' = [sample EXCEPT !.rates = Append(@, rate)]

Next == NextByte \/ NextRate

Spec == Init /\ [][Next]_sample

-----------------------------------------------------------------------------
(* Properties of a claim *)

\* The transfers of seal_push add up to Bob's claim, so that pool_claims records
\* what the mixer receives.  decomposeCascading: "Any amount 1-2000 ICP
\* decomposes exactly", into at most five transfers, each a denomination.
ExactDenominations ==
  sample.kind = "claim" =>
    /\ FoldSeq(+, 0, sample.transfers) = sample.claim
    /\ sample.claim \in E8S_PER_ICP..LargestClaim * E8S_PER_ICP =>
         /\ Len(sample.transfers) \in 1..MAX_POOL_TRANSFERS
         /\ Denominated(sample.transfers)

\* "Denomination-based split for privacy": from 2 ICP on, no transfer to the
\* mixer shows the claim.
ClaimHidden ==
  sample.kind = "claim" /\ sample.claim >= MIN_DENOMINATION_THRESHOLD =>
    Hides(sample.transfers, sample.claim)

-----------------------------------------------------------------------------
(* Properties of a deposit *)
Sealed == sample.kind = "deposit" /\ Len(sample.rates) = 3

Percentage == CalculateToPoolPct(sample.r0, sample.r1)

\* The deposit account before the prepare, and what the prepare takes from it.
Deposited == RouterDeposit(sample.amount, SpawnFeeEstimate(sample.rates[1]))
SpawnFee == ConvertAmount(Deposited, sample.rates[2], Percentage) + LEDGER_FEE
Left == Deposited - SpawnFee
Split == SealSplit(Left, SpawnFee, sample.rates[3], Percentage)
Transfers == Decompose(sample.r0)[Split.claim]

\* Each transfer costs its amount and a fee.
Outlay ==
  (Split.fee_buffer + LEDGER_FEE)
    + FoldSeq(+, 0, Transfers) + Len(Transfers) * LEDGER_FEE

\* deposit_prepare leaves enough in the account for seal_push to make all of
\* its transfers to the mixer and the fee buffer, as long as the rate moves
\* little between the quote, the prepare and the seal.
SealAffordable == Sealed => Left >= Outlay

\* Bob's claim, which seal_push reconstructs from the balance, the spawn fee and
\* its own rate, is Alice's amount rounded to whole ICP: neither the ten fees
\* nor the movement of the rate carries it over to the next ICP.
ClaimMatches == Sealed => Split.claim = 
    ((sample.amount + E8S_PER_ICP \div 2) \div E8S_PER_ICP) * E8S_PER_ICP
=============================================================================
