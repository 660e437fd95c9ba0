------------------------------ MODULE MCRouter ------------------------------
(***************************************************************************)
(* Model values and parameters for checking the Router.  One unit is       *)
(* 10_000 e8s, the ledger fee; cycles are counted in millions.             *)
(***************************************************************************)
EXTENDS RouterProperties, TLC

CONSTANTS d1, d2

TwoICP == [d \in Deposits |-> 2 * E8S_PER_ICP]
\* Different deposits, different entropy.
Percent == [d \in Deposits |-> IF d = d1 THEN 10 ELSE 32]
LowPercent == [d \in Deposits |-> 10]
FirstByte == [d \in Deposits |-> IF d = d1 THEN 0 ELSE 7]

\* 1.55 ICP, rounded up to a claim of 2: it borrows more than the subsidy, so that
\* the fee buffer gets nothing but the two fees of the preload.  2.4 ICP, rounded
\* down to a claim of 2: it brings the buffer so much that its recycling has a whole
\* ICP to move, and takes some of it back when it is paid out.
Uneven == [d \in Deposits |-> IF d = d1 THEN 15500 ELSE 24000]

SteadyRate == {300}
LowRate == {250}

\* The instances are ones that the theorems about the claims speak of; those about
\* the exact claims, the mixer and the fee buffer are about whole amounts.
ASSUME PriceIsSteady == PriceHolds
ASSUME SealsAreSteady ==
  (\A d \in Deposits : Amount[d] % E8S_PER_ICP = 0) =>
    SealsGoThrough /\ SharesSuffice
ASSUME ReserveIsEnough == ReserveSuffices

NoShortfall == {}
\* 1 ICP, and more than the free content of the mixer.
SomeShortfalls == {10000, 30000}
=============================================================================
