---------------------------- MODULE SealAmounts ----------------------------
(***************************************************************************)
(* The arithmetic of the Router on one deposit: what the client is quoted, *)
(* what deposit_prepare burns, and how seal_push divides the rest between  *)
(* Bob's claim, the fee buffer and cycles.  A "rate" is the number of      *)
(* cycles one ledger unit buys; 0 stands for a CMC that did not answer.    *)
(***************************************************************************)
EXTENDS Decomposition

CONSTANTS
  LEDGER_FEE,            \* the ledger's transfer fee
  TOTAL_CYCLES,          \* cycles of one transaction: spawn, top-ups and Router
  ROUTER_CYCLES_PER_TX   \* the part of them the Router keeps

ASSUME FeeAssumption == LEDGER_FEE \in Nat
ASSUME CyclesAssumption ==
  /\ TOTAL_CYCLES \in Nat \ {0}
  /\ ROUTER_CYCLES_PER_TX \in 1..TOTAL_CYCLES

\* Mutant: the guard of a subtraction forgotten.
UnguardedMinus(a, b) == a - b

\* Subtraction on Nat, as the guarded "if (a > b) { a - b } else { 0 }".
Monus(a, b) == IF a > b THEN a - b ELSE 0
CeilDiv(a, b) == (a + (b - 1)) \div b
Lesser(a, b) == IF a < b THEN a ELSE b

\* Mutant: rounding down.
FloorICP(x) == (x \div E8S_PER_ICP) * E8S_PER_ICP

\* The nearest whole number of ICP.
RoundICP(x) == ((x + E8S_PER_ICP \div 2) \div E8S_PER_ICP) * E8S_PER_ICP

\* The subsidy percentage, from the first two bytes of the deposit's entropy.
CalculateToPoolPct(r0, r1) ==
  LET t23 == (5 + (r0 % 16)) + (5 + (r1 % 16))
  IN  IF t23 <= 25 THEN t23 ELSE (125 + 5 * t23) \div 10

\* Mutant: the ten percent of margin forgotten.
MarginlessEstimate(rate) == CeilDiv(TOTAL_CYCLES, rate) + 2 * LEDGER_FEE

\* deposit_alloc's spawn_fee_estimate; the code writes the fee as a literal.
SpawnFeeEstimate(rate) ==
  CeilDiv((TOTAL_CYCLES * 11) \div 10, rate) + 2 * LEDGER_FEE

\* What the client sends to the deposit account.
RouterDeposit(amount, estimate) == amount + estimate + 5 * LEDGER_FEE

\* Mutant: the pool's subsidy is burned as well.
ConvertEverything(balance, rate, pct) ==
  Lesser(CeilDiv(TOTAL_CYCLES, rate), Monus(balance, 5 * LEDGER_FEE))

\* What deposit_prepare converts out of a balance at a rate.
ConvertAmount(balance, rate, pct) ==
  LET burn == ((TOTAL_CYCLES - ROUTER_CYCLES_PER_TX) * Monus(100, pct)) \div 100
                + ROUTER_CYCLES_PER_TX
  IN  Lesser(CeilDiv(burn, rate), Monus(balance, 5 * LEDGER_FEE))

\* Mutant: one fee of the two.
SingleFee == LEDGER_FEE

\* What a seal sends ahead for the withdrawal: the fee that finalize preloads
\* and the fee of moving it.
WithdrawalPrefunding == 2 * LEDGER_FEE

TotalFees == 10 * LEDGER_FEE

\* seal_push on a deposit account that holds balance, after deposit_prepare
\* took spawn_fee out of it.
SealSplit(balance, spawn_fee, rate, pct) ==
  LET original == balance + spawn_fee
      zz       == IF rate > 0 THEN (TOTAL_CYCLES * 11) \div (rate * 10) ELSE 0
      x        == Monus(original, zz + TotalFees)
      q        == Monus(original, x + TotalFees)
      to_pool  == (q * pct) \div 100
      whole    == RoundICP(x)
      dust     == Monus(x, whole)
      borrow   == Monus(whole, x)
  IN  [claim      |-> whole,
       fee_buffer |-> dust + Monus(to_pool, borrow) + WithdrawalPrefunding,
       to_cycles  |-> Monus(q, to_pool)]

\* The residue converted to cycles at the end of a seal.
Residue(to_cycles, spawn_fee) == Monus(to_cycles, spawn_fee + LEDGER_FEE)
=============================================================================
