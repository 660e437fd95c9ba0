-------------------------- MODULE RouterProperties --------------------------
(***************************************************************************)
(* What the Router must guarantee, over the state of module Router.        *)
(***************************************************************************)
EXTENDS Router, FiniteSetsExt

\* A call in flight.
CallRecords == [pc : Pcs, id : Deposits \cup {None}, bal : Nat, amt : Nat,
                rate : Nat, spawn_fee : Nat, rest : Seq(Nat)]

\* Where a call has no deposit: only before deposit_alloc has derived its id,
\* and in admin_sweep_pool.
AnonymousPcs == {"idle", "alloc_rand", "alloc_check",
                 "sweep_read", "sweep_compute", "sweep_pay"}

DepositsType ==
  deposits \in [Deposits -> [state : DepositStates, amount : Nat,
                             spawn_fee : Nat]]
ServiceType ==
  /\ locks \in SUBSET Deposits
  /\ pool_claims \in Nat
  /\ seal_count \in Nat
  /\ paused \in BOOLEAN /\ secret \in BOOLEAN /\ initializing \in BOOLEAN
  /\ issued \in SUBSET Deposits
LedgerType ==
  /\ sub \in [Deposits -> Nat]
  /\ mixer \in Nat
  /\ fee_buf \in Nat
  /\ bob \in [Deposits -> Nat]
  /\ alice \in [Deposits -> Nat]
ClientType ==
  /\ quote \in [Deposits -> Nat]
  /\ funded \in SUBSET Deposits
  /\ expired \in SUBSET Deposits
  /\ calls \in Nat
  /\ faults \in Nat
CallType ==
  /\ call \in [Slots -> CallRecords]
  /\ \A s \in Slots : call[s].id = None => call[s].pc \in AnonymousPcs

\* The state of the Router, of the accounts it uses and of the calls in flight.
TypeOK == DepositsType /\ ServiceType /\ LedgerType /\ ClientType /\ CallType

Total(f, S) == MapThenSumSet(LAMBDA d : f[d], S)

-----------------------------------------------------------------------------
(* The locks *)

\* Two calls never work on one deposit at the same time: while one of them is
\* suspended at an await inside its critical section, the deposit is in the
\* locks map and no other call is inside.  (seal_push "Concurrency lock",
\* finalize "Prevent double-spend and reclaim-race".)
LockDiscipline ==
  \A s \in Slots :
    Holds(s) =>
      /\ call[s].id \in locks
      /\ \A t \in Slots \ {s} : Holds(t) => call[t].id # call[s].id

\* Every lock has a call in flight that will release it: no return path of any
\* operation leaves its lock behind.
NoOrphanLock ==
  \A d \in locks : \E s \in Slots : Holds(s) /\ call[s].id = d

\* A deposit's lock is not held for ever.
LocksAreReleased == \A d \in Deposits : d \in locks ~> d \notin locks

-----------------------------------------------------------------------------
(* The claims on the pool *)

\* The seals that have recorded their claim and not yet sealed the deposit.
Sealing == {d \in Deposits : \E s \in Slots : At(s, "seal_transfer")
                                              /\ call[s].id = d}
Sealed == {d \in Deposits : deposits[d].state = "sealed"}
Unpaid == {d \in Sealed : bob[d] = 0}

\* The cycles of a transaction with their ten percent of margin, as the quote
\* counts them and as the seal sets them aside, in ledger units.
QuotedCycles(rate) == CeilDiv((TOTAL_CYCLES * 11) \div 10, rate)
SealedCycles(rate) == (TOTAL_CYCLES * 11) \div (rate * 10)

\* What the rounding of the claim to whole ICP takes from Alice's amount: the
\* fraction of an ICP in it, unless at every rate of the quote and of the seal
\* the fraction is large enough, a half and three fees, to be rounded up.
Dropped ==
  [d \in Deposits |->
     LET part == Amount[d] % E8S_PER_ICP
     IN  IF \A r1 \in Rates, r2 \in Rates :
              E8S_PER_ICP + SealedCycles(r2) + 3 * LEDGER_FEE
                <= part + QuotedCycles(r1) + E8S_PER_ICP \div 2
         THEN 0 ELSE part]

\* The deposits that are sealed, or that are over.
Settled == {d \in issued : deposits[d].state \in {"sealed", "none"}}

\* pool_claims, "total Bob commitments", falls short of what the sealed deposits
\* owe by no more than the rounding has taken from the deposits sealed so far: by
\* nothing where the amounts are whole ICP, so that the sweeps, which spare what
\* it covers, spare what Bob is owed.  (It falls shorter after an error that had
\* cost a deposit its conversion: prepared again, it is converted again, and what
\* is left makes a smaller claim.)
CommitmentsCovered ==
  pool_claims + Total(Dropped, Settled) >= Total(Amount, Sealed)

\* As long as no call has failed it is exactly what they owe, if that is whole ICP.
\* (A seal that fails after it has recorded its claim leaves it behind, and the
\* payment of 2.6 ICP takes 2.6 from a claim of 3.)
CommitmentsExact ==
  faults = MaxFaults => pool_claims = Total(Amount, Sealed \cup Sealing)

\* What the theorems about the claims assume of the constants: from the quote to
\* the seal the price of a transaction's cycles rises by less than half an ICP,
\* three fees less.
PriceHolds ==
  \A r1 \in Rates, r2 \in Rates :
    SealedCycles(r2) + 3 * LEDGER_FEE <= QuotedCycles(r1) + E8S_PER_ICP \div 2

\* What the theorem about the exact claims assumes of the constants, and module
\* MCAmounts checks over samples: out of what deposit_prepare leaves, a seal claims
\* just what Alice seals for Bob, and the rest pays for the fee buffer's share and
\* for as many transfers as a claim is ever split into.
SealsGoThrough ==
  \A d \in Deposits, r1 \in Rates, r2 \in Rates, r3 \in Rates :
    LET whole == RouterDeposit(Amount[d], SpawnFeeEstimate(r1))
        spent == ConvertAmount(whole, r2, Pct[d]) + LEDGER_FEE
        split == SealSplit(whole - spent, spent, r3, Pct[d])
    IN  /\ split.claim = Amount[d]
        /\ (split.fee_buffer + LEDGER_FEE)
              + (Amount[d] + MAX_POOL_TRANSFERS * LEDGER_FEE) <= whole - spent

\* The awaits at which a call is about to pay out of the mixer or of the fee buffer,
\* from the reading of a balance to the payment.
SpendingPcs == (FinalizePcs \ {"fin_commit"})
                 \cup {"recycle_wedge", "recycle_burn", "sweep_compute",
                       "sweep_pay", "buffer_pay"}

\* No two calls are about to pay out at the same time.  Nothing in the code sees to
\* that; without it a sweep takes what is owed, as run sweep_race shows.
SpendsApart ==
  \A s, t \in Slots :
    call[s].pc \in SpendingPcs /\ call[t].pc \in SpendingPcs => s = t

\* The mixer holds what the sealed deposits owe, to within the one fee that a
\* finalization preloads: neither the recycling nor a sweep spends it.  So it is
\* with whole amounts of ICP, as a seal moves the claim it records, and of 2.4 ICP
\* that is 2; and while calls that pay out do not overlap (SpendsApart).
MixerCovers == mixer + LEDGER_FEE >= Total(Amount, Unpaid)

\* The finalizations in flight that have already drawn their preload.
Preloaded == {d \in Deposits :
                \E s \in Slots : /\ call[s].id = d
                                 /\ call[s].pc \in FinalizePcs \ {"fin_preload"}}

\* The fee buffer holds the preload of every finalization to come: the fee it
\* moves to the mixer and the fee of moving it.  (With every transfer to it made: the
\* code does not look whether the ledger refuses one.)
BufferCovers ==
  fee_buf >= 2 * LEDGER_FEE * Cardinality(Unpaid \ Preloaded)

\* What the theorem about the fee buffer assumes of the constants: a seal's share
\* for the buffer pays for the two transfers from it that a finalization makes at
\* most, the preload and one top-up of a fee, and what the recycling of the buffer
\* leaves in it pays for those of all deposits.
SharesSuffice ==
  \A d \in Deposits, r1 \in Rates, r2 \in Rates, r3 \in Rates :
    LET whole == RouterDeposit(Amount[d], SpawnFeeEstimate(r1))
        spent == ConvertAmount(whole, r2, Pct[d]) + LEDGER_FEE
    IN  SealSplit(whole - spent, spent, r3, Pct[d]).fee_buffer >= 4 * LEDGER_FEE

ReserveSuffices ==
  4 * LEDGER_FEE * Cardinality(Deposits) + LEDGER_FEE <= BUFFER_RESERVE

-----------------------------------------------------------------------------
(* The payments *)

\* Bob gets his amount at most once, and never from a deposit that Alice got
\* back.
NoDoublePayout ==
  \A d \in Deposits : bob[d] \in {0, Amount[d]} /\ (bob[d] = 0 \/ alice[d] = 0)

\* The awaits of the calls that change records and make payments.
PayPcs == FinalizePcs \ {"fin_commit"}
RefundPcs == ReclaimPcs \ {"reclaim_commit"}
NeutralPcs == TailPcs \cup (FreePcs \ {"alloc_rate"})

\* A deposit's record and its payments.
Account(d) ==
  /\ bob[d] \in {0, Amount[d]}
  /\ bob[d] = 0 \/ alice[d] = 0
  /\ d \notin issued =>
       deposits[d].state = "none" /\ bob[d] = 0 /\ alice[d] = 0
  /\ deposits[d].state = "allocated" => bob[d] = 0 /\ alice[d] = 0
  /\ deposits[d].state = "created" =>
       /\ bob[d] = 0
       /\ alice[d] = 0 \/ \E s \in Slots : At(s, "reclaim_commit")
                                           /\ call[s].id = d
  /\ deposits[d].state = "sealed" =>
       /\ alice[d] = 0
       /\ bob[d] = 0 \/ \E s \in Slots : At(s, "fin_commit")
                                         /\ call[s].id = d

\* A sealed deposit that admin_clear_deposit may have forgotten meanwhile.
Payable(d) == \/ deposits[d].state = "sealed"
              \/ deposits[d].state = "none" /\ "clear_deposit" \in Operations

\* What a call at an await knows of its deposit.
Fits(pc, d) ==
  /\ pc = "alloc_rate" =>
       deposits[d].state = "none" /\ bob[d] = 0 /\ alice[d] = 0
  /\ pc \in PreparePcs => deposits[d].state = "allocated"
  /\ pc \in SealPcs => deposits[d].state = "created" /\ alice[d] = 0
  /\ pc \in PayPcs => Payable(d) /\ bob[d] = 0 /\ alice[d] = 0
  /\ pc = "fin_commit" => Payable(d) /\ bob[d] = Amount[d] /\ alice[d] = 0
  /\ pc \in RefundPcs => deposits[d].state = "created" /\ alice[d] = 0
  /\ pc = "reclaim_commit" =>
       deposits[d].state = "created" /\ alice[d] > 0

InFlight(s) ==
  /\ call[s].id # None => call[s].id \in issued
  /\ Fits(call[s].pc, call[s].id)
  /\ At(s, "alloc_rate") =>
       \A t \in Slots \ {s} : call[t].id # call[s].id

\* Records, payments and calls in flight agree: a payment has been made only for
\* a record that is about to be forgotten by the call that made it or is gone,
\* and what a call checked before its first await still holds at the others.
PaymentsMatchRecords ==
  /\ \A d \in Deposits : Account(d)
  /\ \A s \in Slots : InFlight(s)

\* As long as nothing fails no finalization gives up for want of money: the fee
\* buffer and the mixer hold what its transfers need.
FinalizationsGoThrough ==
  [][\A s \in Slots : call[s].pc \in PayPcs /\ faults' = MaxFaults =>
                        call'[s].pc # "idle"]_vars

\* A finalization that has begun pays Bob, unless the ledger answered an error
\* before.
FinalizationPays ==
  \A d \in Deposits :
    (\E s \in Slots : At(s, "fin_preload") /\ call[s].id = d)
      ~> (bob[d] = Amount[d] \/ faults < MaxFaults)

-----------------------------------------------------------------------------
(* The abstract escrow *)

Stage == [d \in Deposits |->
            IF deposits[d].state # "none" THEN deposits[d].state
            ELSE IF bob[d] > 0 \/ alice[d] > 0 THEN "closed" ELSE "none"]

Promise == INSTANCE Escrow WITH stage <- Stage, paid <- bob, refunded <- alice

\* Every step of the Router is a step of the escrow or leaves it alone.
ImplementsEscrow == Promise!Spec
=============================================================================
