------------------------------- MODULE Router -------------------------------
(***************************************************************************)
(* The Router canister (src/motoko/router/Router.mo): the life of a        *)
(* deposit from deposit_alloc to finalize or reclaim.                      *)
(*                                                                         *)
(* A canister call runs atomically from one await to the next, and other   *)
(* calls run in between.  A call in flight occupies a slot; its program    *)
(* counter names the await it is suspended at, and every action below is   *)
(* the code from one such point to the next.  A direct ledger request is   *)
(* executed with the segment that issues it (requests from one canister to *)
(* another are delivered in order); a request made through one of the      *)
(* Router's own asynchronous helpers is a step of its own.                 *)
(*                                                                         *)
(* Amounts are in ledger units.  The rate limiter, the event log and the   *)
(* guards on the caller refuse a call without changing anything modelled   *)
(* here, so a refused call is a stuttering step.                           *)
(***************************************************************************)
EXTENDS SealAmounts

CONSTANTS
  Deposits,          \* deposit identifiers
  Slots,             \* calls that may be in flight together
  SecretReady,       \* router_secret was set by an earlier call
  None,              \* no deposit
  Amount,            \* what Alice seals for Bob, per deposit
  Pct,               \* calculateToPoolPct of the deposit's entropy
  Byte,              \* the first byte of the deposit's entropy
  Rates,             \* cycles per ledger unit the CMC may answer
  Shortfalls,        \* ledger units the Router may lack in cycles at a recycle
  RECYCLE_INTERVAL,
  POOL_SWEEP_THRESHOLD,
  BUFFER_RESERVE,    \* kept in the fee buffer by its recycling
  Liquidity,         \* initial content of the mixer
  Operations,        \* administrator's operations the configuration includes
  FaultKinds,        \* "err": an error result, "reject": a rejected call
  MaxFaults,         \* how many of them may happen
  MaxCalls           \* how many calls may be made

ASSUME RouterAssumption ==
  /\ None \notin Deposits
  /\ SecretReady \in BOOLEAN
  /\ Amount \in [Deposits -> Nat \ {0}]
  /\ Pct \in [Deposits -> 0..100]
  /\ Byte \in [Deposits -> 0..255]
  /\ Rates \subseteq Nat \ {0}
  /\ Shortfalls \subseteq Nat
  /\ RECYCLE_INTERVAL \in Nat \ {0}
  /\ POOL_SWEEP_THRESHOLD \in Nat
  /\ BUFFER_RESERVE \in Nat
  /\ Liquidity \in Nat
  /\ MaxFaults \in Nat
  /\ MaxCalls \in Nat

VARIABLES
  deposits,      \* per id: state ("none" = not in the map), amount, spawn_fee
  locks,         \* ids in the locks map
  pool_claims,
  seal_count,
  paused,
  secret,        \* router_secret is set
  initializing,  \* initializing_secret
  issued,        \* ids deposit_alloc has derived so far
  expired,       \* ids whose expires_at is past
  quote,         \* per id: spawn_fee_estimate returned to the client
  funded,        \* ids the client has transferred its deposit for
  sub,           \* ledger: the deposit subaccounts
  mixer,         \* ledger: the pool subaccount
  fee_buf,       \* ledger: the fee buffer subaccount
  bob,           \* ledger: what the recipient of each deposit received
  alice,         \* ledger: what the payer of each deposit got back
  call,          \* the calls in flight
  faults,        \* faults still allowed
  calls          \* calls still allowed

serviceVars == <<seal_count, paused, secret, initializing, issued>>
routerVars == <<deposits, locks, pool_claims, serviceVars>>
ledgerVars == <<sub, mixer, fee_buf, bob, alice>>
quoteVars == <<quote, funded, expired>>
clientVars == <<quoteVars, calls>>
vars == <<routerVars, ledgerVars, clientVars, call, faults>>

-----------------------------------------------------------------------------
(* Records *)

NoDeposit == [state |-> "none", amount |-> 0, spawn_fee |-> 0]

DepositStates == {"none", "allocated", "created", "sealed"}

\* A call in flight: where it is suspended, its deposit, the balance it last
\* read, the amount it is about to move, the rate and the spawn_fee it read,
\* and the transfers seal_push has still to make.
Idle == [pc |-> "idle", id |-> None, bal |-> 0, amt |-> 0, rate |-> 0,
         spawn_fee |-> 0, rest |-> <<>>]

\* Awaits at which the call holds the lock of its deposit.
PreparePcs == {"prepare_balance", "prepare_rate", "prepare_convert",
               "prepare_notify", "prepare_spawn", "prepare_topups"}
SealPcs == {"seal_balance", "seal_rate", "seal_compute", "seal_transfer"}
TailPcs == {"recycle_read", "recycle_wedge", "recycle_burn", "leftover",
            "sweep_read", "sweep_compute", "sweep_pay", "buffer_read",
            "buffer_pay"}
FinalizePcs == {"fin_preload", "fin_balance", "fin_topup", "fin_ensure",
                "fin_deficit", "fin_transfer", "fin_commit"}
ReclaimPcs == {"reclaim_balance", "reclaim_transfer", "reclaim_commit"}
FreePcs == {"idle", "alloc_rand", "alloc_check", "alloc_rate", "prepare_rand",
            "prepare_check", "reclaim_leftover"}

LockedPcs == PreparePcs \cup SealPcs \cup TailPcs \cup FinalizePcs
               \cup ReclaimPcs
Pcs == LockedPcs \cup FreePcs

\* admin_sweep_pool runs sweepPoolExcess with no deposit and no lock.
Holds(s) == call[s].pc \in LockedPcs /\ call[s].id # None

-----------------------------------------------------------------------------
(* Helpers *)

At(s, pc) == call[s].pc = pc
Goto(s, pc) == call' = [call EXCEPT ![s].pc = pc]
Return(s) == call' = [call EXCEPT ![s] = Idle]

\* unlock(...) and unlockWith(...)
ReturnUnlocked(s) ==
  /\ locks' = locks \ {call[s].id}
  /\ Return(s)

Fault(kind) == kind \in FaultKinds /\ faults > 0 /\ faults' = faults - 1
NoFault == UNCHANGED faults

\* A call arrives; a refused one is a stuttering step and costs nothing.
Called(s) == At(s, "idle") /\ calls > 0 /\ calls' = calls - 1

\* A ledger account can pay an amount and the fee.
Covers(balance, amount) == balance >= amount + LEDGER_FEE
After(balance, amount) == balance - (amount + LEDGER_FEE)

-----------------------------------------------------------------------------
Init ==
  /\ deposits = [d \in Deposits |-> NoDeposit]
  /\ locks = {}
  /\ pool_claims = 0
  /\ seal_count = 0
  /\ paused = FALSE
  /\ secret = SecretReady
  /\ initializing = FALSE
  /\ issued = {}
  /\ expired = {}
  /\ quote = [d \in Deposits |-> 0]
  /\ funded = {}
  /\ sub = [d \in Deposits |-> 0]
  /\ mixer = Liquidity
  /\ fee_buf = 0
  /\ bob = [d \in Deposits |-> 0]
  /\ alice = [d \in Deposits |-> 0]
  /\ call = [s \in Slots |-> Idle]
  /\ faults = MaxFaults
  /\ calls = MaxCalls

-----------------------------------------------------------------------------
(* ensure_secret, at the head of deposit_alloc and deposit_prepare.  The   *)
(* first caller fetches randomness; a second one does not wait for it.     *)

EnsureSecret(s, fetching, next, d) ==
  /\ Called(s)
  /\ \/ /\ secret \/ initializing
        /\ call' = [call EXCEPT ![s].pc = next, ![s].id = d]
        /\ UNCHANGED initializing
     \/ /\ ~(secret \/ initializing)
        /\ initializing' = TRUE
        /\ call' = [call EXCEPT ![s].pc = fetching, ![s].id = d]
  /\ UNCHANGED <<deposits, locks, pool_claims, seal_count, paused, secret,
                 issued, ledgerVars, quoteVars, faults>>

SecretReply(s, fetching, next) ==
  /\ At(s, fetching)
  /\ \/ secret' = TRUE /\ NoFault
     \/ Fault("reject") /\ UNCHANGED secret
  /\ initializing' = FALSE
  /\ Goto(s, next)
  /\ UNCHANGED <<deposits, locks, pool_claims, seal_count, paused, issued,
                 ledgerVars, clientVars>>

-----------------------------------------------------------------------------
(* deposit_alloc *)

AllocCall(s) == EnsureSecret(s, "alloc_rand", "alloc_check", None)
AllocSecret(s) == SecretReply(s, "alloc_rand", "alloc_check")

\* depositId: an id for every call, whether or not the call succeeds.  It is taken
\* to be new.  The code hashes certified_hash, the payer and next_seq % 256: one
\* payer's id repeats, and deposits.put overwrites what is there, when 256 calls
\* are made without a seal or another certified event in between.
AllocCheck(s) ==
  /\ At(s, "alloc_check")
  /\ \/ /\ paused
        /\ Return(s)
        /\ UNCHANGED issued
     \/ /\ ~paused
        /\ \E d \in Deposits \ issued :
             /\ issued' = issued \cup {d}
             /\ call' = [call EXCEPT ![s].pc = "alloc_rate", ![s].id = d]
  /\ UNCHANGED <<deposits, locks, pool_claims, seal_count, paused, secret,
                 initializing, ledgerVars, clientVars, faults>>

AllocRate(s) ==
  LET d == call[s].id
  IN /\ At(s, "alloc_rate")
     /\ \/ /\ Fault("err")
           /\ UNCHANGED <<deposits, quote>>
        \/ /\ NoFault
           /\ \E r \in Rates :
                quote' = [quote EXCEPT ![d] = SpawnFeeEstimate(r)]
           /\ deposits' = [deposits EXCEPT ![d] =
                             [NoDeposit EXCEPT !.state = "allocated"]]
     /\ Return(s)
     /\ UNCHANGED <<locks, pool_claims, serviceVars, ledgerVars, funded,
                    expired, calls>>

\* The client transfers its deposit once it has the quote.
Fund(d) ==
  /\ quote[d] > 0
  /\ d \notin funded
  /\ funded' = funded \cup {d}
  /\ sub' = [sub EXCEPT ![d] = @ + RouterDeposit(Amount[d], quote[d])]
  /\ UNCHANGED <<routerVars, mixer, fee_buf, bob, alice, quote, expired, calls,
                 call, faults>>

\* The deposit's time to live runs out.
Expire(d) ==
  /\ deposits[d].state # "none"
  /\ expired' = expired \cup {d}
  /\ d \notin expired
  /\ UNCHANGED <<routerVars, ledgerVars, quote, funded, calls, call, faults>>
-----------------------------------------------------------------------------
(* deposit_prepare *)

\* For a deposit in any other state the call is refused.
PrepareCall(s, d) ==
  /\ deposits[d].state = "allocated"
  /\ EnsureSecret(s, "prepare_rand", "prepare_check", d)
PrepareSecret(s) == SecretReply(s, "prepare_rand", "prepare_check")

PrepareCheck(s) ==
  LET d == call[s].id
  IN /\ At(s, "prepare_check")
     /\ IF ~paused /\ deposits[d].state = "allocated" /\ d \notin locks
        THEN /\ locks' = locks \cup {d}
             /\ Goto(s, "prepare_balance")
        ELSE Return(s) /\ UNCHANGED locks
     /\ UNCHANGED <<deposits, pool_claims, serviceVars, ledgerVars,
                    clientVars, faults>>

PrepareBalance(s) ==
  /\ At(s, "prepare_balance")
  /\ call' = [call EXCEPT ![s].pc = "prepare_rate",
                          ![s].bal = sub[call[s].id]]
  /\ UNCHANGED <<routerVars, ledgerVars, clientVars, faults>>

\* The checks on the balance, the rate and the secret, and convert_amt.  With
\* no secret deriveEntropy traps, and a trap leaves the lock in the map.
PrepareRate(s) ==
  LET d == call[s].id
  IN /\ At(s, "prepare_rate")
     /\ \/ /\ call[s].bal < quote[d] + 5 * LEDGER_FEE
           /\ ReturnUnlocked(s) /\ NoFault
        \/ /\ call[s].bal >= quote[d] + 5 * LEDGER_FEE
           /\ \/ Fault("err") /\ ReturnUnlocked(s)
              \/ ~secret /\ Return(s) /\ UNCHANGED locks /\ NoFault
              \/ /\ secret /\ NoFault
                 /\ \E r \in Rates :
                      LET convert == ConvertAmount(call[s].bal, r, Pct[d])
                      IN  IF convert = 0 THEN ReturnUnlocked(s)
                          ELSE /\ call' = [call EXCEPT
                                             ![s].pc = "prepare_convert",
                                             ![s].bal = 0,
                                             ![s].amt = convert]
                               /\ UNCHANGED locks
     /\ UNCHANGED <<deposits, pool_claims, serviceVars, ledgerVars,
                    clientVars>>

\* convertToCycles: the transfer to the CMC ...
PrepareConvert(s) ==
  LET d == call[s].id
  IN /\ At(s, "prepare_convert")
     /\ \/ /\ Covers(sub[d], call[s].amt) /\ NoFault
           /\ sub' = [sub EXCEPT ![d] = After(@, call[s].amt)]
           /\ Goto(s, "prepare_notify") /\ UNCHANGED locks
        \/ /\ ~Covers(sub[d], call[s].amt) /\ NoFault
           /\ ReturnUnlocked(s) /\ UNCHANGED sub
        \/ /\ Fault("err")
           /\ ReturnUnlocked(s) /\ UNCHANGED sub
     /\ UNCHANGED <<deposits, pool_claims, serviceVars, mixer, fee_buf, bob,
                    alice, clientVars>>

\* Mutant: the error return without its unlock.
NotifyLeavesLock(s) ==
  /\ At(s, "prepare_notify")
  /\ \/ Goto(s, "prepare_spawn") /\ NoFault
     \/ Fault("err") /\ Return(s)
  /\ UNCHANGED <<routerVars, ledgerVars, clientVars>>

\* ... and its answer to notify_top_up; an error here has already cost the ICP.
PrepareNotify(s) ==
  /\ At(s, "prepare_notify")
  /\ \/ Goto(s, "prepare_spawn") /\ NoFault /\ UNCHANGED locks
     \/ Fault("err") /\ ReturnUnlocked(s)
  /\ UNCHANGED <<deposits, pool_claims, serviceVars, ledgerVars, clientVars>>

\* The cycles pre-check and Factory.spawn_triplet, either of which may fail.
PrepareSpawn(s) ==
  /\ At(s, "prepare_spawn")
  /\ \/ Goto(s, "prepare_topups") /\ NoFault /\ UNCHANGED locks
     \/ Fault("err") /\ ReturnUnlocked(s)
  /\ UNCHANGED <<deposits, pool_claims, serviceVars, ledgerVars, clientVars>>

\* Four best-effort top-ups, then the record read at the start is written back.
PrepareTopUps(s) ==
  LET d == call[s].id
  IN /\ At(s, "prepare_topups")
     /\ deposits' = [deposits EXCEPT ![d] =
                       [NoDeposit EXCEPT !.state = "created",
                                         !.spawn_fee = call[s].amt + LEDGER_FEE]]
     /\ ReturnUnlocked(s)
     /\ UNCHANGED <<pool_claims, serviceVars, ledgerVars, clientVars, faults>>

\* Nothing catches a rejected call here: the call ends with its lock held.
PrepareReject(s) ==
  /\ call[s].pc \in PreparePcs \ {"prepare_topups"}
  /\ Fault("reject")
  /\ Return(s)
  /\ UNCHANGED <<routerVars, ledgerVars, clientVars>>
-----------------------------------------------------------------------------
(* seal_push, up to the deposit's record *)

\* Mutant: the concurrency lock is not looked at.
SealTwice(s, d) ==
  /\ Called(s) /\ ~paused
  /\ deposits[d].state = "created"
  /\ locks' = locks \cup {d}
  /\ call' = [call EXCEPT ![s].pc = "seal_balance", ![s].id = d,
                          ![s].spawn_fee = deposits[d].spawn_fee]
  /\ UNCHANGED <<deposits, pool_claims, serviceVars, ledgerVars, quoteVars,
                 faults>>

SealCall(s, d) ==
  /\ Called(s) /\ ~paused /\ d \notin locks
  /\ deposits[d].state = "created"
  /\ locks' = locks \cup {d}
  /\ call' = [call EXCEPT ![s].pc = "seal_balance", ![s].id = d,
                          ![s].spawn_fee = deposits[d].spawn_fee]
  /\ UNCHANGED <<deposits, pool_claims, serviceVars, ledgerVars, quoteVars,
                 faults>>

SealBalance(s) ==
  /\ At(s, "seal_balance")
  /\ call' = [call EXCEPT ![s].pc = "seal_rate", ![s].bal = sub[call[s].id]]
  /\ UNCHANGED <<routerVars, ledgerVars, clientVars, faults>>

\* A CMC that fails answers rate 0, and the seal goes on.
SealRate(s) ==
  /\ At(s, "seal_rate")
  /\ \/ /\ call[s].bal + call[s].spawn_fee <= TotalFees
        /\ ReturnUnlocked(s) /\ NoFault
     \/ /\ call[s].bal + call[s].spawn_fee > TotalFees
        /\ \E r \in Rates \cup {0} :
             /\ IF r = 0 THEN Fault("err") ELSE NoFault
             /\ call' = [call EXCEPT ![s].pc = "seal_compute", ![s].rate = r]
        /\ UNCHANGED locks
  /\ UNCHANGED <<deposits, pool_claims, serviceVars, ledgerVars, clientVars>>

\* The claim is recorded and the fee buffer's share is sent; an error of that
\* transfer is ignored.
SealCompute(s) ==
  LET d == call[s].id
      split == SealSplit(call[s].bal, call[s].spawn_fee, call[s].rate, Pct[d])
      share == split.fee_buffer
      Proceed == /\ call' = [call EXCEPT
                       ![s].pc = "seal_transfer", ![s].bal = 0,
                       ![s].amt = Residue(split.to_cycles, call[s].spawn_fee),
                       ![s].rest = Decompose(Byte[d])[split.claim]]
                 /\ UNCHANGED locks
  IN /\ At(s, "seal_compute")
     /\ pool_claims' = pool_claims + split.claim
     /\ \/ /\ Covers(sub[d], share) /\ NoFault
           /\ sub' = [sub EXCEPT ![d] = After(@, share)]
           /\ fee_buf' = fee_buf + share
           /\ Proceed
        \/ /\ ~Covers(sub[d], share) /\ NoFault
           /\ Proceed /\ UNCHANGED <<sub, fee_buf>>
        \/ /\ Fault("err")
           /\ Proceed /\ UNCHANGED <<sub, fee_buf>>
        \/ /\ Fault("reject")
           /\ ReturnUnlocked(s) /\ UNCHANGED <<sub, fee_buf>>
     /\ UNCHANGED <<deposits, serviceVars, mixer, bob, alice, clientVars>>

\* One transfer of the claim to the mixer; the first that fails ends the call.
SealTransfer(s) ==
  LET d == call[s].id
      part == Head(call[s].rest)
  IN /\ At(s, "seal_transfer") /\ call[s].rest # <<>>
     /\ \/ /\ Covers(sub[d], part) /\ NoFault
           /\ sub' = [sub EXCEPT ![d] = After(@, part)]
           /\ mixer' = mixer + part
           /\ call' = [call EXCEPT ![s].rest = Tail(@)]
           /\ UNCHANGED locks
        \/ /\ ~Covers(sub[d], part) /\ NoFault
           /\ ReturnUnlocked(s) /\ UNCHANGED <<sub, mixer>>
        \/ /\ Fault("err")
           /\ ReturnUnlocked(s) /\ UNCHANGED <<sub, mixer>>
     /\ UNCHANGED <<deposits, pool_claims, serviceVars, fee_buf, bob, alice,
                    clientVars>>

\* The residue goes to cycles, if there is one, whatever the outcome.
SealConvert(s) ==
  LET d == call[s].id
  IN /\ At(s, "seal_transfer") /\ call[s].rest = <<>> /\ call[s].amt > 0
     /\ \/ /\ Covers(sub[d], call[s].amt) /\ NoFault
           /\ sub' = [sub EXCEPT ![d] = After(@, call[s].amt)]
        \/ ~Covers(sub[d], call[s].amt) /\ NoFault /\ UNCHANGED sub
        \/ Fault("err") /\ UNCHANGED sub
     /\ call' = [call EXCEPT ![s].amt = 0]
     /\ UNCHANGED <<routerVars, mixer, fee_buf, bob, alice, clientVars>>

SealCommit(s) ==
  /\ At(s, "seal_transfer") /\ call[s].rest = <<>> /\ call[s].amt = 0
  /\ deposits' = [deposits EXCEPT ![call[s].id] =
                    [NoDeposit EXCEPT !.state = "sealed",
                                      !.spawn_fee = call[s].spawn_fee]]
  /\ seal_count' = (seal_count + 1) % RECYCLE_INTERVAL
  /\ call' = [call EXCEPT
                ![s].pc = IF seal_count' = 0 /\ call[s].rate > 0
                          THEN "recycle_read" ELSE "leftover",
                ![s].spawn_fee = 0]
  /\ UNCHANGED <<locks, pool_claims, paused, secret, initializing, issued,
                 ledgerVars, clientVars, faults>>

\* try ... catch: a rejected call before or at the transfers, in the recycling
\* or at the fee buffer releases the lock; the claim stays recorded.
SealReject(s) ==
  /\ \/ call[s].pc \in {"seal_balance", "seal_rate", "recycle_read",
                        "recycle_burn", "buffer_read", "buffer_pay"}
     \/ At(s, "seal_transfer") /\ (call[s].rest # <<>> \/ call[s].amt > 0)
  /\ Fault("reject")
  /\ ReturnUnlocked(s)
  /\ UNCHANGED <<deposits, pool_claims, serviceVars, ledgerVars, clientVars>>

-----------------------------------------------------------------------------
(* seal_push, maintenance after the deposit is sealed *)

\* maybeRecycleToRouter, when the Router is below its cycles target or not.
RecycleRead(s) ==
  /\ At(s, "recycle_read")
  /\ \/ Goto(s, "leftover")
     \/ /\ Shortfalls # {}
        /\ call' = [call EXCEPT ![s].pc = "recycle_wedge", ![s].bal = mixer]
  /\ UNCHANGED <<routerVars, ledgerVars, clientVars, faults>>

\* Mutant: the claims are not spared.
WedgeSparesNothing(s) ==
  /\ At(s, "recycle_wedge")
  /\ \E shortfall \in Shortfalls :
       call' = [call EXCEPT ![s].pc = "recycle_burn", ![s].bal = 0,
                            ![s].amt = Lesser(shortfall, call[s].bal)]
  /\ UNCHANGED <<routerVars, ledgerVars, clientVars, faults>>

RecycleWedge(s) ==
  /\ At(s, "recycle_wedge")
  /\ \E shortfall \in Shortfalls :
       LET recycle == Lesser(shortfall, Monus(call[s].bal, pool_claims))
       IN  call' = [call EXCEPT
                     ![s].pc = IF recycle = 0 THEN "leftover"
                               ELSE "recycle_burn",
                     ![s].bal = 0,
                     ![s].amt = recycle]
  /\ UNCHANGED <<routerVars, ledgerVars, clientVars, faults>>

RecycleBurn(s) ==
  /\ At(s, "recycle_burn")
  /\ \/ /\ Covers(mixer, call[s].amt) /\ NoFault
        /\ mixer' = After(mixer, call[s].amt)
     \/ ~Covers(mixer, call[s].amt) /\ NoFault /\ UNCHANGED mixer
     \/ Fault("err") /\ UNCHANGED mixer
  /\ call' = [call EXCEPT ![s].pc = "leftover", ![s].amt = 0]
  /\ UNCHANGED <<routerVars, sub, fee_buf, bob, alice, clientVars>>

\* sweepLeftoverToTreasury: only this call draws on the deposit's account.
SweepLeftover(s) ==
  LET d == call[s].id
  IN \/ /\ sub[d] > LEDGER_FEE /\ NoFault
        /\ sub' = [sub EXCEPT ![d] = 0]
     \/ sub[d] <= LEDGER_FEE /\ NoFault /\ UNCHANGED sub
     \/ (Fault("err") \/ Fault("reject")) /\ UNCHANGED sub

SealLeftover(s) ==
  /\ At(s, "leftover")
  /\ SweepLeftover(s)
  /\ Goto(s, "sweep_read")
  /\ UNCHANGED <<routerVars, mixer, fee_buf, bob, alice, clientVars>>

\* sweepPoolExcess reads the balance first and the claims when it has it.
SweepRead(s) ==
  /\ At(s, "sweep_read")
  /\ call' = [call EXCEPT ![s].pc = "sweep_compute", ![s].bal = mixer]
  /\ UNCHANGED <<routerVars, ledgerVars, clientVars, faults>>

SweepCompute(s) ==
  LET excess == Monus(call[s].bal, pool_claims + POOL_SWEEP_THRESHOLD)
  IN /\ At(s, "sweep_compute")
     /\ call' = [call EXCEPT ![s].pc = "sweep_pay", ![s].bal = 0,
                             ![s].amt = Monus(excess, LEDGER_FEE)]
     /\ UNCHANGED <<routerVars, ledgerVars, clientVars, faults>>

SweepPay(s) ==
  /\ At(s, "sweep_pay")
  /\ \/ /\ call[s].amt > 0 /\ Covers(mixer, call[s].amt) /\ NoFault
        /\ mixer' = After(mixer, call[s].amt)
     \/ /\ ~(call[s].amt > 0 /\ Covers(mixer, call[s].amt)) /\ NoFault
        /\ UNCHANGED mixer
     \/ /\ call[s].amt > 0 /\ (Fault("err") \/ Fault("reject"))
        /\ UNCHANGED mixer
  /\ IF call[s].id = None THEN Return(s) /\ UNCHANGED locks
     ELSE IF seal_count = 0
     THEN /\ call' = [call EXCEPT ![s].pc = "buffer_read", ![s].amt = 0]
          /\ UNCHANGED locks
     ELSE ReturnUnlocked(s)
  /\ UNCHANGED <<deposits, pool_claims, serviceVars, sub, fee_buf, bob, alice,
                 clientVars>>

\* 80% of the fee buffer above its reserve goes back to the pool, in whole ICP.
BufferRead(s) ==
  /\ At(s, "buffer_read")
  /\ call' = [call EXCEPT ![s].pc = "buffer_pay", ![s].bal = fee_buf]
  /\ UNCHANGED <<routerVars, ledgerVars, clientVars, faults>>

BufferPay(s) ==
  LET bal == call[s].bal
      share == (Monus(bal, BUFFER_RESERVE) * 80) \div 100
      whole == IF bal > BUFFER_RESERVE + LEDGER_FEE
               THEN (share \div E8S_PER_ICP) * E8S_PER_ICP ELSE 0
  IN /\ At(s, "buffer_pay")
     /\ \/ /\ whole > 0 /\ Covers(fee_buf, whole) /\ NoFault
           /\ fee_buf' = After(fee_buf, whole)
           /\ mixer' = mixer + whole
        \/ /\ ~(whole > 0 /\ Covers(fee_buf, whole)) /\ NoFault
           /\ UNCHANGED <<fee_buf, mixer>>
        \/ whole > 0 /\ Fault("err") /\ UNCHANGED <<fee_buf, mixer>>
     /\ ReturnUnlocked(s)
     /\ UNCHANGED <<deposits, pool_claims, serviceVars, sub, bob, alice,
                    clientVars>>
-----------------------------------------------------------------------------
(* finalize: called by the deposit's I2, with the amount Alice sealed *)

\* Mutant: a deposit that is only created will do.
FinalizeUnsealed(s, d) ==
  /\ Called(s) /\ ~paused /\ d \notin locks
  /\ deposits[d].state \in {"created", "sealed"} /\ d \notin expired
  /\ locks' = locks \cup {d}
  /\ call' = [call EXCEPT ![s].pc = "fin_preload", ![s].id = d]
  /\ UNCHANGED <<deposits, pool_claims, serviceVars, ledgerVars, quoteVars,
                 faults>>

FinalizeCall(s, d) ==
  /\ Called(s) /\ ~paused /\ d \notin locks
  /\ deposits[d].state = "sealed" /\ d \notin expired
  /\ locks' = locks \cup {d}
  /\ call' = [call EXCEPT ![s].pc = "fin_preload", ![s].id = d]
  /\ UNCHANGED <<deposits, pool_claims, serviceVars, ledgerVars, quoteVars,
                 faults>>

\* A transfer of amt from the fee buffer to the mixer, as part of a finalize:
\* without it the call gives up, and nothing before it is undone.
FromBuffer(s, amt, next) ==
  \/ /\ Covers(fee_buf, amt) /\ NoFault
     /\ fee_buf' = After(fee_buf, amt)
     /\ mixer' = mixer + amt
     /\ Goto(s, next) /\ UNCHANGED locks
  \/ /\ ~Covers(fee_buf, amt) /\ NoFault
     /\ ReturnUnlocked(s) /\ UNCHANGED <<fee_buf, mixer>>
  \/ /\ Fault("err")
     /\ ReturnUnlocked(s) /\ UNCHANGED <<fee_buf, mixer>>

FinalizePreload(s) ==
  /\ At(s, "fin_preload")
  /\ FromBuffer(s, LEDGER_FEE, "fin_balance")
  /\ UNCHANGED <<deposits, pool_claims, serviceVars, sub, bob, alice,
                 clientVars>>

\* A balance of the mixer, read for the top-up and again by pay_from_sub.
ReadMixer(s, pc, next) ==
  /\ At(s, pc)
  /\ call' = [call EXCEPT ![s].pc = next, ![s].bal = mixer]
  /\ UNCHANGED <<routerVars, ledgerVars, clientVars, faults>>

FinalizeBalance(s) == ReadMixer(s, "fin_balance", "fin_topup")
FinalizeEnsure(s) == ReadMixer(s, "fin_ensure", "fin_deficit")

\* Mutant: the fee of the payment is forgotten.
TopUpFeeless(s, next) ==
  LET need == Amount[call[s].id]
  IN \/ /\ call[s].bal >= need /\ NoFault
        /\ Goto(s, next)
        /\ UNCHANGED <<locks, mixer, fee_buf>>
     \/ /\ call[s].bal < need
        /\ FromBuffer(s, need - call[s].bal, next)

\* Top the mixer up to amount + fee if the balance read falls short of it.  The
\* buffer's balance, which the code reads in a call before the transfer, is read in
\* the same step.  It matters only if the buffer crosses the amount in between: a
\* reading that was too high ends in a refused transfer, as here; one that was too
\* low ends a finalization that goes on here.
TopUp(s, next) ==
  LET need == Amount[call[s].id] + LEDGER_FEE
  IN \/ /\ call[s].bal >= need /\ NoFault
        /\ Goto(s, next)
        /\ UNCHANGED <<locks, mixer, fee_buf>>
     \/ /\ call[s].bal < need
        /\ FromBuffer(s, need - call[s].bal, next)

FinalizeTopUp(s) ==
  /\ At(s, "fin_topup")
  /\ TopUp(s, "fin_ensure")
  /\ UNCHANGED <<deposits, pool_claims, serviceVars, sub, bob, alice,
                 clientVars>>

FinalizeDeficit(s) ==
  /\ At(s, "fin_deficit")
  /\ TopUp(s, "fin_transfer")
  /\ UNCHANGED <<deposits, pool_claims, serviceVars, sub, bob, alice,
                 clientVars>>

\* The payment itself.  The Router pays the amount I2 names, which it does not
\* check: I2 has read it in the package, where Alice's page has put what it sealed.
FinalizeTransfer(s) ==
  LET d == call[s].id
  IN /\ At(s, "fin_transfer")
     /\ \/ /\ Covers(mixer, Amount[d]) /\ NoFault
           /\ mixer' = After(mixer, Amount[d])
           /\ bob' = [bob EXCEPT ![d] = @ + Amount[d]]
           /\ Goto(s, "fin_commit") /\ UNCHANGED locks
        \/ /\ ~Covers(mixer, Amount[d]) /\ NoFault
           /\ ReturnUnlocked(s) /\ UNCHANGED <<mixer, bob>>
        \/ /\ Fault("err")
           /\ ReturnUnlocked(s) /\ UNCHANGED <<mixer, bob>>
     /\ UNCHANGED <<deposits, pool_claims, serviceVars, sub, fee_buf, alice,
                    clientVars>>

\* Mutant: the lock stays.
CommitLeavesLock(s) ==
  LET d == call[s].id
  IN /\ At(s, "fin_commit") /\ Return(s)
     /\ pool_claims' = Monus(pool_claims, Amount[d])
     /\ deposits' = [deposits EXCEPT ![d] = NoDeposit]
     /\ UNCHANGED <<locks, serviceVars, ledgerVars, clientVars, faults>>

\* Mutant: the deposit stays.
CommitKeepsDeposit(s) ==
  /\ At(s, "fin_commit") /\ ReturnUnlocked(s)
  /\ pool_claims' = Monus(pool_claims, Amount[call[s].id])
  /\ UNCHANGED <<deposits, serviceVars, ledgerVars, clientVars, faults>>

\* Mutant: the claims are reduced by the fee too.
CommitCountsFee(s) ==
  LET d == call[s].id
  IN /\ At(s, "fin_commit") /\ ReturnUnlocked(s)
     /\ pool_claims' = Monus(pool_claims, Amount[d] + LEDGER_FEE)
     /\ deposits' = [deposits EXCEPT ![d] = NoDeposit]
     /\ UNCHANGED <<serviceVars, ledgerVars, clientVars, faults>>

\* The reply: unlock, reduce the claims by the amount paid, forget the deposit.
FinalizeCommit(s) ==
  LET d == call[s].id
  IN /\ At(s, "fin_commit")
     /\ ReturnUnlocked(s)
     /\ pool_claims' = Monus(pool_claims, Amount[d])
     /\ deposits' = [deposits EXCEPT ![d] = NoDeposit]
     /\ UNCHANGED <<serviceVars, ledgerVars, clientVars, faults>>

\* Only pay_from_sub is inside try ... catch; elsewhere the lock stays held.
FinalizeReject(s) ==
  /\ \/ /\ call[s].pc \in {"fin_preload", "fin_balance", "fin_topup"}
        /\ Return(s) /\ UNCHANGED locks
     \/ /\ call[s].pc \in {"fin_ensure", "fin_deficit", "fin_transfer"}
        /\ ReturnUnlocked(s)
  /\ Fault("reject")
  /\ UNCHANGED <<deposits, pool_claims, serviceVars, ledgerVars, clientVars>>

-----------------------------------------------------------------------------
(* reclaim: the payer takes back a deposit that was never sealed *)

\* Mutant: a seal in flight is not looked at.
ReclaimUnlocked(s, d) ==
  /\ Called(s) /\ ~paused
  /\ deposits[d].state = "created" /\ d \in expired
  /\ locks' = locks \cup {d}
  /\ call' = [call EXCEPT ![s].pc = "reclaim_balance", ![s].id = d]
  /\ UNCHANGED <<deposits, pool_claims, serviceVars, ledgerVars, quoteVars,
                 faults>>

ReclaimCall(s, d) ==
  /\ Called(s) /\ ~paused /\ d \notin locks
  /\ deposits[d].state = "created" /\ d \in expired
  /\ locks' = locks \cup {d}
  /\ call' = [call EXCEPT ![s].pc = "reclaim_balance", ![s].id = d]
  /\ UNCHANGED <<deposits, pool_claims, serviceVars, ledgerVars, quoteVars,
                 faults>>

ReclaimBalance(s) ==
  /\ At(s, "reclaim_balance")
  /\ call' = [call EXCEPT ![s].pc = "reclaim_transfer",
                          ![s].bal = sub[call[s].id]]
  /\ UNCHANGED <<routerVars, ledgerVars, clientVars, faults>>

ReclaimTransfer(s) ==
  LET d == call[s].id
      refund == Monus(call[s].bal, LEDGER_FEE)
  IN /\ At(s, "reclaim_transfer")
     /\ \/ /\ refund > 0 /\ Covers(sub[d], refund) /\ NoFault
           /\ sub' = [sub EXCEPT ![d] = After(@, refund)]
           /\ alice' = [alice EXCEPT ![d] = @ + refund]
           /\ Goto(s, "reclaim_commit") /\ UNCHANGED locks
        \/ /\ ~(refund > 0 /\ Covers(sub[d], refund)) /\ NoFault
           /\ ReturnUnlocked(s) /\ UNCHANGED <<sub, alice>>
        \/ /\ Fault("err") \/ Fault("reject")
           /\ ReturnUnlocked(s) /\ UNCHANGED <<sub, alice>>
     /\ UNCHANGED <<deposits, pool_claims, serviceVars, mixer, fee_buf, bob,
                    clientVars>>

ReclaimCommit(s) ==
  LET d == call[s].id
  IN /\ At(s, "reclaim_commit")
     /\ deposits' = [deposits EXCEPT ![d] = NoDeposit]
     /\ locks' = locks \ {d}
     /\ call' = [call EXCEPT ![s].pc = "reclaim_leftover", ![s].bal = 0]
     /\ UNCHANGED <<pool_claims, serviceVars, ledgerVars, clientVars, faults>>

ReclaimLeftover(s) ==
  /\ At(s, "reclaim_leftover")
  /\ SweepLeftover(s)
  /\ Return(s)
  /\ UNCHANGED <<routerVars, mixer, fee_buf, bob, alice, clientVars>>

-----------------------------------------------------------------------------
(* Administration *)

SetPaused ==
  /\ "pause" \in Operations
  /\ paused' = ~paused
  /\ UNCHANGED <<deposits, locks, pool_claims, seal_count, secret,
                 initializing, issued, ledgerVars, clientVars, call, faults>>

AdminSweepPool(s) ==
  /\ "sweep_pool" \in Operations
  /\ Called(s)
  /\ Goto(s, "sweep_read")
  /\ UNCHANGED <<routerVars, ledgerVars, quoteVars, faults>>

AdminClearLock(d) ==
  /\ "clear_lock" \in Operations
  /\ d \in locks
  /\ locks' = locks \ {d}
  /\ UNCHANGED <<deposits, pool_claims, serviceVars, ledgerVars, clientVars,
                 call, faults>>

\* The amount of a record is the 0 deposit_alloc put there.
AdminClearDeposit(d) ==
  /\ "clear_deposit" \in Operations
  /\ deposits[d].state = "sealed" /\ d \in expired
  /\ pool_claims' = Monus(pool_claims, deposits[d].amount)
  /\ deposits' = [deposits EXCEPT ![d] = NoDeposit]
  /\ UNCHANGED <<locks, serviceVars, ledgerVars, clientVars, call, faults>>

\* An upgrade of the stopped canister keeps everything but the transient maps.
Upgrade ==
  /\ "upgrade" \in Operations
  /\ \A s \in Slots : At(s, "idle")
  /\ deposits' = [d \in Deposits |-> NoDeposit]
  /\ locks' = {}
  /\ UNCHANGED <<pool_claims, serviceVars, ledgerVars, clientVars, call,
                 faults>>

-----------------------------------------------------------------------------
Start(s) ==
  \/ AllocCall(s)
  \/ AdminSweepPool(s)
  \/ \E d \in Deposits : \/ PrepareCall(s, d)
                         \/ SealCall(s, d)
                         \/ FinalizeCall(s, d)
                         \/ ReclaimCall(s, d)

AllocStep(s) == AllocSecret(s) \/ AllocCheck(s) \/ AllocRate(s)

PrepareStep(s) ==
  \/ PrepareSecret(s) \/ PrepareCheck(s) \/ PrepareBalance(s)
  \/ PrepareRate(s) \/ PrepareConvert(s) \/ PrepareNotify(s)
  \/ PrepareSpawn(s) \/ PrepareTopUps(s) \/ PrepareReject(s)

SealStep(s) ==
  \/ SealBalance(s) \/ SealRate(s) \/ SealCompute(s) \/ SealTransfer(s)
  \/ SealConvert(s) \/ SealCommit(s) \/ SealReject(s)

MaintenanceStep(s) ==
  \/ RecycleRead(s) \/ RecycleWedge(s) \/ RecycleBurn(s)
  \/ SealLeftover(s) \/ SweepRead(s) \/ SweepCompute(s) \/ SweepPay(s)
  \/ BufferRead(s) \/ BufferPay(s)

FinalizeStep(s) ==
  \/ FinalizePreload(s) \/ FinalizeBalance(s) \/ FinalizeTopUp(s)
  \/ FinalizeEnsure(s) \/ FinalizeDeficit(s) \/ FinalizeTransfer(s)
  \/ FinalizeCommit(s) \/ FinalizeReject(s)

ReclaimStep(s) ==
  \/ ReclaimBalance(s) \/ ReclaimTransfer(s) \/ ReclaimCommit(s)
  \/ ReclaimLeftover(s)

\* A call in flight goes on, to its next await or to its end.
Continue(s) ==
  \/ AllocStep(s) \/ PrepareStep(s) \/ SealStep(s)
  \/ MaintenanceStep(s) \/ FinalizeStep(s) \/ ReclaimStep(s)

Environment ==
  \/ SetPaused
  \/ Upgrade
  \/ \E d \in Deposits :
       Fund(d) \/ Expire(d) \/ AdminClearLock(d) \/ AdminClearDeposit(d)

Next == Environment \/ \E s \in Slots : Start(s) \/ Continue(s)

Spec == Init /\ [][Next]_vars

\* The platform answers every call, so a call in flight always goes on.
FairSpec == Spec /\ \A s \in Slots : WF_vars(Continue(s))
=============================================================================
