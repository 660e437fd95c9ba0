# A verification of the ICPP canisters

ICPP moves ICP from Alice to Bob so that an observer of the ledger cannot link the two
payments. Alice funds a *deposit*, the Router moves her amount in standard
denominations into a shared pool (the *mixer*), and Bob later claims it through
canisters that exist for this one deposit only. This directory holds TLA+ models of
that program, what TLC checks about them on small instances, and theorems that TLAPS
proves for every instance.

## 1. The system

| component | source | state | operations |
|---|---|---|---|
| Router | `src/motoko/router/Router.mo` | deposits, locks, `pool_claims`, `seal_count`, `paused`, the secret, an event log with a certified hash, a rate limiter, a cached CMC rate; on the ledger: one subaccount per deposit, the mixer, the fee buffer | `deposit_alloc`, `deposit_prepare`, `seal_push`, `finalize`, `reclaim`, administration |
| Factory | `src/motoko/factory/Factory.mo` | configuration, cycles spent, events | `spawn_triplet` (create, install, initialise and blackhole I1, I2, Witness and the Storages), `cleanup_child` |
| I1 | `src/motoko/i1/I1.mo` | its peers, a flag | `prepare_deposit`, `store_and_announce`, self-destruction |
| Storage | `src/motoko/storage/Storage.mo` | the sealed package, the CSRN (a one-time random value), one-shot flags | `init_csrn`, `store`, `retrieve`, `fetch_csrn`, `request_destruct` |
| Witness | `src/motoko/witness/Witness.mo` | a log of events and of destructions | `log_*`, `is_destroyed`, automatic finalization at the Noticeboard, `request_destruct` |
| I2 | `src/motoko/i2/I2.mo` | jobs, the job of each deposit, a destruction time | `finalize_start`, `process_job`, `reset_job`, heartbeat, self-destruction |
| Noticeboard | `src/motoko/noticeboard/Noticeboard.mo` | announcements, dummies among them, finalizations | `announce`, `consume`, `finalize`, churn, `prune`, queries |
| Registry | `src/motoko/registry/Registry.mo` | profiles by owner | `register`, lookups |
| Ledger | `src/motoko/ledger/Ledger.mo` | balances, allowances | ICRC transfers and approvals (a local stand-in for the ICP ledger) |
| Crypto | `src/crypto/src/canister.rs` and the numeric code beside it | parameters, create, decrypt and verify sessions, caches | stepwise sessions, lazy initialisation |
| Web client: flows | `src/icpp-ui/src/methods/flows.ts` | one recovery record each for sending and claiming, in the browser's storage | `sendShielded`, `claimDeposit`, `listAnnouncements` |
| Web client: session and screens | `src/icpp-ui/src/main.ts`, `methods/canisters.ts`, `methods/nk.ts` | cached actors and their delegation, the gate, a counter of operations, the flags and lists of the screens | setup, send, scan, claim, withdraw, logout, timers |

### How they interact

    Alice's client                      Router                    Factory
      deposit_alloc ------------------->  id, quote
      transfer to the deposit account     (ledger)
      deposit_prepare ----------------->  ICP -> cycles ---------> spawn_triplet
      seal_push ----------------------->  deposit -> mixer, fee buffer, cycles
      I1.prepare_deposit -> Storage.init_csrn (-> Crypto)
      Crypto.create_*
      I1.store_and_announce -> Storage.store (-> Witness), Noticeboard.announce,
                               Witness, I1 self-destructs
    Bob's client
      Noticeboard, I2.finalize_start -> Storage.fetch_csrn / retrieve, Crypto,
                               Router.finalize (mixer -> Bob), Noticeboard.consume,
                               I2, Storage and Witness self-destruct

Canisters share nothing; they call each other asynchronously. A canister runs a
message up to its next `await` without interruption, and its state is committed there:
any other message may run before the answer comes. A call may also be *rejected*,
which raises an exception at the `await`; if nothing catches it, the message ends, and
what it did before its last `await` stays done. A lock put into a map before that
`await` stays in the map.

### What is hard

* **Interleaving.** Every guard on a deposit's state is evaluated before the first
  `await` of an operation and acted on after the last: only `locks` keeps two
  operations on one deposit apart. The mixer and the fee buffer have no lock at all;
  every operation on any deposit draws on them.
* **Partial failure.** A seal is up to eight ledger transfers in a row, finalize up to
  four. Any of them may answer an error or be rejected, and none is undone.
* **Bookkeeping next to money.** `pool_claims` is what the Router believes it owes. It
  is raised before the money moves and lowered after, by values that three operations
  compute from three different balances and rates.
* **Numbers.** Bob's claim is reconstructed at the seal from the balance, the spawn
  fee and a fresh exchange rate, and rounded to whole ICP.
* **Restart.** Upgrades keep `pool_claims` and drop `deposits` and `locks`. A web page
  is closed or reloaded at any moment, and what it has asked for goes on without it;
  only the recovery record tells the next page.
* **One-shot services.** Storage answers `fetch_csrn` and `retrieve` once, so that
  what a failed job has fetched nobody can fetch again.
* **The order of the end.** Each of a deposit's canisters must be told to destroy
  itself by one that still exists, and the Witness must have seen them all go.
* **Handlers of one page.** JavaScript runs one at a time, but between two awaits of
  one handler another click, a timer or an event runs, and may reset the session.

`PROJECT.json` lists these hazards at their lines, with the properties that would
catch each of them going wrong, or a note why none does.

### What makes each component correct

* Router: one operation per deposit at a time; locks are given back; Bob is paid once
  and in full, and never from a deposit that was refunded; `pool_claims` never
  understates the debt; the mixer covers it; the fee buffer covers the preloads; the
  split adds up.
* Factory: a failed spawn leaves nothing but what can no longer be deleted.
* I1 and Storage: all Storages of a deposit hold the same package, made with the CSRN
  that was drawn, and only such a deposit is announced.
* I2: one job at most pays; what it reports has happened; a claim ends.
* Witness and the self-destructions: every canister is destroyed in the end, each told
  by one that is still there, and the record at the Noticeboard is complete.
* Noticeboard: dummies, churn and pruning never touch or hide a real announcement.
* Flows: a page that is closed at any point neither pays twice nor gets stuck; the
  record is never ahead of the canisters.
* Session: actors are not rebuilt under an operation; the gate is never left shut.

## 2. The modules

| module | what it is |
|---|---|
| `Decomposition` | `decomposeCascading` as recursion-free functions over naturals |
| `SealAmounts` | the arithmetic of quote, prepare and seal |
| `Router` | deposits, locks, claims and the ledger accounts, from await to await |
| `Escrow` | abstract specification: what the Router promises about a deposit |
| `RouterProperties` | types, invariants and liveness of `Router`, its refinement of `Escrow` |
| `Ingress` | what the sending client calls: `Escrow` for the Router, the ledger transfer, and one I1 with its Storages and Witness per deposit |
| `SendFlow` | `sendShielded`, its recovery record and its pages, composed with `Ingress` |
| `Egress` | what the claiming client calls: I2's jobs, `Escrow` and the Storages |
| `ClaimFlow` | `claimDeposit`, its recovery record and its pages, composed with `Egress` |
| `Children` | a deposit's canisters as canisters: spawned, rolled back, given up, deleted |
| `Lists` | the filter of a list, as a recursive function |
| `Board` | abstract specification: the list of pending deposits and who has read it |
| `Noticeboard` | announcements, dummies, churn and pruning, as operators on the list |
| `Receive` | the Receive screen's scans, claims and lists, composed with `Noticeboard` |
| `Session` | the actors, the gate, the counter of operations, timers and clicks of a page |
| `MCRouter`, `MCAmounts`, `MCSend`, `MCClaim`, `MCChildren`, `MCReceive`, `MCSession` | instances for TLC |
| `AmountsProofs` | theorems about `SealAmounts` and `Decomposition` |
| `RouterSafety`, `RouterClaims` | theorems about the Router: types, locks, payments and the refinement of `Escrow`; claims, the mixer and the fee buffer |
| `SendProofs`, `ClaimProofs`, `ChildrenProofs`, `ReceiveProofs`, `SessionProofs` | theorems about the module of that name |

`Router` extends `SealAmounts`, which extends `Decomposition`; `RouterProperties`
extends `Router` and instantiates `Escrow`. `Ingress` and `Egress` instantiate
`Escrow` too, with variables of their own for its three: what the Router does inside
is not repeated there, and the theorem `RouterImplementsEscrow` is what allows it.
`SendFlow` extends `Ingress`, `ClaimFlow` extends `Egress`, `Receive` extends
`Noticeboard` and instantiates `Board`. No module declares a RECURSIVE operator, so
that all of them can be proved about.

### What may still be added

Proofs: `SealAffordable`, from bounds on the drift of the rates and on the Router's
share of the cycles.

### From the code to `Router`

A call in flight occupies a slot of `call`. Its program counter names the await it is
suspended at, its other fields are the local variables that live across awaits: the
balance it read (`bal`), what it is about to move (`amt`), the `rate`, the `spawn_fee`
of the record it read at the start, and the transfers still to make (`rest`). Every
action is the code from one await to the next.

* A request sent to the ledger directly takes effect with the segment that sends it;
  requests between two canisters are delivered in order. Reads through the Router's
  own asynchronous helpers (`balance_of`, `get_cmc_rate`, `sweepPoolExcess` ...) are
  messages of the Router to itself, and other calls run before them: they are steps of
  their own.
* `ledger_fee()` answers a constant and is not a step.
* The four top-ups of `deposit_prepare` are each inside `try ... catch` and change
  nothing modelled; the six awaits of its tail are one step.
* `deposits[d].state = "none"` means that `d` is not in the map. `recipient`, `bucket`
  and the canister ids of a record are left out. `amount` is kept although it is
  always 0: `admin_clear_deposit` reads it.
* Refused calls (not authorised, rate limited, wrong state, locked, paused) change
  nothing and are stuttering steps. Two refusals are actions, because they follow an
  await: `AllocCheck` and `PrepareCheck`.
* Faults: `"err"` is an error answer of the ledger, of the CMC or of the Factory;
  `"reject"` a rejected call. `PrepareReject`, `SealReject` and `FinalizeReject` say
  which awaits a `try ... catch` covers.
* `Upgrade` happens when no call is in flight: a canister is stopped before it is
  upgraded. It resets the two transient maps.
* The environment: `Fund` is the client's transfer, once per quote, of the amount, the
  quoted spawn fee and five ledger fees; `Expire` is the clock.

The ledger is five variables: `sub`, `mixer`, `fee_buf`, and what Bob and Alice
received. Money that leaves for the treasury or the CMC leaves the model.

### The abstract specification

`Escrow` has a stage per deposit (none, allocated, created, sealed, closed) and what
was paid and refunded. Its steps pay once, in full, only a sealed deposit; refund
once, only a deposit that is not sealed; and close a deposit only when one of the two
has happened. `ImplementsEscrow` maps the Router to it: a deposit that is no longer in
the map is closed if somebody was paid, else it was never there. The Router's awaits,
locks, failed attempts and maintenance are stuttering steps.

### From the code to the other modules

* **A client's call** (`Ingress`, `Egress`) is three steps or more: the page makes it,
  the canister executes it, from await to await where other calls matter, and the page
  goes on with the answer. A page can be closed between any two of them; the call goes
  on. A page makes one call at a time.
* **Pages** are numbered and opened once each, one after the other or side by side: a
  reload is a closed page and a new one. A page has the key its records are encrypted
  with after its setup, and may lose it.
* **Mishaps** (`mishaps`, bounded by `MaxMishaps`) are what need not happen: a lost
  answer, a refused transfer, a rejected call, an expired record, a lost key, a page
  closed in the middle of an update call. Closing a page that waits in a pause or for
  a query is none. Liveness is stated for behaviours without mishaps, safety with
  them.
* **`SendFlow`**: `flow[p].pc` names the call or the pause `sendShielded` is at; the
  record has its four stages. The Router's lock is in `locks`: a call that finds it
  taken is answered `"busy"`, on which the client's retry loops depend.
* **`ClaimFlow`**: polling is counted in quarters of an hour, the unit
  `resetThreshold` and `maxAttempts` are multiples of, with any number of polls in
  each. A job goes on by itself; `reset_job` and a second `finalize_start` forget it
  without stopping it.
* **`Children`**: `status` and `controllers` are the management canister's; `intents`,
  `report` and `expected` the Witness's lists; `run` the runs of I2's `self_destruct`,
  which its heartbeat may start while another waits. A rollback deletes in the code's
  order and goes on after a deletion that fails. `prepare_deposit` and the jobs appear
  only as what makes I1 and I2 leave.
* In `Children` I1 leaves in two steps: its reports to the Witness, which may be
  rejected and then are not made up for, and its self-destruction.
* **`Noticeboard`** has operators, not actions: an operation runs in one message.
  `do_churn` removes and adds dummies and moves them to the places the entropy names;
  the model takes any.
* **`Receive`**: a scan has its PIN verified, during which another scan or a claim may
  begin, then sends its query; the Noticeboard answers at some later moment, and the
  page filters by what it knows then: `sentIds`, what was claimed, what failed for good.
  `Reset` is the session's. An answer may arrive after a reset. `announced` counts a
  deposit's announcements: the first names its Storages, later ones none, because I1 has
  emptied its list by then. `lost` are the deposits whose I2 can never pay them: a job
  failed after Storage had served it, or the I2 is gone.
* **`Session`**: a task is one run of a click handler, with the pc of the await it is
  at. `level` is the delegation's remaining time in the four ranges the code tells
  apart; it only goes down. What has no await inside is finished before another event:
  the conjunct `Quiet`. Timers ask nobody: they test the counter and clear the actors,
  gate or no gate.

## 3. What is checked

In the Router's runs one unit is 10 000 e8s (the ledger fee) and cycles are counted in
millions, so that the real ratios between fee, ICP, spawn cost and rate are kept
within TLC's integers. In the flows' runs an amount is 1: nothing there computes with
it.

| run | instance | what it shows |
|---|---|---|
| `router` | 2 deposits of 2 ICP, 2 calls in flight, 8 calls, one error or rejection at any await, pausing, the secret still to be fetched | types, exclusive locks, claims exact until something failed, single payments that agree with the records, refinement of `Escrow` |
| `buffer` | 1 deposit of 1.55 ICP (rounded up; the rounding uses up the subsidy), 1 of 2.4 ICP (rounded down; brings the buffer a whole ICP to recycle), the low rate 250, 2 in flight, 9 calls, pausing, clearing of deposits, upgrades | the fee buffer holds two fees for each finalization to come; without error answers the claims fall short of the debt by what the rounding drops and no more, whatever records are forgotten |
| `maintenance` | 1 call in flight, recycling, pool sweeps, cleared locks, 2.5 ICP of liquidity, one error, fairness | the mixer covers what the sealed deposits owe; every lock has its call and is released; a finalization that has begun does not give up, and pays unless the ledger answered an error |
| `arithmetic` | every claim of 0..2000 ICP and around 2500, every first byte; 7 amounts, 25 subsidy percentages, rates within 2.7% | sum, denominations, count, no transfer shows the claim; the seal can pay for its transfers and reconstructs the claim |
| `send` | 1 order, 2 pages, 3 deposits, 2 Storages, 2 attempts per retry loop, 2 mishaps, fairness | the record is never ahead of the Router, the Storages agree; without mishaps no money is forgotten and the order ends |
| `claim` | 1 deposit, 2 pages, 2 jobs, 2 Storages, 2 mishaps, fairness | one payer, nothing reported that has not happened; without mishaps the claim is paid and reported |
| `session` | 3 tasks, fairness | the gate is exclusive and never left shut; the counter is exact; actors stay under an operation |
| `children` | 1 Storage, 2 runs of `self_destruct`, 2 reports, 1 mishap, fairness | what a failed spawn leaves, complete records, the order of the end, everything deleted |
| `receive` | 2 deposits, one of them the user's, announced up to twice, pool of 1 dummy, always churned, pages of 1, 1 scan, 2 claims, 1 reset, 1 mishap, fairness | dummies match the list, refinement of `Board`; a transfer among the first is paid, unless its I2 loses it |

Three runs end in a counterexample; each is a disagreement between the code and what
its comments say:

| run | property | what happens |
|---|---|---|
| `sweep_race` | `MixerCovers` | `sweepPoolExcess` reads the balance, a finalize pays and lowers `pool_claims`, and the old balance minus the new claims is swept: another deposit's money |
| `send_twice` | `FundedOnce` | the answer of the deposit transfer is lost, or the page is closed during it; the resumed order asks the Router, which still says Allocated, and transfers again |
| `failed_retry` | `FailedMayRetry` | a job fails after it has fetched the CSRN; a new job is allowed, and refused by Storage at its first step |

### What the modelling showed besides

These follow from the models with other constants, or from what a property has to
leave out, and are recorded here for whoever changes the code:

* an error answer to the unchecked transfer of the two prefunded fees leaves a sealed
  deposit that `BufferCovers` does not hold for; run `buffer` therefore has no faults;
* `convertToCycles` pays the CMC first and can answer an error afterwards
  (`notify_top_up`). `deposit_prepare` then unlocks and leaves the deposit Allocated;
  repeated, it converts a second time, and `seal_push`, which knows of one conversion
  only, computes the claim from what is left: with 8 ICP the claim is 5, Bob is owed
  8, and `CommitmentsCovered` fails. With the 2 ICP of run `router` there is not enough
  left for a second conversion;
* the recorded claim is the amount rounded to whole ICP, and so is what a seal moves
  to the mixer. Of 2.4 ICP, which the client accepts, it is 2: although nothing fails,
  the "total Bob commitments" that a sweep spares (`Router.mo:382`) and the mixer are
  0.4 ICP short of the debt while that is in the fee buffer, from which a finalization
  tops the mixer up, if the buffer has not been recycled. Of 2.6 ICP it is 3, and only
  2.6 are taken out of the claims. `CommitmentsExact` and `MixerCovers` are therefore
  about whole amounts, and `CommitmentsCovered` allows for what is dropped;
* `admin_clear_deposit` lowers the claims by the record's amount, which is always 0:
  `CommitmentsExact` fails and `CommitmentsCovered` holds;
* with two recyclings of the buffer at once `BufferCovers` fails as well: each moves
  the excess it has read;
* after its self-destruction I1 still answers `store_and_announce`, and with an empty
  list of Storages it announces the deposit once more and answers ok. If the deposit
  was paid before, that entry is pending for ever, and in `do_churn`, which counts
  entries that are no dummies, it takes the place of one;
* the answer of a PIN's verification is not followed by a second look at the flags:
  two scans, or a scan and a claim, may begin side by side;
* a session that is reset while a claim is going on lets the user start a second one
  beside it: only the one-shot reads of Storage, in `OnePayer`, keep it from paying;
* after an answer of I2 was lost, a deposit that was paid is offered with "Try Again";
* as many unclaimed announcements as a page holds (`Limit`) hide the later
  ones: `TransfersArrive` speaks of the first `Limit`;
* a deposit the user sent to himself is hidden from his Receive screen by `sentIds`;
* the protocol fee is paid again by a resumed order;
* a rollback in which a deletion fails leaves that canister, and a failure late in the
  spawn leaves those that have given up their controllers.

### The properties

* `LockDiscipline`: a call past its lock and before its unlock holds the lock of its
  deposit, and no other call does.
* `NoOrphanLock`: every lock has such a call.
* `CommitmentsCovered`: `pool_claims` understates the amounts of the sealed deposits
  by no more than the rounding has dropped from those sealed so far (`Dropped`: the
  fraction of an ICP, where it may be rounded down), as long as no error was answered;
  not at all with whole amounts. Without the allowance it is false of the code: run
  `buffer` reaches a sealed deposit of 2.4 ICP with claims of 2. `CommitmentsExact`:
  as long as nothing has failed the claims equal the amounts, with those of the seals
  that have just recorded theirs; for whole amounts.
* `MixerCovers`: the mixer holds the amounts of the sealed deposits not yet paid, to
  within the one fee that a finalization preloads; for whole amounts and calls that do
  not pay out at once. The slack is real: `maybeRecycleToRouter` converts the whole
  excess and pays the fee on top.
* `BufferCovers`: the fee buffer holds two fees for each sealed deposit that no
  finalization has preloaded yet.
* `NoDoublePayout`: Bob gets nothing or his amount, and nothing if Alice got her
  deposit back.
* `PaymentsMatchRecords`: record, payments and calls of a deposit agree. A created
  deposit was refunded only if a reclaim is about to forget it, a sealed one paid only
  if a finalization is; and what a call checked before its first await (the record's
  state, that nothing was paid) still holds at all the later ones.
* `FinalizationsGoThrough`: as long as nothing fails no finalization returns early, at
  its preload, its top-up or its payment, for want of money. As `MixerCovers`, it needs
  `SpendsApart`: no two calls are at once between the reading of a balance and a payment
  out of the mixer or the fee buffer. Nothing in the code sees to that; where they
  are, the race of run `sweep_race` takes what a finalization has already counted on.
* `LocksAreReleased`, `FinalizationPays`: under fairness of the calls in flight.
* `ExactDenominations`, `ClaimHidden`: of the decomposition; `SealAffordable`,
  `ClaimMatches`: of the amounts under moving rates.
* `RecordBehindRouter`: each stage the record names has been reached by the Router or
  the ledger, though two pages write it.
* `StoragesAgree`: two packages of one deposit were made with the same CSRN, and what
  is announced is sealed and stored everywhere: I2 asks for this quorum.
* `NothingForgotten`: without mishaps a deposit is funded once, and money in a deposit
  that is not announced is named by the record or a page.
* `OnePayer`: of all jobs of a deposit, forgotten ones included, one at most is past
  Storage.
* `ReportedIsPaid`: a job that is done, a claim that has returned and an I2 that is
  about to destroy itself imply that Bob was paid in full.
* `GateExclusive`, `OperationsHaveActors`, `ActorsStable`: one task in the gate; the
  counter is the number of operations in flight, and while it is positive the actors
  are there and the same.
* `FailedSpawnLeaves`, `RecordsComplete`, `LeaveInOrder`: of the canisters' end.
* `DummiesMatch`: the dummies' ids and the list's entries that are no deposit's
  correspond; these have no Storages and are never consumed. (An entry without Storages
  may be a deposit's second announcement.)
* `TransfersArrive`: a transfer for the user that is among the first pending ones is
  paid, or its I2 loses it (`lost`): a job that fails after `fetch_csrn`, as in run
  `failed_retry`, or an I2 that destroys itself between two attempts. Neither late
  answers, nor resets, nor what goes on on the list loses one.
* `OrderIsSent`, `ClaimPays`, `ClaimReported`, `ClicksEnd`, `ChildrenDestroyed`: what must eventually happen, under the fairness below.

Every property of a passing run has a mutant: a changed definition, beside the
original and marked `Mutant`, under which TLC finds the property violated.

### Bounds, and why they are enough

* **Two deposits, two calls in flight** (Router). A lock concerns one deposit; the
  shared accounts need a second deposit whose money can be taken. Races in this code
  are between two calls: one that read and one that acts in between.
* **Eight or nine calls** (`MaxCalls`) are two full lives of four calls each and one
  to spare for a retry. Calls refused at once cost nothing.
* **One fault** (`MaxFaults`) ends an operation; the failed attempt and its retry fit
  into the calls. The theorems about locks and payments have no bound.
* **`RECYCLE_INTERVAL` is 2** instead of 3, so that two seals reach the recycling.
* **Amounts** are 2 ICP (two or more transfers per seal), 1.55 ICP (the rounding
  borrows from the subsidy) and 2.4 ICP (the rounding drops a part). `arithmetic` covers 1 to 2000 ICP and both sides of the
  rounding.
* **Rates** move by at most 2.7% from quote to seal, in `arithmetic` only. The ten
  percent of margin in the quote is what makes larger movements affordable up to a
  point; within these the claim and the transfers come out right.
* **29 denominations** make first bytes above 28 repeat the choices of lower ones.
* **Two pages, one order, three deposits** (`send`): one page that forgets or races
  and one that resumes; the third deposit is there for an order that starts anew after
  a record that has expired, twice with two mishaps. Retry loops make 2 attempts
  instead of 5: one that is followed by another and one that is the last.
* **Two jobs, two quarters of an hour** (`claim`): a job and the one that replaces it;
  the code resets a job after one quarter and gives up after three. With two, the
  reset, the polls after it and the giving up all happen. A quarter that passes is a
  mishap.
* **Two Storages** in the flows, so that they can differ; one in `children`, where two
  were checked for safety with one report (3.9 million states) and showed nothing new.
* **Three tasks** (`session`): one in the gate, one in flight, one that comes.
* **Pages of 1, a pool of 1** (`receive`): the page is full, so that what is announced
  later has to wait, and the dummy is churned each time. A deposit is announced twice, so
  that the second entry may outlive the first. A claim, a reset and a second claim of the
  same deposit overlap the one scan. Two scans at once with single announcements (369 979
  states), and a pool of 2 of which one dummy stays, without liveness (159 088 states),
  were explored as well and showed no error; all of it together is beyond TLC's reach.

### Fairness

* Router: `FairSpec` is weakly fair for each call in flight: the platform answers
  every call in the end, with a result or a rejection, and runs the continuation.
  There is no fairness for clients, administrators, the clock or faults: nobody has to
  make a call, and liveness is stated for what a call has begun. `maintenance`
  excludes rejections, because with them locks are indeed lost, and has one call in
  flight: with two, the race of `sweep_race` can take the money of a payment. A
  payment is promised only if no error was answered: a failed one is not repeated by
  itself.
* Flows: canisters answer, pages and jobs go on, and the user opens a page, sets it up
  and presses the button until the order or claim is done. All of it weak: nothing but
  the step itself disables it for ever. Nobody has to close a page. `OrderIsSent`,
  `ClaimPays` and `ClaimReported` promise nothing after a mishap.
* Session: logins end, well or not, and operations return. Strong fairness is needed
  for `Quiet /\ Return(t)`: it is disabled again and again by the instants in which
  another task goes through the gate, and the event loop serves every waiting event.
  Nobody has to click; no timer has to fire.
* Children: calls are answered and a heartbeat comes every round. Nobody has to
  deposit or to claim: `ChildrenDestroyed` starts from the moment I1 reports or a job
  exists, and what I1 has begun with its report it ends.
* Receive: PINs are verified, queries and claims return, and of the claims of a deposit
  that go on one succeeds if it can: failures are mishaps, which run out, refusals of a
  lost or a paid deposit, or those of one claim beside another. Bob scans again and
  again and tries each transfer he is shown. His clicks are strongly fair, since a claim
  in progress disables the scan's button and the other way round. Other recipients have
  to do nothing. No fairness undoes a loss: `lost` is an outcome of its own.

CHECK_DEADLOCK is off in all runs but `session`: the bounded number of calls, pages or
claims is used up and the system rests.

## 4. What is proved

Assumptions on the constants are named in the module that declares them. For the
Router, `RouterAssumption`, `UnitAssumption`, `FeeAssumption` and `CyclesAssumption`:
amounts are positive, percentages and bytes in their ranges, rates positive;
`Deposits` and `Slots` are arbitrary sets, finite or not. For the session,
`SessionAssumption`: `Tasks` is any finite set that `NoTask` is not in; it must be
finite because the counter is compared with a cardinality.

* **`TypeCorrect`** (`RouterSafety`): `Spec => []TypeOK`. `TypeOK` says more than it
  seems: balances, claims and amounts are *naturals*, that is, no subtraction of the
  code traps; transfers still to make are naturals; and a call has its deposit
  everywhere but before allocation and in `admin_sweep_pool`. It is inductive. There
  is one lemma per action, with a step for each conjunct the action touches, on the
  lemmas about amounts of `AmountsProofs`.
* **`LocksExclude`** (`RouterSafety`): `Spec => []LockDiscipline`, unless locks may be
  cleared by hand, whatever fails. `LockDiscipline` alone is not inductive: a call
  could take the place of an idle one that still names a deposit. The inductive
  invariant `Exclusive` adds the types and that a free slot names no deposit. Most
  actions keep who holds what, or let one call stop: two lemmas cover them, and only
  the four that take a lock need an argument of their own. The hypothesis is
  necessary: with `admin_clear_lock` in `Operations` and two calls in flight TLC finds
  two finalizations of one deposit, and Bob paid twice.
* **`NoLockIsOrphaned`** (`RouterSafety`): `Spec => []NoOrphanLock`, when no call is
  rejected and the secret exists. Run `router` does not check it, as it fails there: a
  rejection in the two operations that do not catch it, or a trap for want of the
  secret, is exactly how a lock is lost. The invariant `Owned` adds the secret.
* **`RecordsMatch`** and **`BobIsPaidOnce`** (`RouterSafety`): `Spec =>
  []PaymentsMatchRecords` and `Spec => []NoDoublePayout`, unless locks may be cleared
  by hand. `NoDoublePayout` says nothing of what a call in flight is about to do, so
  it is not inductive; `PaymentsMatchRecords` says what a call at each await knows of
  its deposit, and needs `Exclusive` to know that no other call works on it. The proof
  goes through an abstract step, `PayStep`: every step of a call goes on, begins to
  work on a deposit, derives an id, writes its record or makes one of the two
  payments. One lemma per kind shows that it keeps the invariant, and one per
  operation that its actions are of these kinds. `admin_clear_deposit` is allowed: a
  finalization in flight may then pay for a forgotten record, once.
* **`RouterImplementsEscrow`** (`RouterSafety`): `Spec => ImplementsEscrow`, from the
  same invariant: each kind of `PayStep` is a step of `Escrow` or a stutter. It
  assumes `RecordsAreKept`: `admin_clear_deposit` and an upgrade forget a sealed
  deposit whose Bob was not paid, which `Escrow` forbids.
* **`ClaimsCoverDebts`** (`RouterClaims`): `Spec => [](Calm => CommitmentsCovered)`,
  unless locks may be cleared by hand: with any amounts, the claims fall short of the
  debt by no more than what the rounding has dropped. `Calm` says that no error result was answered:
  either none can be (rejected calls then may happen), or no fault has happened so far.
  `ClaimsAreCovered` is the first case. Clearing of deposits, sweeps, pauses and
  upgrades are allowed. `CommitmentsCovered` is a
  statement about the end of a long story: the claim is computed out of what is left of
  the client's transfer after a conversion at one rate, a quote at another and a
  record written in between. The invariant `Books` follows that money: `QuoteTrue`
  (what the client was quoted), `CallTrue` and `CalmCall` (what a call has read is what
  the account holds), `CalmDeposit` (an account holds what was sent, less the one
  conversion its record names), and `ClaimsCover`: `pool_claims` and what was dropped of
  the deposits that are `Over` are together at least what the claims must cover
  (`Covered`: the amounts less what the rounding drops) of all deposits in `Owed`, those
  sealed or being sealed or paid *and* those an interrupted seal has drawn on. A deposit
  that is over keeps its part in the sum, because Bob's whole amount was taken out of a
  claim that lacked it. The interrupted ones are needed because a rejected transfer
  leaves the claim recorded and less money than a second seal would need; without them
  the second seal's claim cannot be bounded. `Payments`, the invariant of
  `BobIsPaidOnce`, tells which deposits are paid. Three assumptions: `Deposits` is
  finite, for the sum to exist; no `"clear_lock"`; and `PriceHolds`, which says that
  the price of a transaction's cycles rises, from quote to seal, by less than half an
  ICP, three fees less; of the amounts it says nothing. `MCRouter` assumes `PriceHolds` of its instances, so TLC evaluates it in every
  Router run. The sum over a set (`Total`) is defined by `CHOOSE`; that it is
  independent of the order, grows with an element and shrinks with a part is proved by
  the smallest counterexample (`Smallest`, from the library's well-founded ordering of
  the finite subsets), since induction as an operator is out of reach.
* **`ClaimsAreExact`** (`RouterClaims`): `Spec => []CommitmentsExact` under
  `RecordsAreKept`, for a finite set of deposits. `Books` is not enough: a seal that
  ran out of money in the middle of its transfers would leave its claim behind although
  nothing failed. `Exact` adds that a deposit nobody is paying out holds what
  `deposit_prepare` left of the client's transfer (`Remains`), that a seal at its
  transfers can pay all that are left, with their fees (`Affordable`), and the equality
  itself. `Affordable` is the reason for the bound on the number of transfers, from
  `Decomposition`. Besides `PriceHolds` it assumes `SealsGoThrough`: at the rates of the
  constants a seal claims exactly Alice's amount and what it leaves pays for the
  transfers. `MCRouter` assumes it of its instances with whole amounts of ICP, and
  `MCAmounts` checks it over samples of amounts, entropy and prices (`ClaimMatches`,
  `SealAffordable`). It fails for 2.4 and for 2.6 ICP, for which section 3 says what
  happens.
* **`MixerCoversDebts`** (`RouterClaims`): `Spec /\ []SpendsApart => [](faults =
  MaxFaults => MixerCovers)` under the assumptions of `ClaimsAreExact`, for any number
  of calls in flight. Allocations, preparations, seals and refunds overlap as they
  like; what `SpendsApart` keeps apart is the stretches of two calls from the reading
  of a balance to the payment out of the mixer or the buffer. The code does not see to
  it, and without it run `sweep_race` refutes `MixerCovers`: the theorem shows that
  in its circumstances (nothing has failed, whole amounts, records kept) overlapping
  payouts are the only way in which the mixer can lose what is owed.
  The invariant is `Solvent`: the mixer can be divided among the deposits (`Divides`) so
  that a sealed one has its amount there and one being sealed what its seal has
  transferred so far, which with the transfers left makes up the amount. It must be
  divided because seals overlap: each adds to the mixer while others read it. `Solid`
  says of such a division that the mixer holds it but for one fee, and what a call in
  flight knows of the mixer (`MixerKnown`): once the preload has come the missing fee
  is there; the balance that the recycling and the sweep have read is there still, and
  what they are going to move is beyond the division, because it is beyond
  `pool_claims`, which by `Exact` are the amounts. The missing fee is the recycling's own: it converts all that
  is beyond the claims and pays the fee on top. The steps that leave
  mixer and debt alone or better, most of them, are dealt with at once (`Tame`). The
  theorem stops at the first failure: a deposit that is prepared twice, after an
  error of `notify_top_up`, brings in no more than its smaller claim (section 3: with
  8 ICP it is 5), and TLC then finds `MixerCovers` violated.
* **`BufferCoversPreloads`** and **`FinalizationsDoGoThrough`** (`RouterClaims`):
  `Spec /\ []SpendsApart => [](faults = MaxFaults => BufferCovers)` and `Spec /\
  []SpendsApart => FinalizationsGoThrough`, under the assumptions of `MixerCoversDebts`
  and two more of the constants.
  `SharesSuffice`: at any of the rates a seal sends the buffer four fees at least, which
  pay for the two transfers from it that a finalization makes at most, the preload and a
  top-up of one fee, each with its own. `ReserveSuffices`: the recycling of the buffer
  leaves these four fees for every deposit, and the one that the transfer of the excess
  costs. With the reserve of the code, 0.1 ICP or 1000 fees, this allows for 249
  deposits that wait to be paid out at a time; with more the recycling can take
  preloads. `BufferCovers` speaks of two fees for each deposit and is not inductive: a
  finalization that needs a top-up would take another deposit's preload. The invariant
  `Stocked` has four, for each deposit in `Coming`: those whose finalization has not
  drawn on the buffer (`Waiting`) and those being sealed, which have sent their share
  already. `Filled` adds, for each call in flight, the top-up that a finalization may
  still need (`Beyond`), that the balances which the recycling and the finalization have
  read are there still, and that after its top-up the mixer holds the payment and its
  fee. From this and `Solid`, which bounds the missing money by one fee, every transfer
  of a finalization finds what it needs. Run
  `maintenance` checks `FinalizationsGoThrough` and `MixerCovers` with one call at a time,
  which keeps them apart; it meets the conditions on the constants, which `MCRouter`
  assumes. The same instance with two slots and `SpendsApart` as a constraint was
  explored as well (207 246 states, no error).
* **`TransfersAddUp`** (`AmountsProofs`): for every amount and byte the
  decomposition is a sequence of at most five naturals and they sum to the amount. TLC
  checks this for whole ICP up to 2520; the theorem is for every natural amount, by
  what each pick preserves: transfers so far plus remainder is the amount.
* **`ClaimNeverShown`** and **`DenominationsExact`** (`AmountsProofs`): what
  `ExactDenominations` and `ClaimHidden` say of the samples, `Denominated` and `Hides`,
  for every byte and every claim: of at least 2 ICP, whole or not, for the second, of
  1 to 2000 whole ICP for the first. The number of denominations above a limit leads to
  the largest that fits (`SkippedFacts`, `SkippedAbove`). The first pick is at most
  half the claim and leaves one ICP at least, so that there is a second; of two or more
  positive transfers none is their sum. The range of the code's comment comes from the
  tiers: of whole ICP a pick leaves at most 499, then 99, then 9, then nothing
  (`WholeDrop`), and 2000 is the largest claim for which the first pick, however
  small, leaves at most 1999.
* **`ClaimIsAmount`** and **`SteadyClaim`** (`AmountsProofs`): the claim that a seal
  reconstructs is the amount Alice sent, if that is a whole number of ICP, whatever was
  burned in between, for all rates of quote and seal whose estimates of the spawn are,
  three fees included, less than half an ICP apart. At a steady rate they are, as the
  two roundings differ by one unit at most. `ClaimMatches` says the same of the samples,
  amounts between two whole numbers of ICP among them.
* **`SendTypes`**, **`RecordNeverAhead`**, **`PackagesAgree`** and
  **`NothingIsForgotten`** (`SendProofs`): `TypeOK`, `RecordBehindRouter`,
  `StoragesAgree` and `NothingForgotten` of the send flow, for any sets of pages,
  deposits and Storages and any number of mishaps. The record alone says nothing of a
  page that holds a deposit in a variable and is about to write it, nor of a call whose
  answer is still under way: `CallTrue(p)` relates each pending call and its answer to
  Router and ledger, `FlowTrue(p)` what the page has learnt at each `pc`, and
  `DepositTrue(d)` a deposit's stage to its CSRN, packages and announcement.
  `NothingForgotten` speaks of behaviours without mishaps and needs more there
  (`Calm`): one page is open at most, a closed one has no update call under way, and
  money in a deposit that is not announced is in the one the record names.
* **`ClaimTypes`**, **`OnePayerEver`** and **`ReportsAreTrue`** (`ClaimProofs`):
  `TypeOK`, `OnePayer` and `ReportedIsPaid`, for any numbers of pages, jobs, resets and
  mishaps. `OnePayer` counts jobs past Storage and is not inductive: nothing keeps the
  next job from reading the CSRN as well. The invariant's key is `CsrnTaken(d)`: a job
  is past `fetch_csrn` only if the first Storage has given the CSRN away, which it does
  once. The other conjuncts relate what a page has been told to what its job has
  done.
* **`ChildrenTypes`**, **`FailedSpawnsLeave`**, **`RecordsAreComplete`** and
  **`TheyLeaveInOrder`** (`ChildrenProofs`): `TypeOK`, `FailedSpawnLeaves`,
  `RecordsComplete` and `LeaveInOrder`, for any finite number of Storages and any number
  of overlapping runs of `self_destruct`. `LeaveInOrder` needs to know of each run how
  far it has handed over (`RunShape`) and which canisters have been reported and left
  by then (`Leaving`); `FailedSpawnLeaves` which canisters exist and control themselves
  at each step of a spawn and of its rollback (`SpawnShape`, `Unborn`).
* **`ReceiveTypes`**, **`DummiesAlwaysMatch`** and **`BoardImplemented`**
  (`ReceiveProofs`): `TypeOK`, `DummiesMatch` and `ImplementsBoard` for any set of
  deposits, any pool, any percentages, any number of queries and claims. They speak of a
  list that is filtered, mapped and appended to, so `ReceiveProofs` first proves what
  the filter `Only` returns: for an appended element, for two lists in a row, for two
  filters one after the other, for filters that keep the same. Each is an induction
  over sequences, stated as the existence of a shortest counterexample (`Shortest`, from
  the well-foundedness of the naturals); the same gives that a recursive function over
  the positions of a list exists. The invariant `BoardTrue` says which entries a list
  can hold (`Entries`: a dummy's has no Storages and is never consumed; a deposit's may
  have none either, when it was announced again) and that the ids of its dummies are distinct and those in `dummy_ids`; one lemma per
  operation shows that it is kept, and what happens to the deposits `Listed`: one more
  at the end, one fewer, or nothing. The refinement is these lemmas again, and that a
  page is a prefix of the list. `NoticeboardAssumption` says that a dummy's random id
  is no deposit's; without it `do_churn` could remove a deposit.
* **`SessionTyped`**, **`GateExcludes`**, **`CounterIsExact`** and
  **`ActorsAreStable`** (`SessionProofs`): `TypeOK`, `GateExclusive`,
  `OperationsHaveActors` and `ActorsStable` for any finite number of handlers; run
  `session` leaves `TypeOK` to the theorem, as the exact counter says more. The
  conjunction of the three invariants is not inductive: the task in the gate clears
  and rebuilds the actors, and nothing in it says that no operation is in flight then.
  `GateIsIdle` says so: a task entered while there was none, and none begins past it.
  It completes `IInv`. The proof sorts the steps of a task by what they do to gate and
  counter: enter, leave, begin, end or neither; two lemmas (`StepKeepsGate`,
  `StepKeepsCount`) show that these keep the invariant, and one per action that it is
  of these kinds. The cardinality of the set in flight moves by one with the counter
  by the library's facts on adding and removing an element. Timers and events are no
  task's: they touch the actors only when the counter is 0, from which `ActorsStable`
  follows.

### Only model-checked

`BufferCovers`, `MixerCovers` and `FinalizationsGoThrough` are proved up to the first
failure and for behaviours in which calls do not pay out at once (`SpendsApart`). Where
they do, `BufferCovers` is left to run `buffer`, with one recycling at a time, and the
other two fail (run `sweep_race`). After a failure nothing is claimed of the three.
`SealAffordable` is checked on its ranges:
it depends on the share of the cycles that the Router keeps and on the drift between
three rates. So is `ClaimMatches` for amounts that are no whole number of ICP. Of
`ExactDenominations` and `ClaimHidden` the theorems state what the operators return;
that a sample is what they return is how the run enumerates. All liveness
(`LocksAreReleased`, `FinalizationPays`, `OrderIsSent`, `ClaimPays`, `ClaimReported`,
`ClicksEnd`, `ChildrenDestroyed`, `TransfersArrive`) rests on fairness and is TLC's.

## 5. What is not modelled

* The event log, its certificate and the derivation of deposit ids. An id is a hash of
  `certified_hash`, the payer and `next_seq % 256`; the first follows the number of
  stored events modulo 256, and the log stops at 2000 events while `next_seq` goes on.
  From then on one payer's ids repeat after 256 events, and `deposits.put` does not look
  for an older record. The models take ids as fresh: what they show is for payers whose
  deposits do not live through that many events. Hazard `Router.mo:445` records it.
* The Crypto canister's sessions: the modelled clients open packages themselves or
  treat the canister as one call that answers; its lazy initialisation sets the same
  parameters whoever comes first.
* The rate limiter and authorisation: they refuse calls, which is stuttering.
* `admin_sweep` moves an amount the administrator names to where he names; nothing
  holds after it. `set_config` may change the fees and percentages between calls.
* Cycles balances: a shortage shows as a failed spawn.
* The ledger's deduplication window. The ledger is on another subnet, so successive
  transfers of one call carry distinct times. Two finalizations of one round can send
  identical preloads; the second is answered `Duplicate`, which is the modelled error.
* The Witness's other logs, the installation and pausing of I1, I2 and Storage, and
  the ttl after which Storage refuses: nothing waits for the first, the second happens
  before a client knows the deposit, and the third is a time the configuration
  chooses.
* Withdrawals and balances of the client, which are single calls; of the withdrawal
  the session's part is modelled.
* `crypto/` apart from its sessions, BLAKE2s, `local-decrypt.ts` and the layout of the
  screens: numeric or presentational code.
* The Registry: each caller owns one entry, written in one message.
