---------------------------- MODULE RouterSafety ----------------------------
(***************************************************************************)
(* The Router's state keeps its type: no balance, no claim and no amount   *)
(* in flight ever leaves the naturals.  Its locks exclude: two calls are   *)
(* never between the lock and the unlock of the same deposit.  And Bob is  *)
(* paid at most once, and never out of a deposit Alice got back: what a    *)
(* deposit's record, its payments and the calls working on it say of each  *)
(* other.                                                                  *)
(***************************************************************************)
EXTENDS RouterProperties, AmountsProofs

-----------------------------------------------------------------------------
(* Parameters and calls *)

LEMMA PcFacts ==
  /\ "prepare_balance" \in Pcs
  /\ "prepare_rate" \in Pcs
  /\ "prepare_convert" \in Pcs
  /\ "prepare_notify" \in Pcs
  /\ "prepare_spawn" \in Pcs
  /\ "prepare_topups" \in Pcs
  /\ "seal_balance" \in Pcs
  /\ "seal_rate" \in Pcs
  /\ "seal_compute" \in Pcs
  /\ "seal_transfer" \in Pcs
  /\ "recycle_read" \in Pcs
  /\ "recycle_wedge" \in Pcs
  /\ "recycle_burn" \in Pcs
  /\ "leftover" \in Pcs
  /\ "sweep_read" \in Pcs
  /\ "sweep_compute" \in Pcs
  /\ "sweep_pay" \in Pcs
  /\ "buffer_read" \in Pcs
  /\ "buffer_pay" \in Pcs
  /\ "fin_preload" \in Pcs
  /\ "fin_balance" \in Pcs
  /\ "fin_topup" \in Pcs
  /\ "fin_ensure" \in Pcs
  /\ "fin_deficit" \in Pcs
  /\ "fin_transfer" \in Pcs
  /\ "fin_commit" \in Pcs
  /\ "reclaim_balance" \in Pcs
  /\ "reclaim_transfer" \in Pcs
  /\ "reclaim_commit" \in Pcs
  /\ "idle" \in Pcs
  /\ "alloc_rand" \in Pcs
  /\ "alloc_check" \in Pcs
  /\ "alloc_rate" \in Pcs
  /\ "prepare_rand" \in Pcs
  /\ "prepare_check" \in Pcs
  /\ "reclaim_leftover" \in Pcs
  BY DEF Pcs, LockedPcs, PreparePcs, SealPcs, TailPcs, FinalizePcs,
         ReclaimPcs, FreePcs

LEMMA DepositFacts ==
  ASSUME NEW d \in Deposits
  PROVE  /\ d # None
         /\ Amount[d] \in Nat \ {0}
         /\ Pct[d] \in 0..100
         /\ Byte[d] \in 0..255
  BY RouterAssumption

LEMMA RateFacts == \A r \in Rates : r \in Nat \ {0}
  BY RouterAssumption

LEMMA ShortfallFacts == \A x \in Shortfalls : x \in Nat
  BY RouterAssumption

LEMMA ParameterFacts ==
  /\ RECYCLE_INTERVAL \in Nat \ {0}
  /\ POOL_SWEEP_THRESHOLD \in Nat
  /\ BUFFER_RESERVE \in Nat
  /\ LEDGER_FEE \in Nat
  BY RouterAssumption, FeeAssumption

LEMMA AfterNat ==
  \A balance, amount \in Nat :
    Covers(balance, amount) => After(balance, amount) \in Nat
  BY ParameterFacts DEF Covers, After

\* Paying out of an account leaves a balance.
LEMMA PaySub ==
  ASSUME TypeOK, NEW d \in Deposits, NEW amount \in Nat,
         \/ UNCHANGED sub
         \/ /\ Covers(sub[d], amount)
            /\ sub' = [sub EXCEPT ![d] = After(@, amount)]
  PROVE  sub' \in [Deposits -> Nat]
<1>1. sub \in [Deposits -> Nat]
  BY DEF TypeOK, LedgerType
<1> QED
  BY <1>1, AfterNat

LEMMA PayMixer ==
  ASSUME TypeOK, NEW amount \in Nat,
         \/ UNCHANGED mixer
         \/ Covers(mixer, amount) /\ mixer' = After(mixer, amount)
  PROVE  mixer' \in Nat
<1>1. mixer \in Nat
  BY DEF TypeOK, LedgerType
<1> QED
  BY <1>1, AfterNat

LEMMA PayFromBuffer ==
  ASSUME TypeOK, NEW amount \in Nat,
         \/ UNCHANGED <<fee_buf, mixer>>
         \/ /\ Covers(fee_buf, amount) /\ fee_buf' = After(fee_buf, amount)
            /\ mixer' = mixer + amount
  PROVE  fee_buf' \in Nat /\ mixer' \in Nat
<1>1. mixer \in Nat /\ fee_buf \in Nat
  BY DEF TypeOK, LedgerType
<1> QED
  BY <1>1, AfterNat

\* What a call in flight holds; past the derivation of its id it has a deposit.
LEMMA CallFacts ==
  ASSUME TypeOK, NEW s \in Slots
  PROVE  /\ call[s] \in CallRecords
         /\ call[s].bal \in Nat /\ call[s].amt \in Nat
         /\ call[s].rate \in Nat /\ call[s].spawn_fee \in Nat
         /\ call[s].rest \in Seq(Nat)
         /\ call[s].pc \notin AnonymousPcs => call[s].id \in Deposits
  BY DEF TypeOK, CallType, CallRecords

LEMMA UpdateCall ==
  ASSUME TypeOK, NEW s \in Slots, NEW c \in CallRecords,
         c.id = None => c.pc \in AnonymousPcs,
         call' = [call EXCEPT ![s] = c]
  PROVE  CallType'
  BY DEF TypeOK, CallType

LEMMA GotoCall ==
  ASSUME TypeOK, NEW s \in Slots, NEW pc \in Pcs, Goto(s, pc),
         call[s].id = None => pc \in AnonymousPcs
  PROVE  CallType'
<1> DEFINE c == [call[s] EXCEPT !.pc = pc]
<1>1. c \in CallRecords /\ c.id = call[s].id /\ c.pc = pc
  BY CallFacts DEF CallRecords
<1>2. call' = [call EXCEPT ![s] = c]
  BY DEF Goto
<1> QED
  BY <1>1, <1>2, UpdateCall

LEMMA ReturnCall ==
  ASSUME TypeOK, NEW s \in Slots, Return(s)
  PROVE  CallType'
<1>1. Idle \in CallRecords /\ Idle.pc \in AnonymousPcs
  BY PcFacts DEF CallRecords, Idle, AnonymousPcs
<1> QED
  BY <1>1, UpdateCall DEF Return

-----------------------------------------------------------------------------
(* deposit_alloc *)

LEMMA AllocSecretType ==
  ASSUME TypeOK, NEW s \in Slots, AllocSecret(s)
  PROVE  TypeOK'
<1>1. call[s] \in CallRecords
  BY CallFacts
<1>2. ServiceType'
  BY <1>1
     DEF TypeOK, ServiceType, AllocSecret, SecretReply, NoFault, Fault,
         serviceVars, ledgerVars, clientVars, quoteVars
<1>3. ClientType'
  BY <1>1
     DEF TypeOK, ClientType, AllocSecret, SecretReply, NoFault, Fault,
         serviceVars, ledgerVars, clientVars, quoteVars
<1>4. CallType'
  BY <1>1, PcFacts, GotoCall
     DEF AllocSecret, SecretReply, NoFault, Fault, AnonymousPcs
<1> QED
  BY <1>1, <1>2, <1>3, <1>4
     DEF TypeOK, DepositsType, LedgerType, AllocSecret, SecretReply,
         NoFault, Fault, serviceVars, routerVars, ledgerVars, clientVars,
         quoteVars

LEMMA AllocCheckType ==
  ASSUME TypeOK, NEW s \in Slots, AllocCheck(s)
  PROVE  TypeOK'
<1>1. call[s] \in CallRecords
  BY CallFacts
<1>2. ServiceType'
  BY <1>1
     DEF TypeOK, ServiceType, AllocCheck, serviceVars, ledgerVars,
         clientVars, quoteVars
<1>3. CallType'
  <2>1. CASE paused
    BY <2>1, ReturnCall DEF AllocCheck
  <2>2. CASE ~paused
    <3>1. PICK d \in Deposits \ issued :
            call' = [call EXCEPT ![s].pc = "alloc_rate", ![s].id = d]
      BY <2>2 DEF AllocCheck
    <3> DEFINE c == [call[s] EXCEPT !.pc = "alloc_rate", !.id = d]
    <3>2. c \in CallRecords /\ c.id \in Deposits
      BY <1>1, PcFacts DEF CallRecords
    <3>3. call' = [call EXCEPT ![s] = c]
      BY <3>1
    <3> QED
      BY <3>2, <3>3, DepositFacts, UpdateCall
  <2> QED
    BY <2>1, <2>2
<1> QED
  BY <1>1, <1>2, <1>3
     DEF TypeOK, DepositsType, LedgerType, ClientType, AllocCheck,
         serviceVars, routerVars, ledgerVars, clientVars, quoteVars

LEMMA AllocRateType ==
  ASSUME TypeOK, NEW s \in Slots, AllocRate(s)
  PROVE  TypeOK'
<1>1. call[s].id \in Deposits /\ call[s].pc \notin AnonymousPcs
  BY CallFacts DEF AllocRate, At, AnonymousPcs
<1>2. DepositsType'
  <2>1. [NoDeposit EXCEPT !.state = "allocated"]
          \in [state : DepositStates, amount : Nat, spawn_fee : Nat]
    BY DEF NoDeposit, DepositStates
  <2>2. \/ UNCHANGED deposits
        \/ deposits' = [deposits EXCEPT ![call[s].id] =
                          [NoDeposit EXCEPT !.state = "allocated"]]
    BY DEF AllocRate
  <2> QED
    BY <1>1, <2>1, <2>2 DEF TypeOK, DepositsType
<1>3. ClientType'
  BY <1>1, RateFacts, SpawnFeeEstimateNat
     DEF TypeOK, ClientType, AllocRate, NoFault, Fault, NoDeposit,
         serviceVars, ledgerVars, quoteVars
<1>4. CallType'
  BY <1>1, ReturnCall DEF AllocRate, NoFault, Fault, AnonymousPcs
<1> QED
  BY <1>1, <1>2, <1>3, <1>4
     DEF TypeOK, ServiceType, LedgerType, AllocRate, NoFault, Fault,
         serviceVars, routerVars, ledgerVars, clientVars, quoteVars

-----------------------------------------------------------------------------
(* deposit_prepare *)

LEMMA PrepareSecretType ==
  ASSUME TypeOK, NEW s \in Slots, PrepareSecret(s)
  PROVE  TypeOK'
<1>1. call[s].id \in Deposits /\ call[s].pc \notin AnonymousPcs
  BY CallFacts DEF PrepareSecret, SecretReply, At, AnonymousPcs
<1>2. ServiceType'
  BY <1>1
     DEF TypeOK, ServiceType, PrepareSecret, SecretReply, NoFault, Fault,
         serviceVars, ledgerVars, clientVars, quoteVars
<1>3. ClientType'
  BY <1>1
     DEF TypeOK, ClientType, PrepareSecret, SecretReply, NoFault, Fault,
         serviceVars, ledgerVars, clientVars, quoteVars
<1>4. CallType'
  BY <1>1, PcFacts, DepositFacts, GotoCall
     DEF PrepareSecret, SecretReply, NoFault, Fault, AnonymousPcs
<1> QED
  BY <1>1, <1>2, <1>3, <1>4
     DEF TypeOK, DepositsType, LedgerType, PrepareSecret, SecretReply,
         NoFault, Fault, serviceVars, routerVars, ledgerVars, clientVars,
         quoteVars

LEMMA PrepareCheckType ==
  ASSUME TypeOK, NEW s \in Slots, PrepareCheck(s)
  PROVE  TypeOK'
<1>1. call[s].id \in Deposits /\ call[s].pc \notin AnonymousPcs
  BY CallFacts DEF PrepareCheck, At, AnonymousPcs
<1>2. ServiceType'
  BY <1>1
     DEF TypeOK, ServiceType, PrepareCheck, serviceVars, ledgerVars,
         clientVars, quoteVars
<1>3. CallType'
  BY <1>1, PcFacts, DepositFacts, GotoCall, ReturnCall
     DEF PrepareCheck, AnonymousPcs
<1> QED
  BY <1>1, <1>2, <1>3
     DEF TypeOK, DepositsType, LedgerType, ClientType, PrepareCheck,
         serviceVars, routerVars, ledgerVars, clientVars, quoteVars

LEMMA PrepareBalanceType ==
  ASSUME TypeOK, NEW s \in Slots, PrepareBalance(s)
  PROVE  TypeOK'
<1>1. call[s].id \in Deposits /\ call[s].pc \notin AnonymousPcs
  BY CallFacts DEF PrepareBalance, At, AnonymousPcs
<1>2. CallType'
  <2> DEFINE c == [call[s] EXCEPT !.pc = "prepare_rate",
                                 !.bal = sub[call[s].id]]
  <2>1. c \in CallRecords /\ c.id = call[s].id /\ c.pc = "prepare_rate"
    BY <1>1, PcFacts, CallFacts DEF CallRecords, TypeOK, LedgerType
  <2>2. call' = [call EXCEPT ![s] = c]
    BY DEF PrepareBalance
  <2> QED
    BY <1>1, <2>1, <2>2, DepositFacts, UpdateCall DEF AnonymousPcs
<1> QED
  BY <1>1, <1>2
     DEF TypeOK, DepositsType, ServiceType, LedgerType, ClientType,
         PrepareBalance, serviceVars, routerVars, ledgerVars, clientVars,
         quoteVars

LEMMA PrepareRateType ==
  ASSUME TypeOK, NEW s \in Slots, PrepareRate(s)
  PROVE  TypeOK'
<1>1. call[s].id \in Deposits /\ call[s].pc \notin AnonymousPcs
  BY CallFacts DEF PrepareRate, At, AnonymousPcs
<1>2. ServiceType'
  BY <1>1
     DEF TypeOK, ServiceType, PrepareRate, NoFault, Fault, ReturnUnlocked,
         serviceVars, ledgerVars, clientVars, quoteVars
<1>3. ClientType'
  BY <1>1
     DEF TypeOK, ClientType, PrepareRate, NoFault, Fault, ReturnUnlocked,
         serviceVars, ledgerVars, clientVars, quoteVars
<1>4. CallType'
  <2>1. CASE Return(s)
    BY <2>1, ReturnCall
  <2>2. CASE ~Return(s)
    <3>1. PICK r \in Rates :
            call' = [call EXCEPT
                       ![s].pc = "prepare_convert", ![s].bal = 0,
                       ![s].amt = ConvertAmount(call[s].bal, r,
                                                Pct[call[s].id])]
      BY <2>2 DEF PrepareRate, ReturnUnlocked
    <3> DEFINE convert == ConvertAmount(call[s].bal, r, Pct[call[s].id])
               c == [call[s] EXCEPT !.pc = "prepare_convert", !.bal = 0,
                                    !.amt = convert]
    <3>2. convert \in Nat
      <4>1. call[s].bal \in Nat
        BY CallFacts, Zenon
      <4>2. r \in Nat \ {0}
        BY RateFacts, Zenon
      <4>3. Pct[call[s].id] \in 0..100
        BY <1>1, DepositFacts
      <4> QED
        BY <4>1, <4>2, <4>3, ConvertAmountNat
    <3>3. call' = [call EXCEPT ![s] = c]
      BY <3>1
    <3> HIDE DEF convert
    <3>4. c \in CallRecords /\ c.id = call[s].id
      BY <3>2, PcFacts, CallFacts DEF CallRecords
    <3> QED
      BY <1>1, <3>3, <3>4, DepositFacts, UpdateCall
  <2> QED
    BY <2>1, <2>2
<1> QED
  BY <1>1, <1>2, <1>3, <1>4
     DEF TypeOK, DepositsType, LedgerType, PrepareRate, NoFault, Fault,
         ReturnUnlocked, serviceVars, routerVars, ledgerVars, clientVars,
         quoteVars

LEMMA PrepareConvertType ==
  ASSUME TypeOK, NEW s \in Slots, PrepareConvert(s)
  PROVE  TypeOK'
<1>1. call[s].id \in Deposits /\ call[s].pc \notin AnonymousPcs
  BY CallFacts DEF PrepareConvert, At, AnonymousPcs
<1>2. ServiceType'
  BY <1>1
     DEF TypeOK, ServiceType, PrepareConvert, NoFault, Fault,
         ReturnUnlocked, serviceVars, clientVars, quoteVars
<1>3. LedgerType'
  <2>1. sub' \in [Deposits -> Nat]
    BY <1>1, CallFacts, PaySub DEF PrepareConvert
  <2> QED
    BY <2>1 DEF TypeOK, LedgerType, PrepareConvert
<1>4. ClientType'
  BY <1>1
     DEF TypeOK, ClientType, PrepareConvert, NoFault, Fault,
         ReturnUnlocked, serviceVars, clientVars, quoteVars
<1>5. CallType'
  BY <1>1, PcFacts, DepositFacts, GotoCall, ReturnCall
     DEF PrepareConvert, NoFault, Fault, ReturnUnlocked, AnonymousPcs
<1> QED
  BY <1>1, <1>2, <1>3, <1>4, <1>5
     DEF TypeOK, DepositsType, PrepareConvert, NoFault, Fault,
         ReturnUnlocked, serviceVars, routerVars, ledgerVars, clientVars,
         quoteVars

LEMMA PrepareNotifyType ==
  ASSUME TypeOK, NEW s \in Slots, PrepareNotify(s)
  PROVE  TypeOK'
<1>1. call[s].id \in Deposits /\ call[s].pc \notin AnonymousPcs
  BY CallFacts DEF PrepareNotify, At, AnonymousPcs
<1>2. ServiceType'
  BY <1>1
     DEF TypeOK, ServiceType, PrepareNotify, NoFault, Fault,
         ReturnUnlocked, serviceVars, ledgerVars, clientVars, quoteVars
<1>3. ClientType'
  BY <1>1
     DEF TypeOK, ClientType, PrepareNotify, NoFault, Fault,
         ReturnUnlocked, serviceVars, ledgerVars, clientVars, quoteVars
<1>4. CallType'
  BY <1>1, PcFacts, DepositFacts, GotoCall, ReturnCall
     DEF PrepareNotify, NoFault, Fault, ReturnUnlocked, AnonymousPcs
<1> QED
  BY <1>1, <1>2, <1>3, <1>4
     DEF TypeOK, DepositsType, LedgerType, PrepareNotify, NoFault, Fault,
         ReturnUnlocked, serviceVars, routerVars, ledgerVars, clientVars,
         quoteVars

LEMMA PrepareSpawnType ==
  ASSUME TypeOK, NEW s \in Slots, PrepareSpawn(s)
  PROVE  TypeOK'
<1>1. call[s].id \in Deposits /\ call[s].pc \notin AnonymousPcs
  BY CallFacts DEF PrepareSpawn, At, AnonymousPcs
<1>2. ServiceType'
  BY <1>1
     DEF TypeOK, ServiceType, PrepareSpawn, NoFault, Fault,
         ReturnUnlocked, serviceVars, ledgerVars, clientVars, quoteVars
<1>3. ClientType'
  BY <1>1
     DEF TypeOK, ClientType, PrepareSpawn, NoFault, Fault, ReturnUnlocked,
         serviceVars, ledgerVars, clientVars, quoteVars
<1>4. CallType'
  BY <1>1, PcFacts, DepositFacts, GotoCall, ReturnCall
     DEF PrepareSpawn, NoFault, Fault, ReturnUnlocked, AnonymousPcs
<1> QED
  BY <1>1, <1>2, <1>3, <1>4
     DEF TypeOK, DepositsType, LedgerType, PrepareSpawn, NoFault, Fault,
         ReturnUnlocked, serviceVars, routerVars, ledgerVars, clientVars,
         quoteVars

LEMMA PrepareTopUpsType ==
  ASSUME TypeOK, NEW s \in Slots, PrepareTopUps(s)
  PROVE  TypeOK'
<1>1. call[s].id \in Deposits /\ call[s].pc \notin AnonymousPcs
  BY CallFacts DEF PrepareTopUps, At, AnonymousPcs
<1>2. DepositsType'
  <2> DEFINE r == [NoDeposit EXCEPT !.state = "created",
                                    !.spawn_fee = call[s].amt + LEDGER_FEE]
  <2>1. call[s].amt + LEDGER_FEE \in Nat
    BY CallFacts, ParameterFacts
  <2>2. r \in [state : DepositStates, amount : Nat, spawn_fee : Nat]
    BY <2>1 DEF NoDeposit, DepositStates
  <2>3. deposits' = [deposits EXCEPT ![call[s].id] = r]
    BY DEF PrepareTopUps
  <2> HIDE DEF r
  <2> QED
    BY <1>1, <2>2, <2>3 DEF TypeOK, DepositsType
<1>3. ServiceType'
  BY <1>1
     DEF TypeOK, ServiceType, PrepareTopUps, ReturnUnlocked, NoDeposit,
         serviceVars, ledgerVars, clientVars, quoteVars
<1>4. CallType'
  BY <1>1, ReturnCall DEF PrepareTopUps, ReturnUnlocked, AnonymousPcs
<1> QED
  BY <1>1, <1>2, <1>3, <1>4
     DEF TypeOK, LedgerType, ClientType, PrepareTopUps, ReturnUnlocked,
         serviceVars, routerVars, ledgerVars, clientVars, quoteVars

LEMMA PrepareRejectType ==
  ASSUME TypeOK, NEW s \in Slots, PrepareReject(s)
  PROVE  TypeOK'
<1>1. call[s].id \in Deposits /\ call[s].pc \notin AnonymousPcs
  BY CallFacts DEF PrepareReject, PreparePcs, AnonymousPcs
<1>2. ClientType'
  BY <1>1
     DEF TypeOK, ClientType, PrepareReject, Fault, serviceVars,
         routerVars, ledgerVars, clientVars, quoteVars
<1>3. CallType'
  BY <1>1, ReturnCall DEF PrepareReject, Fault, AnonymousPcs
<1> QED
  BY <1>1, <1>2, <1>3
     DEF TypeOK, DepositsType, ServiceType, LedgerType, PrepareReject,
         Fault, serviceVars, routerVars, ledgerVars, clientVars, quoteVars

-----------------------------------------------------------------------------
(* seal_push *)

LEMMA SealBalanceType ==
  ASSUME TypeOK, NEW s \in Slots, SealBalance(s)
  PROVE  TypeOK'
<1>1. call[s].id \in Deposits /\ call[s].pc \notin AnonymousPcs
  BY CallFacts DEF SealBalance, At, AnonymousPcs
<1>2. CallType'
  <2> DEFINE c == [call[s] EXCEPT !.pc = "seal_rate", !.bal = sub[call[s].id]]
  <2>1. c \in CallRecords /\ c.id = call[s].id /\ c.pc = "seal_rate"
    BY <1>1, PcFacts, CallFacts DEF CallRecords, TypeOK, LedgerType
  <2>2. call' = [call EXCEPT ![s] = c]
    BY DEF SealBalance
  <2> QED
    BY <1>1, <2>1, <2>2, DepositFacts, UpdateCall DEF AnonymousPcs
<1> QED
  BY <1>1, <1>2
     DEF TypeOK, DepositsType, ServiceType, LedgerType, ClientType,
         SealBalance, serviceVars, routerVars, ledgerVars, clientVars,
         quoteVars

LEMMA SealRateType ==
  ASSUME TypeOK, NEW s \in Slots, SealRate(s)
  PROVE  TypeOK'
<1>1. call[s].id \in Deposits /\ call[s].pc \notin AnonymousPcs
  BY CallFacts DEF SealRate, At, AnonymousPcs
<1>2. ServiceType'
  BY <1>1
     DEF TypeOK, ServiceType, SealRate, NoFault, Fault, ReturnUnlocked,
         serviceVars, ledgerVars, clientVars, quoteVars
<1>3. ClientType'
  BY <1>1
     DEF TypeOK, ClientType, SealRate, NoFault, Fault, ReturnUnlocked,
         serviceVars, ledgerVars, clientVars, quoteVars
<1>4. CallType'
  BY <1>1, PcFacts, DepositFacts, GotoCall, ReturnCall
     DEF SealRate, NoFault, Fault, ReturnUnlocked, AnonymousPcs,
         CallRecords, TypeOK, LedgerType, DepositsType, Goto
<1> QED
  BY <1>1, <1>2, <1>3, <1>4
     DEF TypeOK, DepositsType, LedgerType, SealRate, NoFault, Fault,
         ReturnUnlocked, serviceVars, routerVars, ledgerVars, clientVars,
         quoteVars

\* What seal_push splits a deposit into.
LEMMA SplitFacts ==
  ASSUME TypeOK, NEW s \in Slots, NEW d \in Deposits
  PROVE  LET split == SealSplit(call[s].bal, call[s].spawn_fee, call[s].rate,
                                Pct[d])
         IN  split.claim \in Nat /\ split.fee_buffer \in Nat /\ split.to_cycles \in Nat
<1>1. call[s].bal \in Nat /\ call[s].spawn_fee \in Nat /\ call[s].rate \in Nat
  BY CallFacts, Zenon
<1>2. Pct[d] \in 0..100
  BY DepositFacts
<1> QED
  BY <1>1, <1>2, SealSplitNat

LEMMA SealComputeType ==
  ASSUME TypeOK, NEW s \in Slots, SealCompute(s)
  PROVE  TypeOK'
<1> DEFINE d == call[s].id
           split == SealSplit(call[s].bal, call[s].spawn_fee, call[s].rate,
                              Pct[d])
           claim == split.claim
           share == split.fee_buffer
           residue == Residue(split.to_cycles, call[s].spawn_fee)
           parts == Decompose(Byte[d])[claim]
           c == [call[s] EXCEPT !.pc = "seal_transfer", !.bal = 0,
                                !.amt = residue, !.rest = parts]
<1>1. d \in Deposits
  BY CallFacts DEF SealCompute, At, AnonymousPcs
<1>2. claim \in Nat /\ share \in Nat /\ split.to_cycles \in Nat
  BY <1>1, SplitFacts
<1>3. /\ pool_claims' = pool_claims + claim
      /\ \/ UNCHANGED <<sub, fee_buf>>
         \/ /\ Covers(sub[d], share)
            /\ sub' = [sub EXCEPT ![d] = After(@, share)]
            /\ fee_buf' = fee_buf + share
      /\ \/ call' = [call EXCEPT ![s] = c]
         \/ Return(s)
      /\ locks' = locks \/ locks' = locks \ {d}
  BY DEF SealCompute, ReturnUnlocked
<1>4. UNCHANGED <<deposits, serviceVars, mixer, bob, alice, clientVars>>
  BY DEF SealCompute
<1>5. NoFault \/ Fault("err") \/ Fault("reject")
  BY DEF SealCompute
<1> HIDE DEF split
<1>6. residue \in Nat
  BY <1>2, CallFacts, ResidueNat
<1>7. parts \in Seq(Nat)
  <2>1. Byte[d] \in 0..255
    BY <1>1, DepositFacts
  <2> QED
    BY <1>2, <2>1, TransfersAddUp
<1> HIDE DEF claim, share, residue, parts
<1>8. CallType'
  <2>1. c \in CallRecords /\ c.id = d
    BY <1>6, <1>7, PcFacts, CallFacts DEF CallRecords
  <2>2. CASE call' = [call EXCEPT ![s] = c]
    BY <1>1, <2>1, <2>2, DepositFacts, UpdateCall
  <2> QED
    BY <1>3, <2>2, ReturnCall
<1> HIDE DEF c
<1>9. sub' \in [Deposits -> Nat]
  BY <1>1, <1>2, <1>3, PaySub
<1>10. ServiceType'
  BY <1>2, <1>3, <1>4 DEF TypeOK, ServiceType, serviceVars
<1>11. LedgerType'
  BY <1>2, <1>3, <1>4, <1>9 DEF TypeOK, LedgerType
<1>12. ClientType'
  BY <1>4, <1>5 DEF TypeOK, ClientType, NoFault, Fault, clientVars, quoteVars
<1> QED
  BY <1>4, <1>8, <1>10, <1>11, <1>12 DEF TypeOK, DepositsType

LEMMA SealTransferType ==
  ASSUME TypeOK, NEW s \in Slots, SealTransfer(s)
  PROVE  TypeOK'
<1>1. call[s].id \in Deposits /\ call[s].pc \notin AnonymousPcs
  BY CallFacts DEF SealTransfer, At, AnonymousPcs
<1>2. call[s].rest \in Seq(Nat) /\ call[s].rest # <<>>
  BY CallFacts DEF SealTransfer
<1>3. ServiceType'
  BY <1>1
     DEF TypeOK, ServiceType, SealTransfer, NoFault, Fault,
         ReturnUnlocked, serviceVars, clientVars, quoteVars
<1>4. LedgerType'
  <2> DEFINE part == Head(call[s].rest)
  <2>1. part \in Nat
    BY <1>2
  <2> HIDE DEF part
  <2>2. \/ UNCHANGED <<sub, mixer>>
        \/ /\ Covers(sub[call[s].id], part)
           /\ sub' = [sub EXCEPT ![call[s].id] = After(@, part)]
           /\ mixer' = mixer + part
    BY DEF SealTransfer, part
  <2>3. sub' \in [Deposits -> Nat]
    BY <1>1, <2>1, <2>2, PaySub
  <2>4. mixer' \in Nat
    BY <2>1, <2>2 DEF TypeOK, LedgerType
  <2> QED
    BY <2>3, <2>4 DEF TypeOK, LedgerType, SealTransfer
<1>5. ClientType'
  BY <1>1
     DEF TypeOK, ClientType, SealTransfer, NoFault, Fault, ReturnUnlocked,
         serviceVars, clientVars, quoteVars
<1>6. CallType'
  <2>1. CASE Return(s)
    BY <2>1, ReturnCall
  <2>2. CASE ~Return(s)
    <3> DEFINE rest == Tail(call[s].rest)
               c == [call[s] EXCEPT !.rest = rest]
    <3>1. call' = [call EXCEPT ![s] = c]
      BY <2>2 DEF SealTransfer, ReturnUnlocked
    <3>2. rest \in Seq(Nat)
      BY <1>2
    <3> HIDE DEF rest
    <3>3. c \in CallRecords /\ c.id = call[s].id
      BY <3>2, CallFacts DEF CallRecords
    <3> QED
      BY <1>1, <3>1, <3>3, DepositFacts, UpdateCall
  <2> QED
    BY <2>1, <2>2
<1> QED
  BY <1>3, <1>4, <1>5, <1>6
     DEF TypeOK, DepositsType, SealTransfer, NoFault, Fault,
         ReturnUnlocked, serviceVars, routerVars, ledgerVars, clientVars,
         quoteVars

LEMMA SealConvertType ==
  ASSUME TypeOK, NEW s \in Slots, SealConvert(s)
  PROVE  TypeOK'
<1>1. call[s].id \in Deposits /\ call[s].pc \notin AnonymousPcs
  BY CallFacts DEF SealConvert, At, AnonymousPcs
<1>2. LedgerType'
  <2>1. sub' \in [Deposits -> Nat]
    BY <1>1, CallFacts, PaySub DEF SealConvert
  <2> QED
    BY <2>1 DEF TypeOK, LedgerType, SealConvert
<1>3. ClientType'
  BY <1>1
     DEF TypeOK, ClientType, SealConvert, NoFault, Fault, serviceVars,
         routerVars, clientVars, quoteVars
<1>4. CallType'
  <2> DEFINE c == [call[s] EXCEPT !.amt = 0]
  <2>1. call' = [call EXCEPT ![s] = c]
    BY DEF SealConvert
  <2>2. c \in CallRecords /\ c.id = call[s].id
    BY CallFacts DEF CallRecords
  <2>3. c.id # None
    BY <1>1, <2>2, DepositFacts, Zenon
  <2> HIDE DEF c
  <2> QED
    BY <2>1, <2>2, <2>3, UpdateCall, Zenon
<1> QED
  BY <1>1, <1>2, <1>3, <1>4
     DEF TypeOK, DepositsType, ServiceType, SealConvert, NoFault, Fault,
         serviceVars, routerVars, ledgerVars, clientVars, quoteVars

LEMMA SealCommitType ==
  ASSUME TypeOK, NEW s \in Slots, SealCommit(s)
  PROVE  TypeOK'
<1>1. call[s].id \in Deposits /\ call[s].pc \notin AnonymousPcs
  BY CallFacts DEF SealCommit, At, AnonymousPcs
<1>2. DepositsType'
  BY <1>1, CallFacts
     DEF TypeOK, DepositsType, SealCommit, NoDeposit, DepositStates,
         serviceVars, ledgerVars, clientVars, quoteVars
<1>3. ServiceType'
  BY <1>1, ParameterFacts
     DEF TypeOK, ServiceType, SealCommit, NoDeposit, serviceVars,
         ledgerVars, clientVars, quoteVars
<1>4. CallType'
  <2> DEFINE pc == IF seal_count' = 0 /\ call[s].rate > 0
                   THEN "recycle_read" ELSE "leftover"
             c == [call[s] EXCEPT !.pc = pc, !.spawn_fee = 0]
  <2>1. call' = [call EXCEPT ![s] = c]
    BY DEF SealCommit
  <2>2. pc \in Pcs
    BY PcFacts
  <2> HIDE DEF pc
  <2>3. c \in CallRecords /\ c.id = call[s].id
    BY <2>2, CallFacts DEF CallRecords
  <2> QED
    BY <1>1, <2>1, <2>3, DepositFacts, UpdateCall
<1> QED
  BY <1>1, <1>2, <1>3, <1>4
     DEF TypeOK, LedgerType, ClientType, SealCommit, serviceVars,
         routerVars, ledgerVars, clientVars, quoteVars

LEMMA SealRejectType ==
  ASSUME TypeOK, NEW s \in Slots, SealReject(s)
  PROVE  TypeOK'
<1>1. call[s].id \in Deposits /\ call[s].pc \notin AnonymousPcs
  BY CallFacts DEF SealReject, At, AnonymousPcs
<1>2. ServiceType'
  BY <1>1
     DEF TypeOK, ServiceType, SealReject, Fault, ReturnUnlocked,
         serviceVars, ledgerVars, clientVars, quoteVars
<1>3. ClientType'
  BY <1>1
     DEF TypeOK, ClientType, SealReject, Fault, ReturnUnlocked,
         serviceVars, ledgerVars, clientVars, quoteVars
<1>4. CallType'
  BY <1>1, ReturnCall DEF SealReject, Fault, ReturnUnlocked, AnonymousPcs
<1> QED
  BY <1>1, <1>2, <1>3, <1>4
     DEF TypeOK, DepositsType, LedgerType, SealReject, Fault,
         ReturnUnlocked, serviceVars, routerVars, ledgerVars, clientVars,
         quoteVars

-----------------------------------------------------------------------------
(* seal_push, maintenance *)

LEMMA RecycleReadType ==
  ASSUME TypeOK, NEW s \in Slots, RecycleRead(s)
  PROVE  TypeOK'
<1>1. call[s].id \in Deposits /\ call[s].pc \notin AnonymousPcs
  BY CallFacts DEF RecycleRead, At, AnonymousPcs
<1>2. CallType'
  <2> DEFINE c == [call[s] EXCEPT !.pc = "recycle_wedge", !.bal = mixer]
  <2>1. Goto(s, "leftover") \/ call' = [call EXCEPT ![s] = c]
    BY DEF RecycleRead
  <2>2. call[s].id # None
    BY <1>1, DepositFacts, Zenon
  <2>3. CASE Goto(s, "leftover")
    BY <2>2, <2>3, PcFacts, GotoCall
  <2>4. CASE call' = [call EXCEPT ![s] = c]
    <3>1. mixer \in Nat
      BY DEF TypeOK, LedgerType
    <3>2. c \in CallRecords /\ c.id = call[s].id
      BY <3>1, PcFacts, CallFacts DEF CallRecords
    <3> HIDE DEF c
    <3> QED
      BY <2>2, <2>4, <3>2, UpdateCall, Zenon
  <2> QED
    BY <2>1, <2>3, <2>4
<1> QED
  BY <1>1, <1>2
     DEF TypeOK, DepositsType, ServiceType, LedgerType, ClientType,
         RecycleRead, serviceVars, routerVars, ledgerVars, clientVars,
         quoteVars

LEMMA RecycleWedgeType ==
  ASSUME TypeOK, NEW s \in Slots, RecycleWedge(s)
  PROVE  TypeOK'
<1>1. call[s].id \in Deposits /\ call[s].pc \notin AnonymousPcs
  BY CallFacts DEF RecycleWedge, At, AnonymousPcs
<1>2. CallType'
  <2>1. PICK shortfall \in Shortfalls :
          LET recycle == Lesser(shortfall, Monus(call[s].bal, pool_claims))
          IN  call' = [call EXCEPT
                        ![s].pc = IF recycle = 0 THEN "leftover"
                                  ELSE "recycle_burn",
                        ![s].bal = 0,
                        ![s].amt = recycle]
    BY DEF RecycleWedge
  <2> DEFINE recycle == Lesser(shortfall, Monus(call[s].bal, pool_claims))
             pc == IF recycle = 0 THEN "leftover" ELSE "recycle_burn"
             c == [call[s] EXCEPT !.pc = pc, !.bal = 0, !.amt = recycle]
  <2>2. call' = [call EXCEPT ![s] = c]
    BY <2>1
  <2>3. recycle \in Nat
    <3>1. pool_claims \in Nat
      BY DEF TypeOK, ServiceType
    <3> QED
      BY <3>1, CallFacts, ShortfallFacts, MonusNat, LesserNat
  <2>4. pc \in Pcs
    BY PcFacts
  <2> HIDE DEF recycle, pc
  <2>5. c \in CallRecords /\ c.id = call[s].id
    BY <2>3, <2>4, CallFacts DEF CallRecords
  <2> QED
    BY <1>1, <2>2, <2>5, DepositFacts, UpdateCall
<1> QED
  BY <1>1, <1>2
     DEF TypeOK, DepositsType, ServiceType, LedgerType, ClientType,
         RecycleWedge, serviceVars, routerVars, ledgerVars, clientVars,
         quoteVars

LEMMA RecycleBurnType ==
  ASSUME TypeOK, NEW s \in Slots, RecycleBurn(s)
  PROVE  TypeOK'
<1>1. call[s].id \in Deposits /\ call[s].pc \notin AnonymousPcs
  BY CallFacts DEF RecycleBurn, At, AnonymousPcs
<1>2. LedgerType'
  BY <1>1, CallFacts, AfterNat
     DEF TypeOK, LedgerType, RecycleBurn, NoFault, Fault, serviceVars,
         routerVars, clientVars, quoteVars
<1>3. ClientType'
  BY <1>1
     DEF TypeOK, ClientType, RecycleBurn, NoFault, Fault, serviceVars,
         routerVars, clientVars, quoteVars
<1>4. CallType'
  <2> DEFINE c == [call[s] EXCEPT !.pc = "leftover", !.amt = 0]
  <2>1. c \in CallRecords /\ c.id = call[s].id /\ c.pc = "leftover"
    BY <1>1, PcFacts, CallFacts DEF CallRecords, TypeOK, LedgerType
  <2>2. call' = [call EXCEPT ![s] = c]
    BY DEF RecycleBurn
  <2> QED
    BY <1>1, <2>1, <2>2, DepositFacts, UpdateCall DEF AnonymousPcs
<1> QED
  BY <1>1, <1>2, <1>3, <1>4
     DEF TypeOK, DepositsType, ServiceType, RecycleBurn, NoFault, Fault,
         serviceVars, routerVars, ledgerVars, clientVars, quoteVars

LEMMA SealLeftoverType ==
  ASSUME TypeOK, NEW s \in Slots, SealLeftover(s)
  PROVE  TypeOK'
<1>1. call[s] \in CallRecords
  BY CallFacts
<1>2. LedgerType'
  BY <1>1, DepositFacts
     DEF TypeOK, LedgerType, SealLeftover, SweepLeftover, NoFault, Fault,
         serviceVars, routerVars, clientVars, quoteVars
<1>3. ClientType'
  BY <1>1
     DEF TypeOK, ClientType, SealLeftover, SweepLeftover, NoFault, Fault,
         serviceVars, routerVars, clientVars, quoteVars
<1>4. CallType'
  BY <1>1, PcFacts, GotoCall
     DEF SealLeftover, SweepLeftover, NoFault, Fault, AnonymousPcs
<1> QED
  BY <1>1, <1>2, <1>3, <1>4
     DEF TypeOK, DepositsType, ServiceType, SealLeftover, SweepLeftover,
         NoFault, Fault, serviceVars, routerVars, ledgerVars, clientVars,
         quoteVars

LEMMA SweepReadType ==
  ASSUME TypeOK, NEW s \in Slots, SweepRead(s)
  PROVE  TypeOK'
<1>1. call[s] \in CallRecords
  BY CallFacts
<1>2. CallType'
  <2> DEFINE c == [call[s] EXCEPT !.pc = "sweep_compute", !.bal = mixer]
  <2>1. c \in CallRecords /\ c.id = call[s].id /\ c.pc = "sweep_compute"
    BY <1>1, PcFacts DEF CallRecords, TypeOK, LedgerType
  <2>2. call' = [call EXCEPT ![s] = c]
    BY DEF SweepRead
  <2> QED
    BY <1>1, <2>1, <2>2, UpdateCall DEF AnonymousPcs
<1> QED
  BY <1>1, <1>2
     DEF TypeOK, DepositsType, ServiceType, LedgerType, ClientType,
         SweepRead, serviceVars, routerVars, ledgerVars, clientVars, quoteVars

LEMMA SweepComputeType ==
  ASSUME TypeOK, NEW s \in Slots, SweepCompute(s)
  PROVE  TypeOK'
<1>1. call[s] \in CallRecords
  BY CallFacts
<1>2. CallType'
  <2> DEFINE excess == Monus(call[s].bal, pool_claims + POOL_SWEEP_THRESHOLD)
             amt == Monus(excess, LEDGER_FEE)
             c == [call[s] EXCEPT !.pc = "sweep_pay", !.bal = 0, !.amt = amt]
  <2>1. call' = [call EXCEPT ![s] = c]
    BY DEF SweepCompute
  <2>2. amt \in Nat
    <3>1. pool_claims + POOL_SWEEP_THRESHOLD \in Nat
      BY ParameterFacts DEF TypeOK, ServiceType
    <3> QED
      BY <3>1, CallFacts, ParameterFacts, MonusNat
  <2> HIDE DEF amt
  <2>3. c \in CallRecords /\ c.pc \in AnonymousPcs
    BY <2>2, PcFacts, CallFacts DEF CallRecords, AnonymousPcs
  <2> QED
    BY <2>1, <2>3, UpdateCall
<1> QED
  BY <1>1, <1>2
     DEF TypeOK, DepositsType, ServiceType, LedgerType, ClientType,
         SweepCompute, serviceVars, routerVars, ledgerVars, clientVars,
         quoteVars

LEMMA SweepPayType ==
  ASSUME TypeOK, NEW s \in Slots, SweepPay(s)
  PROVE  TypeOK'
<1>1. call[s] \in CallRecords
  BY CallFacts
<1>2. ServiceType'
  BY <1>1
     DEF TypeOK, ServiceType, SweepPay, NoFault, Fault, ReturnUnlocked,
         serviceVars, clientVars, quoteVars
<1>3. LedgerType'
  BY <1>1, CallFacts, AfterNat
     DEF TypeOK, LedgerType, SweepPay, NoFault, Fault, ReturnUnlocked,
         serviceVars, clientVars, quoteVars
<1>4. ClientType'
  BY <1>1
     DEF TypeOK, ClientType, SweepPay, NoFault, Fault, ReturnUnlocked,
         serviceVars, clientVars, quoteVars
<1>5. CallType'
  <2>1. CASE Return(s)
    BY <2>1, ReturnCall
  <2>2. CASE ~Return(s)
    <3> DEFINE c == [call[s] EXCEPT !.pc = "buffer_read", !.amt = 0]
    <3>1. call[s].id # None /\ call' = [call EXCEPT ![s] = c]
      BY <2>2 DEF SweepPay, ReturnUnlocked
    <3>2. c \in CallRecords /\ c.id = call[s].id
      BY PcFacts, CallFacts DEF CallRecords
    <3> QED
      BY <3>1, <3>2, UpdateCall
  <2> QED
    BY <2>1, <2>2
<1> QED
  BY <1>1, <1>2, <1>3, <1>4, <1>5
     DEF TypeOK, DepositsType, SweepPay, NoFault, Fault, ReturnUnlocked,
         serviceVars, routerVars, ledgerVars, clientVars, quoteVars

LEMMA BufferReadType ==
  ASSUME TypeOK, NEW s \in Slots, BufferRead(s)
  PROVE  TypeOK'
<1>1. call[s].id \in Deposits /\ call[s].pc \notin AnonymousPcs
  BY CallFacts DEF BufferRead, At, AnonymousPcs
<1>2. CallType'
  <2> DEFINE c == [call[s] EXCEPT !.pc = "buffer_pay", !.bal = fee_buf]
  <2>1. c \in CallRecords /\ c.id = call[s].id /\ c.pc = "buffer_pay"
    BY <1>1, PcFacts, CallFacts DEF CallRecords, TypeOK, LedgerType
  <2>2. call' = [call EXCEPT ![s] = c]
    BY DEF BufferRead
  <2> QED
    BY <1>1, <2>1, <2>2, DepositFacts, UpdateCall DEF AnonymousPcs
<1> QED
  BY <1>1, <1>2
     DEF TypeOK, DepositsType, ServiceType, LedgerType, ClientType,
         BufferRead, serviceVars, routerVars, ledgerVars, clientVars,
         quoteVars

LEMMA BufferPayType ==
  ASSUME TypeOK, NEW s \in Slots, BufferPay(s)
  PROVE  TypeOK'
<1>1. call[s].id \in Deposits /\ call[s].pc \notin AnonymousPcs
  BY CallFacts DEF BufferPay, At, AnonymousPcs
<1>2. ServiceType'
  BY <1>1
     DEF TypeOK, ServiceType, BufferPay, NoFault, Fault, ReturnUnlocked,
         serviceVars, clientVars, quoteVars
<1>3. LedgerType'
  <2> DEFINE bal == call[s].bal
             share == (Monus(bal, BUFFER_RESERVE) * 80) \div 100
             whole == IF bal > BUFFER_RESERVE + LEDGER_FEE
                      THEN (share \div E8S_PER_ICP) * E8S_PER_ICP ELSE 0
  <2>1. whole \in Nat
    <3>1. Monus(bal, BUFFER_RESERVE) * 80 \in Nat
      <4>1. bal \in Nat /\ BUFFER_RESERVE \in Nat
        BY CallFacts, ParameterFacts
      <4>2. Monus(bal, BUFFER_RESERVE) \in Nat
        <5> HIDE DEF bal
        <5> QED
          BY <4>1, MonusNat
      <4> QED
        BY <4>2
    <3>2. share \in Nat
      BY <3>1
    <3> HIDE DEF share
    <3>3. share \div E8S_PER_ICP \in Nat /\ E8S_PER_ICP \in Nat
      BY <3>2, UnitAssumption
    <3>4. \A a, b \in Nat : a * b \in Nat
      OBVIOUS
    <3> QED
      BY <3>3, <3>4
  <2>2. \/ UNCHANGED <<fee_buf, mixer>>
        \/ /\ Covers(fee_buf, whole) /\ fee_buf' = After(fee_buf, whole)
           /\ mixer' = mixer + whole
    BY DEF BufferPay
  <2> HIDE DEF whole
  <2>3. fee_buf' \in Nat /\ mixer' \in Nat
    BY <2>1, <2>2, PayFromBuffer
  <2> QED
    BY <2>3 DEF TypeOK, LedgerType, BufferPay
<1>4. ClientType'
  BY DEF TypeOK, ClientType, BufferPay, NoFault, Fault, clientVars, quoteVars
<1>5. CallType'
  BY <1>1, ReturnCall
     DEF BufferPay, NoFault, Fault, ReturnUnlocked, AnonymousPcs
<1> QED
  BY <1>1, <1>2, <1>3, <1>4, <1>5
     DEF TypeOK, DepositsType, BufferPay, NoFault, Fault, ReturnUnlocked,
         serviceVars, routerVars, ledgerVars, clientVars, quoteVars

-----------------------------------------------------------------------------
(* finalize *)

LEMMA FinalizePreloadType ==
  ASSUME TypeOK, NEW s \in Slots, FinalizePreload(s)
  PROVE  TypeOK'
<1>1. call[s].id \in Deposits /\ call[s].pc \notin AnonymousPcs
  BY CallFacts DEF FinalizePreload, FromBuffer, At, AnonymousPcs
<1>2. ServiceType'
  BY <1>1
     DEF TypeOK, ServiceType, FinalizePreload, FromBuffer, NoFault, Fault,
         ReturnUnlocked, serviceVars, clientVars, quoteVars
<1>3. LedgerType'
  BY <1>1, ParameterFacts, AfterNat
     DEF TypeOK, LedgerType, FinalizePreload, FromBuffer, NoFault, Fault,
         ReturnUnlocked, serviceVars, clientVars, quoteVars
<1>4. ClientType'
  BY <1>1
     DEF TypeOK, ClientType, FinalizePreload, FromBuffer, NoFault, Fault,
         ReturnUnlocked, serviceVars, clientVars, quoteVars
<1>5. CallType'
  BY <1>1, PcFacts, DepositFacts, GotoCall, ReturnCall
     DEF FinalizePreload, FromBuffer, NoFault, Fault, ReturnUnlocked,
         AnonymousPcs
<1> QED
  BY <1>1, <1>2, <1>3, <1>4, <1>5
     DEF TypeOK, DepositsType, FinalizePreload, FromBuffer, NoFault,
         Fault, ReturnUnlocked, serviceVars, routerVars, ledgerVars,
         clientVars, quoteVars

LEMMA FinalizeBalanceType ==
  ASSUME TypeOK, NEW s \in Slots, FinalizeBalance(s)
  PROVE  TypeOK'
<1>1. call[s].id \in Deposits /\ call[s].pc \notin AnonymousPcs
  BY CallFacts DEF FinalizeBalance, ReadMixer, At, AnonymousPcs
<1>2. CallType'
  <2> DEFINE c == [call[s] EXCEPT !.pc = "fin_topup", !.bal = mixer]
  <2>1. c \in CallRecords /\ c.id = call[s].id /\ c.pc = "fin_topup"
    BY <1>1, PcFacts, CallFacts DEF CallRecords, TypeOK, LedgerType
  <2>2. call' = [call EXCEPT ![s] = c]
    BY DEF FinalizeBalance, ReadMixer
  <2> QED
    BY <1>1, <2>1, <2>2, DepositFacts, UpdateCall DEF AnonymousPcs
<1> QED
  BY <1>1, <1>2
     DEF TypeOK, DepositsType, ServiceType, LedgerType, ClientType,
         FinalizeBalance, ReadMixer, serviceVars, routerVars, ledgerVars,
         clientVars, quoteVars

LEMMA FinalizeTopUpType ==
  ASSUME TypeOK, NEW s \in Slots, FinalizeTopUp(s)
  PROVE  TypeOK'
<1>1. call[s].id \in Deposits /\ call[s].pc \notin AnonymousPcs
  BY CallFacts DEF FinalizeTopUp, TopUp, FromBuffer, At, AnonymousPcs
<1>2. ServiceType'
  BY <1>1
     DEF TypeOK, ServiceType, FinalizeTopUp, TopUp, FromBuffer, NoFault,
         Fault, ReturnUnlocked, serviceVars, clientVars, quoteVars
<1>3. LedgerType'
  <2> DEFINE need == Amount[call[s].id] + LEDGER_FEE
  <2>1. CASE call[s].bal < need
    <3>1. need - call[s].bal \in Nat
      BY <1>1, <2>1, CallFacts, DepositFacts, ParameterFacts
    <3>2. fee_buf' \in Nat /\ mixer' \in Nat
      BY <2>1, <3>1, PayFromBuffer DEF FinalizeTopUp, TopUp, FromBuffer
    <3> QED
      BY <3>2 DEF TypeOK, LedgerType, FinalizeTopUp
  <2>2. CASE ~(call[s].bal < need)
    BY <2>2 DEF TypeOK, LedgerType, FinalizeTopUp, TopUp
  <2> QED
    BY <2>1, <2>2
<1>4. ClientType'
  BY <1>1
     DEF TypeOK, ClientType, FinalizeTopUp, TopUp, FromBuffer, NoFault,
         Fault, ReturnUnlocked, serviceVars, clientVars, quoteVars
<1>5. CallType'
  BY <1>1, PcFacts, DepositFacts, GotoCall, ReturnCall
     DEF FinalizeTopUp, TopUp, FromBuffer, NoFault, Fault, ReturnUnlocked,
         AnonymousPcs
<1> QED
  BY <1>1, <1>2, <1>3, <1>4, <1>5
     DEF TypeOK, DepositsType, FinalizeTopUp, TopUp, FromBuffer, NoFault,
         Fault, ReturnUnlocked, serviceVars, routerVars, ledgerVars,
         clientVars, quoteVars

LEMMA FinalizeEnsureType ==
  ASSUME TypeOK, NEW s \in Slots, FinalizeEnsure(s)
  PROVE  TypeOK'
<1>1. call[s].id \in Deposits /\ call[s].pc \notin AnonymousPcs
  BY CallFacts DEF FinalizeEnsure, ReadMixer, At, AnonymousPcs
<1>2. CallType'
  <2> DEFINE c == [call[s] EXCEPT !.pc = "fin_deficit", !.bal = mixer]
  <2>1. c \in CallRecords /\ c.id = call[s].id /\ c.pc = "fin_deficit"
    BY <1>1, PcFacts, CallFacts DEF CallRecords, TypeOK, LedgerType
  <2>2. call' = [call EXCEPT ![s] = c]
    BY DEF FinalizeEnsure, ReadMixer
  <2> QED
    BY <1>1, <2>1, <2>2, DepositFacts, UpdateCall DEF AnonymousPcs
<1> QED
  BY <1>1, <1>2
     DEF TypeOK, DepositsType, ServiceType, LedgerType, ClientType,
         FinalizeEnsure, ReadMixer, serviceVars, routerVars, ledgerVars,
         clientVars, quoteVars

LEMMA FinalizeDeficitType ==
  ASSUME TypeOK, NEW s \in Slots, FinalizeDeficit(s)
  PROVE  TypeOK'
<1>1. call[s].id \in Deposits /\ call[s].pc \notin AnonymousPcs
  BY CallFacts DEF FinalizeDeficit, TopUp, FromBuffer, At, AnonymousPcs
<1>2. ServiceType'
  BY <1>1
     DEF TypeOK, ServiceType, FinalizeDeficit, TopUp, FromBuffer, NoFault,
         Fault, ReturnUnlocked, serviceVars, clientVars, quoteVars
<1>3. LedgerType'
  <2> DEFINE need == Amount[call[s].id] + LEDGER_FEE
  <2>1. CASE call[s].bal < need
    <3>1. need - call[s].bal \in Nat
      BY <1>1, <2>1, CallFacts, DepositFacts, ParameterFacts
    <3>2. fee_buf' \in Nat /\ mixer' \in Nat
      BY <2>1, <3>1, PayFromBuffer DEF FinalizeDeficit, TopUp, FromBuffer
    <3> QED
      BY <3>2 DEF TypeOK, LedgerType, FinalizeDeficit
  <2>2. CASE ~(call[s].bal < need)
    BY <2>2 DEF TypeOK, LedgerType, FinalizeDeficit, TopUp
  <2> QED
    BY <2>1, <2>2
<1>4. ClientType'
  BY <1>1
     DEF TypeOK, ClientType, FinalizeDeficit, TopUp, FromBuffer, NoFault,
         Fault, ReturnUnlocked, serviceVars, clientVars, quoteVars
<1>5. CallType'
  BY <1>1, PcFacts, DepositFacts, GotoCall, ReturnCall
     DEF FinalizeDeficit, TopUp, FromBuffer, NoFault, Fault,
         ReturnUnlocked, AnonymousPcs
<1> QED
  BY <1>1, <1>2, <1>3, <1>4, <1>5
     DEF TypeOK, DepositsType, FinalizeDeficit, TopUp, FromBuffer,
         NoFault, Fault, ReturnUnlocked, serviceVars, routerVars, ledgerVars,
         clientVars, quoteVars

LEMMA FinalizeTransferType ==
  ASSUME TypeOK, NEW s \in Slots, FinalizeTransfer(s)
  PROVE  TypeOK'
<1>1. call[s].id \in Deposits /\ call[s].pc \notin AnonymousPcs
  BY CallFacts DEF FinalizeTransfer, At, AnonymousPcs
<1>2. ServiceType'
  BY <1>1
     DEF TypeOK, ServiceType, FinalizeTransfer, NoFault, Fault,
         ReturnUnlocked, serviceVars, clientVars, quoteVars
<1>3. LedgerType'
  <2>1. Amount[call[s].id] \in Nat
    BY <1>1, DepositFacts
  <2>2. mixer' \in Nat
    BY <2>1, PayMixer DEF FinalizeTransfer
  <2>3. bob' \in [Deposits -> Nat]
    BY <1>1, <2>1 DEF TypeOK, LedgerType, FinalizeTransfer
  <2> QED
    BY <2>2, <2>3 DEF TypeOK, LedgerType, FinalizeTransfer
<1>4. ClientType'
  BY <1>1
     DEF TypeOK, ClientType, FinalizeTransfer, NoFault, Fault,
         ReturnUnlocked, serviceVars, clientVars, quoteVars
<1>5. CallType'
  BY <1>1, PcFacts, DepositFacts, GotoCall, ReturnCall
     DEF FinalizeTransfer, NoFault, Fault, ReturnUnlocked, AnonymousPcs
<1> QED
  BY <1>1, <1>2, <1>3, <1>4, <1>5
     DEF TypeOK, DepositsType, FinalizeTransfer, NoFault, Fault,
         ReturnUnlocked, serviceVars, routerVars, ledgerVars, clientVars,
         quoteVars

LEMMA FinalizeCommitType ==
  ASSUME TypeOK, NEW s \in Slots, FinalizeCommit(s)
  PROVE  TypeOK'
<1>1. call[s].id \in Deposits /\ call[s].pc \notin AnonymousPcs
  BY CallFacts DEF FinalizeCommit, At, AnonymousPcs
<1>2. DepositsType'
  BY <1>1
     DEF TypeOK, DepositsType, FinalizeCommit, ReturnUnlocked, NoDeposit,
         DepositStates, serviceVars, ledgerVars, clientVars, quoteVars
<1>3. ServiceType'
  BY <1>1, DepositFacts, MonusNat
     DEF TypeOK, ServiceType, FinalizeCommit, ReturnUnlocked, NoDeposit,
         serviceVars, ledgerVars, clientVars, quoteVars
<1>4. CallType'
  BY <1>1, ReturnCall DEF FinalizeCommit, ReturnUnlocked, AnonymousPcs
<1> QED
  BY <1>1, <1>2, <1>3, <1>4
     DEF TypeOK, LedgerType, ClientType, FinalizeCommit, ReturnUnlocked,
         serviceVars, routerVars, ledgerVars, clientVars, quoteVars

LEMMA FinalizeRejectType ==
  ASSUME TypeOK, NEW s \in Slots, FinalizeReject(s)
  PROVE  TypeOK'
<1>1. call[s].id \in Deposits /\ call[s].pc \notin AnonymousPcs
  BY CallFacts DEF FinalizeReject, At, AnonymousPcs
<1>2. ServiceType'
  BY <1>1
     DEF TypeOK, ServiceType, FinalizeReject, Fault, ReturnUnlocked,
         serviceVars, ledgerVars, clientVars, quoteVars
<1>3. ClientType'
  BY <1>1
     DEF TypeOK, ClientType, FinalizeReject, Fault, ReturnUnlocked,
         serviceVars, ledgerVars, clientVars, quoteVars
<1>4. CallType'
  BY <1>1, ReturnCall DEF FinalizeReject, Fault, ReturnUnlocked, AnonymousPcs
<1> QED
  BY <1>1, <1>2, <1>3, <1>4
     DEF TypeOK, DepositsType, LedgerType, FinalizeReject, Fault,
         ReturnUnlocked, serviceVars, routerVars, ledgerVars, clientVars,
         quoteVars

-----------------------------------------------------------------------------
(* reclaim *)

LEMMA ReclaimBalanceType ==
  ASSUME TypeOK, NEW s \in Slots, ReclaimBalance(s)
  PROVE  TypeOK'
<1>1. call[s].id \in Deposits /\ call[s].pc \notin AnonymousPcs
  BY CallFacts DEF ReclaimBalance, At, AnonymousPcs
<1>2. CallType'
  <2> DEFINE c == [call[s] EXCEPT !.pc = "reclaim_transfer",
                                 !.bal = sub[call[s].id]]
  <2>1. c \in CallRecords /\ c.id = call[s].id /\ c.pc = "reclaim_transfer"
    BY <1>1, PcFacts, CallFacts DEF CallRecords, TypeOK, LedgerType
  <2>2. call' = [call EXCEPT ![s] = c]
    BY DEF ReclaimBalance
  <2> QED
    BY <1>1, <2>1, <2>2, DepositFacts, UpdateCall DEF AnonymousPcs
<1> QED
  BY <1>1, <1>2
     DEF TypeOK, DepositsType, ServiceType, LedgerType, ClientType,
         ReclaimBalance, serviceVars, routerVars, ledgerVars, clientVars,
         quoteVars

LEMMA ReclaimTransferType ==
  ASSUME TypeOK, NEW s \in Slots, ReclaimTransfer(s)
  PROVE  TypeOK'
<1>1. call[s].id \in Deposits /\ call[s].pc \notin AnonymousPcs
  BY CallFacts DEF ReclaimTransfer, At, AnonymousPcs
<1>2. ServiceType'
  BY <1>1
     DEF TypeOK, ServiceType, ReclaimTransfer, NoFault, Fault,
         ReturnUnlocked, serviceVars, clientVars, quoteVars
<1>3. LedgerType'
  <2> DEFINE refund == Monus(call[s].bal, LEDGER_FEE)
  <2>1. refund \in Nat
    BY CallFacts, ParameterFacts, MonusNat
  <2>2. /\ \/ UNCHANGED sub
           \/ /\ Covers(sub[call[s].id], refund)
              /\ sub' = [sub EXCEPT ![call[s].id] = After(@, refund)]
        /\ \/ UNCHANGED alice
           \/ alice' = [alice EXCEPT ![call[s].id] = @ + refund]
    BY DEF ReclaimTransfer
  <2> HIDE DEF refund
  <2>3. sub' \in [Deposits -> Nat]
    BY <1>1, <2>1, <2>2, PaySub
  <2>4. alice' \in [Deposits -> Nat]
    BY <1>1, <2>1, <2>2 DEF TypeOK, LedgerType
  <2> QED
    BY <2>3, <2>4 DEF TypeOK, LedgerType, ReclaimTransfer
<1>4. ClientType'
  BY DEF TypeOK, ClientType, ReclaimTransfer, NoFault, Fault, clientVars,
         quoteVars
<1>5. CallType'
  BY <1>1, PcFacts, DepositFacts, GotoCall, ReturnCall
     DEF ReclaimTransfer, NoFault, Fault, ReturnUnlocked, AnonymousPcs
<1> QED
  BY <1>1, <1>2, <1>3, <1>4, <1>5
     DEF TypeOK, DepositsType, ReclaimTransfer, NoFault, Fault,
         ReturnUnlocked, serviceVars, routerVars, ledgerVars, clientVars,
         quoteVars

LEMMA ReclaimCommitType ==
  ASSUME TypeOK, NEW s \in Slots, ReclaimCommit(s)
  PROVE  TypeOK'
<1>1. call[s].id \in Deposits /\ call[s].pc \notin AnonymousPcs
  BY CallFacts DEF ReclaimCommit, At, AnonymousPcs
<1>2. DepositsType'
  BY <1>1
     DEF TypeOK, DepositsType, ReclaimCommit, NoDeposit, DepositStates,
         serviceVars, ledgerVars, clientVars, quoteVars
<1>3. ServiceType'
  BY <1>1
     DEF TypeOK, ServiceType, ReclaimCommit, NoDeposit, serviceVars,
         ledgerVars, clientVars, quoteVars
<1>4. CallType'
  <2> DEFINE c == [call[s] EXCEPT !.pc = "reclaim_leftover", !.bal = 0]
  <2>1. c \in CallRecords /\ c.id = call[s].id /\ c.pc = "reclaim_leftover"
    BY <1>1, PcFacts, CallFacts DEF CallRecords, TypeOK, LedgerType
  <2>2. call' = [call EXCEPT ![s] = c]
    BY DEF ReclaimCommit
  <2> QED
    BY <1>1, <2>1, <2>2, DepositFacts, UpdateCall DEF AnonymousPcs
<1> QED
  BY <1>1, <1>2, <1>3, <1>4
     DEF TypeOK, LedgerType, ClientType, ReclaimCommit, serviceVars,
         routerVars, ledgerVars, clientVars, quoteVars

LEMMA ReclaimLeftoverType ==
  ASSUME TypeOK, NEW s \in Slots, ReclaimLeftover(s)
  PROVE  TypeOK'
<1>1. call[s].id \in Deposits /\ call[s].pc \notin AnonymousPcs
  BY CallFacts DEF ReclaimLeftover, SweepLeftover, At, AnonymousPcs
<1>2. LedgerType'
  BY <1>1, DepositFacts, ParameterFacts
     DEF TypeOK, LedgerType, ReclaimLeftover, SweepLeftover, NoFault,
         Fault, serviceVars, routerVars, clientVars, quoteVars
<1>3. ClientType'
  BY <1>1
     DEF TypeOK, ClientType, ReclaimLeftover, SweepLeftover, NoFault,
         Fault, serviceVars, routerVars, clientVars, quoteVars
<1>4. CallType'
  BY <1>1, ReturnCall
     DEF ReclaimLeftover, SweepLeftover, NoFault, Fault, AnonymousPcs
<1> QED
  BY <1>1, <1>2, <1>3, <1>4
     DEF TypeOK, DepositsType, ServiceType, ReclaimLeftover,
         SweepLeftover, NoFault, Fault, serviceVars, routerVars, ledgerVars,
         clientVars, quoteVars

-----------------------------------------------------------------------------
(* Calls that arrive *)

LEMMA EnsureSecretType ==
  ASSUME TypeOK, NEW s \in Slots, NEW fetching \in Pcs, NEW next \in Pcs,
         NEW d \in Deposits \cup {None}, EnsureSecret(s, fetching, next, d),
         d = None => {fetching, next} \subseteq AnonymousPcs
  PROVE  TypeOK'
<1>1. \E pc \in {fetching, next} :
        call' = [call EXCEPT ![s].pc = pc, ![s].id = d]
  BY DEF EnsureSecret
<1>2. PICK pc \in {fetching, next} :
        call' = [call EXCEPT ![s].pc = pc, ![s].id = d]
  BY <1>1
<1> DEFINE c == [call[s] EXCEPT !.pc = pc, !.id = d]
<1>3. c \in CallRecords /\ c.id = d /\ c.pc = pc
  BY CallFacts DEF CallRecords
<1>4. call' = [call EXCEPT ![s] = c]
  BY <1>2
<1>5. CallType'
  BY <1>3, <1>4, UpdateCall
<1>6. ServiceType'
  BY DEF TypeOK, ServiceType, EnsureSecret
<1>7. ClientType'
  BY DEF TypeOK, ClientType, EnsureSecret, Called, quoteVars
<1> QED
  BY <1>5, <1>6, <1>7
     DEF TypeOK, DepositsType, LedgerType, EnsureSecret, ledgerVars

LEMMA AllocCallType ==
  ASSUME TypeOK, NEW s \in Slots, AllocCall(s)
  PROVE  TypeOK'
  BY PcFacts, EnsureSecretType DEF AllocCall, AnonymousPcs

LEMMA PrepareCallType ==
  ASSUME TypeOK, NEW s \in Slots, NEW d \in Deposits, PrepareCall(s, d)
  PROVE  TypeOK'
  BY PcFacts, DepositFacts, EnsureSecretType DEF PrepareCall

LEMMA SealCallType ==
  ASSUME TypeOK, NEW s \in Slots, NEW d \in Deposits, SealCall(s, d)
  PROVE  TypeOK'
<1> DEFINE c == [call[s] EXCEPT !.pc = "seal_balance", !.id = d,
                                !.spawn_fee = deposits[d].spawn_fee]
<1>1. deposits[d].spawn_fee \in Nat
  BY DEF TypeOK, DepositsType
<1>2. c \in CallRecords /\ c.id = d
  BY <1>1, PcFacts, CallFacts DEF CallRecords
<1>3. call' = [call EXCEPT ![s] = c]
  BY DEF SealCall
<1>4. CallType'
  BY <1>2, <1>3, DepositFacts, UpdateCall
<1>5. ServiceType'
  BY DEF TypeOK, ServiceType, SealCall, serviceVars
<1>6. ClientType'
  BY DEF TypeOK, ClientType, SealCall, Called, quoteVars
<1> QED
  BY <1>4, <1>5, <1>6
     DEF TypeOK, DepositsType, LedgerType, SealCall, ledgerVars

LEMMA FinalizeCallType ==
  ASSUME TypeOK, NEW s \in Slots, NEW d \in Deposits, FinalizeCall(s, d)
  PROVE  TypeOK'
<1> DEFINE c == [call[s] EXCEPT !.pc = "fin_preload", !.id = d]
<1>1. c \in CallRecords /\ c.id = d
  BY PcFacts, CallFacts DEF CallRecords
<1>2. call' = [call EXCEPT ![s] = c]
  BY DEF FinalizeCall
<1>3. CallType'
  BY <1>1, <1>2, DepositFacts, UpdateCall
<1>4. ServiceType'
  BY DEF TypeOK, ServiceType, FinalizeCall, serviceVars
<1>5. ClientType'
  BY DEF TypeOK, ClientType, FinalizeCall, Called, quoteVars
<1> QED
  BY <1>3, <1>4, <1>5
     DEF TypeOK, DepositsType, LedgerType, FinalizeCall, ledgerVars

LEMMA ReclaimCallType ==
  ASSUME TypeOK, NEW s \in Slots, NEW d \in Deposits, ReclaimCall(s, d)
  PROVE  TypeOK'
<1> DEFINE c == [call[s] EXCEPT !.pc = "reclaim_balance", !.id = d]
<1>1. c \in CallRecords /\ c.id = d
  BY PcFacts, CallFacts DEF CallRecords
<1>2. call' = [call EXCEPT ![s] = c]
  BY DEF ReclaimCall
<1>3. CallType'
  BY <1>1, <1>2, DepositFacts, UpdateCall
<1>4. ServiceType'
  BY DEF TypeOK, ServiceType, ReclaimCall, serviceVars
<1>5. ClientType'
  BY DEF TypeOK, ClientType, ReclaimCall, Called, quoteVars
<1> QED
  BY <1>3, <1>4, <1>5
     DEF TypeOK, DepositsType, LedgerType, ReclaimCall, ledgerVars

LEMMA AdminSweepPoolType ==
  ASSUME TypeOK, NEW s \in Slots, AdminSweepPool(s)
  PROVE  TypeOK'
<1>1. CallType'
  BY PcFacts, GotoCall DEF AdminSweepPool, AnonymousPcs
<1>2. ClientType'
  BY DEF TypeOK, ClientType, AdminSweepPool, Called, quoteVars
<1> QED
  BY <1>1, <1>2
     DEF TypeOK, DepositsType, ServiceType, LedgerType, AdminSweepPool,
         routerVars, serviceVars, ledgerVars

-----------------------------------------------------------------------------
(* The environment *)

LEMMA FundType ==
  ASSUME TypeOK, NEW d \in Deposits, Fund(d)
  PROVE  TypeOK'
<1>1. RouterDeposit(Amount[d], quote[d]) \in Nat
  BY DepositFacts, ParameterFacts DEF TypeOK, ClientType, RouterDeposit
<1>2. sub' \in [Deposits -> Nat]
  BY <1>1 DEF TypeOK, LedgerType, Fund
<1>3. LedgerType'
  BY <1>2 DEF TypeOK, LedgerType, Fund
<1>4. ClientType'
  BY DEF TypeOK, ClientType, Fund
<1> QED
  BY <1>3, <1>4
     DEF TypeOK, DepositsType, ServiceType, CallType, Fund, routerVars,
         serviceVars

LEMMA ExpireType ==
  ASSUME TypeOK, NEW d \in Deposits, Expire(d)
  PROVE  TypeOK'
  BY DEF TypeOK, DepositsType, ServiceType, LedgerType, ClientType, CallType,
         Expire, routerVars, serviceVars, ledgerVars

LEMMA SetPausedType ==
  ASSUME TypeOK, SetPaused
  PROVE  TypeOK'
  BY DEF TypeOK, DepositsType, ServiceType, LedgerType, ClientType, CallType,
         SetPaused, ledgerVars, clientVars, quoteVars

LEMMA AdminClearLockType ==
  ASSUME TypeOK, NEW d \in Deposits, AdminClearLock(d)
  PROVE  TypeOK'
  BY DEF TypeOK, DepositsType, ServiceType, LedgerType, ClientType, CallType,
         AdminClearLock, serviceVars, ledgerVars, clientVars, quoteVars

LEMMA AdminClearDepositType ==
  ASSUME TypeOK, NEW d \in Deposits, AdminClearDeposit(d)
  PROVE  TypeOK'
<1>1. NoDeposit \in [state : DepositStates, amount : Nat, spawn_fee : Nat]
  BY DEF NoDeposit, DepositStates
<1>2. DepositsType'
  BY <1>1 DEF TypeOK, DepositsType, AdminClearDeposit
<1>3. pool_claims' \in Nat
  BY MonusNat DEF TypeOK, DepositsType, ServiceType, AdminClearDeposit
<1>4. ServiceType'
  BY <1>3 DEF TypeOK, ServiceType, AdminClearDeposit, serviceVars
<1> QED
  BY <1>2, <1>4
     DEF TypeOK, LedgerType, ClientType, CallType, AdminClearDeposit,
         ledgerVars, clientVars, quoteVars

LEMMA UpgradeType ==
  ASSUME TypeOK, Upgrade
  PROVE  TypeOK'
<1>1. NoDeposit \in [state : DepositStates, amount : Nat, spawn_fee : Nat]
  BY DEF NoDeposit, DepositStates
<1>2. DepositsType'
  BY <1>1 DEF TypeOK, DepositsType, Upgrade
<1> QED
  BY <1>2
     DEF TypeOK, ServiceType, LedgerType, ClientType, CallType, Upgrade,
         serviceVars, ledgerVars, clientVars, quoteVars

-----------------------------------------------------------------------------
(* The specification *)

LEMMA InitType == Init => TypeOK
<1> SUFFICES ASSUME Init PROVE TypeOK
  OBVIOUS
<1>1. /\ Liquidity \in Nat /\ MaxFaults \in Nat /\ MaxCalls \in Nat
      /\ SecretReady \in BOOLEAN
  BY RouterAssumption
<1>2. NoDeposit \in [state : DepositStates, amount : Nat, spawn_fee : Nat]
  BY DEF NoDeposit, DepositStates
<1>3. Idle \in CallRecords /\ Idle.pc \in AnonymousPcs
  BY PcFacts DEF CallRecords, Idle, AnonymousPcs
<1>4. DepositsType
  BY <1>2 DEF Init, DepositsType
<1>5. CallType
  BY <1>3 DEF Init, CallType
<1>6. ServiceType
  BY <1>1 DEF Init, ServiceType
<1>7. LedgerType
  BY <1>1 DEF Init, LedgerType
<1>8. ClientType
  BY <1>1 DEF Init, ClientType
<1> QED
  BY <1>4, <1>5, <1>6, <1>7, <1>8 DEF TypeOK

LEMMA ContinueType ==
  ASSUME TypeOK, NEW s \in Slots, Continue(s)
  PROVE  TypeOK'
<1>1. CASE AllocStep(s)
  BY <1>1, AllocSecretType, AllocCheckType, AllocRateType DEF AllocStep
<1>2. CASE PrepareStep(s)
  BY <1>2, PrepareSecretType, PrepareCheckType, PrepareBalanceType,
     PrepareRateType, PrepareConvertType, PrepareNotifyType, PrepareSpawnType,
     PrepareTopUpsType, PrepareRejectType
     DEF PrepareStep
<1>3. CASE SealStep(s)
  BY <1>3, SealBalanceType, SealRateType, SealComputeType, SealTransferType,
     SealConvertType, SealCommitType, SealRejectType
     DEF SealStep
<1>4. CASE MaintenanceStep(s)
  BY <1>4, RecycleReadType, RecycleWedgeType, RecycleBurnType,
     SealLeftoverType, SweepReadType, SweepComputeType, SweepPayType,
     BufferReadType, BufferPayType
     DEF MaintenanceStep
<1>5. CASE FinalizeStep(s)
  BY <1>5, FinalizePreloadType, FinalizeBalanceType, FinalizeTopUpType,
     FinalizeEnsureType, FinalizeDeficitType, FinalizeTransferType,
     FinalizeCommitType, FinalizeRejectType
     DEF FinalizeStep
<1>6. CASE ReclaimStep(s)
  BY <1>6, ReclaimBalanceType, ReclaimTransferType, ReclaimCommitType,
     ReclaimLeftoverType
     DEF ReclaimStep
<1> QED
  BY <1>1, <1>2, <1>3, <1>4, <1>5, <1>6 DEF Continue

LEMMA NextType == TypeOK /\ [Next]_vars => TypeOK'
<1> SUFFICES ASSUME TypeOK, [Next]_vars PROVE TypeOK'
  OBVIOUS
<1>1. ASSUME NEW s \in Slots, Start(s) PROVE TypeOK'
  BY <1>1, AllocCallType, AdminSweepPoolType, PrepareCallType, SealCallType,
     FinalizeCallType, ReclaimCallType
     DEF Start
<1>2. CASE Environment
  BY <1>2, SetPausedType, UpgradeType, FundType, ExpireType,
     AdminClearLockType, AdminClearDepositType
     DEF Environment
<1>3. CASE UNCHANGED vars
  BY <1>3
     DEF vars, routerVars, serviceVars, ledgerVars, clientVars, quoteVars,
         TypeOK, DepositsType, ServiceType, LedgerType, ClientType, CallType
<1> QED
  BY <1>1, <1>2, <1>3, ContinueType DEF Next

\* Whatever the deposits, the amounts, the rates and the number of calls in
\* flight, every execution of the Router keeps its state well typed; above all
\* no account, no claim and no amount in flight is ever negative, although the
\* balances are read, divided and paid out across awaits.
THEOREM TypeCorrect == Spec => []TypeOK
<1>1. Init => TypeOK
  BY InitType
<1>2. TypeOK /\ [Next]_vars => TypeOK'
  BY NextType
<1> QED
  BY <1>1, <1>2, PTL DEF Spec

-----------------------------------------------------------------------------
(* Locks.  Every step of a call keeps, takes, frees or abandons the lock of *)
(* its deposit, and the steps that abandon one are named.                   *)

\* What a step of the call in slot s does to its lock.
Others(s) == \A t \in Slots \ {s} : call'[t] = call[t]
Keeps(s) == /\ locks' = locks
            /\ Holds(s)' <=> Holds(s)
            /\ Holds(s) => call'[s].id = call[s].id
Takes(s) == /\ ~Holds(s) /\ Holds(s)'
            /\ call'[s].id \notin locks
            /\ locks' = locks \cup {call'[s].id}
Frees(s) == /\ Holds(s) /\ ~Holds(s)'
            /\ locks' = locks \ {call[s].id}
Abandons(s) == /\ Holds(s) /\ ~Holds(s)'
               /\ locks' = locks
               /\ ~secret \/ "reject" \in FaultKinds
LockStep(s) == /\ Others(s)
               /\ call'[s].pc = "idle" => call'[s].id = None
               /\ Keeps(s) \/ Takes(s) \/ Frees(s) \/ Abandons(s)

\* A free slot holds no deposit.
IdleCalls == \A s \in Slots : At(s, "idle") => call[s].id = None

-----------------------------------------------------------------------------
LEMMA LockedPcFacts ==
  /\ "prepare_balance" \in LockedPcs
  /\ "prepare_rate" \in LockedPcs
  /\ "prepare_convert" \in LockedPcs
  /\ "prepare_notify" \in LockedPcs
  /\ "prepare_spawn" \in LockedPcs
  /\ "prepare_topups" \in LockedPcs
  /\ "seal_balance" \in LockedPcs
  /\ "seal_rate" \in LockedPcs
  /\ "seal_compute" \in LockedPcs
  /\ "seal_transfer" \in LockedPcs
  /\ "recycle_read" \in LockedPcs
  /\ "recycle_wedge" \in LockedPcs
  /\ "recycle_burn" \in LockedPcs
  /\ "leftover" \in LockedPcs
  /\ "sweep_read" \in LockedPcs
  /\ "sweep_compute" \in LockedPcs
  /\ "sweep_pay" \in LockedPcs
  /\ "buffer_read" \in LockedPcs
  /\ "buffer_pay" \in LockedPcs
  /\ "fin_preload" \in LockedPcs
  /\ "fin_balance" \in LockedPcs
  /\ "fin_topup" \in LockedPcs
  /\ "fin_ensure" \in LockedPcs
  /\ "fin_deficit" \in LockedPcs
  /\ "fin_transfer" \in LockedPcs
  /\ "fin_commit" \in LockedPcs
  /\ "reclaim_balance" \in LockedPcs
  /\ "reclaim_transfer" \in LockedPcs
  /\ "reclaim_commit" \in LockedPcs
  BY DEF LockedPcs, PreparePcs, SealPcs, TailPcs, FinalizePcs, ReclaimPcs

LEMMA FreePcFacts ==
  /\ "idle" \notin LockedPcs
  /\ "alloc_rand" \notin LockedPcs
  /\ "alloc_check" \notin LockedPcs
  /\ "alloc_rate" \notin LockedPcs
  /\ "prepare_rand" \notin LockedPcs
  /\ "prepare_check" \notin LockedPcs
  /\ "reclaim_leftover" \notin LockedPcs
  BY DEF LockedPcs, PreparePcs, SealPcs, TailPcs, FinalizePcs, ReclaimPcs

\* A call past its lock holds it, unless it is an admin_sweep_pool.
LEMMA HoldsLock ==
  ASSUME TypeOK, NEW s \in Slots, call[s].pc \in LockedPcs,
         call[s].pc \notin AnonymousPcs
  PROVE  Holds(s)
  BY CallFacts, DepositFacts DEF Holds

LEMMA CallUpdated ==
  ASSUME TypeOK, NEW s \in Slots, NEW c, call' = [call EXCEPT ![s] = c]
  PROVE  Others(s) /\ call'[s] = c
  BY DEF TypeOK, CallType, Others

LEMMA GotoUpdates ==
  ASSUME TypeOK, NEW s \in Slots, NEW pc, Goto(s, pc)
  PROVE  Others(s) /\ call'[s].pc = pc /\ call'[s].id = call[s].id
<1> DEFINE c == [call[s] EXCEPT !.pc = pc]
<1>1. call' = [call EXCEPT ![s] = c]
  BY DEF Goto
<1>2. c.pc = pc /\ c.id = call[s].id
  BY CallFacts DEF CallRecords
<1> QED
  BY <1>1, <1>2, CallUpdated

LEMMA ReturnUpdates ==
  ASSUME TypeOK, NEW s \in Slots, Return(s)
  PROVE  /\ Others(s) /\ ~Holds(s)'
         /\ call'[s].id = None
<1>1. Others(s) /\ call'[s] = Idle
  BY CallUpdated DEF Return
<1> QED
  BY <1>1, FreePcFacts DEF Holds, Idle

\* A call that goes on inside its critical section.
LEMMA MoveKeeps ==
  ASSUME TypeOK, NEW s \in Slots, UNCHANGED locks, Others(s),
         call[s].pc \in LockedPcs, call'[s].pc \in LockedPcs,
         call'[s].id = call[s].id
  PROVE  LockStep(s)
  BY FreePcFacts DEF LockStep, Keeps, Holds

LEMMA GotoKeeps ==
  ASSUME TypeOK, NEW s \in Slots, NEW pc, Goto(s, pc), UNCHANGED locks,
         call[s].pc \in LockedPcs <=> pc \in LockedPcs, pc # "idle"
  PROVE  LockStep(s)
  BY GotoUpdates DEF LockStep, Keeps, Holds

LEMMA ReturnFrees ==
  ASSUME TypeOK, NEW s \in Slots, Holds(s), ReturnUnlocked(s)
  PROVE  LockStep(s)
  BY ReturnUpdates DEF LockStep, Frees, ReturnUnlocked

LEMMA ReturnKeeps ==
  ASSUME TypeOK, NEW s \in Slots, ~Holds(s), Return(s), UNCHANGED locks
  PROVE  LockStep(s)
  BY ReturnUpdates DEF LockStep, Keeps

LEMMA ReturnAbandons ==
  ASSUME TypeOK, NEW s \in Slots, Holds(s), Return(s), UNCHANGED locks,
         ~secret \/ "reject" \in FaultKinds
  PROVE  LockStep(s)
  BY ReturnUpdates DEF LockStep, Abandons
-----------------------------------------------------------------------------
(* The steps of the calls *)

LEMMA AllocLocks ==
  ASSUME TypeOK, NEW s \in Slots, AllocStep(s)
  PROVE  LockStep(s)
<1>1. CASE AllocSecret(s)
  BY <1>1, GotoKeeps, FreePcFacts DEF AllocSecret, SecretReply, At
<1>2. CASE AllocCheck(s)
  <2>1. call[s].pc \notin LockedPcs /\ UNCHANGED locks
    BY <1>2, FreePcFacts DEF AllocCheck, At
  <2>2. CASE Return(s)
    BY <2>1, <2>2, ReturnKeeps DEF Holds
  <2>3. CASE ~Return(s)
    <3>1. PICK d \in Deposits :
            call' = [call EXCEPT ![s].pc = "alloc_rate", ![s].id = d]
      BY <1>2, <2>3 DEF AllocCheck
    <3> DEFINE c == [call[s] EXCEPT !.pc = "alloc_rate", !.id = d]
    <3>2. c.pc = "alloc_rate"
      BY CallFacts DEF CallRecords
    <3>3. call' = [call EXCEPT ![s] = c]
      BY <3>1
    <3>4. Others(s) /\ call'[s].pc = "alloc_rate"
      BY <3>2, <3>3, CallUpdated
    <3> QED
      BY <2>1, <3>4, FreePcFacts DEF LockStep, Keeps, Holds
  <2> QED
    BY <2>2, <2>3
<1>3. CASE AllocRate(s)
  BY <1>3, ReturnKeeps, FreePcFacts DEF AllocRate, At, Holds
<1> QED
  BY <1>1, <1>2, <1>3 DEF AllocStep

LEMMA PrepareLocks ==
  ASSUME TypeOK, NEW s \in Slots, PrepareStep(s)
  PROVE  LockStep(s)
<1>1. CASE PrepareSecret(s)
  BY <1>1, GotoKeeps, FreePcFacts DEF PrepareSecret, SecretReply, At
<1>2. CASE PrepareCheck(s)
  <2> DEFINE d == call[s].id
  <2>1. call[s].pc \notin LockedPcs /\ d \in Deposits
    BY <1>2, CallFacts, FreePcFacts DEF PrepareCheck, At, AnonymousPcs
  <2>2. CASE Return(s) /\ UNCHANGED locks
    BY <2>1, <2>2, ReturnKeeps DEF Holds
  <2>3. CASE /\ d \notin locks /\ locks' = locks \cup {d}
             /\ Goto(s, "prepare_balance")
    <3>1. /\ Others(s)
          /\ call'[s].pc \in LockedPcs
          /\ call'[s].id = d
      BY <2>3, GotoUpdates, LockedPcFacts
    <3> QED
      BY <2>1, <2>3, <3>1, DepositFacts, FreePcFacts
         DEF LockStep, Takes, Holds
  <2> QED
    BY <1>2, <2>2, <2>3 DEF PrepareCheck
<1>3. CASE PrepareBalance(s)
  <2> DEFINE c == [call[s] EXCEPT !.pc = "prepare_rate",
                                 !.bal = sub[call[s].id]]
  <2>1. call' = [call EXCEPT ![s] = c]
    BY <1>3 DEF PrepareBalance
  <2>2. c.pc = "prepare_rate" /\ c.id = call[s].id
    BY CallFacts DEF CallRecords
  <2>3. Others(s) /\ call'[s].pc = "prepare_rate" /\ call'[s].id = call[s].id
    BY <2>1, <2>2, CallUpdated
  <2> QED
    BY <1>3, <2>3, MoveKeeps, LockedPcFacts DEF PrepareBalance, At, routerVars
<1>4. CASE PrepareRate(s)
  <2>1. Holds(s) /\ call[s].pc \in LockedPcs
    BY <1>4, HoldsLock, LockedPcFacts DEF PrepareRate, At, AnonymousPcs
  <2>2. CASE ReturnUnlocked(s)
    BY <2>1, <2>2, ReturnFrees
  <2>3. CASE ~secret /\ Return(s) /\ UNCHANGED locks
    BY <2>1, <2>3, ReturnAbandons
  <2>4. CASE ~ReturnUnlocked(s) /\ ~(~secret /\ Return(s) /\ UNCHANGED locks)
    <3>1. PICK convert :
            call' = [call EXCEPT ![s].pc = "prepare_convert", ![s].bal = 0,
                                 ![s].amt = convert]
      BY <1>4, <2>4 DEF PrepareRate
    <3> DEFINE c == [call[s] EXCEPT !.pc = "prepare_convert", !.bal = 0,
                                    !.amt = convert]
    <3>2. call' = [call EXCEPT ![s] = c]
      BY <3>1
    <3>3. c.pc = "prepare_convert" /\ c.id = call[s].id
      BY CallFacts DEF CallRecords
    <3>4. /\ Others(s)
          /\ call'[s].pc = "prepare_convert" /\ call'[s].id = call[s].id
      BY <3>2, <3>3, CallUpdated
    <3>5. UNCHANGED locks
      BY <1>4, <2>4 DEF PrepareRate
    <3> QED
      BY <2>1, <3>4, <3>5, MoveKeeps, LockedPcFacts
  <2> QED
    BY <2>2, <2>3, <2>4
<1>5. CASE PrepareConvert(s)
  <2>1. Holds(s) /\ call[s].pc \in LockedPcs
    BY <1>5, HoldsLock, LockedPcFacts DEF PrepareConvert, At, AnonymousPcs
  <2>2. \/ Goto(s, "prepare_notify") /\ UNCHANGED locks
        \/ ReturnUnlocked(s)
    BY <1>5 DEF PrepareConvert
  <2> QED
    BY <2>1, <2>2, GotoKeeps, ReturnFrees, LockedPcFacts
<1>6. CASE PrepareNotify(s)
  <2>1. Holds(s) /\ call[s].pc \in LockedPcs
    BY <1>6, HoldsLock, LockedPcFacts DEF PrepareNotify, At, AnonymousPcs
  <2>2. \/ Goto(s, "prepare_spawn") /\ UNCHANGED locks
        \/ ReturnUnlocked(s)
    BY <1>6 DEF PrepareNotify
  <2> QED
    BY <2>1, <2>2, GotoKeeps, ReturnFrees, LockedPcFacts
<1>7. CASE PrepareSpawn(s)
  <2>1. Holds(s) /\ call[s].pc \in LockedPcs
    BY <1>7, HoldsLock, LockedPcFacts DEF PrepareSpawn, At, AnonymousPcs
  <2>2. \/ Goto(s, "prepare_topups") /\ UNCHANGED locks
        \/ ReturnUnlocked(s)
    BY <1>7 DEF PrepareSpawn
  <2> QED
    BY <2>1, <2>2, GotoKeeps, ReturnFrees, LockedPcFacts
<1>8. CASE PrepareTopUps(s)
  <2>1. Holds(s)
    BY <1>8, HoldsLock, LockedPcFacts DEF PrepareTopUps, At, AnonymousPcs
  <2> QED
    BY <1>8, <2>1, ReturnFrees DEF PrepareTopUps
<1>9. CASE PrepareReject(s)
  <2>1. call[s].pc \in PreparePcs
    BY <1>9 DEF PrepareReject
  <2>2. call[s].pc \in LockedPcs /\ call[s].pc \notin AnonymousPcs
    BY <2>1 DEF LockedPcs, PreparePcs, AnonymousPcs
  <2>3. "reject" \in FaultKinds /\ UNCHANGED locks
    BY <1>9 DEF PrepareReject, Fault, routerVars
  <2> QED
    BY <1>9, <2>2, <2>3, HoldsLock, ReturnAbandons DEF PrepareReject
<1> QED
  BY <1>1, <1>2, <1>3, <1>4, <1>5, <1>6, <1>7, <1>8, <1>9 DEF PrepareStep

LEMMA SealLocks ==
  ASSUME TypeOK, NEW s \in Slots, SealStep(s)
  PROVE  LockStep(s)
<1>1. CASE SealBalance(s)
  <2> DEFINE c == [call[s] EXCEPT !.pc = "seal_rate", !.bal = sub[call[s].id]]
  <2>1. call' = [call EXCEPT ![s] = c] /\ UNCHANGED locks
    BY <1>1 DEF SealBalance, routerVars
  <2>2. c.pc = "seal_rate" /\ c.id = call[s].id
    BY CallFacts DEF CallRecords
  <2>3. Others(s) /\ call'[s].pc = "seal_rate" /\ call'[s].id = call[s].id
    BY <2>1, <2>2, CallUpdated
  <2> QED
    BY <1>1, <2>1, <2>3, MoveKeeps, LockedPcFacts DEF SealBalance, At
<1>2. CASE SealRate(s)
  <2>1. Holds(s) /\ call[s].pc \in LockedPcs
    BY <1>2, HoldsLock, LockedPcFacts DEF SealRate, At, AnonymousPcs
  <2>2. CASE ReturnUnlocked(s)
    BY <2>1, <2>2, ReturnFrees
  <2>3. CASE ~ReturnUnlocked(s)
    <3>1. PICK r \in Rates \cup {0} :
            call' = [call EXCEPT ![s].pc = "seal_compute", ![s].rate = r]
      BY <1>2, <2>3 DEF SealRate
    <3> DEFINE c == [call[s] EXCEPT !.pc = "seal_compute", !.rate = r]
    <3>2. call' = [call EXCEPT ![s] = c] /\ UNCHANGED locks
      BY <1>2, <2>3, <3>1 DEF SealRate
    <3>3. c.pc = "seal_compute" /\ c.id = call[s].id
      BY CallFacts DEF CallRecords
    <3>4. Others(s) /\ call'[s].pc = "seal_compute" /\ call'[s].id = call[s].id
      BY <3>2, <3>3, CallUpdated
    <3> QED
      BY <2>1, <3>2, <3>4, MoveKeeps, LockedPcFacts
  <2> QED
    BY <2>2, <2>3
<1>3. CASE SealCompute(s)
  <2> DEFINE d == call[s].id
             split == SealSplit(call[s].bal, call[s].spawn_fee, call[s].rate,
                                Pct[d])
             residue == Residue(split.to_cycles, call[s].spawn_fee)
             parts == Decompose(Byte[d])[split.claim]
             c == [call[s] EXCEPT !.pc = "seal_transfer", !.bal = 0,
                                  !.amt = residue, !.rest = parts]
  <2>1. Holds(s) /\ call[s].pc \in LockedPcs
    BY <1>3, HoldsLock, LockedPcFacts DEF SealCompute, At, AnonymousPcs
  <2>2. \/ call' = [call EXCEPT ![s] = c] /\ UNCHANGED locks
        \/ ReturnUnlocked(s)
    BY <1>3 DEF SealCompute
  <2> HIDE DEF residue, parts
  <2>3. c.pc = "seal_transfer" /\ c.id = call[s].id
    BY CallFacts DEF CallRecords
  <2> HIDE DEF c
  <2>4. CASE call' = [call EXCEPT ![s] = c] /\ UNCHANGED locks
    <3>1. Others(s) /\ call'[s].pc = "seal_transfer" /\ call'[s].id = call[s].id
      BY <2>3, <2>4, CallUpdated
    <3> QED
      BY <2>1, <2>4, <3>1, MoveKeeps, LockedPcFacts
  <2> QED
    BY <2>1, <2>2, <2>4, ReturnFrees
<1>4. CASE SealTransfer(s)
  <2> DEFINE rest == Tail(call[s].rest)
             c == [call[s] EXCEPT !.rest = rest]
  <2>1. Holds(s) /\ call[s].pc \in LockedPcs
    BY <1>4, HoldsLock, LockedPcFacts DEF SealTransfer, At, AnonymousPcs
  <2>2. \/ call' = [call EXCEPT ![s] = c] /\ UNCHANGED locks
        \/ ReturnUnlocked(s)
    BY <1>4 DEF SealTransfer
  <2> HIDE DEF rest
  <2>3. c.pc = call[s].pc /\ c.id = call[s].id
    BY CallFacts DEF CallRecords
  <2>4. CASE call' = [call EXCEPT ![s] = c] /\ UNCHANGED locks
    <3>1. Others(s) /\ call'[s].pc = call[s].pc /\ call'[s].id = call[s].id
      BY <2>3, <2>4, CallUpdated
    <3> QED
      BY <2>1, <2>4, <3>1, MoveKeeps
  <2> QED
    BY <2>1, <2>2, <2>4, ReturnFrees
<1>5. CASE SealConvert(s)
  <2> DEFINE c == [call[s] EXCEPT !.amt = 0]
  <2>1. call' = [call EXCEPT ![s] = c] /\ UNCHANGED locks
    BY <1>5 DEF SealConvert, routerVars
  <2>2. c.pc = call[s].pc /\ c.id = call[s].id
    BY CallFacts DEF CallRecords
  <2>3. Others(s) /\ call'[s].pc = call[s].pc /\ call'[s].id = call[s].id
    BY <2>1, <2>2, CallUpdated
  <2> QED
    BY <1>5, <2>1, <2>3, MoveKeeps, LockedPcFacts DEF SealConvert, At
<1>6. CASE SealCommit(s)
  <2> DEFINE pc == IF seal_count' = 0 /\ call[s].rate > 0
                   THEN "recycle_read" ELSE "leftover"
             c == [call[s] EXCEPT !.pc = pc, !.spawn_fee = 0]
  <2>1. call' = [call EXCEPT ![s] = c] /\ UNCHANGED locks
    BY <1>6 DEF SealCommit
  <2>2. pc \in LockedPcs
    BY LockedPcFacts
  <2> HIDE DEF pc
  <2>3. c.pc = pc /\ c.id = call[s].id
    BY CallFacts DEF CallRecords
  <2>4. Others(s) /\ call'[s].pc = pc /\ call'[s].id = call[s].id
    BY <2>1, <2>3, CallUpdated
  <2> QED
    BY <1>6, <2>1, <2>2, <2>4, MoveKeeps, LockedPcFacts DEF SealCommit, At
<1>7. CASE SealReject(s)
  <2>1. call[s].pc \in LockedPcs /\ call[s].pc \notin AnonymousPcs
    BY <1>7, LockedPcFacts DEF SealReject, At, AnonymousPcs
  <2> QED
    BY <1>7, <2>1, HoldsLock, ReturnFrees DEF SealReject
<1> QED
  BY <1>1, <1>2, <1>3, <1>4, <1>5, <1>6, <1>7 DEF SealStep

LEMMA MaintenanceLocks ==
  ASSUME TypeOK, NEW s \in Slots, MaintenanceStep(s)
  PROVE  LockStep(s)
<1>1. CASE RecycleRead(s)
  <2> DEFINE c == [call[s] EXCEPT !.pc = "recycle_wedge", !.bal = mixer]
  <2>1. call[s].pc \in LockedPcs /\ UNCHANGED locks
    BY <1>1, LockedPcFacts DEF RecycleRead, At, routerVars
  <2>2. CASE Goto(s, "leftover")
    BY <2>1, <2>2, GotoKeeps, LockedPcFacts
  <2>3. CASE ~Goto(s, "leftover")
    <3>1. call' = [call EXCEPT ![s] = c]
      BY <1>1, <2>3 DEF RecycleRead
    <3>2. c.pc = "recycle_wedge" /\ c.id = call[s].id
      BY CallFacts DEF CallRecords
    <3>3. /\ Others(s)
          /\ call'[s].pc = "recycle_wedge" /\ call'[s].id = call[s].id
      BY <3>1, <3>2, CallUpdated
    <3> QED
      BY <2>1, <3>3, MoveKeeps, LockedPcFacts
  <2> QED
    BY <2>2, <2>3
<1>2. CASE RecycleWedge(s)
  <2>1. PICK shortfall \in Shortfalls :
          LET recycle == Lesser(shortfall, Monus(call[s].bal, pool_claims))
          IN  call' = [call EXCEPT
                        ![s].pc = IF recycle = 0 THEN "leftover"
                                  ELSE "recycle_burn",
                        ![s].bal = 0,
                        ![s].amt = recycle]
    BY <1>2 DEF RecycleWedge
  <2> DEFINE recycle == Lesser(shortfall, Monus(call[s].bal, pool_claims))
             pc == IF recycle = 0 THEN "leftover" ELSE "recycle_burn"
             c == [call[s] EXCEPT !.pc = pc, !.bal = 0, !.amt = recycle]
  <2>2. call' = [call EXCEPT ![s] = c]
    BY <2>1
  <2>3. pc \in LockedPcs
    BY LockedPcFacts
  <2> HIDE DEF recycle, pc
  <2>4. c.pc = pc /\ c.id = call[s].id
    BY CallFacts DEF CallRecords
  <2>5. Others(s) /\ call'[s].pc = pc /\ call'[s].id = call[s].id
    BY <2>2, <2>4, CallUpdated
  <2>6. call[s].pc \in LockedPcs /\ UNCHANGED locks
    BY <1>2, LockedPcFacts DEF RecycleWedge, At, routerVars
  <2> QED
    BY <2>3, <2>5, <2>6, MoveKeeps
<1>3. CASE RecycleBurn(s)
  <2> DEFINE c == [call[s] EXCEPT !.pc = "leftover", !.amt = 0]
  <2>1. call' = [call EXCEPT ![s] = c] /\ UNCHANGED locks
    BY <1>3 DEF RecycleBurn, routerVars
  <2>2. c.pc = "leftover" /\ c.id = call[s].id
    BY CallFacts DEF CallRecords
  <2>3. Others(s) /\ call'[s].pc = "leftover" /\ call'[s].id = call[s].id
    BY <2>1, <2>2, CallUpdated
  <2> QED
    BY <1>3, <2>1, <2>3, MoveKeeps, LockedPcFacts DEF RecycleBurn, At
<1>4. CASE SealLeftover(s)
  BY <1>4, GotoKeeps, LockedPcFacts DEF SealLeftover, At, routerVars
<1>5. CASE SweepRead(s)
  <2> DEFINE c == [call[s] EXCEPT !.pc = "sweep_compute", !.bal = mixer]
  <2>1. call' = [call EXCEPT ![s] = c] /\ UNCHANGED locks
    BY <1>5 DEF SweepRead, routerVars
  <2>2. c.pc = "sweep_compute" /\ c.id = call[s].id
    BY CallFacts DEF CallRecords
  <2>3. Others(s) /\ call'[s].pc = "sweep_compute" /\ call'[s].id = call[s].id
    BY <2>1, <2>2, CallUpdated
  <2> QED
    BY <1>5, <2>1, <2>3, MoveKeeps, LockedPcFacts DEF SweepRead, At
<1>6. CASE SweepCompute(s)
  <2> DEFINE excess == Monus(call[s].bal, pool_claims + POOL_SWEEP_THRESHOLD)
             amt == Monus(excess, LEDGER_FEE)
             c == [call[s] EXCEPT !.pc = "sweep_pay", !.bal = 0, !.amt = amt]
  <2>1. call' = [call EXCEPT ![s] = c] /\ UNCHANGED locks
    BY <1>6 DEF SweepCompute, routerVars
  <2> HIDE DEF amt
  <2>2. c.pc = "sweep_pay" /\ c.id = call[s].id
    BY CallFacts DEF CallRecords
  <2>3. Others(s) /\ call'[s].pc = "sweep_pay" /\ call'[s].id = call[s].id
    BY <2>1, <2>2, CallUpdated
  <2> QED
    BY <1>6, <2>1, <2>3, MoveKeeps, LockedPcFacts DEF SweepCompute, At
<1>7. CASE SweepPay(s)
  <2>1. call[s].pc \in LockedPcs
    BY <1>7, LockedPcFacts DEF SweepPay, At
  <2>2. CASE call[s].id = None
    BY <1>7, <2>2, ReturnKeeps DEF SweepPay, Holds
  <2>3. CASE call[s].id # None /\ ReturnUnlocked(s)
    BY <2>1, <2>3, ReturnFrees DEF Holds
  <2>4. CASE call[s].id # None /\ ~ReturnUnlocked(s)
    <3> DEFINE c == [call[s] EXCEPT !.pc = "buffer_read", !.amt = 0]
    <3>1. call' = [call EXCEPT ![s] = c] /\ UNCHANGED locks
      BY <1>7, <2>4 DEF SweepPay
    <3>2. c.pc = "buffer_read" /\ c.id = call[s].id
      BY CallFacts DEF CallRecords
    <3>3. Others(s) /\ call'[s].pc = "buffer_read" /\ call'[s].id = call[s].id
      BY <3>1, <3>2, CallUpdated
    <3> QED
      BY <2>1, <3>1, <3>3, MoveKeeps, LockedPcFacts
  <2> QED
    BY <2>2, <2>3, <2>4
<1>8. CASE BufferRead(s)
  <2> DEFINE c == [call[s] EXCEPT !.pc = "buffer_pay", !.bal = fee_buf]
  <2>1. call' = [call EXCEPT ![s] = c] /\ UNCHANGED locks
    BY <1>8 DEF BufferRead, routerVars
  <2>2. c.pc = "buffer_pay" /\ c.id = call[s].id
    BY CallFacts DEF CallRecords
  <2>3. Others(s) /\ call'[s].pc = "buffer_pay" /\ call'[s].id = call[s].id
    BY <2>1, <2>2, CallUpdated
  <2> QED
    BY <1>8, <2>1, <2>3, MoveKeeps, LockedPcFacts DEF BufferRead, At
<1>9. CASE BufferPay(s)
  <2>1. Holds(s)
    BY <1>9, HoldsLock, LockedPcFacts DEF BufferPay, At, AnonymousPcs
  <2> QED
    BY <1>9, <2>1, ReturnFrees DEF BufferPay
<1> QED
  BY <1>1, <1>2, <1>3, <1>4, <1>5, <1>6, <1>7, <1>8, <1>9 DEF MaintenanceStep

LEMMA FinalizeLocks ==
  ASSUME TypeOK, NEW s \in Slots, FinalizeStep(s)
  PROVE  LockStep(s)
<1>1. CASE FinalizePreload(s)
  <2>1. Holds(s) /\ call[s].pc \in LockedPcs
    BY <1>1, HoldsLock, LockedPcFacts DEF FinalizePreload, FromBuffer, At, AnonymousPcs
  <2>2. \/ Goto(s, "fin_balance") /\ UNCHANGED locks
        \/ ReturnUnlocked(s)
    BY <1>1 DEF FinalizePreload, FromBuffer
  <2> QED
    BY <2>1, <2>2, GotoKeeps, ReturnFrees, LockedPcFacts
<1>2. CASE FinalizeBalance(s)
  <2> DEFINE c == [call[s] EXCEPT !.pc = "fin_topup", !.bal = mixer]
  <2>1. call' = [call EXCEPT ![s] = c] /\ UNCHANGED locks
    BY <1>2 DEF FinalizeBalance, ReadMixer, routerVars
  <2>2. c.pc = "fin_topup" /\ c.id = call[s].id
    BY CallFacts DEF CallRecords
  <2>3. Others(s) /\ call'[s].pc = "fin_topup" /\ call'[s].id = call[s].id
    BY <2>1, <2>2, CallUpdated
  <2> QED
    BY <1>2, <2>1, <2>3, MoveKeeps, LockedPcFacts DEF FinalizeBalance, ReadMixer, At
<1>3. CASE FinalizeTopUp(s)
  <2>1. Holds(s) /\ call[s].pc \in LockedPcs
    BY <1>3, HoldsLock, LockedPcFacts DEF FinalizeTopUp, TopUp, FromBuffer, At, AnonymousPcs
  <2>2. \/ Goto(s, "fin_ensure") /\ UNCHANGED locks
        \/ ReturnUnlocked(s)
    BY <1>3 DEF FinalizeTopUp, TopUp, FromBuffer
  <2> QED
    BY <2>1, <2>2, GotoKeeps, ReturnFrees, LockedPcFacts
<1>4. CASE FinalizeEnsure(s)
  <2> DEFINE c == [call[s] EXCEPT !.pc = "fin_deficit", !.bal = mixer]
  <2>1. call' = [call EXCEPT ![s] = c] /\ UNCHANGED locks
    BY <1>4 DEF FinalizeEnsure, ReadMixer, routerVars
  <2>2. c.pc = "fin_deficit" /\ c.id = call[s].id
    BY CallFacts DEF CallRecords
  <2>3. Others(s) /\ call'[s].pc = "fin_deficit" /\ call'[s].id = call[s].id
    BY <2>1, <2>2, CallUpdated
  <2> QED
    BY <1>4, <2>1, <2>3, MoveKeeps, LockedPcFacts DEF FinalizeEnsure, ReadMixer, At
<1>5. CASE FinalizeDeficit(s)
  <2>1. Holds(s) /\ call[s].pc \in LockedPcs
    BY <1>5, HoldsLock, LockedPcFacts DEF FinalizeDeficit, TopUp, FromBuffer, At, AnonymousPcs
  <2>2. \/ Goto(s, "fin_transfer") /\ UNCHANGED locks
        \/ ReturnUnlocked(s)
    BY <1>5 DEF FinalizeDeficit, TopUp, FromBuffer
  <2> QED
    BY <2>1, <2>2, GotoKeeps, ReturnFrees, LockedPcFacts
<1>6. CASE FinalizeTransfer(s)
  <2>1. Holds(s) /\ call[s].pc \in LockedPcs
    BY <1>6, HoldsLock, LockedPcFacts DEF FinalizeTransfer, At, AnonymousPcs
  <2>2. \/ Goto(s, "fin_commit") /\ UNCHANGED locks
        \/ ReturnUnlocked(s)
    BY <1>6 DEF FinalizeTransfer
  <2> QED
    BY <2>1, <2>2, GotoKeeps, ReturnFrees, LockedPcFacts
<1>7. CASE FinalizeCommit(s)
  <2>1. Holds(s)
    BY <1>7, HoldsLock, LockedPcFacts DEF FinalizeCommit, At, AnonymousPcs
  <2> QED
    BY <1>7, <2>1, ReturnFrees DEF FinalizeCommit
<1>8. CASE FinalizeReject(s)
  <2>1. call[s].pc \in LockedPcs /\ call[s].pc \notin AnonymousPcs
    BY <1>8, LockedPcFacts DEF FinalizeReject, AnonymousPcs
  <2>2. Holds(s) /\ "reject" \in FaultKinds
    BY <1>8, <2>1, HoldsLock DEF FinalizeReject, Fault
  <2>3. \/ Return(s) /\ UNCHANGED locks
        \/ ReturnUnlocked(s)
    <3>1. \/ Return(s) /\ UNCHANGED locks
          \/ ReturnUnlocked(s)
      BY <1>8, Zenon DEF FinalizeReject
    <3> QED
      BY <3>1
  <2> QED
    BY <2>2, <2>3, ReturnFrees, ReturnAbandons
<1> QED
  BY <1>1, <1>2, <1>3, <1>4, <1>5, <1>6, <1>7, <1>8 DEF FinalizeStep

LEMMA ReclaimLocks ==
  ASSUME TypeOK, NEW s \in Slots, ReclaimStep(s)
  PROVE  LockStep(s)
<1>1. CASE ReclaimBalance(s)
  <2> DEFINE c == [call[s] EXCEPT !.pc = "reclaim_transfer", !.bal = sub[call[s].id]]
  <2>1. call' = [call EXCEPT ![s] = c] /\ UNCHANGED locks
    BY <1>1 DEF ReclaimBalance, routerVars
  <2>2. c.pc = "reclaim_transfer" /\ c.id = call[s].id
    BY CallFacts DEF CallRecords
  <2>3. Others(s) /\ call'[s].pc = "reclaim_transfer" /\ call'[s].id = call[s].id
    BY <2>1, <2>2, CallUpdated
  <2> QED
    BY <1>1, <2>1, <2>3, MoveKeeps, LockedPcFacts DEF ReclaimBalance, At
<1>2. CASE ReclaimTransfer(s)
  <2>1. Holds(s) /\ call[s].pc \in LockedPcs
    BY <1>2, HoldsLock, LockedPcFacts DEF ReclaimTransfer, At, AnonymousPcs
  <2>2. \/ Goto(s, "reclaim_commit") /\ UNCHANGED locks
        \/ ReturnUnlocked(s)
    BY <1>2 DEF ReclaimTransfer
  <2> QED
    BY <2>1, <2>2, GotoKeeps, ReturnFrees, LockedPcFacts
<1>3. CASE ReclaimCommit(s)
  <2> DEFINE c == [call[s] EXCEPT !.pc = "reclaim_leftover", !.bal = 0]
  <2>1. Holds(s)
    BY <1>3, HoldsLock, LockedPcFacts DEF ReclaimCommit, At, AnonymousPcs
  <2>2. call' = [call EXCEPT ![s] = c] /\ locks' = locks \ {call[s].id}
    BY <1>3 DEF ReclaimCommit
  <2>3. c.pc = "reclaim_leftover"
    BY CallFacts DEF CallRecords
  <2>4. Others(s) /\ call'[s].pc = "reclaim_leftover"
    BY <2>2, <2>3, CallUpdated
  <2> QED
    BY <2>1, <2>2, <2>4, FreePcFacts DEF LockStep, Frees, Holds
<1>4. CASE ReclaimLeftover(s)
  BY <1>4, ReturnKeeps, FreePcFacts DEF ReclaimLeftover, At, Holds, routerVars
<1> QED
  BY <1>1, <1>2, <1>3, <1>4 DEF ReclaimStep

LEMMA ContinueLocks ==
  ASSUME TypeOK, NEW s \in Slots, Continue(s)
  PROVE  LockStep(s)
  BY AllocLocks, PrepareLocks, SealLocks, MaintenanceLocks, FinalizeLocks,
     ReclaimLocks
     DEF Continue

LEMMA EnsureSecretLocks ==
  ASSUME TypeOK, NEW s \in Slots, NEW fetching, NEW next, NEW d,
         EnsureSecret(s, fetching, next, d),
         fetching \notin LockedPcs, next \notin LockedPcs,
         fetching # "idle", next # "idle"
  PROVE  LockStep(s)
<1>1. PICK pc \in {fetching, next} :
        call' = [call EXCEPT ![s].pc = pc, ![s].id = d]
  BY DEF EnsureSecret
<1> DEFINE c == [call[s] EXCEPT !.pc = pc, !.id = d]
<1>2. call' = [call EXCEPT ![s] = c]
  BY <1>1
<1>3. c.pc = pc
  BY CallFacts DEF CallRecords
<1>4. Others(s) /\ call'[s].pc \notin LockedPcs /\ call'[s].pc # "idle"
  BY <1>2, <1>3, CallUpdated
<1>5. call[s].pc \notin LockedPcs /\ UNCHANGED locks
  BY FreePcFacts DEF EnsureSecret, Called, At
<1> QED
  BY <1>4, <1>5 DEF LockStep, Keeps, Holds

LEMMA StartLocks ==
  ASSUME TypeOK, IdleCalls, NEW s \in Slots, Start(s)
  PROVE  LockStep(s)
<1>1. CASE AllocCall(s)
  BY <1>1, EnsureSecretLocks, FreePcFacts DEF AllocCall
<1>2. CASE AdminSweepPool(s)
  <2>1. call[s].pc = "idle" /\ call[s].id = None /\ UNCHANGED locks
    BY <1>2 DEF AdminSweepPool, Called, At, IdleCalls, routerVars
  <2>2. Others(s) /\ call'[s].pc = "sweep_read" /\ call'[s].id = None
    BY <1>2, <2>1, GotoUpdates DEF AdminSweepPool
  <2> QED
    BY <2>1, <2>2 DEF LockStep, Keeps, Holds
<1>3. ASSUME NEW d \in Deposits, PrepareCall(s, d) PROVE LockStep(s)
  BY <1>3, EnsureSecretLocks, FreePcFacts DEF PrepareCall
<1>4. ASSUME NEW d \in Deposits, SealCall(s, d) PROVE LockStep(s)
  <2> DEFINE c == [call[s] EXCEPT !.pc = "seal_balance", !.id = d,
                                  !.spawn_fee = deposits[d].spawn_fee]
  <2>1. call' = [call EXCEPT ![s] = c]
    BY <1>4 DEF SealCall
  <2>2. c.pc = "seal_balance" /\ c.id = d
    BY CallFacts DEF CallRecords
  <2>3. Others(s) /\ call'[s].pc \in LockedPcs /\ call'[s].id = d
    BY <2>1, <2>2, CallUpdated, LockedPcFacts
  <2>4. /\ call[s].pc \notin LockedPcs
        /\ d \notin locks /\ locks' = locks \cup {d}
    BY <1>4, FreePcFacts DEF SealCall, Called, At
  <2> QED
    BY <2>3, <2>4, DepositFacts, FreePcFacts DEF LockStep, Takes, Holds
<1>5. ASSUME NEW d \in Deposits, FinalizeCall(s, d) PROVE LockStep(s)
  <2> DEFINE c == [call[s] EXCEPT !.pc = "fin_preload", !.id = d]
  <2>1. call' = [call EXCEPT ![s] = c]
    BY <1>5 DEF FinalizeCall
  <2>2. c.pc = "fin_preload" /\ c.id = d
    BY CallFacts DEF CallRecords
  <2>3. Others(s) /\ call'[s].pc \in LockedPcs /\ call'[s].id = d
    BY <2>1, <2>2, CallUpdated, LockedPcFacts
  <2>4. /\ call[s].pc \notin LockedPcs
        /\ d \notin locks /\ locks' = locks \cup {d}
    BY <1>5, FreePcFacts DEF FinalizeCall, Called, At
  <2> QED
    BY <2>3, <2>4, DepositFacts, FreePcFacts DEF LockStep, Takes, Holds
<1>6. ASSUME NEW d \in Deposits, ReclaimCall(s, d) PROVE LockStep(s)
  <2> DEFINE c == [call[s] EXCEPT !.pc = "reclaim_balance", !.id = d]
  <2>1. call' = [call EXCEPT ![s] = c]
    BY <1>6 DEF ReclaimCall
  <2>2. c.pc = "reclaim_balance" /\ c.id = d
    BY CallFacts DEF CallRecords
  <2>3. Others(s) /\ call'[s].pc \in LockedPcs /\ call'[s].id = d
    BY <2>1, <2>2, CallUpdated, LockedPcFacts
  <2>4. /\ call[s].pc \notin LockedPcs
        /\ d \notin locks /\ locks' = locks \cup {d}
    BY <1>6, FreePcFacts DEF ReclaimCall, Called, At
  <2> QED
    BY <2>3, <2>4, DepositFacts, FreePcFacts DEF LockStep, Takes, Holds
<1> QED
  BY <1>1, <1>2, <1>3, <1>4, <1>5, <1>6 DEF Start

-----------------------------------------------------------------------------
(* Exclusion *)

\* Without admin_clear_lock, a lock is only ever released by its holder.
Exclusive == TypeOK /\ IdleCalls /\ LockDiscipline

\* What exclusion says of the calls that hold a lock, one by one and in pairs.
LEMMA DisciplineFacts ==
  ASSUME LockDiscipline, NEW s \in Slots, Holds(s)
  PROVE  /\ call[s].id \in locks
         /\ \A t \in Slots : t # s /\ Holds(t) => call[t].id # call[s].id
  BY DEF LockDiscipline

LEMMA LockStepExclusive ==
  ASSUME Exclusive, NEW s \in Slots, LockStep(s)
  PROVE  LockDiscipline' /\ IdleCalls'
<1>1. IdleCalls'
  BY DEF Exclusive, IdleCalls, LockStep, Others, At
<1>2. ASSUME NEW t \in Slots, t # s
      PROVE  call'[t] = call[t] /\ (Holds(t)' <=> Holds(t))
  BY <1>2 DEF LockStep, Others, Holds
<1>3. ASSUME NEW t \in Slots, Holds(t)'
      PROVE  call'[t].id \in locks'
  <2>1. CASE t = s
    BY <1>3, <2>1, DisciplineFacts
       DEF Exclusive, LockStep, Keeps, Takes, Frees, Abandons
  <2>2. CASE t # s
    <3>1. Holds(t) /\ call'[t].id = call[t].id
      BY <1>2, <1>3, <2>2
    <3>2. call[t].id \in locks /\ (Holds(s) => call[s].id # call[t].id)
      BY <2>2, <3>1, DisciplineFacts DEF Exclusive
    <3> QED
      BY <3>1, <3>2 DEF LockStep, Keeps, Takes, Frees, Abandons
  <2> QED
    BY <2>1, <2>2
<1>4. ASSUME NEW t \in Slots, t # s, Holds(t)', Holds(s)'
      PROVE  call'[t].id # call'[s].id
  <2>1. Holds(t) /\ call'[t].id = call[t].id
    BY <1>2, <1>4
  <2>2. call[t].id \in locks /\ (Holds(s) => call[s].id # call[t].id)
    BY <1>4, <2>1, DisciplineFacts DEF Exclusive
  <2> QED
    BY <1>4, <2>1, <2>2 DEF LockStep, Keeps, Takes, Frees, Abandons
<1>5. ASSUME NEW t \in Slots, NEW u \in Slots, t # s, u # s, u # t,
             Holds(t)', Holds(u)'
      PROVE  call'[u].id # call'[t].id
  BY <1>2, <1>5, DisciplineFacts DEF Exclusive
<1>6. LockDiscipline'
  BY <1>3, <1>4, <1>5 DEF LockDiscipline
<1> QED
  BY <1>1, <1>6

LEMMA EnvironmentExclusive ==
  ASSUME "clear_lock" \notin Operations, Exclusive, Environment
  PROVE  LockDiscipline' /\ IdleCalls'
<1>1. \/ UNCHANGED <<call, locks>>
      \/ Upgrade
  BY DEF Environment, SetPaused, Fund, Expire, AdminClearLock,
         AdminClearDeposit, routerVars
<1>2. CASE UNCHANGED <<call, locks>>
  BY <1>2 DEF Exclusive, LockDiscipline, IdleCalls, Holds, At
<1>3. CASE Upgrade
  BY <1>3, FreePcFacts
     DEF Exclusive, LockDiscipline, IdleCalls, Holds, At, Upgrade
<1> QED
  BY <1>1, <1>2, <1>3

LEMMA InitExclusive == Init => LockDiscipline /\ IdleCalls
  BY FreePcFacts DEF Init, LockDiscipline, IdleCalls, Holds, At, Idle

\* As long as the administrator clears no lock, two calls never work on one
\* deposit at the same time, however many deposits and calls there are and
\* whatever fails: the lock taken before the first await of deposit_prepare,
\* seal_push, finalize and reclaim is held until the call's last state change.
THEOREM LocksExclude ==
  ASSUME "clear_lock" \notin Operations
  PROVE  Spec => []LockDiscipline
<1>1. Init => Exclusive
  BY InitType, InitExclusive DEF Exclusive
<1>2. Exclusive /\ [Next]_vars => Exclusive'
  <2> SUFFICES ASSUME Exclusive, [Next]_vars
               PROVE  LockDiscipline' /\ IdleCalls'
    BY NextType DEF Exclusive
  <2>1. CASE Environment
    BY <2>1, EnvironmentExclusive
  <2>2. ASSUME NEW s \in Slots, Start(s) \/ Continue(s)
        PROVE  LockDiscipline' /\ IdleCalls'
    BY <2>2, StartLocks, ContinueLocks, LockStepExclusive DEF Exclusive
  <2>3. CASE UNCHANGED vars
    BY <2>3
       DEF Exclusive, LockDiscipline, IdleCalls, Holds, At, vars, routerVars
  <2> QED
    BY <2>1, <2>2, <2>3 DEF Next
<1>3. Exclusive => LockDiscipline
  BY DEF Exclusive
<1> QED
  BY <1>1, <1>2, <1>3, PTL DEF Spec

-----------------------------------------------------------------------------
(* No lock is left behind *)

\* Only two things leave a lock with nobody to release it: a rejected call
\* outside the try ... catch blocks, and the missing secret.
Owned == TypeOK /\ IdleCalls /\ secret /\ NoOrphanLock

LEMMA LockStepOwned ==
  ASSUME "reject" \notin FaultKinds, Owned, NEW s \in Slots, LockStep(s)
  PROVE  NoOrphanLock' /\ IdleCalls'
<1>1. IdleCalls'
  BY DEF Owned, IdleCalls, LockStep, Others, At
<1>2. ASSUME NEW t \in Slots, t # s, Holds(t)
      PROVE  Holds(t)' /\ call'[t].id = call[t].id
  BY <1>2 DEF LockStep, Others, Holds
<1>3. ~Abandons(s)
  BY DEF Abandons, Owned
<1>4. ASSUME NEW d \in locks'
      PROVE  \E t \in Slots : Holds(t)' /\ call'[t].id = d
  <2>1. CASE d \in locks
    <3>1. PICK t \in Slots : Holds(t) /\ call[t].id = d
      BY <2>1 DEF Owned, NoOrphanLock
    <3>2. CASE t # s
      BY <1>2, <3>1, <3>2
    <3>3. CASE t = s
      <4>1. Keeps(s)
        BY <1>3, <1>4, <3>1, <3>3 DEF LockStep, Takes, Frees
      <4> QED
        BY <3>1, <3>3, <4>1 DEF Keeps
    <3> QED
      BY <3>2, <3>3
  <2>2. CASE d \notin locks
    <3>1. Takes(s) /\ call'[s].id = d
      BY <1>3, <1>4, <2>2 DEF LockStep, Keeps, Takes, Frees
    <3> QED
      BY <3>1 DEF Takes
  <2> QED
    BY <2>1, <2>2
<1>5. NoOrphanLock'
  BY <1>4 DEF NoOrphanLock
<1> QED
  BY <1>1, <1>5

LEMMA EnvironmentOwned ==
  ASSUME Owned, Environment
  PROVE  NoOrphanLock' /\ IdleCalls'
<1>1. \/ UNCHANGED call /\ locks' \subseteq locks
      \/ Upgrade
  BY DEF Environment, SetPaused, Fund, Expire, AdminClearLock,
         AdminClearDeposit, routerVars
<1>2. CASE UNCHANGED call /\ locks' \subseteq locks
  BY <1>2 DEF Owned, NoOrphanLock, IdleCalls, Holds, At
<1>3. CASE Upgrade
  BY <1>3 DEF Owned, NoOrphanLock, IdleCalls, At, Upgrade
<1> QED
  BY <1>1, <1>2, <1>3

\* The secret, once set, stays.
LEMMA SecretStays ==
  ASSUME secret, TypeOK, [Next]_vars
  PROVE  secret'
<1>1. ASSUME NEW s \in Slots, Start(s) PROVE secret'
  BY <1>1
     DEF Start, AllocCall, AdminSweepPool, PrepareCall, SealCall, FinalizeCall,
         ReclaimCall, EnsureSecret, routerVars, serviceVars
<1>2. ASSUME NEW s \in Slots, AllocStep(s) \/ PrepareStep(s) PROVE secret'
  BY <1>2
     DEF AllocStep, AllocSecret, SecretReply, AllocCheck, AllocRate,
         PrepareStep, PrepareSecret, PrepareCheck, PrepareBalance, PrepareRate,
         PrepareConvert, PrepareNotify, PrepareSpawn, PrepareTopUps,
         PrepareReject, routerVars, serviceVars
<1>3. ASSUME NEW s \in Slots, SealStep(s) \/ MaintenanceStep(s) PROVE secret'
  BY <1>3
     DEF SealStep, SealBalance, SealRate, SealCompute, SealTransfer,
         SealConvert, SealCommit, SealReject, MaintenanceStep, RecycleRead,
         RecycleWedge, RecycleBurn, SealLeftover, SweepRead, SweepCompute,
         SweepPay, BufferRead, BufferPay, routerVars, serviceVars
<1>4. ASSUME NEW s \in Slots, FinalizeStep(s) \/ ReclaimStep(s) PROVE secret'
  BY <1>4
     DEF FinalizeStep, FinalizePreload, FinalizeBalance, FinalizeTopUp,
         FinalizeEnsure, ReadMixer, FinalizeDeficit, FinalizeTransfer,
         FinalizeCommit, FinalizeReject, ReclaimStep, ReclaimBalance,
         ReclaimTransfer, ReclaimCommit, ReclaimLeftover, routerVars,
         serviceVars
<1>5. CASE Environment
  BY <1>5
     DEF Environment, SetPaused, Upgrade, Fund, Expire, AdminClearLock,
         AdminClearDeposit, routerVars, serviceVars
<1>6. CASE UNCHANGED vars
  BY <1>6 DEF vars, routerVars, serviceVars
<1> QED
  BY <1>1, <1>2, <1>3, <1>4, <1>5, <1>6 DEF Next, Continue

\* Once the secret is set and as long as no call is rejected, every lock has a
\* call in flight that will release it: error results, refusals, administration
\* and upgrades included.
THEOREM NoLockIsOrphaned ==
  ASSUME SecretReady, "reject" \notin FaultKinds
  PROVE  Spec => []NoOrphanLock
<1>1. Init => Owned
  <2>1. Init => secret
    BY DEF Init
  <2>2. Init => NoOrphanLock
    BY DEF Init, NoOrphanLock
  <2> QED
    BY <2>1, <2>2, InitType, InitExclusive DEF Owned
<1>2. Owned /\ [Next]_vars => Owned'
  <2> SUFFICES ASSUME Owned, [Next]_vars
               PROVE  NoOrphanLock' /\ IdleCalls'
    BY NextType, SecretStays DEF Owned
  <2>1. CASE Environment
    BY <2>1, EnvironmentOwned
  <2>2. ASSUME NEW s \in Slots, Start(s) \/ Continue(s)
        PROVE  NoOrphanLock' /\ IdleCalls'
    BY <2>2, StartLocks, ContinueLocks, LockStepOwned DEF Owned
  <2>3. CASE UNCHANGED vars
    BY <2>3
       DEF Owned, NoOrphanLock, IdleCalls, Holds, At, vars, routerVars
  <2> QED
    BY <2>1, <2>2, <2>3 DEF Next
<1>3. Owned => NoOrphanLock
  BY DEF Owned
<1> QED
  BY <1>1, <1>2, <1>3, PTL DEF Spec

-----------------------------------------------------------------------------
(* Records and payments: every step of a call goes on with what it was     *)
(* doing, begins to work on a deposit, changes its record or makes a       *)
(* payment.                                                                *)

Payments == Exclusive /\ PaymentsMatchRecords

Committing(s) == At(s, "fin_commit") \/ At(s, "reclaim_commit")

-----------------------------------------------------------------------------
(* What a step of the call in slot s does to records and payments *)

Quiet == UNCHANGED <<deposits, bob, alice, issued>>

\* The call ends, or goes on with what it was doing.
Goes(s) ==
  /\ Others(s) /\ Quiet /\ ~Committing(s)
  /\ \/ call'[s].pc \in NeutralPcs /\ call'[s].id \in {call[s].id, None}
     \/ /\ call'[s].id = call[s].id
        /\ \E X \in {PreparePcs, SealPcs, PayPcs, RefundPcs} :
             call[s].pc \in X /\ call'[s].pc \in X

\* The call begins to work on a deposit.
Entries(d) == CASE deposits[d].state = "allocated" -> {"prepare_balance"}
                [] deposits[d].state = "created" -> {"seal_balance", "reclaim_balance"}
                [] deposits[d].state = "sealed" -> {"fin_preload"}
                [] OTHER -> {}
Begins(s, d) ==
  /\ Others(s) /\ Quiet /\ call[s].pc \in NeutralPcs
  /\ call'[s].id = d
  /\ deposits[d].state # "none"
  /\ \/ call'[s].pc \in NeutralPcs
     \/ d \notin locks /\ call'[s].pc \in Entries(d)

\* deposit_alloc derives a new id.
Issues(s, d) ==
  /\ Others(s) /\ UNCHANGED <<deposits, bob, alice>>
  /\ call[s].pc \in NeutralPcs
  /\ d \notin issued /\ issued' = issued \cup {d}
  /\ call'[s].pc = "alloc_rate" /\ call'[s].id = d

\* The call writes its deposit's record.
Writes(s, from, to) ==
  /\ Others(s) /\ UNCHANGED <<bob, alice, issued>>
  /\ call[s].pc \in from
  /\ call'[s].pc \in NeutralPcs /\ call'[s].id \in {call[s].id, None}
  /\ \A d \in Deposits :
       deposits'[d].state = IF d = call[s].id THEN to ELSE deposits[d].state

\* The payments.
Pays(s) ==
  /\ Others(s) /\ UNCHANGED <<deposits, alice, issued>>
  /\ At(s, "fin_transfer") /\ call'[s].pc = "fin_commit"
  /\ call'[s].id = call[s].id
  /\ bob' = [bob EXCEPT ![call[s].id] = @ + Amount[call[s].id]]
Refunds(s) ==
  /\ Others(s) /\ UNCHANGED <<deposits, bob, issued>>
  /\ At(s, "reclaim_transfer") /\ call'[s].pc = "reclaim_commit"
  /\ call'[s].id = call[s].id
  /\ \E refund \in Nat \ {0} :
       alice' = [alice EXCEPT ![call[s].id] = @ + refund]

PayStep(s) ==
  \/ Goes(s)
  \/ \E d \in Deposits : Begins(s, d) \/ Issues(s, d)
  \/ Writes(s, {"alloc_rate"}, "allocated")
  \/ Writes(s, {"prepare_topups"}, "created")
  \/ Writes(s, SealPcs, "sealed")
  \/ Writes(s, {"fin_commit", "reclaim_commit"}, "none")
  \/ Pays(s)
  \/ Refunds(s)

-----------------------------------------------------------------------------
(* Awaits *)

LEMMA PhaseFacts ==
  /\ "prepare_balance" \in PreparePcs /\ "prepare_rate" \in PreparePcs
  /\ "prepare_convert" \in PreparePcs /\ "prepare_notify" \in PreparePcs
  /\ "prepare_spawn" \in PreparePcs /\ "prepare_topups" \in PreparePcs
  /\ "seal_balance" \in SealPcs /\ "seal_rate" \in SealPcs
  /\ "seal_compute" \in SealPcs /\ "seal_transfer" \in SealPcs
  /\ "fin_preload" \in PayPcs /\ "fin_balance" \in PayPcs
  /\ "fin_topup" \in PayPcs /\ "fin_ensure" \in PayPcs
  /\ "fin_deficit" \in PayPcs /\ "fin_transfer" \in PayPcs
  /\ "reclaim_balance" \in RefundPcs /\ "reclaim_transfer" \in RefundPcs
  BY DEF PreparePcs, SealPcs, PayPcs, FinalizePcs, RefundPcs, ReclaimPcs

LEMMA NeutralFacts ==
  /\ "idle" \in NeutralPcs /\ "alloc_rand" \in NeutralPcs
  /\ "alloc_check" \in NeutralPcs /\ "prepare_rand" \in NeutralPcs
  /\ "prepare_check" \in NeutralPcs /\ "reclaim_leftover" \in NeutralPcs
  /\ "recycle_read" \in NeutralPcs /\ "recycle_wedge" \in NeutralPcs
  /\ "recycle_burn" \in NeutralPcs /\ "leftover" \in NeutralPcs
  /\ "sweep_read" \in NeutralPcs /\ "sweep_compute" \in NeutralPcs
  /\ "sweep_pay" \in NeutralPcs /\ "buffer_read" \in NeutralPcs
  /\ "buffer_pay" \in NeutralPcs
  BY DEF NeutralPcs, TailPcs, FreePcs

\* A call is in at most one phase.
LEMMA PhasesApart ==
  /\ \A pc \in NeutralPcs :
       /\ pc \notin PreparePcs /\ pc \notin SealPcs /\ pc \notin PayPcs
       /\ pc \notin RefundPcs /\ pc # "alloc_rate"
       /\ pc # "fin_commit" /\ pc # "reclaim_commit"
  /\ \A pc \in PreparePcs :
       /\ pc \notin SealPcs /\ pc \notin PayPcs /\ pc \notin RefundPcs
       /\ pc # "alloc_rate" /\ pc # "fin_commit" /\ pc # "reclaim_commit"
  /\ \A pc \in SealPcs :
       /\ pc \notin PayPcs /\ pc \notin RefundPcs
       /\ pc # "alloc_rate" /\ pc # "fin_commit" /\ pc # "reclaim_commit"
  /\ \A pc \in PayPcs :
       /\ pc \notin RefundPcs
       /\ pc # "alloc_rate" /\ pc # "fin_commit" /\ pc # "reclaim_commit"
  /\ \A pc \in RefundPcs :
       pc # "alloc_rate" /\ pc # "fin_commit" /\ pc # "reclaim_commit"
  /\ "alloc_rate" \notin PreparePcs /\ "alloc_rate" \notin SealPcs
  /\ "alloc_rate" \notin PayPcs /\ "alloc_rate" \notin RefundPcs
  /\ "fin_commit" \notin PreparePcs /\ "fin_commit" \notin SealPcs
  /\ "fin_commit" \notin PayPcs /\ "fin_commit" \notin RefundPcs
  /\ "reclaim_commit" \notin PreparePcs /\ "reclaim_commit" \notin SealPcs
  /\ "reclaim_commit" \notin PayPcs /\ "reclaim_commit" \notin RefundPcs
  BY DEF NeutralPcs, TailPcs, FreePcs, PreparePcs, SealPcs, PayPcs, RefundPcs,
         FinalizePcs, ReclaimPcs

LEMMA ActivePcs ==
  \A pc \in Pcs \ NeutralPcs :
    /\ pc \notin AnonymousPcs
    /\ pc = "alloc_rate" \/ pc \in LockedPcs
  BY DEF Pcs, NeutralPcs, LockedPcs, AnonymousPcs, FreePcs, TailPcs

LEMMA NeutralFits ==
  ASSUME NEW pc \in NeutralPcs, NEW d
  PROVE  Fits(pc, d)
  BY PhasesApart DEF Fits

-----------------------------------------------------------------------------
(* What a step leaves alone *)

\* Two calls that change or pay never have the same deposit.
LEMMA Apart ==
  ASSUME Payments, NEW s \in Slots, NEW t \in Slots, s # t,
         call[s].pc \notin NeutralPcs, call[t].pc \notin NeutralPcs
  PROVE  call[s].id # call[t].id
<1>1. TypeOK /\ LockDiscipline
  BY DEF Payments, Exclusive
<1>2. /\ call[s].pc \in Pcs \ NeutralPcs
      /\ call[t].pc \in Pcs \ NeutralPcs
  BY <1>1, CallFacts DEF CallRecords
<1>3. CASE call[s].pc = "alloc_rate" \/ call[t].pc = "alloc_rate"
  BY <1>3 DEF Payments, PaymentsMatchRecords, InFlight, At
<1>4. CASE call[s].pc \in LockedPcs /\ call[t].pc \in LockedPcs
  <2>1. Holds(s) /\ Holds(t)
    BY <1>1, <1>2, <1>4, ActivePcs, HoldsLock
  <2> QED
    BY <1>1, <2>1, DisciplineFacts
<1> QED
  BY <1>2, <1>3, <1>4, ActivePcs

\* The record and the payments of a deposit.
Same(d) == /\ deposits'[d].state = deposits[d].state
           /\ bob'[d] = bob[d]
           /\ alice'[d] = alice[d]

LEMMA OthersStay ==
  ASSUME Payments, NEW s \in Slots, Others(s), issued \subseteq issued',
         \A t \in Slots \ {s} :
           /\ call[t].pc \notin NeutralPcs => Same(call[t].id)
           /\ At(t, "alloc_rate") => call'[s].id # call[t].id
  PROVE  \A t \in Slots \ {s} : InFlight(t)'
<1> SUFFICES ASSUME NEW t \in Slots \ {s}
             PROVE  InFlight(t)'
  OBVIOUS
<1>1. InFlight(t) /\ call'[t] = call[t]
  BY DEF Payments, PaymentsMatchRecords, Others
<1>2. Fits(call[t].pc, call[t].id)'
  <2>1. CASE call[t].pc \in NeutralPcs
    BY <1>1, <2>1, PhasesApart DEF Fits
  <2>2. CASE call[t].pc \notin NeutralPcs
    <3>1. Same(call[t].id)
      BY <2>2
    <3> QED
      BY <1>1, <3>1 DEF InFlight, Fits, Same, Payable
  <2> QED
    BY <2>1, <2>2
<1>3. At(t, "alloc_rate")' =>
        \A u \in Slots \ {t} : call'[u].id # call'[t].id
  BY <1>1 DEF InFlight, At, Others
<1> QED
  BY <1>1, <1>2, <1>3 DEF InFlight

LEMMA AccountStays ==
  ASSUME Payments, NEW s \in Slots, Others(s), NEW d \in Deposits, Same(d),
         issued \subseteq issued', call[s].id = d => ~Committing(s)
  PROVE  Account(d)'
<1>1. Account(d)
  BY DEF Payments, PaymentsMatchRecords
<1>2. ASSUME NEW u \in Slots, call[u].id = d,
             At(u, "reclaim_commit") \/ At(u, "fin_commit")
      PROVE  call'[u] = call[u]
  BY <1>2 DEF Others, Committing
<1>3. (\E u \in Slots : At(u, "reclaim_commit") /\ call[u].id = d) =>
        \E u \in Slots : At(u, "reclaim_commit")' /\ call'[u].id = d
  BY <1>2 DEF At
<1>4. (\E u \in Slots : At(u, "fin_commit") /\ call[u].id = d) =>
        \E u \in Slots : At(u, "fin_commit")' /\ call'[u].id = d
  BY <1>2 DEF At
<1> QED
  BY <1>1, <1>3, <1>4 DEF Account, Same

-----------------------------------------------------------------------------
(* Every step of a call keeps records, payments and calls in agreement *)

LEMMA GoesKeeps ==
  ASSUME Payments, NEW s \in Slots, Goes(s)
  PROVE  PaymentsMatchRecords'
<1>1. Others(s) /\ Quiet /\ ~Committing(s) /\ TypeOK /\ InFlight(s)
  BY DEF Goes, Payments, Exclusive, PaymentsMatchRecords
<1>2. \A d : Same(d)
  BY <1>1 DEF Same, Quiet
<1>3. \A d \in Deposits : Account(d)'
  BY <1>1, <1>2, AccountStays DEF Quiet
<1>4. call'[s].id \in {call[s].id, None}
  BY DEF Goes
<1>5. \A t \in Slots \ {s} : InFlight(t)'
  <2>1. ASSUME NEW t \in Slots \ {s}, At(t, "alloc_rate")
        PROVE  call'[s].id # call[t].id
    <3>1. call[t].id \in Deposits
      BY <1>1, <2>1, CallFacts DEF At, AnonymousPcs
    <3>2. call[s].id # call[t].id
      BY <2>1 DEF Payments, PaymentsMatchRecords, InFlight
    <3> QED
      BY <1>4, <3>1, <3>2, DepositFacts
  <2> QED
    BY <1>1, <1>2, <2>1, OthersStay DEF Quiet
<1>6. InFlight(s)'
  <2>1. CASE call'[s].pc \in NeutralPcs
    BY <1>1, <1>4, <2>1, PhasesApart DEF InFlight, Fits, At, Quiet
  <2>2. ASSUME NEW X \in {PreparePcs, SealPcs, PayPcs, RefundPcs},
               call[s].pc \in X, call'[s].pc \in X,
               call'[s].id = call[s].id
        PROVE  InFlight(s)'
    BY <1>1, <2>2, PhasesApart DEF InFlight, Fits, At, Quiet, Payable
  <2> QED
    BY <2>1, <2>2 DEF Goes
<1> QED
  BY <1>3, <1>5, <1>6 DEF PaymentsMatchRecords

LEMMA BeginsKeeps ==
  ASSUME Payments, NEW s \in Slots, NEW d \in Deposits, Begins(s, d)
  PROVE  PaymentsMatchRecords'
<1>1. Others(s) /\ Quiet /\ ~Committing(s)
  BY PhasesApart DEF Begins, Committing, At
<1>2. \A e : Same(e)
  BY <1>1 DEF Same, Quiet
<1>3. \A e \in Deposits : Account(e)'
  BY <1>1, <1>2, AccountStays DEF Quiet
<1>4. call'[s].id = d /\ deposits[d].state # "none"
  BY DEF Begins
<1>5. \A t \in Slots \ {s} : InFlight(t)'
  <2>1. ASSUME NEW t \in Slots \ {s}, At(t, "alloc_rate")
        PROVE  call'[s].id # call[t].id
    BY <1>4, <2>1 DEF Payments, PaymentsMatchRecords, InFlight, Fits, At
  <2> QED
    BY <1>1, <1>2, <2>1, OthersStay DEF Quiet
<1>6. Account(d) /\ d \in issued
  BY <1>4 DEF Payments, PaymentsMatchRecords, Account
<1>7. Fits(call'[s].pc, d)
  <2>1. CASE call'[s].pc \in NeutralPcs
    BY <2>1, NeutralFits
  <2>2. CASE d \notin locks /\ call'[s].pc \in Entries(d)
    <3>1. ASSUME NEW u \in Slots, call[u].id = d,
                 At(u, "reclaim_commit") \/ At(u, "fin_commit")
          PROVE  FALSE
      <4>1. Holds(u)
        BY <3>1, HoldsLock, LockedPcFacts
           DEF Payments, Exclusive, At, AnonymousPcs
      <4> QED
        BY <2>2, <3>1, <4>1 DEF Payments, Exclusive, LockDiscipline
    <3>2. CASE deposits[d].state = "allocated"
      BY <1>6, <2>2, <3>2, PhaseFacts, PhasesApart DEF Entries, Fits
    <3>3. CASE deposits[d].state = "created"
      BY <1>6, <2>2, <3>1, <3>3, PhaseFacts, PhasesApart
         DEF Entries, Fits, Account
    <3>4. CASE deposits[d].state = "sealed"
      BY <1>6, <2>2, <3>1, <3>4, PhaseFacts, PhasesApart
         DEF Entries, Fits, Account, Payable
    <3> QED
      BY <2>2, <3>2, <3>3, <3>4 DEF Entries
  <2> QED
    BY <2>1, <2>2 DEF Begins
<1>8. call'[s].pc # "alloc_rate"
  BY PhasesApart, PhaseFacts DEF Begins, Entries
<1>9. InFlight(s)'
  BY <1>1, <1>4, <1>6, <1>7, <1>8 DEF InFlight, Fits, Payable, At, Quiet
<1> QED
  BY <1>3, <1>5, <1>9 DEF PaymentsMatchRecords

LEMMA IssuesKeeps ==
  ASSUME Payments, NEW s \in Slots, NEW d \in Deposits, Issues(s, d)
  PROVE  PaymentsMatchRecords'
<1>1. /\ Others(s) /\ ~Committing(s) /\ d \notin issued
      /\ issued' = issued \cup {d}
      /\ call'[s].pc = "alloc_rate" /\ call'[s].id = d
      /\ UNCHANGED <<deposits, bob, alice>>
  BY PhasesApart DEF Issues, Committing, At
<1>2. \A e : Same(e)
  BY <1>1 DEF Same
<1>3. \A e \in Deposits : Account(e)'
  BY <1>1, <1>2, AccountStays
<1>4. \A t \in Slots : call[t].id # d
  BY <1>1, DepositFacts DEF Payments, PaymentsMatchRecords, InFlight
<1>5. \A t \in Slots \ {s} : InFlight(t)'
  BY <1>1, <1>2, <1>4, OthersStay
<1>6. InFlight(s)'
  <2>1. deposits[d].state = "none" /\ bob[d] = 0 /\ alice[d] = 0
    BY <1>1 DEF Payments, PaymentsMatchRecords, Account
  <2>2. \A t \in Slots \ {s} : call'[t].id # d
    BY <1>1, <1>4 DEF Others
  <2> QED
    BY <1>1, <2>1, <2>2, PhasesApart DEF InFlight, Fits, At
<1> QED
  BY <1>3, <1>5, <1>6 DEF PaymentsMatchRecords

\* A call that changes its deposit's record or pays: the other calls, which do
\* not work on that deposit, and the other deposits are left alone.
LEMMA ActiveKeeps ==
  ASSUME Payments, NEW s \in Slots, NEW d \in Deposits, call[s].id = d,
         Others(s), UNCHANGED issued, call[s].pc \notin NeutralPcs,
         call'[s].id \in {d, None}, call'[s].pc # "alloc_rate",
         \A e \in Deposits \ {d} : Same(e),
         Account(d)',
         Fits(call[s].pc, call[s].id)'
  PROVE  PaymentsMatchRecords'
<1>1. TypeOK /\ InFlight(s)
  BY DEF Payments, Exclusive, PaymentsMatchRecords
<1>2. \A e \in Deposits : Account(e)'
  <2>1. ASSUME NEW e \in Deposits, e # d
        PROVE  Account(e)'
    BY <2>1, AccountStays
  <2> QED
    BY <2>1
<1>3. \A t \in Slots \ {s} : InFlight(t)'
  <2>1. ASSUME NEW t \in Slots \ {s}, call[t].pc \notin NeutralPcs
        PROVE  call[t].id \in Deposits /\ call[t].id # d
    BY <1>1, <2>1, Apart, ActivePcs, CallFacts DEF CallRecords
  <2>2. ASSUME NEW t \in Slots \ {s}, At(t, "alloc_rate")
        PROVE  call'[s].id # call[t].id
    BY <2>1, <2>2, DepositFacts, PhasesApart DEF At
  <2> QED
    BY <2>1, <2>2, OthersStay
<1>4. InFlight(s)'
  BY <1>1 DEF InFlight, At
<1> QED
  BY <1>2, <1>3, <1>4 DEF PaymentsMatchRecords

\* The deposit of a call that writes or pays.
LEMMA ActiveDeposit ==
  ASSUME Payments, NEW s \in Slots, call[s].pc \notin NeutralPcs
  PROVE  /\ call[s].id \in Deposits
         /\ Account(call[s].id) /\ Fits(call[s].pc, call[s].id)
<1>1. TypeOK
  BY DEF Payments, Exclusive
<1>2. call[s].id \in Deposits
  BY <1>1, ActivePcs, CallFacts DEF CallRecords
<1> QED
  BY <1>2 DEF Payments, PaymentsMatchRecords, InFlight

LEMMA WritesKeeps ==
  ASSUME Payments, NEW s \in Slots, NEW from, NEW to, Writes(s, from, to),
         \/ from = {"alloc_rate"} /\ to = "allocated"
         \/ from = {"prepare_topups"} /\ to = "created"
         \/ from = SealPcs /\ to = "sealed"
         \/ from = {"fin_commit", "reclaim_commit"} /\ to = "none"
  PROVE  PaymentsMatchRecords'
<1>0. PICK d \in Deposits : call[s].id = d
  BY ActiveDeposit, PhasesApart, PhaseFacts DEF Writes
<1>1. /\ Others(s) /\ UNCHANGED <<bob, alice, issued>>
      /\ call[s].pc \in from
      /\ call'[s].pc \in NeutralPcs /\ call'[s].id \in {d, None}
  BY <1>0 DEF Writes
<1>2. call[s].pc \notin NeutralPcs
  BY <1>0, <1>1, PhasesApart, PhaseFacts
<1>3. d \in Deposits /\ Account(d) /\ Fits(call[s].pc, d)
  BY <1>0, <1>2, ActiveDeposit
<1>4. deposits'[d].state = to
  BY <1>0, <1>3 DEF Writes
<1>5. \A e \in Deposits \ {d} : Same(e)
  BY <1>0, <1>1 DEF Writes, Same
<1>6. d \in issued
  <2>1. d # None
    BY <1>0, <1>3, DepositFacts
  <2> QED
    BY <1>0, <2>1 DEF Payments, PaymentsMatchRecords, InFlight
<1>7. Account(d)'
  <2>1. CASE from = {"alloc_rate"} /\ to = "allocated"
    BY <1>0, <1>1, <1>3, <1>4, <1>6, <2>1 DEF Account, Fits
  <2>2. CASE from = {"prepare_topups"} /\ to = "created"
    BY <1>0, <1>1, <1>3, <1>4, <1>6, <2>2, PhaseFacts DEF Account, Fits
  <2>3. CASE from = SealPcs /\ to = "sealed"
    BY <1>0, <1>1, <1>3, <1>4, <1>6, <2>3 DEF Account, Fits
  <2>4. CASE from = {"fin_commit", "reclaim_commit"} /\ to = "none"
    BY <1>0, <1>1, <1>3, <1>4, <1>6, <2>4 DEF Account
  <2> QED
    BY <2>1, <2>2, <2>3, <2>4
<1>8. Fits(call[s].pc, call[s].id)'
  BY <1>0, <1>1, PhasesApart DEF Fits
<1> QED
  BY <1>0, <1>1, <1>2, <1>5, <1>7, <1>8, PhasesApart, ActiveKeeps

LEMMA PaysKeeps ==
  ASSUME Payments, NEW s \in Slots, Pays(s)
  PROVE  PaymentsMatchRecords'
<1>0. PICK d \in Deposits : call[s].id = d
  BY ActiveDeposit, PhasesApart, PhaseFacts DEF Pays, At
<1>1. /\ Others(s) /\ UNCHANGED <<deposits, alice, issued>>
      /\ call[s].pc = "fin_transfer" /\ call'[s].pc = "fin_commit"
      /\ call'[s].id = d
  BY <1>0 DEF Pays, At
<1>2. call[s].pc \notin NeutralPcs /\ call[s].pc \in PayPcs
  BY <1>0, <1>1, PhasesApart, PhaseFacts
<1>3. d \in Deposits /\ Account(d) /\ Fits(call[s].pc, d)
  BY <1>0, <1>2, ActiveDeposit
<1>4. Payable(d) /\ bob[d] = 0 /\ alice[d] = 0
  BY <1>0, <1>2, <1>3 DEF Fits
<1>5. bob'[d] = Amount[d] /\ \A e \in Deposits \ {d} : bob'[e] = bob[e]
  <2>1. bob \in [Deposits -> Nat] /\ Amount[d] \in Nat
    BY <1>0, <1>3, DepositFacts DEF Payments, Exclusive, TypeOK, LedgerType
  <2>2. bob' = [bob EXCEPT ![d] = @ + Amount[d]]
    BY <1>0 DEF Pays
  <2> QED
    BY <1>0, <1>3, <1>4, <2>1, <2>2
<1>6. \A e \in Deposits \ {d} : Same(e)
  BY <1>0, <1>1, <1>5 DEF Same
<1>7. Account(d)'
  <2>1. d \in issued
    BY <1>0, <1>3, DepositFacts DEF Payments, PaymentsMatchRecords, InFlight
  <2>2. At(s, "fin_commit")' /\ call'[s].id = d
    BY <1>0, <1>1 DEF At
  <2> QED
    BY <1>0, <1>1, <1>4, <1>5, <2>1, <2>2 DEF Account, Payable
<1>8. Fits(call[s].pc, call[s].id)'
  BY <1>0, <1>1, <1>4, <1>5, PhasesApart DEF Fits, Payable
<1> QED
  BY <1>0, <1>1, <1>2, <1>6, <1>7, <1>8, ActiveKeeps

LEMMA RefundsKeeps ==
  ASSUME Payments, NEW s \in Slots, Refunds(s)
  PROVE  PaymentsMatchRecords'
<1>0. PICK d \in Deposits : call[s].id = d
  BY ActiveDeposit, PhasesApart, PhaseFacts DEF Refunds, At
<1>1. /\ Others(s) /\ UNCHANGED <<deposits, bob, issued>>
      /\ call[s].pc = "reclaim_transfer" /\ call'[s].pc = "reclaim_commit"
      /\ call'[s].id = d
  BY <1>0 DEF Refunds, At
<1>2. call[s].pc \notin NeutralPcs /\ call[s].pc \in RefundPcs
  BY <1>0, <1>1, PhasesApart, PhaseFacts
<1>3. d \in Deposits /\ Account(d) /\ Fits(call[s].pc, d)
  BY <1>0, <1>2, ActiveDeposit
<1>4. deposits[d].state = "created" /\ bob[d] = 0 /\ alice[d] = 0
  BY <1>0, <1>2, <1>3 DEF Fits, Account
<1>5. alice'[d] > 0 /\ \A e \in Deposits \ {d} : alice'[e] = alice[e]
  <2>1. alice \in [Deposits -> Nat]
    BY <1>0 DEF Payments, Exclusive, TypeOK, LedgerType
  <2>2. PICK refund \in Nat \ {0} : alice' = [alice EXCEPT ![d] = @ + refund]
    BY <1>0 DEF Refunds
  <2> QED
    BY <1>0, <1>3, <1>4, <2>1, <2>2
<1>6. \A e \in Deposits \ {d} : Same(e)
  BY <1>0, <1>1, <1>5 DEF Same
<1>7. Account(d)'
  <2>1. d \in issued
    BY <1>0, <1>3, DepositFacts DEF Payments, PaymentsMatchRecords, InFlight
  <2>2. At(s, "reclaim_commit")' /\ call'[s].id = d
    BY <1>0, <1>1 DEF At
  <2> QED
    BY <1>0, <1>1, <1>3, <1>4, <2>1, <2>2 DEF Account
<1>8. Fits(call[s].pc, call[s].id)'
  BY <1>0, <1>1, <1>4, <1>5, PhasesApart DEF Fits
<1> QED
  BY <1>0, <1>1, <1>2, <1>6, <1>7, <1>8, ActiveKeeps

LEMMA PayStepKeeps ==
  ASSUME Payments, NEW s \in Slots, PayStep(s)
  PROVE  PaymentsMatchRecords'
  BY GoesKeeps, BeginsKeeps, IssuesKeeps, WritesKeeps, PaysKeeps, RefundsKeeps
     DEF PayStep
-----------------------------------------------------------------------------
(* Every action of a call is such a step *)

LEMMA ReturnGoes ==
  ASSUME TypeOK, NEW s \in Slots, Return(s), Quiet, ~Committing(s)
  PROVE  PayStep(s)
<1>1. Others(s) /\ call'[s] = Idle
  BY CallUpdated DEF Return
<1> QED
  BY <1>1, NeutralFacts DEF PayStep, Goes, Idle

\* A call that goes on within its phase, or outside all of them.
LEMMA MoveGoes ==
  ASSUME TypeOK, NEW s \in Slots, NEW c, call' = [call EXCEPT ![s] = c],
         c.id = call[s].id, Quiet, ~Committing(s),
         \/ c.pc \in NeutralPcs
         \/ \E X \in {PreparePcs, SealPcs, PayPcs, RefundPcs} :
              call[s].pc \in X /\ c.pc \in X
  PROVE  PayStep(s)
  BY CallUpdated DEF PayStep, Goes

LEMMA GotoGoes ==
  ASSUME TypeOK, NEW s \in Slots, NEW pc, Goto(s, pc), Quiet, ~Committing(s),
         \/ pc \in NeutralPcs
         \/ \E X \in {PreparePcs, SealPcs, PayPcs, RefundPcs} :
              call[s].pc \in X /\ pc \in X
  PROVE  PayStep(s)
  BY GotoUpdates DEF PayStep, Goes

LEMMA AllocPays ==
  ASSUME TypeOK, NEW s \in Slots, AllocStep(s)
  PROVE  PayStep(s)
<1>1. CASE AllocSecret(s)
  <2>1. Quiet /\ ~Committing(s)
    BY <1>1
       DEF AllocSecret, Quiet, Committing, At, routerVars, serviceVars,
           ledgerVars, SecretReply
  <2>2. Goto(s, "alloc_check")
    BY <1>1 DEF AllocSecret, SecretReply
  <2> QED
    BY <1>1, <2>1, <2>2, GotoGoes, NeutralFacts
       DEF AllocSecret, At, SecretReply
<1>2. CASE AllocCheck(s)
  <2>1. CASE paused
    BY <1>2, <2>1, ReturnGoes
       DEF AllocCheck, Quiet, Committing, At, ledgerVars
  <2>2. ASSUME NEW d \in Deposits \ issued, issued' = issued \cup {d},
               call' = [call EXCEPT ![s].pc = "alloc_rate", ![s].id = d]
        PROVE  PayStep(s)
    <3> DEFINE c == [call[s] EXCEPT !.pc = "alloc_rate", !.id = d]
    <3>1. c.pc = "alloc_rate" /\ c.id = d
      BY CallFacts DEF CallRecords
    <3>2. call' = [call EXCEPT ![s] = c]
      BY <2>2
    <3>3. Others(s) /\ call'[s].pc = "alloc_rate" /\ call'[s].id = d
      BY <3>1, <3>2, CallUpdated
    <3>4. Issues(s, d)
      BY <1>2, <2>2, <3>3, NeutralFacts DEF Issues, AllocCheck, At, ledgerVars
    <3> QED
      BY <3>4 DEF PayStep
  <2> QED
    BY <1>2, <2>1, <2>2 DEF AllocCheck
<1>3. CASE AllocRate(s)
  <2>1. call[s].pc = "alloc_rate" /\ call[s].id \in Deposits
    BY <1>3, CallFacts DEF AllocRate, At, AnonymousPcs
  <2>2. CASE UNCHANGED deposits
    BY <1>3, <2>1, <2>2, ReturnGoes
       DEF AllocRate, Quiet, Committing, At, ledgerVars, serviceVars
  <2>3. CASE deposits' = [deposits EXCEPT ![call[s].id] =
                            [NoDeposit EXCEPT !.state = "allocated"]]
    <3>1. Others(s) /\ call'[s] = Idle
      BY <1>3, CallUpdated DEF AllocRate, Return
    <3>2. \A d \in Deposits :
            deposits'[d].state = IF d = call[s].id THEN "allocated"
                                 ELSE deposits[d].state
      BY <2>1, <2>3 DEF TypeOK, DepositsType, NoDeposit
    <3>3. Writes(s, {"alloc_rate"}, "allocated")
      BY <1>3, <2>1, <3>1, <3>2, NeutralFacts
         DEF Writes, AllocRate, Idle, ledgerVars, serviceVars
    <3> QED
      BY <3>3 DEF PayStep
  <2> QED
    BY <1>3, <2>2, <2>3 DEF AllocRate
<1> QED
  BY <1>1, <1>2, <1>3 DEF AllocStep

LEMMA PreparePays ==
  ASSUME TypeOK, NEW s \in Slots, PrepareStep(s)
  PROVE  PayStep(s)
<1>1. CASE PrepareSecret(s)
  <2>1. Quiet /\ ~Committing(s)
    BY <1>1
       DEF PrepareSecret, Quiet, Committing, At, routerVars, serviceVars,
           ledgerVars, SecretReply
  <2>2. Goto(s, "prepare_check")
    BY <1>1 DEF PrepareSecret, SecretReply
  <2> QED
    BY <1>1, <2>1, <2>2, GotoGoes, NeutralFacts
       DEF PrepareSecret, At, SecretReply
<1>2. CASE PrepareCheck(s)
  <2> DEFINE d == call[s].id
  <2>1. Quiet /\ ~Committing(s) /\ d \in Deposits
    BY <1>2, CallFacts
       DEF PrepareCheck, Quiet, Committing, At, AnonymousPcs, serviceVars,
           ledgerVars
  <2>2. CASE /\ deposits[d].state = "allocated" /\ d \notin locks
             /\ Goto(s, "prepare_balance")
    <3>1. /\ Others(s) /\ call'[s].pc = "prepare_balance"
          /\ call'[s].id = d
      BY <2>2, GotoUpdates
    <3>2. Begins(s, d)
      BY <1>2, <2>1, <2>2, <3>1, NeutralFacts
         DEF Begins, Entries, PrepareCheck, At
    <3> QED
      BY <2>1, <3>2 DEF PayStep
  <2>3. CASE Return(s)
    BY <2>1, <2>3, ReturnGoes
  <2> QED
    BY <1>2, <2>2, <2>3 DEF PrepareCheck
<1>3. CASE PrepareBalance(s)
  <2>1. Quiet /\ ~Committing(s)
    BY <1>3
       DEF PrepareBalance, Quiet, Committing, At, routerVars, serviceVars,
           ledgerVars
  <2> DEFINE c == [call[s] EXCEPT !.pc = "prepare_rate",
                                  !.bal = sub[call[s].id]]
  <2>2. call' = [call EXCEPT ![s] = c]
    BY <1>3 DEF PrepareBalance
  <2>3. c.id = call[s].id /\ c.pc = "prepare_rate"
    BY CallFacts DEF CallRecords
  <2> QED
    BY <1>3, <2>1, <2>2, <2>3, MoveGoes, PhaseFacts DEF PrepareBalance, At
<1>4. CASE PrepareRate(s)
  <2>1. Quiet /\ ~Committing(s)
    BY <1>4 DEF PrepareRate, Quiet, Committing, At, serviceVars, ledgerVars
  <2>2. CASE Return(s)
    BY <2>1, <2>2, ReturnGoes
  <2>3. ASSUME NEW convert,
               call' = [call EXCEPT ![s].pc = "prepare_convert", ![s].bal = 0,
                                    ![s].amt = convert]
        PROVE  PayStep(s)
    <3> DEFINE c == [call[s] EXCEPT !.pc = "prepare_convert", !.bal = 0,
                                    !.amt = convert]
    <3>1. call' = [call EXCEPT ![s] = c]
      BY <2>3
    <3>2. c.id = call[s].id /\ c.pc = "prepare_convert"
      BY CallFacts DEF CallRecords
    <3> QED
      BY <1>4, <2>1, <3>1, <3>2, MoveGoes, PhaseFacts DEF PrepareRate, At
  <2> QED
    BY <1>4, <2>2, <2>3 DEF PrepareRate, ReturnUnlocked
<1>5. CASE PrepareConvert(s)
  <2>1. Quiet /\ ~Committing(s)
    BY <1>5
       DEF PrepareConvert, Quiet, Committing, At, routerVars, serviceVars,
           ledgerVars
  <2>2. Goto(s, "prepare_notify") \/ Return(s)
    BY <1>5 DEF PrepareConvert, ReturnUnlocked
  <2> QED
    BY <1>5, <2>1, <2>2, GotoGoes, ReturnGoes, PhaseFacts
       DEF PrepareConvert, At
<1>6. CASE PrepareNotify(s)
  <2>1. Quiet /\ ~Committing(s)
    BY <1>6
       DEF PrepareNotify, Quiet, Committing, At, routerVars, serviceVars,
           ledgerVars
  <2>2. Goto(s, "prepare_spawn") \/ Return(s)
    BY <1>6 DEF PrepareNotify, ReturnUnlocked
  <2> QED
    BY <1>6, <2>1, <2>2, GotoGoes, ReturnGoes, PhaseFacts
       DEF PrepareNotify, At
<1>7. CASE PrepareSpawn(s)
  <2>1. Quiet /\ ~Committing(s)
    BY <1>7
       DEF PrepareSpawn, Quiet, Committing, At, routerVars, serviceVars,
           ledgerVars
  <2>2. Goto(s, "prepare_topups") \/ Return(s)
    BY <1>7 DEF PrepareSpawn, ReturnUnlocked
  <2> QED
    BY <1>7, <2>1, <2>2, GotoGoes, ReturnGoes, PhaseFacts DEF PrepareSpawn, At
<1>8. CASE PrepareTopUps(s)
  <2>1. call[s].pc = "prepare_topups" /\ call[s].id \in Deposits
    BY <1>8, CallFacts DEF PrepareTopUps, At, AnonymousPcs
  <2>2. Others(s) /\ call'[s] = Idle
    BY <1>8, CallUpdated DEF PrepareTopUps, ReturnUnlocked, Return
  <2>3. \A d \in Deposits :
          deposits'[d].state = IF d = call[s].id THEN "created"
                               ELSE deposits[d].state
    BY <1>8, <2>1 DEF PrepareTopUps, TypeOK, DepositsType, NoDeposit
  <2>4. Writes(s, {"prepare_topups"}, "created")
    BY <1>8, <2>1, <2>2, <2>3, NeutralFacts
       DEF Writes, PrepareTopUps, Idle, ledgerVars, serviceVars
  <2> QED
    BY <2>4 DEF PayStep
<1>9. CASE PrepareReject(s)
  <2>1. Quiet /\ ~Committing(s)
    BY <1>9, PhasesApart
       DEF PrepareReject, Quiet, Committing, At, routerVars, serviceVars,
           ledgerVars
  <2> QED
    BY <1>9, <2>1, ReturnGoes DEF PrepareReject
<1> QED
  BY <1>1, <1>2, <1>3, <1>4, <1>5, <1>6, <1>7, <1>8, <1>9 DEF PrepareStep

LEMMA SealPays ==
  ASSUME TypeOK, NEW s \in Slots, SealStep(s)
  PROVE  PayStep(s)
<1>1. CASE SealBalance(s)
  <2>1. Quiet /\ ~Committing(s)
    BY <1>1
       DEF SealBalance, Quiet, Committing, At, routerVars, serviceVars,
           ledgerVars
  <2> DEFINE c == [call[s] EXCEPT !.pc = "seal_rate",
                                  !.bal = sub[call[s].id]]
  <2>2. call' = [call EXCEPT ![s] = c]
    BY <1>1 DEF SealBalance
  <2>3. c.id = call[s].id /\ c.pc = "seal_rate"
    BY CallFacts DEF CallRecords
  <2> QED
    BY <1>1, <2>1, <2>2, <2>3, MoveGoes, PhaseFacts DEF SealBalance, At
<1>2. CASE SealRate(s)
  <2>1. Quiet /\ ~Committing(s)
    BY <1>2 DEF SealRate, Quiet, Committing, At, serviceVars, ledgerVars
  <2>2. CASE Return(s)
    BY <2>1, <2>2, ReturnGoes
  <2>3. ASSUME NEW r, call' = [call EXCEPT ![s].pc = "seal_compute",
                                           ![s].rate = r]
        PROVE  PayStep(s)
    <3> DEFINE c == [call[s] EXCEPT !.pc = "seal_compute", !.rate = r]
    <3>1. call' = [call EXCEPT ![s] = c]
      BY <2>3
    <3>2. c.id = call[s].id /\ c.pc = "seal_compute"
      BY CallFacts DEF CallRecords
    <3>3. call[s].pc \in SealPcs /\ c.pc \in SealPcs
      BY <1>2, <3>2, PhaseFacts, Zenon DEF SealRate, At
    <3> HIDE DEF c
    <3> QED
      BY <2>1, <3>1, <3>2, <3>3, MoveGoes, Zenon
  <2> QED
    BY <1>2, <2>2, <2>3 DEF SealRate, ReturnUnlocked
<1>3. CASE SealCompute(s)
  <2>1. Quiet /\ ~Committing(s)
    BY <1>3 DEF SealCompute, Quiet, Committing, At, serviceVars
  <2>2. CASE Return(s)
    BY <2>1, <2>2, ReturnGoes
  <2>3. ASSUME NEW amt, NEW rest,
               call' = [call EXCEPT ![s].pc = "seal_transfer", ![s].bal = 0,
                                    ![s].amt = amt, ![s].rest = rest]
        PROVE  PayStep(s)
    <3> DEFINE c == [call[s] EXCEPT !.pc = "seal_transfer", !.bal = 0,
                                    !.amt = amt, !.rest = rest]
    <3>1. call' = [call EXCEPT ![s] = c]
      BY <2>3
    <3>2. c.id = call[s].id /\ c.pc = "seal_transfer"
      BY CallFacts DEF CallRecords
    <3> QED
      BY <1>3, <2>1, <3>1, <3>2, MoveGoes, PhaseFacts DEF SealCompute, At
  <2> QED
    BY <1>3, <2>2, <2>3 DEF SealCompute, ReturnUnlocked
<1>4. CASE SealTransfer(s)
  <2>1. Quiet /\ ~Committing(s)
    BY <1>4
       DEF SealTransfer, Quiet, Committing, At, routerVars, serviceVars,
           ledgerVars
  <2> DEFINE c == [call[s] EXCEPT !.rest = Tail(call[s].rest)]
  <2>2. call' = [call EXCEPT ![s] = c] \/ Return(s)
    BY <1>4 DEF SealTransfer, ReturnUnlocked
  <2>3. c.id = call[s].id /\ c.pc = call[s].pc
    BY CallFacts DEF CallRecords
  <2>4. call[s].pc \in SealPcs /\ c.pc \in SealPcs
    BY <1>4, <2>3, PhaseFacts, Zenon DEF SealTransfer, At
  <2> HIDE DEF c
  <2> QED
    BY <2>1, <2>2, <2>3, <2>4, MoveGoes, ReturnGoes, Zenon
<1>5. CASE SealConvert(s)
  <2>1. Quiet /\ ~Committing(s)
    BY <1>5
       DEF SealConvert, Quiet, Committing, At, routerVars, serviceVars,
           ledgerVars
  <2> DEFINE c == [call[s] EXCEPT !.amt = 0]
  <2>2. call' = [call EXCEPT ![s] = c]
    BY <1>5 DEF SealConvert
  <2>3. c.id = call[s].id /\ c.pc = call[s].pc
    BY CallFacts DEF CallRecords
  <2> QED
    BY <1>5, <2>1, <2>2, <2>3, MoveGoes, PhaseFacts DEF SealConvert, At
<1>6. CASE SealCommit(s)
  <2> DEFINE pc == IF seal_count' = 0 /\ call[s].rate > 0
                   THEN "recycle_read" ELSE "leftover"
             c == [call[s] EXCEPT !.pc = pc, !.spawn_fee = 0]
  <2>1. call[s].pc = "seal_transfer" /\ call[s].id \in Deposits
    BY <1>6, CallFacts DEF SealCommit, At, AnonymousPcs
  <2>2. call' = [call EXCEPT ![s] = c]
    BY <1>6 DEF SealCommit
  <2>3. c.pc \in NeutralPcs /\ c.id = call[s].id
    BY CallFacts, NeutralFacts DEF CallRecords
  <2> HIDE DEF pc, c
  <2>4. /\ Others(s) /\ call'[s].pc \in NeutralPcs
        /\ call'[s].id = call[s].id
    BY <2>2, <2>3, CallUpdated
  <2>5. \A d \in Deposits :
          deposits'[d].state = IF d = call[s].id THEN "sealed"
                               ELSE deposits[d].state
    BY <1>6, <2>1 DEF SealCommit, TypeOK, DepositsType, NoDeposit
  <2>6. Writes(s, SealPcs, "sealed")
    BY <1>6, <2>1, <2>4, <2>5, PhaseFacts DEF Writes, SealCommit, ledgerVars
  <2> QED
    BY <2>6 DEF PayStep
<1>7. CASE SealReject(s)
  <2>1. Quiet /\ ~Committing(s)
    BY <1>7
       DEF SealReject, Quiet, Committing, At, routerVars, serviceVars,
           ledgerVars
  <2> QED
    BY <1>7, <2>1, ReturnGoes DEF SealReject, ReturnUnlocked
<1> QED
  BY <1>1, <1>2, <1>3, <1>4, <1>5, <1>6, <1>7 DEF SealStep

LEMMA MaintenancePays ==
  ASSUME TypeOK, NEW s \in Slots, MaintenanceStep(s)
  PROVE  PayStep(s)
<1>1. CASE RecycleRead(s)
  <2>1. Quiet /\ ~Committing(s)
    BY <1>1 DEF RecycleRead, Quiet, Committing, At, routerVars, serviceVars,
                ledgerVars
  <2> DEFINE c == [call[s] EXCEPT !.pc = "recycle_wedge", !.bal = mixer]
  <2>2. Goto(s, "leftover") \/ call' = [call EXCEPT ![s] = c]
    BY <1>1 DEF RecycleRead
  <2>3. c.id = call[s].id /\ c.pc = "recycle_wedge"
    BY CallFacts DEF CallRecords
  <2> QED
    BY <2>1, <2>2, <2>3, GotoGoes, MoveGoes, NeutralFacts
<1>2. CASE RecycleWedge(s)
  <2>1. Quiet /\ ~Committing(s)
    BY <1>2 DEF RecycleWedge, Quiet, Committing, At, routerVars, serviceVars,
                ledgerVars
  <2> DEFINE recycle(x) == Lesser(x, Monus(call[s].bal, pool_claims))
             pc(x) == IF recycle(x) = 0 THEN "leftover" ELSE "recycle_burn"
             c(x) == [call[s] EXCEPT !.pc = pc(x), !.bal = 0,
                                     !.amt = recycle(x)]
  <2>2. PICK x \in Shortfalls : call' = [call EXCEPT ![s] = c(x)]
    <3>1. PICK x \in Shortfalls :
            call' = [call EXCEPT ![s].pc = pc(x), ![s].bal = 0,
                                 ![s].amt = recycle(x)]
      BY <1>2, Zenon DEF RecycleWedge
    <3> DEFINE to == pc(x)
               amt == recycle(x)
    <3> HIDE DEF to, amt
    <3>2. call' = [call EXCEPT ![s].pc = to, ![s].bal = 0, ![s].amt = amt]
      BY <3>1, Zenon DEF to, amt
    <3>3. call' = [call EXCEPT ![s] = [call[s] EXCEPT !.pc = to, !.bal = 0,
                                                      !.amt = amt]]
      BY <3>2
    <3> QED
      BY <3>3, Zenon DEF to, amt
  <2>3. c(x).id = call[s].id /\ c(x).pc = pc(x)
    BY CallFacts DEF CallRecords
  <2>4. c(x).pc \in NeutralPcs
    BY <2>3, NeutralFacts
  <2> HIDE DEF c
  <2> QED
    BY <2>1, <2>2, <2>3, <2>4, MoveGoes
<1>3. CASE RecycleBurn(s)
  <2>1. Quiet /\ ~Committing(s)
    BY <1>3
       DEF RecycleBurn, Quiet, Committing, At, routerVars, serviceVars,
           ledgerVars
  <2> DEFINE c == [call[s] EXCEPT !.pc = "leftover", !.amt = 0]
  <2>2. call' = [call EXCEPT ![s] = c]
    BY <1>3 DEF RecycleBurn
  <2>3. c.id = call[s].id /\ c.pc = "leftover"
    BY CallFacts DEF CallRecords
  <2> QED
    BY <1>3, <2>1, <2>2, <2>3, MoveGoes, NeutralFacts DEF RecycleBurn, At
<1>4. CASE SealLeftover(s)
  <2>1. Quiet /\ ~Committing(s)
    BY <1>4
       DEF SealLeftover, Quiet, Committing, At, routerVars, serviceVars,
           ledgerVars
  <2>2. Goto(s, "sweep_read")
    BY <1>4 DEF SealLeftover
  <2> QED
    BY <1>4, <2>1, <2>2, GotoGoes, NeutralFacts DEF SealLeftover, At
<1>5. CASE SweepRead(s)
  <2>1. Quiet /\ ~Committing(s)
    BY <1>5
       DEF SweepRead, Quiet, Committing, At, routerVars, serviceVars,
           ledgerVars
  <2> DEFINE c == [call[s] EXCEPT !.pc = "sweep_compute", !.bal = mixer]
  <2>2. call' = [call EXCEPT ![s] = c]
    BY <1>5 DEF SweepRead
  <2>3. c.id = call[s].id /\ c.pc = "sweep_compute"
    BY CallFacts DEF CallRecords
  <2> QED
    BY <1>5, <2>1, <2>2, <2>3, MoveGoes, NeutralFacts DEF SweepRead, At
<1>6. CASE SweepCompute(s)
  <2>1. Quiet /\ ~Committing(s)
    BY <1>6 DEF SweepCompute, Quiet, Committing, At, routerVars, serviceVars,
                ledgerVars
  <2>2. PICK amt : call' = [call EXCEPT ![s].pc = "sweep_pay", ![s].bal = 0,
                                        ![s].amt = amt]
    BY <1>6 DEF SweepCompute
  <2> DEFINE c == [call[s] EXCEPT !.pc = "sweep_pay", !.bal = 0, !.amt = amt]
  <2>3. call' = [call EXCEPT ![s] = c]
    BY <2>2
  <2>4. c.id = call[s].id /\ c.pc = "sweep_pay"
    BY CallFacts DEF CallRecords
  <2> QED
    BY <2>1, <2>3, <2>4, MoveGoes, NeutralFacts
<1>7. CASE SweepPay(s)
  <2>1. Quiet /\ ~Committing(s)
    BY <1>7
       DEF SweepPay, Quiet, Committing, At, routerVars, serviceVars,
           ledgerVars
  <2> DEFINE c == [call[s] EXCEPT !.pc = "buffer_read", !.amt = 0]
  <2>2. call' = [call EXCEPT ![s] = c] \/ Return(s)
    BY <1>7 DEF SweepPay, ReturnUnlocked
  <2>3. c.id = call[s].id /\ c.pc = "buffer_read"
    BY CallFacts DEF CallRecords
  <2> QED
    BY <1>7, <2>1, <2>2, <2>3, MoveGoes, ReturnGoes, NeutralFacts
       DEF SweepPay, At
<1>8. CASE BufferRead(s)
  <2>1. Quiet /\ ~Committing(s)
    BY <1>8
       DEF BufferRead, Quiet, Committing, At, routerVars, serviceVars,
           ledgerVars
  <2> DEFINE c == [call[s] EXCEPT !.pc = "buffer_pay", !.bal = fee_buf]
  <2>2. call' = [call EXCEPT ![s] = c]
    BY <1>8 DEF BufferRead
  <2>3. c.id = call[s].id /\ c.pc = "buffer_pay"
    BY CallFacts DEF CallRecords
  <2> QED
    BY <1>8, <2>1, <2>2, <2>3, MoveGoes, NeutralFacts DEF BufferRead, At
<1>9. CASE BufferPay(s)
  <2>1. Quiet /\ ~Committing(s)
    BY <1>9
       DEF BufferPay, Quiet, Committing, At, routerVars, serviceVars,
           ledgerVars
  <2> QED
    BY <1>9, <2>1, ReturnGoes DEF BufferPay, ReturnUnlocked
<1> QED
  BY <1>1, <1>2, <1>3, <1>4, <1>5, <1>6, <1>7, <1>8, <1>9 DEF MaintenanceStep

LEMMA FinalizePays ==
  ASSUME TypeOK, NEW s \in Slots, FinalizeStep(s)
  PROVE  PayStep(s)
<1>1. CASE FinalizePreload(s)
  <2>1. Quiet /\ ~Committing(s)
    BY <1>1
       DEF FinalizePreload, Quiet, Committing, At, routerVars, serviceVars,
           ledgerVars, FromBuffer
  <2>2. Goto(s, "fin_balance") \/ Return(s)
    BY <1>1 DEF FinalizePreload, ReturnUnlocked, FromBuffer
  <2> QED
    BY <1>1, <2>1, <2>2, GotoGoes, ReturnGoes, PhaseFacts
       DEF FinalizePreload, At, FromBuffer
<1>2. CASE FinalizeBalance(s)
  <2>1. Quiet /\ ~Committing(s)
    BY <1>2
       DEF FinalizeBalance, Quiet, Committing, At, routerVars, serviceVars,
           ledgerVars, ReadMixer
  <2> DEFINE c == [call[s] EXCEPT !.pc = "fin_topup", !.bal = mixer]
  <2>2. call' = [call EXCEPT ![s] = c]
    BY <1>2 DEF FinalizeBalance, ReadMixer
  <2>3. c.id = call[s].id /\ c.pc = "fin_topup"
    BY CallFacts DEF CallRecords
  <2> QED
    BY <1>2, <2>1, <2>2, <2>3, MoveGoes, PhaseFacts
       DEF FinalizeBalance, At, ReadMixer
<1>3. CASE FinalizeTopUp(s)
  <2>1. Quiet /\ ~Committing(s)
    BY <1>3
       DEF FinalizeTopUp, Quiet, Committing, At, routerVars, serviceVars,
           ledgerVars, TopUp, FromBuffer
  <2>2. Goto(s, "fin_ensure") \/ Return(s)
    BY <1>3 DEF FinalizeTopUp, ReturnUnlocked, TopUp, FromBuffer
  <2> QED
    BY <1>3, <2>1, <2>2, GotoGoes, ReturnGoes, PhaseFacts
       DEF FinalizeTopUp, At, TopUp, FromBuffer
<1>4. CASE FinalizeEnsure(s)
  <2>1. Quiet /\ ~Committing(s)
    BY <1>4
       DEF FinalizeEnsure, Quiet, Committing, At, routerVars, serviceVars,
           ledgerVars, ReadMixer
  <2> DEFINE c == [call[s] EXCEPT !.pc = "fin_deficit", !.bal = mixer]
  <2>2. call' = [call EXCEPT ![s] = c]
    BY <1>4 DEF FinalizeEnsure, ReadMixer
  <2>3. c.id = call[s].id /\ c.pc = "fin_deficit"
    BY CallFacts DEF CallRecords
  <2> QED
    BY <1>4, <2>1, <2>2, <2>3, MoveGoes, PhaseFacts
       DEF FinalizeEnsure, At, ReadMixer
<1>5. CASE FinalizeDeficit(s)
  <2>1. Quiet /\ ~Committing(s)
    BY <1>5
       DEF FinalizeDeficit, Quiet, Committing, At, routerVars, serviceVars,
           ledgerVars, TopUp, FromBuffer
  <2>2. Goto(s, "fin_transfer") \/ Return(s)
    BY <1>5 DEF FinalizeDeficit, ReturnUnlocked, TopUp, FromBuffer
  <2> QED
    BY <1>5, <2>1, <2>2, GotoGoes, ReturnGoes, PhaseFacts
       DEF FinalizeDeficit, At, TopUp, FromBuffer
<1>6. CASE FinalizeTransfer(s)
  <2>1. CASE Return(s) /\ UNCHANGED bob
    BY <1>6, <2>1, ReturnGoes
       DEF FinalizeTransfer, Quiet, Committing, At, serviceVars
  <2>2. CASE /\ bob' = [bob EXCEPT ![call[s].id] = @ + Amount[call[s].id]]
             /\ Goto(s, "fin_commit")
    <3>1. /\ Others(s) /\ call'[s].pc = "fin_commit"
          /\ call'[s].id = call[s].id
      BY <2>2, GotoUpdates
    <3>2. Pays(s)
      BY <1>6, <2>2, <3>1 DEF FinalizeTransfer, Pays, serviceVars
    <3> QED
      BY <3>2 DEF PayStep
  <2> QED
    BY <1>6, <2>1, <2>2 DEF FinalizeTransfer, ReturnUnlocked
<1>7. CASE FinalizeCommit(s)
  <2>1. call[s].pc = "fin_commit" /\ call[s].id \in Deposits
    BY <1>7, CallFacts DEF FinalizeCommit, At, AnonymousPcs
  <2>2. Others(s) /\ call'[s] = Idle
    BY <1>7, CallUpdated DEF FinalizeCommit, ReturnUnlocked, Return
  <2>3. \A d \in Deposits :
          deposits'[d].state = IF d = call[s].id THEN "none"
                               ELSE deposits[d].state
    BY <1>7, <2>1 DEF FinalizeCommit, TypeOK, DepositsType, NoDeposit
  <2>4. Writes(s, {"fin_commit", "reclaim_commit"}, "none")
    BY <1>7, <2>1, <2>2, <2>3, NeutralFacts
       DEF Writes, FinalizeCommit, Idle, ledgerVars, serviceVars
  <2> QED
    BY <2>4 DEF PayStep
<1>8. CASE FinalizeReject(s)
  <2>1. Quiet /\ ~Committing(s)
    BY <1>8
       DEF FinalizeReject, Quiet, Committing, At, routerVars, serviceVars,
           ledgerVars
  <2> QED
    BY <1>8, <2>1, ReturnGoes DEF FinalizeReject, ReturnUnlocked
<1> QED
  BY <1>1, <1>2, <1>3, <1>4, <1>5, <1>6, <1>7, <1>8 DEF FinalizeStep

LEMMA ReclaimPays ==
  ASSUME TypeOK, NEW s \in Slots, ReclaimStep(s)
  PROVE  PayStep(s)
<1>1. CASE ReclaimBalance(s)
  <2>1. Quiet /\ ~Committing(s)
    BY <1>1
       DEF ReclaimBalance, Quiet, Committing, At, routerVars, serviceVars,
           ledgerVars
  <2> DEFINE c == [call[s] EXCEPT !.pc = "reclaim_transfer",
                                  !.bal = sub[call[s].id]]
  <2>2. call' = [call EXCEPT ![s] = c]
    BY <1>1 DEF ReclaimBalance
  <2>3. c.id = call[s].id /\ c.pc = "reclaim_transfer"
    BY CallFacts DEF CallRecords
  <2> QED
    BY <1>1, <2>1, <2>2, <2>3, MoveGoes, PhaseFacts DEF ReclaimBalance, At
<1>2. CASE ReclaimTransfer(s)
  <2> DEFINE refund == Monus(call[s].bal, LEDGER_FEE)
  <2>1. refund \in Nat
    BY CallFacts, ParameterFacts, MonusNat
  <2>2. CASE Return(s) /\ UNCHANGED alice
    BY <1>2, <2>2, ReturnGoes
       DEF ReclaimTransfer, Quiet, Committing, At, serviceVars
  <2>3. CASE /\ refund > 0 /\ Goto(s, "reclaim_commit")
             /\ alice' = [alice EXCEPT ![call[s].id] = @ + refund]
    <3>1. /\ Others(s) /\ call'[s].pc = "reclaim_commit"
          /\ call'[s].id = call[s].id
      BY <2>3, GotoUpdates
    <3>2. \E r \in Nat \ {0} : alice' = [alice EXCEPT ![call[s].id] = @ + r]
      <4>1. refund \in Nat \ {0}
        BY <2>1, <2>3
      <4>2. alice' = [alice EXCEPT ![call[s].id] = @ + refund]
        BY <2>3
      <4> HIDE DEF refund
      <4> QED
        BY <4>1, <4>2, Zenon
    <3>3. Refunds(s)
      BY <1>2, <3>1, <3>2 DEF ReclaimTransfer, Refunds, serviceVars
    <3> QED
      BY <3>3 DEF PayStep
  <2> QED
    BY <1>2, <2>2, <2>3 DEF ReclaimTransfer, ReturnUnlocked
<1>3. CASE ReclaimCommit(s)
  <2> DEFINE c == [call[s] EXCEPT !.pc = "reclaim_leftover", !.bal = 0]
  <2>1. call[s].pc = "reclaim_commit" /\ call[s].id \in Deposits
    BY <1>3, CallFacts DEF ReclaimCommit, At, AnonymousPcs
  <2>2. call' = [call EXCEPT ![s] = c]
    BY <1>3 DEF ReclaimCommit
  <2>3. c.pc = "reclaim_leftover" /\ c.id = call[s].id
    BY CallFacts DEF CallRecords
  <2>4. /\ Others(s) /\ call'[s].pc \in NeutralPcs
        /\ call'[s].id = call[s].id
    BY <2>2, <2>3, CallUpdated, NeutralFacts
  <2>5. \A d \in Deposits :
          deposits'[d].state = IF d = call[s].id THEN "none"
                               ELSE deposits[d].state
    BY <1>3, <2>1 DEF ReclaimCommit, TypeOK, DepositsType, NoDeposit
  <2>6. Writes(s, {"fin_commit", "reclaim_commit"}, "none")
    BY <1>3, <2>1, <2>4, <2>5
       DEF Writes, ReclaimCommit, ledgerVars, serviceVars
  <2> QED
    BY <2>6 DEF PayStep
<1>4. CASE ReclaimLeftover(s)
  <2>1. Quiet /\ ~Committing(s)
    BY <1>4
       DEF ReclaimLeftover, Quiet, Committing, At, routerVars, serviceVars,
           ledgerVars
  <2> QED
    BY <1>4, <2>1, ReturnGoes DEF ReclaimLeftover, ReturnUnlocked
<1> QED
  BY <1>1, <1>2, <1>3, <1>4 DEF ReclaimStep

LEMMA ContinuePays ==
  ASSUME TypeOK, NEW s \in Slots, Continue(s)
  PROVE  PayStep(s)
  BY AllocPays, PreparePays, SealPays, MaintenancePays, FinalizePays,
     ReclaimPays
     DEF Continue

LEMMA StartPays ==
  ASSUME TypeOK, NEW s \in Slots, Start(s)
  PROVE  PayStep(s)
<1>1. CASE AllocCall(s)
  <2>1. PICK pc \in {"alloc_rand", "alloc_check"} :
          call' = [call EXCEPT ![s].pc = pc, ![s].id = None]
    BY <1>1 DEF AllocCall, EnsureSecret
  <2> DEFINE c == [call[s] EXCEPT !.pc = pc, !.id = None]
  <2>2. call' = [call EXCEPT ![s] = c]
    BY <2>1
  <2>3. c.id = None /\ c.pc = pc
    BY CallFacts DEF CallRecords
  <2>4. Others(s) /\ call'[s].id = None /\ call'[s].pc \in NeutralPcs
    BY <2>2, <2>3, CallUpdated, NeutralFacts
  <2>5. Quiet /\ ~Committing(s)
    BY <1>1 DEF AllocCall, EnsureSecret, Called, Quiet, Committing, At,
                ledgerVars
  <2> QED
    BY <2>4, <2>5 DEF PayStep, Goes
<1>2. CASE AdminSweepPool(s)
  <2>1. Quiet /\ ~Committing(s) /\ Goto(s, "sweep_read")
    BY <1>2 DEF AdminSweepPool, Called, Quiet, Committing, At, routerVars,
                serviceVars, ledgerVars
  <2> QED
    BY <2>1, GotoGoes, NeutralFacts
<1>3. ASSUME NEW d \in Deposits, PrepareCall(s, d) PROVE PayStep(s)
  <2>1. PICK pc \in {"prepare_rand", "prepare_check"} :
          call' = [call EXCEPT ![s].pc = pc, ![s].id = d]
    BY <1>3 DEF PrepareCall, EnsureSecret
  <2> DEFINE c == [call[s] EXCEPT !.pc = pc, !.id = d]
  <2>2. call' = [call EXCEPT ![s] = c]
    BY <2>1
  <2>3. c.id = d /\ c.pc = pc
    BY CallFacts DEF CallRecords
  <2>4. Others(s) /\ call'[s].id = d /\ call'[s].pc \in NeutralPcs
    BY <2>2, <2>3, CallUpdated, NeutralFacts
  <2>5. Begins(s, d)
    BY <1>3, <2>4, NeutralFacts
       DEF Begins, PrepareCall, EnsureSecret, Called, Quiet, At, ledgerVars
  <2> QED
    BY <2>5 DEF PayStep
<1>4. ASSUME NEW d \in Deposits, SealCall(s, d) PROVE PayStep(s)
  <2> DEFINE c == [call[s] EXCEPT !.pc = "seal_balance", !.id = d,
                                  !.spawn_fee = deposits[d].spawn_fee]
  <2>1. call' = [call EXCEPT ![s] = c]
    BY <1>4 DEF SealCall
  <2>2. c.pc = "seal_balance" /\ c.id = d
    BY CallFacts DEF CallRecords
  <2>3. Others(s) /\ call'[s].pc = "seal_balance" /\ call'[s].id = d
    BY <2>1, <2>2, CallUpdated
  <2>4. Begins(s, d)
    BY <1>4, <2>3, NeutralFacts
       DEF Begins, Entries, SealCall, Called, Quiet, At, serviceVars,
           ledgerVars
  <2> QED
    BY <2>4 DEF PayStep
<1>5. ASSUME NEW d \in Deposits, FinalizeCall(s, d) PROVE PayStep(s)
  <2> DEFINE c == [call[s] EXCEPT !.pc = "fin_preload", !.id = d]
  <2>1. call' = [call EXCEPT ![s] = c]
    BY <1>5 DEF FinalizeCall
  <2>2. c.pc = "fin_preload" /\ c.id = d
    BY CallFacts DEF CallRecords
  <2>3. Others(s) /\ call'[s].pc = "fin_preload" /\ call'[s].id = d
    BY <2>1, <2>2, CallUpdated
  <2>4. Begins(s, d)
    BY <1>5, <2>3, NeutralFacts
       DEF Begins, Entries, FinalizeCall, Called, Quiet, At, serviceVars,
           ledgerVars
  <2> QED
    BY <2>4 DEF PayStep
<1>6. ASSUME NEW d \in Deposits, ReclaimCall(s, d) PROVE PayStep(s)
  <2> DEFINE c == [call[s] EXCEPT !.pc = "reclaim_balance", !.id = d]
  <2>1. call' = [call EXCEPT ![s] = c]
    BY <1>6 DEF ReclaimCall
  <2>2. c.pc = "reclaim_balance" /\ c.id = d
    BY CallFacts DEF CallRecords
  <2>3. Others(s) /\ call'[s].pc = "reclaim_balance" /\ call'[s].id = d
    BY <2>1, <2>2, CallUpdated
  <2>4. Begins(s, d)
    BY <1>6, <2>3, NeutralFacts
       DEF Begins, Entries, ReclaimCall, Called, Quiet, At, serviceVars,
           ledgerVars
  <2> QED
    BY <2>4 DEF PayStep
<1> QED
  BY <1>1, <1>2, <1>3, <1>4, <1>5, <1>6 DEF Start

-----------------------------------------------------------------------------
(* The environment *)

\* Nothing the payments depend on changes.
LEMMA UnchangedKeeps ==
  ASSUME PaymentsMatchRecords,
         UNCHANGED <<deposits, issued, bob, alice, call>>
  PROVE  PaymentsMatchRecords'
  BY DEF PaymentsMatchRecords, Account, InFlight, Fits, Payable, At

\* admin_clear_deposit forgets a sealed deposit, which nobody works on or a
\* finalization is paying.
LEMMA ClearDepositKeeps ==
  ASSUME Payments, NEW d \in Deposits, AdminClearDeposit(d)
  PROVE  PaymentsMatchRecords'
<1>1. /\ deposits[d].state = "sealed" /\ "clear_deposit" \in Operations
      /\ UNCHANGED <<issued, bob, alice, call>>
  BY DEF AdminClearDeposit, serviceVars, ledgerVars
<1>2. /\ deposits'[d].state = "none"
      /\ \A e \in Deposits \ {d} : deposits'[e] = deposits[e]
  BY DEF AdminClearDeposit, NoDeposit, Payments, Exclusive, TypeOK, DepositsType
<1>3. ASSUME NEW e \in Deposits
      PROVE  Account(e)'
  <2>1. Account(e)
    BY DEF Payments, PaymentsMatchRecords
  <2>2. CASE e = d
    BY <1>1, <1>2, <2>1, <2>2 DEF Account
  <2>3. CASE e # d
    BY <1>1, <1>2, <2>1, <2>3 DEF Account, At
  <2> QED
    BY <2>2, <2>3
<1>4. ASSUME NEW s \in Slots
      PROVE  InFlight(s)'
  <2>1. InFlight(s)
    BY DEF Payments, PaymentsMatchRecords
  <2>2. Fits(call[s].pc, call[s].id)'
    <3>1. CASE call[s].pc \in NeutralPcs
      BY <1>1, <3>1, PhasesApart DEF Fits
    <3>2. CASE call[s].pc \notin NeutralPcs /\ call[s].id = d
      BY <1>1, <1>2, <2>1, <3>2 DEF InFlight, Fits, Payable
    <3>3. CASE call[s].pc \notin NeutralPcs /\ call[s].id # d
      <4>1. call[s].id \in Deposits
        BY <3>3, ActiveDeposit
      <4>2. deposits'[call[s].id] = deposits[call[s].id]
        BY <1>2, <3>3, <4>1
      <4> QED
        BY <1>1, <2>1, <4>2 DEF InFlight, Fits, Payable
    <3> QED
      BY <3>1, <3>2, <3>3
  <2> QED
    BY <1>1, <2>1, <2>2 DEF InFlight, At
<1> QED
  BY <1>3, <1>4 DEF PaymentsMatchRecords

\* An upgrade forgets all records when no call is in flight.
LEMMA UpgradeKeeps ==
  ASSUME Payments, Upgrade
  PROVE  PaymentsMatchRecords'
<1>1. /\ UNCHANGED <<issued, bob, alice, call>>
      /\ \A s \in Slots : call[s].pc = "idle"
      /\ \A d \in Deposits : deposits'[d].state = "none"
  BY DEF Upgrade, NoDeposit, At, serviceVars, ledgerVars
<1>2. \A d \in Deposits : Account(d)'
  BY <1>1 DEF Payments, PaymentsMatchRecords, Account
<1>3. ASSUME NEW s \in Slots
      PROVE  InFlight(s)'
  BY <1>1, NeutralFacts, PhasesApart
     DEF Payments, PaymentsMatchRecords, InFlight, Fits, At
<1> QED
  BY <1>2, <1>3 DEF PaymentsMatchRecords

LEMMA EnvironmentKeeps ==
  ASSUME Payments, Environment
  PROVE  PaymentsMatchRecords'
<1>1. \/ UNCHANGED <<deposits, issued, bob, alice, call>>
      \/ Upgrade
      \/ \E d \in Deposits : AdminClearDeposit(d)
  BY DEF Environment, SetPaused, Fund, Expire, AdminClearLock, routerVars,
         serviceVars, ledgerVars
<1> QED
  BY <1>1, UnchangedKeeps, ClearDepositKeeps, UpgradeKeeps DEF Payments

LEMMA NextPayments ==
  ASSUME "clear_lock" \notin Operations, Payments, [Next]_vars
  PROVE  Payments'
<1>1. TypeOK'
  BY NextType DEF Payments, Exclusive
<1>2. CASE Environment
  BY <1>1, <1>2, EnvironmentExclusive, EnvironmentKeeps DEF Payments, Exclusive
<1>3. ASSUME NEW s \in Slots, Start(s) \/ Continue(s)
      PROVE  Payments'
  <2>1. PayStep(s) /\ LockStep(s)
    BY <1>3, StartPays, ContinuePays, StartLocks, ContinueLocks
       DEF Payments, Exclusive
  <2> QED
    BY <1>1, <2>1, LockStepExclusive, PayStepKeeps DEF Payments, Exclusive
<1>4. CASE UNCHANGED vars
  BY <1>1, <1>4, UnchangedKeeps
     DEF Payments, Exclusive, LockDiscipline, IdleCalls, Holds, At, vars,
         routerVars, serviceVars, ledgerVars
<1> QED
  BY <1>2, <1>3, <1>4 DEF Next

LEMMA InitPayments == Init => Payments
<1> SUFFICES ASSUME Init
             PROVE  PaymentsMatchRecords
  BY InitType, InitExclusive DEF Payments, Exclusive
<1>1. \A d \in Deposits : Account(d)
  BY DEF Init, Account, NoDeposit
<1>2. \A s \in Slots : InFlight(s)
  BY NeutralFacts, PhasesApart DEF Init, InFlight, Fits, At, Idle
<1> QED
  BY <1>1, <1>2 DEF PaymentsMatchRecords

-----------------------------------------------------------------------------
\* Records, payments and calls in flight agree in every reachable state.
THEOREM RecordsMatch ==
  ASSUME "clear_lock" \notin Operations
  PROVE  Spec => []PaymentsMatchRecords
<1>1. Init => Payments
  BY InitPayments
<1>2. Payments /\ [Next]_vars => Payments'
  BY NextPayments
<1>3. Payments => PaymentsMatchRecords
  BY DEF Payments
<1> QED
  BY <1>1, <1>2, <1>3, PTL DEF Spec

\* However many deposits and calls there are, whatever fails, and although the
\* administrator clears deposits, sweeps, pauses and upgrades: Bob gets his
\* amount at most once, and nothing out of a deposit that reclaim gave back.
THEOREM BobIsPaidOnce ==
  ASSUME "clear_lock" \notin Operations
  PROVE  Spec => []NoDoublePayout
<1>1. Spec => []PaymentsMatchRecords
  BY RecordsMatch
<1>2. PaymentsMatchRecords => NoDoublePayout
  BY DEF PaymentsMatchRecords, Account, NoDoublePayout
<1> QED
  BY <1>1, <1>2, PTL

-----------------------------------------------------------------------------
(* The Router implements the escrow: every step that writes a record or    *)
(* pays is a step of module Escrow, and all others leave the stages and    *)
(* the payments alone.                                                     *)

\* The operations under which a record is only forgotten after a payment.
RecordsAreKept ==
  /\ "clear_lock" \notin Operations
  /\ "clear_deposit" \notin Operations
  /\ "upgrade" \notin Operations

Stutter == UNCHANGED <<Stage, bob, alice>>

\* The stage of one deposit.
StageOf(d) == IF deposits[d].state # "none" THEN deposits[d].state
              ELSE IF bob[d] > 0 \/ alice[d] > 0 THEN "closed" ELSE "none"

LEMMA StageFacts ==
  /\ Stage = [d \in Deposits |-> StageOf(d)]
  /\ Stage' = [d \in Deposits |-> StageOf(d)']
  BY DEF Stage, StageOf

\* A step that writes one record changes one stage.
LEMMA WrittenStage ==
  ASSUME NEW s \in Slots, NEW d \in Deposits, call[s].id = d,
         NEW from, NEW to, Writes(s, from, to)
  PROVE  Stage' = [Stage EXCEPT ![d] = StageOf(d)']
<1>1. \A e \in Deposits \ {d} : StageOf(e)' = StageOf(e)
  BY DEF Writes, StageOf
<1> QED
  BY <1>1, StageFacts

\* A call between records and payments knows nothing that could be wrong.
LEMMA AtDeposit ==
  ASSUME Payments, NEW s \in Slots, call[s].pc \notin NeutralPcs
  PROVE  \E d \in Deposits : /\ call[s].id = d
                             /\ Account(d) /\ Fits(call[s].pc, d)
  BY ActiveDeposit

-----------------------------------------------------------------------------
(* The steps of a call *)

\* Going on, beginning and deriving an id are internal.
LEMMA QuietStutters ==
  ASSUME UNCHANGED <<deposits, bob, alice>>
  PROVE  Stutter
  BY DEF Stutter, Stage

\* A record moves on to its next stage, with nothing paid.
LEMMA AdvancePromised ==
  ASSUME Payments, NEW s \in Slots,
         \/ Writes(s, {"alloc_rate"}, "allocated")
         \/ Writes(s, {"prepare_topups"}, "created")
         \/ Writes(s, SealPcs, "sealed")
  PROVE  Promise!Next
<1>1. /\ call[s].pc \notin NeutralPcs
      /\ UNCHANGED <<bob, alice>>
  BY PhasesApart, PhaseFacts DEF Writes
<1>2. PICK d \in Deposits : /\ call[s].id = d
                            /\ Account(d) /\ Fits(call[s].pc, d)
  BY <1>1, AtDeposit
<1>3. Stage' = [Stage EXCEPT ![d] = StageOf(d)'] /\ Stage[d] = StageOf(d)
  BY <1>2, WrittenStage, StageFacts
<1>4. CASE Writes(s, {"alloc_rate"}, "allocated")
  <2>1. deposits[d].state = "none" /\ bob[d] = 0 /\ alice[d] = 0
    BY <1>2, <1>4 DEF Writes, Fits
  <2>2. deposits'[d].state = "allocated"
    BY <1>2, <1>4 DEF Writes
  <2>3. StageOf(d) = "none" /\ StageOf(d)' = "allocated"
    BY <2>1, <2>2 DEF StageOf
  <2>4. Promise!Allocate(d)
    BY <1>1, <1>3, <2>1, <2>3 DEF Promise!Allocate, Promise!Advance
  <2> QED
    BY <2>4 DEF Promise!Next
<1>5. CASE Writes(s, {"prepare_topups"}, "created")
  <2>1. deposits[d].state = "allocated" /\ bob[d] = 0 /\ alice[d] = 0
    BY <1>2, <1>5, PhaseFacts DEF Writes, Fits, Account
  <2>2. deposits'[d].state = "created"
    BY <1>2, <1>5 DEF Writes
  <2>3. StageOf(d) = "allocated" /\ StageOf(d)' = "created"
    BY <2>1, <2>2 DEF StageOf
  <2>4. Promise!Prepare(d)
    BY <1>1, <1>3, <2>1, <2>3 DEF Promise!Prepare, Promise!Advance
  <2> QED
    BY <2>4 DEF Promise!Next
<1>6. CASE Writes(s, SealPcs, "sealed")
  <2>1. deposits[d].state = "created" /\ bob[d] = 0 /\ alice[d] = 0
    BY <1>2, <1>6 DEF Writes, Fits, Account
  <2>2. deposits'[d].state = "sealed"
    BY <1>2, <1>6 DEF Writes
  <2>3. StageOf(d) = "created" /\ StageOf(d)' = "sealed"
    BY <2>1, <2>2 DEF StageOf
  <2>4. Promise!Seal(d)
    BY <1>1, <1>3, <2>1, <2>3 DEF Promise!Seal, Promise!Advance
  <2> QED
    BY <2>4 DEF Promise!Next
<1> QED
  BY <1>4, <1>5, <1>6

\* A record is forgotten by the call that has just paid Bob or Alice.
LEMMA ClosePromised ==
  ASSUME RecordsAreKept, Payments, NEW s \in Slots,
         Writes(s, {"fin_commit", "reclaim_commit"}, "none")
  PROVE  Promise!Next
<1>1. /\ call[s].pc \in {"fin_commit", "reclaim_commit"}
      /\ call[s].pc \notin NeutralPcs
      /\ UNCHANGED <<bob, alice>>
  BY PhasesApart DEF Writes
<1>2. PICK d \in Deposits : /\ call[s].id = d
                            /\ Account(d) /\ Fits(call[s].pc, d)
  BY <1>1, AtDeposit
<1>3. Stage' = [Stage EXCEPT ![d] = StageOf(d)'] /\ Stage[d] = StageOf(d)
  BY <1>2, WrittenStage, StageFacts
<1>4. \/ deposits[d].state = "sealed" /\ bob[d] > 0
      \/ deposits[d].state = "created" /\ alice[d] > 0
  BY <1>1, <1>2, DepositFacts DEF Fits, Payable, RecordsAreKept
<1>5. deposits'[d].state = "none"
  BY <1>2 DEF Writes
<1>6. StageOf(d)' = "closed" /\ StageOf(d) = deposits[d].state
  BY <1>1, <1>4, <1>5 DEF StageOf
<1>7. Promise!Close(d)
  BY <1>1, <1>3, <1>4, <1>6 DEF Promise!Close
<1> QED
  BY <1>7 DEF Promise!Next

\* The payment to Bob.
LEMMA PayPromised ==
  ASSUME RecordsAreKept, Payments, NEW s \in Slots, Pays(s)
  PROVE  Promise!Next
<1>1. call[s].pc = "fin_transfer" /\ call[s].pc \notin NeutralPcs
  BY PhasesApart, PhaseFacts DEF Pays, At
<1>2. PICK d \in Deposits : /\ call[s].id = d
                            /\ Account(d) /\ Fits(call[s].pc, d)
  BY <1>1, AtDeposit
<1>3. deposits[d].state = "sealed" /\ bob[d] = 0
  BY <1>1, <1>2, PhaseFacts DEF Fits, Payable, RecordsAreKept
<1>4. /\ UNCHANGED <<deposits, alice>>
      /\ bob' = [bob EXCEPT ![d] = Amount[d]]
  <2>1. bob' = [bob EXCEPT ![d] = bob[d] + Amount[d]]
    BY <1>2 DEF Pays
  <2>2. bob[d] + Amount[d] = Amount[d]
    BY <1>3, DepositFacts
  <2> QED
    BY <2>1, <2>2 DEF Pays
<1>5. Stage' = Stage
  <2>1. \A e \in Deposits : StageOf(e)' = StageOf(e)
    BY <1>3, <1>4 DEF StageOf
  <2> QED
    BY <2>1, StageFacts
<1>6. Stage[d] = "sealed"
  BY <1>3, StageFacts DEF StageOf
<1>7. Promise!Pay(d)
  BY <1>3, <1>4, <1>5, <1>6 DEF Promise!Pay
<1> QED
  BY <1>7 DEF Promise!Next

\* The refund to Alice.
LEMMA RefundPromised ==
  ASSUME Payments, NEW s \in Slots, Refunds(s)
  PROVE  Promise!Next
<1>1. call[s].pc = "reclaim_transfer" /\ call[s].pc \notin NeutralPcs
  BY PhasesApart, PhaseFacts DEF Refunds, At
<1>2. PICK d \in Deposits : /\ call[s].id = d
                            /\ Account(d) /\ Fits(call[s].pc, d)
  BY <1>1, AtDeposit
<1>3. deposits[d].state = "created" /\ alice[d] = 0
  BY <1>1, <1>2, PhaseFacts DEF Fits
<1>4. PICK refund \in Nat \ {0} :
        alice' = [alice EXCEPT ![d] = refund]
  <2>1. PICK refund \in Nat \ {0} :
          alice' = [alice EXCEPT ![d] = alice[d] + refund]
    BY <1>2 DEF Refunds
  <2>2. alice[d] + refund = refund
    BY <1>3
  <2> QED
    BY <2>1, <2>2
<1>5. UNCHANGED <<deposits, bob>>
  BY DEF Refunds
<1>6. Stage' = Stage
  <2>1. \A e \in Deposits : StageOf(e)' = StageOf(e)
    BY <1>3, <1>4, <1>5 DEF StageOf
  <2> QED
    BY <2>1, StageFacts
<1>7. Stage[d] = "created"
  BY <1>3, StageFacts DEF StageOf
<1>8. alice'[d] = refund
  BY <1>4 DEF Payments, Exclusive, TypeOK, LedgerType
<1>9. Promise!Refund(d)
  BY <1>3, <1>4, <1>5, <1>6, <1>7, <1>8 DEF Promise!Refund
<1> QED
  BY <1>9 DEF Promise!Next

LEMMA PayStepPromised ==
  ASSUME RecordsAreKept, Payments, NEW s \in Slots, PayStep(s)
  PROVE  Promise!Next \/ Stutter
<1>1. CASE Goes(s) \/ \E d \in Deposits : Begins(s, d) \/ Issues(s, d)
  BY <1>1, QuietStutters DEF Goes, Begins, Issues, Quiet
<1> QED
  BY <1>1, AdvancePromised, ClosePromised, PayPromised, RefundPromised
     DEF PayStep

LEMMA NextPromised ==
  ASSUME RecordsAreKept, Payments, [Next]_vars
  PROVE  Promise!Next \/ Stutter
<1>1. CASE Environment
  <2>1. UNCHANGED <<deposits, bob, alice>>
    BY <1>1 DEF Environment, RecordsAreKept, SetPaused, Fund, Expire,
                AdminClearLock, AdminClearDeposit, Upgrade, routerVars,
                serviceVars, ledgerVars
  <2> QED
    BY <2>1, QuietStutters
<1>2. ASSUME NEW s \in Slots, Start(s) \/ Continue(s)
      PROVE  Promise!Next \/ Stutter
  BY <1>2, StartPays, ContinuePays, PayStepPromised
     DEF Payments, Exclusive
<1>3. CASE UNCHANGED vars
  BY <1>3, QuietStutters DEF vars, routerVars, ledgerVars
<1> QED
  BY <1>1, <1>2, <1>3 DEF Next

LEMMA InitPromised == Init => Promise!Init
  BY DEF Init, NoDeposit, Stage, Promise!Init

-----------------------------------------------------------------------------
\* The Router implements the escrow, however many deposits and calls there are
\* and whatever fails: Bob is paid once, in full, for a sealed deposit; Alice is
\* refunded once, for one that was not sealed; and a record is forgotten only
\* when one of the two has been paid.
THEOREM RouterImplementsEscrow ==
  ASSUME RecordsAreKept
  PROVE  Spec => ImplementsEscrow
<1>1. Init => Payments /\ Promise!Init
  BY InitPayments, InitPromised
<1>2. Payments /\ [Next]_vars => Payments'
  BY NextPayments DEF RecordsAreKept
<1>3. Payments /\ [Next]_vars => [Promise!Next]_(Promise!vars)
  BY NextPromised DEF Stutter, Promise!vars
<1> QED
  BY <1>1, <1>2, <1>3, PTL DEF Spec, ImplementsEscrow, Promise!Spec
=============================================================================
