----------------------------- MODULE SendProofs -----------------------------
(***************************************************************************)
(* The send flow, for any number of pages, orders, deposits and mishaps:   *)
(* the recovery record is never ahead of the Router and the ledger, and    *)
(* the Storage canisters of a deposit never hold different packages.  As   *)
(* long as nothing goes wrong, a deposit is funded once and never          *)
(* forgotten.                                                              *)
(*                                                                         *)
(* What a page knows is in its program counter and in its call; canisters  *)
(* only move forward, so what was known once stays true.                   *)
(***************************************************************************)
EXTENDS SendFlow, TLAPS

(* The inductive invariant *)

Ops == {"none", "alloc", "status", "fee", "deposit", "prepare", "delay", "seal",
        "csrn", "create", "store"}
Ats == Answers \cup {"none", "sent", "running", "drawing", "storing",
                     "announcing", "logging"}

CallType ==
  call \in [Pages -> [op : Ops, dep : Deposits \cup {NoDeposit}, at : Ats,
                      csrn : Nat, next : 0..StorageCount + 1]]

FlowType ==
  flow \in [Pages -> [pc : Pcs, order : Orders \cup {NoOrder},
                      dep : Deposits \cup {NoDeposit},
                      attempt : 0..MAX_RETRIES - 1, csrn : Nat]]

SendType ==
  /\ TypeOK /\ CallType /\ FlowType
  /\ stored \in [Deposits -> [1..StorageCount -> Nat]]
  /\ drawn \in [Deposits -> Nat]
  /\ page \in [Pages -> {"unopened", "open", "closed"}]
  /\ mishaps \in Nat

\* What is known of a deposit once it has an id, a transfer, its canisters, and
\* its seal.
Known(d) == d \in Deposits /\ stage[d] # "none"
Funds(d) == Known(d) /\ funded[d] > 0
Made(d) == d \in Deposits /\ stage[d] \in {"created", "sealed"}
Final(d) == d \in Deposits /\ stage[d] = "sealed"

Packed(d, n, c) == \A i \in 1..StorageCount : i < n => stored[d][i] = c
Stocked(d) == \A i \in 1..StorageCount : stored[d][i] # 0

\* What a call says by being made, and what its answer says.
CallTrue(p) ==
  LET c == call[p]
      d == c.dep
      Op(s) == c.op \in s
      Has(s, at) == c.op = s /\ c.at = at
  IN
  /\ c.op = "none" => c = NoCall
  /\ c.op # "none" => c.at # "none"
  /\ c.op = "alloc" => c.at = "ok" \/ d = NoDeposit
  /\ ~Op({"none", "alloc"}) \/ Has("alloc", "ok") => Known(d)
  /\ Has("status", "moved") => Made(d)
  /\ Op({"prepare"}) \/ Has("deposit", "ok") => Funds(d)
  /\ Op({"delay", "seal"}) \/ Has("prepare", "ok") => Made(d)
  /\ Op({"csrn", "create", "store"}) \/ Has("seal", "ok") => Final(d)
  /\ Op({"store"}) \/ Has("csrn", "ok") => c.csrn > 0
  /\ Has("store", "storing") => c.next \in 1..StorageCount /\ Packed(d, c.next, c.csrn)
  /\ c.at \in {"announcing", "logging"} \/ Has("store", "ok") => Stocked(d)
  /\ c.at = "logging" \/ Has("store", "ok") => d \in announced
  /\ c.at \in {"announcing", "logging", "storing"} => Op({"store"})

\* The page waits for the call of its program counter.
FlowTrue(p) ==
  LET f == flow[p] IN
  /\ page[p] # "open" => f = NoFlow
  /\ page[p] = "unopened" => call[p] = NoCall
  /\ f.pc = "idle" => f = NoFlow /\ (page[p] = "open" => call[p] = NoCall)
  /\ f.pc # "idle" => f.order \in Orders
  /\ f.pc \notin Pauses \cup {"idle"} => call[p].op = f.pc
  /\ f.pc \notin Pauses \cup {"idle", "alloc"} => call[p].dep = f.dep
  /\ f.pc \in Pauses => call[p] = NoCall /\ Known(f.dep)
  /\ f.pc \in {"funded_pause", "prepare_pause"} => Funds(f.dep)
  /\ f.pc = "seal_pause" => Made(f.dep)
  /\ f.pc = "create" => f.csrn > 0
  /\ f.pc = "alloc" => f.dep = NoDeposit

\* Every deposit by itself.
DepositTrue(d) ==
  /\ funded[d] > 0 => stage[d] # "none"
  /\ stage[d] \in {"created", "sealed"} => funded[d] > 0
  /\ \A i, j \in 1..StorageCount :
       i < j /\ stored[d][j] # 0 => stored[d][i] = stored[d][j]
  /\ d \in announced => stage[d] = "sealed" /\ \A i \in 1..StorageCount : stored[d][i] # 0
  /\ d \in gone => d \in announced

IInv ==
  /\ SendType /\ RecordBehindRouter
  /\ \A p \in Pages : CallTrue(p) /\ FlowTrue(p)
  /\ \A d \in Deposits : DepositTrue(d)

-----------------------------------------------------------------------------
(* Canisters move forward *)

Grows ==
  /\ \A d \in Deposits :
       /\ stage[d] # "none" => stage'[d] # "none"
       /\ stage[d] \in {"created", "sealed"} => stage'[d] \in {"created", "sealed"}
       /\ stage[d] = "sealed" => stage'[d] = "sealed"
       /\ funded[d] > 0 => funded'[d] > 0
       /\ \A i \in 1..StorageCount : stored[d][i] # 0 => stored'[d][i] = stored[d][i]
  /\ announced \subseteq announced'

Still == UNCHANGED <<routerVars, storageVars, i1Vars>>

LEMMA StillGrows == Still => Grows
  BY DEF Still, Grows, routerVars, storageVars, i1Vars

\* What is known of a deposit stays true.
LEMMA KnowledgeStays ==
  ASSUME Grows, NEW d
  PROVE  /\ Known(d) => Known(d)'
         /\ Funds(d) => Funds(d)'
         /\ Made(d) => Made(d)'
         /\ Final(d) => Final(d)'
  BY DEF Grows, Known, Funds, Made, Final

LEMMA PackedStays ==
  ASSUME Grows, NEW d \in Deposits, NEW n \in Nat, NEW c \in Nat \ {0}, Packed(d, n, c)
  PROVE  Packed(d, n, c)'
  BY DEF Grows, Packed

LEMMA CallStays ==
  ASSUME Grows, CallType, NEW p \in Pages, CallTrue(p), call'[p] = call[p]
  PROVE  CallTrue(p)'
<1>1. PICK c : c = call[p] /\ c = call'[p]
  OBVIOUS
<1>2. c.csrn \in Nat /\ c.next \in Nat /\ StorageCount + 1 \in Nat
  BY <1>1, IngressAssumption DEF CallType
<1>3. /\ Known(c.dep) => Known(c.dep)'
      /\ Funds(c.dep) => Funds(c.dep)'
      /\ Made(c.dep) => Made(c.dep)'
      /\ Final(c.dep) => Final(c.dep)'
  BY KnowledgeStays
<1>4. ASSUME Final(c.dep), c.csrn > 0
      PROVE  /\ Packed(c.dep, c.next, c.csrn) => Packed(c.dep, c.next, c.csrn)'
             /\ Stocked(c.dep) => Stocked(c.dep)'
  BY <1>2, <1>4, PackedStays DEF Final, Stocked, Grows
<1>5. announced \subseteq announced'
  BY DEF Grows
<1> QED
  BY <1>1, <1>3, <1>4, <1>5 DEF CallTrue

LEMMA FlowStays ==
  ASSUME Grows, NEW p \in Pages, FlowTrue(p),
         call'[p] = call[p], flow'[p] = flow[p], page'[p] = page[p]
  PROVE  FlowTrue(p)'
<1>1. PICK f : f = flow[p] /\ f = flow'[p]
  OBVIOUS
<1>2. /\ Known(f.dep) => Known(f.dep)'
      /\ Funds(f.dep) => Funds(f.dep)'
      /\ Made(f.dep) => Made(f.dep)'
  BY KnowledgeStays
<1> QED
  BY <1>1, <1>2 DEF FlowTrue

LEMMA DepositStays ==
  ASSUME Still, NEW d \in Deposits, DepositTrue(d)
  PROVE  DepositTrue(d)'
  BY DEF Still, DepositTrue, routerVars, storageVars, i1Vars

LEMMA RecordStays ==
  ASSUME Grows, SendType, RecordBehindRouter, UNCHANGED record
  PROVE  RecordBehindRouter'
<1>1. CASE record = NoRecord
  BY <1>1 DEF RecordBehindRouter, NoRecord
<1>2. CASE record \in [order : Orders, dep : Deposits, stage : Stages]
  BY <1>2 DEF RecordBehindRouter, Grows
<1> QED
  BY <1>1, <1>2 DEF SendType, TypeOK

-----------------------------------------------------------------------------
(* Steps of a page *)

Others(p) ==
  \A q \in Pages \ {p} :
    call'[q] = call[q] /\ flow'[q] = flow[q] /\ page'[q] = page[q]

LEMMA StepKeeps ==
  ASSUME IInv, NEW p \in Pages, Grows, Others(p),
         SendType', CallTrue(p)', FlowTrue(p)', RecordBehindRouter',
         \A d \in Deposits : DepositTrue(d)'
  PROVE  IInv'
<1>1. ASSUME NEW q \in Pages \ {p}
      PROVE  CallTrue(q)' /\ FlowTrue(q)'
  BY <1>1, CallStays, FlowStays DEF IInv, SendType, Others
<1> QED
  BY <1>1 DEF IInv

LEMMA ClientKeeps ==
  ASSUME IInv, NEW p \in Pages, Still, Others(p),
         SendType', CallTrue(p)', FlowTrue(p)', RecordBehindRouter'
  PROVE  IInv'
<1>1. Grows
  BY StillGrows
<1>2. \A d \in Deposits : DepositTrue(d)'
  BY DepositStays DEF IInv
<1> QED
  BY <1>1, <1>2, StepKeeps

RecordType ==
  record = NoRecord \/ record \in [order : Orders, dep : Deposits, stage : Stages]

LEMMA ClientType ==
  ASSUME SendType, Still, Mishap \/ NoMishap, CallType', FlowType', RecordType',
         sentIds' \subseteq Deposits, done' \subseteq Orders,
         key' \in [Pages -> BOOLEAN], page' \in [Pages -> {"unopened", "open", "closed"}]
  PROVE  SendType'
<1>1. mishaps' \in Nat
  BY DEF SendType, Mishap, NoMishap
<1>2. \A p \in Pages : (flow[p].pc \in Pcs /\ flow[p].attempt < MAX_RETRIES)'
  BY SendFlowAssumption DEF FlowType
<1>3. TypeOK'
  BY <1>2 DEF SendType, TypeOK, Still, routerVars, storageVars, i1Vars, RecordType
<1> QED
  BY <1>1, <1>3 DEF SendType, Still, routerVars, storageVars, i1Vars

LEMMA PageType ==
  ASSUME SendType, UNCHANGED pageVars
  PROVE  /\ key' \in [Pages -> BOOLEAN]
         /\ page' \in [Pages -> {"unopened", "open", "closed"}]
  BY DEF pageVars, SendType, TypeOK

\* What a record may say of a deposit ...
RecordTrue(d, s) ==
  /\ s \in Stages /\ Known(d)
  /\ s = "funded" => Funds(d)
  /\ s = "prepared" => Made(d)
  /\ s = "sealed" => Final(d)

LEMMA RecordSaved ==
  ASSUME Still, NEW p \in Pages, flow[p].order \in Orders,
         NEW d, NEW s, RecordTrue(d, s), Save(p, d, s)
  PROVE  RecordType' /\ RecordBehindRouter'
<1>1. record' = [order |-> flow[p].order, dep |-> d, stage |-> s]
      /\ d \in Deposits /\ s \in Stages
  BY DEF Save, RecordTrue, Known
<1>2. RecordBehindRouter'
  BY <1>1 DEF RecordBehindRouter, RecordTrue, Known, Funds, Made, Final, Still,
              routerVars
<1> QED
  BY <1>1, <1>2 DEF RecordType

LEMMA RecordCleared ==
  ASSUME record' = NoRecord
  PROVE  RecordType' /\ RecordBehindRouter'
  BY DEF NoRecord, RecordType, RecordBehindRouter

LEMMA RecordLeft ==
  ASSUME IInv, Still, UNCHANGED record
  PROVE  RecordType' /\ RecordBehindRouter'
  BY StillGrows, RecordStays DEF IInv, SendType, TypeOK, RecordType

\* ... and what a page knows when it makes a call.
Ready(op, d, c) ==
  /\ Known(d)
  /\ op = "prepare" => Funds(d)
  /\ op \in {"delay", "seal"} => Made(d)
  /\ op \in {"csrn", "create", "store"} => Final(d)
  /\ op = "store" => c > 0

LEMMA Requested ==
  ASSUME IInv, Still, NEW p \in Pages, page'[p] = "open",
         NEW op \in Ops \ {"none"}, NEW d, NEW c \in Nat, Request(p, op, d, c),
         op = "alloc" => d = NoDeposit, op # "alloc" => Ready(op, d, c),
         NEW f, flow' = [flow EXCEPT ![p] = f],
         f \in [pc : Pcs, order : Orders, dep : Deposits \cup {NoDeposit},
                attempt : 0..MAX_RETRIES - 1, csrn : Nat],
         f.pc = op, f.dep = d, op = "create" => f.csrn > 0
  PROVE  CallType' /\ FlowType' /\ CallTrue(p)' /\ FlowTrue(p)'
<1>1. call' = [call EXCEPT ![p] = [op |-> op, dep |-> d, at |-> "sent",
                                   csrn |-> c, next |-> 0]]
  BY DEF Request
<1>2. d \in Deposits \cup {NoDeposit}
  BY DEF Ready, Known
<1>3. CallType'
  <2>1. 0 \in 0..StorageCount + 1 /\ "sent" \in Ats
    BY IngressAssumption DEF Ats
  <2> QED
    BY <1>1, <1>2, <2>1 DEF IInv, SendType, CallType
<1>4. FlowType'
  BY DEF IInv, SendType, FlowType
<1>5. /\ flow'[p] = f
      /\ call'[p] = [op |-> op, dep |-> d, at |-> "sent", csrn |-> c, next |-> 0]
  BY <1>1 DEF IInv, SendType, FlowType, CallType
<1>6. FlowTrue(p)'
  BY <1>5 DEF FlowTrue, Pauses, Ops
<1>7. CASE op = "alloc"
  BY <1>3, <1>4, <1>5, <1>6, <1>7 DEF CallTrue
<1>8. CASE op # "alloc"
  <2>1. /\ Known(d) => Known(d)'
        /\ Funds(d) => Funds(d)'
        /\ Made(d) => Made(d)'
        /\ Final(d) => Final(d)'
    BY StillGrows, KnowledgeStays
  <2>2. CallTrue(p)'
    BY <1>5, <1>8, <2>1 DEF CallTrue, Ready
  <2> QED
    BY <1>3, <1>4, <1>6, <2>2
<1> QED
  BY <1>7, <1>8

LEMMA HungUp ==
  ASSUME IInv, Still, NEW p \in Pages, Hangup(p)
  PROVE  CallType' /\ CallTrue(p)' /\ call'[p] = NoCall
<1>1. call' = [call EXCEPT ![p] = NoCall] /\ call'[p] = NoCall
  BY DEF Hangup, IInv, SendType, CallType
<1>2. NoCall \in [op : Ops, dep : Deposits \cup {NoDeposit}, at : Ats,
                  csrn : Nat, next : 0..StorageCount + 1]
  BY IngressAssumption DEF NoCall, Ops, Ats
<1>3. CallType'
  BY <1>1, <1>2 DEF IInv, SendType, CallType
<1>4. CallTrue(p)'
  BY <1>1 DEF CallTrue, NoCall
<1> QED
  BY <1>1, <1>3, <1>4

LEMMA Paused ==
  ASSUME IInv, Still, NEW p \in Pages, page'[p] = page[p], Hangup(p),
         NEW f, flow' = [flow EXCEPT ![p] = f],
         f \in [pc : Pauses, order : Orders, dep : Deposits,
                attempt : 0..MAX_RETRIES - 1, csrn : Nat],
         page[p] = "open", Known(f.dep),
         f.pc \in {"funded_pause", "prepare_pause"} => Funds(f.dep),
         f.pc = "seal_pause" => Made(f.dep)
  PROVE  CallType' /\ FlowType' /\ CallTrue(p)' /\ FlowTrue(p)'
<1>1. CallType' /\ CallTrue(p)' /\ call'[p] = NoCall
  BY HungUp
<1>2. FlowType' /\ flow'[p] = f
  BY DEF IInv, SendType, FlowType, Pcs
<1>3. /\ Known(f.dep) => Known(f.dep)'
      /\ Funds(f.dep) => Funds(f.dep)'
      /\ Made(f.dep) => Made(f.dep)'
  BY StillGrows, KnowledgeStays
<1>4. FlowTrue(p)'
  BY <1>1, <1>2, <1>3 DEF FlowTrue, Pauses
<1> QED
  BY <1>1, <1>2, <1>4

LEMMA Idle ==
  ASSUME IInv, Still, NEW p \in Pages, Hangup(p), page[p] # "unopened",
         page'[p] # "unopened", flow' = [flow EXCEPT ![p] = NoFlow]
  PROVE  CallType' /\ FlowType' /\ CallTrue(p)' /\ FlowTrue(p)'
<1>1. CallType' /\ CallTrue(p)' /\ call'[p] = NoCall
  BY HungUp
<1>2. FlowType' /\ flow'[p] = NoFlow
  <2>1. NoFlow \in [pc : Pcs, order : Orders \cup {NoOrder},
                    dep : Deposits \cup {NoDeposit},
                    attempt : 0..MAX_RETRIES - 1, csrn : Nat]
    BY SendFlowAssumption DEF NoFlow, Pcs
  <2> QED
    BY <2>1 DEF IInv, SendType, FlowType
<1>3. FlowTrue(p)'
  BY <1>1, <1>2 DEF FlowTrue, NoFlow, Pauses
<1> QED
  BY <1>1, <1>2, <1>3

LEMMA OthersStay ==
  ASSUME IInv, NEW p \in Pages, UNCHANGED page,
         \E c : call' = [call EXCEPT ![p] = c],
         \E f : flow' = [flow EXCEPT ![p] = f]
  PROVE  Others(p)
  BY DEF Others, IInv, SendType, CallType, FlowType

\* sendShielded has ended, with or without an exception.
LEMMA EndKeeps ==
  ASSUME IInv, NEW p \in Pages, page[p] = "open", Still, UNCHANGED pageVars,
         Mishap \/ NoMishap, flow' = [flow EXCEPT ![p] = NoFlow], Hangup(p),
         UNCHANGED record \/ record' = NoRecord,
         sentIds' \subseteq Deposits, done' \subseteq Orders
  PROVE  IInv'
<1>1. CallType' /\ FlowType' /\ CallTrue(p)' /\ FlowTrue(p)'
  BY Idle DEF pageVars
<1>2. RecordType' /\ RecordBehindRouter'
  BY RecordLeft, RecordCleared
<1>3. SendType'
  BY <1>1, <1>2, ClientType, PageType DEF IInv
<1>4. Others(p)
  BY OthersStay DEF pageVars, Hangup
<1> QED
  BY <1>1, <1>2, <1>3, <1>4, ClientKeeps

LEMMA ThrowKeeps ==
  ASSUME IInv, NEW p \in Pages, page[p] = "open", Still, UNCHANGED pageVars,
         Mishap \/ NoMishap, Throw(p)
  PROVE  IInv'
  BY EndKeeps DEF Throw, browserVars, IInv, SendType, TypeOK

\* The page makes the next call of sendShielded.
LEMMA RequestKeeps ==
  ASSUME IInv, NEW p \in Pages, page[p] = "open", PageStep, UNCHANGED <<sentIds, done>>,
         flow[p].order \in Orders,
         NEW op \in Ops \ {"none", "alloc"}, NEW d, NEW c \in Nat,
         Ready(op, d, c), Request(p, op, d, c),
         UNCHANGED record \/ \E s : RecordTrue(d, s) /\ Save(p, d, s),
         NEW f, flow' = [flow EXCEPT ![p] = f],
         f \in [pc : Pcs, order : Orders, dep : Deposits \cup {NoDeposit},
                attempt : 0..MAX_RETRIES - 1, csrn : Nat],
         f.pc = op, f.dep = d, op = "create" => f.csrn > 0
  PROVE  IInv'
<1>1. Still /\ UNCHANGED pageVars /\ NoMishap
  BY DEF PageStep, Still
<1>2. page'[p] = "open"
  BY <1>1 DEF pageVars
<1>3. CallType' /\ FlowType' /\ CallTrue(p)' /\ FlowTrue(p)'
  BY <1>1, <1>2, Requested
<1>4. RecordType' /\ RecordBehindRouter'
  BY <1>1, RecordLeft, RecordSaved
<1>5. sentIds' \subseteq Deposits /\ done' \subseteq Orders
  BY DEF IInv, SendType, TypeOK
<1>6. SendType'
  BY <1>1, <1>3, <1>4, <1>5, ClientType, PageType DEF IInv
<1>7. Others(p)
  BY <1>1, OthersStay DEF pageVars, Request
<1> QED
  BY <1>1, <1>3, <1>4, <1>6, <1>7, ClientKeeps

LEMMA ProceedKeeps ==
  ASSUME IInv, NEW p \in Pages, page[p] = "open", PageStep, UNCHANGED <<sentIds, done>>,
         flow[p].order \in Orders,
         NEW op \in Ops \ {"none", "alloc", "create"}, NEW d, NEW c \in Nat,
         Ready(op, d, c), Proceed(p, op, op, d, c),
         UNCHANGED record \/ \E s : RecordTrue(d, s) /\ Save(p, d, s)
  PROVE  IInv'
<1> DEFINE f == [flow[p] EXCEPT !.pc = op, !.dep = d, !.attempt = 0]
<1>1. flow' = [flow EXCEPT ![p] = f] /\ Request(p, op, d, c)
  BY DEF Proceed, IInv, SendType, FlowType
<1>2. /\ f \in [pc : Pcs, order : Orders, dep : Deposits \cup {NoDeposit},
                attempt : 0..MAX_RETRIES - 1, csrn : Nat]
      /\ f.pc = op /\ f.dep = d
  <2>1. 0 \in 0..MAX_RETRIES - 1 /\ op \in Pcs /\ d \in Deposits
    BY SendFlowAssumption DEF Ops, Pcs, Ready, Known
  <2> QED
    BY <2>1 DEF IInv, SendType, FlowType
<1> HIDE DEF f
<1> QED
  BY <1>1, <1>2, RequestKeeps

\* The page pauses without a call.
LEMMA PauseKeeps ==
  ASSUME IInv, NEW p \in Pages, page[p] = "open", PageStep, UNCHANGED <<sentIds, done>>,
         Hangup(p), flow[p].order \in Orders,
         UNCHANGED record \/ \E s : RecordTrue(flow[p].dep, s) /\ Save(p, flow[p].dep, s),
         NEW f, flow' = [flow EXCEPT ![p] = f],
         f \in [pc : Pauses, order : Orders, dep : Deposits,
                attempt : 0..MAX_RETRIES - 1, csrn : Nat],
         Known(f.dep),
         f.pc \in {"funded_pause", "prepare_pause"} => Funds(f.dep),
         f.pc = "seal_pause" => Made(f.dep)
  PROVE  IInv'
<1>1. Still /\ UNCHANGED pageVars /\ NoMishap
  BY DEF PageStep, Still
<1>2. CallType' /\ FlowType' /\ CallTrue(p)' /\ FlowTrue(p)'
  BY <1>1, Paused DEF pageVars
<1>3. RecordType' /\ RecordBehindRouter'
  BY <1>1, RecordLeft, RecordSaved
<1>4. sentIds' \subseteq Deposits /\ done' \subseteq Orders
  BY DEF IInv, SendType, TypeOK
<1>5. SendType'
  BY <1>1, <1>2, <1>3, <1>4, ClientType, PageType DEF IInv
<1>6. Others(p)
  BY <1>1, OthersStay DEF pageVars, Hangup
<1> QED
  BY <1>1, <1>2, <1>3, <1>5, <1>6, ClientKeeps

\* What the page knows at each program counter.
LEMMA AtCall ==
  ASSUME IInv, NEW p \in Pages, page[p] = "open", flow[p].pc \notin Pauses \cup {"idle"}
  PROVE  /\ flow[p].order \in Orders
         /\ call[p].op = flow[p].pc /\ call[p].csrn \in Nat
         /\ flow[p].pc # "alloc" => /\ call[p].dep = flow[p].dep
                                    /\ Known(flow[p].dep)
         /\ flow[p].pc = "prepare" => Funds(flow[p].dep)
         /\ flow[p].pc = "seal" => Made(flow[p].dep)
         /\ CallTrue(p)
<1>1. FlowTrue(p) /\ CallTrue(p)
  BY DEF IInv
<1>2. /\ flow[p].order \in Orders /\ call[p].op = flow[p].pc
      /\ flow[p].pc # "alloc" => call[p].dep = flow[p].dep
  BY <1>1 DEF FlowTrue
<1>3. call[p].csrn \in Nat /\ flow[p].pc \in Pcs
  BY DEF IInv, SendType, CallType, FlowType
<1>4. flow[p].pc # "alloc" => Known(flow[p].dep)
  BY <1>1, <1>2, <1>3 DEF CallTrue, Pcs, Pauses
<1>5. /\ flow[p].pc = "prepare" => Funds(flow[p].dep)
      /\ flow[p].pc = "seal" => Made(flow[p].dep)
  BY <1>1, <1>2 DEF CallTrue
<1> QED
  BY <1>1, <1>2, <1>3, <1>4, <1>5

LEMMA AllocatedKeeps ==
  ASSUME IInv, NEW p \in Pages, Allocated(p)
  PROVE  IInv'
<1>1. page[p] = "open" /\ flow[p].pc = "alloc" /\ call[p].at = "ok" /\ PageStep
  BY DEF Allocated, Answered, Waits
<1>2. flow[p].order \in Orders /\ Known(call[p].dep)
  BY <1>1, AtCall DEF CallTrue, Pauses
<1>3. RecordTrue(call[p].dep, "allocated") /\ Ready("status", call[p].dep, 0)
  BY <1>2 DEF RecordTrue, Ready, Stages
<1> QED
  BY <1>1, <1>2, <1>3, ProceedKeeps DEF Allocated, Ops

LEMMA StatusKnownKeeps ==
  ASSUME IInv, NEW p \in Pages, StatusKnown(p)
  PROVE  IInv'
<1> DEFINE d == flow[p].dep
<1>1. page[p] = "open" /\ flow[p].pc = "status" /\ PageStep
  BY DEF StatusKnown, Waits
<1>2. flow[p].order \in Orders /\ Known(d) /\ call[p].op = "status" /\ call[p].dep = d
  BY <1>1, AtCall DEF Pauses
<1>3. CASE call[p].at = "moved"
  <2>1. Made(d)
    BY <1>1, <1>2, <1>3, AtCall DEF CallTrue, Pauses
  <2>2. Funds(d)
    BY <1>2, <2>1 DEF Made, Funds, IInv, DepositTrue
  <2>3. RecordTrue(d, "funded")
    BY <1>2, <2>2 DEF RecordTrue, Stages
  <2> DEFINE f == [flow[p] EXCEPT !.pc = "funded_pause"]
  <2>4. /\ flow' = [flow EXCEPT ![p] = f] /\ Hangup(p) /\ Save(p, d, "funded")
        /\ UNCHANGED <<sentIds, done>>
    BY <1>3 DEF StatusKnown, Goto, IInv, SendType, FlowType
  <2>5. /\ f \in [pc : Pauses, order : Orders, dep : Deposits,
                  attempt : 0..MAX_RETRIES - 1, csrn : Nat]
        /\ f.pc = "funded_pause" /\ f.dep = d
    BY <1>2 DEF Known, Pauses, IInv, SendType, FlowType
  <2> HIDE DEF f
  <2> QED
    BY <1>1, <1>2, <2>2, <2>3, <2>4, <2>5, PauseKeeps
<1>4. CASE call[p].at # "moved"
  <2>1. Ready("fee", d, 0)
    BY <1>2 DEF Ready
  <2> QED
    BY <1>1, <1>2, <1>4, <2>1, ProceedKeeps DEF StatusKnown, Ops
<1> QED
  BY <1>3, <1>4

LEMMA FeePaidKeeps ==
  ASSUME IInv, NEW p \in Pages, FeePaid(p)
  PROVE  IInv'
<1>1. page[p] = "open" /\ flow[p].pc = "fee" /\ PageStep
  BY DEF FeePaid, Answered, Waits
<1>2. flow[p].order \in Orders /\ Ready("deposit", flow[p].dep, 0)
  BY <1>1, AtCall DEF Pauses, Ready
<1> QED
  BY <1>1, <1>2, ProceedKeeps DEF FeePaid, Ops, browserVars

LEMMA FundedKeeps ==
  ASSUME IInv, NEW p \in Pages, Funded(p)
  PROVE  IInv'
<1> DEFINE d == flow[p].dep
           f == [flow[p] EXCEPT !.pc = "funded_pause"]
<1>1. page[p] = "open" /\ flow[p].pc = "deposit" /\ call[p].at = "ok" /\ PageStep
  BY DEF Funded, Answered, Waits
<1>2. flow[p].order \in Orders /\ Known(d) /\ Funds(d)
  BY <1>1, AtCall DEF CallTrue, Pauses
<1>3. RecordTrue(d, "funded")
  BY <1>2 DEF RecordTrue, Stages
<1>4. flow' = [flow EXCEPT ![p] = f]
  BY DEF Funded, Goto, IInv, SendType, FlowType
<1>5. /\ f \in [pc : Pauses, order : Orders, dep : Deposits,
                attempt : 0..MAX_RETRIES - 1, csrn : Nat]
      /\ f.pc = "funded_pause" /\ f.dep = d
  BY <1>2 DEF Known, Pauses, IInv, SendType, FlowType
<1> HIDE DEF f
<1> QED
  BY <1>1, <1>2, <1>3, <1>4, <1>5, PauseKeeps DEF Funded

LEMMA ResumeKeeps ==
  ASSUME IInv, NEW p \in Pages, Resume(p)
  PROVE  IInv'
<1> DEFINE d == flow[p].dep
<1>1. /\ page[p] = "open" /\ flow[p].pc \in Pauses /\ PageStep
      /\ UNCHANGED <<sentIds, done, record>>
  BY DEF Resume, Pauses, browserVars
<1>2. /\ flow[p].order \in Orders /\ Known(d)
      /\ flow[p].pc \in {"funded_pause", "prepare_pause"} => Funds(d)
      /\ flow[p].pc = "seal_pause" => Made(d)
  BY <1>1 DEF IInv, FlowTrue, Pauses
<1>3. CASE flow[p].pc = "funded_pause"
  <2>1. Ready("prepare", d, 0)
    BY <1>2, <1>3 DEF Ready
  <2> QED
    BY <1>1, <1>2, <1>3, <2>1, ProceedKeeps DEF Resume, Ops
<1>4. ASSUME NEW pc \in {"prepare", "seal"}, Goto(p, pc), Request(p, pc, d, 0),
             flow[p].pc = IF pc = "prepare" THEN "prepare_pause" ELSE "seal_pause"
      PROVE  IInv'
  <2> DEFINE f == [flow[p] EXCEPT !.pc = pc]
  <2>1. flow' = [flow EXCEPT ![p] = f]
    BY <1>4 DEF Goto, IInv, SendType, FlowType
  <2>2. /\ f \in [pc : Pcs, order : Orders, dep : Deposits \cup {NoDeposit},
                  attempt : 0..MAX_RETRIES - 1, csrn : Nat]
        /\ f.pc = pc /\ f.dep = d
    BY <1>2, <1>4 DEF Pcs, IInv, SendType, FlowType
  <2>3. Ready(pc, d, 0) /\ pc \in Ops \ {"none", "alloc"} /\ pc # "create"
    BY <1>2, <1>4 DEF Ready, Ops
  <2> HIDE DEF f
  <2> QED
    BY <1>1, <1>2, <1>4, <2>1, <2>2, <2>3, RequestKeeps
<1> QED
  BY <1>1, <1>3, <1>4 DEF Resume

LEMMA RetryKeeps ==
  ASSUME IInv, NEW p \in Pages, Retry(p)
  PROVE  IInv'
<1> DEFINE f == [flow[p] EXCEPT !.attempt = @ + 1,
                   !.pc = IF @ = "seal" THEN "seal_pause" ELSE "prepare_pause"]
<1>1. page[p] = "open" /\ flow[p].pc \in {"prepare", "seal"} /\ PageStep
  BY DEF Retry, Waits
<1>2. /\ flow[p].order \in Orders /\ Known(flow[p].dep)
      /\ flow[p].pc = "prepare" => Funds(flow[p].dep)
      /\ flow[p].pc = "seal" => Made(flow[p].dep)
  BY <1>1, AtCall DEF Pauses
<1>3. CASE flow[p].attempt + 1 < MAX_RETRIES
  <2>1. /\ flow' = [flow EXCEPT ![p] = f] /\ Hangup(p)
        /\ UNCHANGED <<sentIds, done, record>>
    BY <1>3 DEF Retry, browserVars, IInv, SendType, FlowType
  <2>2. /\ f \in [pc : Pauses, order : Orders, dep : Deposits,
                  attempt : 0..MAX_RETRIES - 1, csrn : Nat]
        /\ f.pc = (IF flow[p].pc = "seal" THEN "seal_pause" ELSE "prepare_pause")
        /\ f.dep = flow[p].dep
    <3>1. /\ flow[p] \in [pc : Pcs, order : Orders \cup {NoOrder},
                           dep : Deposits \cup {NoDeposit},
                           attempt : 0..MAX_RETRIES - 1, csrn : Nat]
          /\ flow[p].dep \in Deposits
      BY <1>2 DEF Known, IInv, SendType, FlowType
    <3>2. \A n \in 0..MAX_RETRIES - 1 :
            n + 1 < MAX_RETRIES => n + 1 \in 0..MAX_RETRIES - 1
      BY SendFlowAssumption
    <3> QED
      BY <1>1, <1>2, <1>3, <3>1, <3>2 DEF Pauses
  <2> HIDE DEF f
  <2> QED
    BY <1>1, <1>2, <2>1, <2>2, PauseKeeps
<1>4. CASE ~(flow[p].attempt + 1 < MAX_RETRIES)
  BY <1>1, <1>4, ThrowKeeps DEF Retry, PageStep, Still
<1> QED
  BY <1>3, <1>4

LEMMA PreparedKeeps ==
  ASSUME IInv, NEW p \in Pages, Prepared(p)
  PROVE  IInv'
<1>1. page[p] = "open" /\ flow[p].pc = "prepare" /\ call[p].at = "ok" /\ PageStep
  BY DEF Prepared, Answered, Waits
<1>2. flow[p].order \in Orders /\ Known(flow[p].dep) /\ Made(flow[p].dep)
  BY <1>1, AtCall DEF CallTrue, Pauses
<1>3. RecordTrue(flow[p].dep, "prepared") /\ Ready("delay", flow[p].dep, 0)
  BY <1>2 DEF RecordTrue, Ready, Stages
<1> QED
  BY <1>1, <1>2, <1>3, ProceedKeeps DEF Prepared, Ops

LEMMA DelayedKeeps ==
  ASSUME IInv, NEW p \in Pages, Delayed(p)
  PROVE  IInv'
<1>1. page[p] = "open" /\ flow[p].pc = "delay" /\ PageStep
  BY DEF Delayed, Answered, Waits
<1>2. flow[p].order \in Orders /\ Known(flow[p].dep) /\ Made(flow[p].dep)
  BY <1>1, AtCall DEF CallTrue, Pauses
<1>3. Ready("seal", flow[p].dep, 0)
  BY <1>2 DEF Ready
<1> QED
  BY <1>1, <1>2, <1>3, ProceedKeeps DEF Delayed, Ops, browserVars

LEMMA SealedKeeps ==
  ASSUME IInv, NEW p \in Pages, Sealed(p)
  PROVE  IInv'
<1>1. page[p] = "open" /\ flow[p].pc = "seal" /\ call[p].at = "ok" /\ PageStep
  BY DEF Sealed, Answered, Waits
<1>2. flow[p].order \in Orders /\ Known(flow[p].dep) /\ Final(flow[p].dep)
  BY <1>1, AtCall DEF CallTrue, Pauses
<1>3. RecordTrue(flow[p].dep, "sealed") /\ Ready("csrn", flow[p].dep, 0)
  BY <1>2 DEF RecordTrue, Ready, Stages
<1> QED
  BY <1>1, <1>2, <1>3, ProceedKeeps DEF Sealed, Ops

LEMMA CsrnReceivedKeeps ==
  ASSUME IInv, NEW p \in Pages, CsrnReceived(p)
  PROVE  IInv'
<1> DEFINE f == [flow[p] EXCEPT !.pc = "create", !.csrn = call[p].csrn]
<1>1. page[p] = "open" /\ flow[p].pc = "csrn" /\ call[p].at = "ok" /\ PageStep
  BY DEF CsrnReceived, Answered, Waits
<1>2. /\ flow[p].order \in Orders /\ Known(flow[p].dep) /\ Final(flow[p].dep)
      /\ call[p].csrn \in Nat /\ call[p].csrn > 0
  BY <1>1, AtCall DEF CallTrue, Pauses
<1>3. Ready("create", flow[p].dep, 0)
  BY <1>2 DEF Ready
<1>4. flow' = [flow EXCEPT ![p] = f]
  BY DEF CsrnReceived, IInv, SendType, FlowType
<1>5. /\ f \in [pc : Pcs, order : Orders, dep : Deposits \cup {NoDeposit},
                attempt : 0..MAX_RETRIES - 1, csrn : Nat]
      /\ f.pc = "create" /\ f.dep = flow[p].dep /\ f.csrn > 0
  BY <1>2 DEF Pcs, IInv, SendType, FlowType
<1>6. /\ Request(p, "create", flow[p].dep, 0) /\ UNCHANGED <<record, sentIds, done>>
      /\ "create" \in Ops \ {"none", "alloc"} /\ 0 \in Nat
  BY DEF CsrnReceived, Ops, browserVars
<1> HIDE DEF f
<1> QED
  BY <1>1, <1>2, <1>3, <1>4, <1>5, <1>6, RequestKeeps

LEMMA CreatedKeeps ==
  ASSUME IInv, NEW p \in Pages, Created(p)
  PROVE  IInv'
<1>1. page[p] = "open" /\ flow[p].pc = "create" /\ PageStep
  BY DEF Created, Answered, Waits
<1>2. /\ flow[p].order \in Orders /\ Known(flow[p].dep) /\ Final(flow[p].dep)
  BY <1>1, AtCall DEF CallTrue, Pauses
<1>3. flow[p].csrn \in Nat /\ flow[p].csrn > 0
  BY <1>1 DEF IInv, SendType, FlowType, FlowTrue
<1>4. Ready("store", flow[p].dep, flow[p].csrn)
  BY <1>2, <1>3 DEF Ready
<1> QED
  BY <1>1, <1>2, <1>3, <1>4, ProceedKeeps DEF Created, Ops, browserVars

LEMMA StoredKeeps ==
  ASSUME IInv, NEW p \in Pages, Stored(p)
  PROVE  IInv'
<1>1. page[p] = "open" /\ flow[p].pc = "store" /\ PageStep
  BY DEF Stored, Answered, Waits
<1>2. flow[p].order \in Orders /\ Known(flow[p].dep)
  BY <1>1, AtCall DEF Pauses
<1>3. sentIds' \subseteq Deposits /\ done' \subseteq Orders
  BY <1>2 DEF Stored, SaveSentId, Known, IInv, SendType, TypeOK
<1> QED
  BY <1>1, <1>3, EndKeeps DEF Stored, PageStep, Still

LEMMA FailKeeps ==
  ASSUME IInv, NEW p \in Pages, Fail(p)
  PROVE  IInv'
  BY ThrowKeeps DEF Fail, PageStep, Still

LEMMA AnswerLostKeeps ==
  ASSUME IInv, NEW p \in Pages, AnswerLost(p)
  PROVE  IInv'
  BY ThrowKeeps DEF AnswerLost, Still

-----------------------------------------------------------------------------
(* Steps of the canisters *)

CanisterType ==
  /\ stage \in [Deposits -> {"none", "allocated", "created", "sealed"}]
  /\ locks \subseteq Deposits
  /\ funded \in [Deposits -> Nat] /\ csrn \in [Deposits -> Nat]
  /\ drawn \in [Deposits -> Nat]
  /\ stored \in [Deposits -> [1..StorageCount -> Nat]]
  /\ announced \cup gone \cup logged \subseteq Deposits

LEMMA HasCanisterType == SendType => CanisterType
  BY DEF SendType, TypeOK, CanisterType

\* A step of a canister that has been called changes the call, not the page.
LEMMA CanisterKeeps ==
  ASSUME IInv, NEW p \in Pages, UNCHANGED <<browserVars, pageVars, flow, done>>,
         Grows, Mishap \/ NoMishap, CanisterType', CallType', CallTrue(p)',
         \A d \in Deposits : DepositTrue(d)',
         NEW c, call' = [call EXCEPT ![p] = c],
         call[p].op # "none", c.op = call[p].op,
         call[p].op # "alloc" => c.dep = call[p].dep
  PROVE  IInv'
<1>1. UNCHANGED <<record, sentIds, page, key, flow, done>>
  BY DEF browserVars, pageVars
<1>2. call'[p] = c
  BY DEF IInv, SendType, CallType
<1>3. mishaps' \in Nat
  BY DEF IInv, SendType, Mishap, NoMishap
<1>4. SendType'
  BY <1>1, <1>3 DEF IInv, SendType, TypeOK, CanisterType, FlowType
<1>5. RecordBehindRouter'
  BY <1>1, RecordStays DEF IInv
<1>6. Others(p)
  BY <1>1, OthersStay DEF IInv, SendType, FlowType
<1>7. FlowTrue(p)'
  <2>1. /\ Known(flow[p].dep) => Known(flow[p].dep)'
        /\ Funds(flow[p].dep) => Funds(flow[p].dep)'
        /\ Made(flow[p].dep) => Made(flow[p].dep)'
    BY KnowledgeStays
  <2>2. call[p] # NoCall
    BY DEF NoCall
  <2>3. FlowTrue(p)
    BY DEF IInv
  <2> QED
    BY <1>1, <1>2, <2>1, <2>2, <2>3 DEF FlowTrue
<1> QED
  BY <1>4, <1>5, <1>6, <1>7, StepKeeps

\* What was known when the call was made, with another answer.
LEMMA CallGoesOn ==
  ASSUME IInv, NEW p \in Pages, Grows, NEW a \in Ats, Answer(p, a), call[p].op # "none"
  PROVE  /\ CallType'
         /\ call'[p] = [call[p] EXCEPT !.at = a]
         /\ LET c == call[p] IN
            /\ c.op # "alloc" => Known(c.dep)'
            /\ c.op = "prepare" => Funds(c.dep)'
            /\ c.op \in {"delay", "seal"} => Made(c.dep)'
            /\ c.op \in {"csrn", "create", "store"} => Final(c.dep)'
            /\ c.op = "store" => c.csrn > 0
<1>1. call'[p] = [call[p] EXCEPT !.at = a] /\ CallType'
  BY DEF Answer, IInv, SendType, CallType
<1>2. LET c == call[p] IN
        /\ c.op # "alloc" => Known(c.dep)
        /\ c.op = "prepare" => Funds(c.dep)
        /\ c.op \in {"delay", "seal"} => Made(c.dep)
        /\ c.op \in {"csrn", "create", "store"} => Final(c.dep)
        /\ c.op = "store" => c.csrn > 0
  <2>1. CallTrue(p)
    BY DEF IInv
  <2> QED
    BY <2>1 DEF CallTrue
<1>3. ASSUME NEW d
      PROVE  /\ Known(d) => Known(d)'
             /\ Funds(d) => Funds(d)'
             /\ Made(d) => Made(d)'
             /\ Final(d) => Final(d)'
  BY KnowledgeStays
<1> QED
  BY <1>1, <1>2, <1>3

\* A call that is refused, or that says nothing new.
Silent(op, a) ==
  \/ a \in {"err", "busy"}
  \/ op = "status" /\ a = "allocated"
  \/ op \in {"fee", "delay", "create"} /\ a = "ok"
  \/ a \in {"running", "drawing"}

LEMMA SilentTrue ==
  ASSUME IInv, NEW p \in Pages, Grows, NEW a, Answer(p, a), call[p].op # "none",
         Silent(call[p].op, a), call[p].op = "alloc" => call[p].at # "ok"
  PROVE  CallType' /\ CallTrue(p)'
<1>1. a \in Ats
  BY DEF Silent, Ats, Answers
<1>2. call[p].op = "alloc" => call[p].dep = NoDeposit
  BY DEF IInv, CallTrue
<1>3. /\ call'[p] = [call[p] EXCEPT !.at = a] /\ CallType'
      /\ LET c == call[p] IN
         /\ c.op # "alloc" => Known(c.dep)'
         /\ c.op = "prepare" => Funds(c.dep)'
         /\ c.op \in {"delay", "seal"} => Made(c.dep)'
         /\ c.op \in {"csrn", "create", "store"} => Final(c.dep)'
         /\ c.op = "store" => c.csrn > 0
  BY <1>1, CallGoesOn
<1>4. /\ call'[p].op = call[p].op /\ call'[p].at = a
      /\ call'[p].dep = call[p].dep /\ call'[p].csrn = call[p].csrn
  BY <1>3 DEF IInv, SendType, CallType
<1> QED
  BY <1>2, <1>3, <1>4 DEF CallTrue, Silent

LEMMA SilentKeeps ==
  ASSUME IInv, NEW p \in Pages, UNCHANGED <<browserVars, pageVars, flow, done>>,
         UNCHANGED <<stage, funded, storageVars, i1Vars>>, locks' \subseteq Deposits,
         Mishap \/ NoMishap, NEW a, Answer(p, a), call[p].op # "none",
         Silent(call[p].op, a), call[p].op = "alloc" => call[p].at # "ok"
  PROVE  IInv'
<1>1. Grows
  BY DEF Grows, storageVars, i1Vars
<1>2. CanisterType' /\ \A d \in Deposits : DepositTrue(d)'
  BY HasCanisterType DEF IInv, CanisterType, DepositTrue, storageVars, i1Vars
<1>3. CallType' /\ CallTrue(p)'
  BY <1>1, SilentTrue
<1> DEFINE c == [call[p] EXCEPT !.at = a]
<1>4. /\ call' = [call EXCEPT ![p] = c]
      /\ c.op = call[p].op /\ c.dep = call[p].dep
  BY DEF Answer, IInv, SendType, CallType
<1> HIDE DEF c
<1> QED
  BY <1>1, <1>2, <1>3, <1>4, CanisterKeeps

LEMMA AllocExecuteKeeps ==
  ASSUME IInv, NEW p \in Pages, AllocExecute(p),
         UNCHANGED <<browserVars, pageVars, flow, done>>
  PROVE  IInv'
<1> DEFINE fresh == {d \in Deposits : stage[d] = "none"}
           d == CHOOSE x \in fresh : TRUE
           c == [call[p] EXCEPT !.dep = d, !.at = "ok"]
<1>1. d \in Deposits /\ stage[d] = "none"
  <2>1. fresh # {}
    BY DEF AllocExecute
  <2> QED
    BY <2>1
<1>2. /\ call[p].op = "alloc" /\ NoMishap
      /\ stage' = [stage EXCEPT ![d] = "allocated"]
      /\ UNCHANGED <<locks, funded, storageVars, i1Vars>>
      /\ call' = [call EXCEPT ![p] = c]
  BY DEF AllocExecute, At, Escrow!Allocate, Escrow!Advance, IInv, SendType, CallType
<1> HIDE DEF d
<1>3. /\ call'[p] = c /\ CallType'
      /\ c.op = "alloc" /\ c.at = "ok" /\ c.dep = d
  BY <1>1, <1>2 DEF IInv, SendType, CallType, Ats, Answers
<1> HIDE DEF c, fresh
<1>4. stage'[d] = "allocated" /\ \A e \in Deposits \ {d} : stage'[e] = stage[e]
  BY <1>1, <1>2 DEF IInv, SendType, TypeOK
<1>5. Grows
  BY <1>1, <1>2, <1>4 DEF Grows, storageVars, i1Vars
<1>6. CanisterType'
  BY <1>1, <1>2, HasCanisterType DEF IInv, CanisterType, storageVars, i1Vars
<1>7. CallTrue(p)'
  BY <1>1, <1>3, <1>4 DEF CallTrue, Known
<1>8. \A e \in Deposits : DepositTrue(e)'
  BY <1>1, <1>2, <1>4 DEF IInv, DepositTrue, storageVars, i1Vars
<1> QED
  BY <1>2, <1>3, <1>5, <1>6, <1>7, <1>8, CanisterKeeps

\* A call that goes on with the same operation and deposit.
LEMMA AnswerKeeps ==
  ASSUME IInv, NEW p \in Pages, UNCHANGED <<browserVars, pageVars, flow, done>>,
         Grows, Mishap \/ NoMishap, CanisterType', \A d \in Deposits : DepositTrue(d)',
         call[p].op # "none", NEW a, Answer(p, a), CallType', CallTrue(p)'
  PROVE  IInv'
<1> DEFINE c == [call[p] EXCEPT !.at = a]
<1>1. /\ call' = [call EXCEPT ![p] = c]
      /\ c.op = call[p].op /\ c.dep = call[p].dep
  BY DEF Answer, IInv, SendType, CallType
<1> HIDE DEF c
<1> QED
  BY <1>1, CanisterKeeps

LEMMA StatusExecuteKeeps ==
  ASSUME IInv, NEW p \in Pages, StatusExecute(p),
         UNCHANGED <<browserVars, pageVars, flow, done>>
  PROVE  IInv'
<1>1. /\ call[p].op = "status" /\ Still /\ NoMishap
      /\ \/ stage[call[p].dep] = "allocated" /\ Answer(p, "allocated")
         \/ stage[call[p].dep] # "allocated" /\ Answer(p, "moved")
  BY DEF StatusExecute, At, Still
<1>2. CASE stage[call[p].dep] = "allocated"
  BY <1>1, <1>2, SilentKeeps
     DEF Silent, Still, routerVars, IInv, SendType, TypeOK
<1>3. CASE stage[call[p].dep] # "allocated" /\ Answer(p, "moved")
  <2>1. Grows
    BY <1>1, StillGrows
  <2>2. Made(call[p].dep)'
    <3>1. Known(call[p].dep)
      BY <1>1 DEF IInv, CallTrue
    <3>2. call'[p].dep = call[p].dep /\ UNCHANGED stage
      BY <1>1, <1>3 DEF Answer, IInv, SendType, CallType, Still, routerVars
    <3> QED
      BY <1>3, <3>1, <3>2 DEF Known, Made, IInv, SendType, TypeOK
  <2>3. /\ CallType' /\ call'[p] = [call[p] EXCEPT !.at = "moved"]
        /\ Known(call[p].dep)'
    BY <1>1, <1>3, <2>1, CallGoesOn DEF Ats, Answers
  <2>4. CallTrue(p)'
    BY <1>1, <2>2, <2>3 DEF CallTrue, IInv, SendType, CallType
  <2>5. CanisterType' /\ \A d \in Deposits : DepositTrue(d)'
    BY <1>1, HasCanisterType, DepositStays
       DEF IInv, CanisterType, Still, routerVars, storageVars, i1Vars
  <2> QED
    BY <1>1, <1>3, <2>1, <2>3, <2>4, <2>5, AnswerKeeps
<1> QED
  BY <1>1, <1>2, <1>3

LEMMA TransferExecuteKeeps ==
  ASSUME IInv, NEW p \in Pages, TransferExecute(p),
         UNCHANGED <<browserVars, pageVars, flow, done>>
  PROVE  IInv'
<1>1. /\ NoMishap /\ Answer(p, "ok")
      /\ UNCHANGED <<stage, paid, refunded, locks, storageVars, i1Vars>>
  BY DEF TransferExecute
<1>2. CASE At(p, "fee", "sent") /\ UNCHANGED funded
  BY <1>1, <1>2, SilentKeeps DEF At, Silent, IInv, SendType, TypeOK
<1>3. CASE At(p, "deposit", "sent")
           /\ funded' = [funded EXCEPT ![call[p].dep] = @ + 1]
  <2> DEFINE d == call[p].dep
  <2>1. call[p].op = "deposit" /\ Known(d)
    BY <1>3 DEF At, IInv, CallTrue
  <2>2. /\ funded \in [Deposits -> Nat]
        /\ funded'[d] = funded[d] + 1 /\ funded'[d] \in Nat
        /\ \A e \in Deposits \ {d} : funded'[e] = funded[e]
    BY <1>3, <2>1 DEF Known, IInv, SendType, TypeOK
  <2>3. Grows
    BY <1>1, <2>2 DEF Grows, storageVars, i1Vars
  <2>4. CanisterType' /\ \A e \in Deposits : DepositTrue(e)'
    <3>1. CanisterType'
      BY <1>1, <1>3, <2>2, HasCanisterType
         DEF IInv, CanisterType, storageVars, i1Vars
    <3>2. ASSUME NEW e \in Deposits
          PROVE  DepositTrue(e)'
      BY <1>1, <2>1, <2>2 DEF IInv, DepositTrue, Known, storageVars, i1Vars
    <3> QED
      BY <3>1, <3>2
  <2>5. CallType' /\ call'[p] = [call[p] EXCEPT !.at = "ok"] /\ Known(d)'
    BY <1>1, <2>1, <2>3, CallGoesOn DEF Ats, Answers
  <2>6. Funds(d)'
    BY <2>1, <2>2, <2>5 DEF Funds, Known
  <2>7. CallTrue(p)'
    BY <2>1, <2>5, <2>6 DEF CallTrue, IInv, SendType, CallType
  <2> QED
    BY <1>1, <2>1, <2>3, <2>4, <2>5, <2>7, AnswerKeeps
<1> QED
  BY <1>2, <1>3 DEF TransferExecute

\* prepare_deposit and seal_deposit before their first await.
LEMMA BeginsKeep ==
  ASSUME IInv, NEW p \in Pages, PrepareBegin(p) \/ SealBegin(p),
         UNCHANGED <<browserVars, pageVars, flow, done>>
  PROVE  IInv'
<1>1. call[p].op \in {"prepare", "seal"}
  BY DEF PrepareBegin, SealBegin, At
<1>2. NoMishap /\ UNCHANGED <<stage, funded, storageVars, i1Vars>>
  BY DEF PrepareBegin, SealBegin
<1>3. call[p].dep \in Deposits
  BY <1>1 DEF IInv, CallTrue, Known
<1>4. locks' \subseteq Deposits
  BY <1>3 DEF PrepareBegin, SealBegin, IInv, SendType, TypeOK
<1>5. \E a \in {"err", "busy", "running"} : Answer(p, a)
  BY DEF PrepareBegin, SealBegin
<1> QED
  BY <1>1, <1>2, <1>4, <1>5, SilentKeeps DEF Silent

\* The step with which prepare_deposit or seal_deposit writes the record.
LEMMA AdvanceKeeps ==
  ASSUME IInv, NEW p \in Pages, UNCHANGED <<browserVars, pageVars, flow, done>>,
         UNCHANGED <<funded, storageVars, i1Vars>>, locks' \subseteq Deposits, NoMishap,
         NEW from, NEW to, Escrow!Advance(call[p].dep, from, to), Answer(p, "ok"),
         \/ call[p].op = "prepare" /\ from = "allocated" /\ to = "created"
         \/ call[p].op = "seal" /\ from = "created" /\ to = "sealed"
  PROVE  IInv'
<1>0. PICK d : d = call[p].dep /\ d = call'[p].dep
  BY DEF Answer, IInv, SendType, CallType
<1>1. d \in Deposits /\ stage[d] = from /\ (call[p].op = "prepare" => funded[d] > 0)
  BY <1>0 DEF IInv, CallTrue, Known, Funds, Escrow!Advance
<1>2. /\ stage' \in [Deposits -> {"none", "allocated", "created", "sealed"}]
      /\ stage'[d] = to /\ \A e \in Deposits \ {d} : stage'[e] = stage[e]
  BY <1>0, <1>1 DEF Escrow!Advance, IInv, SendType, TypeOK
<1>3. Grows
  BY <1>1, <1>2 DEF Grows, storageVars, i1Vars
<1>4. CanisterType'
  BY <1>2, HasCanisterType DEF IInv, CanisterType, storageVars, i1Vars
<1>5. ASSUME NEW e \in Deposits
      PROVE  DepositTrue(e)'
  BY <1>1, <1>2 DEF IInv, DepositTrue, storageVars, i1Vars
<1>6. /\ CallType' /\ call'[p] = [call[p] EXCEPT !.at = "ok"] /\ Known(d)'
      /\ call[p].op = "prepare" => Funds(d)'
      /\ call[p].op = "seal" => Made(d)'
  BY <1>0, <1>3, CallGoesOn DEF Ats, Answers
<1>7. /\ call[p].op = "prepare" => Made(d)'
      /\ call[p].op = "seal" => Final(d)'
  BY <1>1, <1>2 DEF Made, Final
<1>8. CallTrue(p)'
  BY <1>0, <1>6, <1>7 DEF CallTrue, IInv, SendType, CallType
<1> QED
  BY <1>3, <1>4, <1>5, <1>6, <1>8, AnswerKeeps

LEMMA PrepareEndKeeps ==
  ASSUME IInv, NEW p \in Pages, PrepareEnd(p),
         UNCHANGED <<browserVars, pageVars, flow, done>>
  PROVE  IInv'
<1>1. /\ call[p].op = "prepare" /\ locks' \subseteq Deposits
      /\ UNCHANGED <<funded, storageVars, i1Vars>>
  BY DEF PrepareEnd, At, IInv, SendType, TypeOK
<1>2. CASE Escrow!Prepare(call[p].dep) /\ Answer(p, "ok") /\ NoMishap
  BY <1>1, <1>2, AdvanceKeeps DEF Escrow!Prepare
<1>3. CASE Answer(p, "err") /\ UNCHANGED <<stage, paid, refunded>> /\ (Mishap \/ NoMishap)
  BY <1>1, <1>3, SilentKeeps DEF Silent
<1> QED
  BY <1>2, <1>3 DEF PrepareEnd

LEMMA SealEndKeeps ==
  ASSUME IInv, NEW p \in Pages, SealEnd(p),
         UNCHANGED <<browserVars, pageVars, flow, done>>
  PROVE  IInv'
<1>1. /\ call[p].op = "seal" /\ locks' \subseteq Deposits
      /\ UNCHANGED <<funded, storageVars, i1Vars>>
  BY DEF SealEnd, At, IInv, SendType, TypeOK
<1>2. CASE Escrow!Seal(call[p].dep) /\ Answer(p, "ok") /\ NoMishap
  BY <1>1, <1>2, AdvanceKeeps DEF Escrow!Seal
<1>3. ASSUME NEW a \in {"busy", "err"}, Answer(p, a), Mishap,
             UNCHANGED <<stage, paid, refunded>>
      PROVE  IInv'
  BY <1>1, <1>3, SilentKeeps DEF Silent
<1> QED
  BY <1>2, <1>3 DEF SealEnd

LEMMA CsrnBeginKeeps ==
  ASSUME IInv, NEW p \in Pages, CsrnBegin(p),
         UNCHANGED <<browserVars, pageVars, flow, done>>
  PROVE  IInv'
<1>1. /\ call[p].op = "csrn" /\ NoMishap /\ Still
      /\ \E a \in {"err", "drawing"} : Answer(p, a)
  BY DEF CsrnBegin, At, Still
<1> QED
  BY <1>1, SilentKeeps DEF Silent, Still, routerVars, IInv, SendType, TypeOK

LEMMA CsrnEndKeeps ==
  ASSUME IInv, NEW p \in Pages, CsrnEnd(p),
         UNCHANGED <<browserVars, pageVars, flow, done>>
  PROVE  IInv'
<1>0. PICK d, n : d = call[p].dep /\ n = drawn[d] + 1
  OBVIOUS
<1>1. call[p].op = "csrn" /\ UNCHANGED <<routerVars, stored, i1Vars>>
  BY DEF CsrnEnd, At
<1>2. Final(d) /\ Known(d) /\ d \in Deposits
  BY <1>0, <1>1 DEF IInv, CallTrue, Final
<1>3. Grows
  BY <1>1 DEF Grows, routerVars, i1Vars
<1>4. \A e \in Deposits : DepositTrue(e)'
  BY <1>1 DEF IInv, DepositTrue, routerVars, i1Vars
<1>5. CASE Mishap /\ Answer(p, "err") /\ UNCHANGED <<csrn, drawn>>
  BY <1>1, <1>5, SilentKeeps
     DEF Silent, storageVars, routerVars, IInv, SendType, TypeOK
<1>6. CASE /\ NoMishap /\ drawn' = [drawn EXCEPT ![d] = @ + 1]
           /\ csrn' = [csrn EXCEPT ![d] = drawn'[d]]
           /\ call' = [call EXCEPT ![p].at = "ok", ![p].csrn = drawn'[d]]
  <2>1. n \in Nat /\ n > 0 /\ drawn'[d] = n
    BY <1>0, <1>2, <1>6 DEF IInv, SendType
  <2>2. CanisterType'
    BY <1>1, <1>6, <2>1, HasCanisterType DEF IInv, CanisterType, routerVars, i1Vars
  <2> DEFINE c == [call[p] EXCEPT !.at = "ok", !.csrn = n]
  <2>3. call' = [call EXCEPT ![p] = c]
    <3>1. call' = [call EXCEPT ![p].at = "ok", ![p].csrn = n]
      BY <1>6, <2>1
    <3> QED
      BY <3>1 DEF IInv, SendType, CallType
  <2>4. /\ c \in [op : Ops, dep : Deposits \cup {NoDeposit}, at : Ats,
                  csrn : Nat, next : 0..StorageCount + 1]
        /\ c.op = "csrn" /\ c.dep = d /\ c.at = "ok" /\ c.csrn = n
    BY <1>0, <1>1, <2>1 DEF IInv, SendType, CallType, Ats, Answers
  <2> HIDE DEF c
  <2>5. CallType' /\ call'[p] = c
    BY <2>3, <2>4 DEF IInv, SendType, CallType
  <2>6. Known(d)' /\ Final(d)'
    BY <1>2, <1>3, KnowledgeStays
  <2>7. CallTrue(p)'
    BY <2>1, <2>4, <2>5, <2>6 DEF CallTrue
  <2>8. NoMishap /\ call[p].op # "none" /\ c.op = call[p].op /\ c.dep = call[p].dep
    BY <1>0, <1>1, <1>6, <2>4
  <2> QED
    BY <1>3, <1>4, <2>2, <2>3, <2>5, <2>7, <2>8, CanisterKeeps
<1> QED
  BY <1>0, <1>5, <1>6 DEF CsrnEnd

LEMMA StoreBeginKeeps ==
  ASSUME IInv, NEW p \in Pages, StoreBegin(p),
         UNCHANGED <<browserVars, pageVars, flow, done>>
  PROVE  IInv'
<1>1. call[p].op = "store" /\ Still /\ NoMishap
  BY DEF StoreBegin, At, Still
<1>4. CASE call[p].dep \in gone /\ Answer(p, "announcing")
  <2>1. PICK d, n : /\ d = call[p].dep /\ n = call[p].csrn
                    /\ Known(d) /\ Final(d) /\ d \in Deposits /\ n > 0
    BY <1>1 DEF IInv, CallTrue, Known
  <2>2. Stocked(d)
    BY <1>4, <2>1 DEF IInv, DepositTrue, Stocked
  <2>3. Grows
    BY <1>1, StillGrows
  <2>4. CallType' /\ call'[p] = [call[p] EXCEPT !.at = "announcing"]
    BY <1>1, <1>4, <2>3, CallGoesOn DEF Ats
  <2>5. Known(d)' /\ Final(d)' /\ Stocked(d)'
    BY <1>1, <2>1, <2>2, <2>3, KnowledgeStays DEF Stocked, Still, storageVars
  <2>6. /\ call'[p].op = "store" /\ call'[p].dep = d /\ call'[p].csrn = n
        /\ call'[p].at = "announcing"
    BY <1>1, <2>1, <2>4 DEF IInv, SendType, CallType
  <2>7. CallTrue(p)'
    BY <2>1, <2>5, <2>6 DEF CallTrue
  <2>8. CanisterType' /\ \A e \in Deposits : DepositTrue(e)'
    BY <1>1, HasCanisterType, DepositStays
       DEF IInv, CanisterType, Still, routerVars, storageVars, i1Vars
  <2> QED
    BY <1>1, <1>4, <2>3, <2>4, <2>7, <2>8, AnswerKeeps
<1>2. CASE Answer(p, "err")
  BY <1>1, <1>2, SilentKeeps DEF Silent, Still, routerVars, IInv, SendType, TypeOK
<1>3. CASE call' = [call EXCEPT ![p].at = "storing", ![p].next = 1]
  <2>1. PICK d, n : /\ d = call[p].dep /\ n = call[p].csrn
                    /\ Known(d) /\ Final(d) /\ n > 0
    BY <1>1 DEF IInv, CallTrue
  <2> DEFINE c == [call[p] EXCEPT !.at = "storing", !.next = 1]
  <2>2. call' = [call EXCEPT ![p] = c]
    BY <1>3 DEF IInv, SendType, CallType
  <2>3. 1 \in 0..StorageCount + 1 /\ 1 \in 1..StorageCount
    BY IngressAssumption
  <2>4. /\ c \in [op : Ops, dep : Deposits \cup {NoDeposit}, at : Ats,
                  csrn : Nat, next : 0..StorageCount + 1]
        /\ c.op = "store" /\ c.dep = d /\ c.at = "storing" /\ c.next = 1
        /\ c.csrn = n
    BY <1>1, <2>1, <2>3 DEF IInv, SendType, CallType, Ats
  <2> HIDE DEF c
  <2>5. CallType' /\ call'[p] = c
    BY <2>2, <2>4 DEF IInv, SendType, CallType
  <2>6. Grows
    BY <1>1, StillGrows
  <2>7. Known(d)' /\ Final(d)'
    BY <2>1, <2>6, KnowledgeStays
  <2>8. Packed(d, 1, n)'
    BY DEF Packed
  <2>9. CallTrue(p)'
    BY <2>1, <2>3, <2>4, <2>5, <2>7, <2>8 DEF CallTrue
  <2>10. CanisterType' /\ \A e \in Deposits : DepositTrue(e)'
    BY <1>1, HasCanisterType, DepositStays
       DEF IInv, CanisterType, Still, routerVars, storageVars, i1Vars
  <2>11. call[p].op # "none" /\ c.op = call[p].op /\ c.dep = call[p].dep
    BY <1>1, <2>1, <2>4
  <2> QED
    BY <1>1, <2>2, <2>5, <2>6, <2>9, <2>10, <2>11, CanisterKeeps
<1> QED
  BY <1>2, <1>3, <1>4 DEF StoreBegin

\* A package reaches Storage i when all Storages before it have the same one
\* and none after it has any.
LEMMA PackageStored ==
  ASSUME IInv, NEW d \in Deposits, NEW i \in 1..StorageCount, NEW n \in Nat \ {0},
         Packed(d, i, n), stored[d][i] = 0, stored' = [stored EXCEPT ![d][i] = n],
         UNCHANGED <<routerVars, csrn, drawn, i1Vars>>
  PROVE  /\ Grows /\ CanisterType' /\ \A e \in Deposits : DepositTrue(e)'
         /\ Packed(d, i + 1, n)'
<1>1. /\ stored[d] \in [1..StorageCount -> Nat]
      /\ stored'[d] = [stored[d] EXCEPT ![i] = n]
      /\ \A e \in Deposits \ {d} : stored'[e] = stored[e]
      /\ stored' \in [Deposits -> [1..StorageCount -> Nat]]
  BY DEF IInv, SendType
<1>2. stored'[d][i] = n /\ \A j \in 1..StorageCount \ {i} : stored'[d][j] = stored[d][j]
  BY <1>1
<1>3. Grows
  BY <1>1, <1>2 DEF Grows, routerVars, i1Vars
<1>4. CanisterType'
  BY <1>1, HasCanisterType DEF IInv, CanisterType, routerVars, i1Vars
<1>5. d \notin announced
  BY DEF IInv, DepositTrue
<1>6. Packed(d, i + 1, n)'
  <2>1. ASSUME NEW j \in 1..StorageCount, j < i + 1
        PROVE  stored'[d][j] = n
    BY <1>2, <2>1 DEF Packed
  <2> QED
    BY <2>1 DEF Packed
<1>7. ASSUME NEW j \in 1..StorageCount, NEW k \in 1..StorageCount, j < k,
             stored'[d][k] # 0
      PROVE  stored'[d][j] = stored'[d][k]
  <2>1. DepositTrue(d)
    BY DEF IInv
  <2>2. k <= i
    BY <1>2, <1>7, <2>1 DEF DepositTrue
  <2>3. CASE k = i
    BY <1>2, <1>7, <2>3 DEF Packed
  <2>4. CASE k < i
    BY <1>2, <1>7, <2>1, <2>4 DEF DepositTrue
  <2> QED
    BY <2>2, <2>3, <2>4
<1>8. DepositTrue(d)'
  BY <1>5, <1>7 DEF IInv, DepositTrue, routerVars, i1Vars
<1>9. ASSUME NEW e \in Deposits \ {d}
      PROVE  DepositTrue(e)'
  BY <1>1 DEF IInv, DepositTrue, routerVars, i1Vars
<1> QED
  BY <1>3, <1>4, <1>6, <1>8, <1>9

LEMMA StoreStepKeeps ==
  ASSUME IInv, NEW p \in Pages, StoreStep(p),
         UNCHANGED <<browserVars, pageVars, flow, done>>
  PROVE  IInv'
<1>1. /\ call[p].op = "store" /\ call[p].at = "storing"
      /\ UNCHANGED <<routerVars, csrn, drawn, i1Vars>>
  BY DEF StoreStep, At
<1>2. PICK d, i, n : /\ d = call[p].dep /\ i = call[p].next /\ n = call[p].csrn
                     /\ Known(d) /\ Final(d) /\ d \in Deposits
                     /\ i \in 1..StorageCount /\ n \in Nat \ {0} /\ Packed(d, i, n)
  BY <1>1 DEF IInv, CallTrue, Known, SendType, CallType
<1>3. CASE Answer(p, "err") /\ UNCHANGED stored /\ (Mishap \/ NoMishap)
  BY <1>1, <1>3, SilentKeeps
     DEF Silent, storageVars, routerVars, IInv, SendType, TypeOK
<1>4. ASSUME stored[d][i] = 0, stored' = [stored EXCEPT ![d][i] = n],
             Mishap \/ NoMishap
      PROVE  /\ Answer(p, "err") => IInv'
             /\ call' = [call EXCEPT ![p].at = IF i < StorageCount THEN "storing"
                                               ELSE "announcing",
                                     ![p].next = i + 1] => IInv'
  <2>1. /\ Grows /\ CanisterType' /\ \A e \in Deposits : DepositTrue(e)'
        /\ Packed(d, i + 1, n)'
    BY <1>1, <1>2, <1>4, PackageStored
  <2>2. CASE Answer(p, "err")
    <3>1. CallType' /\ CallTrue(p)'
      BY <1>1, <2>1, <2>2, SilentTrue DEF Silent
    <3> QED
      BY <1>1, <1>4, <2>1, <2>2, <3>1, AnswerKeeps
  <2>3. CASE call' = [call EXCEPT ![p].at = IF i < StorageCount THEN "storing"
                                            ELSE "announcing",
                                  ![p].next = i + 1]
    <3> DEFINE at == IF i < StorageCount THEN "storing" ELSE "announcing"
               c == [call[p] EXCEPT !.at = at, !.next = i + 1]
    <3>1. call' = [call EXCEPT ![p] = c]
      BY <2>3 DEF IInv, SendType, CallType
    <3>2. /\ i + 1 \in 0..StorageCount + 1
          /\ at = "storing" => i + 1 \in 1..StorageCount
          /\ at # "storing" => at = "announcing" /\ i + 1 = StorageCount + 1
          /\ at \in {"storing", "announcing"}
      BY <1>2, IngressAssumption
    <3> HIDE DEF at
    <3>3. /\ c \in [op : Ops, dep : Deposits \cup {NoDeposit}, at : Ats,
                    csrn : Nat, next : 0..StorageCount + 1]
          /\ c.op = "store" /\ c.dep = d /\ c.at = at /\ c.next = i + 1
          /\ c.csrn = n
      BY <1>1, <1>2, <3>2 DEF IInv, SendType, CallType, Ats
    <3> HIDE DEF c
    <3>4. CallType' /\ call'[p] = c
      BY <3>1, <3>3 DEF IInv, SendType, CallType
    <3>5. Known(d)' /\ Final(d)'
      BY <1>2, <2>1, KnowledgeStays
    <3>6. CallTrue(p)'
      <4>1. at # "storing" => Stocked(d)'
        BY <1>2, <2>1, <3>2, IngressAssumption DEF Packed, Stocked
      <4> QED
        BY <1>2, <2>1, <3>2, <3>3, <3>4, <3>5, <4>1 DEF CallTrue
    <3>7. call[p].op # "none" /\ c.op = call[p].op /\ c.dep = call[p].dep
      BY <1>1, <1>2, <3>3
    <3> QED
      BY <1>4, <2>1, <3>1, <3>4, <3>6, <3>7, CanisterKeeps
  <2> QED
    BY <2>2, <2>3
<1>5. CASE stored[d][i] # 0
  BY <1>2, <1>3, <1>5 DEF StoreStep
<1>6. CASE stored[d][i] = 0
  BY <1>2, <1>3, <1>4, <1>6 DEF StoreStep
<1> QED
  BY <1>5, <1>6

LEMMA AnnounceExecuteKeeps ==
  ASSUME IInv, NEW p \in Pages, AnnounceExecute(p),
         UNCHANGED <<browserVars, pageVars, flow, done>>
  PROVE  IInv'
<1>1. /\ call[p].op = "store" /\ call[p].at = "announcing"
      /\ UNCHANGED <<routerVars, storageVars, gone, logged>>
  BY DEF AnnounceExecute, At
<1>2. PICK d, n : /\ d = call[p].dep /\ n = call[p].csrn
                  /\ Known(d) /\ Final(d) /\ d \in Deposits /\ n \in Nat \ {0}
                  /\ Stocked(d)
  BY <1>1 DEF IInv, CallTrue, Known, SendType, CallType
<1>3. CASE Mishap /\ Answer(p, "err") /\ UNCHANGED announced
  BY <1>1, <1>3, SilentKeeps
     DEF Silent, i1Vars, routerVars, IInv, SendType, TypeOK
<1>4. CASE NoMishap /\ Answer(p, "logging") /\ announced' = announced \cup {d}
  <2>1. Grows
    BY <1>1, <1>4 DEF Grows, storageVars, routerVars
  <2>2. CanisterType'
    BY <1>1, <1>2, <1>4, HasCanisterType
       DEF IInv, CanisterType, storageVars, routerVars
  <2>3. \A i \in 1..StorageCount : stored[d][i] # 0
    BY <1>2 DEF Stocked
  <2>4. ASSUME NEW e \in Deposits
        PROVE  DepositTrue(e)'
    BY <1>1, <1>2, <1>4, <2>3 DEF IInv, DepositTrue, Final, storageVars, routerVars
  <2>5. CallType' /\ call'[p] = [call[p] EXCEPT !.at = "logging"]
    BY <1>1, <1>4, <2>1, CallGoesOn DEF Ats
  <2>6. Known(d)' /\ Final(d)' /\ Stocked(d)'
    BY <1>1, <1>2, <2>1, KnowledgeStays DEF Stocked, storageVars
  <2>7. /\ call'[p].op = "store" /\ call'[p].dep = d /\ call'[p].csrn = n
        /\ call'[p].at = "logging"
    BY <1>1, <1>2, <2>5 DEF IInv, SendType, CallType
  <2>8. CallTrue(p)'
    BY <1>2, <1>4, <2>6, <2>7 DEF CallTrue
  <2> QED
    BY <1>1, <1>4, <2>1, <2>2, <2>4, <2>5, <2>8, AnswerKeeps
<1> QED
  BY <1>2, <1>3, <1>4 DEF AnnounceExecute

LEMMA WitnessExecuteKeeps ==
  ASSUME IInv, NEW p \in Pages, WitnessExecute(p),
         UNCHANGED <<browserVars, pageVars, flow, done>>
  PROVE  IInv'
<1>1. /\ call[p].op = "store" /\ call[p].at = "logging"
      /\ UNCHANGED <<routerVars, storageVars, announced>>
  BY DEF WitnessExecute, At
<1>2. PICK d, n : /\ d = call[p].dep /\ n = call[p].csrn
                  /\ Known(d) /\ Final(d) /\ d \in Deposits /\ n \in Nat \ {0}
                  /\ Stocked(d) /\ d \in announced
  BY <1>1 DEF IInv, CallTrue, Known, SendType, CallType
<1>3. Grows
  BY <1>1 DEF Grows, storageVars, routerVars
<1>4. CanisterType' /\ \A e \in Deposits : DepositTrue(e)'
  <2>1. gone' \cup logged' \subseteq Deposits
    BY <1>2 DEF WitnessExecute, IInv, SendType, TypeOK
  <2>2. CanisterType'
    BY <1>1, <2>1, HasCanisterType DEF IInv, CanisterType, storageVars, routerVars
  <2>3. ASSUME NEW e \in Deposits
        PROVE  DepositTrue(e)'
    <3>1. e \in gone' => e \in announced'
      BY <1>1, <1>2 DEF WitnessExecute, IInv, DepositTrue
    <3> QED
      BY <1>1, <3>1 DEF IInv, DepositTrue, storageVars, routerVars
  <2> QED
    BY <2>2, <2>3
<1>5. CASE Answer(p, "err")
  <2>1. CallType' /\ CallTrue(p)'
    BY <1>1, <1>3, <1>5, SilentTrue DEF Silent
  <2> QED
    BY <1>1, <1>3, <1>4, <1>5, <2>1, AnswerKeeps DEF WitnessExecute
<1>6. CASE Answer(p, "ok")
  <2>1. CallType' /\ call'[p] = [call[p] EXCEPT !.at = "ok"]
    BY <1>1, <1>3, <1>6, CallGoesOn DEF Ats, Answers
  <2>2. Known(d)' /\ Final(d)' /\ Stocked(d)'
    BY <1>1, <1>2, <1>3, KnowledgeStays DEF Stocked, storageVars
  <2>3. /\ call'[p].op = "store" /\ call'[p].dep = d /\ call'[p].csrn = n
        /\ call'[p].at = "ok"
    BY <1>1, <1>2, <2>1 DEF IInv, SendType, CallType
  <2>4. CallTrue(p)'
    BY <1>1, <1>2, <2>2, <2>3 DEF CallTrue
  <2> QED
    BY <1>1, <1>3, <1>4, <1>6, <2>1, <2>4, AnswerKeeps DEF WitnessExecute
<1> QED
  BY <1>5, <1>6 DEF WitnessExecute

LEMMA CanistersKeep ==
  ASSUME IInv, NEW p \in Pages, Canisters(p)
  PROVE  IInv'
<1>1. UNCHANGED <<browserVars, pageVars, flow, done>>
  BY DEF Canisters
<1>2. CASE Refuse(p)
  <2>1. call[p].op # "none" /\ call[p].at = "sent"
    BY <1>2 DEF Refuse, IInv, CallTrue, NoCall
  <2> QED
    BY <1>1, <1>2, <2>1, SilentKeeps
       DEF Refuse, Silent, routerVars, IInv, SendType, TypeOK
<1>3. CASE Reply(p)
  BY <1>1, <1>3, SilentKeeps DEF Reply, Silent, routerVars, IInv, SendType, TypeOK
<1>4. CASE Execute(p)
  BY <1>1, <1>4, AllocExecuteKeeps, StatusExecuteKeeps, TransferExecuteKeeps,
     BeginsKeep, PrepareEndKeeps, SealEndKeeps, CsrnBeginKeeps, CsrnEndKeeps,
     StoreBeginKeeps, StoreStepKeeps, AnnounceExecuteKeeps, WitnessExecuteKeeps
     DEF Execute
<1> QED
  BY <1>2, <1>3, <1>4 DEF Canisters

-----------------------------------------------------------------------------
(* Send and the browser *)

LEMMA SendKeeps ==
  ASSUME IInv, NEW p \in Pages, NEW o \in Orders, Send(p, o)
  PROVE  IInv'
<1>1. /\ page[p] = "open" /\ flow[p].pc = "idle" /\ (Mishap \/ NoMishap)
      /\ UNCHANGED <<sentIds, done>> /\ Still /\ UNCHANGED pageVars
      /\ record' = record \/ record' = NoRecord
  BY DEF Send, Waits, Still
<1>2. RecordType' /\ RecordBehindRouter'
  BY <1>1, RecordLeft, RecordCleared
<1>3. PICK d, s : /\ d = (IF Resumes(p, o) THEN record.dep ELSE NoDeposit)
                  /\ s = (IF Resumes(p, o) THEN record.stage ELSE "none")
  OBVIOUS
<1>4. s # "none" => RecordTrue(d, s)
  <2>1. CASE Resumes(p, o)
    <3>1. record \in [order : Orders, dep : Deposits, stage : Stages]
      BY <2>1, SendFlowAssumption DEF Resumes, NoRecord, IInv, SendType, TypeOK
    <3>2. record.stage = "funded" \/ record.stage \in Stages \ {"funded"}
      BY <3>1
    <3>3. RecordBehindRouter
      BY DEF IInv
    <3> QED
      BY <1>3, <2>1, <3>1, <3>3
         DEF RecordBehindRouter, RecordTrue, Known, Funds, Made, Final, Stages
  <2>2. CASE ~Resumes(p, o)
    BY <1>3, <2>2
  <2> QED
    BY <2>1, <2>2
<1>5. PICK op \in Ops \ {"none", "create"} :
        /\ \/ op = "alloc" /\ s = "none" /\ ~Resumes(p, o)
           \/ op = "status" /\ s = "allocated"
           \/ op = "prepare" /\ s = "funded"
           \/ op = "delay" /\ s = "prepared"
           \/ op = "csrn" /\ s = "sealed"
        /\ flow' = [flow EXCEPT ![p] = [NoFlow EXCEPT !.pc = op, !.order = o, !.dep = d]]
        /\ Request(p, op, d, 0)
  <2>1. s = "none" => ~Resumes(p, o)
    <3>1. Resumes(p, o) => record.stage \in Stages
      BY SendFlowAssumption DEF Resumes, NoRecord, IInv, SendType, TypeOK
    <3> QED
      BY <1>3, <3>1 DEF Stages
  <2> QED
    BY <1>3, <2>1 DEF Send, Ops
<1>6. \/ op = "alloc" /\ d = NoDeposit
      \/ op # "alloc" /\ Ready(op, d, 0)
  BY <1>3, <1>4, <1>5 DEF RecordTrue, Ready
<1> DEFINE f == [NoFlow EXCEPT !.pc = op, !.order = o, !.dep = d]
<1>7. /\ f \in [pc : Pcs, order : Orders, dep : Deposits \cup {NoDeposit},
                attempt : 0..MAX_RETRIES - 1, csrn : Nat]
      /\ f.pc = op /\ f.dep = d
  <2>1. d \in Deposits \cup {NoDeposit} /\ op \in Pcs /\ 0 \in 0..MAX_RETRIES - 1
    BY <1>5, <1>6, SendFlowAssumption DEF Ready, Known, Ops, Pcs
  <2> QED
    BY <2>1 DEF NoFlow
<1>8. CallType' /\ FlowType' /\ CallTrue(p)' /\ FlowTrue(p)'
  <2>1. flow' = [flow EXCEPT ![p] = f] /\ Request(p, op, d, 0) /\ 0 \in Nat
    BY <1>5
  <2>2. page'[p] = "open" /\ op \in Ops \ {"none"} /\ op # "create" /\ Still
    BY <1>1 DEF pageVars
  <2> HIDE DEF f
  <2>3. op = "create" => f.csrn > 0
    BY <2>2
  <2>4. /\ op = "alloc" => d = NoDeposit
        /\ op # "alloc" => Ready(op, d, 0)
    BY <1>6
  <2> QED
    BY <1>7, <2>1, <2>2, <2>3, <2>4, Requested
<1> HIDE DEF f
<1>9. sentIds' \subseteq Deposits /\ done' \subseteq Orders
  BY <1>1 DEF IInv, SendType, TypeOK
<1>10. SendType'
  BY <1>1, <1>2, <1>8, <1>9, ClientType, PageType DEF IInv
<1>11. Others(p)
  BY <1>1, <1>5, OthersStay DEF pageVars, Request
<1> QED
  BY <1>1, <1>2, <1>8, <1>10, <1>11, ClientKeeps

\* The browser opens and closes pages, and forgets keys and records.
LEMMA BrowserKeeps ==
  ASSUME IInv, NEW p \in Pages, Open(p) \/ Close(p) \/ LoseKey(p) \/ Setup(p)
  PROVE  IInv'
<1>1. /\ Still /\ UNCHANGED <<record, sentIds, done, call>> /\ (Mishap \/ NoMishap)
  BY DEF Open, Close, LoseKey, Setup, browserStep, Still
<1>2. CallType' /\ CallTrue(p)'
  BY <1>1, StillGrows, CallStays DEF IInv, SendType, CallType
<1>3. RecordType' /\ RecordBehindRouter'
  BY <1>1, RecordLeft
<1>4. /\ key' \in [Pages -> BOOLEAN]
      /\ page' \in [Pages -> {"unopened", "open", "closed"}]
  BY DEF Open, Close, LoseKey, Setup, IInv, SendType, TypeOK
<1>5. FlowType' /\ FlowTrue(p)' /\ Others(p)
  <2>1. CASE Close(p)
    <3>1. NoFlow \in [pc : Pcs, order : Orders \cup {NoOrder},
                      dep : Deposits \cup {NoDeposit},
                      attempt : 0..MAX_RETRIES - 1, csrn : Nat]
      BY SendFlowAssumption DEF NoFlow, Pcs
    <3>2. FlowType' /\ Others(p) /\ flow'[p] = NoFlow /\ page'[p] = "closed"
      BY <1>1, <2>1, <3>1 DEF Close, Others, IInv, SendType, FlowType
    <3> QED
      BY <3>2 DEF FlowTrue, NoFlow, Pauses
  <2>2. CASE Open(p)
    <3>1. FlowType' /\ Others(p) /\ flow'[p] = flow[p] /\ page'[p] = "open"
      BY <1>1, <2>2 DEF Open, Others, IInv, SendType, FlowType
    <3>2. flow[p] = NoFlow /\ call[p] = NoCall
      BY <2>2 DEF Open, IInv, FlowTrue
    <3> QED
      BY <1>1, <3>1, <3>2 DEF FlowTrue, NoFlow, Pauses
  <2>3. CASE LoseKey(p) \/ Setup(p)
    <3>1. UNCHANGED <<page, flow>>
      BY <2>3 DEF LoseKey, Setup
    <3>2. FlowTrue(p)'
      BY <1>1, <3>1, StillGrows, FlowStays DEF IInv
    <3> QED
      BY <1>1, <3>1, <3>2 DEF Others, IInv, SendType, FlowType
  <2> QED
    BY <2>1, <2>2, <2>3
<1>6. SendType'
  BY <1>1, <1>2, <1>3, <1>4, <1>5, ClientType DEF IInv, SendType, TypeOK
<1> QED
  BY <1>1, <1>2, <1>3, <1>5, <1>6, ClientKeeps

LEMMA NothingKeeps ==
  ASSUME IInv, Still, UNCHANGED <<pageVars, flow, call, sentIds, done>>,
         Mishap \/ NoMishap, UNCHANGED record \/ record' = NoRecord
  PROVE  IInv'
<1>1. RecordType' /\ RecordBehindRouter'
  BY RecordLeft, RecordCleared
<1>2. SendType'
  BY <1>1, ClientType, PageType DEF IInv, SendType, TypeOK, CallType, FlowType
<1>3. ASSUME NEW p \in Pages
      PROVE  CallTrue(p)' /\ FlowTrue(p)'
  BY StillGrows, CallStays, FlowStays DEF IInv, SendType, pageVars
<1>4. \A d \in Deposits : DepositTrue(d)'
  BY DepositStays DEF IInv
<1> QED
  BY <1>1, <1>2, <1>3, <1>4 DEF IInv

LEMMA InitInvariant == Init => IInv
<1> SUFFICES ASSUME Init
             PROVE  IInv
  OBVIOUS
<1>1. /\ stage = [d \in Deposits |-> "none"] /\ funded = [d \in Deposits |-> 0]
      /\ csrn = [d \in Deposits |-> 0] /\ drawn = [d \in Deposits |-> 0]
      /\ stored = [d \in Deposits |-> [i \in 1..StorageCount |-> 0]]
      /\ locks = {} /\ announced = {} /\ gone = {} /\ logged = {}
      /\ call = [p \in Pages |-> NoCall] /\ mishaps = 0
      /\ record = NoRecord /\ sentIds = {} /\ done = {}
      /\ page = [p \in Pages |-> "unopened"] /\ key = [p \in Pages |-> FALSE]
      /\ flow = [p \in Pages |-> NoFlow]
  BY DEF Init, InitIngress, Escrow!Init
<1>2. NoCall \in [op : Ops, dep : Deposits \cup {NoDeposit}, at : Ats,
                  csrn : Nat, next : 0..StorageCount + 1]
  BY IngressAssumption DEF NoCall, Ops, Ats
<1>3. NoFlow \in [pc : Pcs, order : Orders \cup {NoOrder},
                  dep : Deposits \cup {NoDeposit},
                  attempt : 0..MAX_RETRIES - 1, csrn : Nat]
  BY SendFlowAssumption DEF NoFlow, Pcs
<1>4. CallType /\ FlowType
  BY <1>1, <1>2, <1>3 DEF CallType, FlowType
<1>5. TypeOK
  <2>1. \A p \in Pages : flow[p].pc \in Pcs /\ flow[p].attempt < MAX_RETRIES
    BY <1>1, SendFlowAssumption DEF NoFlow, Pcs
  <2> QED
    BY <1>1, <2>1 DEF TypeOK
<1>6. SendType
  BY <1>1, <1>4, <1>5 DEF SendType
<1>7. \A p \in Pages : CallTrue(p) /\ FlowTrue(p)
  BY <1>1 DEF CallTrue, FlowTrue, NoCall, NoFlow, Pauses
<1>8. \A d \in Deposits : DepositTrue(d)
  BY <1>1 DEF DepositTrue
<1>9. RecordBehindRouter
  BY <1>1 DEF RecordBehindRouter, NoRecord
<1> QED
  BY <1>6, <1>7, <1>8, <1>9 DEF IInv

LEMMA NextInvariant == IInv /\ [Next]_vars => IInv'
<1> SUFFICES ASSUME IInv, [Next]_vars
             PROVE  IInv'
  OBVIOUS
<1>1. ASSUME NEW p \in Pages, Canisters(p) \/ Continue(p) \/ AnswerLost(p)
      PROVE  IInv'
  BY <1>1, CanistersKeep, AnswerLostKeeps, AllocatedKeeps, StatusKnownKeeps,
     FeePaidKeeps, FundedKeeps, ResumeKeeps, RetryKeeps, PreparedKeeps,
     DelayedKeeps, SealedKeeps, CsrnReceivedKeeps, CreatedKeeps, StoredKeeps,
     FailKeeps DEF Continue
<1>2. ASSUME NEW p \in Pages, \/ \E o \in Orders : Send(p, o)
                              \/ Open(p) \/ Close(p) \/ LoseKey(p) \/ Setup(p)
      PROVE  IInv'
  BY <1>2, SendKeeps, BrowserKeeps
<1>3. CASE Expire
  BY <1>3, NothingKeeps DEF Expire, browserStep, Still
<1>4. CASE UNCHANGED vars
  BY <1>4, NothingKeeps
     DEF vars, ingressVars, browserVars, pageVars, Still, NoMishap
<1> QED
  BY <1>1, <1>2, <1>3, <1>4 DEF Next

\* The values every variable of the send flow can have.
THEOREM SendTypes == Spec => []TypeOK
<1>1. IInv => TypeOK
  BY DEF IInv, SendType
<1> QED
  BY <1>1, InitInvariant, NextInvariant, PTL DEF Spec

\* sendShielded's recovery record is never ahead of the Router and the ledger,
\* however many pages share it, whatever is refused, lost, closed or expired.
THEOREM RecordNeverAhead == Spec => []RecordBehindRouter
<1>1. IInv => RecordBehindRouter
  BY DEF IInv
<1> QED
  BY <1>1, InitInvariant, NextInvariant, PTL DEF Spec

\* Competing calls of I1.store_deposit leave one package in all Storage canisters
\* of a deposit, and a deposit on the Noticeboard is sealed and stored.
THEOREM PackagesAgree == Spec => []StoragesAgree
<1>1. ASSUME IInv
      PROVE  StoragesAgree
  <2>1. ASSUME NEW d \in Deposits, NEW i \in 1..StorageCount, NEW j \in 1..StorageCount,
               stored[d][i] # 0, stored[d][j] # 0
        PROVE  stored[d][i] = stored[d][j]
    <3>1. DepositTrue(d)
      BY <1>1 DEF IInv
    <3>2. i < j \/ j < i \/ i = j
      OBVIOUS
    <3> QED
      BY <2>1, <3>1, <3>2 DEF DepositTrue
  <2> QED
    BY <1>1, <2>1 DEF IInv, DepositTrue, StoragesAgree
<1> QED
  BY <1>1, InitInvariant, NextInvariant, PTL DEF Spec

-----------------------------------------------------------------------------
(* As long as nothing goes wrong *)

\* The stage the record has while the page is at a program counter.
Saved(pc) ==
  CASE pc \in {"status", "fee", "deposit"} -> "allocated"
    [] pc \in {"funded_pause", "prepare", "prepare_pause"} -> "funded"
    [] pc \in {"delay", "seal", "seal_pause"} -> "prepared"
    [] OTHER -> "sealed"

\* The record says what the page is doing.
RecordOf(p) ==
  [order |-> flow[p].order, dep |-> flow[p].dep, stage |-> Saved(flow[p].pc)]

PageCalm(p) ==
  /\ key[p]
  /\ flow[p].pc = "alloc" => record = NoRecord
  /\ flow[p].pc \notin {"idle", "alloc"} => record = RecordOf(p)
  /\ At(p, "alloc", "ok") => funded[call[p].dep] = 0

Calm ==
  /\ \A p, q \in Pages : page[p] = "open" /\ page[q] = "open" => p = q
  /\ \A p \in Pages : page[p] = "closed" => call[p].op \in {"none", "status", "delay"}
  /\ \A p \in Pages : page[p] = "open" => PageCalm(p)
  /\ \A d \in Deposits : funded[d] <= 1
  /\ \A d \in Deposits : funded[d] > 0 => d \in announced \/ record.dep = d
  /\ record.stage = "allocated" =>
       \/ funded[record.dep] = 0
       \/ \E p \in Pages : page[p] = "open" /\ At(p, "deposit", "ok")

CalmInv == IInv /\ (mishaps = 0 => Calm)

\* Nothing has been transferred for a deposit that is only allocated.
LEMMA NotYetFunded ==
  ASSUME Calm, NEW p \in Pages, page[p] = "open", ~At(p, "deposit", "ok"),
         record.stage = "allocated"
  PROVE  funded[record.dep] = 0
  BY DEF Calm

LEMMA WaitsForCall ==
  ASSUME IInv, NEW p \in Pages, page[p] = "open", call[p].op # "none"
  PROVE  flow[p].pc = call[p].op /\ flow[p].pc \notin Pauses \cup {"idle"}
<1>1. FlowTrue(p) /\ call[p] # NoCall
  BY DEF IInv, NoCall
<1> QED
  BY <1>1 DEF FlowTrue

\* A step of the open page.
LEMMA ClientCalm ==
  ASSUME Calm, NEW p \in Pages, page[p] = "open", Still, UNCHANGED pageVars, Others(p),
         ~At(p, "alloc", "ok")',
         flow'[p].pc = "alloc" => record' = NoRecord,
         flow'[p].pc \notin {"idle", "alloc"} => record' = RecordOf(p)',
         \/ record'.dep = record.dep
         \/ \A d \in Deposits : funded[d] > 0 => d \in announced \/ record'.dep = d,
         record'.stage = "allocated" => funded[record'.dep] = 0
  PROVE  Calm'
<1>1. UNCHANGED <<page, key, funded, announced>>
  BY DEF Still, pageVars, routerVars, i1Vars
<1>2. \A q \in Pages : page[q] = "open" => q = p
  BY DEF Calm
<1>3. PageCalm(p)'
  BY <1>1 DEF Calm, PageCalm
<1>4. \A q \in Pages : page[q] = "closed" => q # p /\ call'[q] = call[q]
  BY DEF Others
<1> QED
  BY <1>1, <1>2, <1>3, <1>4 DEF Calm

\* sendShielded makes its next call, having saved the stage it has reached.
LEMMA ProceedCalm ==
  ASSUME IInv, Calm, NEW p \in Pages, page[p] = "open", PageStep,
         NEW pc \in Ops \ {"none", "alloc"}, NEW d, NEW c, Proceed(p, pc, pc, d, c),
         record' = [order |-> flow[p].order, dep |-> d, stage |-> Saved(pc)],
         d = record.dep \/ record = NoRecord,
         Saved(pc) = "allocated" => funded[d] = 0
  PROVE  Calm'
<1>1. /\ flow'[p] = [flow[p] EXCEPT !.pc = pc, !.dep = d, !.attempt = 0]
      /\ call'[p].op = pc /\ call'[p].at = "sent"
  BY DEF Proceed, Request, IInv, SendType, FlowType, CallType
<1>2. /\ flow'[p].pc = pc /\ flow'[p].dep = d /\ flow'[p].order = flow[p].order
  BY <1>1 DEF IInv, SendType, FlowType
<1>3. Still /\ UNCHANGED pageVars /\ Others(p)
  BY OthersStay DEF PageStep, Still, pageVars, Proceed, Request
<1>4. record' = RecordOf(p)' /\ pc \notin {"idle", "alloc"}
  BY <1>2 DEF RecordOf, Ops
<1>5. record = NoRecord => \A e \in Deposits : funded[e] > 0 => e \in announced
  BY IngressAssumption DEF Calm, NoRecord
<1>6. /\ ~At(p, "alloc", "ok")'
      /\ record'.stage = "allocated" => funded[record'.dep] = 0
      /\ \/ record'.dep = record.dep
         \/ \A e \in Deposits : funded[e] > 0 => e \in announced \/ record'.dep = e
  BY <1>1, <1>5 DEF At
<1> QED
  BY <1>2, <1>3, <1>4, <1>6, ClientCalm

\* The open page pauses.
LEMMA PauseCalm ==
  ASSUME IInv, Calm, NEW p \in Pages, page[p] = "open", PageStep,
         Hangup(p), NEW pc \in Pauses,
         NEW f, flow' = [flow EXCEPT ![p] = f],
         f.pc = pc, f.order = flow[p].order, f.dep = flow[p].dep,
         record' = [order |-> flow[p].order, dep |-> flow[p].dep, stage |-> Saved(pc)],
         flow[p].dep = record.dep
  PROVE  Calm'
<1>1. flow'[p] = f /\ call'[p] = NoCall
  BY DEF Hangup, IInv, SendType, FlowType, CallType
<1>2. Still /\ UNCHANGED pageVars /\ Others(p)
  BY OthersStay DEF PageStep, Still, pageVars, Hangup
<1>3. record' = RecordOf(p)' /\ pc \notin {"idle", "alloc"}
  BY <1>1 DEF RecordOf, Pauses
<1>4. record'.stage # "allocated"
  BY DEF Pauses, Saved
<1> QED
  BY <1>1, <1>2, <1>3, <1>4, ClientCalm DEF At, NoCall

\* sendShielded ends; its record is left, or the deposit has been announced.
LEMMA EndCalm ==
  ASSUME IInv, Calm, NEW p \in Pages, page[p] = "open", PageStep, Hangup(p),
         flow' = [flow EXCEPT ![p] = NoFlow], ~At(p, "deposit", "ok"),
         \/ UNCHANGED record
         \/ record' = NoRecord /\ record.dep \in announced
  PROVE  Calm'
<1>1. flow'[p] = NoFlow /\ call'[p] = NoCall
  BY DEF Hangup, IInv, SendType, FlowType, CallType
<1>2. Still /\ UNCHANGED pageVars /\ Others(p)
  BY OthersStay DEF PageStep, Still, pageVars, Hangup
<1>3. record'.stage = "allocated" => UNCHANGED record
  BY DEF NoRecord
<1>4. \/ record'.dep = record.dep
      \/ \A d \in Deposits : funded[d] > 0 => d \in announced \/ record'.dep = d
  BY DEF Calm
<1> QED
  BY <1>1, <1>2, <1>3, <1>4, NotYetFunded, ClientCalm DEF At, NoCall, NoFlow

\* What the record and the deposit say while the page waits for an answer.
LEMMA CalmAt ==
  ASSUME IInv, Calm, NEW p \in Pages, page[p] = "open", flow[p].pc \notin {"idle", "alloc"}
  PROVE  /\ record = [order |-> flow[p].order, dep |-> flow[p].dep,
                      stage |-> Saved(flow[p].pc)]
         /\ key[p]
  BY DEF Calm, PageCalm, RecordOf

LEMMA ContinueCalm ==
  ASSUME IInv, Calm, NEW p \in Pages, Continue(p)
  PROVE  Calm'
<1>1. page[p] = "open" /\ PageStep
  BY DEF Continue, Allocated, StatusKnown, FeePaid, Funded, Resume, Retry,
         Prepared, Delayed, Sealed, CsrnReceived, Created, Stored, Fail,
         Answered, Waits
<1>2. CASE Allocated(p)
  <2>1. flow[p].pc = "alloc" /\ call[p].at = "ok"
    BY <1>2 DEF Allocated, Answered, Waits
  <2>2. call[p].op = "alloc"
    BY <1>1, <2>1, AtCall DEF Pauses
  <2>3. record = NoRecord /\ funded[call[p].dep] = 0
    BY <1>1, <2>1, <2>2 DEF Calm, PageCalm, At
  <2> QED
    BY <1>1, <1>2, <2>3, ProceedCalm DEF Allocated, Save, Saved, Ops
<1>3. CASE StatusKnown(p)
  <2>1. flow[p].pc = "status"
    BY <1>3 DEF StatusKnown, Waits
  <2>2. call[p].op = "status" /\ record.dep = flow[p].dep
        /\ record = [order |-> flow[p].order, dep |-> flow[p].dep, stage |-> "allocated"]
    BY <1>1, <2>1, AtCall, CalmAt DEF Pauses, Saved
  <2>3. funded[flow[p].dep] = 0
    BY <1>1, <2>2, NotYetFunded DEF At
  <2>4. CASE call[p].at = "moved"
    <3> DEFINE f == [flow[p] EXCEPT !.pc = "funded_pause"]
    <3>1. /\ flow' = [flow EXCEPT ![p] = f] /\ Hangup(p) /\ f.pc = "funded_pause"
          /\ f.order = flow[p].order /\ f.dep = flow[p].dep
          /\ Save(p, flow[p].dep, "funded")
      BY <1>3, <2>4 DEF StatusKnown, Goto, IInv, SendType, FlowType
    <3> HIDE DEF f
    <3> QED
      BY <1>1, <2>2, <3>1, PauseCalm DEF Save, Saved, Pauses
  <2>5. CASE call[p].at # "moved"
    BY <1>1, <1>3, <2>2, <2>3, <2>5, ProceedCalm DEF StatusKnown, Saved, Ops
  <2> QED
    BY <2>4, <2>5
<1>4. CASE FeePaid(p)
  <2>1. flow[p].pc = "fee"
    BY <1>4 DEF FeePaid, Answered, Waits
  <2>2. /\ call[p].op = "fee" /\ record.dep = flow[p].dep
        /\ record = [order |-> flow[p].order, dep |-> flow[p].dep, stage |-> "allocated"]
    BY <1>1, <2>1, AtCall, CalmAt DEF Pauses, Saved
  <2>3. funded[flow[p].dep] = 0
    BY <1>1, <2>2, NotYetFunded DEF At
  <2> QED
    BY <1>1, <1>4, <2>2, <2>3, ProceedCalm DEF FeePaid, browserVars, Saved, Ops
<1>5. CASE Funded(p)
  <2>1. flow[p].pc = "deposit"
    BY <1>5 DEF Funded, Answered, Waits
  <2>2. record.dep = flow[p].dep
    BY <1>1, <2>1, CalmAt
  <2> DEFINE f == [flow[p] EXCEPT !.pc = "funded_pause"]
  <2>3. /\ flow' = [flow EXCEPT ![p] = f] /\ Hangup(p) /\ f.pc = "funded_pause"
        /\ f.order = flow[p].order /\ f.dep = flow[p].dep
        /\ Save(p, flow[p].dep, "funded")
    BY <1>5 DEF Funded, Goto, IInv, SendType, FlowType
  <2> HIDE DEF f
  <2> QED
    BY <1>1, <2>2, <2>3, PauseCalm DEF Save, Saved, Pauses
<1>6. CASE Resume(p)
  <2>1. flow[p].pc \in Pauses /\ UNCHANGED record
    BY <1>6 DEF Resume, Pauses, browserVars
  <2>2. record = [order |-> flow[p].order, dep |-> flow[p].dep,
                  stage |-> Saved(flow[p].pc)] /\ record.dep = flow[p].dep
    BY <1>1, <2>1, CalmAt DEF Pauses
  <2>3. CASE flow[p].pc = "funded_pause"
    BY <1>1, <1>6, <2>1, <2>2, <2>3, ProceedCalm DEF Resume, Saved, Ops
  <2>4. ASSUME NEW pc \in {"prepare", "seal"}, Goto(p, pc),
               Request(p, pc, flow[p].dep, 0),
               flow[p].pc = IF pc = "prepare" THEN "prepare_pause" ELSE "seal_pause"
        PROVE  Calm'
    <3>1. /\ flow'[p].pc = pc /\ flow'[p].dep = flow[p].dep
          /\ flow'[p].order = flow[p].order /\ call'[p].op = pc
      BY <2>4 DEF Goto, Request, IInv, SendType, FlowType, CallType
    <3>2. Still /\ UNCHANGED pageVars /\ Others(p)
      BY <1>1, <2>4, OthersStay DEF PageStep, Still, pageVars, Goto, Request
    <3>3. Saved(pc) = Saved(flow[p].pc) /\ Saved(pc) # "allocated"
      BY <2>4 DEF Saved
    <3>4. record' = RecordOf(p)' /\ record'.stage # "allocated"
      BY <2>1, <2>2, <3>1, <3>3 DEF RecordOf
    <3> QED
      BY <1>1, <2>1, <2>4, <3>1, <3>2, <3>4, ClientCalm DEF At
  <2> QED
    BY <1>6, <2>3, <2>4 DEF Resume
<1>7. CASE Retry(p)
  <2>1. flow[p].pc \in {"prepare", "seal"} /\ call[p].at = "busy"
    BY <1>7 DEF Retry, Waits
  <2>2. record = [order |-> flow[p].order, dep |-> flow[p].dep,
                  stage |-> Saved(flow[p].pc)] /\ record.dep = flow[p].dep
    BY <1>1, <2>1, CalmAt
  <2>3. CASE flow[p].attempt + 1 < MAX_RETRIES
    <3> DEFINE f == [flow[p] EXCEPT !.attempt = @ + 1,
                       !.pc = IF @ = "seal" THEN "seal_pause" ELSE "prepare_pause"]
    <3>1. /\ flow' = [flow EXCEPT ![p] = f] /\ Hangup(p) /\ UNCHANGED record
          /\ f.order = flow[p].order /\ f.dep = flow[p].dep
          /\ f.pc \in Pauses /\ Saved(f.pc) = Saved(flow[p].pc)
      BY <1>7, <2>1, <2>3 DEF Retry, browserVars, IInv, SendType, FlowType, Saved, Pauses
    <3> HIDE DEF f
    <3> QED
      BY <1>1, <2>2, <3>1, PauseCalm
  <2>4. CASE ~(flow[p].attempt + 1 < MAX_RETRIES)
    BY <1>1, <1>7, <2>1, <2>4, EndCalm DEF Retry, Throw, browserVars, At
  <2> QED
    BY <2>3, <2>4
<1>8. CASE Prepared(p)
  <2>1. record.dep = flow[p].dep
    BY <1>1, <1>8, CalmAt DEF Prepared, Answered, Waits
  <2> QED
    BY <1>1, <1>8, <2>1, ProceedCalm DEF Prepared, Save, Saved, Ops
<1>9. CASE Delayed(p)
  <2>1. /\ record = [order |-> flow[p].order, dep |-> flow[p].dep, stage |-> "prepared"]
        /\ record.dep = flow[p].dep
    BY <1>1, <1>9, CalmAt DEF Delayed, Answered, Waits, Saved
  <2> QED
    BY <1>1, <1>9, <2>1, ProceedCalm DEF Delayed, browserVars, Saved, Ops
<1>10. CASE Sealed(p)
  <2>1. record.dep = flow[p].dep
    BY <1>1, <1>10, CalmAt DEF Sealed, Answered, Waits
  <2> QED
    BY <1>1, <1>10, <2>1, ProceedCalm DEF Sealed, Save, Saved, Ops
<1>11. CASE CsrnReceived(p)
  <2>1. /\ record = [order |-> flow[p].order, dep |-> flow[p].dep, stage |-> "sealed"]
        /\ record.dep = flow[p].dep /\ UNCHANGED record
    BY <1>1, <1>11, CalmAt DEF CsrnReceived, Answered, Waits, Saved, browserVars
  <2>2. /\ flow'[p].pc = "create" /\ flow'[p].dep = flow[p].dep
        /\ flow'[p].order = flow[p].order /\ call'[p].op = "create"
    BY <1>11 DEF CsrnReceived, Request, IInv, SendType, FlowType, CallType
  <2>3. Still /\ UNCHANGED pageVars /\ Others(p)
    <3>1. flow' = [flow EXCEPT ![p] = [@ EXCEPT !.pc = "create", !.csrn = call[p].csrn]]
      BY <1>11 DEF CsrnReceived, IInv, SendType, FlowType
    <3> QED
      BY <1>1, <1>11, <3>1, OthersStay
         DEF PageStep, Still, pageVars, CsrnReceived, Request
  <2>4. record' = RecordOf(p)' /\ record'.stage # "allocated"
    BY <2>1, <2>2 DEF RecordOf, Saved
  <2> QED
    BY <1>1, <2>1, <2>2, <2>3, <2>4, ClientCalm DEF At
<1>12. CASE Created(p)
  <2>1. /\ record = [order |-> flow[p].order, dep |-> flow[p].dep, stage |-> "sealed"]
        /\ record.dep = flow[p].dep
    BY <1>1, <1>12, CalmAt DEF Created, Answered, Waits, Saved
  <2> QED
    BY <1>1, <1>12, <2>1, ProceedCalm DEF Created, browserVars, Saved, Ops
<1>13. CASE Stored(p)
  <2>1. flow[p].pc = "store" /\ call[p].at = "ok"
    BY <1>13 DEF Stored, Answered, Waits
  <2>2. call[p].op = "store" /\ call[p].dep = flow[p].dep /\ call[p].dep \in announced
    BY <1>1, <2>1, AtCall DEF CallTrue, Pauses
  <2>3. record.dep \in announced
    BY <1>1, <2>1, <2>2, CalmAt
  <2> QED
    BY <1>1, <1>13, <2>2, <2>3, EndCalm DEF Stored, At
<1>14. CASE Fail(p)
  <2>1. flow[p].pc \notin Pauses \cup {"idle"}
    <3>1. call[p] # NoCall
      BY <1>14 DEF Fail, NoCall
    <3> QED
      BY <1>1, <3>1 DEF IInv, FlowTrue
  <2>2. ~At(p, "deposit", "ok")
    <3>1. ASSUME At(p, "deposit", "ok")
          PROVE  FALSE
      <4>1. flow[p].pc = "deposit"
        BY <1>1, <2>1, <3>1, AtCall DEF At
      <4> QED
        BY <1>1, <1>14, <3>1, <4>1, CalmAt DEF Fail, At
    <3> QED
      BY <3>1
  <2> QED
    BY <1>1, <1>14, <2>2, EndCalm DEF Fail, Throw, browserVars
<1> QED
  BY <1>2, <1>3, <1>4, <1>5, <1>6, <1>7, <1>8, <1>9, <1>10, <1>11, <1>12, <1>13,
     <1>14 DEF Continue

LEMMA SendCalm ==
  ASSUME IInv, Calm, NEW p \in Pages, NEW o \in Orders, Send(p, o), NoMishap,
         mishaps = 0
  PROVE  Calm'
<1>1. /\ page[p] = "open" /\ flow[p].pc = "idle" /\ Still /\ UNCHANGED pageVars
  BY DEF Send, Waits, Still
<1>2. call[p] = NoCall
  BY <1>1 DEF IInv, FlowTrue
<1>3. UNCHANGED record /\ (Resumes(p, o) \/ record = NoRecord)
  BY DEF Send, NoMishap, Mishap, IInv, SendType
<1>4. CASE Resumes(p, o)
  <2>1. /\ record \in [order : Orders, dep : Deposits, stage : Stages] /\ record.order = o
    BY <1>4, SendFlowAssumption DEF Resumes, NoRecord, IInv, SendType, TypeOK
  <2>2. PICK pc \in Ops \ {"none", "alloc"} :
          /\ Saved(pc) = record.stage
          /\ flow' = [flow EXCEPT ![p] = [NoFlow EXCEPT !.pc = pc, !.order = o,
                                                        !.dep = record.dep]]
          /\ Request(p, pc, record.dep, 0)
    BY <1>4, <2>1 DEF Send, Ops, Saved, Stages
  <2>3. /\ flow'[p].pc = pc /\ flow'[p].dep = record.dep /\ flow'[p].order = o
        /\ call'[p].op = pc
    BY <2>2 DEF NoFlow, Request, IInv, SendType, FlowType, CallType
  <2>4. Others(p)
    BY <1>1, <2>2, OthersStay DEF pageVars, Request
  <2>5. record' = RecordOf(p)'
    BY <1>3, <2>1, <2>2, <2>3 DEF RecordOf
  <2>6. record.stage = "allocated" => funded[record.dep] = 0
    BY <1>1, <1>2, NotYetFunded DEF At, NoCall
  <2>7. ~At(p, "alloc", "ok")' /\ flow'[p].pc # "alloc"
    BY <2>2, <2>3 DEF At
  <2> QED
    BY <1>1, <1>3, <2>4, <2>5, <2>6, <2>7, ClientCalm
<1>5. CASE record = NoRecord /\ ~Resumes(p, o)
  <2>1. /\ flow' = [flow EXCEPT ![p] = [NoFlow EXCEPT !.pc = "alloc", !.order = o,
                                                      !.dep = NoDeposit]]
        /\ Request(p, "alloc", NoDeposit, 0)
    BY <1>5 DEF Send
  <2>2. flow'[p].pc = "alloc" /\ call'[p].at = "sent"
    BY <2>1 DEF NoFlow, Request, IInv, SendType, FlowType, CallType
  <2>3. Others(p)
    BY <1>1, <2>1, OthersStay DEF pageVars, Request
  <2>4. ~At(p, "alloc", "ok")' /\ record'.stage # "allocated"
    BY <1>3, <1>5, <2>2 DEF At, NoRecord
  <2> QED
    BY <1>1, <1>3, <1>5, <2>2, <2>3, <2>4, ClientCalm
<1> QED
  BY <1>3, <1>4, <1>5

LEMMA BrowserCalm ==
  ASSUME IInv, Calm, NEW p \in Pages, Open(p) \/ Close(p) \/ Setup(p), NoMishap,
         mishaps = 0
  PROVE  Calm'
<1>1. /\ UNCHANGED <<record, call, funded, announced>>
  BY DEF Open, Close, Setup, browserStep, routerVars, i1Vars
<1>2. CASE Open(p)
  <2>1. \A q \in Pages : page[q] # "open"
    BY <1>2 DEF Open, NoMishap, Mishap, IInv, SendType
  <2>2. /\ page'[p] = "open" /\ key'[p] /\ flow' = flow
        /\ \A q \in Pages \ {p} : page'[q] = page[q]
    BY <1>2 DEF Open, IInv, SendType, TypeOK
  <2>3. flow[p] = NoFlow /\ call[p] = NoCall
    BY <1>2 DEF Open, IInv, FlowTrue
  <2>4. PageCalm(p)'
    BY <1>1, <2>2, <2>3 DEF PageCalm, NoFlow, NoCall, At
  <2>5. record.stage = "allocated" => funded[record.dep] = 0
    BY <2>1 DEF Calm
  <2> QED
    BY <1>1, <2>1, <2>2, <2>4, <2>5 DEF Calm
<1>3. CASE Close(p)
  <2>1. /\ call[p].op \in {"none", "status", "delay"} /\ page[p] = "open"
    BY <1>3 DEF Close, NoMishap, Mishap, IInv, SendType
  <2>2. /\ page'[p] = "closed" /\ UNCHANGED key
        /\ \A q \in Pages \ {p} : page'[q] = page[q]
    BY <1>3 DEF Close, IInv, SendType
  <2>3. record.stage = "allocated" => funded[record.dep] = 0
    BY <2>1, NotYetFunded DEF At
  <2>4. \A q \in Pages : page'[q] # "open"
    BY <2>1, <2>2 DEF Calm, IInv, SendType
  <2> QED
    BY <1>1, <2>1, <2>2, <2>3, <2>4 DEF Calm
<1>4. CASE Setup(p)
  BY <1>4 DEF Setup, Calm, PageCalm
<1> QED
  BY <1>2, <1>3, <1>4

\* A canister works on the call of page p, and transfers nothing.
LEMMA CanisterCalm ==
  ASSUME IInv, Calm, NEW p \in Pages, UNCHANGED <<record, page, key, flow, funded>>,
         announced \subseteq announced', call[p].op # "none",
         ~At(p, "deposit", "ok"),
         NEW c, call' = [call EXCEPT ![p] = c], c.op = call[p].op,
         c.op = "alloc" /\ c.at = "ok" => funded[c.dep] = 0
  PROVE  Calm'
<1>1. call'[p] = c /\ \A q \in Pages \ {p} : call'[q] = call[q]
  BY DEF IInv, SendType, CallType
<1>2. ASSUME NEW q \in Pages, page[q] = "open"
      PROVE  PageCalm(q)'
  BY <1>1, <1>2 DEF Calm, PageCalm, RecordOf, At
<1>3. \A q \in Pages : At(q, "deposit", "ok") => At(q, "deposit", "ok")'
  BY <1>1 DEF At
<1>4. \A q \in Pages : call'[q].op = call[q].op
  BY <1>1
<1>5. record.stage = "allocated" =>
        \/ funded[record.dep] = 0
        \/ \E q \in Pages : page[q] = "open" /\ At(q, "deposit", "ok")'
  BY <1>3 DEF Calm
<1> QED
  BY <1>2, <1>4, <1>5 DEF Calm

\* The transfer of a deposit: no other page is there to make it as well.
LEMMA TransferCalm ==
  ASSUME IInv, Calm, NEW p \in Pages, UNCHANGED <<record, page, key, flow, announced>>,
         At(p, "deposit", "sent"), Answer(p, "ok"),
         funded' = [funded EXCEPT ![call[p].dep] = @ + 1]
  PROVE  Calm'
<1>1. page[p] = "open"
  BY DEF Calm, At, IInv, FlowTrue, NoCall, SendType
<1>2. flow[p].pc = "deposit"
  BY <1>1, WaitsForCall DEF At
<1>3. PICK d : d = call[p].dep /\ d = flow[p].dep /\ d \in Deposits
  BY <1>1, <1>2, AtCall DEF Pauses, Known
<1>4. record.dep = d /\ record.stage = "allocated"
  BY <1>1, <1>2, <1>3, CalmAt DEF Saved
<1>5. funded[d] = 0
  BY <1>1, <1>4, NotYetFunded DEF At
<1>6. funded'[d] = 1 /\ \A e \in Deposits \ {d} : funded'[e] = funded[e]
  BY <1>3, <1>5 DEF IInv, SendType, TypeOK
<1>7. /\ call'[p].op = "deposit" /\ call'[p].at = "ok"
      /\ \A q \in Pages \ {p} : call'[q] = call[q]
  BY DEF Answer, At, IInv, SendType, CallType
<1>8. PageCalm(p)'
  BY <1>1, <1>7 DEF Calm, PageCalm, RecordOf, At
<1>9. \A q \in Pages : page[q] = "open" => q = p
  BY <1>1 DEF Calm
<1>10. At(p, "deposit", "ok")'
  BY <1>7 DEF At
<1>11. \A e \in Deposits : funded'[e] <= 1
  BY <1>6 DEF Calm
<1>12. \A e \in Deposits : funded'[e] > 0 => e \in announced \/ record.dep = e
  BY <1>4, <1>6 DEF Calm
<1>13. \A q \in Pages : page[q] = "closed" => q # p
  BY <1>1
<1> QED
  BY <1>1, <1>7, <1>8, <1>9, <1>10, <1>11, <1>12, <1>13 DEF Calm

LEMMA CanistersCalm ==
  ASSUME IInv, Calm, NEW p \in Pages, Canisters(p)
  PROVE  Calm'
<1>1. UNCHANGED <<record, page, key, flow>>
  BY DEF Canisters, browserVars, pageVars
<1>2. CASE At(p, "deposit", "sent") /\ TransferExecute(p) /\ ~UNCHANGED funded
  BY <1>1, <1>2, TransferCalm DEF TransferExecute, i1Vars
<1>3. CASE UNCHANGED funded
  <2>1. announced \subseteq announced'
    BY DEF Canisters, Execute, Refuse, Reply, AllocExecute, StatusExecute,
           TransferExecute, PrepareBegin, PrepareEnd, SealBegin, SealEnd, CsrnBegin,
           CsrnEnd, StoreBegin, StoreStep, AnnounceExecute, WitnessExecute, i1Vars
  <2>2. call[p].at \notin Answers \cup {"none"}
    BY DEF Canisters, Execute, Refuse, Reply, AllocExecute, StatusExecute,
           TransferExecute, PrepareBegin, PrepareEnd, SealBegin, SealEnd, CsrnBegin,
           CsrnEnd, StoreBegin, StoreStep, AnnounceExecute, WitnessExecute, At, Answers
  <2>3. call[p].op # "none" /\ ~At(p, "deposit", "ok")
    BY <2>2 DEF IInv, CallTrue, NoCall, At, Answers
  <2>4. CASE AllocExecute(p)
    <3> DEFINE fresh == {d \in Deposits : stage[d] = "none"}
               d == CHOOSE x \in fresh : TRUE
               c == [call[p] EXCEPT !.dep = d, !.at = "ok"]
    <3>1. d \in Deposits /\ stage[d] = "none"
      <4>1. fresh # {}
        BY <2>4 DEF AllocExecute
      <4> QED
        BY <4>1
    <3>2. call' = [call EXCEPT ![p] = c]
      BY <2>4 DEF AllocExecute, IInv, SendType, CallType
    <3> HIDE DEF d
    <3>3. funded[d] = 0
      BY <3>1 DEF IInv, DepositTrue, SendType, TypeOK
    <3>4. c.op = call[p].op /\ c.dep = d
      BY DEF IInv, SendType, CallType
    <3> HIDE DEF c
    <3> QED
      BY <1>1, <1>3, <2>1, <2>3, <3>2, <3>3, <3>4, CanisterCalm
  <2>5. CASE ~AllocExecute(p)
    <3>1. PICK c : /\ call' = [call EXCEPT ![p] = c] /\ c.op = call[p].op
                   /\ c.op = "alloc" => c.at # "ok"
      <4>1. CASE \E a : Answer(p, a) /\ (call[p].op = "alloc" => a = "err")
        <5>1. PICK a : Answer(p, a) /\ (call[p].op = "alloc" => a = "err")
          BY <4>1
        <5>2. LET c == [call[p] EXCEPT !.at = a] IN
                /\ call' = [call EXCEPT ![p] = c] /\ c.op = call[p].op /\ c.at = a
          BY <5>1 DEF Answer, IInv, SendType, CallType
        <5> QED
          BY <5>1, <5>2
      <4>2. CASE CsrnEnd(p) \/ StoreBegin(p) \/ StoreStep(p)
        <5>1. call[p].op \in {"csrn", "store"}
          BY <4>2 DEF CsrnEnd, StoreBegin, StoreStep, At
        <5>2. \E a, b : \/ call' = [call EXCEPT ![p].at = a, ![p].csrn = b]
                        \/ call' = [call EXCEPT ![p].at = a, ![p].next = b]
                        \/ call' = [call EXCEPT ![p].at = a]
          <6>1. CASE CsrnEnd(p)
            <7>1. \/ call' = [call EXCEPT ![p].at = "ok",
                                          ![p].csrn = drawn'[call[p].dep]]
                  \/ call' = [call EXCEPT ![p].at = "err"]
              BY <6>1 DEF CsrnEnd, Answer
            <7> QED
              BY <7>1, Zenon
          <6>2. CASE StoreBegin(p)
            <7>1. \/ call' = [call EXCEPT ![p].at = "err"]
                  \/ call' = [call EXCEPT ![p].at = "announcing"]
                  \/ call' = [call EXCEPT ![p].at = "storing", ![p].next = 1]
              BY <6>2 DEF StoreBegin, Answer
            <7> QED
              BY <7>1, Zenon
          <6>3. CASE StoreStep(p)
            <7> DEFINE i == call[p].next
                       after == IF i < StorageCount THEN "storing" ELSE "announcing"
            <7>1. \/ call' = [call EXCEPT ![p].at = "err"]
                  \/ call' = [call EXCEPT ![p].at = after, ![p].next = i + 1]
              BY <6>3 DEF StoreStep, Answer
            <7> QED
              BY <7>1, Zenon
          <6> QED
            BY <4>2, <6>1, <6>2, <6>3
        <5>3. PICK a, b : \/ call' = [call EXCEPT ![p].at = a, ![p].csrn = b]
                          \/ call' = [call EXCEPT ![p].at = a, ![p].next = b]
                          \/ call' = [call EXCEPT ![p].at = a]
          BY <5>2
        <5>4. \E c : call' = [call EXCEPT ![p] = c] /\ c.op = call[p].op
          <6>1. LET c == [call[p] EXCEPT !.at = a, !.csrn = b] IN
                  c.op = call[p].op /\ [call EXCEPT ![p].at = a, ![p].csrn = b] =
                                       [call EXCEPT ![p] = c]
            BY DEF IInv, SendType, CallType
          <6>2. LET c == [call[p] EXCEPT !.at = a, !.next = b] IN
                  c.op = call[p].op /\ [call EXCEPT ![p].at = a, ![p].next = b] =
                                       [call EXCEPT ![p] = c]
            BY DEF IInv, SendType, CallType
          <6>3. LET c == [call[p] EXCEPT !.at = a] IN
                  c.op = call[p].op /\ [call EXCEPT ![p].at = a] = [call EXCEPT ![p] = c]
            BY DEF IInv, SendType, CallType
          <6> QED
            BY <5>3, <6>1, <6>2, <6>3
        <5> QED
          BY <5>1, <5>4
      <4>3. CASE Refuse(p) \/ Reply(p) \/ TransferExecute(p)
        BY <4>1, <4>3 DEF Refuse, Reply, TransferExecute, At
      <4>4. CASE StatusExecute(p) \/ PrepareBegin(p) \/ PrepareEnd(p) \/ SealBegin(p)
        BY <4>1, <4>4 DEF StatusExecute, PrepareBegin, PrepareEnd, SealBegin, At
      <4>5. CASE SealEnd(p) \/ CsrnBegin(p) \/ AnnounceExecute(p) \/ WitnessExecute(p)
        BY <4>1, <4>5 DEF SealEnd, CsrnBegin, AnnounceExecute, WitnessExecute, At
      <4> QED
        BY <2>5, <4>2, <4>3, <4>4, <4>5 DEF Canisters, Execute
    <3> QED
      BY <1>1, <1>3, <2>1, <2>3, <3>1, CanisterCalm
  <2> QED
    BY <2>4, <2>5
<1>4. UNCHANGED funded \/ (At(p, "deposit", "sent") /\ TransferExecute(p))
  <2>1. CASE TransferExecute(p)
    BY <2>1 DEF TransferExecute
  <2>2. ASSUME \/ StatusExecute(p) \/ Refuse(p) \/ Reply(p) \/ CsrnBegin(p)
               \/ CsrnEnd(p) \/ StoreBegin(p) \/ StoreStep(p)
        PROVE  UNCHANGED routerVars
    BY <2>2 DEF StatusExecute, Refuse, Reply, CsrnBegin, CsrnEnd, StoreBegin, StoreStep
  <2>3. ASSUME \/ AllocExecute(p) \/ PrepareBegin(p) \/ PrepareEnd(p)
               \/ SealBegin(p) \/ SealEnd(p)
        PROVE  UNCHANGED funded
    BY <2>3 DEF AllocExecute, PrepareBegin, PrepareEnd, SealBegin, SealEnd
  <2>4. ASSUME AnnounceExecute(p) \/ WitnessExecute(p)
        PROVE  UNCHANGED routerVars
    BY <2>4 DEF AnnounceExecute, WitnessExecute
  <2> QED
    BY <2>1, <2>2, <2>3, <2>4 DEF Canisters, Execute, routerVars
<1> QED
  BY <1>2, <1>3, <1>4

LEMMA InitCalm == Init => CalmInv
<1> SUFFICES ASSUME Init
             PROVE  CalmInv
  OBVIOUS
<1>1. IInv
  BY InitInvariant
<1>2. /\ page = [p \in Pages |-> "unopened"] /\ funded = [d \in Deposits |-> 0]
      /\ record = NoRecord
  BY DEF Init, InitIngress
<1>3. Calm
  BY <1>2 DEF Calm, NoRecord
<1> QED
  BY <1>1, <1>3 DEF CalmInv

LEMMA NextCalm == CalmInv /\ [Next]_vars => CalmInv'
<1> SUFFICES ASSUME CalmInv, [Next]_vars, mishaps' = 0
             PROVE  Calm'
  BY NextInvariant DEF CalmInv
<1>1. IInv /\ ~Mishap
  BY DEF CalmInv, Mishap, IInv, SendType
<1>2. ASSUME NEW p \in Pages, Continue(p)
      PROVE  Calm'
  <2>1. NoMishap
    BY <1>2 DEF Continue, Allocated, StatusKnown, FeePaid, Funded, Resume, Retry,
                Prepared, Delayed, Sealed, CsrnReceived, Created, Stored, Fail, PageStep
  <2> QED
    BY <1>1, <1>2, <2>1, ContinueCalm DEF CalmInv, NoMishap
<1>3. ASSUME NEW p \in Pages, Canisters(p)
      PROVE  Calm'
  <2>1. CASE NoMishap
    BY <1>1, <1>3, <2>1, CanistersCalm DEF CalmInv, NoMishap
  <2>2. NoMishap
    <3>1. CASE Refuse(p) \/ Reply(p) \/ StatusExecute(p) \/ CsrnBegin(p) \/ CsrnEnd(p)
      BY <1>1, <3>1 DEF Refuse, Reply, StatusExecute, CsrnBegin, CsrnEnd
    <3>2. CASE \/ AllocExecute(p) \/ TransferExecute(p) \/ PrepareBegin(p)
               \/ PrepareEnd(p) \/ SealBegin(p) \/ SealEnd(p)
      BY <1>1, <3>2 DEF AllocExecute, TransferExecute, PrepareBegin, PrepareEnd,
                        SealBegin, SealEnd
    <3>3. CASE StoreBegin(p) \/ StoreStep(p) \/ AnnounceExecute(p) \/ WitnessExecute(p)
      BY <1>1, <3>3 DEF StoreBegin, StoreStep, AnnounceExecute, WitnessExecute
    <3> QED
      BY <1>3, <3>1, <3>2, <3>3 DEF Canisters, Execute
  <2> QED
    BY <2>1, <2>2
<1>4. ASSUME NEW p \in Pages, NEW o \in Orders, Send(p, o)
      PROVE  Calm'
  <2>1. NoMishap
    BY <1>1, <1>4 DEF Send
  <2> QED
    BY <1>1, <1>4, <2>1, SendCalm DEF CalmInv, NoMishap
<1>5. ASSUME NEW p \in Pages, Open(p) \/ Close(p) \/ Setup(p)
      PROVE  Calm'
  <2>1. NoMishap
    BY <1>1, <1>5 DEF Open, Close, Setup
  <2> QED
    BY <1>1, <1>5, <2>1, BrowserCalm DEF CalmInv, NoMishap
<1>6. ~Expire /\ \A p \in Pages : ~AnswerLost(p) /\ ~LoseKey(p)
  BY <1>1 DEF Expire, AnswerLost, LoseKey
<1>7. CASE UNCHANGED vars
  BY <1>7 DEF CalmInv, Calm, PageCalm, RecordOf, At, vars, ingressVars, routerVars,
              storageVars, i1Vars, browserVars, pageVars
<1> QED
  BY <1>2, <1>3, <1>4, <1>5, <1>6, <1>7 DEF Next

\* As long as no page is closed in the middle of an update call, no answer is lost
\* and orders are not mixed, a deposit is funded once, and what was paid into a
\* deposit that has not been announced is named by the recovery record.
THEOREM NothingIsForgotten == Spec => []NothingForgotten
<1>1. CalmInv => NothingForgotten
  <2> SUFFICES ASSUME CalmInv, mishaps = 0
               PROVE  FundedOnce /\ \A d \in Deposits :
                        funded[d] > 0 /\ d \notin announced => record.dep = d
    BY DEF NothingForgotten
  <2> QED
    BY DEF CalmInv, Calm, FundedOnce
<1> QED
  BY <1>1, InitCalm, NextCalm, PTL DEF Spec
=============================================================================
