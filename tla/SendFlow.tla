------------------------------ MODULE SendFlow ------------------------------
(***************************************************************************)
(* sendShielded (src/icpp-ui/src/methods/flows.ts) and its recovery record *)
(* in the browser's local storage, over the canisters of Ingress.          *)
(*                                                                         *)
(* An order is what the user asks for: a recipient and an amount.  A page  *)
(* can be closed at any moment; what it knew is lost, the record and the   *)
(* calls it made are not.  Every step of a page is the code from the       *)
(* answer of one call to the next call.                                    *)
(***************************************************************************)
EXTENDS Ingress

CONSTANTS
  Orders,
  NoOrder,
  MAX_RETRIES    \* MAX_PREPARE_RETRIES and MAX_SEAL_RETRIES

ASSUME SendFlowAssumption ==
  /\ NoOrder \notin Orders
  /\ Pages \subseteq Nat
  /\ MAX_RETRIES \in Nat \ {0}

VARIABLES
  record,   \* ICPP:send_recovery
  sentIds,  \* deposits saveSentId has recorded
  page,     \* "unopened", "open", "closed"
  key,      \* the page has the key its records are encrypted with
  flow,     \* the sendShielded in progress on each page
  done      \* orders whose sendShielded has returned

browserVars == <<record, sentIds>>
pageVars == <<page, key>>
vars == <<ingressVars, browserVars, pageVars, flow, done>>

Stages == {"allocated", "funded", "prepared", "sealed"}
NoRecord == [order |-> NoOrder, dep |-> NoDeposit, stage |-> "none"]

NoFlow == [pc |-> "idle", order |-> NoOrder, dep |-> NoDeposit, attempt |-> 0,
           csrn |-> 0]

\* The pause after the transfers and those of the two retry loops: the page
\* waits without a call.
Pauses == {"funded_pause", "prepare_pause", "seal_pause"}
Pcs == {"idle", "alloc", "status", "fee", "deposit", "prepare", "delay", "seal",
        "csrn", "create", "store"} \cup Pauses

Init ==
  /\ InitIngress
  /\ record = NoRecord /\ sentIds = {} /\ done = {}
  /\ page = [p \in Pages |-> "unopened"]
  /\ key = [p \in Pages |-> FALSE]
  /\ flow = [p \in Pages |-> NoFlow]

-----------------------------------------------------------------------------
(* Helpers *)

\* Canisters and the number of mishaps stay as they are.
PageStep == UNCHANGED <<routerVars, storageVars, i1Vars, pageVars>> /\ NoMishap

Waits(p, pc) == page[p] = "open" /\ flow[p].pc = pc
Answered(p, pc, a) == Waits(p, pc) /\ call[p].at = a

Goto(p, pc) == flow' = [flow EXCEPT ![p].pc = pc]
Hangup(p) == call' = [call EXCEPT ![p] = NoCall]

\* sendShielded ends with an exception; the record stays.
Throw(p) ==
  /\ flow' = [flow EXCEPT ![p] = NoFlow] /\ Hangup(p)
  /\ UNCHANGED <<browserVars, done>>

\* saveSendRecovery throws when the session has been reset under the flow.
Save(p, d, s) ==
  key[p] /\ record' = [order |-> flow[p].order, dep |-> d, stage |-> s]

\* loadSendRecovery returns the record when it is about this order and there is
\* a key to decrypt it with.
Resumes(p, o) == key[p] /\ record.order = o

\* saveSentId throws without the key.
SaveSentId(p) ==
  IF key[p] THEN sentIds' = sentIds \cup {flow[p].dep} /\ done' = done \cup {flow[p].order}
            ELSE UNCHANGED <<sentIds, done>>

\* A call in the middle of sendShielded.
Proceed(p, pc, op, d, c) ==
  /\ flow' = [flow EXCEPT ![p].pc = pc, ![p].dep = d, ![p].attempt = 0]
  /\ Request(p, op, d, c)

-----------------------------------------------------------------------------
(* sendShielded *)

\* A record of another order, or one that cannot be read, is cleared.
Send(p, o) ==
  LET resumes == Resumes(p, o)
      s == IF resumes THEN record.stage ELSE "none"
      d == record.dep
      Start(pc, op) ==
        /\ flow' = [flow EXCEPT ![p] = [NoFlow EXCEPT !.pc = pc, !.order = o,
                                                      !.dep = IF resumes THEN d ELSE NoDeposit]]
        /\ Request(p, op, IF resumes THEN d ELSE NoDeposit, 0)
  IN
  /\ Waits(p, "idle") /\ o \notin done
  /\ UNCHANGED <<routerVars, storageVars, i1Vars, pageVars, sentIds, done>>
  /\ IF resumes \/ record = NoRecord
     THEN UNCHANGED record /\ NoMishap
     ELSE record' = NoRecord /\ Mishap
  /\ \/ s = "none" /\ Start("alloc", "alloc")
     \/ s = "allocated" /\ Start("status", "status")
     \/ s = "funded" /\ Start("prepare", "prepare")
     \/ s = "prepared" /\ Start("delay", "delay")
     \/ s = "sealed" /\ Start("csrn", "csrn")

Allocated(p) ==
  /\ Answered(p, "alloc", "ok") /\ PageStep /\ UNCHANGED <<sentIds, done>>
  /\ Save(p, call[p].dep, "allocated")
  /\ Proceed(p, "status", "status", call[p].dep, 0)

\* getRouterConfig and router.status; an exception of status means transfers.
StatusKnown(p) ==
  /\ Waits(p, "status") /\ call[p].at \in {"allocated", "moved", "err"}
  /\ PageStep /\ UNCHANGED <<sentIds, done>>
  /\ IF call[p].at = "moved"
     THEN Save(p, flow[p].dep, "funded") /\ Goto(p, "funded_pause") /\ Hangup(p)
     ELSE UNCHANGED record /\ Proceed(p, "fee", "fee", flow[p].dep, 0)

\* Mutant: the stage is saved before the transfer.
FeePaidSavesEarly(p) ==
  /\ Answered(p, "fee", "ok") /\ PageStep /\ UNCHANGED <<sentIds, done>>
  /\ Save(p, flow[p].dep, "funded")
  /\ Proceed(p, "deposit", "deposit", flow[p].dep, 0)

FeePaid(p) ==
  /\ Answered(p, "fee", "ok") /\ PageStep /\ UNCHANGED <<browserVars, done>>
  /\ Proceed(p, "deposit", "deposit", flow[p].dep, 0)

\* Mutant: the stage is saved after the pause, not before it.
FundedUnsaved(p) ==
  /\ Answered(p, "deposit", "ok") /\ PageStep /\ UNCHANGED <<browserVars, done>>
  /\ Goto(p, "funded_pause") /\ Hangup(p)

Funded(p) ==
  /\ Answered(p, "deposit", "ok") /\ PageStep /\ UNCHANGED <<sentIds, done>>
  /\ Save(p, flow[p].dep, "funded")
  /\ Goto(p, "funded_pause") /\ Hangup(p)

\* The pause after the transfers, and those between two attempts.
Resume(p) ==
  /\ page[p] = "open" /\ PageStep /\ UNCHANGED <<browserVars, done>>
  /\ \/ /\ flow[p].pc = "funded_pause"
        /\ Proceed(p, "prepare", "prepare", flow[p].dep, 0)
     \/ /\ flow[p].pc = "prepare_pause" /\ Goto(p, "prepare")
        /\ Request(p, "prepare", flow[p].dep, 0)
     \/ /\ flow[p].pc = "seal_pause" /\ Goto(p, "seal")
        /\ Request(p, "seal", flow[p].dep, 0)

\* Mutant: one attempt too many.
RetryOnceMore(p) ==
  /\ Waits(p, "prepare") \/ Waits(p, "seal")
  /\ call[p].at = "busy" /\ PageStep
  /\ IF flow[p].attempt < MAX_RETRIES
     THEN /\ flow' = [flow EXCEPT ![p].attempt = @ + 1,
                        ![p].pc = IF @ = "seal" THEN "seal_pause" ELSE "prepare_pause"]
          /\ Hangup(p) /\ UNCHANGED <<browserVars, done>>
     ELSE Throw(p)

\* TEMPORARILY_UNAVAILABLE, for a seal TRANSFER_FAILED as well: another attempt.
Retry(p) ==
  /\ Waits(p, "prepare") \/ Waits(p, "seal")
  /\ call[p].at = "busy" /\ PageStep
  /\ IF flow[p].attempt + 1 < MAX_RETRIES
     THEN /\ flow' = [flow EXCEPT ![p].attempt = @ + 1,
                        ![p].pc = IF @ = "seal" THEN "seal_pause" ELSE "prepare_pause"]
          /\ Hangup(p) /\ UNCHANGED <<browserVars, done>>
     ELSE Throw(p)

\* Mutant: the stage is not saved once the deposit has its canisters.
PreparedUnsaved(p) ==
  /\ Answered(p, "prepare", "ok") /\ PageStep /\ UNCHANGED <<browserVars, done>>
  /\ Proceed(p, "delay", "delay", flow[p].dep, 0)

Prepared(p) ==
  /\ Answered(p, "prepare", "ok") /\ PageStep /\ UNCHANGED <<sentIds, done>>
  /\ Save(p, flow[p].dep, "prepared")
  /\ Proceed(p, "delay", "delay", flow[p].dep, 0)

\* getOperationalStatus and the delay it recommends.
Delayed(p) ==
  /\ Answered(p, "delay", "ok") /\ PageStep /\ UNCHANGED <<browserVars, done>>
  /\ Proceed(p, "seal", "seal", flow[p].dep, 0)

Sealed(p) ==
  /\ Answered(p, "seal", "ok") /\ PageStep /\ UNCHANGED <<sentIds, done>>
  /\ Save(p, flow[p].dep, "sealed")
  /\ Proceed(p, "csrn", "csrn", flow[p].dep, 0)

\* decryptCsrn, then the session of the Crypto canister that makes the package.
CsrnReceived(p) ==
  /\ Answered(p, "csrn", "ok") /\ PageStep /\ UNCHANGED <<browserVars, done>>
  /\ flow' = [flow EXCEPT ![p].pc = "create", ![p].csrn = call[p].csrn]
  /\ Request(p, "create", flow[p].dep, 0)

Created(p) ==
  /\ Answered(p, "create", "ok") /\ PageStep /\ UNCHANGED <<browserVars, done>>
  /\ Proceed(p, "store", "store", flow[p].dep, flow[p].csrn)

\* clearSendRecovery, then saveSentId.
Stored(p) ==
  /\ Answered(p, "store", "ok") /\ PageStep
  /\ record' = NoRecord /\ SaveSentId(p)
  /\ flow' = [flow EXCEPT ![p] = NoFlow] /\ Hangup(p)

\* An error result, or a record that cannot be saved.
Fail(p) ==
  LET pc == flow[p].pc IN
  /\ page[p] = "open" /\ PageStep /\ Throw(p)
  /\ \/ call[p].at = "err" /\ pc # "status"
     \/ /\ call[p].at \in {"ok", "moved"} /\ ~key[p]
        /\ pc \in {"alloc", "deposit", "prepare", "seal", "status"}

\* A call whose answer never comes: executed or not, the page gets an exception.
AnswerLost(p) ==
  /\ page[p] = "open" /\ call[p].at \in {"sent"} \cup Answers
  /\ Mishap /\ Throw(p) /\ UNCHANGED <<routerVars, storageVars, i1Vars, pageVars>>

Continue(p) ==
  \/ Allocated(p) \/ StatusKnown(p) \/ FeePaid(p) \/ Funded(p) \/ Resume(p)
  \/ Retry(p) \/ Prepared(p) \/ Delayed(p) \/ Sealed(p) \/ CsrnReceived(p)
  \/ Created(p) \/ Stored(p) \/ Fail(p)

-----------------------------------------------------------------------------
(* The browser *)

browserStep == UNCHANGED <<routerVars, storageVars, i1Vars, sentIds, done>>

\* A second page beside an open one counts as a mishap.
Open(p) ==
  /\ page[p] = "unopened" /\ \A q \in Pages : q < p => page[q] # "unopened"
  /\ IF \E q \in Pages : page[q] = "open" THEN Mishap ELSE NoMishap
  /\ page' = [page EXCEPT ![p] = "open"] /\ key' = [key EXCEPT ![p] = TRUE]
  /\ UNCHANGED <<flow, call, record>> /\ browserStep

\* Closing a page is no mishap while it makes no call, or one that only reads.
\* The last page stays.
Close(p) ==
  /\ page[p] = "open" /\ p + 1 \in Pages
  /\ IF call[p].op \in {"none", "status", "delay"} THEN NoMishap ELSE Mishap
  /\ page' = [page EXCEPT ![p] = "closed"] /\ flow' = [flow EXCEPT ![p] = NoFlow]
  /\ UNCHANGED <<key, call, record>> /\ browserStep

\* resetSessionState clears the key, whatever is in progress; setupICPP
\* derives it again.
LoseKey(p) ==
  /\ page[p] = "open" /\ key[p] /\ Mishap
  /\ key' = [key EXCEPT ![p] = FALSE]
  /\ UNCHANGED <<page, flow, call, record>> /\ browserStep

Setup(p) ==
  /\ page[p] = "open" /\ ~key[p] /\ NoMishap
  /\ key' = [key EXCEPT ![p] = TRUE]
  /\ UNCHANGED <<page, flow, call, record>> /\ browserStep

\* The record is over an hour old: the next load discards it.
Expire ==
  /\ record # NoRecord /\ Mishap /\ record' = NoRecord
  /\ UNCHANGED <<pageVars, flow, call>> /\ browserStep

-----------------------------------------------------------------------------
\* Queries and sessions that leave no trace here: they are answered.
Reply(p) ==
  /\ call[p].op \in {"delay", "create"} /\ call[p].at = "sent" /\ NoMishap
  /\ Answer(p, "ok") /\ UNCHANGED <<routerVars, storageVars, i1Vars>>

Canisters(p) ==
  (Execute(p) \/ Refuse(p) \/ Reply(p)) /\ UNCHANGED <<browserVars, pageVars, flow, done>>

Next ==
  \/ \E p \in Pages :
       \/ Canisters(p) \/ Continue(p) \/ AnswerLost(p)
       \/ \E o \in Orders : Send(p, o)
       \/ Open(p) \/ Close(p) \/ LoseKey(p) \/ Setup(p)
  \/ Expire

Spec == Init /\ [][Next]_vars

\* Canisters answer, pages go on, and the user opens a page and presses Send
\* until the order is done.
Fairness ==
  \A p \in Pages :
    /\ WF_vars(Canisters(p)) /\ WF_vars(Continue(p))
    /\ WF_vars(Open(p)) /\ WF_vars(Setup(p))
    /\ \A o \in Orders : WF_vars(Send(p, o))

FairSpec == Spec /\ Fairness

-----------------------------------------------------------------------------
(* Properties *)
TypeOK ==
  /\ stage \in [Deposits -> {"none", "allocated", "created", "sealed"}]
  /\ locks \subseteq Deposits
  /\ funded \in [Deposits -> Nat] /\ csrn \in [Deposits -> Nat]
  /\ \A d \in Deposits : stored[d] \in [1..StorageCount -> Nat]
  /\ announced \cup gone \cup logged \cup sentIds \subseteq Deposits
  /\ record = NoRecord
       \/ record \in [order : Orders, dep : Deposits, stage : Stages]
  /\ key \in [Pages -> BOOLEAN] /\ done \subseteq Orders
  /\ \A p \in Pages : flow[p].pc \in Pcs /\ flow[p].attempt < MAX_RETRIES

\* What a reloaded page reads was true when it was written and still is: the
\* record is never ahead of the Router and the ledger, whatever is lost and
\* however many pages share it.
RecordBehindRouter ==
  LET d == record.dep IN
  /\ record.stage # "none" => stage[d] # "none"
  /\ record.stage = "funded" => funded[d] > 0
  /\ record.stage = "prepared" => stage[d] \in {"created", "sealed"}
  /\ record.stage = "sealed" => stage[d] = "sealed"

\* I1 stores Storage by Storage and gives up at the first one that has a
\* package: two competing calls never leave different packages behind, which
\* I2's quorum check would refuse, and only a sealed deposit is announced, with
\* its package everywhere.
StoragesAgree ==
  \A d \in Deposits :
    /\ \A i, j \in 1..StorageCount :
         stored[d][i] # 0 /\ stored[d][j] # 0 => stored[d][i] = stored[d][j]
    /\ d \in announced =>
         stage[d] = "sealed" /\ \A i \in 1..StorageCount : stored[d][i] # 0

\* "Check Router state to prevent double-spend": Alice transfers the amount of
\* a deposit once.
FundedOnce == \A d \in Deposits : funded[d] <= 1

\* As long as no page is closed in the middle of an update call, no answer is
\* lost and orders are not mixed, a deposit is funded once, and money in a deposit that
\* has not been announced is named by the record or by the page working on it.
NothingForgotten ==
  mishaps = 0 =>
    /\ FundedOnce
    /\ \A d \in Deposits :
         funded[d] > 0 /\ d \notin announced =>
           record.dep = d \/ \E p \in Pages : page[p] = "open" /\ flow[p].dep = d

\* Closing the page in a pause or a query of sendShielded costs nothing: pressed again,
\* Send resumes from the record, and the order ends with its announcement.
OrderIsSent ==
  [](mishaps = 0) => \A o \in Orders : <>(o \in done)
=============================================================================
