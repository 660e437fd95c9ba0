----------------------------- MODULE ClaimFlow ------------------------------
(***************************************************************************)
(* claimDeposit (src/icpp-ui/src/methods/flows.ts) and its recovery record *)
(* in the browser's local storage, over the canisters of Egress.           *)
(*                                                                         *)
(* The polling loop is 540 rounds of five seconds: the model counts the    *)
(* quarters of an hour it takes, as many polls as need be in each.  The    *)
(* package is opened by the page itself, correctly.                        *)
(***************************************************************************)
EXTENDS Egress

CONSTANTS
  ResetThreshold,  \* resetThreshold, in quarters of an hour: 1
  MaxQuarters      \* maxAttempts, in quarters of an hour: 3

ASSUME ClaimFlowAssumption ==
  /\ Pages \subseteq Nat
  /\ ResetThreshold \in Nat \ {0}
  /\ MaxQuarters \in Nat \ {0}

VARIABLES
  record,   \* ICPP:claim_recovery
  page,     \* "unopened", "open", "closed"
  key,      \* the page has the key its records are encrypted with
  flow,     \* the claimDeposit in progress on each page
  claimed   \* deposits whose claimDeposit has returned

pageVars == <<page, key>>
vars == <<egressVars, record, pageVars, flow, claimed>>

NoRecord == [dep |-> NoDeposit, job |-> 0]
NoFlow == [pc |-> "idle", dep |-> NoDeposit, job |-> 0, quarters |-> 0]
Pcs == {"idle", "info", "package", "start", "poll", "pause", "reset", "restart"}

Init ==
  /\ InitEgress
  /\ record = NoRecord /\ claimed = {}
  /\ page = [p \in Pages |-> "unopened"]
  /\ key = [p \in Pages |-> FALSE]
  /\ flow = [p \in Pages |-> NoFlow]

-----------------------------------------------------------------------------
(* Helpers *)

PageStep == UNCHANGED <<routerVars, storageVars, i2Vars, pageVars>> /\ NoMishap

Waits(p, pc) == page[p] = "open" /\ flow[p].pc = pc
Answered(p, pc, a) == Waits(p, pc) /\ call[p].at = a

\* claimDeposit ends with an exception.
Throw(p) == flow' = [flow EXCEPT ![p] = NoFlow] /\ call' = [call EXCEPT ![p] = NoCall]

\* loadClaimRecovery returns the record when it is about this deposit and there
\* is a key to decrypt it with.
Resumes(p, d) == key[p] /\ record.dep = d

\* saveClaimRecovery overwrites the record of another deposit.
Save(p) == record' = [dep |-> flow[p].dep, job |-> call[p].job]

Ask(p, pc, op) ==
  flow' = [flow EXCEPT ![p].pc = pc] /\ Request(p, op, flow[p].dep, flow[p].job)

\* The page has learnt its job: the loop begins, or goes on after a restart.
Poll(p, j) ==
  /\ flow' = [flow EXCEPT ![p].pc = "poll", ![p].job = j]
  /\ Request(p, "status", flow[p].dep, j)

-----------------------------------------------------------------------------
(* claimDeposit *)

Claim(p, d) ==
  /\ Waits(p, "idle") /\ d \notin claimed /\ PageStep /\ UNCHANGED <<record, claimed>>
  /\ flow' = [flow EXCEPT ![p] = [NoFlow EXCEPT !.pc = "info", !.dep = d]]
  /\ Request(p, "info", d, 0)

InfoKnown(p) ==
  /\ Answered(p, "info", "ok") /\ PageStep /\ UNCHANGED <<record, claimed>>
  /\ Ask(p, "package", "package")

\* decryptTransfer, then loadClaimRecovery, which removes a record it has no key
\* for.
Opened(p) ==
  LET d == flow[p].dep IN
  /\ Answered(p, "package", "ok") /\ PageStep /\ UNCHANGED claimed
  /\ record' = IF key[p] THEN record ELSE NoRecord
  /\ IF Resumes(p, d) THEN Poll(p, record.job) ELSE Ask(p, "start", "start")

\* Mutant: the job is not recorded.
StartedUnsaved(p) ==
  /\ Answered(p, "start", "ok") /\ key[p] /\ PageStep /\ UNCHANGED <<record, claimed>>
  /\ Poll(p, call[p].job)

\* saveClaimRecovery throws when the session has been reset under the flow.
Started(p) ==
  /\ Answered(p, "start", "ok") /\ PageStep /\ UNCHANGED claimed
  /\ IF key[p]
     THEN Save(p) /\ Poll(p, call[p].job)
     ELSE Throw(p) /\ UNCHANGED record

\* Mutant: the loop has no end.
PollForever(p) ==
  LET q == flow[p].quarters + 1 IN
  /\ Waits(p, "pause") /\ UNCHANGED <<routerVars, storageVars, i2Vars, pageVars>>
  /\ UNCHANGED <<record, claimed>>
  /\ \/ NoMishap /\ Ask(p, "poll", "status")
     \/ /\ Mishap /\ flow' = [flow EXCEPT ![p].quarters = q, ![p].pc = "poll"]
        /\ Request(p, "status", flow[p].dep, flow[p].job)

\* The pause is over: another poll in the same quarter of an hour, or the next
\* quarter begins, with a reset or the end of the loop.
PollAgain(p) ==
  LET q == flow[p].quarters + 1 IN
  /\ Waits(p, "pause") /\ UNCHANGED <<routerVars, storageVars, i2Vars, pageVars>>
  /\ UNCHANGED <<record, claimed>>
  /\ \/ NoMishap /\ Ask(p, "poll", "status")
     \/ Mishap /\ q = MaxQuarters /\ Throw(p)
     \/ /\ Mishap /\ q < MaxQuarters
        /\ flow' = [flow EXCEPT ![p].quarters = q,
                      ![p].pc = IF q = ResetThreshold THEN "reset" ELSE "poll"]
        /\ Request(p, IF q = ResetThreshold THEN "reset" ELSE "status",
                   flow[p].dep, flow[p].job)

\* After a reset a new job is started; whatever fails, polling goes on.
ResetAnswered(p) ==
  /\ Waits(p, "reset") /\ PageStep /\ UNCHANGED <<record, claimed>>
  /\ \/ call[p].at = "ok" /\ Ask(p, "restart", "start")
     \/ call[p].at \in {"err", "rejected"} /\ Poll(p, flow[p].job)

Restarted(p) ==
  /\ Waits(p, "restart") /\ PageStep /\ UNCHANGED claimed
  /\ \/ /\ call[p].at = "ok" /\ Poll(p, call[p].job)
        /\ IF key[p] THEN Save(p) ELSE UNCHANGED record
     \/ /\ call[p].at \in {"err", "rejected"} /\ Poll(p, flow[p].job)
        /\ UNCHANGED record

\* Mutant: every answer that is not an error counts as success.
PolledLoosely(p) ==
  LET a == call[p].at IN
  /\ Waits(p, "poll") /\ PageStep
  /\ a \in {"processing", "done", "error", "missing"}
  /\ record' = NoRecord
  /\ claimed' = IF a \in {"processing", "done"} THEN claimed \cup {flow[p].dep} ELSE claimed
  /\ Throw(p)

\* removeSentId, after the record has been cleared, throws without the key.
Polled(p) ==
  LET a == call[p].at IN
  /\ Waits(p, "poll") /\ PageStep
  /\ \/ /\ a \in {"processing", "rejected"} /\ UNCHANGED <<record, claimed>>
        /\ flow' = [flow EXCEPT ![p].pc = "pause"] /\ call' = [call EXCEPT ![p] = NoCall]
     \/ /\ a \in {"done", "error", "missing", "err"} /\ record' = NoRecord
        /\ claimed' = IF a = "done" /\ key[p] THEN claimed \cup {flow[p].dep} ELSE claimed
        /\ Throw(p)

\* An exception or an error before the loop.
Fail(p) ==
  /\ page[p] = "open" /\ flow[p].pc \in {"info", "package", "start"}
  /\ call[p].at \in {"err", "null", "rejected"}
  /\ PageStep /\ Throw(p) /\ UNCHANGED <<record, claimed>>

\* isDelegationStale, or an exception that says so: the record stays.
Expired(p) ==
  /\ page[p] = "open" /\ flow[p].pc \in {"poll", "pause"} /\ Mishap /\ Throw(p)
  /\ UNCHANGED <<routerVars, storageVars, i2Vars, pageVars, record, claimed>>

Continue(p) ==
  \/ InfoKnown(p) \/ Opened(p) \/ Started(p) \/ PollAgain(p)
  \/ ResetAnswered(p) \/ Restarted(p) \/ Polled(p) \/ Fail(p)

-----------------------------------------------------------------------------
(* The browser *)

browserStep == UNCHANGED <<routerVars, storageVars, i2Vars, claimed>>

\* A second page beside an open one counts as a mishap.
Open(p) ==
  /\ page[p] = "unopened" /\ \A q \in Pages : q < p => page[q] # "unopened"
  /\ IF \E q \in Pages : page[q] = "open" THEN Mishap ELSE NoMishap
  /\ page' = [page EXCEPT ![p] = "open"] /\ key' = [key EXCEPT ![p] = TRUE]
  /\ UNCHANGED <<flow, call, record>> /\ browserStep

\* Closing a page is no mishap except during an update call, which is executed
\* all the same.  The last page stays.
Close(p) ==
  /\ page[p] = "open" /\ p + 1 \in Pages
  /\ page' = [page EXCEPT ![p] = "closed"] /\ flow' = [flow EXCEPT ![p] = NoFlow]
  /\ IF call[p].op \in {"start", "reset"}
     THEN Mishap /\ UNCHANGED call
     ELSE NoMishap /\ call' = [call EXCEPT ![p] = NoCall]
  /\ UNCHANGED <<key, record>> /\ browserStep

LoseKey(p) ==
  /\ page[p] = "open" /\ key[p] /\ Mishap
  /\ key' = [key EXCEPT ![p] = FALSE]
  /\ UNCHANGED <<page, flow, call, record>> /\ browserStep

Setup(p) ==
  /\ page[p] = "open" /\ ~key[p] /\ NoMishap
  /\ key' = [key EXCEPT ![p] = TRUE]
  /\ UNCHANGED <<page, flow, call, record>> /\ browserStep

\* The record is over two hours old: the next load discards it.
ExpireRecord ==
  /\ record # NoRecord /\ Mishap /\ record' = NoRecord
  /\ UNCHANGED <<pageVars, flow, call>> /\ browserStep

-----------------------------------------------------------------------------
browserSame == UNCHANGED <<record, pageVars, flow, claimed>>

Canisters(p) == (Execute(p) \/ Refuse(p)) /\ browserSame
JobSteps(d) == JobStep(d) /\ browserSame

\* A page polls often enough to hear of a job that is done before I2 goes, and
\* a job takes less than an hour: anything else is a mishap.
Heartbeat(d) ==
  /\ Destroy(d) /\ browserSame
  /\ IF Zeroed(d) = {} /\ (d \notin dueAt \/ \E p \in Pages : flow[p].dep = d)
     THEN Mishap ELSE NoMishap

Next ==
  \/ \E p \in Pages :
       \/ Canisters(p) \/ Continue(p) \/ Expired(p)
       \/ LoseAnswer(p) /\ browserSame
       \/ \E d \in Deposits : Claim(p, d)
       \/ Open(p) \/ Close(p) \/ LoseKey(p) \/ Setup(p)
  \/ \E d \in Deposits : JobSteps(d) \/ Heartbeat(d)
  \/ ExpireRecord

Spec == Init /\ [][Next]_vars

\* Canisters answer, jobs and pages go on, and the user opens a page and presses
\* Claim until the deposit is claimed.
Fairness ==
  /\ \A d \in Deposits : WF_vars(JobSteps(d))
  /\ \A p \in Pages :
       /\ WF_vars(Canisters(p)) /\ WF_vars(Continue(p))
       /\ WF_vars(Open(p)) /\ WF_vars(Setup(p))
       /\ \A d \in Deposits : WF_vars(Claim(p, d))

FairSpec == Spec /\ Fairness

-----------------------------------------------------------------------------
(* Properties *)
TypeOK ==
  /\ stage \in [Deposits -> {"sealed", "closed"}]
  /\ served \cup cached \cup dueAt \cup gone \cup claimed \subseteq Deposits
  /\ package \in [Deposits -> [1..StorageCount -> {"held", "served", "zeroed"}]]
  /\ \A d \in Deposits :
       /\ Len(jobs[d]) <= MaxJobs /\ listed[d] \subseteq DOMAIN jobs[d]
       /\ current[d] \in {0} \cup DOMAIN jobs[d]
       /\ \A j \in DOMAIN jobs[d] : jobs[d][j].at \in JobAts
  /\ record = NoRecord \/ record.dep \in Deposits
  /\ key \in [Pages -> BOOLEAN]
  /\ \A p \in Pages : flow[p].pc \in Pcs /\ flow[p].quarters < MaxQuarters

\* However many jobs finalize_start and reset_job let run side by side, the ones
\* deleted while they run included, one of them at most gets far enough to have
\* the Router pay.
OnePayer ==
  \A d \in Deposits : \A i, j \in DOMAIN jobs[d] :
    /\ jobs[d][i].at \in {"retrieve", "decrypt", "finalize", "closing", "paid", "done"}
    /\ jobs[d][j].at \in {"retrieve", "decrypt", "finalize", "closing", "paid", "done"}
    => i = j

\* Nobody is told more than has happened: a job that is done, a claim that has
\* returned and an I2 that has been told to destroy itself mean that Bob has
\* been paid in full; and the record of a page names a job of its deposit.
ReportedIsPaid ==
  /\ \A d \in Deposits :
       \/ paid[d] = Amount[d]
       \/ d \notin claimed \cup dueAt /\ \A j \in DOMAIN jobs[d] : jobs[d][j].at # "done"
  /\ record # NoRecord => record.job \in DOMAIN jobs[record.dep]

\* "Failed -> allow retry": as long as Bob has not been paid, no job is at work
\* and I2 and its Storage canisters exist, another job could still succeed.
FailedMayRetry ==
  \A d \in Deposits :
    paid[d] = 0 /\ Zeroed(d) = {}
    /\ (\A j \in DOMAIN jobs[d] : jobs[d][j].at = "error")
    => d \notin served

\* Whenever pages are closed, one after the other, the claim the user keeps
\* repeating is paid.
ClaimPays == [](mishaps = 0) => \A d \in Deposits : <>(paid[d] = Amount[d])

\* And a page that polls and stays open reports it.
ClaimReported ==
  [](mishaps = 0) => \A p \in Pages, d \in Deposits :
    flow[p].pc = "poll" /\ flow[p].dep = d ~> d \in claimed \/ page[p] = "closed"
=============================================================================
