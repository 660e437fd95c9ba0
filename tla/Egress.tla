------------------------------- MODULE Egress -------------------------------
(***************************************************************************)
(* What the claiming client calls: the deposit's I2 with its jobs, and     *)
(* behind I2 the Storage canisters and the Router, used through its        *)
(* abstract specification Escrow.  A job goes on by itself: finalize_start *)
(* returns before it has begun, and neither a closed page nor reset_job    *)
(* stops it.                                                               *)
(*                                                                         *)
(* Left out, because nothing here reads them: the reports to the Witness   *)
(* and Noticeboard.consume, which I2 makes on a best effort.  I2's answer  *)
(* to ERR.REPLAY is left out because the Router gives none: a deposit it   *)
(* has paid is deleted.                                                    *)
(***************************************************************************)
EXTENDS Naturals, Sequences

CONSTANTS
  Pages,         \* pages opened one after the other or side by side: 1..n
  Deposits,
  NoDeposit,
  Amount,        \* what Alice sealed for Bob, per deposit
  StorageCount,  \* Storage canisters of a deposit
  MaxJobs,       \* jobs an I2 is given
  MaxMishaps     \* how many things may go wrong

ASSUME EgressAssumption ==
  /\ NoDeposit \notin Deposits
  /\ StorageCount \in Nat \ {0}
  /\ MaxJobs \in Nat \ {0}
  /\ MaxMishaps \in Nat

VARIABLES
  stage, paid, refunded,  \* the Router's deposits, as Escrow has them
  served,     \* deposits whose first Storage has handed out the CSRN
  package,    \* per deposit and Storage: "held", "served" or "zeroed"
  jobs,       \* I2's jobs, by their ids 1, 2, ...
  listed,     \* ids that finalize_status finds
  current,    \* jobs_by_deposit: an id, or 0
  cached,     \* deposits whose I2 has cached the package
  dueAt,      \* deposits whose I2 has set destroy_at
  gone,       \* deposits whose I2 has destroyed itself
  call,       \* the call of each page
  mishaps

routerVars == <<stage, paid, refunded>>
storageVars == <<served, package>>
i2Vars == <<jobs, listed, current, cached, dueAt, gone>>
egressVars == <<routerVars, storageVars, i2Vars, call, mishaps>>

Escrow == INSTANCE Escrow

NoCall == [op |-> "none", dep |-> NoDeposit, at |-> "none", job |-> 0]
NewJob == [at |-> "pending", next |-> 1, got |-> 0, ended |-> FALSE]
JobAts == {"pending", "retrieve", "decrypt", "finalize", "closing", "paid",
           "done", "error", "stuck"}

\* Alice has sealed and stored.
InitEgress ==
  /\ stage = [d \in Deposits |-> "sealed"]
  /\ paid = [d \in Deposits |-> 0] /\ refunded = [d \in Deposits |-> 0]
  /\ served = {} /\ cached = {} /\ dueAt = {} /\ gone = {}
  /\ package = [d \in Deposits |-> [i \in 1..StorageCount |-> "held"]]
  /\ jobs = [d \in Deposits |-> << >>]
  /\ listed = [d \in Deposits |-> {}]
  /\ current = [d \in Deposits |-> 0]
  /\ call = [p \in Pages |-> NoCall]
  /\ mishaps = 0

Mishap == mishaps < MaxMishaps /\ mishaps' = mishaps + 1
NoMishap == UNCHANGED mishaps

Request(p, op, d, j) ==
  call' = [call EXCEPT ![p] = [op |-> op, dep |-> d, at |-> "sent", job |-> j]]

At(p, op) == call[p].op = op /\ call[p].at = "sent"
Answer(p, a) == call' = [call EXCEPT ![p].at = a]

-----------------------------------------------------------------------------
(* Queries *)

\* get_deposit_info: the Router has deleted what it has paid.
InfoExecute(p) ==
  /\ At(p, "info") /\ NoMishap
  /\ Answer(p, IF stage[call[p].dep] = "closed" THEN "null" ELSE "ok")
  /\ UNCHANGED <<routerVars, storageVars, i2Vars>>

\* get_package of one Storage after the other, served or not.
PackageExecute(p) ==
  /\ At(p, "package") /\ NoMishap
  /\ Answer(p, IF \E i \in 1..StorageCount : package[call[p].dep][i] # "zeroed"
               THEN "ok" ELSE "err")
  /\ UNCHANGED <<routerVars, storageVars, i2Vars>>

JobStatus(job) == IF job.at \in {"done", "error"} THEN job.at ELSE "processing"

\* finalize_status; "missing" is ERR.JOB_NOT_FOUND.
StatusExecute(p) ==
  LET d == call[p].dep
      j == call[p].job
  IN
  /\ At(p, "status") /\ d \notin gone /\ NoMishap
  /\ Answer(p, IF j \in listed[d] THEN JobStatus(jobs[d][j]) ELSE "missing")
  /\ UNCHANGED <<routerVars, storageVars, i2Vars>>

-----------------------------------------------------------------------------
(* I2's updates *)

\* finalize_start: an unfailed job of the deposit is returned, a failed one is
\* replaced.
StartExecute(p) ==
  LET d == call[p].dep
      c == current[d]
      failed == {c} \cap {j \in listed[d] : jobs[d][j].at = "error"}
      new == Len(jobs[d]) + 1
  IN
  /\ At(p, "start") /\ d \notin gone /\ NoMishap
  /\ UNCHANGED <<routerVars, storageVars, cached, dueAt, gone>>
  /\ \/ /\ c \in listed[d] \ failed
        /\ call' = [call EXCEPT ![p].at = "ok", ![p].job = c]
        /\ UNCHANGED <<jobs, listed, current>>
     \/ /\ c \notin listed[d] \ failed /\ new <= MaxJobs
        /\ call' = [call EXCEPT ![p].at = "ok", ![p].job = new]
        /\ jobs' = [jobs EXCEPT ![d] = Append(@, NewJob)]
        /\ listed' = [listed EXCEPT ![d] = (@ \ failed) \cup {new}]
        /\ current' = [current EXCEPT ![d] = new]

\* reset_job, called by a page whose own job is a quarter of an hour old: that
\* job is old enough, another one may be too young.
ResetExecute(p) ==
  LET d == call[p].dep
      c == current[d]
      young == c # call[p].job
  IN
  /\ At(p, "reset") /\ d \notin gone /\ NoMishap
  /\ UNCHANGED <<routerVars, storageVars, jobs, cached, dueAt, gone>>
  /\ \/ /\ c \notin listed[d] /\ Answer(p, "err")
        /\ current' = [current EXCEPT ![d] = 0] /\ UNCHANGED listed
     \/ /\ c \in listed[d] /\ UNCHANGED <<listed, current>> /\ Answer(p, "err")
        /\ jobs[d][c].at = "done" \/ (young /\ jobs[d][c].at # "error")
     \/ /\ c \in listed[d] /\ jobs[d][c].at # "done" /\ Answer(p, "ok")
        /\ listed' = [listed EXCEPT ![d] = @ \ {c}]
        /\ current' = [current EXCEPT ![d] = 0]

-----------------------------------------------------------------------------
(* process_job, from await to await *)

Job(d, j, at) == d \notin gone /\ jobs[d][j].at = at
JobGoes(d, j, at) == jobs' = [jobs EXCEPT ![d][j].at = at]

\* An error result ends the job; a rejected call, awaited outside any try,
\* leaves it processing for ever.
JobFails(d, j) == Mishap /\ \E at \in {"error", "stuck"} : JobGoes(d, j, at)

\* Mutant: the Storage does not remember that the CSRN has been served.
FetchCsrnAgain(d, j) ==
  /\ Job(d, j, "pending") /\ NoMishap
  /\ UNCHANGED <<routerVars, served, package, listed, current, cached, dueAt, gone, call>>
  /\ IF package[d][1] = "zeroed" THEN JobGoes(d, j, "error")
     ELSE JobGoes(d, j, IF d \in cached THEN "decrypt" ELSE "retrieve")

\* Storage.fetch_csrn answers once.
FetchCsrn(d, j) ==
  /\ Job(d, j, "pending")
  /\ UNCHANGED <<routerVars, package, listed, current, cached, dueAt, gone, call>>
  /\ \/ /\ d \in served \/ package[d][1] = "zeroed"
        /\ JobGoes(d, j, "error") /\ UNCHANGED served /\ NoMishap
     \/ /\ d \notin served /\ package[d][1] # "zeroed" /\ NoMishap
        /\ served' = served \cup {d}
        /\ JobGoes(d, j, IF d \in cached THEN "decrypt" ELSE "retrieve")
     \/ /\ JobFails(d, j)
        /\ served' = served \/ (jobs'[d][j].at = "stuck" /\ served' = served \cup {d})

\* One Storage.retrieve of the loop over all of them, and the quorum check: the
\* packages that are there agree.
Retrieve(d, j) ==
  LET i == jobs[d][j].next
      has == package[d][i] = "held"
      Continue(got) ==
        jobs' = [jobs EXCEPT ![d][j] =
          IF i < StorageCount THEN [@ EXCEPT !.next = i + 1, !.got = got]
          ELSE [NewJob EXCEPT !.at = IF got > 0 THEN "decrypt" ELSE "error"]]
  IN
  /\ Job(d, j, "retrieve")
  /\ UNCHANGED <<routerVars, served, listed, current, dueAt, gone, call>>
  /\ \/ /\ NoMishap /\ Continue(jobs[d][j].got + IF has THEN 1 ELSE 0)
        /\ package' = IF has THEN [package EXCEPT ![d][i] = "served"] ELSE package
     \/ /\ Mishap /\ Continue(jobs[d][j].got) /\ UNCHANGED package
  /\ cached' = IF jobs'[d][j].at = "decrypt" THEN cached \cup {d} ELSE cached

\* Mutant: the destruction is scheduled as soon as the package is there.
DecryptSchedules(d, j) ==
  /\ Job(d, j, "decrypt") /\ NoMishap /\ JobGoes(d, j, "finalize")
  /\ dueAt' = dueAt \cup {d}
  /\ UNCHANGED <<routerVars, storageVars, listed, current, cached, gone, call>>

\* The session of the Crypto canister, and the comparison of the two hashes.
Decrypt(d, j) ==
  /\ Job(d, j, "decrypt")
  /\ (NoMishap /\ JobGoes(d, j, "finalize")) \/ JobFails(d, j)
  /\ UNCHANGED <<routerVars, storageVars, listed, current, cached, dueAt, gone, call>>

\* Router.finalize pays; a deposit being finalized or paid is refused.
Pay(d, j) ==
  /\ Job(d, j, "finalize")
  /\ UNCHANGED <<storageVars, listed, current, cached, dueAt, gone, call>>
  /\ \/ Escrow!Pay(d) /\ JobGoes(d, j, "closing") /\ NoMishap
     \/ /\ stage[d] # "sealed" \/ paid[d] > 0
        /\ JobGoes(d, j, "error") /\ NoMishap /\ UNCHANGED routerVars
     \/ JobFails(d, j) /\ UNCHANGED routerVars

\* Router.finalize deletes the deposit and answers.
CloseDeposit(d, j) ==
  /\ Job(d, j, "closing") /\ Escrow!Close(d)
  /\ UNCHANGED <<storageVars, listed, current, dueAt, gone, call>>
  /\ \/ NoMishap /\ JobGoes(d, j, "paid") /\ cached' = cached \ {d}
     \/ Mishap /\ JobGoes(d, j, "stuck") /\ UNCHANGED cached

\* The reports to the Witness, failed or not.
Finish(d, j) ==
  /\ Job(d, j, "paid") /\ NoMishap /\ JobGoes(d, j, "done")
  /\ dueAt' = dueAt \cup {d}
  /\ UNCHANGED <<routerVars, storageVars, listed, current, cached, gone, call>>

\* finalize_start's continuation, in a later message: the deposit's entry is
\* deleted, whichever job it holds by now.
EndJob(d, j) ==
  /\ d \notin gone /\ jobs[d][j].at \in {"done", "error"} /\ ~jobs[d][j].ended
  /\ NoMishap /\ jobs' = [jobs EXCEPT ![d][j].ended = TRUE]
  /\ current' = [current EXCEPT ![d] = 0]
  /\ UNCHANGED <<routerVars, storageVars, listed, cached, dueAt, gone, call>>

JobStep(d) == \E j \in DOMAIN jobs[d] :
  \/ FetchCsrn(d, j) \/ Retrieve(d, j) \/ Decrypt(d, j) \/ Pay(d, j)
  \/ CloseDeposit(d, j) \/ Finish(d, j) \/ EndJob(d, j)

-----------------------------------------------------------------------------
(* heartbeat and self_destruct *)

Zeroed(d) == {i \in 1..StorageCount : package[d][i] = "zeroed"}
NextToZero(d) == CHOOSE i \in 1..StorageCount \ Zeroed(d) :
                   \A k \in 1..StorageCount \ Zeroed(d) : i <= k

\* The time has come: two and a half minutes after a job is done, or an hour
\* after the first job.  Storage.request_destruct zeroes the data and the mark
\* that it was served.
Destroy(d) ==
  /\ d \notin gone /\ jobs[d] # << >>
  /\ UNCHANGED <<routerVars, jobs, listed, current, cached, dueAt, call>>
  /\ IF Zeroed(d) = 1..StorageCount
     THEN gone' = gone \cup {d} /\ UNCHANGED storageVars
     ELSE /\ package' = [package EXCEPT ![d][NextToZero(d)] = "zeroed"]
          /\ served' = IF NextToZero(d) = 1 THEN served \ {d} ELSE served
          /\ UNCHANGED gone

-----------------------------------------------------------------------------
\* A canister refuses (paused, rate limit), or it is gone.
Refuse(p) ==
  /\ call[p].at = "sent" /\ UNCHANGED <<routerVars, storageVars, i2Vars>>
  /\ \/ Mishap /\ Answer(p, "err")
     \/ /\ call[p].op \in {"status", "start", "reset"} /\ call[p].dep \in gone
        /\ NoMishap /\ Answer(p, "rejected")

\* The answer, if there is one, never arrives: an exception in the page.
LoseAnswer(p) ==
  /\ \/ call[p].at = "sent"
     \/ call[p].op \in {"start", "reset"} /\ call[p].at # "rejected"
  /\ Mishap /\ Answer(p, "rejected")
  /\ UNCHANGED <<routerVars, storageVars, i2Vars>>

Execute(p) ==
  \/ InfoExecute(p) \/ PackageExecute(p) \/ StatusExecute(p)
  \/ StartExecute(p) \/ ResetExecute(p)
=============================================================================
