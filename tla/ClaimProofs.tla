----------------------------- MODULE ClaimProofs ----------------------------
(***************************************************************************)
(* The claim flow, for any number of pages, deposits, jobs and mishaps: of *)
(* all the jobs an I2 was ever given, one at most gets past the CSRN, and  *)
(* whoever reports a payment, the job, the page or I2's destruction, does  *)
(* so after it.                                                            *)
(*                                                                         *)
(* A step is one of a job, which changes one entry of a sequence, or one   *)
(* of a page and its call; what has been paid and which jobs there are is  *)
(* never taken back.                                                       *)
(***************************************************************************)
EXTENDS ClaimFlow, SequenceTheorems, TLAPS

(* The inductive invariant *)

Jobs == [at : JobAts, next : 1..StorageCount, got : Nat, ended : BOOLEAN]

CallOps == {"none", "info", "package", "start", "status", "reset"}
CallAts == {"none", "sent", "ok", "null", "err", "processing", "done", "error",
            "missing", "rejected"}

CallType ==
  call \in [Pages -> [op : CallOps, dep : Deposits \cup {NoDeposit},
                      at : CallAts, job : Nat]]

FlowType ==
  flow \in [Pages -> [pc : Pcs, dep : Deposits \cup {NoDeposit}, job : Nat,
                      quarters : 0..MaxQuarters - 1]]

JobsType ==
  /\ jobs \in [Deposits -> Seq(Jobs)] /\ listed \in [Deposits -> SUBSET Nat]
  /\ current \in [Deposits -> Nat]
  /\ \A d \in Deposits :
       /\ Len(jobs[d]) <= MaxJobs /\ listed[d] \subseteq DOMAIN jobs[d]
       /\ current[d] \in {0} \cup DOMAIN jobs[d]

DepositType ==
  /\ stage \in [Deposits -> {"sealed", "closed"}]
  /\ paid \in [Deposits -> {0} \cup {Amount[d] : d \in Deposits}]
  /\ package \in [Deposits -> [1..StorageCount -> {"held", "served", "zeroed"}]]
  /\ served \cup cached \cup dueAt \cup gone \subseteq Deposits

BrowserType ==
  /\ page \in [Pages -> {"unopened", "open", "closed"}] /\ key \in [Pages -> BOOLEAN]
  /\ claimed \subseteq Deposits
  /\ record = NoRecord \/ record \in [dep : Deposits, job : Nat]

ClaimType == DepositType /\ JobsType /\ CallType /\ FlowType /\ BrowserType

PastCsrn == {"retrieve", "decrypt", "finalize", "closing", "paid", "done"}

\* Whoever got past the CSRN has left a trace at the first Storage.
CsrnTaken(d) == d \in served \/ package[d][1] = "zeroed"

\* Every deposit by itself.
DepositTrue(d) ==
  /\ \A i, j \in DOMAIN jobs[d] :
       jobs[d][i].at \in PastCsrn /\ jobs[d][j].at \in PastCsrn => i = j
  /\ \A j \in DOMAIN jobs[d] : jobs[d][j].at \in PastCsrn => CsrnTaken(d)
  /\ \A j \in DOMAIN jobs[d] :
       jobs[d][j].at \in {"closing", "paid", "done"} => paid[d] = Amount[d]
  /\ d \in dueAt => paid[d] = Amount[d]

\* What the browser has been told.
BrowserTrue ==
  /\ \A d \in claimed : paid[d] = Amount[d]
  /\ record # NoRecord => record.job \in DOMAIN jobs[record.dep]

\* What an answer says.
CallTrue(p) ==
  LET c == call[p] IN
  /\ c.op = "none" => c = NoCall
  /\ c.op # "none" => c.dep \in Deposits
  /\ c.op = "start" /\ c.at = "ok" => c.job \in DOMAIN jobs[c.dep]
  /\ c.op = "status" /\ c.at = "done" => paid[c.dep] = Amount[c.dep]

CallOf(pc) == CASE pc \in {"info", "package", "start", "reset"} -> pc
                [] pc = "poll" -> "status"
                [] pc = "restart" -> "start"
                [] OTHER -> "none"

\* The page waits for the call of its program counter.
FlowTrue(p) ==
  LET f == flow[p] IN
  /\ page[p] # "open" => f.pc = "idle"
  /\ page[p] = "unopened" => call[p] = NoCall
  /\ page[p] = "open" => call[p].op = CallOf(f.pc)
  /\ f.pc # "idle" => f.dep \in Deposits
  /\ f.pc \notin {"idle", "pause"} => call[p].dep = f.dep

IInv ==
  /\ ClaimType /\ BrowserTrue
  /\ \A d \in Deposits : DepositTrue(d)
  /\ \A p \in Pages : CallTrue(p) /\ FlowTrue(p)

-----------------------------------------------------------------------------
(* Nothing that has been reported is taken back *)

Grows == \A d \in Deposits : /\ paid[d] = Amount[d] => paid'[d] = Amount[d]
                             /\ DOMAIN jobs[d] \subseteq DOMAIN jobs'[d]

browserAll == <<record, page, key, flow, claimed>>

LEMMA CallStays ==
  ASSUME Grows, NEW p \in Pages, CallTrue(p), call'[p] = call[p]
  PROVE  CallTrue(p)'
  BY DEF Grows, CallTrue

LEMMA BrowserStays ==
  ASSUME Grows, ClaimType, BrowserTrue, UNCHANGED <<record, claimed>>
  PROVE  BrowserTrue'
<1>1. record = NoRecord \/ record.dep \in Deposits
  BY DEF ClaimType, BrowserType
<1>2. \A d \in claimed : d \in Deposits
  BY DEF ClaimType, BrowserType
<1> QED
  BY <1>1, <1>2 DEF Grows, BrowserTrue

\* A step behind the pages.
LEMMA BackstageKeeps ==
  ASSUME IInv, Grows, UNCHANGED call, UNCHANGED browserAll,
         DepositType', JobsType', \A d \in Deposits : DepositTrue(d)'
  PROVE  IInv'
<1>1. BrowserTrue'
  BY BrowserStays DEF IInv, browserAll
<1>2. \A p \in Pages : CallTrue(p)' /\ FlowTrue(p)'
  BY CallStays DEF IInv, FlowTrue, browserAll
<1>3. ClaimType'
  BY DEF IInv, ClaimType, CallType, FlowType, BrowserType, browserAll
<1> QED
  BY <1>1, <1>2, <1>3 DEF IInv

-----------------------------------------------------------------------------
(* Steps of a job *)

LEMMA JobIn ==
  ASSUME JobsType, NEW d \in Deposits, NEW j \in DOMAIN jobs[d]
  PROVE  jobs[d] \in Seq(Jobs) /\ j \in 1..Len(jobs[d]) /\ jobs[d][j] \in Jobs
  BY DEF JobsType

LEMMA OneJobChanges ==
  ASSUME JobsType, NEW d \in Deposits, NEW j \in DOMAIN jobs[d], NEW r \in Jobs,
         jobs' = [jobs EXCEPT ![d][j] = r]
  PROVE  /\ jobs' \in [Deposits -> Seq(Jobs)] /\ jobs'[d][j] = r
         /\ \A e \in Deposits : DOMAIN jobs'[e] = DOMAIN jobs[e]
                                /\ Len(jobs'[e]) = Len(jobs[e])
         /\ \A k \in DOMAIN jobs[d] \ {j} : jobs'[d][k] = jobs[d][k]
         /\ \A e \in Deposits \ {d} : jobs'[e] = jobs[e]
<1>1. jobs[d] \in Seq(Jobs) /\ j \in 1..Len(jobs[d])
  BY JobIn
<1>2. jobs'[d] = [jobs[d] EXCEPT ![j] = r] /\ \A e \in Deposits \ {d} : jobs'[e] = jobs[e]
  BY DEF JobsType
<1>3. /\ jobs'[d] \in Seq(Jobs) /\ Len(jobs'[d]) = Len(jobs[d])
      /\ \A k \in 1..Len(jobs[d]) : jobs'[d][k] = IF k = j THEN r ELSE jobs[d][k]
  BY <1>1, <1>2, ExceptSeq
<1>4. DOMAIN jobs[d] = 1..Len(jobs[d]) /\ DOMAIN jobs'[d] = 1..Len(jobs[d])
  BY <1>1, <1>3
<1>5. jobs' \in [Deposits -> Seq(Jobs)]
  BY <1>2, <1>3 DEF JobsType
<1> QED
  BY <1>1, <1>2, <1>3, <1>4, <1>5

\* A job goes on to r.  The first to get past the CSRN takes it, nobody follows.
LEMMA JobKeeps ==
  ASSUME IInv, NEW d \in Deposits, NEW j \in DOMAIN jobs[d], NEW r \in Jobs,
         jobs' = [jobs EXCEPT ![d][j] = r],
         UNCHANGED <<listed, call>>, UNCHANGED browserAll,
         current' \in [Deposits -> Nat],
         \A e \in Deposits : current'[e] \in {0, current[e]}, DepositType',
         \A e \in Deposits : /\ paid[e] = Amount[e] => paid'[e] = Amount[e]
                             /\ CsrnTaken(e) => CsrnTaken(e)'
                             /\ e \in dueAt' => e \in dueAt \/ paid'[e] = Amount[e],
         r.at \in PastCsrn =>
           jobs[d][j].at \in PastCsrn \/ (~CsrnTaken(d) /\ CsrnTaken(d)'),
         r.at \in {"closing", "paid", "done"} => paid'[d] = Amount[d]
  PROVE  IInv'
<1>1. /\ jobs' \in [Deposits -> Seq(Jobs)] /\ jobs'[d][j] = r
      /\ \A e \in Deposits : DOMAIN jobs'[e] = DOMAIN jobs[e]
                             /\ Len(jobs'[e]) = Len(jobs[e])
      /\ \A k \in DOMAIN jobs[d] \ {j} : jobs'[d][k] = jobs[d][k]
      /\ \A e \in Deposits \ {d} : jobs'[e] = jobs[e]
  BY OneJobChanges DEF IInv, ClaimType
<1>2. Grows
  BY <1>1 DEF Grows
<1>3. JobsType'
  BY <1>1 DEF IInv, ClaimType, JobsType
<1>4. ASSUME NEW e \in Deposits
      PROVE  DepositTrue(e)'
  <2>1. DepositTrue(e)
    BY DEF IInv
  <2>2. CASE e # d
    BY <1>1, <2>1, <2>2 DEF DepositTrue
  <2>3. CASE e = d
    <3>1. ASSUME NEW k \in DOMAIN jobs[d], jobs'[d][k].at \in PastCsrn
          PROVE  \/ jobs[d][k].at \in PastCsrn
                 \/ k = j /\ ~CsrnTaken(d) /\ CsrnTaken(d)'
      BY <1>1, <3>1
    <3>2. \A i, k \in DOMAIN jobs'[d] :
            jobs'[d][i].at \in PastCsrn /\ jobs'[d][k].at \in PastCsrn => i = k
      BY <1>1, <2>1, <2>3, <3>1 DEF DepositTrue
    <3>3. \A k \in DOMAIN jobs'[d] : jobs'[d][k].at \in PastCsrn => CsrnTaken(d)'
      BY <1>1, <2>1, <2>3, <3>1 DEF DepositTrue
    <3>4. \A k \in DOMAIN jobs'[d] :
            jobs'[d][k].at \in {"closing", "paid", "done"} => paid'[d] = Amount[d]
      BY <1>1, <2>1, <2>3 DEF DepositTrue
    <3> QED
      BY <2>1, <2>3, <3>2, <3>3, <3>4 DEF DepositTrue
  <2> QED
    BY <2>2, <2>3
<1> QED
  BY <1>2, <1>3, <1>4, BackstageKeeps

LEMMA GoesOn ==
  ASSUME JobsType, NEW d \in Deposits, NEW j \in DOMAIN jobs[d], NEW at \in JobAts,
         JobGoes(d, j, at)
  PROVE  \E r \in Jobs : r.at = at /\ jobs' = [jobs EXCEPT ![d][j] = r]
<1> DEFINE r == [jobs[d][j] EXCEPT !.at = at]
<1>1. r \in Jobs /\ r.at = at
  BY JobIn DEF Jobs
<1>2. jobs' = [jobs EXCEPT ![d][j] = r]
  BY DEF JobGoes
<1> QED
  BY <1>1, <1>2

\* A job goes on without having read or written anything at the CSRN or the Router.
LEMMA QuietJobKeeps ==
  ASSUME IInv, NEW d \in Deposits, NEW j \in DOMAIN jobs[d], NEW at \in JobAts,
         JobGoes(d, j, at), UNCHANGED <<routerVars, package, listed, current, gone, call>>,
         UNCHANGED browserAll, cached' \subseteq Deposits,
         served' \in {served, served \cup {d}},
         dueAt' \in {dueAt, dueAt \cup {d}},
         dueAt' # dueAt => paid[d] = Amount[d],
         at \in PastCsrn => jobs[d][j].at \in PastCsrn,
         at \in {"closing", "paid", "done"} => paid[d] = Amount[d]
  PROVE  IInv'
<1>1. PICK r \in Jobs : r.at = at /\ jobs' = [jobs EXCEPT ![d][j] = r]
  BY GoesOn DEF IInv, ClaimType
<1>2. DepositType'
  BY DEF IInv, ClaimType, DepositType, routerVars
<1>3. \A e \in Deposits : /\ paid[e] = Amount[e] => paid'[e] = Amount[e]
                          /\ CsrnTaken(e) => CsrnTaken(e)'
                          /\ e \in dueAt' => e \in dueAt \/ paid'[e] = Amount[e]
  BY DEF CsrnTaken, routerVars
<1>4. /\ current' \in [Deposits -> Nat] /\ \A e \in Deposits : current'[e] \in {0, current[e]}
  BY DEF IInv, ClaimType, JobsType
<1>5. paid' = paid
  BY DEF routerVars
<1> QED
  BY <1>1, <1>2, <1>3, <1>4, <1>5, JobKeeps

LEMMA FailedJobKeeps ==
  ASSUME IInv, NEW d \in Deposits, NEW j \in DOMAIN jobs[d], JobFails(d, j),
         UNCHANGED <<routerVars, package, listed, current, cached, dueAt, gone, call>>,
         UNCHANGED browserAll, served' \in {served, served \cup {d}}
  PROVE  IInv'
<1>1. PICK at \in {"error", "stuck"} : JobGoes(d, j, at)
  BY DEF JobFails
<1>2. at \in JobAts /\ at \notin PastCsrn
  BY DEF JobAts, PastCsrn
<1>3. cached' \subseteq Deposits
  BY DEF IInv, ClaimType, DepositType
<1> QED
  BY <1>1, <1>2, <1>3, QuietJobKeeps

LEMMA FetchCsrnKeeps ==
  ASSUME IInv, NEW d \in Deposits, NEW j \in DOMAIN jobs[d], FetchCsrn(d, j),
         UNCHANGED browserAll
  PROVE  IInv'
<1>1. UNCHANGED <<routerVars, package, listed, current, cached, dueAt, gone, call>>
  BY DEF FetchCsrn
<1>2. cached \subseteq Deposits /\ served \subseteq Deposits
  BY DEF IInv, ClaimType, DepositType
<1>3. CASE JobGoes(d, j, "error") /\ UNCHANGED served
  BY <1>1, <1>2, <1>3, QuietJobKeeps DEF JobAts, PastCsrn
<1>4. CASE JobFails(d, j) /\ served' \in {served, served \cup {d}}
  BY <1>1, <1>4, FailedJobKeeps
<1>5. ASSUME NEW at \in {"decrypt", "retrieve"}, JobGoes(d, j, at),
             d \notin served, package[d][1] # "zeroed", served' = served \cup {d}
      PROVE  IInv'
  <2>1. at \in JobAts
    BY DEF JobAts
  <2>2. PICK r \in Jobs : r.at = at /\ jobs' = [jobs EXCEPT ![d][j] = r]
    BY <1>5, <2>1, GoesOn DEF IInv, ClaimType
  <2>3. DepositType'
    BY <1>1, <1>2, <1>5 DEF IInv, ClaimType, DepositType, routerVars
  <2>4. \A e \in Deposits : /\ paid[e] = Amount[e] => paid'[e] = Amount[e]
                            /\ CsrnTaken(e) => CsrnTaken(e)'
                            /\ e \in dueAt' => e \in dueAt \/ paid'[e] = Amount[e]
    BY <1>1, <1>5 DEF CsrnTaken, routerVars
  <2>5. ~CsrnTaken(d) /\ CsrnTaken(d)'
    BY <1>5 DEF CsrnTaken
  <2>6. /\ current' \in [Deposits -> Nat]
        /\ \A e \in Deposits : current'[e] \in {0, current[e]}
    BY <1>1 DEF IInv, ClaimType, JobsType
  <2>7. UNCHANGED <<listed, call>>
    BY <1>1
  <2> QED
    BY <2>2, <2>3, <2>4, <2>5, <2>6, <2>7, JobKeeps
<1> QED
  BY <1>3, <1>4, <1>5 DEF FetchCsrn

LEMMA RetrieveKeeps ==
  ASSUME IInv, NEW d \in Deposits, NEW j \in DOMAIN jobs[d], Retrieve(d, j),
         UNCHANGED browserAll
  PROVE  IInv'
<1>1. /\ UNCHANGED <<routerVars, served, listed, current, dueAt, gone, call>>
      /\ jobs[d][j].at = "retrieve"
  BY DEF Retrieve, Job
<1>2. PICK i : i = jobs[d][j].next /\ i \in 1..StorageCount /\ jobs[d][j] \in Jobs
  BY JobIn DEF IInv, ClaimType, Jobs
<1>3. /\ package' \in [Deposits -> [1..StorageCount -> {"held", "served", "zeroed"}]]
      /\ \A e \in Deposits : package[e][1] = "zeroed" => package'[e][1] = "zeroed"
  <2>1. package \in [Deposits -> [1..StorageCount -> {"held", "served", "zeroed"}]]
    BY DEF IInv, ClaimType, DepositType
  <2>2. CASE package' = package
    BY <2>1, <2>2
  <2>3. CASE /\ package[d][i] = "held"
             /\ package' = [package EXCEPT ![d][i] = "served"]
    <3>1. 1 \in 1..StorageCount
      BY EgressAssumption
    <3>2. package'[d] = [package[d] EXCEPT ![i] = "served"]
          /\ \A e \in Deposits \ {d} : package'[e] = package[e]
      BY <2>1, <2>3
    <3>3. package[d][1] = "zeroed" => package'[d][1] = "zeroed"
      BY <1>2, <2>1, <2>3, <3>1, <3>2
    <3> QED
      BY <1>2, <2>1, <2>3, <3>2, <3>3
  <2> QED
    BY <1>2, <2>2, <2>3 DEF Retrieve
<1>4. cached' \subseteq Deposits
  BY DEF Retrieve, IInv, ClaimType, DepositType
<1>5. DepositType'
  BY <1>1, <1>3, <1>4 DEF IInv, ClaimType, DepositType, routerVars
<1>6. PICK got \in Nat :
        jobs' = [jobs EXCEPT ![d][j] =
          IF i < StorageCount THEN [@ EXCEPT !.next = i + 1, !.got = got]
          ELSE [NewJob EXCEPT !.at = IF got > 0 THEN "decrypt" ELSE "error"]]
  <2> DEFINE Goes(got) ==
        jobs' = [jobs EXCEPT ![d][j] =
          IF i < StorageCount THEN [@ EXCEPT !.next = i + 1, !.got = got]
          ELSE [NewJob EXCEPT !.at = IF got > 0 THEN "decrypt" ELSE "error"]]
  <2>1. PICK g \in Nat : g = jobs[d][j].got
    BY <1>2 DEF Jobs
  <2>2. Goes(g + (IF package[d][i] = "held" THEN 1 ELSE 0)) \/ Goes(g)
    BY <1>2, <2>1 DEF Retrieve
  <2>3. (IF package[d][i] = "held" THEN 1 ELSE 0) \in {0, 1}
    OBVIOUS
  <2>4. \A n \in {0, 1} : g + n \in Nat
    BY <2>1
  <2> HIDE DEF Goes
  <2>5. \E got \in Nat : Goes(got)
    BY <2>1, <2>2, <2>3, <2>4
  <2> QED
    BY <2>5 DEF Goes
<1>7. PICK r \in Jobs : /\ jobs' = [jobs EXCEPT ![d][j] = r]
                        /\ r.at \in {"retrieve", "decrypt", "error"}
  <2>1. CASE i < StorageCount
    <3> DEFINE r == [jobs[d][j] EXCEPT !.next = i + 1, !.got = got]
    <3>1. i + 1 \in 1..StorageCount
      BY <1>2, <2>1, EgressAssumption
    <3>2. r \in Jobs /\ r.at = "retrieve"
      BY <1>1, <1>2, <3>1 DEF Jobs
    <3>3. jobs' = [jobs EXCEPT ![d][j] = r]
      BY <1>6, <2>1
    <3> QED
      BY <3>2, <3>3
  <2>2. CASE ~(i < StorageCount)
    <3>1. PICK at \in {"decrypt", "error"} :
            at = IF got > 0 THEN "decrypt" ELSE "error"
      OBVIOUS
    <3> DEFINE r == [NewJob EXCEPT !.at = at]
    <3>2. 1 \in 1..StorageCount
      BY EgressAssumption
    <3>3. r \in Jobs /\ r.at \in {"retrieve", "decrypt", "error"}
      BY <3>2 DEF NewJob, Jobs, JobAts
    <3>4. jobs' = [jobs EXCEPT ![d][j] = r]
      BY <1>6, <2>2, <3>1
    <3> QED
      BY <3>3, <3>4
  <2> QED
    BY <2>1, <2>2
<1>8. \A e \in Deposits : /\ paid[e] = Amount[e] => paid'[e] = Amount[e]
                          /\ CsrnTaken(e) => CsrnTaken(e)'
                          /\ e \in dueAt' => e \in dueAt \/ paid'[e] = Amount[e]
  BY <1>1, <1>3 DEF CsrnTaken, routerVars
<1>9. /\ current' \in [Deposits -> Nat]
      /\ \A e \in Deposits : current'[e] \in {0, current[e]}
      /\ UNCHANGED <<listed, call>>
  BY <1>1 DEF IInv, ClaimType, JobsType
<1>10. jobs[d][j].at \in PastCsrn /\ r.at \notin {"closing", "paid", "done"}
  BY <1>1, <1>7 DEF PastCsrn
<1> QED
  BY <1>5, <1>7, <1>8, <1>9, <1>10, JobKeeps

LEMMA DecryptKeeps ==
  ASSUME IInv, NEW d \in Deposits, NEW j \in DOMAIN jobs[d], Decrypt(d, j),
         UNCHANGED browserAll
  PROVE  IInv'
<1>1. /\ UNCHANGED <<routerVars, storageVars, listed, current, cached, dueAt, gone, call>>
      /\ jobs[d][j].at = "decrypt"
  BY DEF Decrypt, Job
<1>2. CASE JobGoes(d, j, "finalize")
  <2>1. cached' \subseteq Deposits
    BY <1>1 DEF IInv, ClaimType, DepositType
  <2> QED
    BY <1>1, <1>2, <2>1, QuietJobKeeps DEF JobAts, PastCsrn, storageVars
<1>3. CASE JobFails(d, j)
  BY <1>1, <1>3, FailedJobKeeps DEF storageVars
<1> QED
  BY <1>2, <1>3 DEF Decrypt

LEMMA PayKeeps ==
  ASSUME IInv, NEW d \in Deposits, NEW j \in DOMAIN jobs[d], Pay(d, j),
         UNCHANGED browserAll
  PROVE  IInv'
<1>1. /\ UNCHANGED <<storageVars, listed, current, cached, dueAt, gone, call>>
      /\ jobs[d][j].at = "finalize"
  BY DEF Pay, Job
<1>2. cached' \subseteq Deposits
  BY <1>1 DEF IInv, ClaimType, DepositType
<1>3. CASE JobGoes(d, j, "error") /\ UNCHANGED routerVars
  BY <1>1, <1>2, <1>3, QuietJobKeeps DEF JobAts, PastCsrn, storageVars
<1>4. CASE JobFails(d, j) /\ UNCHANGED routerVars
  BY <1>1, <1>4, FailedJobKeeps DEF storageVars
<1>5. CASE Escrow!Pay(d) /\ JobGoes(d, j, "closing")
  <2>1. PICK r \in Jobs : r.at = "closing" /\ jobs' = [jobs EXCEPT ![d][j] = r]
    BY <1>5, GoesOn DEF IInv, ClaimType, JobAts
  <2>2. paid' = [paid EXCEPT ![d] = Amount[d]] /\ UNCHANGED <<stage, refunded>>
    BY <1>5 DEF Escrow!Pay
  <2>3. DepositType'
    BY <1>1, <1>2, <2>2 DEF IInv, ClaimType, DepositType, storageVars
  <2>4. \A e \in Deposits : /\ paid[e] = Amount[e] => paid'[e] = Amount[e]
                            /\ CsrnTaken(e) => CsrnTaken(e)'
                            /\ e \in dueAt' => e \in dueAt \/ paid'[e] = Amount[e]
    BY <1>1, <2>2 DEF CsrnTaken, storageVars, IInv, ClaimType, DepositType
  <2>5. /\ current' \in [Deposits -> Nat]
        /\ \A e \in Deposits : current'[e] \in {0, current[e]}
        /\ UNCHANGED <<listed, call>>
    BY <1>1 DEF IInv, ClaimType, JobsType
  <2>6. paid'[d] = Amount[d] /\ jobs[d][j].at \in PastCsrn
    BY <1>1, <2>2 DEF PastCsrn, IInv, ClaimType, DepositType
  <2> QED
    BY <2>1, <2>3, <2>4, <2>5, <2>6, JobKeeps
<1> QED
  BY <1>3, <1>4, <1>5 DEF Pay

LEMMA CloseDepositKeeps ==
  ASSUME IInv, NEW d \in Deposits, NEW j \in DOMAIN jobs[d], CloseDeposit(d, j),
         UNCHANGED browserAll
  PROVE  IInv'
<1>1. /\ UNCHANGED <<storageVars, listed, current, dueAt, gone, call>>
      /\ jobs[d][j].at = "closing" /\ cached' \in {cached, cached \ {d}}
      /\ stage' = [stage EXCEPT ![d] = "closed"] /\ UNCHANGED <<paid, refunded>>
  BY DEF CloseDeposit, Job, Escrow!Close
<1>2. PICK at \in {"paid", "stuck"} : JobGoes(d, j, at)
  BY DEF CloseDeposit
<1>3. PICK r \in Jobs : r.at = at /\ jobs' = [jobs EXCEPT ![d][j] = r]
  BY <1>2, GoesOn DEF IInv, ClaimType, JobAts
<1>4. DepositType'
  BY <1>1 DEF IInv, ClaimType, DepositType, storageVars
<1>5. \A e \in Deposits : /\ paid[e] = Amount[e] => paid'[e] = Amount[e]
                          /\ CsrnTaken(e) => CsrnTaken(e)'
                          /\ e \in dueAt' => e \in dueAt \/ paid'[e] = Amount[e]
  BY <1>1 DEF CsrnTaken, storageVars
<1>6. /\ current' \in [Deposits -> Nat]
      /\ \A e \in Deposits : current'[e] \in {0, current[e]}
      /\ UNCHANGED <<listed, call>>
  BY <1>1 DEF IInv, ClaimType, JobsType
<1>7. paid'[d] = Amount[d] /\ jobs[d][j].at \in PastCsrn
  BY <1>1 DEF PastCsrn, IInv, DepositTrue
<1> QED
  BY <1>3, <1>4, <1>5, <1>6, <1>7, JobKeeps

LEMMA FinishKeeps ==
  ASSUME IInv, NEW d \in Deposits, NEW j \in DOMAIN jobs[d], Finish(d, j),
         UNCHANGED browserAll
  PROVE  IInv'
<1>1. /\ UNCHANGED <<routerVars, storageVars, listed, current, cached, gone, call>>
      /\ jobs[d][j].at = "paid" /\ JobGoes(d, j, "done")
      /\ dueAt' = dueAt \cup {d}
  BY DEF Finish, Job
<1>2. paid[d] = Amount[d]
  BY <1>1 DEF IInv, DepositTrue
<1>3. cached' \subseteq Deposits
  BY <1>1 DEF IInv, ClaimType, DepositType
<1>4. "done" \in JobAts /\ jobs[d][j].at \in PastCsrn
  BY <1>1 DEF JobAts, PastCsrn
<1>5. UNCHANGED <<served, package>>
  BY <1>1 DEF storageVars
<1> QED
  BY <1>1, <1>2, <1>3, <1>4, <1>5, QuietJobKeeps

LEMMA EndJobKeeps ==
  ASSUME IInv, NEW d \in Deposits, NEW j \in DOMAIN jobs[d], EndJob(d, j),
         UNCHANGED browserAll
  PROVE  IInv'
<1>1. UNCHANGED <<routerVars, storageVars, listed, cached, dueAt, gone, call>>
  BY DEF EndJob
<1> DEFINE r == [jobs[d][j] EXCEPT !.ended = TRUE]
<1>2. r \in Jobs /\ r.at = jobs[d][j].at
  BY JobIn DEF IInv, ClaimType, Jobs
<1>3. jobs' = [jobs EXCEPT ![d][j] = r]
  BY DEF EndJob
<1> HIDE DEF r
<1>4. DepositType'
  BY <1>1 DEF IInv, ClaimType, DepositType, routerVars, storageVars
<1>5. \A e \in Deposits : /\ paid[e] = Amount[e] => paid'[e] = Amount[e]
                          /\ CsrnTaken(e) => CsrnTaken(e)'
                          /\ e \in dueAt' => e \in dueAt \/ paid'[e] = Amount[e]
  BY <1>1 DEF CsrnTaken, routerVars, storageVars
<1>6. /\ current' \in [Deposits -> Nat]
      /\ \A e \in Deposits : current'[e] \in {0, current[e]}
      /\ UNCHANGED <<listed, call>>
  BY <1>1 DEF EndJob, IInv, ClaimType, JobsType
<1>7. r.at \in {"closing", "paid", "done"} => paid'[d] = Amount[d]
  BY <1>1, <1>2 DEF IInv, DepositTrue, routerVars
<1> QED
  BY <1>2, <1>3, <1>4, <1>5, <1>6, <1>7, JobKeeps

\* Nothing that destroys itself makes room for another job at the CSRN.
LEMMA DestroyKeeps ==
  ASSUME IInv, NEW d \in Deposits, Destroy(d), UNCHANGED browserAll
  PROVE  IInv'
<1>1. UNCHANGED <<routerVars, jobs, listed, current, cached, dueAt, call>>
  BY DEF Destroy
<1>2. /\ package' \in [Deposits -> [1..StorageCount -> {"held", "served", "zeroed"}]]
      /\ served' \subseteq Deposits /\ gone' \subseteq Deposits
      /\ \A e \in Deposits : CsrnTaken(e) => CsrnTaken(e)'
  <2>1. /\ package \in [Deposits -> [1..StorageCount -> {"held", "served", "zeroed"}]]
        /\ served \subseteq Deposits /\ gone \subseteq Deposits
    BY DEF IInv, ClaimType, DepositType
  <2>2. CASE Zeroed(d) = 1..StorageCount
    BY <2>1, <2>2 DEF Destroy, CsrnTaken, storageVars
  <2>3. CASE Zeroed(d) # 1..StorageCount
    <3>1. PICK n : n = NextToZero(d)
      OBVIOUS
    <3>2. /\ package' = [package EXCEPT ![d][n] = "zeroed"]
          /\ served' = IF n = 1 THEN served \ {d} ELSE served
          /\ UNCHANGED gone
      BY <2>3, <3>1 DEF Destroy
    <3>3. 1 \in 1..StorageCount
      BY EgressAssumption
    <3>4. /\ package'[d] = [package[d] EXCEPT ![n] = "zeroed"]
          /\ \A e \in Deposits \ {d} : package'[e] = package[e]
      BY <2>1, <3>2
    <3>5. package' \in [Deposits -> [1..StorageCount -> {"held", "served", "zeroed"}]]
      BY <2>1, <3>2, <3>4
    <3>6. CsrnTaken(d) => CsrnTaken(d)'
      BY <2>1, <3>2, <3>3, <3>4 DEF CsrnTaken
    <3>7. \A e \in Deposits \ {d} : CsrnTaken(e) => CsrnTaken(e)'
      BY <3>2, <3>4 DEF CsrnTaken
    <3> QED
      BY <2>1, <3>2, <3>5, <3>6, <3>7
  <2> QED
    BY <2>2, <2>3
<1>3. Grows
  BY <1>1 DEF Grows, routerVars
<1>4. DepositType' /\ JobsType'
  BY <1>1, <1>2 DEF IInv, ClaimType, DepositType, JobsType, routerVars
<1>5. ASSUME NEW e \in Deposits
      PROVE  DepositTrue(e)'
  BY <1>1, <1>2 DEF IInv, DepositTrue, routerVars
<1> QED
  BY <1>1, <1>3, <1>4, <1>5, BackstageKeeps

LEMMA JobStepsKeep ==
  ASSUME IInv, NEW d \in Deposits, JobSteps(d) \/ Heartbeat(d)
  PROVE  IInv'
<1>1. UNCHANGED browserAll
  BY DEF JobSteps, Heartbeat, browserSame, browserAll, pageVars
<1> QED
  BY <1>1, FetchCsrnKeeps, RetrieveKeeps, DecryptKeeps, PayKeeps, CloseDepositKeeps,
     FinishKeeps, EndJobKeeps, DestroyKeeps DEF JobSteps, JobStep, Heartbeat

-----------------------------------------------------------------------------
(* Steps of a page and of its call *)

Call == [op : CallOps, dep : Deposits \cup {NoDeposit}, at : CallAts, job : Nat]
Flow == [pc : Pcs, dep : Deposits \cup {NoDeposit}, job : Nat,
         quarters : 0..MaxQuarters - 1]

Behind == <<routerVars, storageVars, i2Vars>>

Others(p) == \A q \in Pages \ {p} :
  /\ call'[q] = call[q] /\ flow'[q] = flow[q] /\ page'[q] = page[q]

LEMMA CallChanges ==
  ASSUME CallType, NEW p \in Pages, NEW c \in Call, call' = [call EXCEPT ![p] = c]
  PROVE  CallType' /\ call'[p] = c /\ \A q \in Pages \ {p} : call'[q] = call[q]
  BY DEF CallType, Call

LEMMA FlowChanges ==
  ASSUME FlowType, NEW p \in Pages, NEW f \in Flow, flow' = [flow EXCEPT ![p] = f]
  PROVE  FlowType' /\ flow'[p] = f /\ \A q \in Pages \ {p} : flow'[q] = flow[q]
  BY DEF FlowType, Flow

LEMMA PageIn ==
  ASSUME IInv, NEW p \in Pages
  PROVE  call[p] \in Call /\ flow[p] \in Flow /\ CallTrue(p) /\ FlowTrue(p)
  BY DEF IInv, ClaimType, CallType, FlowType, Call, Flow

LEMMA NothingCalled == NoCall \in Call /\ NoFlow \in Flow
  BY ClaimFlowAssumption DEF NoCall, NoFlow, Call, Flow, CallOps, CallAts, Pcs

\* A step of one page, with what it does to the canisters.
LEMMA PageKeeps ==
  ASSUME IInv, NEW p \in Pages, Grows, Others(p),
         DepositType', JobsType', \A d \in Deposits : DepositTrue(d)',
         CallType', FlowType', BrowserType', BrowserTrue', CallTrue(p)', FlowTrue(p)'
  PROVE  IInv'
<1>1. ASSUME NEW q \in Pages \ {p}
      PROVE  CallTrue(q)' /\ FlowTrue(q)'
  <2>1. CallTrue(q) /\ FlowTrue(q)
    BY PageIn
  <2>2. call'[q] = call[q] /\ flow'[q] = flow[q] /\ page'[q] = page[q]
    BY DEF Others
  <2>3. FlowTrue(q)'
    BY <2>1, <2>2 DEF FlowTrue
  <2> QED
    BY <2>1, <2>2, <2>3, CallStays
<1> QED
  BY <1>1 DEF IInv, ClaimType

\* A step of one page which leaves the canisters alone.
LEMMA ClientKeeps ==
  ASSUME IInv, NEW p \in Pages, UNCHANGED Behind, Others(p), CallType', FlowType',
         BrowserType', BrowserTrue', CallTrue(p)', FlowTrue(p)'
  PROVE  IInv'
<1>1. Grows
  BY DEF Grows, Behind, routerVars, i2Vars
<1>2. DepositType' /\ JobsType'
  BY DEF IInv, ClaimType, DepositType, JobsType, Behind, routerVars, storageVars, i2Vars
<1>3. \A d \in Deposits : DepositTrue(d)'
  BY DEF IInv, DepositTrue, CsrnTaken, Behind, routerVars, storageVars, i2Vars
<1> QED
  BY <1>1, <1>2, <1>3, PageKeeps

\* The record and the claims, when neither the Router nor the jobs change.
LEMMA BrowserAlone ==
  ASSUME IInv, UNCHANGED Behind, page' \in [Pages -> {"unopened", "open", "closed"}],
         key' \in [Pages -> BOOLEAN], UNCHANGED claimed, record' \in {record, NoRecord}
  PROVE  BrowserType' /\ BrowserTrue'
  BY DEF IInv, ClaimType, BrowserType, BrowserTrue, Behind, routerVars, i2Vars

LEMMA SameBrowser ==
  ASSUME IInv, UNCHANGED <<Behind, pageVars, claimed>>, record' \in {record, NoRecord}
  PROVE  BrowserType' /\ BrowserTrue'
  BY BrowserAlone DEF IInv, ClaimType, BrowserType, pageVars

\* A request goes out, by the program counter the page moves to.
LEMMA RequestKeeps ==
  ASSUME IInv, NEW p \in Pages, page[p] = "open", UNCHANGED <<Behind, page>>,
         BrowserType', BrowserTrue',
         NEW f \in Flow, flow' = [flow EXCEPT ![p] = f], f.dep \in Deposits,
         f.pc \notin {"idle", "pause"}, NEW j \in Nat,
         Request(p, CallOf(f.pc), f.dep, j)
  PROVE  IInv'
<1>1. FlowType' /\ flow'[p] = f /\ \A q \in Pages \ {p} : flow'[q] = flow[q]
  BY FlowChanges DEF IInv, ClaimType
<1>2. PICK op \in CallOps \ {"none"} : op = CallOf(f.pc) /\ op \in CallOps
  BY DEF CallOf, CallOps, Flow, Pcs
<1>3. PICK c \in Call : c = [op |-> op, dep |-> f.dep, at |-> "sent", job |-> j]
  BY <1>2 DEF Call, CallAts
<1>4. call' = [call EXCEPT ![p] = c]
  BY <1>2, <1>3 DEF Request
<1>5. CallType' /\ call'[p] = c /\ \A q \in Pages \ {p} : call'[q] = call[q]
  BY <1>4, CallChanges DEF IInv, ClaimType
<1>6. Others(p)
  BY <1>1, <1>5 DEF Others
<1>7. CallTrue(p)'
  BY <1>2, <1>3, <1>5 DEF CallTrue
<1>8. FlowTrue(p)'
  BY <1>1, <1>2, <1>3, <1>5 DEF FlowTrue
<1> QED
  BY <1>1, <1>5, <1>6, <1>7, <1>8, ClientKeeps

\* A page that waits for no call.
LEMMA QuietKeeps ==
  ASSUME IInv, NEW p \in Pages, UNCHANGED Behind, BrowserType', BrowserTrue',
         NEW f \in Flow, flow' = [flow EXCEPT ![p] = f],
         f.pc \in {"idle", "pause"}, f.pc = "pause" => f.dep \in Deposits,
         \A q \in Pages \ {p} : page'[q] = page[q],
         page'[p] # "open" => f.pc = "idle",
         call' = [call EXCEPT ![p] = NoCall]
  PROVE  IInv'
<1>1. FlowType' /\ flow'[p] = f /\ \A q \in Pages \ {p} : flow'[q] = flow[q]
  BY FlowChanges DEF IInv, ClaimType
<1>2. CallType' /\ call'[p] = NoCall /\ \A q \in Pages \ {p} : call'[q] = call[q]
  BY NothingCalled, CallChanges DEF IInv, ClaimType
<1>3. Others(p)
  BY <1>1, <1>2 DEF Others
<1>4. CallTrue(p)'
  BY <1>2 DEF CallTrue, NoCall
<1>5. FlowTrue(p)'
  BY <1>1, <1>2 DEF FlowTrue, CallOf, NoCall
<1> QED
  BY <1>1, <1>2, <1>3, <1>4, <1>5, ClientKeeps

\* claimDeposit ends.
LEMMA ThrowKeeps ==
  ASSUME IInv, NEW p \in Pages, Throw(p), UNCHANGED <<Behind, page>>,
         BrowserType', BrowserTrue'
  PROVE  IInv'
<1>1. NoFlow \in Flow /\ NoFlow.pc = "idle"
  BY NothingCalled DEF NoFlow
<1> HIDE DEF NoFlow
<1> QED
  BY <1>1, QuietKeeps DEF Throw

\* A canister answers, or its answer is lost.
LEMMA AnswerKeeps ==
  ASSUME IInv, NEW p \in Pages, call[p].op # "none", Grows, UNCHANGED browserAll,
         DepositType', JobsType', \A d \in Deposits : DepositTrue(d)',
         NEW a \in CallAts, NEW j \in Nat,
         call' = [call EXCEPT ![p].at = a, ![p].job = j],
         call[p].op = "start" /\ a = "ok" => j \in DOMAIN jobs'[call[p].dep],
         call[p].op = "status" /\ a = "done" => paid'[call[p].dep] = Amount[call[p].dep]
  PROVE  IInv'
<1>1. call[p] \in Call /\ CallTrue(p) /\ FlowTrue(p)
  BY PageIn
<1>2. PICK c \in Call : c = [call[p] EXCEPT !.at = a, !.job = j]
  BY <1>1 DEF Call
<1>3. call' = [call EXCEPT ![p] = c]
  BY <1>2 DEF IInv, ClaimType, CallType
<1>4. c.op = call[p].op /\ c.dep = call[p].dep /\ c.at = a /\ c.job = j
  BY <1>1, <1>2 DEF Call
<1>5. CallType' /\ call'[p] = c /\ \A q \in Pages \ {p} : call'[q] = call[q]
  BY <1>3, CallChanges DEF IInv, ClaimType
<1>6. Others(p)
  BY <1>5 DEF Others, browserAll
<1>7. CallTrue(p)'
  BY <1>1, <1>4, <1>5 DEF CallTrue
<1>8. FlowTrue(p)'
  <2>1. page[p] # "unopened"
    BY <1>1 DEF FlowTrue, NoCall
  <2> QED
    BY <1>1, <1>4, <1>5, <2>1 DEF FlowTrue, browserAll
<1>9. FlowType' /\ BrowserType'
  BY DEF IInv, ClaimType, FlowType, BrowserType, browserAll
<1>10. BrowserTrue'
  BY BrowserStays DEF IInv, browserAll
<1> QED
  BY <1>5, <1>6, <1>7, <1>8, <1>9, <1>10, PageKeeps

-----------------------------------------------------------------------------
(* The canisters *)

LEMMA SimpleAnswerKeeps ==
  ASSUME IInv, NEW p \in Pages, call[p].op # "none",
         UNCHANGED Behind, UNCHANGED browserAll,
         NEW a \in CallAts, Answer(p, a), call[p].op = "start" => a # "ok",
         call[p].op = "status" /\ a = "done" => paid[call[p].dep] = Amount[call[p].dep]
  PROVE  IInv'
<1>1. call[p] \in Call
  BY PageIn
<1>2. PICK j \in Nat : j = call[p].job
  BY <1>1 DEF Call
<1>3. call' = [call EXCEPT ![p].at = a, ![p].job = j]
  BY <1>1, <1>2 DEF Answer, Call, IInv, ClaimType, CallType
<1>4. Grows
  BY DEF Grows, Behind, routerVars, i2Vars
<1>5. DepositType' /\ JobsType'
  BY DEF IInv, ClaimType, DepositType, JobsType, Behind, routerVars, storageVars, i2Vars
<1>6. \A d \in Deposits : DepositTrue(d)'
  BY DEF IInv, DepositTrue, CsrnTaken, Behind, routerVars, storageVars, i2Vars
<1>7. paid' = paid
  BY DEF Behind, routerVars
<1> QED
  BY <1>3, <1>4, <1>5, <1>6, <1>7, AnswerKeeps

LEMMA SentIsCall ==
  ASSUME IInv, NEW p \in Pages, call[p].at # "none" \/ call[p].op # "none"
  PROVE  call[p].op # "none" /\ call[p].dep \in Deposits
  BY PageIn DEF CallTrue, NoCall

LEMMA QueriesKeep ==
  ASSUME IInv, NEW p \in Pages, UNCHANGED browserAll,
         \/ InfoExecute(p) \/ PackageExecute(p) \/ StatusExecute(p)
         \/ Refuse(p) \/ LoseAnswer(p)
  PROVE  IInv'
<1>1. UNCHANGED Behind
  BY DEF InfoExecute, PackageExecute, StatusExecute, Refuse, LoseAnswer, Behind
<1>2. call[p].op # "none" /\ call[p].dep \in Deposits
  <2>1. call[p].at = "sent" \/ call[p].op # "none"
    BY DEF InfoExecute, PackageExecute, StatusExecute, Refuse, LoseAnswer, At
  <2> QED
    BY <2>1, SentIsCall
<1>3. CASE \/ InfoExecute(p) \/ PackageExecute(p) \/ Refuse(p) \/ LoseAnswer(p)
  <2>1. PICK a \in CallAts : /\ Answer(p, a) /\ a # "done"
                             /\ call[p].op = "start" => a # "ok"
    <3>1. CASE InfoExecute(p)
      BY <3>1 DEF InfoExecute, At, CallAts
    <3>2. CASE PackageExecute(p)
      BY <3>2 DEF PackageExecute, At, CallAts
    <3>3. CASE Refuse(p)
      BY <3>3 DEF Refuse, CallAts
    <3>4. CASE LoseAnswer(p)
      BY <3>4 DEF LoseAnswer, CallAts
    <3> QED
      BY <1>3, <3>1, <3>2, <3>3, <3>4
  <2> QED
    BY <1>1, <1>2, <2>1, SimpleAnswerKeeps
<1>4. CASE StatusExecute(p)
  <2>1. PICK d, j : d = call[p].dep /\ j = call[p].job /\ d \in Deposits
    BY <1>2
  <2>2. PICK a : a = IF j \in listed[d] THEN JobStatus(jobs[d][j]) ELSE "missing"
    OBVIOUS
  <2>3. Answer(p, a) /\ call[p].op = "status"
    BY <1>4, <2>1, <2>2 DEF StatusExecute, At
  <2>4. a \in CallAts
    BY <2>2 DEF JobStatus, CallAts
  <2>5. a = "done" => j \in listed[d] /\ jobs[d][j].at = "done"
    BY <2>2 DEF JobStatus
  <2>6. j \in listed[d] => j \in DOMAIN jobs[d]
    BY <2>1 DEF IInv, ClaimType, JobsType
  <2>7. a = "done" => paid[d] = Amount[d]
    BY <2>1, <2>5, <2>6 DEF IInv, DepositTrue
  <2> QED
    BY <1>1, <1>2, <2>1, <2>3, <2>4, <2>7, SimpleAnswerKeeps
<1> QED
  BY <1>3, <1>4

\* A new job has not been anywhere yet.
LEMMA StartKeeps ==
  ASSUME IInv, NEW p \in Pages, StartExecute(p), UNCHANGED browserAll
  PROVE  IInv'
<1>1. UNCHANGED <<routerVars, storageVars, cached, dueAt, gone>> /\ At(p, "start")
  BY DEF StartExecute
<1>2. call[p].op # "none" /\ call[p].dep \in Deposits /\ call[p].op = "start"
  BY <1>1, SentIsCall DEF At
<1>3. PICK d : d = call[p].dep /\ d \in Deposits
  BY <1>2
<1>4. PICK n \in Nat : n = Len(jobs[d]) /\ jobs[d] \in Seq(Jobs) /\ DOMAIN jobs[d] = 1..n
  BY <1>3 DEF IInv, ClaimType, JobsType
<1>5. DepositType'
  BY <1>1 DEF IInv, ClaimType, DepositType, routerVars, storageVars
<1>6. PICK failed : failed = {current[d]} \cap {j \in listed[d] : jobs[d][j].at = "error"}
  OBVIOUS
<1>7. CASE /\ current[d] \in listed[d] \ failed
           /\ call' = [call EXCEPT ![p].at = "ok", ![p].job = current[d]]
           /\ UNCHANGED <<jobs, listed, current>>
  <2>1. PICK j \in Nat : j = current[d] /\ j \in DOMAIN jobs[d]
    BY <1>3, <1>7 DEF IInv, ClaimType, JobsType
  <2>2. Grows
    BY <1>1, <1>7 DEF Grows, routerVars
  <2>3. JobsType' /\ \A e \in Deposits : DepositTrue(e)'
    BY <1>1, <1>7 DEF IInv, ClaimType, JobsType, DepositTrue, CsrnTaken,
                      routerVars, storageVars
  <2>4. "ok" \in CallAts
    BY DEF CallAts
  <2>5. j \in DOMAIN jobs'[call[p].dep]
    BY <1>3, <1>7, <2>1
  <2>6. call' = [call EXCEPT ![p].at = "ok", ![p].job = j]
    BY <1>7, <2>1
  <2> QED
    BY <1>2, <1>5, <2>2, <2>3, <2>4, <2>5, <2>6, AnswerKeeps
<1>8. CASE /\ n + 1 <= MaxJobs
           /\ call' = [call EXCEPT ![p].at = "ok", ![p].job = n + 1]
           /\ jobs' = [jobs EXCEPT ![d] = Append(@, NewJob)]
           /\ listed' = [listed EXCEPT ![d] = (@ \ failed) \cup {n + 1}]
           /\ current' = [current EXCEPT ![d] = n + 1]
  <2>1. NewJob \in Jobs /\ NewJob.at \notin PastCsrn
    BY EgressAssumption DEF NewJob, Jobs, JobAts, PastCsrn
  <2> HIDE DEF NewJob
  <2>2. /\ jobs'[d] = Append(jobs[d], NewJob)
        /\ \A e \in Deposits \ {d} : jobs'[e] = jobs[e]
    BY <1>3, <1>8 DEF IInv, ClaimType, JobsType
  <2>3. /\ jobs'[d] \in Seq(Jobs) /\ Len(jobs'[d]) = n + 1
        /\ \A i \in 1..n : jobs'[d][i] = jobs[d][i]
        /\ jobs'[d][n + 1] = NewJob
    BY <1>4, <2>1, <2>2, AppendProperties
  <2>4. DOMAIN jobs'[d] = 1..(n + 1) /\ 1..(n + 1) = 1..n \cup {n + 1}
    BY <1>4, <2>3
  <2>5. Grows
    BY <1>1, <1>4, <2>2, <2>4 DEF Grows, routerVars
  <2>6. JobsType'
    <3>1. jobs' \in [Deposits -> Seq(Jobs)]
      BY <1>3, <1>8, <2>2, <2>3 DEF IInv, ClaimType, JobsType
    <3>2. /\ listed' \in [Deposits -> SUBSET Nat]
          /\ listed'[d] \subseteq listed[d] \cup {n + 1}
          /\ \A e \in Deposits \ {d} : listed'[e] = listed[e]
      BY <1>3, <1>4, <1>8 DEF IInv, ClaimType, JobsType
    <3>3. /\ current' \in [Deposits -> Nat] /\ current'[d] = n + 1
          /\ \A e \in Deposits \ {d} : current'[e] = current[e]
      <4>1. current \in [Deposits -> Nat] /\ n + 1 \in Nat
        BY <1>3, <1>4 DEF IInv, ClaimType, JobsType
      <4>2. current' = [current EXCEPT ![d] = n + 1]
        BY <1>8
      <4> QED
        BY <1>3, <4>1, <4>2
    <3>4. /\ Len(jobs'[d]) <= MaxJobs /\ listed'[d] \subseteq DOMAIN jobs'[d]
          /\ current'[d] \in {0} \cup DOMAIN jobs'[d]
      <4>1. Len(jobs'[d]) <= MaxJobs
        BY <1>8, <2>3
      <4>2. listed[d] \subseteq 1..n
        BY <1>3, <1>4 DEF IInv, ClaimType, JobsType
      <4>3. listed'[d] \subseteq 1..n \cup {n + 1}
        BY <3>2, <4>2, Zenon
      <4>4. current'[d] \in 1..n \cup {n + 1}
        BY <3>3, Zenon
      <4> QED
        BY <2>4, <4>1, <4>3, <4>4, Zenon
    <3>5. \A e \in Deposits \ {d} :
            /\ Len(jobs'[e]) <= MaxJobs /\ listed'[e] \subseteq DOMAIN jobs'[e]
            /\ current'[e] \in {0} \cup DOMAIN jobs'[e]
      BY <2>2, <3>2, <3>3 DEF IInv, ClaimType, JobsType
    <3> QED
      BY <3>1, <3>2, <3>3, <3>4, <3>5 DEF JobsType
  <2>7. ASSUME NEW e \in Deposits
        PROVE  DepositTrue(e)'
    <3>1. DepositTrue(e)
      BY DEF IInv
    <3>2. CASE e # d
      BY <1>1, <2>2, <3>1, <3>2 DEF DepositTrue, CsrnTaken, routerVars, storageVars
    <3>3. CASE e = d
      <4>1. \A i \in DOMAIN jobs'[d] : jobs'[d][i].at \in PastCsrn =>
              i \in DOMAIN jobs[d] /\ jobs'[d][i] = jobs[d][i]
        BY <1>4, <2>1, <2>3, <2>4
      <4>2. \A at : at \in {"closing", "paid", "done"} => at \in PastCsrn
        BY DEF PastCsrn
      <4> QED
        BY <1>1, <3>1, <3>3, <4>1, <4>2 DEF DepositTrue, CsrnTaken, routerVars, storageVars
    <3> QED
      BY <3>2, <3>3
  <2>8. "ok" \in CallAts /\ n + 1 \in Nat
    BY DEF CallAts
  <2>9. n + 1 \in DOMAIN jobs'[call[p].dep]
    BY <1>3, <2>4
  <2> QED
    BY <1>2, <1>5, <1>8, <2>5, <2>6, <2>7, <2>8, <2>9, AnswerKeeps
<1> QED
  BY <1>3, <1>4, <1>6, <1>7, <1>8 DEF StartExecute

LEMMA ResetKeeps ==
  ASSUME IInv, NEW p \in Pages, ResetExecute(p), UNCHANGED browserAll
  PROVE  IInv'
<1>1. UNCHANGED <<routerVars, storageVars, jobs, cached, dueAt, gone>> /\ At(p, "reset")
  BY DEF ResetExecute
<1>2. call[p].op # "none" /\ call[p].dep \in Deposits /\ call[p].op = "reset"
  BY <1>1, SentIsCall DEF At
<1>3. PICK d : d = call[p].dep /\ d \in Deposits
  BY <1>2
<1>4. PICK a \in {"ok", "err"} : Answer(p, a)
  BY DEF ResetExecute
<1>5. /\ listed' = listed \/ \E c : listed' = [listed EXCEPT ![d] = @ \ {c}]
      /\ current' = current \/ current' = [current EXCEPT ![d] = 0]
  BY <1>3 DEF ResetExecute
<1>6. JobsType'
  <2>1. JobsType
    BY DEF IInv, ClaimType
  <2>2. listed \in [Deposits -> SUBSET Nat] /\ current \in [Deposits -> Nat]
    BY <2>1 DEF JobsType
  <2>3. /\ listed' \in [Deposits -> SUBSET Nat]
        /\ \A e \in Deposits : listed'[e] \subseteq listed[e]
    <3>1. ASSUME NEW c, listed' = [listed EXCEPT ![d] = @ \ {c}]
          PROVE  /\ listed' \in [Deposits -> SUBSET Nat]
                 /\ \A e \in Deposits : listed'[e] \subseteq listed[e]
      BY <1>3, <2>2, <3>1
    <3> QED
      BY <1>5, <2>2, <3>1
  <2>4. /\ current' \in [Deposits -> Nat]
        /\ \A e \in Deposits : current'[e] \in {0, current[e]}
    <3>1. CASE current' = [current EXCEPT ![d] = 0]
      BY <1>3, <2>2, <3>1
    <3> QED
      BY <1>5, <2>2, <3>1
  <2> QED
    BY <1>1, <2>1, <2>3, <2>4 DEF JobsType
<1>7. Grows
  BY <1>1 DEF Grows, routerVars
<1>8. DepositType'
  BY <1>1 DEF IInv, ClaimType, DepositType, routerVars, storageVars
<1>9. \A e \in Deposits : DepositTrue(e)'
  BY <1>1 DEF IInv, DepositTrue, CsrnTaken, routerVars, storageVars
<1>10. PICK j \in Nat : j = call[p].job
  BY PageIn DEF Call
<1>11. call' = [call EXCEPT ![p].at = a, ![p].job = j]
  BY <1>4, <1>10, PageIn DEF Answer, Call, IInv, ClaimType, CallType
<1>12. a \in CallAts
  BY <1>4 DEF CallAts
<1> QED
  BY <1>2, <1>4, <1>6, <1>7, <1>8, <1>9, <1>11, <1>12, AnswerKeeps

LEMMA CanistersKeep ==
  ASSUME IInv, NEW p \in Pages, Canisters(p) \/ (LoseAnswer(p) /\ browserSame)
  PROVE  IInv'
<1>1. UNCHANGED browserAll
  BY DEF Canisters, browserSame, browserAll, pageVars
<1> QED
  BY <1>1, QueriesKeep, StartKeeps, ResetKeeps DEF Canisters, Execute

-----------------------------------------------------------------------------
(* claimDeposit *)

LEMMA AskKeeps ==
  ASSUME IInv, NEW p \in Pages, page[p] = "open", UNCHANGED <<Behind, page>>,
         BrowserType', BrowserTrue',
         flow[p].pc # "idle", NEW pc \in Pcs \ {"idle", "pause"}, NEW op,
         op = CallOf(pc), Ask(p, pc, op)
  PROVE  IInv'
<1>1. flow[p] \in Flow /\ flow[p].dep \in Deposits
  BY PageIn DEF FlowTrue
<1>2. PICK f \in Flow : f = [flow[p] EXCEPT !.pc = pc]
  BY <1>1 DEF Flow
<1>3. flow' = [flow EXCEPT ![p] = f]
  BY <1>2 DEF Ask, IInv, ClaimType, FlowType
<1>4. f.pc = pc /\ f.dep = flow[p].dep /\ flow[p].job \in Nat
  BY <1>1, <1>2 DEF Flow
<1>5. PICK j \in Nat : j = flow[p].job
  BY <1>4
<1>6. Request(p, CallOf(f.pc), f.dep, j)
  BY <1>4, <1>5 DEF Ask
<1> QED
  BY <1>1, <1>3, <1>4, <1>6, RequestKeeps

LEMMA PollKeeps ==
  ASSUME IInv, NEW p \in Pages, page[p] = "open", UNCHANGED <<Behind, page>>,
         BrowserType', BrowserTrue', flow[p].pc # "idle", NEW j \in Nat, Poll(p, j)
  PROVE  IInv'
<1>1. flow[p] \in Flow /\ flow[p].dep \in Deposits
  BY PageIn DEF FlowTrue
<1>2. PICK f \in Flow : f = [flow[p] EXCEPT !.pc = "poll", !.job = j]
  BY <1>1 DEF Flow, Pcs
<1>3. flow' = [flow EXCEPT ![p] = f]
  BY <1>1, <1>2 DEF Poll, IInv, ClaimType, FlowType, Flow
<1>4. f.pc = "poll" /\ f.dep = flow[p].dep
  BY <1>1, <1>2 DEF Flow
<1>5. CallOf(f.pc) = "status"
  BY <1>4 DEF CallOf
<1>6. Request(p, CallOf(f.pc), f.dep, j)
  BY <1>4, <1>5 DEF Poll
<1> QED
  BY <1>1, <1>3, <1>4, <1>6, RequestKeeps

LEMMA PageStepMeans ==
  ASSUME PageStep
  PROVE  UNCHANGED Behind /\ UNCHANGED page /\ UNCHANGED pageVars
  BY DEF PageStep, Behind, pageVars

LEMMA ClaimKeeps ==
  ASSUME IInv, NEW p \in Pages, NEW d \in Deposits, Claim(p, d)
  PROVE  IInv'
<1>1. UNCHANGED <<Behind, page>> /\ page[p] = "open" /\ UNCHANGED <<record, claimed, pageVars>>
  BY PageStepMeans DEF Claim, Waits
<1>2. BrowserType' /\ BrowserTrue'
  BY <1>1, SameBrowser
<1>3. PICK f \in Flow : f = [NoFlow EXCEPT !.pc = "info", !.dep = d]
  BY NothingCalled DEF Flow, Pcs
<1>4. f.pc = "info" /\ f.dep = d
  BY <1>3, NothingCalled DEF Flow
<1>5. CallOf(f.pc) = "info"
  BY <1>4 DEF CallOf
<1>6. flow' = [flow EXCEPT ![p] = f] /\ Request(p, CallOf(f.pc), f.dep, 0)
  BY <1>3, <1>4, <1>5 DEF Claim
<1>7. 0 \in Nat
  OBVIOUS
<1> QED
  BY <1>1, <1>2, <1>4, <1>6, <1>7, RequestKeeps

LEMMA InfoKnownKeeps ==
  ASSUME IInv, NEW p \in Pages, InfoKnown(p)
  PROVE  IInv'
<1>1. UNCHANGED <<Behind, page>> /\ page[p] = "open" /\ UNCHANGED <<record, claimed, pageVars>>
  BY PageStepMeans DEF InfoKnown, Answered, Waits
<1>2. BrowserType' /\ BrowserTrue'
  BY <1>1, SameBrowser
<1>3. flow[p].pc # "idle" /\ Ask(p, "package", "package")
  BY DEF InfoKnown, Answered, Waits
<1>4. "package" \in Pcs \ {"idle", "pause"} /\ CallOf("package") = "package"
  BY DEF Pcs, CallOf
<1> QED
  BY <1>1, <1>2, <1>3, <1>4, AskKeeps

LEMMA OpenedKeeps ==
  ASSUME IInv, NEW p \in Pages, Opened(p)
  PROVE  IInv'
<1>1. UNCHANGED <<Behind, page>> /\ page[p] = "open" /\ UNCHANGED <<claimed, pageVars>>
      /\ flow[p].pc # "idle"
  BY PageStepMeans DEF Opened, Answered, Waits
<1>2. BrowserType' /\ BrowserTrue'
  BY <1>1, SameBrowser DEF Opened
<1>3. CASE Resumes(p, flow[p].dep) /\ Poll(p, record.job)
  <2>1. flow[p].dep \in Deposits
    BY <1>1, PageIn DEF FlowTrue
  <2>2. record # NoRecord
    BY <1>3, <2>1, EgressAssumption DEF Resumes, NoRecord
  <2>3. record.job \in Nat
    BY <2>2 DEF IInv, ClaimType, BrowserType
  <2> QED
    BY <1>1, <1>2, <1>3, <2>3, PollKeeps
<1>4. CASE Ask(p, "start", "start")
  <2>1. "start" \in Pcs \ {"idle", "pause"} /\ CallOf("start") = "start"
    BY DEF Pcs, CallOf
  <2> QED
    BY <1>1, <1>2, <1>4, <2>1, AskKeeps
<1> QED
  BY <1>3, <1>4 DEF Opened

\* A page that has been given a job records one of its deposit.
LEMMA SaveIsTrue ==
  ASSUME IInv, NEW p \in Pages, page[p] = "open", flow[p].pc \in {"start", "restart"},
         call[p].at = "ok", UNCHANGED <<Behind, pageVars, claimed>>
  PROVE  call[p].job \in Nat /\ (Save(p) => BrowserType' /\ BrowserTrue')
<1>1. /\ call[p] \in Call /\ CallTrue(p) /\ call[p].op = "start"
      /\ call[p].dep = flow[p].dep /\ flow[p].dep \in Deposits
  BY PageIn DEF FlowTrue, CallOf
<1>2. call[p].job \in DOMAIN jobs[flow[p].dep] /\ call[p].job \in Nat
  BY <1>1 DEF CallTrue, Call
<1>3. ASSUME Save(p)
      PROVE  BrowserType' /\ BrowserTrue'
  <2>1. record' \in [dep : Deposits, job : Nat]
        /\ record'.job \in DOMAIN jobs[record'.dep]
    BY <1>1, <1>2, <1>3 DEF Save
  <2> QED
    BY <2>1 DEF IInv, ClaimType, BrowserType, BrowserTrue, Behind, routerVars, i2Vars,
                pageVars
<1> QED
  BY <1>2, <1>3

LEMMA StartedKeeps ==
  ASSUME IInv, NEW p \in Pages, Started(p)
  PROVE  IInv'
<1>1. UNCHANGED <<Behind, page>> /\ page[p] = "open" /\ UNCHANGED <<claimed, pageVars>>
      /\ flow[p].pc = "start" /\ call[p].at = "ok"
  BY PageStepMeans DEF Started, Answered, Waits
<1>2. CASE Save(p) /\ Poll(p, call[p].job)
  <2>1. call[p].job \in Nat /\ BrowserType' /\ BrowserTrue'
    BY <1>1, <1>2, SaveIsTrue
  <2> QED
    BY <1>1, <1>2, <2>1, PollKeeps
<1>3. CASE Throw(p) /\ UNCHANGED record
  <2>1. BrowserType' /\ BrowserTrue'
    BY <1>1, <1>3, SameBrowser
  <2> QED
    BY <1>1, <1>3, <2>1, ThrowKeeps
<1> QED
  BY <1>2, <1>3 DEF Started

LEMMA PollAgainKeeps ==
  ASSUME IInv, NEW p \in Pages, PollAgain(p)
  PROVE  IInv'
<1>1. UNCHANGED <<Behind, page>> /\ page[p] = "open" /\ UNCHANGED <<record, claimed, pageVars>>
      /\ flow[p].pc # "idle"
  BY DEF PollAgain, Waits, Behind, pageVars
<1>2. BrowserType' /\ BrowserTrue'
  BY <1>1, SameBrowser
<1>3. CASE Ask(p, "poll", "status")
  <2>1. "poll" \in Pcs \ {"idle", "pause"} /\ CallOf("poll") = "status"
    BY DEF Pcs, CallOf
  <2> QED
    BY <1>1, <1>2, <1>3, <2>1, AskKeeps
<1>4. CASE Throw(p)
  BY <1>1, <1>2, <1>4, ThrowKeeps
<1>5. PICK q \in Nat : q = flow[p].quarters + 1
  BY PageIn, ClaimFlowAssumption DEF Flow
<1>6. PICK pc \in {"reset", "poll"} : pc = IF q = ResetThreshold THEN "reset" ELSE "poll"
  OBVIOUS
<1>7. CASE /\ q < MaxQuarters
           /\ flow' = [flow EXCEPT ![p].quarters = q, ![p].pc = pc]
           /\ Request(p, IF q = ResetThreshold THEN "reset" ELSE "status",
                      flow[p].dep, flow[p].job)
  <2>1. flow[p] \in Flow /\ flow[p].dep \in Deposits
    BY <1>1, PageIn DEF FlowTrue
  <2>2. q \in 0..MaxQuarters - 1
    BY <1>5, <1>7, ClaimFlowAssumption
  <2>3. PICK f \in Flow : f = [flow[p] EXCEPT !.quarters = q, !.pc = pc]
    BY <2>1, <2>2 DEF Flow, Pcs
  <2>4. f.pc = pc /\ f.dep = flow[p].dep
    BY <2>1, <2>3 DEF Flow
  <2>5. flow' = [flow EXCEPT ![p] = f]
    BY <1>7, <2>1, <2>3 DEF IInv, ClaimType, FlowType, Flow
  <2>6. CallOf(f.pc) = IF q = ResetThreshold THEN "reset" ELSE "status"
    BY <1>6, <2>4 DEF CallOf
  <2>7. PICK j \in Nat : j = flow[p].job
    BY <2>1 DEF Flow
  <2>8. Request(p, CallOf(f.pc), f.dep, j)
    BY <1>7, <2>4, <2>6, <2>7
  <2> QED
    BY <1>1, <1>2, <2>1, <2>4, <2>5, <2>8, RequestKeeps
<1> QED
  BY <1>3, <1>4, <1>5, <1>6, <1>7 DEF PollAgain

LEMMA ResetAnsweredKeeps ==
  ASSUME IInv, NEW p \in Pages, ResetAnswered(p)
  PROVE  IInv'
<1>1. UNCHANGED <<Behind, page>> /\ page[p] = "open" /\ UNCHANGED <<record, claimed, pageVars>>
      /\ flow[p].pc # "idle"
  BY PageStepMeans DEF ResetAnswered, Waits
<1>2. BrowserType' /\ BrowserTrue'
  BY <1>1, SameBrowser
<1>3. CASE Ask(p, "restart", "start")
  <2>1. "restart" \in Pcs \ {"idle", "pause"} /\ CallOf("restart") = "start"
    BY DEF Pcs, CallOf
  <2> QED
    BY <1>1, <1>2, <1>3, <2>1, AskKeeps
<1>4. CASE Poll(p, flow[p].job)
  <2>1. flow[p].job \in Nat
    BY PageIn DEF Flow
  <2> QED
    BY <1>1, <1>2, <1>4, <2>1, PollKeeps
<1> QED
  BY <1>3, <1>4 DEF ResetAnswered

LEMMA RestartedKeeps ==
  ASSUME IInv, NEW p \in Pages, Restarted(p)
  PROVE  IInv'
<1>1. UNCHANGED <<Behind, page>> /\ page[p] = "open" /\ UNCHANGED <<claimed, pageVars>>
      /\ flow[p].pc = "restart"
  BY PageStepMeans DEF Restarted, Waits
<1>2. CASE call[p].at = "ok" /\ Poll(p, call[p].job) /\ (Save(p) \/ UNCHANGED record)
  <2>1. call[p].job \in Nat /\ (Save(p) => BrowserType' /\ BrowserTrue')
    BY <1>1, <1>2, SaveIsTrue
  <2>2. UNCHANGED record => BrowserType' /\ BrowserTrue'
    BY <1>1, SameBrowser
  <2>3. BrowserType' /\ BrowserTrue'
    BY <1>2, <2>1, <2>2
  <2> QED
    BY <1>1, <1>2, <2>1, <2>3, PollKeeps
<1>3. CASE Poll(p, flow[p].job) /\ UNCHANGED record
  <2>1. flow[p].job \in Nat
    BY PageIn DEF Flow
  <2>2. BrowserType' /\ BrowserTrue'
    BY <1>1, <1>3, SameBrowser
  <2> QED
    BY <1>1, <1>3, <2>1, <2>2, PollKeeps
<1> QED
  BY <1>2, <1>3 DEF Restarted

\* "done" has been heard from the job itself.
LEMMA PolledKeeps ==
  ASSUME IInv, NEW p \in Pages, Polled(p)
  PROVE  IInv'
<1>1. UNCHANGED <<Behind, page>> /\ page[p] = "open" /\ UNCHANGED pageVars
      /\ flow[p].pc = "poll"
  BY PageStepMeans DEF Polled, Waits
<1>2. flow[p] \in Flow /\ flow[p].dep \in Deposits /\ call[p].op = "status"
      /\ call[p].dep = flow[p].dep /\ CallTrue(p)
  BY <1>1, PageIn DEF FlowTrue, CallOf
<1>3. CASE /\ UNCHANGED <<record, claimed>>
           /\ flow' = [flow EXCEPT ![p].pc = "pause"] /\ call' = [call EXCEPT ![p] = NoCall]
  <2>1. BrowserType' /\ BrowserTrue'
    BY <1>1, <1>3, SameBrowser
  <2>2. PICK f \in Flow : f = [flow[p] EXCEPT !.pc = "pause"]
    BY <1>2 DEF Flow, Pcs
  <2>3. f.pc = "pause" /\ f.dep \in Deposits
    BY <1>2, <2>2 DEF Flow
  <2>4. flow' = [flow EXCEPT ![p] = f]
    BY <1>3, <2>2 DEF IInv, ClaimType, FlowType
  <2> QED
    BY <1>1, <1>3, <2>1, <2>3, <2>4, QuietKeeps
<1>4. CASE /\ record' = NoRecord /\ Throw(p)
           /\ claimed' = IF call[p].at = "done" /\ key[p]
                         THEN claimed \cup {flow[p].dep} ELSE claimed
  <2>1. BrowserType'
    BY <1>1, <1>2, <1>4 DEF IInv, ClaimType, BrowserType, pageVars
  <2>2. \A d \in claimed' : paid[d] = Amount[d]
    BY <1>2, <1>4 DEF CallTrue, IInv, BrowserTrue
  <2>3. BrowserTrue'
    BY <1>1, <1>4, <2>2 DEF BrowserTrue, Behind, routerVars
  <2> QED
    BY <1>1, <1>4, <2>1, <2>3, ThrowKeeps
<1> QED
  BY <1>3, <1>4 DEF Polled

LEMMA FailKeeps ==
  ASSUME IInv, NEW p \in Pages, Fail(p) \/ Expired(p)
  PROVE  IInv'
<1>1. UNCHANGED <<Behind, page>> /\ UNCHANGED <<record, claimed, pageVars>> /\ Throw(p)
  BY PageStepMeans DEF Fail, Expired, Behind, pageVars
<1>2. BrowserType' /\ BrowserTrue'
  BY <1>1, SameBrowser
<1> QED
  BY <1>1, <1>2, ThrowKeeps

-----------------------------------------------------------------------------
(* The browser *)

LEMMA NobodyMoves ==
  ASSUME IInv, UNCHANGED <<Behind, page, flow, call>>, BrowserType', BrowserTrue'
  PROVE  IInv'
<1>1. DepositType' /\ JobsType'
  BY DEF IInv, ClaimType, DepositType, JobsType, Behind, routerVars, storageVars, i2Vars
<1>2. \A d \in Deposits : DepositTrue(d)'
  BY DEF IInv, DepositTrue, CsrnTaken, Behind, routerVars, storageVars, i2Vars
<1>3. CallType' /\ FlowType'
  BY DEF IInv, ClaimType, CallType, FlowType
<1>4. \A p \in Pages : CallTrue(p)' /\ FlowTrue(p)'
  BY DEF IInv, CallTrue, FlowTrue, Behind, routerVars, i2Vars
<1> QED
  BY <1>1, <1>2, <1>3, <1>4 DEF IInv, ClaimType

LEMMA OpenKeeps ==
  ASSUME IInv, NEW p \in Pages, Open(p)
  PROVE  IInv'
<1>1. /\ page[p] = "unopened" /\ page' = [page EXCEPT ![p] = "open"]
      /\ UNCHANGED Behind /\ UNCHANGED <<flow, call, record, claimed>>
  BY DEF Open, browserStep, Behind
<1>2. BrowserType' /\ BrowserTrue'
  BY <1>1, BrowserAlone DEF Open, IInv, ClaimType, BrowserType
<1>3. CallType' /\ FlowType' /\ page'[p] = "open" /\ Others(p)
  BY <1>1 DEF IInv, ClaimType, CallType, FlowType, BrowserType, Others
<1>4. call[p] = NoCall /\ flow[p].pc = "idle"
  BY <1>1, PageIn DEF FlowTrue
<1>5. CallTrue(p)'
  BY <1>1, <1>4 DEF CallTrue, NoCall
<1>6. FlowTrue(p)'
  BY <1>1, <1>3, <1>4 DEF FlowTrue, CallOf, NoCall
<1> QED
  BY <1>1, <1>2, <1>3, <1>5, <1>6, ClientKeeps

LEMMA CloseKeeps ==
  ASSUME IInv, NEW p \in Pages, Close(p)
  PROVE  IInv'
<1>1. /\ page[p] = "open" /\ page' = [page EXCEPT ![p] = "closed"]
      /\ flow' = [flow EXCEPT ![p] = NoFlow]
      /\ UNCHANGED Behind /\ UNCHANGED <<key, record, claimed>>
  BY DEF Close, browserStep, Behind
<1>2. BrowserType' /\ BrowserTrue'
  BY <1>1, BrowserAlone DEF IInv, ClaimType, BrowserType
<1>3. page'[p] = "closed" /\ \A q \in Pages \ {p} : page'[q] = page[q]
  BY <1>1 DEF IInv, ClaimType, BrowserType
<1>4. NoFlow \in Flow /\ NoFlow.pc = "idle"
  BY NothingCalled DEF NoFlow
<1> HIDE DEF NoFlow
<1>5. CASE call' = [call EXCEPT ![p] = NoCall]
  BY <1>1, <1>2, <1>3, <1>4, <1>5, QuietKeeps
<1>6. CASE UNCHANGED call
  <2>1. FlowType' /\ flow'[p] = NoFlow /\ \A q \in Pages \ {p} : flow'[q] = flow[q]
    BY <1>1, <1>4, FlowChanges DEF IInv, ClaimType
  <2>2. CallType' /\ Others(p)
    BY <1>3, <1>6, <2>1 DEF IInv, ClaimType, CallType, Others
  <2>3. CallTrue(p)'
    BY <1>1, <1>6, PageIn DEF CallTrue, Behind, routerVars, i2Vars
  <2>4. FlowTrue(p)'
    BY <1>3, <1>4, <2>1 DEF FlowTrue
  <2> QED
    BY <1>1, <1>2, <2>1, <2>2, <2>3, <2>4, ClientKeeps
<1> QED
  BY <1>5, <1>6 DEF Close

LEMMA BrowserKeeps ==
  ASSUME IInv, \/ \E p \in Pages : LoseKey(p) \/ Setup(p)
               \/ ExpireRecord
               \/ UNCHANGED vars
  PROVE  IInv'
<1>1. /\ UNCHANGED <<Behind, page, flow, call>> /\ UNCHANGED claimed
      /\ record' \in {record, NoRecord}
  BY DEF LoseKey, Setup, ExpireRecord, vars, egressVars, pageVars, browserStep, Behind
<1>2. key' \in [Pages -> BOOLEAN]
  BY DEF LoseKey, Setup, ExpireRecord, vars, pageVars, IInv, ClaimType, BrowserType
<1>3. page' \in [Pages -> {"unopened", "open", "closed"}]
  BY <1>1 DEF IInv, ClaimType, BrowserType
<1> QED
  BY <1>1, <1>2, <1>3, BrowserAlone, NobodyMoves

-----------------------------------------------------------------------------
(* The theorems *)

LEMMA InitHolds == Init => IInv
<1> SUFFICES ASSUME Init
             PROVE  IInv
  OBVIOUS
<1>1. DepositType
  BY DEF Init, InitEgress, DepositType
<1>2. JobsType
  <2>1. jobs \in [Deposits -> Seq(Jobs)] /\ \A d \in Deposits : jobs[d] = << >>
    BY DEF Init, InitEgress
  <2>2. Len(<< >>) <= MaxJobs
    BY EgressAssumption
  <2> QED
    BY <2>1, <2>2 DEF Init, InitEgress, JobsType
<1>3. CallType /\ FlowType
  BY NothingCalled DEF Init, InitEgress, CallType, FlowType, Call, Flow
<1>4. BrowserType /\ BrowserTrue
  BY DEF Init, BrowserType, BrowserTrue
<1>5. ASSUME NEW d \in Deposits
      PROVE  DepositTrue(d)
  <2>1. DOMAIN jobs[d] = {}
    BY DEF Init, InitEgress
  <2> QED
    BY <2>1 DEF Init, InitEgress, DepositTrue
<1>6. ASSUME NEW p \in Pages
      PROVE  CallTrue(p) /\ FlowTrue(p)
  <2>1. call[p] = NoCall /\ flow[p] = NoFlow /\ page[p] = "unopened"
    BY DEF Init, InitEgress
  <2> QED
    BY <2>1 DEF CallTrue, FlowTrue, NoCall, NoFlow
<1> QED
  BY <1>1, <1>2, <1>3, <1>4, <1>5, <1>6 DEF IInv, ClaimType

LEMMA NextKeeps == IInv /\ [Next]_vars => IInv'
<1> SUFFICES ASSUME IInv, [Next]_vars
             PROVE  IInv'
  OBVIOUS
<1>1. ASSUME NEW p \in Pages, Canisters(p) \/ (LoseAnswer(p) /\ browserSame)
      PROVE  IInv'
  BY <1>1, CanistersKeep
<1>2. ASSUME NEW p \in Pages, Continue(p) \/ Expired(p)
      PROVE  IInv'
  BY <1>2, InfoKnownKeeps, OpenedKeeps, StartedKeeps, PollAgainKeeps,
     ResetAnsweredKeeps, RestartedKeeps, PolledKeeps, FailKeeps DEF Continue
<1>3. ASSUME NEW p \in Pages, NEW d \in Deposits, Claim(p, d)
      PROVE  IInv'
  BY <1>3, ClaimKeeps
<1>4. ASSUME NEW p \in Pages, Open(p) \/ Close(p) \/ LoseKey(p) \/ Setup(p)
      PROVE  IInv'
  BY <1>4, OpenKeeps, CloseKeeps, BrowserKeeps
<1>5. ASSUME NEW d \in Deposits, JobSteps(d) \/ Heartbeat(d)
      PROVE  IInv'
  BY <1>5, JobStepsKeep
<1>6. CASE ExpireRecord \/ UNCHANGED vars
  BY <1>6, BrowserKeeps
<1> QED
  BY <1>1, <1>2, <1>3, <1>4, <1>5, <1>6 DEF Next

LEMMA InvariantHolds == Spec => []IInv
<1> QED
  BY InitHolds, NextKeeps, PTL DEF Spec

\* Every variable keeps its type, whatever goes wrong: among others the listed
\* jobs and the current one are jobs the I2 was given, and no claim polls past
\* its last quarter of an hour.
THEOREM ClaimTypes == Spec => []TypeOK
<1>1. IInv => TypeOK
  <2> SUFFICES ASSUME IInv
               PROVE  TypeOK
    OBVIOUS
  <2>1. DepositType /\ JobsType /\ FlowType /\ BrowserType
    BY DEF IInv, ClaimType
  <2>2. \A d \in Deposits : \A j \in DOMAIN jobs[d] : jobs[d][j].at \in JobAts
    BY <2>1, JobIn DEF Jobs
  <2>3. \A p \in Pages : flow[p].pc \in Pcs /\ flow[p].quarters < MaxQuarters
    BY <2>1, ClaimFlowAssumption DEF FlowType
  <2> QED
    BY <2>1, <2>2, <2>3 DEF TypeOK, DepositType, JobsType, BrowserType
<1> QED
  BY <1>1, InvariantHolds, PTL

\* Of the jobs finalize_start and reset_job let run side by side, for any number
\* of pages, resets and retries, one at most gets past fetch_csrn: the first
\* Storage canister either remembers that it has served its CSRN or has zeroed it,
\* and whoever got past it left one of the two behind.
THEOREM OnePayerEver == Spec => []OnePayer
<1>1. IInv => OnePayer
  BY DEF IInv, DepositTrue, OnePayer, PastCsrn
<1> QED
  BY <1>1, InvariantHolds, PTL

\* A job that is done, a claim that has returned and an I2 that is to destroy
\* itself mean that the Router has paid Bob in full, and claim_recovery names a
\* job its I2 was given, whatever is lost, refused, closed or expired.
THEOREM ReportsAreTrue == Spec => []ReportedIsPaid
<1>1. IInv => ReportedIsPaid
  BY DEF IInv, DepositTrue, BrowserTrue, ReportedIsPaid
<1> QED
  BY <1>1, InvariantHolds, PTL
=============================================================================
