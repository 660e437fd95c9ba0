------------------------------ MODULE Ingress ------------------------------
(***************************************************************************)
(* What the sending client calls: the Router up to the seal, the ledger    *)
(* transfer that funds a deposit, and the deposit's own I1, Storage and    *)
(* Witness canisters.  The Router is used through its abstract             *)
(* specification Escrow, which the detailed one implements.                *)
(*                                                                         *)
(* A page makes one call at a time.  Making it, executing it (in as many   *)
(* steps as the canister has awaits) and continuing with its answer are    *)
(* separate steps, and a call goes on when the page that made it is gone.  *)
(***************************************************************************)
EXTENDS Naturals, FiniteSets

CONSTANTS
  Pages,         \* pages opened one after the other or side by side: 1..n
  Deposits,
  NoDeposit,
  Amount,        \* what Alice seals for Bob, per deposit
  StorageCount,  \* Storage canisters of a deposit
  MaxMishaps     \* how many things may go wrong

ASSUME IngressAssumption ==
  /\ NoDeposit \notin Deposits
  /\ StorageCount \in Nat \ {0}
  /\ MaxMishaps \in Nat

VARIABLES
  stage, paid, refunded,  \* the Router's deposits, as Escrow has them
  locks,        \* deposits the Router is working on
  funded,       \* deposit transfers the ledger has executed, per deposit
  csrn,         \* CSRN the first Storage holds, 0 for none
  drawn,        \* CSRNs generated for the deposit
  stored,       \* per deposit and Storage: the CSRN its package was made with
  announced,    \* deposits on the Noticeboard
  gone,         \* deposits whose I1 has emptied its list of Storage canisters
  logged,       \* deposits whose I1 the Witness knows to be destroyed
  call,         \* the call of each page
  mishaps

routerVars == <<stage, paid, refunded, locks, funded>>
storageVars == <<csrn, drawn, stored>>
i1Vars == <<announced, gone, logged>>
ingressVars == <<routerVars, storageVars, i1Vars, call, mishaps>>

Escrow == INSTANCE Escrow

NoCall == [op |-> "none", dep |-> NoDeposit, at |-> "none", csrn |-> 0, next |-> 0]

Answers == {"ok", "err", "busy", "allocated", "moved"}

InitIngress ==
  /\ Escrow!Init
  /\ locks = {} /\ announced = {} /\ gone = {} /\ logged = {}
  /\ funded = [d \in Deposits |-> 0]
  /\ csrn = [d \in Deposits |-> 0]
  /\ drawn = [d \in Deposits |-> 0]
  /\ stored = [d \in Deposits |-> [i \in 1..StorageCount |-> 0]]
  /\ call = [p \in Pages |-> NoCall]
  /\ mishaps = 0

Mishap == mishaps < MaxMishaps /\ mishaps' = mishaps + 1
NoMishap == UNCHANGED mishaps

\* The page makes a call on a deposit.
Request(p, op, d, c) ==
  call' = [call EXCEPT ![p] = [op |-> op, dep |-> d, at |-> "sent",
                               csrn |-> c, next |-> 0]]

At(p, op, at) == call[p].op = op /\ call[p].at = at
Answer(p, a) == call' = [call EXCEPT ![p].at = a]

-----------------------------------------------------------------------------
(* The Router and the ledger *)

\* deposit_alloc derives a fresh id; which one makes no difference.
AllocExecute(p) ==
  LET fresh == {d \in Deposits : stage[d] = "none"}
      d == CHOOSE x \in fresh : TRUE
  IN
  /\ At(p, "alloc", "sent") /\ fresh # {} /\ NoMishap
  /\ Escrow!Allocate(d)
  /\ call' = [call EXCEPT ![p].dep = d, ![p].at = "ok"]
  /\ UNCHANGED <<locks, funded, storageVars, i1Vars>>

\* status is a query: it reads the state of the deposit.
StatusExecute(p) ==
  /\ At(p, "status", "sent") /\ NoMishap
  /\ Answer(p, IF stage[call[p].dep] = "allocated" THEN "allocated" ELSE "moved")
  /\ UNCHANGED <<routerVars, storageVars, i1Vars>>

\* icrc1_transfer: the treasury's fee, then the deposit.
TransferExecute(p) ==
  /\ NoMishap /\ Answer(p, "ok")
  /\ \/ At(p, "fee", "sent") /\ UNCHANGED funded
     \/ /\ At(p, "deposit", "sent")
        /\ funded' = [funded EXCEPT ![call[p].dep] = @ + 1]
  /\ UNCHANGED <<stage, paid, refunded, locks, storageVars, i1Vars>>

PrepareBegin(p) ==
  LET d == call[p].dep IN
  /\ At(p, "prepare", "sent") /\ NoMishap
  /\ \/ stage[d] # "allocated" /\ Answer(p, "err") /\ UNCHANGED locks
     \/ stage[d] = "allocated" /\ d \in locks /\ Answer(p, "busy") /\ UNCHANGED locks
     \/ /\ stage[d] = "allocated" /\ d \notin locks
        /\ locks' = locks \cup {d} /\ Answer(p, "running")
  /\ UNCHANGED <<stage, paid, refunded, funded, storageVars, i1Vars>>

\* The conversion and the spawn; without a transfer the balance is too small.
PrepareEnd(p) ==
  LET d == call[p].dep IN
  /\ At(p, "prepare", "running") /\ locks' = locks \ {d}
  /\ \/ funded[d] > 0 /\ Escrow!Prepare(d) /\ Answer(p, "ok") /\ NoMishap
     \/ /\ Answer(p, "err") /\ UNCHANGED <<stage, paid, refunded>>
        /\ IF funded[d] > 0 THEN Mishap ELSE NoMishap
  /\ UNCHANGED <<funded, storageVars, i1Vars>>

SealBegin(p) ==
  LET d == call[p].dep IN
  /\ At(p, "seal", "sent") /\ NoMishap
  /\ \/ d \in locks /\ Answer(p, "busy") /\ UNCHANGED locks
     \/ /\ d \notin locks /\ stage[d] # "created"
        /\ Answer(p, "err") /\ UNCHANGED locks
     \/ /\ d \notin locks /\ stage[d] = "created"
        /\ locks' = locks \cup {d} /\ Answer(p, "running")
  /\ UNCHANGED <<stage, paid, refunded, funded, storageVars, i1Vars>>

\* "busy" stands for ERR.TRANSFER_FAILED too: the client retries both.
SealEnd(p) ==
  LET d == call[p].dep IN
  /\ At(p, "seal", "running") /\ locks' = locks \ {d}
  /\ \/ Escrow!Seal(d) /\ Answer(p, "ok") /\ NoMishap
     \/ /\ Mishap /\ \E a \in {"busy", "err"} : Answer(p, a)
        /\ UNCHANGED <<stage, paid, refunded>>
  /\ UNCHANGED <<funded, storageVars, i1Vars>>

-----------------------------------------------------------------------------
(* I1 and Storage *)

\* I1.prepare_deposit and Storage.init_csrn up to the first await.
CsrnBegin(p) ==
  LET d == call[p].dep IN
  /\ At(p, "csrn", "sent") /\ NoMishap
  /\ Answer(p, IF d \in gone \/ csrn[d] # 0 THEN "err" ELSE "drawing")
  /\ UNCHANGED <<routerVars, storageVars, i1Vars>>

\* The rest of init_csrn: randomness and encryption have been awaited, and the
\* CSRN is stored whatever csrn holds by now.
CsrnEnd(p) ==
  LET d == call[p].dep IN
  /\ At(p, "csrn", "drawing") /\ UNCHANGED <<routerVars, stored, i1Vars>>
  /\ \/ /\ NoMishap /\ drawn' = [drawn EXCEPT ![d] = @ + 1]
        /\ csrn' = [csrn EXCEPT ![d] = drawn'[d]]
        /\ call' = [call EXCEPT ![p].at = "ok", ![p].csrn = drawn'[d]]
     \/ Mishap /\ Answer(p, "err") /\ UNCHANGED <<csrn, drawn>>

\* I1.store_and_announce does not look whether its list of Storages is empty:
\* after it has destroyed itself, and until it is deleted, it stores nothing,
\* announces the deposit again, without Storages (Receive.Announce), and goes on.
StoreBegin(p) ==
  /\ At(p, "store", "sent") /\ NoMishap
  /\ \/ call[p].dep \in gone /\ \E a \in {"announcing", "err"} : Answer(p, a)
     \/ /\ call[p].dep \notin gone
        /\ call' = [call EXCEPT ![p].at = "storing", ![p].next = 1]
  /\ UNCHANGED <<routerVars, storageVars, i1Vars>>

\* Mutant: a package that is there is overwritten.
StoreStepOverwrites(p) ==
  LET d == call[p].dep
      i == call[p].next
  IN
  /\ At(p, "store", "storing") /\ NoMishap
  /\ UNCHANGED <<routerVars, csrn, drawn, i1Vars>>
  /\ stored' = [stored EXCEPT ![d][i] = call[p].csrn]
  /\ call' = [call EXCEPT
       ![p].at = IF i < StorageCount THEN "storing" ELSE "announcing",
       ![p].next = i + 1]

\* One round of I1's loop: Storage.store, which keeps the package although its
\* report to the Witness fails.
StoreStep(p) ==
  LET d == call[p].dep
      i == call[p].next
  IN
  /\ At(p, "store", "storing")
  /\ UNCHANGED <<routerVars, csrn, drawn, i1Vars>>
  /\ IF stored[d][i] # 0 THEN Answer(p, "err") /\ NoMishap /\ UNCHANGED stored
     ELSE LET kept == [stored EXCEPT ![d][i] = call[p].csrn] IN
          \/ Mishap /\ Answer(p, "err") /\ stored' \in {stored, kept}
          \/ /\ NoMishap /\ stored' = kept
             /\ call' = [call EXCEPT
                  ![p].at = IF i < StorageCount THEN "storing" ELSE "announcing",
                  ![p].next = i + 1]

AnnounceExecute(p) ==
  /\ At(p, "store", "announcing") /\ UNCHANGED <<routerVars, storageVars, gone, logged>>
  /\ \/ NoMishap /\ Answer(p, "logging") /\ announced' = announced \cup {call[p].dep}
     \/ Mishap /\ Answer(p, "err") /\ UNCHANGED announced

\* The two reports to the Witness and self_destruct.  When a report is rejected
\* I1 destroys itself all the same, and the Witness does not know.
WitnessExecute(p) ==
  LET d == call[p].dep IN
  /\ At(p, "store", "logging") /\ gone' = gone \cup {d}
  /\ \/ NoMishap /\ logged' = logged \cup {d} /\ Answer(p, "ok")
     \/ Mishap /\ logged' \in {logged, logged \cup {d}} /\ Answer(p, "err")
  /\ UNCHANGED <<routerVars, storageVars, announced>>

-----------------------------------------------------------------------------
\* A canister refuses (paused, rate limit, cycles): nothing happens.
Refuse(p) ==
  /\ call[p].at = "sent" /\ Mishap /\ Answer(p, "err")
  /\ UNCHANGED <<routerVars, storageVars, i1Vars>>

Execute(p) ==
  \/ AllocExecute(p) \/ StatusExecute(p) \/ TransferExecute(p)
  \/ PrepareBegin(p) \/ PrepareEnd(p) \/ SealBegin(p) \/ SealEnd(p)
  \/ CsrnBegin(p) \/ CsrnEnd(p)
  \/ StoreBegin(p) \/ StoreStep(p) \/ AnnounceExecute(p) \/ WitnessExecute(p)
=============================================================================
