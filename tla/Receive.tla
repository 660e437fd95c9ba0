------------------------------ MODULE Receive -------------------------------
(***************************************************************************)
(* The Receive screen of Bob's page (src/icpp-ui/src/main.ts): it scans    *)
(* the Noticeboard, shows what it has found and lets Bob claim it.  A      *)
(* claim is claimDeposit with I2 and the Router behind it, reduced to what *)
(* it does to the Noticeboard and to the screen.                           *)
(*                                                                         *)
(* resetSessionState empties the screen under a scan or a claim that is    *)
(* going on, whose answer then arrives at the next session's screen.       *)
(***************************************************************************)
EXTENDS Noticeboard

CONSTANTS
  Mine,         \* deposits Bob can open
  Sent,         \* deposits Bob has sent himself
  Limit,        \* announcements of a scan: 50
  Scans,        \* queries on their way at once
  MaxClaims,    \* claims of one deposit on their way at once
  MaxAnnounced, \* announcements of one deposit
  MaxResets,    \* how often the session ends
  MaxMishaps    \* how many things go wrong

ASSUME ReceiveAssumption ==
  /\ Mine \cup Sent \subseteq Deposits
  /\ Limit \in Nat \ {0} /\ MaxClaims \in Nat \ {0}
  /\ MaxAnnounced \in Nat /\ MaxResets \in Nat /\ MaxMishaps \in Nat

VARIABLES
  announced,    \* how often each deposit's I1 has announced it
  paid,         \* deposits their recipients have been paid
  consuming,    \* deposits whose I2 has sent consume
  lost,         \* deposits their I2 will never pay
  scan,         \* the queries of the page
  scanning,     \* recvScanInProgress
  cached,       \* cachedAnnouncements
  processing,   \* processingId, as a set
  claiming,     \* how many claims of each deposit are on their way
  claimed,      \* claimedIds
  hardFailed,   \* hardFailedIds
  resets, mishaps

i2Vars == <<paid, consuming, lost>>
scanVars == <<scan, scanning, cached>>
claimVars == <<processing, claiming, claimed, hardFailed>>
counters == <<resets, mishaps>>
vars == <<boardVars, announced, i2Vars, scanVars, claimVars, counters>>

NoScan == [at |-> "idle", page |-> << >>]

Init ==
  /\ InitBoard /\ announced = [d \in Deposits |-> 0]
  /\ paid = {} /\ consuming = {} /\ lost = {}
  /\ scan = [s \in Scans |-> NoScan] /\ scanning = FALSE /\ cached = << >>
  /\ processing = {} /\ claiming = [d \in Deposits |-> 0]
  /\ claimed = {} /\ hardFailed = {}
  /\ resets = 0 /\ mishaps = 0

Mishap == mishaps < MaxMishaps /\ mishaps' = mishaps + 1 /\ UNCHANGED resets
NoMishap == UNCHANGED counters

-----------------------------------------------------------------------------
(* The Noticeboard and I2 *)

\* The first announcement names the deposit's Storages.  I1 then empties its
\* list of them, and every further call of store_and_announce announces the
\* deposit again without any, be it paid and consumed by then.
Announce(d) ==
  /\ announced[d] < MaxAnnounced /\ announced' = [announced EXCEPT ![d] = @ + 1]
  /\ announce(d, announced[d] = 0)
  /\ UNCHANGED <<i2Vars, scanVars, claimVars, counters>>

\* I2 sends consume when the Router has paid, and does not look at the answer.
Pay(d) ==
  /\ d \notin paid \cup lost /\ paid' = paid \cup {d} /\ consuming' = consuming \cup {d}
  /\ UNCHANGED lost

Consume(d) ==
  /\ d \in consuming /\ consuming' = consuming \ {d}
  /\ \/ consume(d) /\ NoMishap
     \/ Mishap /\ UNCHANGED boardVars
  /\ UNCHANGED <<announced, paid, lost, scanVars, claimVars>>

\* Another recipient claims a deposit of his.
OtherClaims(d) ==
  /\ d \in Deposits \ Mine /\ announced[d] > 0 /\ Pay(d) /\ NoMishap
  /\ UNCHANGED <<boardVars, announced, scanVars, claimVars>>

Maintain ==
  /\ ensure_initialized \/ do_churn \/ prune
  /\ UNCHANGED <<announced, i2Vars, scanVars, claimVars, counters>>

-----------------------------------------------------------------------------
(* Scanning *)

\* A click looks whether a scan or a claim is in progress, then verifies the PIN.
Scan(s) ==
  /\ scan[s].at = "idle" /\ ~scanning /\ processing = {}
  /\ scan' = [scan EXCEPT ![s].at = "pin"] /\ NoMishap
  /\ UNCHANGED <<boardVars, announced, i2Vars, scanning, cached, claimVars>>

\* It does not look again: another scan, or a claim, may have begun.  The PIN is
\* wrong, or the session has ended and there is nobody to query as, or the query
\* is sent.
VerifyPin(s) ==
  /\ scan[s].at = "pin"
  /\ \/ scan' = [scan EXCEPT ![s].at = "sent"] /\ scanning' = TRUE /\ NoMishap
     \/ /\ scan' = [scan EXCEPT ![s].at = "idle"]
        /\ scanning' \in {scanning, FALSE} /\ Mishap
  /\ UNCHANGED <<boardVars, announced, i2Vars, cached, claimVars>>

ScanExecute(s) ==
  /\ scan[s].at = "sent" /\ NoMishap
  /\ scan' = [scan EXCEPT ![s].at = "answered", ![s].page = Page(Limit)]
  /\ UNCHANGED <<boardVars, announced, i2Vars, scanning, cached, claimVars>>

\* listAnnouncements leaves out what Bob has sent, when he has sent something in
\* this session: before that the page cannot read its list.
Shown(list) == \E hidden \in {{}, Sent} : cached' = Only(list, Deposits \ hidden)

\* Mutant: a scan that fails leaves recvScanInProgress set.
ScanAnswerStuck(s) ==
  /\ scan[s].at = "answered" /\ scan' = [scan EXCEPT ![s] = NoScan]
  /\ \/ Shown(scan[s].page) /\ scanning' = FALSE /\ NoMishap
     \/ UNCHANGED <<cached, scanning>> /\ Mishap
  /\ UNCHANGED <<boardVars, announced, i2Vars, claimVars>>

\* listAnnouncements' answer replaces the list even when it was emptied, or replaced by a later
\* scan's, meanwhile.
ScanAnswer(s) ==
  /\ scan[s].at = "answered" /\ scan' = [scan EXCEPT ![s] = NoScan]
  /\ scanning' = FALSE
  /\ \/ Shown(scan[s].page) /\ NoMishap
     \/ UNCHANGED cached /\ Mishap
  /\ UNCHANGED <<boardVars, announced, i2Vars, claimVars>>

-----------------------------------------------------------------------------
(* Claiming *)

\* A failed claim may be tried again, but for hardFailed.
Claim(d) ==
  /\ d \in ToSet(cached) /\ processing = {} /\ d \notin claimed \cup hardFailed
  /\ claiming[d] < MaxClaims /\ claiming' = [claiming EXCEPT ![d] = @ + 1]
  /\ processing' = {d} /\ NoMishap
  /\ UNCHANGED <<boardVars, announced, i2Vars, scanVars, claimed, hardFailed>>

\* Mutant: the end of a claim that was never begun.
ClaimEndsUnbegun(d) ==
  /\ claiming' = [claiming EXCEPT ![d] = @ - 1]
  /\ processing' = {} /\ UNCHANGED <<boardVars, announced, scanVars>>

\* The finally of the click handler: whatever is processed now.
ClaimEnds(d) ==
  /\ claiming[d] > 0 /\ claiming' = [claiming EXCEPT ![d] = @ - 1]
  /\ processing' = {} /\ UNCHANGED <<boardVars, announced, scanVars>>

\* I2 pays, or has paid for another claim that was going on.
ClaimSucceeds(d) ==
  /\ ClaimEnds(d) /\ d \in Mine /\ claimed' = claimed \cup {d}
  /\ Pay(d) \/ (d \in paid /\ UNCHANGED i2Vars)
  /\ UNCHANGED hardFailed /\ NoMishap

\* The package does not open, "this transfer may not be for you", or the
\* Storages are gone with the I2.
ClaimRefused(d) ==
  /\ ClaimEnds(d) /\ d \notin Mine \ (paid \cup lost)
  /\ hardFailed' = hardFailed \cup {d} /\ UNCHANGED <<i2Vars, claimed>> /\ NoMishap

\* Anything else may be tried again, with or without hope: of a deposit that was
\* paid the Router knows nothing, and one is lost when a job of its I2 fails after
\* Storage has served it the CSRN, which Storage does once, or when the I2
\* destroys itself between two attempts.  Of two claims at once, one may be
\* refused for the other.  Other failures are mishaps, before or after the payment.
ClaimFails(d) ==
  /\ ClaimEnds(d) /\ UNCHANGED <<claimed, hardFailed>>
  /\ \/ (d \in paid \cup lost \/ claiming[d] > 1) /\ UNCHANGED i2Vars /\ NoMishap
     \/ /\ d \notin paid /\ lost' \in {lost, lost \cup ({d} \cap Mine)} /\ Mishap
        /\ UNCHANGED <<paid, consuming>>
     \/ d \in Mine /\ Pay(d) /\ Mishap

-----------------------------------------------------------------------------
\* resetSessionState, by a timer, a withdrawal or a click on another tab.
Reset ==
  /\ resets < MaxResets /\ resets' = resets + 1 /\ UNCHANGED mishaps
  /\ scanning' = FALSE /\ cached' = << >> /\ processing' = {}
  /\ claimed' = {} /\ hardFailed' = {}
  /\ UNCHANGED <<boardVars, announced, i2Vars, scan, claiming>>

ClaimGoesOn(d) == ClaimSucceeds(d) \/ ClaimRefused(d) \/ ClaimFails(d)
ScanGoesOn(s) == VerifyPin(s) \/ ScanExecute(s) \/ ScanAnswer(s)

Next ==
  \/ \E d \in Deposits :
       Announce(d) \/ Consume(d) \/ OtherClaims(d) \/ Claim(d) \/ ClaimGoesOn(d)
  \/ \E s \in Scans : Scan(s) \/ ScanGoesOn(s)
  \/ Maintain \/ Reset

Spec == Init /\ [][Next]_vars

\* PINs are verified, queries and claims return, and of claims that go on one
\* succeeds if it can; Bob scans again and again, and tries each of the transfers
\* he is shown.  Nobody else has to claim anything.
FairSpec ==
  /\ Spec
  /\ \A s \in Scans : WF_vars(ScanGoesOn(s)) /\ SF_vars(Scan(s))
  /\ \A d \in Deposits :
       WF_vars(ClaimGoesOn(d)) /\ WF_vars(ClaimSucceeds(d)) /\ SF_vars(Claim(d))

-----------------------------------------------------------------------------
(* Properties *)

TypeOK ==
  /\ announcements \in Seq(Announcement)
  /\ dummy_ids \subseteq DummyIds /\ pool_initialized \in BOOLEAN
  /\ announced \in [Deposits -> 0..MaxAnnounced]
  /\ paid \cup consuming \cup lost \cup claimed \cup hardFailed \cup processing \subseteq Deposits
  /\ scan \in [Scans -> [at : {"idle", "pin", "sent", "answered"}, page : Seq(Deposits)]]
  /\ scanning \in BOOLEAN /\ cached \in Seq(Deposits)
  /\ claiming \in [Deposits -> 0..MaxClaims]
  /\ resets \in 0..MaxResets /\ mishaps \in 0..MaxMishaps

\* The dummies' ids are those on the list that are no deposit's, each once,
\* through churns, prunings, announcements before the pool is filled, and entries
\* without Storages that are no dummies; dummies never outgrow the pool, name no
\* Storages and are never consumed.
DummiesMatch ==
  LET dummies == Only(announcements, {a \in Announcement : a.deposit_id \in DummyIds}) IN
  /\ ToSet([i \in DOMAIN dummies |-> dummies[i].deposit_id]) = dummy_ids
  /\ Len(dummies) = Cardinality(dummy_ids) /\ Len(dummies) <= PoolSize
  /\ \A i \in DOMAIN dummies : ~dummies[i].consumed /\ ~dummies[i].storage
\* The Noticeboard with its dummies, churns and prunings, and the page's
\* queries, implement the plain list of pending deposits.
PendingDeposits == Page(Len(Pending))
Abstract == INSTANCE Board WITH
  Readers <- Scans, pending <- PendingDeposits,
  answer <- [s \in Scans |-> [read |-> scan[s].at = "answered", page |-> scan[s].page]]
ImplementsBoard == Abstract!Spec

\* A transfer for Bob that is among the first pending announcements is paid in
\* the end, unless its own I2 loses it: nothing that is announced, churned or
\* consumed meanwhile pushes it out of what a scan shows, and neither an ended
\* session nor an answer that comes late hides it for good.
TransfersArrive ==
  \A d \in Mine \ Sent : d \in ToSet(Page(Limit)) ~> d \in paid \cup lost
=============================================================================
