------------------------------ MODULE Session -------------------------------
(***************************************************************************)
(* The session of a page: the cached actors and their delegation, the gate *)
(* that serialises refreshes and the beginning of operations, the counter  *)
(* of operations in flight (src/icpp-ui/src/methods/canisters.ts), and     *)
(* what the screens know of it all (src/icpp-ui/src/main.ts).              *)
(*                                                                         *)
(* A task is one run of a click handler.  JavaScript runs one of them at a *)
(* time, from await to await: so are the actions cut.  Timers, the idle    *)
(* callback and the visibility event come in between, gate or no gate.     *)
(***************************************************************************)
EXTENDS Naturals, Sequences, FiniteSets

CONSTANTS Tasks, NoTask

ASSUME SessionAssumption == NoTask \notin Tasks /\ IsFiniteSet(Tasks)

VARIABLES
  actors,   \* cachedActors is not null
  level,    \* how long the delegation still lasts, see below
  ops,      \* opsInFlight
  holder,   \* the task in withAuthGate
  queue,    \* the tasks waiting for it, in order
  setup,    \* isSetupComplete
  key,      \* cachedSentIdsKey is not null
  busy,     \* sendInProgress, processingId, withdrawInProgress, recvScanInProgress
  task

sessionVars == <<actors, level, ops>>
gateVars == <<holder, queue>>
uiVars == <<setup, key, busy>>
vars == <<sessionVars, gateVars, uiVars, task>>

\* Under two minutes or expired; under DELEGATION_MIN_REMAIN_NS; under that and
\* DELEGATION_REFRESH_GRACE_NS; more.
Stale == 0
Short == 1
Low == 2
Long == 3

Operations == {"send", "claim", "withdraw"}
Kinds == Operations \cup {"setup", "orphan", "scan", "logout", "none"}
InGate == {"refresh", "identity", "build", "leaving"}
Pcs == InGate \cup {"idle", "queued", "running", "pin", "event"}

Idle == [kind |-> "none", pc |-> "idle"]

Init ==
  /\ actors = FALSE /\ level \in Stale..Long /\ ops = 0
  /\ holder = NoTask /\ queue = << >>
  /\ setup = FALSE /\ key = FALSE /\ busy = {}
  /\ task = [t \in Tasks |-> Idle]

At(t, pc) == task[t].pc = pc
Goto(t, pc) == task' = [task EXCEPT ![t].pc = pc]
End(t) == task' = [task EXCEPT ![t] = Idle]

\* release(), in withAuthGate's finally.
Release == holder' = NoTask /\ UNCHANGED queue

\* What has no await goes through before another event is handled: entering an
\* open gate, and buildActors (its fetchRootKey is for a local network).
Quiet == IF holder = NoTask THEN queue = << >> ELSE ~At(holder, "build")

\* The finally of a handler.
Unmark(t) == busy' = busy \ {task[t].kind}

\* resetSessionState, whatever is in progress.
Reset == setup' = FALSE /\ key' = FALSE /\ busy' = {}

CanSafelyLogout == setup /\ busy = {}

-----------------------------------------------------------------------------
(* Clicks *)

Start(t, kind) ==
  /\ At(t, "idle") /\ queue' = Append(queue, t)
  /\ task' = [task EXCEPT ![t] = [kind |-> kind, pc |-> "queued"]]
  /\ UNCHANGED <<sessionVars, holder, setup, key>>

\* The Access screen is shown again after a reset, with a new button.
ClickSetup(t) == ~setup /\ Start(t, "setup") /\ UNCHANGED busy

\* Each screen blocks its own button only.
ClickOperation(t, kind) ==
  setup /\ kind \notin busy /\ Start(t, kind) /\ busy' = busy \cup {kind}

ClickSend(t) == ClickOperation(t, "send")
ClickClaim(t) == ClickOperation(t, "claim")
ClickWithdraw(t) == ClickOperation(t, "withdraw")

ClickLogout(t) == CanSafelyLogout /\ Start(t, "logout") /\ UNCHANGED busy

\* The scan does without beginUserOperation; its flag is set after the PIN has
\* been verified.
ClickScan(t) ==
  /\ setup /\ busy \cap {"claim", "scan"} = {} /\ actors /\ At(t, "idle")
  /\ task' = [task EXCEPT ![t] = [kind |-> "scan", pc |-> "pin"]]
  /\ UNCHANGED <<sessionVars, gateVars, uiVars>>

-----------------------------------------------------------------------------
(* In the gate *)

\* withAuthGate: first come, first served.
Dequeue(t) ==
  /\ holder = NoTask /\ queue # << >> /\ Head(queue) = t /\ At(t, "queued")
  /\ queue' = Tail(queue)
Enter(t, pc) == Dequeue(t) /\ holder' = t /\ Goto(t, pc)

\* The actors are there.  An operation is in flight once the delegation lasts
\* long enough (hasSufficientDelegation); the setup goes on to loadNk.
Admit(t) ==
  LET kind == task[t].kind
      refused == kind \in Operations /\ level < Low
  IN
  /\ ops' = IF kind \in Operations /\ ~refused THEN ops + 1 ELSE ops
  /\ IF refused THEN Unmark(t) ELSE UNCHANGED busy
  /\ IF refused \/ kind = "orphan" THEN End(t)
     ELSE Goto(t, IF kind = "setup" THEN "pin" ELSE "running")
  /\ UNCHANGED <<level, setup, key>>

\* Mutant: the delegation is refreshed for a second operation too.
BeginAlwaysRefreshes(t) ==
  /\ task[t].kind # "logout"
  /\ \/ ~actors /\ Enter(t, "identity") /\ UNCHANGED <<sessionVars, uiVars>>
     \/ /\ actors /\ level < Long
        /\ Enter(t, "refresh") /\ UNCHANGED <<sessionVars, uiVars>>
     \/ /\ actors /\ level = Long
        /\ Dequeue(t) /\ Admit(t) /\ UNCHANGED <<actors, holder>>

\* initICPPActorsUnlocked.  Actors are refreshed only while no operation is in
\* flight; when they are kept, there is no await.
Begin(t) ==
  /\ task[t].kind # "logout"
  /\ \/ ~actors /\ Enter(t, "identity") /\ UNCHANGED <<sessionVars, uiVars>>
     \/ /\ actors /\ ops = 0 /\ level < Long
        /\ Enter(t, "refresh") /\ UNCHANGED <<sessionVars, uiVars>>
     \/ /\ actors /\ (ops > 0 \/ level = Long)
        /\ Dequeue(t) /\ Admit(t) /\ UNCHANGED <<actors, holder>>

\* Mutant: an exception leaves the gate shut.
FailGateShut(t) ==
  /\ task[t].pc \in {"refresh", "identity"}
  /\ End(t) /\ Unmark(t) /\ UNCHANGED <<sessionVars, gateVars, setup, key>>

\* An exception: the login has failed, or the session has expired meanwhile and
\* cachedActors.authClient is read from null.
Fail(t) ==
  /\ task[t].pc \in {"refresh", "identity"} /\ Release
  /\ End(t) /\ Unmark(t) /\ UNCHANGED <<sessionVars, setup, key>>

\* ensureDelegationBudget has logged in; the actors are cleared to be rebuilt.
Refreshed(t) ==
  /\ At(t, "refresh") /\ actors /\ level' = Long /\ actors' = FALSE
  /\ Goto(t, "build") /\ UNCHANGED <<ops, gateVars, uiVars>>

\* getIdentity has logged in, unless the delegation was valid.
Identified(t) ==
  /\ At(t, "identity") /\ level' \in {level, Long} /\ (level > Stale => level' = level)
  /\ Goto(t, "build") /\ UNCHANGED <<actors, ops, gateVars, uiVars>>

Build(t) == At(t, "build") /\ actors' = TRUE /\ Release /\ Admit(t)

\* logoutICPP: refused while an operation is in flight.
BeginLogout(t) ==
  /\ task[t].kind = "logout" /\ UNCHANGED <<level, ops, uiVars>>
  /\ \/ ops > 0 /\ Dequeue(t) /\ End(t) /\ UNCHANGED <<actors, holder>>
     \/ ops = 0 /\ Enter(t, "leaving") /\ actors' = FALSE

\* AuthClient.logout may throw: then there is no event, and the handler ends.
LoggedOut(t) ==
  /\ At(t, "leaving") /\ Release /\ UNCHANGED <<actors, ops, uiVars>>
  /\ \/ level' = Stale /\ Goto(t, "event")
     \/ UNCHANGED level /\ End(t)

\* The session_expired event, after the gate has been left.
LogoutEvent(t) ==
  /\ At(t, "event") /\ Reset /\ End(t) /\ UNCHANGED <<sessionVars, gateVars>>

-----------------------------------------------------------------------------
(* Out of the gate *)

\* setupICPP, then switchTab, which resets a session that is invalid by now.
SetupDone(t) ==
  /\ At(t, "pin") /\ task[t].kind = "setup" /\ End(t)
  /\ IF actors /\ level > Stale THEN setup' = TRUE /\ key' = TRUE /\ UNCHANGED busy
                                ELSE Reset
  /\ UNCHANGED <<sessionVars, gateVars>>

\* loadNk throws: wrong PIN.
WrongPin(t) ==
  /\ At(t, "pin") /\ End(t) /\ UNCHANGED <<sessionVars, gateVars, uiVars>>

ScanVerified(t) ==
  /\ At(t, "pin") /\ task[t].kind = "scan" /\ Goto(t, "running")
  /\ busy' = busy \cup {"scan"} /\ UNCHANGED <<sessionVars, gateVars, setup, key>>

ScanDone(t) ==
  /\ At(t, "running") /\ task[t].kind = "scan" /\ End(t) /\ Unmark(t)
  /\ UNCHANGED <<sessionVars, gateVars, setup, key>>

\* Mutant: the operation is counted off once more by the handler.
EndOperationTwice(t, kind) ==
  /\ At(t, "running") /\ task[t].kind = kind /\ End(t)
  /\ ops' = IF ops > 1 THEN ops - 2 ELSE 0
  /\ UNCHANGED <<actors, level, gateVars>>

\* endUserOperation, when the operation has returned or thrown.
EndOperation(t, kind) ==
  /\ At(t, "running") /\ task[t].kind = kind /\ End(t)
  /\ ops' = IF ops > 0 THEN ops - 1 ELSE 0
  /\ UNCHANGED <<actors, level, gateVars>>

SendDone(t) == EndOperation(t, "send") /\ Unmark(t) /\ UNCHANGED <<setup, key>>
ClaimDone(t) == EndOperation(t, "claim") /\ Unmark(t) /\ UNCHANGED <<setup, key>>

\* A withdrawal told that the session has expired resets it.
WithdrawDone(t) ==
  /\ EndOperation(t, "withdraw")
  /\ \/ Unmark(t) /\ UNCHANGED <<setup, key>>
     \/ level = Stale /\ Reset

-----------------------------------------------------------------------------
(* Timers and events *)

\* withTimeout gives the setup up; what it has begun in the gate goes on.
SetupTimeout(t) ==
  /\ task[t].kind = "setup" /\ task[t].pc \in {"queued"} \cup InGate
  /\ task' = [task EXCEPT ![t].kind = "orphan"]
  /\ UNCHANGED <<sessionVars, gateVars, uiVars>>

\* onIdle: nobody asks the gate.
SessionExpires ==
  /\ ops = 0 /\ actors' = FALSE /\ Reset /\ UNCHANGED <<level, ops, gateVars, task>>

\* handleVisibilityChange: the page is shown again, with a delegation that is
\* stale, as it is without actors.
Reappear == (~actors \/ level = Stale) /\ SessionExpires

\* switchTab: ensureValidSession, and leaving Receive takes the scan's flag.
SwitchTab ==
  /\ setup /\ UNCHANGED <<sessionVars, gateVars, task>>
  /\ IF actors /\ level > Stale
     THEN busy' = busy \ {"scan"} /\ UNCHANGED <<setup, key>>
     ELSE Reset

Age == level > Stale /\ level' = level - 1
       /\ UNCHANGED <<actors, ops, gateVars, uiVars, task>>

GateStep(t) ==
  \/ Begin(t) \/ Refreshed(t) \/ Identified(t) \/ Build(t) \/ Fail(t)
  \/ BeginLogout(t) \/ LoggedOut(t) \/ LogoutEvent(t)

\* What ends a task that has left the gate.
Return(t) ==
  \/ SetupDone(t) \/ WrongPin(t) \/ ScanVerified(t) \/ ScanDone(t)
  \/ SendDone(t) \/ ClaimDone(t) \/ WithdrawDone(t)

Click(t) ==
  \/ ClickSetup(t) \/ ClickSend(t) \/ ClickClaim(t) \/ ClickWithdraw(t)
  \/ ClickScan(t) \/ ClickLogout(t)

Next ==
  \/ \E t \in Tasks : GateStep(t)
  \/ Quiet /\ \E t \in Tasks : Return(t) \/ Click(t) \/ SetupTimeout(t)
  \/ Quiet /\ (SessionExpires \/ Reappear \/ SwitchTab)
  \/ Age

Spec == Init /\ [][Next]_vars

\* Logins end, well or not, operations and queries return, and no event waits
\* for ever to be handled.
FairSpec ==
  Spec /\ \A t \in Tasks : WF_vars(GateStep(t)) /\ SF_vars(Quiet /\ Return(t))

-----------------------------------------------------------------------------
(* Properties *)
InFlight == {t \in Tasks : At(t, "running") /\ task[t].kind \in Operations}

TypeOK ==
  /\ actors \in BOOLEAN /\ level \in Stale..Long /\ ops \in Nat
  /\ holder \in Tasks \cup {NoTask} /\ queue \in Seq(Tasks)
  /\ setup \in BOOLEAN /\ key \in BOOLEAN /\ busy \subseteq Operations \cup {"scan"}
  /\ task \in [Tasks -> [kind : Kinds, pc : Pcs]]

\* withAuthGate: one task at a time between its first await and its release,
\* and somebody is there when the gate is shut.
GateExclusive ==
  \A t \in Tasks : task[t].pc \in InGate <=> holder = t

\* The counter the session's timers go by is exact, and an operation in flight
\* has its actors, although timers clear them without the gate.
OperationsHaveActors ==
  /\ ops = Cardinality(InFlight)
  /\ ops > 0 => actors

\* "Never refresh delegation or rebuild actors while a long-running operation
\* is in-flight": from one state with an operation in flight to the next, the
\* cached actors are the same.
ActorsStable == [][ops > 0 /\ ops' > 0 => UNCHANGED actors]_vars

\* Every click ends, whoever else waits for the gate: it is never left shut.
ClicksEnd == \A t \in Tasks : task[t].pc # "idle" ~> task[t].pc = "idle"
=============================================================================
