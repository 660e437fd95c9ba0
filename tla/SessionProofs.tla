--------------------------- MODULE SessionProofs ---------------------------
(***************************************************************************)
(* The session of a page, for any number of handlers at once: the gate     *)
(* admits one of them at a time, the counter of operations is exact, and   *)
(* no operation has its actors cleared or rebuilt under it.                *)
(*                                                                         *)
(* A step of a handler is described by what it does to the gate and to the *)
(* counter; one lemma per action says which of the few kinds it is of.     *)
(***************************************************************************)
EXTENDS Session, FiniteSetTheorems, TLAPS

\* Whoever is in the gate got there while no operation was in flight, and none
\* begins as long as he is.
GateIsIdle == holder # NoTask => ops = 0

IInv == TypeOK /\ GateExclusive /\ OperationsHaveActors /\ GateIsIdle

Flies(t) == At(t, "running") /\ task[t].kind \in Operations

\* What a step of task t does to the gate ...
KeepsGate(t) == holder' = holder /\ (task[t].pc \in InGate <=> task'[t].pc \in InGate)
Enters(t) == /\ holder = NoTask /\ holder' = t
             /\ task'[t].pc \in InGate
Leaves(t) == /\ task[t].pc \in InGate /\ task'[t].pc \notin InGate
             /\ holder' = NoTask

\* ... and to the counter and the actors.
KeepsCount(t) == /\ ops' = ops /\ (Flies(t) <=> Flies(t)')
                 /\ ops > 0 => actors' = actors
Begins(t) == /\ ~Flies(t) /\ Flies(t)' /\ actors'
             /\ ops' = ops + 1
             /\ holder' = NoTask
             /\ ops > 0 => actors' = actors
Ends(t) == /\ Flies(t) /\ ~Flies(t)' /\ actors' = actors
           /\ ops' = IF ops > 0 THEN ops - 1 ELSE 0

TaskStep(t) ==
  /\ \A u \in Tasks \ {t} : task'[u] = task[u]
  /\ KeepsGate(t) \/ Enters(t) \/ Leaves(t)
  /\ KeepsCount(t) \/ Begins(t) \/ Ends(t)
  /\ Enters(t) => ops = 0 /\ ops' = 0

-----------------------------------------------------------------------------
(* The kinds of steps keep the invariant *)

LEMMA InFlightFinite == InFlight \subseteq Tasks /\ IsFiniteSet(InFlight)
<1>1. InFlight \in SUBSET Tasks
  BY DEF InFlight
<1>2. QED
  BY <1>1, FS_Subset, SessionAssumption

\* The set of operations in flight changes by the task that steps.
LEMMA InFlightOthers ==
  ASSUME NEW t \in Tasks, \A u \in Tasks \ {t} : task'[u] = task[u]
  PROVE  /\ (Flies(t) <=> Flies(t)') => InFlight' = InFlight
         /\ ~Flies(t) /\ Flies(t)' => InFlight' = InFlight \cup {t} /\ t \notin InFlight
         /\ Flies(t) /\ ~Flies(t)' => InFlight' = InFlight \ {t} /\ t \in InFlight
<1>1. \A u \in Tasks \ {t} : u \in InFlight <=> u \in InFlight'
  BY DEF InFlight, At
<1>2. (t \in InFlight <=> Flies(t)) /\ (t \in InFlight' <=> Flies(t)')
  BY DEF InFlight, Flies, At
<1>3. InFlight \subseteq Tasks /\ InFlight' \subseteq Tasks
  BY DEF InFlight
<1>4. QED
  BY <1>1, <1>2, <1>3

LEMMA StepKeepsGate ==
  ASSUME IInv, NEW t \in Tasks, TaskStep(t)
  PROVE  GateExclusive'
<1>1. SUFFICES ASSUME NEW u \in Tasks
               PROVE  task'[u].pc \in InGate <=> holder' = u
  BY DEF GateExclusive
<1>2. u # NoTask /\ t # NoTask
  BY SessionAssumption
<1>3. CASE u = t
  BY <1>2, <1>3 DEF IInv, GateExclusive, TaskStep, KeepsGate, Enters, Leaves
<1>4. CASE u # t
  BY <1>2, <1>4 DEF IInv, GateExclusive, TaskStep, KeepsGate, Enters, Leaves
<1>5. QED
  BY <1>3, <1>4

LEMMA StepKeepsCount ==
  ASSUME IInv, NEW t \in Tasks, TaskStep(t)
  PROVE  OperationsHaveActors' /\ GateIsIdle'
<1>1. /\ IsFiniteSet(InFlight) /\ Cardinality(InFlight) \in Nat
      /\ ops = Cardinality(InFlight) /\ (ops > 0 => actors)
  BY InFlightFinite, FS_CardinalityType DEF IInv, OperationsHaveActors
<1>2. \A u \in Tasks \ {t} : task'[u] = task[u]
  BY DEF TaskStep
<1>3. CASE KeepsCount(t)
  <2>1. InFlight' = InFlight
    BY <1>2, <1>3, InFlightOthers DEF KeepsCount
  <2>2. OperationsHaveActors'
    BY <1>1, <1>3, <2>1 DEF KeepsCount, OperationsHaveActors
  <2>3. GateIsIdle'
    BY <1>3 DEF KeepsCount, IInv, GateIsIdle, TaskStep, KeepsGate, Enters, Leaves
  <2>4. QED
    BY <2>2, <2>3
<1>4. CASE Begins(t)
  <2>1. InFlight' = InFlight \cup {t} /\ t \notin InFlight
    BY <1>2, <1>4, InFlightOthers DEF Begins
  <2>2. Cardinality(InFlight') = Cardinality(InFlight) + 1
    BY <1>1, <2>1, FS_AddElement
  <2>3. OperationsHaveActors'
    BY <1>1, <1>4, <2>2 DEF Begins, OperationsHaveActors
  <2>4. GateIsIdle'
    BY <1>4 DEF Begins, GateIsIdle
  <2>5. QED
    BY <2>3, <2>4
<1>5. CASE Ends(t)
  <2>1. InFlight' = InFlight \ {t} /\ t \in InFlight
    BY <1>2, <1>5, InFlightOthers DEF Ends
  <2>2. Cardinality(InFlight') = Cardinality(InFlight) - 1
    BY <1>1, <2>1, FS_RemoveElement
  <2>3. InFlight' \subseteq Tasks /\ IsFiniteSet(InFlight')
    BY <1>1, <2>1, FS_RemoveElement, InFlightFinite
  <2>4. Cardinality(InFlight') \in Nat
    BY <2>3, FS_CardinalityType
  <2>5. OperationsHaveActors'
    BY <1>1, <1>5, <2>2, <2>4 DEF Ends, OperationsHaveActors
  <2>6. GateIsIdle'
    BY <1>1, <1>5, <2>2, <2>4 DEF Ends, IInv, GateIsIdle, TaskStep, KeepsGate, Enters, Leaves
  <2>7. QED
    BY <2>5, <2>6
<1>6. QED
  BY <1>3, <1>4, <1>5 DEF TaskStep
-----------------------------------------------------------------------------
(* The records of tasks *)

LEMMA TaskTyped ==
  ASSUME TypeOK, NEW t \in Tasks
  PROVE  /\ task[t] = [kind |-> task[t].kind, pc |-> task[t].pc]
         /\ task[t].kind \in Kinds /\ task[t].pc \in Pcs
BY DEF TypeOK

LEMMA GotoTyped ==
  ASSUME TypeOK, NEW t \in Tasks, NEW pc \in Pcs, Goto(t, pc)
  PROVE  /\ task' \in [Tasks -> [kind : Kinds, pc : Pcs]]
         /\ task'[t].kind = task[t].kind /\ task'[t].pc = pc
         /\ \A u \in Tasks \ {t} : task'[u] = task[u]
BY TaskTyped DEF TypeOK, Goto

LEMMA EndTyped ==
  ASSUME TypeOK, NEW t \in Tasks, End(t)
  PROVE  /\ task' \in [Tasks -> [kind : Kinds, pc : Pcs]]
         /\ task'[t].kind = "none" /\ task'[t].pc = "idle"
         /\ \A u \in Tasks \ {t} : task'[u] = task[u]
BY DEF TypeOK, End, Idle, Kinds, Pcs

\* An entered or left gate is no operation in flight.
LEMMA PcFacts ==
  /\ InGate \subseteq Pcs
  /\ \A pc \in {"idle", "queued", "running", "pin", "event"} : pc \in Pcs /\ pc \notin InGate
  /\ "refresh" \in InGate /\ "identity" \in InGate /\ "build" \in InGate
  /\ "leaving" \in InGate /\ "running" \notin InGate
BY DEF InGate, Pcs

-----------------------------------------------------------------------------
(* Clicks *)

LEMMA StartStep ==
  ASSUME IInv, NEW t \in Tasks, NEW kind \in Kinds, Start(t, kind),
         busy' \subseteq Operations \cup {"scan"}
  PROVE  TypeOK' /\ TaskStep(t)
<1>1. /\ task' \in [Tasks -> [kind : Kinds, pc : Pcs]]
      /\ task'[t].pc = "queued"
      /\ \A u \in Tasks \ {t} : task'[u] = task[u]
  BY PcFacts DEF IInv, TypeOK, Start
<1>2. task[t].pc = "idle"
  BY DEF Start, At
<1>3. TypeOK'
  BY <1>1 DEF IInv, TypeOK, Start, sessionVars
<1>4. KeepsGate(t)
  BY <1>1, <1>2, PcFacts DEF KeepsGate, Start
<1>5. KeepsCount(t)
  BY <1>1, <1>2 DEF KeepsCount, Flies, At, Start, sessionVars
<1>6. ~Enters(t)
  BY <1>1, PcFacts DEF Enters
<1>7. QED
  BY <1>1, <1>3, <1>4, <1>5, <1>6 DEF TaskStep

LEMMA ClickStep ==
  ASSUME IInv, NEW t \in Tasks, Click(t)
  PROVE  TypeOK' /\ TaskStep(t)
<1>1. CASE ClickSetup(t)
  BY <1>1, StartStep DEF ClickSetup, Kinds, IInv, TypeOK
<1>2. ASSUME NEW kind \in Operations, ClickOperation(t, kind)
      PROVE  TypeOK' /\ TaskStep(t)
  <2>1. kind \in Kinds /\ busy' \subseteq Operations \cup {"scan"}
    BY <1>2 DEF ClickOperation, Kinds, IInv, TypeOK
  <2>2. QED
    BY <1>2, <2>1, StartStep DEF ClickOperation
<1>3. CASE ClickSend(t) \/ ClickClaim(t) \/ ClickWithdraw(t)
  BY <1>2, <1>3 DEF ClickSend, ClickClaim, ClickWithdraw, Operations
<1>4. CASE ClickLogout(t)
  BY <1>4, StartStep DEF ClickLogout, Kinds, IInv, TypeOK
<1>5. CASE ClickScan(t)
  <2>1. /\ task' \in [Tasks -> [kind : Kinds, pc : Pcs]]
        /\ task'[t].pc = "pin" /\ task[t].pc = "idle"
        /\ \A u \in Tasks \ {t} : task'[u] = task[u]
    BY <1>5, PcFacts DEF IInv, TypeOK, ClickScan, Kinds, At
  <2>2. TypeOK'
    BY <1>5, <2>1 DEF IInv, TypeOK, ClickScan, sessionVars, gateVars, uiVars
  <2>3. KeepsGate(t) /\ ~Enters(t)
    BY <1>5, <2>1, PcFacts DEF KeepsGate, Enters, ClickScan, gateVars
  <2>4. KeepsCount(t)
    BY <1>5, <2>1 DEF KeepsCount, Flies, At, ClickScan, sessionVars
  <2>5. QED
    BY <2>1, <2>2, <2>3, <2>4 DEF TaskStep
<1>6. QED
  BY <1>1, <1>3, <1>4, <1>5 DEF Click
-----------------------------------------------------------------------------
(* In the gate *)

\* Nothing is in flight while somebody is in the gate.
LEMMA InGateIdle ==
  ASSUME IInv, NEW t \in Tasks, task[t].pc \in InGate
  PROVE  holder = t /\ ops = 0
BY SessionAssumption DEF IInv, GateExclusive, GateIsIdle

LEMMA DequeueTyped ==
  ASSUME IInv, NEW t \in Tasks, Dequeue(t)
  PROVE  queue' \in Seq(Tasks) /\ holder = NoTask /\ task[t].pc = "queued"
BY DEF IInv, TypeOK, Dequeue, At

LEMMA EnterStep ==
  ASSUME IInv, NEW t \in Tasks, NEW pc \in InGate, Enter(t, pc),
         ops = 0, ops' = ops, level' = level, actors' \in BOOLEAN, UNCHANGED uiVars
  PROVE  TypeOK' /\ TaskStep(t)
<1>1. /\ task' \in [Tasks -> [kind : Kinds, pc : Pcs]] /\ task'[t].pc = pc
      /\ \A u \in Tasks \ {t} : task'[u] = task[u]
  BY GotoTyped, PcFacts DEF Enter, IInv
<1>2. queue' \in Seq(Tasks) /\ holder = NoTask /\ task[t].pc = "queued" /\ holder' = t
  BY DequeueTyped DEF Enter
<1>3. TypeOK'
  BY <1>1, <1>2 DEF IInv, TypeOK, uiVars
<1>4. Enters(t)
  BY <1>1, <1>2 DEF Enters
<1>5. KeepsCount(t)
  BY <1>1, <1>2, PcFacts, TaskTyped DEF KeepsCount, Flies, At, IInv, TypeOK
<1>6. QED
  BY <1>1, <1>3, <1>4, <1>5 DEF TaskStep

\* Admission ends outside of the gate, with an operation in flight or without.
LEMMA AdmitStep ==
  ASSUME IInv, NEW t \in Tasks, Admit(t), ~Flies(t),
         holder' = NoTask, actors', ops > 0 => actors' = actors
  PROVE  /\ task' \in [Tasks -> [kind : Kinds, pc : Pcs]]
         /\ task'[t].pc \notin InGate
         /\ \A u \in Tasks \ {t} : task'[u] = task[u]
         /\ busy' \subseteq Operations \cup {"scan"} /\ ops' \in Nat
         /\ KeepsCount(t) \/ Begins(t)
<1> DEFINE kind == task[t].kind
           refused == kind \in Operations /\ level < Low
<1>1. busy' \subseteq Operations \cup {"scan"} /\ ops' \in Nat
  BY DEF Admit, Unmark, IInv, TypeOK
<1>2. CASE refused \/ kind = "orphan"
  <2>1. End(t) /\ ops' = ops
    BY <1>2 DEF Admit, Operations
  <2>2. /\ task' \in [Tasks -> [kind : Kinds, pc : Pcs]] /\ task'[t].pc = "idle"
        /\ \A u \in Tasks \ {t} : task'[u] = task[u]
    BY <2>1, EndTyped DEF IInv
  <2>3. KeepsCount(t)
    BY <2>1, <2>2 DEF KeepsCount, Flies, At
  <2>4. QED
    BY <1>1, <2>2, <2>3, PcFacts
<1>3. CASE ~refused /\ kind # "orphan" /\ kind \in Operations
  <2>1. Goto(t, "running") /\ ops' = ops + 1
    BY <1>3 DEF Admit, Operations
  <2>2. /\ task' \in [Tasks -> [kind : Kinds, pc : Pcs]]
        /\ task'[t].pc = "running" /\ task'[t].kind = kind
        /\ \A u \in Tasks \ {t} : task'[u] = task[u]
    BY <2>1, GotoTyped, PcFacts DEF IInv
  <2>3. Begins(t)
    BY <1>3, <2>1, <2>2 DEF Begins, Flies, At
  <2>4. QED
    BY <1>1, <2>2, <2>3, PcFacts
<1>4. CASE ~refused /\ kind # "orphan" /\ kind \notin Operations
  <2>1. PICK pc \in {"pin", "running"} : Goto(t, pc) /\ ops' = ops
    BY <1>4 DEF Admit
  <2>2. /\ task' \in [Tasks -> [kind : Kinds, pc : Pcs]]
        /\ task'[t].pc = pc /\ task'[t].kind = kind
        /\ \A u \in Tasks \ {t} : task'[u] = task[u]
    BY <2>1, GotoTyped, PcFacts DEF IInv
  <2>3. KeepsCount(t)
    BY <1>4, <2>1, <2>2 DEF KeepsCount, Flies, At
  <2>4. QED
    BY <1>1, <2>2, <2>3, PcFacts
<1>5. QED
  BY <1>2, <1>3, <1>4

LEMMA BeginStep ==
  ASSUME IInv, NEW t \in Tasks, Begin(t)
  PROVE  TypeOK' /\ TaskStep(t)
<1>1. CASE ~actors /\ Enter(t, "identity") /\ UNCHANGED <<sessionVars, uiVars>>
  <2>1. ops = 0
    BY <1>1 DEF IInv, TypeOK, OperationsHaveActors
  <2>2. "identity" \in InGate /\ actors' \in BOOLEAN
    BY <1>1 DEF InGate, IInv, TypeOK, sessionVars
  <2>3. QED
    BY <1>1, <2>1, <2>2, EnterStep DEF sessionVars
<1>2. CASE /\ actors /\ ops = 0 /\ level < Long
           /\ Enter(t, "refresh") /\ UNCHANGED <<sessionVars, uiVars>>
  <2>1. "refresh" \in InGate /\ actors' \in BOOLEAN
    BY <1>2 DEF InGate, IInv, TypeOK, sessionVars
  <2>2. QED
    BY <1>2, <2>1, EnterStep DEF sessionVars
<1>3. CASE /\ actors /\ (ops > 0 \/ level = Long)
           /\ Dequeue(t) /\ Admit(t) /\ UNCHANGED <<actors, holder>>
  <2>1. queue' \in Seq(Tasks) /\ holder = NoTask /\ task[t].pc = "queued" /\ ~Flies(t)
    BY <1>3, DequeueTyped DEF Flies, At
  <2>2. /\ task' \in [Tasks -> [kind : Kinds, pc : Pcs]]
        /\ task'[t].pc \notin InGate
        /\ \A u \in Tasks \ {t} : task'[u] = task[u]
        /\ busy' \subseteq Operations \cup {"scan"} /\ ops' \in Nat
        /\ KeepsCount(t) \/ Begins(t)
    BY <1>3, <2>1, AdmitStep
  <2>3. TypeOK'
    BY <1>3, <2>1, <2>2 DEF IInv, TypeOK, Admit
  <2>4. KeepsGate(t) /\ ~Enters(t)
    BY <1>3, <2>1, <2>2, PcFacts DEF KeepsGate, Enters
  <2>5. QED
    BY <2>2, <2>3, <2>4 DEF TaskStep
<1>4. QED
  BY <1>1, <1>2, <1>3 DEF Begin
LEMMA FailStep ==
  ASSUME IInv, NEW t \in Tasks, Fail(t)
  PROVE  TypeOK' /\ TaskStep(t)
<1>1. task[t].pc \in InGate /\ task[t].pc # "running"
  BY DEF Fail, InGate
<1>2. /\ task' \in [Tasks -> [kind : Kinds, pc : Pcs]] /\ task'[t].pc = "idle"
      /\ \A u \in Tasks \ {t} : task'[u] = task[u]
  BY EndTyped DEF Fail, IInv
<1>3. TypeOK'
  BY <1>2 DEF IInv, TypeOK, Fail, Release, Unmark, sessionVars
<1>4. Leaves(t) /\ ~Enters(t)
  BY <1>1, <1>2, PcFacts DEF Leaves, Enters, Fail, Release
<1>5. KeepsCount(t)
  BY <1>1, <1>2 DEF KeepsCount, Flies, At, Fail, sessionVars
<1>6. QED
  BY <1>2, <1>3, <1>4, <1>5 DEF TaskStep

\* Refreshed and Identified go on inside the gate.
LEMMA LoginStep ==
  ASSUME IInv, NEW t \in Tasks, Refreshed(t) \/ Identified(t)
  PROVE  TypeOK' /\ TaskStep(t)
<1>1. task[t].pc \in InGate /\ Goto(t, "build") /\ ops' = ops /\ actors' \in BOOLEAN
  BY PcFacts DEF Refreshed, Identified, At, IInv, TypeOK
<1>2. /\ task' \in [Tasks -> [kind : Kinds, pc : Pcs]] /\ task'[t].pc = "build"
      /\ \A u \in Tasks \ {t} : task'[u] = task[u]
  BY <1>1, GotoTyped, PcFacts DEF IInv
<1>3. holder = t /\ ops = 0 /\ t # NoTask
  BY <1>1, InGateIdle, SessionAssumption
<1>4. TypeOK'
  BY <1>1, <1>2 DEF IInv, TypeOK, Refreshed, Identified, gateVars, uiVars, Stale, Long
<1>5. KeepsGate(t) /\ ~Enters(t)
  BY <1>1, <1>2, <1>3, PcFacts DEF KeepsGate, Enters, Refreshed, Identified, gateVars
<1>6. KeepsCount(t)
  <2>1. ~Flies(t) /\ ~Flies(t)'
    BY <1>1, <1>2, PcFacts DEF Flies, At
  <2>2. QED
    BY <1>1, <1>3, <2>1 DEF KeepsCount
<1>7. QED
  BY <1>2, <1>4, <1>5, <1>6 DEF TaskStep

LEMMA BuildStep ==
  ASSUME IInv, NEW t \in Tasks, Build(t)
  PROVE  TypeOK' /\ TaskStep(t)
<1>1. task[t].pc \in InGate /\ ~Flies(t)
  BY PcFacts DEF Build, At, Flies
<1>2. holder = t /\ ops = 0
  BY <1>1, InGateIdle
<1>3. /\ task' \in [Tasks -> [kind : Kinds, pc : Pcs]]
      /\ task'[t].pc \notin InGate
      /\ \A u \in Tasks \ {t} : task'[u] = task[u]
      /\ busy' \subseteq Operations \cup {"scan"} /\ ops' \in Nat
      /\ KeepsCount(t) \/ Begins(t)
  BY <1>1, <1>2, AdmitStep DEF Build, Release
<1>4. TypeOK'
  BY <1>3 DEF IInv, TypeOK, Build, Release, Admit
<1>5. Leaves(t) /\ ~Enters(t)
  BY <1>1, <1>3 DEF Leaves, Enters, Build, Release
<1>6. QED
  BY <1>3, <1>4, <1>5 DEF TaskStep

LEMMA LogoutStep ==
  ASSUME IInv, NEW t \in Tasks, BeginLogout(t) \/ LoggedOut(t) \/ LogoutEvent(t)
  PROVE  TypeOK' /\ TaskStep(t)
<1>1. CASE BeginLogout(t) /\ ops = 0
  <2>1. ~(ops > 0)
    BY <1>1
  <2>2. Enter(t, "leaving") /\ actors' = FALSE /\ UNCHANGED <<level, ops, uiVars>>
    BY <1>1, <2>1, Zenon DEF BeginLogout
  <2>3. QED
    BY <1>1, <2>2, EnterStep, PcFacts
<1>2. CASE BeginLogout(t) /\ ops # 0
  <2>1. Dequeue(t) /\ End(t) /\ UNCHANGED <<actors, holder, level, ops, uiVars>>
    BY <1>2 DEF BeginLogout
  <2>2. queue' \in Seq(Tasks) /\ task[t].pc = "queued"
    BY <2>1, DequeueTyped
  <2>3. /\ task' \in [Tasks -> [kind : Kinds, pc : Pcs]] /\ task'[t].pc = "idle"
        /\ \A u \in Tasks \ {t} : task'[u] = task[u]
    BY <2>1, EndTyped DEF IInv
  <2>4. TypeOK'
    BY <2>1, <2>2, <2>3 DEF IInv, TypeOK, uiVars
  <2>5. KeepsGate(t) /\ KeepsCount(t) /\ ~Enters(t)
    BY <2>1, <2>2, <2>3, PcFacts DEF KeepsGate, KeepsCount, Enters, Flies, At
  <2>6. QED
    BY <2>3, <2>4, <2>5 DEF TaskStep
<1>3. CASE LoggedOut(t)
  <2>1. /\ task' \in [Tasks -> [kind : Kinds, pc : Pcs]] /\ task'[t].pc \in {"event", "idle"}
        /\ \A u \in Tasks \ {t} : task'[u] = task[u]
    <3>1. CASE Goto(t, "event")
      BY <3>1, GotoTyped, PcFacts DEF IInv
    <3>2. CASE End(t)
      BY <3>2, EndTyped DEF IInv
    <3> QED
      BY <1>3, <3>1, <3>2 DEF LoggedOut
  <2>2. task[t].pc = "leaving"
    BY <1>3 DEF LoggedOut, At
  <2>3. TypeOK'
    BY <1>3, <2>1 DEF IInv, TypeOK, LoggedOut, Release, uiVars, Stale, Long
  <2>4. Leaves(t) /\ KeepsCount(t) /\ ~Enters(t)
    BY <1>3, <2>1, <2>2, PcFacts DEF Leaves, KeepsCount, Enters, Flies, At, LoggedOut, Release
  <2>5. QED
    BY <2>1, <2>3, <2>4 DEF TaskStep
<1>4. CASE LogoutEvent(t)
  <2>1. /\ task' \in [Tasks -> [kind : Kinds, pc : Pcs]] /\ task'[t].pc = "idle"
        /\ \A u \in Tasks \ {t} : task'[u] = task[u]
    BY <1>4, EndTyped DEF IInv, LogoutEvent
  <2>2. task[t].pc = "event"
    BY <1>4 DEF LogoutEvent, At
  <2>3. TypeOK'
    BY <1>4, <2>1 DEF IInv, TypeOK, LogoutEvent, Reset, sessionVars, gateVars
  <2>4. KeepsGate(t) /\ KeepsCount(t) /\ ~Enters(t)
    BY <1>4, <2>1, <2>2, PcFacts
    DEF KeepsGate, KeepsCount, Enters, Flies, At, LogoutEvent, sessionVars, gateVars
  <2>5. QED
    BY <2>1, <2>3, <2>4 DEF TaskStep
<1>5. QED
  BY <1>1, <1>2, <1>3, <1>4

LEMMA GateStepKinds ==
  ASSUME IInv, NEW t \in Tasks, GateStep(t)
  PROVE  TypeOK' /\ TaskStep(t)
BY BeginStep, LoginStep, BuildStep, FailStep, LogoutStep DEF GateStep
-----------------------------------------------------------------------------
(* Out of the gate *)

\* A handler between "pin" and "running" counts for nothing, unless it ends an
\* operation.
LEMMA OutsideStep ==
  ASSUME IInv, NEW t \in Tasks, task[t].pc \in {"queued", "pin", "running", "event"},
         task' \in [Tasks -> [kind : Kinds, pc : Pcs]], task'[t].pc \notin InGate,
         \A u \in Tasks \ {t} : task'[u] = task[u],
         UNCHANGED gateVars, actors' = actors, KeepsCount(t) \/ Ends(t)
  PROVE  TaskStep(t)
BY PcFacts DEF TaskStep, KeepsGate, Enters, gateVars

LEMMA ReturnStep ==
  ASSUME IInv, NEW t \in Tasks, Return(t)
  PROVE  TypeOK' /\ TaskStep(t)
<1>1. CASE SetupDone(t) \/ WrongPin(t)
  <2>1. /\ task' \in [Tasks -> [kind : Kinds, pc : Pcs]] /\ task'[t].pc = "idle"
        /\ \A u \in Tasks \ {t} : task'[u] = task[u]
    BY <1>1, EndTyped DEF IInv, SetupDone, WrongPin
  <2>2. task[t].pc = "pin" /\ UNCHANGED <<sessionVars, gateVars>>
    BY <1>1 DEF SetupDone, WrongPin, At
  <2>3. KeepsCount(t) /\ actors' = actors
    BY <2>1, <2>2 DEF KeepsCount, Flies, At, sessionVars
  <2>4. busy' \subseteq Operations \cup {"scan"} /\ setup' \in BOOLEAN /\ key' \in BOOLEAN
    BY <1>1 DEF SetupDone, WrongPin, Reset, uiVars, IInv, TypeOK
  <2>5. TypeOK'
    BY <2>1, <2>2, <2>4 DEF IInv, TypeOK, sessionVars, gateVars
  <2>6. QED
    BY <2>1, <2>2, <2>3, <2>5, OutsideStep, PcFacts
<1>2. CASE ScanVerified(t) \/ ScanDone(t)
  <2>1. PICK pc \in {"running", "idle"} :
          /\ task' \in [Tasks -> [kind : Kinds, pc : Pcs]] /\ task'[t].pc = pc
          /\ task'[t].kind \notin Operations
          /\ \A u \in Tasks \ {t} : task'[u] = task[u]
    BY <1>2, EndTyped, GotoTyped, PcFacts DEF IInv, ScanVerified, ScanDone, Operations
  <2>2. /\ task[t].pc \in {"pin", "running"} /\ task[t].kind \notin Operations
        /\ UNCHANGED <<sessionVars, gateVars>>
    BY <1>2 DEF ScanVerified, ScanDone, At, Operations
  <2>3. KeepsCount(t) /\ actors' = actors
    BY <2>1, <2>2 DEF KeepsCount, Flies, sessionVars
  <2>4. TypeOK'
    BY <1>2, <2>1, <2>2
    DEF IInv, TypeOK, ScanVerified, ScanDone, Unmark, sessionVars, gateVars
  <2>5. QED
    BY <2>1, <2>2, <2>3, <2>4, OutsideStep, PcFacts
<1>3. ASSUME NEW kind \in Operations, EndOperation(t, kind),
             busy' \subseteq Operations \cup {"scan"}, setup' \in BOOLEAN, key' \in BOOLEAN
      PROVE  TypeOK' /\ TaskStep(t)
  <2>1. /\ task' \in [Tasks -> [kind : Kinds, pc : Pcs]] /\ task'[t].pc = "idle"
        /\ \A u \in Tasks \ {t} : task'[u] = task[u]
    BY <1>3, EndTyped DEF IInv, EndOperation
  <2>2. Ends(t)
    BY <1>3, <2>1 DEF Ends, Flies, At, EndOperation
  <2>3. TypeOK'
    BY <1>3, <2>1 DEF IInv, TypeOK, EndOperation, gateVars
  <2>4. QED
    BY <1>3, <2>1, <2>2, <2>3, OutsideStep, PcFacts DEF EndOperation, At
<1>4. CASE SendDone(t)
  BY <1>3, <1>4 DEF SendDone, Unmark, Operations, IInv, TypeOK
<1>5. CASE ClaimDone(t)
  BY <1>3, <1>5 DEF ClaimDone, Unmark, Operations, IInv, TypeOK
<1>6. CASE WithdrawDone(t)
  BY <1>3, <1>6 DEF WithdrawDone, Unmark, Reset, Operations, IInv, TypeOK
<1>7. QED
  BY <1>1, <1>2, <1>4, <1>5, <1>6 DEF Return

LEMMA TimeoutStep ==
  ASSUME IInv, NEW t \in Tasks, SetupTimeout(t)
  PROVE  TypeOK' /\ TaskStep(t)
<1>1. /\ task' \in [Tasks -> [kind : Kinds, pc : Pcs]] /\ task'[t].pc = task[t].pc
      /\ \A u \in Tasks \ {t} : task'[u] = task[u]
  BY DEF IInv, TypeOK, SetupTimeout, Kinds
<1>2. task[t].pc # "running"
  BY DEF SetupTimeout, InGate
<1>3. TypeOK'
  BY <1>1 DEF IInv, TypeOK, SetupTimeout, sessionVars, gateVars, uiVars
<1>4. KeepsGate(t) /\ KeepsCount(t)
  BY <1>1, <1>2 DEF KeepsGate, KeepsCount, Flies, At, SetupTimeout, sessionVars, gateVars
<1>5. ~Enters(t)
  BY <1>1, SessionAssumption DEF Enters, IInv, GateExclusive
<1>6. QED
  BY <1>1, <1>3, <1>4, <1>5 DEF TaskStep

-----------------------------------------------------------------------------
(* Timers and events, which are no task's *)

LEMMA EventStep ==
  ASSUME IInv, SessionExpires \/ Reappear \/ SwitchTab \/ Age \/ UNCHANGED vars
  PROVE  /\ IInv'
         /\ ops > 0 /\ ops' > 0 => actors' = actors
<1>1. /\ UNCHANGED <<task, holder, queue, ops>>
      /\ ops = 0 \/ actors' = actors
  BY DEF SessionExpires, Reappear, SwitchTab, Age, vars, sessionVars, gateVars
<1>2. InFlight' = InFlight
  BY <1>1 DEF InFlight, At
<1>3. TypeOK'
  <2>1. level' \in Stale..Long /\ actors' \in BOOLEAN
    <3>1. level \in Stale..Long /\ actors \in BOOLEAN
      BY DEF IInv, TypeOK
    <3>2. CASE Age
      BY <3>1, <3>2 DEF Age, Stale, Long
    <3>3. CASE SessionExpires \/ Reappear
      BY <3>1, <3>3 DEF SessionExpires, Reappear
    <3>4. CASE SwitchTab \/ UNCHANGED vars
      BY <3>1, <3>4 DEF SwitchTab, vars, sessionVars
    <3>5. QED
      BY <3>2, <3>3, <3>4
  <2>2. setup' \in BOOLEAN /\ key' \in BOOLEAN /\ busy' \subseteq Operations \cup {"scan"}
    BY DEF SessionExpires, Reappear, SwitchTab, Age, vars, Reset, uiVars, IInv, TypeOK
  <2>3. QED
    BY <1>1, <2>1, <2>2 DEF IInv, TypeOK
<1>4. GateExclusive' /\ GateIsIdle'
  BY <1>1 DEF IInv, GateExclusive, GateIsIdle
<1>5. OperationsHaveActors'
  BY <1>1, <1>2 DEF IInv, TypeOK, OperationsHaveActors
<1>6. QED
  BY <1>1, <1>3, <1>4, <1>5 DEF IInv

-----------------------------------------------------------------------------
LEMMA InitHolds == Init => IInv
<1>1. SUFFICES ASSUME Init PROVE IInv
  OBVIOUS
<1>2. \A t \in Tasks : task[t].kind = "none" /\ task[t].pc = "idle"
  BY <1>1 DEF Init, Idle
<1>3. TypeOK
  <2>1. Idle \in [kind : Kinds, pc : Pcs]
    BY DEF Idle, Kinds, Pcs
  <2>2. task \in [Tasks -> [kind : Kinds, pc : Pcs]]
    BY <1>1, <2>1 DEF Init
  <2>3. << >> \in Seq(Tasks)
    OBVIOUS
  <2>4. QED
    BY <1>1, <2>2, <2>3 DEF Init, TypeOK
<1>4. GateExclusive /\ GateIsIdle
  BY <1>1, <1>2, PcFacts, SessionAssumption DEF Init, GateExclusive, GateIsIdle
<1>5. InFlight = {}
  BY <1>2 DEF InFlight, At
<1>6. OperationsHaveActors
  BY <1>1, <1>5, FS_EmptySet DEF Init, OperationsHaveActors
<1>7. QED
  BY <1>3, <1>4, <1>6 DEF IInv

\* The actors are changed by the holder of the gate and by the timers, both
\* while nothing is in flight.
LEMMA NextHolds ==
  ASSUME IInv, [Next]_vars
  PROVE  IInv' /\ (ops > 0 /\ ops' > 0 => actors' = actors)
<1>1. ASSUME NEW t \in Tasks, GateStep(t) \/ Return(t) \/ Click(t) \/ SetupTimeout(t)
      PROVE  IInv' /\ (ops > 0 /\ ops' > 0 => actors' = actors)
  <2>1. TypeOK' /\ TaskStep(t)
    BY <1>1, GateStepKinds, ReturnStep, ClickStep, TimeoutStep
  <2>2. GateExclusive' /\ OperationsHaveActors' /\ GateIsIdle'
    BY <2>1, StepKeepsGate, StepKeepsCount
  <2>3. ops > 0 => actors' = actors
    BY <2>1 DEF TaskStep, KeepsCount, Begins, Ends
  <2>4. QED
    BY <2>1, <2>2, <2>3 DEF IInv
<1>2. CASE SessionExpires \/ Reappear \/ SwitchTab \/ Age \/ UNCHANGED vars
  BY <1>2, EventStep
<1>3. QED
  BY <1>1, <1>2 DEF Next

LEMMA Invariant == Spec => []IInv
BY InitHolds, NextHolds, PTL DEF Spec

\* The states of the session are the typed ones.
THEOREM SessionTyped == Spec => []TypeOK
<1>1. IInv => TypeOK
  BY DEF IInv
<1>2. QED
  BY <1>1, Invariant, PTL

\* However many handlers run at once, one of them at most is between its first
\* await in withAuthGate and its release, and the gate is shut by somebody who
\* is there.
THEOREM GateExcludes == Spec => []GateExclusive
<1>1. IInv => GateExclusive
  BY DEF IInv
<1>2. QED
  BY <1>1, Invariant, PTL

\* The counter that timers and refreshes go by is the number of operations in
\* flight, and they have their actors.
THEOREM CounterIsExact == Spec => []OperationsHaveActors
<1>1. IInv => OperationsHaveActors
  BY DEF IInv
<1>2. QED
  BY <1>1, Invariant, PTL

\* No step that begins and ends with an operation in flight changes the actors.
THEOREM ActorsAreStable == Spec => ActorsStable
<1>1. IInv /\ [Next]_vars => [ops > 0 /\ ops' > 0 => UNCHANGED actors]_vars
  BY NextHolds
<1>2. QED
  BY <1>1, Invariant, PTL DEF Spec, ActorsStable
=============================================================================
