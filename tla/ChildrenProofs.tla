--------------------------- MODULE ChildrenProofs ---------------------------
(***************************************************************************)
(* The life of a deposit's canisters, for any number of Storage canisters, *)
(* overlapping self-destructions and mishaps: what a failed spawn leaves,  *)
(* what the Noticeboard is told, and in which order the canisters give     *)
(* themselves up.                                                          *)
(*                                                                         *)
(* While the Factory spawns nothing else moves; what its list still holds  *)
(* says what has been done.  Afterwards a canister that is no longer       *)
(* running has handed itself over, which is never taken back, and a run of *)
(* self_destruct that has got to a canister has left the ones before it    *)
(* handed over.                                                            *)
(***************************************************************************)
EXTENDS Children, SequenceTheorems, TLAPS

(* The inductive invariant *)

InitOrder == From(4, LastKid) \o <<I1, I2, Witness>>
Rest(s, n) == [i \in 1..(Len(s) - n) |-> s[i + n]]

ChildType ==
  /\ spawn \in [phase : SpawnPhases \cup {"done", "rollback", "failed"}, todo : Seq(Kids)]
  /\ status \in [Kids -> Statuses] /\ controllers \in [Kids -> SUBSET {"self", "factory"}]
  /\ i1 \in {"idle", "reported", "left"} /\ job \in {"none", "open", "ended"}
  /\ listed \in BOOLEAN /\ finalized \in BOOLEAN
  /\ run \in [Runs -> [at : {"idle", "ask", "settings"}, kid : Kids \ {I1}]]
  /\ intents \subseteq Kids \ {Witness} /\ expected \in {{}, Kids \ {Witness}}
  /\ report \in [Reports -> [at : {"none", "queued", "sent"}, proofs : SUBSET Kids]]
  /\ records \subseteq SUBSET Kids /\ asked \subseteq Kids /\ mishaps \in Nat

RunShape ==
  \A k \in Runs : /\ run[k].at = "idle" => run[k].kid = I2
                  /\ run[k].at = "ask" => run[k].kid # I2

\* What a failed spawn may leave.
Left(c) ==
  \/ status[c] \in {"none", "deleted"} \/ controllers[c] = {"self"}
  \/ c \in Storages /\ controllers[I2] = {"self"}

\* The Factory has come to the canister f.
Created(f) ==
  \A c \in Kids : (c < f => status[c] = "running") /\ (c >= f => status[c] = "none")
AllRunning == \A c \in Kids : status[c] = "running"
Blackholed(f) ==
  /\ AllRunning /\ listed /\ expected = Kids \ {Witness}
  /\ \A c \in Kids : c < f => controllers[c] = {"self"}

SpawnShape ==
  \/ \E f \in Kids :
       /\ spawn.todo = From(f, LastKid)
       /\ \/ spawn.phase = "create" /\ Created(f)
          \/ spawn.phase = "install" /\ AllRunning
          \/ spawn.phase = "blackhole" /\ Blackholed(f)
  \/ \E n \in 0..(LastKid - 1) :
       /\ spawn.phase = "init" /\ spawn.todo = Rest(InitOrder, n)
       /\ AllRunning /\ (n = LastKid - 1 => listed)
  \/ \E a, b \in Kids :
       /\ spawn.phase = "rollback" /\ spawn.todo = From(a, b) /\ a <= b
       /\ mishaps # 0
       /\ mishaps = 1 => \A c \in Kids : c \in a..b \/ Left(c)
  \/ /\ spawn.phase = "failed" /\ spawn.todo = << >> /\ mishaps # 0
     /\ mishaps = 1 => \A c \in Kids : Left(c)
  \/ spawn.phase = "done" /\ spawn.todo = << >>

\* Nobody moves before the spawn is done.
Unborn ==
  spawn.phase # "done" =>
    /\ i1 = "idle" /\ job = "none" /\ asked = {} /\ records = {}
    /\ \A k \in Runs : run[k] = Idle
    /\ \A k \in Reports : report[k] = NoReport
    /\ \A c \in Kids : status[c] # "stopping"

StoragesOver == \A c \in Storages : HandedOver(c)

\* Where a run of self_destruct has got to.
RunTrue(k) ==
  LET c == run[k].kid IN
  run[k].at # "idle" =>
    /\ c \in Storages => \A s \in Storages : s < c => HandedOver(s)
    /\ c \in {Witness, I2} => StoragesOver
    /\ c = I2 => HandedOver(Witness)

Leaving ==
  spawn.phase = "done" =>
    /\ \A c \in Kids : status[c] # "running" => HandedOver(c)
    /\ mishaps = 0 =>
         /\ HandedOver(I2) => HandedOver(Witness)
         /\ (~listed \/ expected = {}) => StoragesOver
         /\ \A k \in Runs : RunTrue(k)

\* A report that is under way names everybody, or the lists have been emptied.
ReportsComplete ==
  \/ expected = {}
  \/ /\ \A r \in records : Kids \ {Witness} \subseteq r
     /\ \A k \in Reports :
          /\ report[k].at = "queued" => Kids \ {Witness} \subseteq intents
          /\ report[k].at = "sent" => Kids \ {Witness} \subseteq report[k].proofs

IInv == ChildType /\ RunShape /\ SpawnShape /\ Unborn /\ Leaving /\ ReportsComplete

-----------------------------------------------------------------------------
(* The lists of the spawn *)

LEMMA KidsAre ==
  /\ LastKid \in Nat /\ LastKid >= 4 /\ Kids = 1..LastKid /\ Storages = 4..LastKid
  /\ \A c \in Kids : c \in Nat /\ c >= 1 /\ c <= LastKid
  /\ \A c \in Storages : c \in Nat /\ c >= 4 /\ c <= LastKid
  /\ Storages \subseteq Kids /\ Witness \in Kids /\ I1 \in Kids /\ I2 \in Kids
  /\ 4 \in Storages /\ LastKid \in Storages
  /\ Witness = 1 /\ I1 = 2 /\ I2 = 3
  BY ChildrenAssumption DEF LastKid, Kids, Storages, Witness, I1, I2

LEMMA FromIs ==
  ASSUME NEW a \in Nat, NEW b \in Nat, a <= b + 1, a >= 1, NEW S,
         \A i \in a..b : i \in S
  PROVE  /\ From(a, b) \in Seq(S) /\ Len(From(a, b)) = b + 1 - a
         /\ \A i \in 1..(b + 1 - a) : From(a, b)[i] = a + i - 1
<1>1. b + 1 - a \in Nat
  OBVIOUS
<1>2. \A i \in 1..(b + 1 - a) : a + i - 1 \in a..b
  OBVIOUS
<1> QED
  BY <1>1, <1>2 DEF From

LEMMA FromSteps ==
  ASSUME NEW a \in Nat, NEW b \in Nat, a <= b, a >= 1
  PROVE  /\ From(a, b) # << >> /\ Head(From(a, b)) = a
         /\ Tail(From(a, b)) = From(a + 1, b)
<1>0. /\ a + 1 \in Nat /\ a + 1 <= b + 1 /\ a + 1 >= 1 /\ a <= b + 1
      /\ \A i \in a..b : i \in Nat
      /\ \A i \in (a + 1)..b : i \in Nat
  OBVIOUS
<1>1. /\ From(a, b) \in Seq(Nat) /\ Len(From(a, b)) = b + 1 - a
      /\ \A i \in 1..(b + 1 - a) : From(a, b)[i] = a + i - 1
  BY <1>0, FromIs
<1>2. /\ From(a + 1, b) \in Seq(Nat) /\ Len(From(a + 1, b)) = b + 1 - (a + 1)
      /\ \A i \in 1..(b + 1 - (a + 1)) : From(a + 1, b)[i] = a + 1 + i - 1
  BY <1>0, FromIs
<1>3. PICK s \in Seq(Nat) : s = From(a, b)
  BY <1>1
<1>4. PICK t \in Seq(Nat) : t = From(a + 1, b)
  BY <1>2
<1>5. s # << >> /\ Head(s) = a
  BY <1>1, <1>3
<1>6. /\ Tail(s) \in Seq(Nat) /\ Len(Tail(s)) = Len(s) - 1
      /\ \A i \in 1..Len(Tail(s)) : Tail(s)[i] = s[i + 1]
  BY <1>5, HeadTailProperties
<1>7. Len(Tail(s)) = Len(t)
  BY <1>1, <1>2, <1>3, <1>4, <1>6
<1>8. \A i \in 1..Len(Tail(s)) : Tail(s)[i] = t[i]
  BY <1>1, <1>2, <1>3, <1>4, <1>6
<1>9. Tail(s) = t
  BY <1>4, <1>6, <1>7, <1>8, SeqEqual
<1> QED
  BY <1>3, <1>4, <1>5, <1>9

LEMMA FromEmpty ==
  ASSUME NEW a \in Nat, NEW b \in Nat, a >= 1, a <= b + 1
  PROVE  From(a, b) = << >> <=> a = b + 1
<1>1. From(a, b) \in Seq(Nat) /\ Len(From(a, b)) = b + 1 - a
  BY FromIs
<1> QED
  BY <1>1, EmptySeq

LEMMA InitOrderIs ==
  /\ InitOrder \in Seq(Kids) /\ Len(InitOrder) = LastKid
  /\ InitOrder[LastKid] = Witness /\ InitOrder[LastKid - 1] = I2
  /\ \A i \in 1..(LastKid - 1) : InitOrder[i] # Witness
<1>1. /\ From(4, LastKid) \in Seq(Kids) /\ Len(From(4, LastKid)) = LastKid - 3
      /\ \A i \in 1..(LastKid - 3) : From(4, LastKid)[i] = i + 3
  <2>1. /\ LastKid \in Nat /\ 4 \in Nat /\ 4 >= 1 /\ 4 <= LastKid + 1
        /\ \A i \in 4..LastKid : i \in Kids
    BY KidsAre
  <2>2. /\ From(4, LastKid) \in Seq(Kids)
        /\ Len(From(4, LastKid)) = LastKid + 1 - 4
        /\ \A i \in 1..(LastKid + 1 - 4) : From(4, LastKid)[i] = 4 + i - 1
    BY <2>1, FromIs, Zenon
  <2> QED
    BY <2>1, <2>2
<1>2. PICK s \in Seq(Kids) : s = From(4, LastKid)
  BY <1>1
<1>3. PICK t \in Seq(Kids) : t = <<I1, I2, Witness>>
  <2>1. I1 \in Kids /\ I2 \in Kids /\ Witness \in Kids
    BY KidsAre
  <2>2. <<I1, I2, Witness>> \in Seq(Kids)
    BY <2>1
  <2> QED
    BY <2>2, Zenon
<1>4. Len(t) = 3 /\ t[1] = I1 /\ t[2] = I2 /\ t[3] = Witness
  BY <1>3
<1>5. /\ s \o t \in Seq(Kids) /\ Len(s \o t) = Len(s) + Len(t)
      /\ \A i \in 1..(Len(s) + Len(t)) :
           (s \o t)[i] = IF i <= Len(s) THEN s[i] ELSE t[i - Len(s)]
  BY ConcatProperties
<1>6. PICK q \in Seq(Kids) : q = s \o t /\ q = InitOrder
  BY <1>2, <1>3, <1>5 DEF InitOrder
<1>7. /\ Len(q) = LastKid
      /\ \A i \in 1..LastKid :
           q[i] = IF i <= LastKid - 3 THEN i + 3 ELSE t[i - (LastKid - 3)]
  BY <1>1, <1>2, <1>4, <1>5, <1>6, KidsAre
<1>8. q[LastKid] = Witness /\ q[LastKid - 1] = I2 /\ q[LastKid - 2] = I1
  BY <1>4, <1>7, KidsAre
<1>9. ASSUME NEW i \in 1..(LastKid - 1)
      PROVE  q[i] # Witness
  <2>1. i <= LastKid - 3 \/ i = LastKid - 2 \/ i = LastKid - 1
    BY KidsAre
  <2>2. i <= LastKid - 3 => q[i] = i + 3 /\ i + 3 # 1
    BY <1>7, KidsAre
  <2> QED
    BY <1>8, <2>1, <2>2, KidsAre
<1> QED
  BY <1>6, <1>7, <1>8, <1>9

LEMMA RestSteps ==
  ASSUME NEW n \in 0..(LastKid - 1)
  PROVE  /\ Rest(InitOrder, n) \in Seq(Kids) /\ Rest(InitOrder, n) # << >>
         /\ Head(Rest(InitOrder, n)) = InitOrder[n + 1]
         /\ Tail(Rest(InitOrder, n)) = Rest(InitOrder, n + 1)
         /\ Rest(InitOrder, n + 1) = << >> <=> n = LastKid - 1
         /\ InitOrder = Rest(InitOrder, 0)
<1>1. PICK q \in Seq(Kids) : q = InitOrder /\ Len(q) = LastKid
  BY InitOrderIs
<1>2. ASSUME NEW m \in 0..LastKid
      PROVE  /\ Rest(q, m) \in Seq(Kids) /\ Len(Rest(q, m)) = LastKid - m
             /\ \A i \in 1..(LastKid - m) : Rest(q, m)[i] = q[i + m]
  <2>1. LastKid - m \in Nat /\ \A i \in 1..(LastKid - m) : i + m \in 1..LastKid
    BY KidsAre
  <2>2. \A i \in 1..(LastKid - m) : q[i + m] \in Kids
    BY <1>1, <2>1, ElementOfSeq
  <2> QED
    BY <1>1, <2>1, <2>2 DEF Rest
<1>3. n \in 0..LastKid /\ n + 1 \in 0..LastKid /\ 0 \in 0..LastKid
  BY KidsAre
<1>4. PICK s \in Seq(Kids) : s = Rest(q, n) /\ Len(s) = LastKid - n
                             /\ \A i \in 1..(LastKid - n) : s[i] = q[i + n]
  BY <1>2, <1>3
<1>5. PICK t \in Seq(Kids) : t = Rest(q, n + 1) /\ Len(t) = LastKid - (n + 1)
                             /\ \A i \in 1..(LastKid - (n + 1)) : t[i] = q[i + (n + 1)]
  BY <1>2, <1>3
<1>6. s # << >> /\ Head(s) = q[n + 1]
  BY <1>3, <1>4, KidsAre
<1>7. /\ Tail(s) \in Seq(Kids) /\ Len(Tail(s)) = Len(s) - 1
      /\ \A i \in 1..Len(Tail(s)) : Tail(s)[i] = s[i + 1]
  BY <1>6, HeadTailProperties
<1>8. Len(Tail(s)) = LastKid - n - 1 /\ Len(t) = LastKid - n - 1
  BY <1>3, <1>4, <1>5, <1>7, KidsAre
<1>9. ASSUME NEW i \in 1..Len(Tail(s))
      PROVE  Tail(s)[i] = t[i]
  <2>1. /\ i \in 1..(LastKid - (n + 1)) /\ i + 1 \in 1..(LastKid - n)
        /\ (i + 1) + n = i + (n + 1)
    BY <1>8, KidsAre
  <2>2. Tail(s)[i] = s[i + 1]
    BY <1>7
  <2>3. s[i + 1] = q[(i + 1) + n]
    BY <1>4, <2>1
  <2>4. t[i] = q[i + (n + 1)]
    BY <1>5, <2>1
  <2> QED
    BY <2>1, <2>2, <2>3, <2>4
<1>10. Tail(s) = t
  BY <1>7, <1>8, <1>9, SeqEqual
<1>11. t = << >> <=> n = LastKid - 1
  BY <1>5, EmptySeq, KidsAre
<1>12. q = Rest(q, 0)
  <2>1. /\ Rest(q, 0) \in Seq(Kids) /\ Len(Rest(q, 0)) = LastKid - 0
        /\ \A i \in 1..(LastKid - 0) : Rest(q, 0)[i] = q[i + 0]
    BY <1>2, <1>3
  <2>2. PICK u \in Seq(Kids) : u = Rest(q, 0)
    BY <2>1
  <2>3. Len(u) = Len(q) /\ \A i \in 1..Len(u) : u[i] = q[i]
    BY <1>1, <2>1, <2>2, KidsAre
  <2> QED
    BY <2>2, <2>3, SeqEqual
<1> QED
  BY <1>1, <1>4, <1>5, <1>6, <1>10, <1>11, <1>12

-----------------------------------------------------------------------------
(* The spawn *)

LEMMA TodoIs ==
  /\ TodoOf["install"] = From(1, LastKid) /\ TodoOf["init"] = InitOrder
  /\ TodoOf["blackhole"] = From(1, LastKid) /\ TodoOf["done"] = << >>
  /\ PhaseAfter["create"] = "install" /\ PhaseAfter["install"] = "init"
  /\ PhaseAfter["init"] = "blackhole" /\ PhaseAfter["blackhole"] = "done"
  BY DEF TodoOf, PhaseAfter, InOrder, InitOrder

LEMMA SpawnMoves ==
  ASSUME ChildType, SpawnStep, NEW rest, rest = Tail(spawn.todo),
         NEW next, next = PhaseAfter[spawn.phase]
  PROVE  /\ rest # << >> => spawn' = [phase |-> spawn.phase, todo |-> rest]
         /\ rest = << >> => spawn' = [phase |-> next, todo |-> TodoOf[next]]
  BY DEF ChildType, SpawnStep

LEMMA FromInKids ==
  ASSUME NEW a \in Nat, a >= 1, NEW b \in Nat, b <= LastKid, a <= b + 1
  PROVE  From(a, b) \in Seq(Kids)
<1>1. \A i \in a..b : i \in Kids
  BY KidsAre
<1> QED
  BY <1>1, FromIs

LEMMA RestOf ==
  ASSUME NEW f \in Kids
  PROVE  /\ From(f + 1, LastKid) \in Seq(Kids)
         /\ From(f + 1, LastKid) = << >> <=> f = LastKid
<1>1. PICK g \in Nat : g = f + 1 /\ g >= 1 /\ g <= LastKid + 1 /\ LastKid \in Nat
  BY KidsAre
<1>2. From(g, LastKid) \in Seq(Kids)
  BY <1>1, FromInKids
<1>3. From(g, LastKid) = << >> <=> g = LastKid + 1
  BY <1>1, FromEmpty
<1>4. f \in Nat
  BY KidsAre
<1> QED
  BY <1>1, <1>2, <1>3, <1>4

\* Nobody else moves while the spawn goes on.
LEMMA UnbornKeeps ==
  ASSUME IInv, spawn.phase # "done",
         UNCHANGED <<i1, job, run, intents, finalized, report, records, asked>>,
         ChildType', SpawnShape', \A c \in Kids : status'[c] # "stopping",
         spawn'.phase # "done"
  PROVE  IInv'
<1>1. Unborn'
  BY DEF IInv, Unborn
<1>2. RunShape'
  BY DEF IInv, RunShape
<1>3. ReportsComplete'
  BY DEF IInv, Unborn, ReportsComplete, NoReport
<1>4. Leaving'
  BY DEF Leaving
<1> QED
  BY <1>1, <1>2, <1>3, <1>4 DEF IInv

\* What a step of the spawn does to everything but the spawn.
LEMMA SpawnedType ==
  ASSUME ChildType, SpawnStep, NEW c \in Kids, c = Head(spawn.todo),
         NEW sp \in [phase : SpawnPhases \cup {"done", "rollback", "failed"},
                     todo : Seq(Kids)], spawn' = sp
  PROVE  ChildType'
<1>1. status' \in [Kids -> Statuses]
  BY DEF SpawnStep, Spawned, ChildType, Statuses
<1>2. controllers' \in [Kids -> SUBSET {"self", "factory"}]
  <2>1. CASE spawn.phase \notin {"create", "blackhole"}
    BY <2>1 DEF SpawnStep, Spawned, ChildType
  <2>2. CASE spawn.phase = "create"
    BY <2>2 DEF SpawnStep, Spawned, ChildType
  <2>3. CASE spawn.phase = "blackhole"
    BY <2>3 DEF SpawnStep, Spawned, ChildType
  <2> QED
    BY <2>1, <2>2, <2>3
<1>3. expected' \in {{}, Kids \ {Witness}} /\ listed' \in BOOLEAN
  BY DEF SpawnStep, Spawned, ChildType
<1> QED
  BY <1>1, <1>2, <1>3 DEF ChildType, SpawnStep, NoMishap

LEMMA CreateKeeps ==
  ASSUME IInv, SpawnStep, spawn.phase = "create"
  PROVE  IInv'
<1>1. PICK f \in Kids : spawn.todo = From(f, LastKid) /\ Created(f)
  BY DEF IInv, SpawnShape
<1>2. /\ Head(spawn.todo) = f /\ Tail(spawn.todo) = From(f + 1, LastKid)
      /\ f \in Nat /\ f >= 1 /\ f <= LastKid
  BY <1>1, KidsAre, FromSteps
<1>3. status' = [status EXCEPT ![f] = "running"]
  BY <1>2 DEF SpawnStep, Spawned
<1>4. \A c \in Kids : status'[c] = IF c = f THEN "running" ELSE status[c]
  BY <1>3 DEF IInv, ChildType
<1>5. PICK rest \in Seq(Kids) : rest = From(f + 1, LastKid)
                                /\ (rest = << >> <=> f = LastKid)
  BY RestOf
<1>6. /\ rest # << >> => spawn' = [phase |-> "create", todo |-> rest]
      /\ rest = << >> => spawn' = [phase |-> "install", todo |-> From(1, LastKid)]
  BY <1>2, <1>5, SpawnMoves, TodoIs DEF IInv
<1>7. From(1, LastKid) \in Seq(Kids)
  BY KidsAre, FromInKids
<1>8. ChildType'
  <2>1. PICK sp \in [phase : SpawnPhases \cup {"done", "rollback", "failed"},
                     todo : Seq(Kids)] : spawn' = sp
    BY <1>5, <1>6, <1>7 DEF SpawnPhases
  <2> QED
    BY <1>2, <2>1, SpawnedType DEF IInv
<1>9. SpawnShape'
  <2>1. CASE f = LastKid
    <3>1. AllRunning'
      BY <1>1, <1>4, <2>1, KidsAre DEF AllRunning, Created
    <3>2. spawn'.phase = "install" /\ spawn'.todo = From(1, LastKid) /\ 1 \in Kids
      BY <1>5, <1>6, <2>1, KidsAre
    <3> QED
      BY <3>1, <3>2 DEF SpawnShape
  <2>2. CASE f # LastKid
    <3>1. f + 1 \in Kids
      BY <1>2, <2>2, KidsAre
    <3>2. Created(f + 1)'
      BY <1>1, <1>2, <1>4, KidsAre DEF Created
    <3>3. spawn'.phase = "create" /\ spawn'.todo = From(f + 1, LastKid)
      BY <1>5, <1>6, <2>2
    <3> QED
      BY <3>1, <3>2, <3>3 DEF SpawnShape
  <2> QED
    BY <2>1, <2>2
<1>10. \A c \in Kids : status'[c] # "stopping"
  BY <1>4 DEF IInv, Unborn
<1>11. spawn'.phase # "done"
  BY <1>6
<1>12. UNCHANGED <<i1, job, run, intents, finalized, report, records, asked>>
  BY DEF SpawnStep
<1> QED
  BY <1>8, <1>9, <1>10, <1>11, <1>12, UnbornKeeps

LEMMA InstallKeeps ==
  ASSUME IInv, SpawnStep, spawn.phase = "install"
  PROVE  IInv'
<1>1. PICK f \in Kids : spawn.todo = From(f, LastKid) /\ AllRunning
  BY DEF IInv, SpawnShape
<1>2. /\ Head(spawn.todo) = f /\ Tail(spawn.todo) = From(f + 1, LastKid)
      /\ f \in Nat /\ f >= 1 /\ f <= LastKid
  BY <1>1, KidsAre, FromSteps
<1>3. status' = status
  BY DEF SpawnStep, Spawned
<1>4. AllRunning'
  BY <1>1, <1>3 DEF AllRunning
<1>5. PICK rest \in Seq(Kids) : rest = From(f + 1, LastKid)
                                /\ (rest = << >> <=> f = LastKid)
  BY RestOf
<1>6. /\ rest # << >> => spawn' = [phase |-> "install", todo |-> rest]
      /\ rest = << >> => spawn' = [phase |-> "init", todo |-> InitOrder]
  BY <1>2, <1>5, SpawnMoves, TodoIs DEF IInv
<1>7. ChildType'
  <2>1. PICK sp \in [phase : SpawnPhases \cup {"done", "rollback", "failed"},
                     todo : Seq(Kids)] : spawn' = sp
    BY <1>5, <1>6, InitOrderIs DEF SpawnPhases
  <2> QED
    BY <1>2, <2>1, SpawnedType DEF IInv
<1>8. SpawnShape'
  <2>1. CASE f = LastKid
    <3>1. spawn'.phase = "init" /\ spawn'.todo = Rest(InitOrder, 0)
          /\ 0 \in 0..(LastKid - 1) /\ 0 # LastKid - 1
      BY <1>5, <1>6, <2>1, KidsAre, RestSteps
    <3> QED
      BY <1>4, <3>1 DEF SpawnShape
  <2>2. CASE f # LastKid
    <3>1. f + 1 \in Kids
      BY <1>2, <2>2, KidsAre
    <3>2. spawn'.phase = "install" /\ spawn'.todo = From(f + 1, LastKid)
      BY <1>5, <1>6, <2>2
    <3> QED
      BY <1>4, <3>1, <3>2 DEF SpawnShape
  <2> QED
    BY <2>1, <2>2
<1>9. \A c \in Kids : status'[c] # "stopping"
  BY <1>4 DEF AllRunning
<1>10. spawn'.phase # "done"
  BY <1>6
<1>11. UNCHANGED <<i1, job, run, intents, finalized, report, records, asked>>
  BY DEF SpawnStep
<1> QED
  BY <1>7, <1>8, <1>9, <1>10, <1>11, UnbornKeeps

\* I2 before the Witness, the Witness last.
LEMMA InitialiseKeeps ==
  ASSUME IInv, SpawnStep, spawn.phase = "init"
  PROVE  IInv'
<1>1. PICK n \in 0..(LastKid - 1) :
        /\ spawn.todo = Rest(InitOrder, n) /\ AllRunning
        /\ n = LastKid - 1 => listed
  BY DEF IInv, SpawnShape
<1>2. PICK c \in Kids : c = InitOrder[n + 1] /\ n + 1 \in 1..LastKid
  <2>1. n + 1 \in 1..Len(InitOrder) /\ n + 1 \in 1..LastKid
    BY KidsAre, InitOrderIs
  <2> QED
    BY <2>1, InitOrderIs, ElementOfSeq
<1>3. /\ Head(spawn.todo) = c /\ Tail(spawn.todo) = Rest(InitOrder, n + 1)
      /\ Rest(InitOrder, n + 1) = << >> <=> n = LastKid - 1
  BY <1>1, <1>2, RestSteps
<1>4. /\ status' = status
      /\ n = LastKid - 1 => expected' = Kids \ {Witness} /\ listed'
      /\ n + 1 = LastKid - 1 => listed'
  <2>1. n = LastKid - 1 => n + 1 = LastKid
    BY KidsAre
  <2>2. /\ n = LastKid - 1 => c = Witness
        /\ n + 1 = LastKid - 1 => c = I2
    BY <1>2, <2>1, InitOrderIs
  <2> QED
    BY <1>1, <1>3, <2>2 DEF SpawnStep, Spawned
<1>5. AllRunning'
  BY <1>1, <1>4 DEF AllRunning
<1>6. /\ n # LastKid - 1 => spawn' = [phase |-> "init", todo |-> Rest(InitOrder, n + 1)]
      /\ n = LastKid - 1 => spawn' = [phase |-> "blackhole", todo |-> From(1, LastKid)]
  BY <1>3, SpawnMoves, TodoIs DEF IInv
<1>7. n # LastKid - 1 => n + 1 \in 0..(LastKid - 1)
  BY KidsAre
<1>8. ChildType'
  <2>1. From(1, LastKid) \in Seq(Kids)
    BY KidsAre, FromInKids
  <2>2. n # LastKid - 1 => Rest(InitOrder, n + 1) \in Seq(Kids)
    BY <1>7, RestSteps
  <2>3. PICK sp \in [phase : SpawnPhases \cup {"done", "rollback", "failed"},
                     todo : Seq(Kids)] : spawn' = sp
    BY <1>6, <2>1, <2>2 DEF SpawnPhases
  <2> QED
    BY <1>3, <2>3, SpawnedType DEF IInv
<1>9. SpawnShape'
  <2>1. CASE n = LastKid - 1
    <3>1. Blackholed(1)'
      BY <1>4, <1>5, <2>1, KidsAre DEF Blackholed
    <3>2. spawn'.phase = "blackhole" /\ spawn'.todo = From(1, LastKid) /\ 1 \in Kids
      BY <1>6, <2>1, KidsAre
    <3> QED
      BY <3>1, <3>2 DEF SpawnShape
  <2>2. CASE n # LastKid - 1
    <3>1. spawn'.phase = "init" /\ spawn'.todo = Rest(InitOrder, n + 1)
      BY <1>6, <2>2
    <3> QED
      BY <1>4, <1>5, <1>7, <2>2, <3>1 DEF SpawnShape
  <2> QED
    BY <2>1, <2>2
<1>10. \A k \in Kids : status'[k] # "stopping"
  BY <1>5 DEF AllRunning
<1>11. spawn'.phase # "done"
  BY <1>6
<1>12. UNCHANGED <<i1, job, run, intents, finalized, report, records, asked>>
  BY DEF SpawnStep
<1> QED
  BY <1>8, <1>9, <1>10, <1>11, <1>12, UnbornKeeps

\* The last canister to be blackholed makes room for everybody else: nothing
\* has been handed over, nothing announced.
LEMMA BlackholeKeeps ==
  ASSUME IInv, SpawnStep, spawn.phase = "blackhole"
  PROVE  IInv'
<1>1. PICK f \in Kids : spawn.todo = From(f, LastKid) /\ Blackholed(f)
  BY DEF IInv, SpawnShape
<1>2. /\ Head(spawn.todo) = f /\ Tail(spawn.todo) = From(f + 1, LastKid)
      /\ f \in Nat /\ f >= 1 /\ f <= LastKid
  BY <1>1, KidsAre, FromSteps
<1>3. /\ status' = status /\ listed' /\ expected' = Kids \ {Witness}
      /\ controllers' = [controllers EXCEPT ![f] = {"self"}]
  BY <1>1, <1>2 DEF SpawnStep, Spawned, Blackholed
<1>4. AllRunning'
  BY <1>1, <1>3 DEF AllRunning, Blackholed
<1>5. \A c \in Kids : c <= f => controllers'[c] = {"self"}
  <2>1. \A c \in Kids : controllers'[c] = IF c = f THEN {"self"} ELSE controllers[c]
    BY <1>3 DEF IInv, ChildType
  <2>2. \A c \in Kids : c <= f => c = f \/ c < f
    BY <1>2, KidsAre
  <2> QED
    BY <1>1, <2>1, <2>2 DEF Blackholed
<1>6. PICK rest \in Seq(Kids) : rest = From(f + 1, LastKid)
                                /\ (rest = << >> <=> f = LastKid)
  BY RestOf
<1>7. /\ rest # << >> => spawn' = [phase |-> "blackhole", todo |-> rest]
      /\ rest = << >> => spawn' = [phase |-> "done", todo |-> << >>]
  BY <1>2, <1>6, SpawnMoves, TodoIs DEF IInv
<1>8. ChildType'
  <2>1. PICK sp \in [phase : SpawnPhases \cup {"done", "rollback", "failed"},
                     todo : Seq(Kids)] : spawn' = sp
    BY <1>6, <1>7 DEF SpawnPhases
  <2> QED
    BY <1>2, <2>1, SpawnedType DEF IInv
<1>9. UNCHANGED <<i1, job, run, intents, finalized, report, records, asked, mishaps>>
  BY DEF SpawnStep, NoMishap
<1>10. CASE f # LastKid
  <2>1. f + 1 \in Kids
    BY <1>2, <1>10, KidsAre
  <2>2. \A c \in Kids : c < f + 1 => c <= f
    BY <1>2, KidsAre
  <2>3. Blackholed(f + 1)'
    BY <1>3, <1>4, <1>5, <2>2 DEF Blackholed
  <2>4. spawn'.phase = "blackhole" /\ spawn'.todo = From(f + 1, LastKid)
    BY <1>6, <1>7, <1>10
  <2>5. SpawnShape'
    BY <2>1, <2>3, <2>4 DEF SpawnShape
  <2>6. \A c \in Kids : status'[c] # "stopping"
    BY <1>4 DEF AllRunning
  <2> QED
    BY <1>8, <1>9, <2>4, <2>5, <2>6, UnbornKeeps
<1>11. CASE f = LastKid
  <2>1. spawn'.phase = "done" /\ spawn'.todo = << >>
    BY <1>6, <1>7, <1>11
  <2>2. SpawnShape' /\ Unborn'
    BY <2>1 DEF SpawnShape, Unborn
  <2>3. RunShape'
    BY <1>9 DEF IInv, RunShape
  <2>4. ReportsComplete'
    BY <1>9 DEF IInv, Unborn, ReportsComplete, NoReport
  <2>5. \A c \in Kids : ~HandedOver(c)'
    BY <1>5, <1>11, KidsAre DEF HandedOver
  <2>6. \A k \in Runs : RunTrue(k)'
    BY <1>9 DEF IInv, Unborn, RunTrue, Idle
  <2>7. expected' # {}
    <3>1. I2 \in Kids \ {Witness}
      BY KidsAre
    <3> QED
      BY <1>3, <3>1
  <2>8. Leaving'
    <3>1. \A c \in Kids : status'[c] = "running"
      BY <1>4 DEF AllRunning
    <3>2. ~HandedOver(I2)'
      BY <2>5, KidsAre
    <3> QED
      BY <1>3, <2>6, <2>7, <3>1, <3>2 DEF Leaving
  <2> QED
    BY <1>8, <2>2, <2>3, <2>4, <2>8 DEF IInv
<1> QED
  BY <1>10, <1>11

\* A list of canisters to roll back, or none.
LEMMA RollbackShape ==
  ASSUME NEW a \in Nat, NEW b \in Nat, a >= 1, b <= LastKid, a <= b + 1,
         spawn' = [phase |-> IF From(a, b) = << >> THEN "failed" ELSE "rollback",
                   todo |-> From(a, b)],
         mishaps' # 0, mishaps' = 1 => \A c \in Kids : c \in a..b \/ Left(c)'
  PROVE  SpawnShape' /\ spawn'.phase # "done"
         /\ spawn' \in [phase : SpawnPhases \cup {"done", "rollback", "failed"},
                        todo : Seq(Kids)]
<1>1. From(a, b) = << >> <=> a = b + 1
  BY FromEmpty
<1>2. From(a, b) \in Seq(Kids)
  BY FromInKids
<1>3. CASE a = b + 1
  <2>1. spawn'.phase = "failed" /\ spawn'.todo = << >>
    BY <1>1, <1>3
  <2>2. \A c \in Kids : c \notin a..b
    BY <1>3, KidsAre
  <2>3. SpawnShape'
    BY <2>1, <2>2 DEF SpawnShape
  <2> QED
    BY <1>2, <2>1, <2>3
<1>4. CASE a # b + 1
  <2>1. spawn'.phase = "rollback" /\ spawn'.todo = From(a, b)
    BY <1>1, <1>4
  <2>2. a \in Kids /\ b \in Kids /\ a <= b
    BY <1>4, KidsAre
  <2>3. SpawnShape'
    BY <2>1, <2>2 DEF SpawnShape
  <2> QED
    BY <1>2, <2>1, <2>3
<1> QED
  BY <1>3, <1>4

LEMMA SpawnFailsKeeps ==
  ASSUME IInv, SpawnFails
  PROVE  IInv'
<1>1. /\ spawn.phase \in SpawnPhases /\ mishaps' = mishaps + 1 /\ mishaps \in Nat
      /\ UNCHANGED <<status, controllers>>
  BY DEF SpawnFails, Mishap, platformVars, IInv, ChildType
<1>2. mishaps' # 0 /\ mishaps' \in Nat
  BY <1>1
<1>3. \A c \in Kids : Left(c)' <=> Left(c)
  BY <1>1 DEF Left
<1>4. PICK ph, h : ph = spawn.phase /\ h = Head(spawn.todo)
  OBVIOUS
<1>5. PICK left : left = RollbackAfter(ph, h)
  OBVIOUS
<1>6. spawn' = [phase |-> IF left = << >> THEN "failed" ELSE "rollback", todo |-> left]
  BY <1>4, <1>5 DEF SpawnFails
<1>7. \E a, b \in Nat : /\ a >= 1 /\ b <= LastKid /\ a <= b + 1 /\ left = From(a, b)
                        /\ \A c \in Kids : c \in a..b \/ Left(c)
  <2>1. CASE ph \in {"install", "init"}
    <3>1. left = From(1, LastKid)
      BY <1>5, <2>1 DEF RollbackAfter, InOrder
    <3>2. \A c \in Kids : c \in 1..LastKid
      BY KidsAre
    <3>3. 1 \in Nat /\ LastKid \in Nat /\ 1 <= LastKid + 1 /\ LastKid <= LastKid
      BY KidsAre
    <3> QED
      BY <3>1, <3>2, <3>3
  <2>2. CASE ph \in {"create", "blackhole"}
    <3>1. PICK f \in Kids :
            /\ spawn.todo = From(f, LastKid)
            /\ ph = "create" => Created(f)
            /\ ph = "blackhole" => Blackholed(f)
      BY <1>4, <2>2 DEF IInv, SpawnShape
    <3>2. h = f /\ f \in Nat /\ f >= 1 /\ f <= LastKid /\ LastKid \in Nat
      BY <1>4, <3>1, KidsAre, FromSteps
    <3>3. CASE ph = "create"
      <4>1. left = From(1, f - 1)
        BY <1>5, <3>2, <3>3 DEF RollbackAfter
      <4>2. \A c \in Kids : c \in 1..(f - 1) \/ c >= f
        BY <3>2, KidsAre
      <4>3. \A c \in Kids : c \in 1..(f - 1) \/ Left(c)
        BY <3>1, <3>3, <4>2 DEF Created, Left
      <4>4. 1 \in Nat /\ f - 1 \in Nat /\ f - 1 <= LastKid /\ 1 <= (f - 1) + 1
        BY <3>2
      <4> QED
        BY <4>1, <4>3, <4>4
    <3>4. CASE ph = "blackhole" /\ f \in Storages
      <4>1. left = << >>
        BY <1>5, <3>2, <3>4 DEF RollbackAfter
      <4>2. From(LastKid + 1, LastKid) = << >>
        BY RestOf, KidsAre
      <4>3. \A c \in Kids : c \in Storages \/ c < f
        BY <3>4, KidsAre
      <4>4. I2 < f /\ I2 \in Kids
        BY <3>4, KidsAre
      <4>5. \A c \in Kids : Left(c)
        BY <3>1, <3>4, <4>3, <4>4 DEF Blackholed, Left
      <4>6. LastKid + 1 \in Nat /\ LastKid + 1 >= 1 /\ LastKid <= LastKid
            /\ LastKid + 1 <= LastKid + 1
        BY <3>2
      <4> QED
        BY <3>2, <4>1, <4>2, <4>5, <4>6
    <3>5. CASE ph = "blackhole" /\ f \notin Storages
      <4>1. left = From(f, LastKid)
        BY <1>5, <3>2, <3>5 DEF RollbackAfter
      <4>2. \A c \in Kids : c \in f..LastKid \/ c < f
        BY <3>2, KidsAre
      <4>3. \A c \in Kids : c \in f..LastKid \/ Left(c)
        BY <3>1, <3>5, <4>2 DEF Blackholed, Left
      <4>4. f <= LastKid + 1 /\ LastKid <= LastKid
        BY <3>2
      <4> QED
        BY <3>2, <4>1, <4>3, <4>4
    <3> QED
      BY <2>2, <3>3, <3>4, <3>5
  <2> QED
    BY <1>1, <1>4, <2>1, <2>2 DEF SpawnPhases
<1>8. SpawnShape' /\ spawn'.phase # "done"
      /\ spawn' \in [phase : SpawnPhases \cup {"done", "rollback", "failed"},
                     todo : Seq(Kids)]
  <2>1. PICK a \in Nat, b \in Nat :
          /\ a >= 1 /\ b <= LastKid /\ a <= b + 1 /\ left = From(a, b)
          /\ \A c \in Kids : c \in a..b \/ Left(c)
    BY <1>7
  <2> QED
    BY <1>2, <1>3, <1>6, <2>1, RollbackShape
<1>9. UNCHANGED <<i1, i2Vars, witnessVars, asked>>
  BY DEF SpawnFails
<1>10. ChildType'
  BY <1>1, <1>2, <1>8, <1>9 DEF IInv, ChildType, i2Vars, witnessVars
<1>11. \A c \in Kids : status'[c] # "stopping"
  BY <1>1 DEF IInv, Unborn, SpawnPhases
<1>12. spawn.phase # "done"
  BY <1>1 DEF SpawnPhases
<1> QED
  BY <1>8, <1>9, <1>10, <1>11, <1>12, UnbornKeeps DEF i2Vars, witnessVars

LEMMA RollbackKeeps ==
  ASSUME IInv, Rollback
  PROVE  IInv'
<1>1. /\ spawn.phase = "rollback" /\ UNCHANGED <<controllers, i1, i2Vars, witnessVars, asked>>
      /\ mishaps \in Nat
  BY DEF Rollback, IInv, ChildType
<1>2. PICK a \in Kids, b \in Kids :
        /\ spawn.todo = From(a, b) /\ a <= b /\ mishaps # 0
        /\ mishaps = 1 => \A c \in Kids : c \in a..b \/ Left(c)
  BY <1>1 DEF IInv, SpawnShape
<1>3. a \in Nat /\ b \in Nat /\ a >= 1 /\ b <= LastKid
  BY KidsAre
<1>4. Head(spawn.todo) = a /\ Tail(spawn.todo) = From(a + 1, b)
  BY <1>2, <1>3, FromSteps
<1>5. spawn' = [phase |-> IF From(a + 1, b) = << >> THEN "failed" ELSE "rollback",
                todo |-> From(a + 1, b)]
  BY <1>4 DEF Rollback
<1>6. PICK s \in {"deleted", "running", "stopped"} :
        /\ status' = [status EXCEPT ![a] = s]
        /\ mishaps' = IF s = "deleted" THEN mishaps ELSE mishaps + 1
  BY <1>4 DEF Rollback, NoMishap
<1>7. /\ status'[a] = s /\ \A c \in Kids \ {a} : status'[c] = status[c]
      /\ status' \in [Kids -> Statuses]
  BY <1>6 DEF IInv, ChildType, Statuses
<1>8. mishaps' # 0 /\ mishaps' \in Nat
      /\ (mishaps' = 1 => mishaps = 1 /\ s = "deleted")
  BY <1>1, <1>2, <1>6
<1>9. mishaps' = 1 => \A c \in Kids : c \in (a + 1)..b \/ Left(c)'
  <2> SUFFICES ASSUME mishaps' = 1, NEW c \in Kids, c \notin (a + 1)..b
               PROVE  Left(c)'
    OBVIOUS
  <2>1. c = a \/ c \notin a..b
    BY <1>3, KidsAre
  <2>2. CASE c = a
    BY <1>7, <1>8, <2>2 DEF Left
  <2>3. CASE c # a
    BY <1>1, <1>2, <1>7, <1>8, <2>1, <2>3 DEF Left
  <2> QED
    BY <2>2, <2>3
<1>10. SpawnShape' /\ spawn'.phase # "done"
       /\ spawn' \in [phase : SpawnPhases \cup {"done", "rollback", "failed"},
                      todo : Seq(Kids)]
  <2>1. PICK g \in Nat : g = a + 1 /\ g >= 1 /\ g <= b + 1
    BY <1>2, <1>3
  <2> QED
    BY <1>3, <1>5, <1>8, <1>9, <2>1, RollbackShape
<1>11. ChildType'
  BY <1>1, <1>7, <1>8, <1>10 DEF IInv, ChildType, i2Vars, witnessVars
<1>12. \A c \in Kids : status'[c] # "stopping"
  BY <1>1, <1>7 DEF IInv, Unborn
<1> QED
  BY <1>1, <1>10, <1>11, <1>12, UnbornKeeps DEF i2Vars, witnessVars

LEMMA SpawningKeeps ==
  ASSUME IInv, Spawning
  PROVE  IInv'
<1>1. CASE SpawnStep
  BY <1>1, CreateKeeps, InstallKeeps, InitialiseKeeps, BlackholeKeeps
     DEF SpawnStep, SpawnPhases
<1> QED
  BY <1>1, SpawnFailsKeeps, RollbackKeeps DEF Spawning

-----------------------------------------------------------------------------
(* Afterwards *)

LEMMA DoneKeeps ==
  ASSUME spawn.phase = "done", IInv, UNCHANGED spawn,
         ChildType', RunShape', Leaving', ReportsComplete'
  PROVE  IInv'
  BY DEF IInv, SpawnShape, Unborn, SpawnPhases

\* Whoever moves is there because the spawn is done.
LEMMA SpawnDone ==
  ASSUME IInv, \/ job # "none" \/ asked # {} \/ \E k \in Runs : run[k].at # "idle"
               \/ \E k \in Reports : report[k].at # "none"
               \/ \E c \in Kids : status[c] = "stopping"
  PROVE  spawn.phase = "done"
  BY DEF IInv, Unborn, Idle, NoReport

\* Nothing that has been handed over is taken back.
Onward == \A c \in Kids : HandedOver(c) => HandedOver(c)'

MishapsGrow == mishaps' \in {mishaps, mishaps + 1}

LEMMA MishapsAre ==
  ASSUME ChildType, MishapsGrow
  PROVE  mishaps' \in Nat /\ (mishaps' = 0 => mishaps = 0)
  BY DEF ChildType, MishapsGrow

LEMMA RunStays ==
  ASSUME Onward, NEW k \in Runs, RunTrue(k), run'[k].at # "idle" => run[k].at # "idle",
         run'[k].kid = run[k].kid
  PROVE  RunTrue(k)'
<1>1. \A s \in Storages : HandedOver(s) => HandedOver(s)'
  BY KidsAre DEF Onward
<1>2. HandedOver(Witness) => HandedOver(Witness)'
  BY KidsAre DEF Onward
<1> QED
  BY <1>1, <1>2 DEF RunTrue, StoragesOver

\* A step which moves no run and hands nothing over but, perhaps, I1.
LEMMA LeavingStays ==
  ASSUME IInv, spawn.phase = "done", UNCHANGED <<listed, run, expected>>, MishapsGrow,
         Onward, HandedOver(I2)' => HandedOver(I2),
         \A c \in Kids : status'[c] # "running" => status[c] # "running" \/ HandedOver(c)'
  PROVE  Leaving'
<1>1. mishaps' = 0 => mishaps = 0
  BY MishapsAre DEF IInv
<1>2. \A c \in Kids : status'[c] # "running" => HandedOver(c)'
  BY DEF IInv, Leaving, Onward
<1>3. mishaps = 0 => \A k \in Runs : RunTrue(k)'
  BY RunStays DEF IInv, Leaving
<1>4. HandedOver(Witness) => HandedOver(Witness)'
  BY KidsAre DEF Onward
<1>5. StoragesOver => StoragesOver'
  BY KidsAre DEF Onward, StoragesOver
<1> QED
  BY <1>1, <1>2, <1>3, <1>4, <1>5 DEF IInv, Leaving

\* The run that overlaps the others goes on to the next canister.
LEMMA ProceedKeeps ==
  ASSUME IInv, spawn.phase = "done", NEW k \in Runs, Proceed(k), MishapsGrow,
         NEW c \in Kids \ {I1}, c = run[k].kid,
         UNCHANGED <<status, expected>>, Onward, HandedOver(I2)' => HandedOver(I2),
         c = I2 <=> run[k].at = "idle",
         mishaps' = 0 /\ c # I2 => HandedOver(c)'
  PROVE  /\ Leaving' /\ RunShape' /\ listed' \in BOOLEAN
         /\ run' \in [Runs -> [at : {"idle", "ask", "settings"}, kid : Kids \ {I1}]]
<1>2. c \in Storages \cup {Witness, I2}
  BY KidsAre
<1>3. PICK n \in Kids \ {I1} :
        /\ n = AfterKid(c)
        /\ c = I2 => n = IF listed THEN 4 ELSE Witness
        /\ c = Witness => n = I2
        /\ c = LastKid => n = Witness
        /\ c \in Storages /\ c # LastKid => n = c + 1
  <2>1. CASE c = I2
    BY <2>1, KidsAre DEF AfterKid
  <2>2. CASE c = Witness
    BY <2>2, KidsAre DEF AfterKid
  <2>3. CASE c = LastKid
    BY <2>3, KidsAre DEF AfterKid
  <2>4. CASE c \in Storages /\ c # LastKid
    <3>1. c + 1 \in Kids \ {I1} /\ c # I2 /\ c # Witness
      BY <2>4, KidsAre
    <3> QED
      BY <2>4, <3>1 DEF AfterKid
  <2> QED
    BY <1>2, <2>1, <2>2, <2>3, <2>4
<1>4. PICK r \in [at : {"ask", "settings"}, kid : Kids \ {I1}] :
        /\ r = [at |-> IF n = I2 THEN "settings" ELSE "ask", kid |-> n]
        /\ r.kid = n /\ (r.at = "ask" => n # I2) /\ r.at # "idle"
  <2>1. PICK at \in {"ask", "settings"} : at = IF n = I2 THEN "settings" ELSE "ask"
    OBVIOUS
  <2> DEFINE r == [at |-> at, kid |-> n]
  <2>2. r \in [at : {"ask", "settings"}, kid : Kids \ {I1}] /\ r.kid = n /\ r.at = at
    OBVIOUS
  <2> QED
    BY <2>1, <2>2
<1>5. run' = [run EXCEPT ![k] = r] /\ listed' = (listed /\ n # I2)
  BY <1>3, <1>4 DEF Proceed
<1>6. /\ run' \in [Runs -> [at : {"idle", "ask", "settings"}, kid : Kids \ {I1}]]
      /\ run'[k] = r /\ \A h \in Runs \ {k} : run'[h] = run[h]
  BY <1>4, <1>5 DEF IInv, ChildType
<1>7. RunShape'
  BY <1>4, <1>6 DEF IInv, RunShape
<1>8. listed' \in BOOLEAN
  BY <1>5 DEF IInv, ChildType
<1>9. \A d \in Kids : status'[d] # "running" => HandedOver(d)'
  BY DEF IInv, Leaving, Onward
<1>10. ASSUME mishaps' = 0
       PROVE  /\ HandedOver(I2)' => HandedOver(Witness)'
              /\ (~listed' \/ expected' = {}) => StoragesOver'
              /\ \A h \in Runs : RunTrue(h)'
  <2>1. mishaps = 0
    BY <1>10, MishapsAre DEF IInv
  <2>2. /\ HandedOver(I2) => HandedOver(Witness)
        /\ (~listed \/ expected = {}) => StoragesOver
        /\ \A h \in Runs : RunTrue(h)
    BY <2>1 DEF IInv, Leaving
  <2>3. /\ StoragesOver => StoragesOver'
        /\ HandedOver(Witness) => HandedOver(Witness)'
        /\ \A s \in Storages : HandedOver(s) => HandedOver(s)'
    BY KidsAre DEF Onward, StoragesOver
  <2>4. c # I2 => /\ HandedOver(c)'
                  /\ c \in Storages => \A s \in Storages : s < c => HandedOver(s)
                  /\ c = Witness => StoragesOver
    <3>1. c # I2 => HandedOver(c)'
      BY <1>10
    <3>2. RunTrue(k)
      BY <2>2
    <3> QED
      BY <3>1, <3>2 DEF RunTrue
  <2>5. n \in {Witness, I2} => StoragesOver'
    <3>1. CASE c = I2
      BY <1>3, <2>2, <2>3, <3>1, KidsAre
    <3>2. CASE c = Witness
      BY <2>3, <2>4, <3>2, KidsAre
    <3>3. CASE c = LastKid
      <4>1. \A s \in Storages : s < c => HandedOver(s)'
        BY <2>3, <2>4, <3>3, KidsAre
      <4>2. \A s \in Storages : s < c \/ s = c
        BY <3>3, KidsAre
      <4> QED
        BY <2>4, <3>3, <4>1, <4>2, KidsAre DEF StoragesOver
    <3>4. CASE c \in Storages /\ c # LastKid
      BY <1>3, <3>4, KidsAre
    <3> QED
      BY <1>2, <3>1, <3>2, <3>3, <3>4
  <2>6. n = I2 => HandedOver(Witness)'
    <3>1. n = I2 => c = Witness
      BY <1>2, <1>3, KidsAre
    <3> QED
      BY <2>4, <3>1, KidsAre
  <2>7. n \in Storages => \A s \in Storages : s < n => HandedOver(s)'
    <3>1. CASE n = 4
      BY <3>1, KidsAre
    <3>2. CASE n # 4 /\ n \in Storages
      <4>1. c \in Storages /\ n = c + 1
        BY <1>2, <1>3, <3>2, KidsAre
      <4>2. \A s \in Storages : s < n => s < c \/ s = c
        BY <4>1, KidsAre
      <4>3. \A s \in Storages : s < c => HandedOver(s)'
        BY <2>3, <2>4, <4>1, KidsAre
      <4> QED
        BY <2>4, <4>1, <4>2, <4>3, KidsAre
    <3> QED
      BY <3>1, <3>2
  <2>8. RunTrue(k)'
    BY <1>4, <1>6, <2>5, <2>6, <2>7 DEF RunTrue
  <2>9. \A h \in Runs \ {k} : RunTrue(h)'
    BY <1>6, <2>2, RunStays
  <2>10. (~listed' \/ expected' = {}) => StoragesOver'
    BY <1>5, <2>2, <2>3, <2>5
  <2> QED
    BY <2>2, <2>3, <2>8, <2>9, <2>10
<1>11. Leaving'
  BY <1>9, <1>10 DEF Leaving
<1> QED
  BY <1>6, <1>7, <1>8, <1>11

-----------------------------------------------------------------------------
(* The Witness *)

\* The last announcement starts a report when everybody has been announced.
LEMMA IntentKeeps ==
  ASSUME ChildType, ReportsComplete, NEW c \in Kids \ {Witness},
         LogIntent(c) \/ UNCHANGED witnessVars
  PROVE  /\ UNCHANGED <<expected, records, finalized>>
         /\ intents' \subseteq Kids \ {Witness}
         /\ report' \in [Reports -> [at : {"none", "queued", "sent"}, proofs : SUBSET Kids]]
         /\ ReportsComplete'
<1>1. CASE UNCHANGED witnessVars
  BY <1>1 DEF ChildType, ReportsComplete, witnessVars
<1>2. CASE LogIntent(c)
  <2>1. UNCHANGED <<expected, records, finalized>> /\ intents' = intents \cup {c}
    BY <1>2 DEF LogIntent
  <2>2. CASE report' = report
    BY <2>1, <2>2 DEF ChildType, ReportsComplete
  <2>3. CASE report' # report
    <3>1. PICK free : free = {k \in Reports : report[k].at = "none"}
      OBVIOUS
    <3>2. /\ free # {} /\ AllAnnounced
          /\ report' = [report EXCEPT ![CHOOSE k \in free : TRUE].at = "queued"]
      BY <1>2, <2>3, <3>1 DEF LogIntent
    <3>3. PICK k \in free : k = CHOOSE h \in free : TRUE
      BY <3>2
    <3>4. k \in Reports /\ report' = [report EXCEPT ![k].at = "queued"]
      BY <3>1, <3>2, <3>3
    <3>5. /\ report'[k].at = "queued" /\ \A h \in Reports \ {k} : report'[h] = report[h]
          /\ report' \in [Reports -> [at : {"none", "queued", "sent"}, proofs : SUBSET Kids]]
      BY <3>4 DEF ChildType
    <3>6. expected = Kids \ {Witness} /\ Kids \ {Witness} \subseteq intents'
      BY <2>1, <3>2 DEF AllAnnounced, ChildType
    <3>7. ReportsComplete'
      BY <2>1, <3>5, <3>6 DEF ReportsComplete
    <3> QED
      BY <2>1, <3>5, <3>7 DEF ChildType
  <2> QED
    BY <2>2, <2>3
<1> QED
  BY <1>1, <1>2

LEMMA TryIntentMeans ==
  ASSUME NEW c, TryIntent(c)
  PROVE  MishapsGrow /\ (LogIntent(c) \/ UNCHANGED witnessVars)
  BY DEF TryIntent, MishapsGrow, Mishap, NoMishap

LEMMA FinalizeKeeps ==
  ASSUME IInv, NEW k \in Reports, FinalizeBegin(k) \/ FinalizeEnd(k)
  PROVE  IInv'
<1>1. /\ spawn.phase = "done" /\ MishapsGrow
      /\ UNCHANGED <<spawn, status, controllers, i1, job, listed, run, intents, expected,
                     asked>>
  <2>1. spawn.phase = "done"
    BY SpawnDone DEF FinalizeBegin, FinalizeEnd
  <2> QED
    BY <2>1 DEF FinalizeBegin, FinalizeEnd, MishapsGrow, Mishap, NoMishap, spawnVars,
                platformVars, i2Vars
<1>2. Leaving'
  BY <1>1, LeavingStays DEF Onward, HandedOver
<1>3. RunShape'
  BY <1>1 DEF IInv, RunShape
<1>4. /\ report \in [Reports -> [at : {"none", "queued", "sent"}, proofs : SUBSET Kids]]
      /\ intents \subseteq Kids /\ records \subseteq SUBSET Kids /\ finalized \in BOOLEAN
      /\ ReportsComplete /\ mishaps \in Nat
  BY DEF IInv, ChildType
<1>5. CASE FinalizeBegin(k)
  <2>1. report[k].at = "queued" /\ UNCHANGED <<records, finalized>>
    BY <1>5 DEF FinalizeBegin
  <2>2. PICK r \in [at : {"none", "queued", "sent"}, proofs : SUBSET Kids] :
          /\ report' = [report EXCEPT ![k] = r]
          /\ r.at = "none" \/ (r.at = "sent" /\ r.proofs = intents)
    <3>1. NoReport \in [at : {"none", "queued", "sent"}, proofs : SUBSET Kids]
          /\ NoReport.at = "none"
      BY DEF NoReport
    <3>2. [at |-> "sent", proofs |-> intents]
            \in [at : {"none", "queued", "sent"}, proofs : SUBSET Kids]
      BY <1>4
    <3> QED
      BY <1>5, <3>1, <3>2 DEF FinalizeBegin
  <2>3. /\ report'[k] = r /\ \A h \in Reports \ {k} : report'[h] = report[h]
        /\ report' \in [Reports -> [at : {"none", "queued", "sent"}, proofs : SUBSET Kids]]
    BY <1>4, <2>2
  <2>4. ReportsComplete'
    BY <1>1, <1>4, <2>1, <2>2, <2>3 DEF ReportsComplete
  <2>5. ChildType'
    BY <1>1, <2>1, <2>3, MishapsAre DEF IInv, ChildType
  <2> QED
    BY <1>1, <1>2, <1>3, <2>4, <2>5, DoneKeeps
<1>6. CASE FinalizeEnd(k)
  <2>1. /\ report[k].at = "sent" /\ report' = [report EXCEPT ![k] = NoReport]
        /\ records' \in {records, records \cup {report[k].proofs}}
        /\ finalized' \in {finalized, TRUE}
    BY <1>6 DEF FinalizeEnd
  <2>2. /\ report'[k].at = "none" /\ \A h \in Reports \ {k} : report'[h] = report[h]
        /\ report' \in [Reports -> [at : {"none", "queued", "sent"}, proofs : SUBSET Kids]]
    BY <1>4, <2>1 DEF NoReport
  <2>3. ReportsComplete'
    BY <1>1, <1>4, <2>1, <2>2 DEF ReportsComplete
  <2>4. records' \subseteq SUBSET Kids /\ finalized' \in BOOLEAN
    <3>1. report[k].proofs \in SUBSET Kids
      BY <1>4
    <3> QED
      BY <1>4, <2>1, <3>1
  <2>5. ChildType'
    BY <1>1, <2>2, <2>4, MishapsAre DEF IInv, ChildType
  <2> QED
    BY <1>1, <1>2, <1>3, <2>3, <2>5, DoneKeeps
<1> QED
  BY <1>5, <1>6

-----------------------------------------------------------------------------
(* Giving up *)

LEMMA HandOverMeans ==
  ASSUME ChildType, NEW c \in Kids, HandOver(c)
  PROVE  /\ controllers' \in [Kids -> SUBSET {"self", "factory"}]
         /\ asked' \subseteq Kids /\ Onward /\ HandedOver(c)'
         /\ \A d \in Kids \ {c} : HandedOver(d)' => HandedOver(d)
<1>1. /\ controllers'[c] = {"self", "factory"}
      /\ \A d \in Kids \ {c} : controllers'[d] = controllers[d]
      /\ controllers' \in [Kids -> SUBSET {"self", "factory"}]
  BY DEF HandOver, ChildType
<1>2. asked' \subseteq Kids
  BY DEF HandOver, ChildType
<1> QED
  BY <1>1, <1>2 DEF Onward, HandedOver

LEMMA I1LeaveKeeps ==
  ASSUME IInv, I1Report \/ I1Leave
  PROVE  IInv'
<1>1. /\ spawn.phase = "done" /\ UNCHANGED <<spawn, status, job, listed, run>>
      /\ i1' \in {"reported", "left"}
  <2>1. CASE I1Report
    BY <2>1 DEF I1Report, spawnVars, platformVars, i2Vars
  <2>2. CASE I1Leave
    BY <2>2 DEF I1Leave, IInv, Unborn, spawnVars, i2Vars
  <2> QED
    BY <2>1, <2>2
<1>2. MishapsGrow /\ (LogIntent(I1) \/ UNCHANGED witnessVars)
  <2>1. CASE I1Report
    BY <2>1, TryIntentMeans DEF I1Report
  <2> QED
    BY <2>1 DEF I1Leave, MishapsGrow, Mishap, NoMishap
<1>3. I1 \in Kids \ {Witness} /\ I2 \in Kids \ {I1}
  BY KidsAre
<1>4. /\ UNCHANGED <<expected, records, finalized>>
      /\ intents' \subseteq Kids \ {Witness}
      /\ report' \in [Reports -> [at : {"none", "queued", "sent"}, proofs : SUBSET Kids]]
      /\ ReportsComplete'
  BY <1>2, <1>3, IntentKeeps DEF IInv
<1>5. /\ controllers' \in [Kids -> SUBSET {"self", "factory"}]
      /\ asked' \subseteq Kids /\ Onward /\ (HandedOver(I2)' => HandedOver(I2))
  <2>1. CASE HandOver(I1)
    BY <1>3, <2>1, HandOverMeans DEF IInv
  <2>2. CASE UNCHANGED <<controllers, asked>>
    BY <2>2 DEF IInv, ChildType, Onward, HandedOver
  <2> QED
    BY <2>1, <2>2 DEF I1Report, I1Leave, platformVars
<1>6. Leaving'
  BY <1>1, <1>2, <1>4, <1>5, LeavingStays
<1>7. RunShape'
  BY <1>1 DEF IInv, RunShape
<1>8. ChildType'
  BY <1>1, <1>2, <1>4, <1>5, MishapsAre DEF IInv, ChildType
<1> QED
  BY <1>1, <1>4, <1>6, <1>7, <1>8, DoneKeeps

LEMMA JobKeeps ==
  ASSUME IInv, JobStart \/ JobEnd
  PROVE  IInv'
<1>1. /\ spawn.phase = "done" /\ job' \in {"none", "open", "ended"}
      /\ UNCHANGED <<spawn, status, controllers, i1, listed, run, asked>>
  <2>1. spawn.phase = "done"
    BY SpawnDone DEF JobStart, JobEnd
  <2> QED
    BY <2>1 DEF JobStart, JobEnd, spawnVars, platformVars
<1>2. MishapsGrow /\ (LogIntent(I2) \/ UNCHANGED witnessVars)
  <2>1. CASE TryIntent(I2)
    BY <2>1, TryIntentMeans
  <2> QED
    BY <2>1 DEF JobStart, JobEnd, MishapsGrow, NoMishap
<1>3. I2 \in Kids \ {Witness}
  BY KidsAre
<1>4. /\ UNCHANGED <<expected, records, finalized>>
      /\ intents' \subseteq Kids \ {Witness}
      /\ report' \in [Reports -> [at : {"none", "queued", "sent"}, proofs : SUBSET Kids]]
      /\ ReportsComplete'
  BY <1>2, <1>3, IntentKeeps DEF IInv
<1>5. Leaving'
  BY <1>1, <1>2, <1>4, LeavingStays DEF Onward, HandedOver
<1>6. RunShape'
  BY <1>1 DEF IInv, RunShape
<1>7. ChildType'
  BY <1>1, <1>2, <1>4, MishapsAre DEF IInv, ChildType
<1> QED
  BY <1>1, <1>4, <1>5, <1>6, <1>7, DoneKeeps

-----------------------------------------------------------------------------
(* self_destruct *)

LEMMA HeartbeatKeeps ==
  ASSUME IInv, NEW k \in Runs, Heartbeat(k)
  PROVE  IInv'
<1>1. /\ spawn.phase = "done" /\ Proceed(k) /\ run[k].at = "idle"
      /\ UNCHANGED <<spawn, status, controllers, i1, job, intents, expected, finalized,
                     report, records, asked, mishaps>>
  <2>1. spawn.phase = "done"
    BY SpawnDone DEF Heartbeat
  <2> QED
    BY <2>1 DEF Heartbeat, spawnVars, platformVars, witnessVars, NoMishap
<1>2. run[k].kid = I2 /\ I2 \in Kids \ {I1}
  BY <1>1, KidsAre DEF IInv, RunShape
<1>3. MishapsGrow /\ Onward /\ (HandedOver(I2)' => HandedOver(I2))
  BY <1>1 DEF MishapsGrow, Onward, HandedOver
<1>4. /\ Leaving' /\ RunShape' /\ listed' \in BOOLEAN
      /\ run' \in [Runs -> [at : {"idle", "ask", "settings"}, kid : Kids \ {I1}]]
  BY <1>1, <1>2, <1>3, ProceedKeeps
<1>5. ChildType'
  BY <1>1, <1>4 DEF IInv, ChildType
<1>6. ReportsComplete'
  BY <1>1 DEF IInv, ReportsComplete
<1> QED
  BY <1>1, <1>4, <1>5, <1>6, DoneKeeps

\* The Witness empties its lists when the run has the Storages behind it.
LEMMA AskKeeps ==
  ASSUME IInv, NEW k \in Runs, Ask(k)
  PROVE  IInv'
<1>1. /\ spawn.phase = "done" /\ run[k].at = "ask"
      /\ UNCHANGED <<spawn, status, controllers, i1, job, asked>>
  <2>1. spawn.phase = "done"
    BY SpawnDone DEF Ask
  <2> QED
    BY <2>1 DEF Ask, spawnVars, platformVars
<1>2. PICK c \in Kids \ {I1} : c = run[k].kid /\ c # I2
  BY <1>1 DEF IInv, ChildType, RunShape
<1>3. Onward /\ (HandedOver(I2)' => HandedOver(I2))
  BY <1>1 DEF Onward, HandedOver
<1>4. CASE UNCHANGED listed /\ run' = [run EXCEPT ![k].at = "settings"]
           /\ (\/ c = Witness /\ intents' = {} /\ expected' = {} /\ NoMishap
                  /\ UNCHANGED <<finalized, report, records>>
               \/ c # Witness /\ TryIntent(c))
  <2>1. /\ run' \in [Runs -> [at : {"idle", "ask", "settings"}, kid : Kids \ {I1}]]
        /\ run'[k].at = "settings" /\ run'[k].kid = c
        /\ \A h \in Runs \ {k} : run'[h] = run[h]
    BY <1>2, <1>4 DEF IInv, ChildType
  <2>2. RunShape'
    BY <2>1 DEF IInv, RunShape
  <2>3. MishapsGrow
    BY <1>4, TryIntentMeans DEF MishapsGrow, NoMishap
  <2>4. mishaps' = 0 => mishaps = 0
    BY <2>3, MishapsAre DEF IInv
  <2>5. /\ intents' \subseteq Kids \ {Witness}
        /\ report' \in [Reports -> [at : {"none", "queued", "sent"}, proofs : SUBSET Kids]]
        /\ UNCHANGED <<records, finalized>> /\ ReportsComplete'
        /\ c = Witness \/ expected' = expected
        /\ expected' \in {{}, Kids \ {Witness}}
    <3>1. CASE c = Witness
      BY <1>4, <3>1 DEF IInv, ChildType, ReportsComplete
    <3>2. CASE c # Witness
      <4>1. c \in Kids \ {Witness} /\ (LogIntent(c) \/ UNCHANGED witnessVars)
        BY <1>4, <3>2, TryIntentMeans
      <4> QED
        BY <4>1, IntentKeeps DEF IInv, ChildType
    <3> QED
      BY <3>1, <3>2
  <2>6. ChildType'
    BY <1>1, <1>4, <2>1, <2>3, <2>5, MishapsAre DEF IInv, ChildType
  <2>7. mishaps = 0 => \A h \in Runs : RunTrue(h) /\ RunTrue(h)'
    <3>1. mishaps = 0 => \A h \in Runs : RunTrue(h)
      BY <1>1 DEF IInv, Leaving
    <3>2. \A h \in Runs : /\ run'[h].at # "idle" => run[h].at # "idle"
                          /\ run'[h].kid = run[h].kid
      BY <1>1, <1>2, <2>1
    <3> QED
      BY <1>3, <3>1, <3>2, RunStays
  <2>8. mishaps = 0 /\ c = Witness => StoragesOver
    BY <1>1, <1>2, <2>7 DEF RunTrue
  <2>9. Leaving'
    <3>1. \A d \in Kids : HandedOver(d)' <=> HandedOver(d)
      BY <1>1 DEF HandedOver
    <3>2. StoragesOver => StoragesOver'
      BY <3>1, KidsAre DEF StoragesOver
    <3>3. /\ HandedOver(I2)' <=> HandedOver(I2)
          /\ HandedOver(Witness)' <=> HandedOver(Witness)
      BY <3>1, KidsAre
    <3> QED
      BY <1>1, <1>4, <2>4, <2>5, <2>7, <2>8, <3>1, <3>2, <3>3 DEF IInv, Leaving
  <2> QED
    BY <1>1, <2>2, <2>5, <2>6, <2>9, DoneKeeps
<1>5. CASE /\ IF status[c] = "running" THEN Mishap ELSE NoMishap
           /\ Proceed(k) /\ UNCHANGED witnessVars
  <2>1. MishapsGrow /\ (mishaps' = 0 => status[c] # "running")
    BY <1>5 DEF MishapsGrow, Mishap, NoMishap, IInv, ChildType
  <2>2. mishaps' = 0 => HandedOver(c)
    BY <1>1, <2>1 DEF IInv, Leaving
  <2>3. HandedOver(c)' <=> HandedOver(c)
    BY <1>1 DEF HandedOver
  <2>4. UNCHANGED <<intents, expected, finalized, report, records>>
    BY <1>5 DEF witnessVars
  <2>5. /\ Leaving' /\ RunShape' /\ listed' \in BOOLEAN
        /\ run' \in [Runs -> [at : {"idle", "ask", "settings"}, kid : Kids \ {I1}]]
    BY <1>1, <1>2, <1>3, <1>5, <2>1, <2>2, <2>3, <2>4, ProceedKeeps
  <2>6. ChildType'
    BY <1>1, <2>1, <2>4, <2>5, MishapsAre DEF IInv, ChildType
  <2>7. ReportsComplete'
    BY <2>4 DEF IInv, ReportsComplete
  <2> QED
    BY <1>1, <2>5, <2>6, <2>7, DoneKeeps
<1> QED
  BY <1>2, <1>4, <1>5 DEF Ask

LEMMA SettingsKeeps ==
  ASSUME IInv, NEW k \in Runs, Settings(k)
  PROVE  IInv'
<1>1. /\ spawn.phase = "done" /\ run[k].at = "settings"
      /\ UNCHANGED <<spawn, status, i1, job, intents, expected, finalized, report, records>>
  <2>1. spawn.phase = "done"
    BY SpawnDone DEF Settings
  <2> QED
    BY <2>1 DEF Settings, spawnVars, witnessVars
<1>2. PICK c \in Kids \ {I1} : c = run[k].kid
  BY DEF IInv, ChildType
<1>3. \/ HandOver(c) /\ NoMishap
      \/ Mishap /\ UNCHANGED <<controllers, asked>>
  BY <1>2 DEF Settings
<1>4. /\ MishapsGrow /\ (mishaps' = 0 => HandOver(c))
      /\ controllers' \in [Kids -> SUBSET {"self", "factory"}]
      /\ asked' \subseteq Kids /\ Onward
      /\ \A d \in Kids \ {c} : HandedOver(d)' => HandedOver(d)
  <2>1. CASE HandOver(c) /\ NoMishap
    BY <2>1, HandOverMeans DEF IInv, MishapsGrow, NoMishap
  <2>2. CASE Mishap /\ UNCHANGED <<controllers, asked>>
    <3>1. MishapsGrow /\ mishaps' # 0
      BY <2>2 DEF Mishap, MishapsGrow, IInv, ChildType
    <3> QED
      BY <2>2, <3>1 DEF IInv, ChildType, Onward, HandedOver
  <2> QED
    BY <1>3, <2>1, <2>2
<1>5. ReportsComplete'
  BY <1>1 DEF IInv, ReportsComplete
<1>6. CASE c = I2
  <2>1. run' = [run EXCEPT ![k] = Idle] /\ UNCHANGED listed
    BY <1>2, <1>6 DEF Settings
  <2>2. /\ run' \in [Runs -> [at : {"idle", "ask", "settings"}, kid : Kids \ {I1}]]
        /\ run'[k] = Idle /\ \A h \in Runs \ {k} : run'[h] = run[h]
    BY <2>1, KidsAre DEF IInv, ChildType, Idle
  <2>3. RunShape'
    BY <2>2 DEF IInv, RunShape, Idle
  <2>4. ChildType'
    BY <1>1, <1>4, <2>1, <2>2, MishapsAre DEF IInv, ChildType
  <2>5. mishaps' = 0 => mishaps = 0
    BY <1>4, MishapsAre DEF IInv
  <2>6. mishaps = 0 => \A h \in Runs : RunTrue(h)
    BY <1>1 DEF IInv, Leaving
  <2>7. \A h \in Runs : /\ run'[h].at # "idle" => run[h].at # "idle"
                        /\ run'[h].kid = run[h].kid
    <3>1. Idle.at = "idle" /\ Idle.kid = I2
      BY DEF Idle
    <3> QED
      BY <1>2, <1>6, <2>2, <3>1
  <2>8. mishaps = 0 => \A h \in Runs : RunTrue(h)'
    BY <1>4, <2>6, <2>7, RunStays
  <2>9. /\ StoragesOver => StoragesOver'
        /\ HandedOver(Witness) => HandedOver(Witness)'
    BY <1>4, KidsAre DEF Onward, StoragesOver
  <2>10. mishaps = 0 => HandedOver(Witness)
    BY <1>1, <1>2, <1>6, <2>6 DEF RunTrue
  <2>11. \A d \in Kids : status'[d] # "running" => HandedOver(d)'
    BY <1>1, <1>4 DEF IInv, Leaving, Onward
  <2>12. Leaving'
    BY <1>1, <2>1, <2>5, <2>8, <2>9, <2>10, <2>11 DEF IInv, Leaving
  <2> QED
    BY <1>1, <1>5, <2>3, <2>4, <2>12, DoneKeeps
<1>7. CASE c # I2
  <2>1. Proceed(k)
    BY <1>2, <1>7 DEF Settings
  <2>2. mishaps' = 0 => HandedOver(c)'
    BY <1>4, HandOverMeans DEF IInv
  <2>3. HandedOver(I2)' => HandedOver(I2)
    BY <1>4, <1>7, KidsAre
  <2>4. /\ Leaving' /\ RunShape' /\ listed' \in BOOLEAN
        /\ run' \in [Runs -> [at : {"idle", "ask", "settings"}, kid : Kids \ {I1}]]
    BY <1>1, <1>2, <1>4, <1>7, <2>1, <2>2, <2>3, ProceedKeeps
  <2>5. ChildType'
    BY <1>1, <1>4, <2>4, MishapsAre DEF IInv, ChildType
  <2> QED
    BY <1>1, <1>5, <2>4, <2>5, DoneKeeps
<1> QED
  BY <1>6, <1>7

-----------------------------------------------------------------------------
(* The Factory's executions *)

LEMMA KillKeeps ==
  ASSUME IInv, NEW c \in Kids, Cleanup(c) \/ KillEnd(c)
  PROVE  IInv'
<1>1. /\ spawn.phase = "done" /\ MishapsGrow
      /\ UNCHANGED <<spawn, controllers, i1, job, listed, run, intents, expected, finalized,
                     report, records>>
  <2>1. spawn.phase = "done"
    BY SpawnDone DEF Cleanup, KillEnd
  <2> QED
    BY <2>1 DEF Cleanup, KillEnd, spawnVars, i2Vars, witnessVars, MishapsGrow, Mishap,
                NoMishap
<1>2. /\ status' \in [Kids -> Statuses] /\ asked' \subseteq Kids
      /\ \A d \in Kids : status'[d] # "running" => status[d] # "running" \/ HandedOver(d)
  <2>1. CASE UNCHANGED status
    BY <2>1 DEF Cleanup, KillEnd, IInv, ChildType
  <2>2. CASE Cleanup(c) /\ Stop(c)
    BY <2>2 DEF Cleanup, Stop, IInv, ChildType, Statuses, HandedOver
  <2>3. CASE KillEnd(c)
    BY <2>3 DEF KillEnd, IInv, ChildType, Statuses
  <2> QED
    BY <2>1, <2>2, <2>3 DEF Cleanup
<1>3. Onward /\ (HandedOver(I2)' => HandedOver(I2))
      /\ \A d \in Kids : HandedOver(d) => HandedOver(d)'
  BY <1>1 DEF Onward, HandedOver
<1>4. Leaving'
  BY <1>1, <1>2, <1>3, LeavingStays
<1>5. RunShape' /\ ReportsComplete'
  BY <1>1 DEF IInv, RunShape, ReportsComplete
<1>6. ChildType'
  BY <1>1, <1>2, MishapsAre DEF IInv, ChildType
<1> QED
  BY <1>1, <1>4, <1>5, <1>6, DoneKeeps

-----------------------------------------------------------------------------
(* The theorems *)

LEMMA InitHolds == Init => IInv
<1> SUFFICES ASSUME Init
             PROVE  IInv
  OBVIOUS
<1>1. From(1, LastKid) \in Seq(Kids)
  BY KidsAre, FromInKids
<1>2. Idle \in [at : {"idle", "ask", "settings"}, kid : Kids \ {I1}]
      /\ NoReport \in [at : {"none", "queued", "sent"}, proofs : SUBSET Kids]
  BY KidsAre DEF Idle, NoReport
<1>3. ChildType
  BY <1>1, <1>2 DEF Init, ChildType, InOrder, SpawnPhases, Statuses
<1>4. RunShape /\ Unborn /\ Leaving /\ ReportsComplete
  BY DEF Init, RunShape, Unborn, Leaving, ReportsComplete, Idle, NoReport
<1>5. SpawnShape
  <2>1. Created(1)
    BY KidsAre DEF Init, Created
  <2>2. spawn.phase = "create" /\ spawn.todo = From(1, LastKid) /\ 1 \in Kids
    BY KidsAre DEF Init, InOrder
  <2> QED
    BY <2>1, <2>2 DEF SpawnShape
<1> QED
  BY <1>3, <1>4, <1>5 DEF IInv

LEMMA NextKeeps == IInv /\ [Next]_vars => IInv'
<1> SUFFICES ASSUME IInv, [Next]_vars
             PROVE  IInv'
  OBVIOUS
<1>1. CASE Spawning \/ I1Report \/ I1Leave \/ JobStart \/ JobEnd
  BY <1>1, SpawningKeeps, I1LeaveKeeps, JobKeeps
<1>2. ASSUME NEW k \in Runs, Heartbeat(k) \/ RunStep(k)
      PROVE  IInv'
  BY <1>2, HeartbeatKeeps, AskKeeps, SettingsKeeps DEF RunStep
<1>3. ASSUME NEW k \in Reports, FinalizeBegin(k) \/ FinalizeEnd(k)
      PROVE  IInv'
  BY <1>3, FinalizeKeeps
<1>4. ASSUME NEW c \in Kids, Cleanup(c) \/ KillEnd(c)
      PROVE  IInv'
  BY <1>4, KillKeeps
<1>5. CASE UNCHANGED vars
  BY <1>5 DEF vars, spawnVars, platformVars, i2Vars, witnessVars, IInv, ChildType, RunShape,
     SpawnShape, Created, AllRunning, Blackholed, Left, Unborn, Leaving, RunTrue,
     StoragesOver, HandedOver, ReportsComplete
<1> QED
  BY <1>1, <1>2, <1>3, <1>4, <1>5 DEF Next

LEMMA InvariantHolds == Spec => []IInv
  BY InitHolds, NextKeeps, PTL DEF Spec

\* Every variable keeps its type: among others spawn_triplet's lists, rest and
\* rollback alike, hold nothing but canisters of the deposit, and no run of
\* self_destruct gets past the last Storage or to I1.
THEOREM ChildrenTypes == Spec => []TypeOK
<1>1. IInv => TypeOK
  BY DEF IInv, ChildType, TypeOK
<1> QED
  BY <1>1, InvariantHolds, PTL

\* A spawn that fails, at any step and with any number of Storages, leaves only
\* canisters that control themselves, and Storages once Witness, I1 and I2 do.
THEOREM FailedSpawnsLeave == Spec => []FailedSpawnLeaves
<1>1. IInv => FailedSpawnLeaves
  <2> SUFFICES ASSUME IInv, spawn.phase = "failed", mishaps = 1, NEW c \in Kids
               PROVE  Left(c)
    BY DEF FailedSpawnLeaves, Left
  <2> QED
    BY DEF IInv, SpawnShape
<1> QED
  BY <1>1, InvariantHolds, PTL

\* Every record at the Noticeboard names all the canisters the Witness expects,
\* unless the Witness has been told to empty its lists: a report is queued only
\* when all have announced themselves, and what it reports is never shorter.
THEOREM RecordsAreComplete == Spec => []RecordsComplete
<1>1. IInv => RecordsComplete
  BY DEF IInv, ReportsComplete, RecordsComplete
<1> QED
  BY <1>1, InvariantHolds, PTL

\* As long as no call is rejected, the overlapping runs of self_destruct hand
\* over every Storage before the Witness empties its lists, and the Witness
\* before I2, however many of them the heartbeats start.
THEOREM TheyLeaveInOrder == Spec => []LeaveInOrder
<1>1. IInv => LeaveInOrder
  BY DEF IInv, Leaving, StoragesOver, LeaveInOrder
<1> QED
  BY <1>1, InvariantHolds, PTL
=============================================================================
