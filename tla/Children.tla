------------------------------ MODULE Children ------------------------------
(***************************************************************************)
(* The life of the canisters of one deposit.  The Factory creates them,    *)
(* installs and initialises them and gives up its control of them, or      *)
(* rolls back (src/motoko/factory/Factory.mo).  In the end I1 and, by its  *)
(* heartbeat, I2 with the Storages and the Witness, take the Factory back  *)
(* as a controller and ask it to be stopped and deleted.  The Witness      *)
(* collects who has announced its destruction and reports to the           *)
(* Noticeboard when all have.                                              *)
(*                                                                         *)
(* A canister is stopped when no call it has begun is unfinished: until    *)
(* then it refuses new calls, and those that wait for it wait.             *)
(***************************************************************************)
EXTENDS Naturals, Sequences, FiniteSets

CONSTANTS
  StorageCount,   \* Storage canisters of a deposit
  MaxRuns,        \* self-destructions of I2 in progress at once
  MaxReports,     \* finalizations of the Witness in progress at once
  MaxMishaps      \* how many calls may be rejected

ASSUME ChildrenAssumption ==
  /\ StorageCount \in Nat \ {0} /\ MaxRuns \in Nat \ {0}
  /\ MaxReports \in Nat \ {0} /\ MaxMishaps \in Nat

\* The canisters, in the order of their creation.
Witness == 1
I1 == 2
I2 == 3
Storages == 4..(3 + StorageCount)
Kids == 1..(3 + StorageCount)

VARIABLES
  spawn,      \* spawn_triplet: its phase, and the canisters still to treat in it
  status,     \* what the platform knows of a canister
  controllers,
  i1,         \* I1: "idle", "reported", "left"
  job,        \* I2's job: "none", "open", "ended"
  listed,     \* I2 still has its list of Storages
  run,        \* the runs of I2's self_destruct
  intents,    \* destroyed_set, and as a set destruction_log
  expected,   \* expected_canisters
  finalized,
  report,     \* the runs of the Witness's auto_finalize
  records,    \* what the Noticeboard has been told
  asked,      \* canisters whose call of cleanup_child is unanswered
  mishaps

spawnVars == <<spawn>>
platformVars == <<status, controllers>>
i2Vars == <<job, listed, run>>
witnessVars == <<intents, expected, finalized, report, records>>
vars == <<spawnVars, platformVars, i1, i2Vars, witnessVars, asked, mishaps>>

Idle == [at |-> "idle", kid |-> I2]
NoReport == [at |-> "none", proofs |-> {}]
Runs == 1..MaxRuns
Reports == 1..MaxReports

Mishap == mishaps < MaxMishaps /\ mishaps' = mishaps + 1
NoMishap == UNCHANGED mishaps

-----------------------------------------------------------------------------
(* spawn_triplet *)

From(first, last) == [i \in 1..(last + 1 - first) |-> first + i - 1]
LastKid == 3 + StorageCount
InOrder == From(1, LastKid)

\* The Witness is initialised last: it has to know all the others.
TodoOf == [create |-> InOrder, install |-> InOrder,
           init |-> From(4, LastKid) \o <<I1, I2, Witness>>,
           blackhole |-> InOrder, done |-> << >>]
PhaseAfter == [create |-> "install", install |-> "init", init |-> "blackhole",
               blackhole |-> "done"]

Init ==
  /\ spawn = [phase |-> "create", todo |-> InOrder]
  /\ status = [c \in Kids |-> "none"] /\ controllers = [c \in Kids |-> {}]
  /\ i1 = "idle" /\ job = "none" /\ listed = FALSE
  /\ run = [k \in Runs |-> Idle]
  /\ intents = {} /\ expected = {} /\ finalized = FALSE
  /\ report = [k \in Reports |-> NoReport] /\ records = {}
  /\ asked = {}
  /\ mishaps = 0

SpawnPhases == {"create", "install", "init", "blackhole"}

\* What the step that has succeeded changes.
Spawned(c) ==
  /\ status' = IF spawn.phase = "create" THEN [status EXCEPT ![c] = "running"] ELSE status
  /\ controllers' = CASE spawn.phase = "create" -> [controllers EXCEPT ![c] = {"factory"}]
                      [] spawn.phase = "blackhole" -> [controllers EXCEPT ![c] = {"self"}]
                      [] OTHER -> controllers
  /\ expected' = IF spawn.phase = "init" /\ c = Witness THEN Kids \ {Witness} ELSE expected
  /\ listed' = (listed \/ (spawn.phase = "init" /\ c = I2))

SpawnStep ==
  LET rest == Tail(spawn.todo)
      next == PhaseAfter[spawn.phase]
  IN
  /\ spawn.phase \in SpawnPhases /\ Spawned(Head(spawn.todo))
  /\ spawn' = IF rest # << >> THEN [spawn EXCEPT !.todo = rest]
              ELSE [phase |-> next, todo |-> TodoOf[next]]
  /\ NoMishap
  /\ UNCHANGED <<i1, job, run, intents, finalized, report, records, asked>>

\* Mutant: the canister whose blackholing has failed is forgotten.
RollbackAfterNext(phase, c) ==
  CASE phase = "create" -> From(1, c - 1)
    [] phase \in {"install", "init"} -> InOrder
    [] phase = "blackhole" /\ c \in Storages -> << >>
    [] phase = "blackhole" /\ c \notin Storages -> From(c + 1, LastKid)

\* The canisters to delete when the step for c has failed.  None is, when only
\* Storages are still controlled: "an unrecoverable edge case".
RollbackAfter(phase, c) ==
  CASE phase = "create" -> From(1, c - 1)
    [] phase \in {"install", "init"} -> InOrder
    [] phase = "blackhole" /\ c \in Storages -> << >>
    [] phase = "blackhole" /\ c \notin Storages -> From(c, LastKid)

SpawnFails ==
  /\ spawn.phase \in SpawnPhases /\ Mishap
  /\ LET left == RollbackAfter(spawn.phase, Head(spawn.todo)) IN
     spawn' = [phase |-> IF left = << >> THEN "failed" ELSE "rollback", todo |-> left]
  /\ UNCHANGED <<platformVars, i1, i2Vars, witnessVars, asked>>

\* rollback: stop and delete one canister after the other, whatever fails (and
\* however much: MaxMishaps does not bound it).
Rollback ==
  LET rest == Tail(spawn.todo) IN
  /\ spawn.phase = "rollback"
  /\ spawn' = [phase |-> IF rest = << >> THEN "failed" ELSE "rollback", todo |-> rest]
  /\ \/ NoMishap /\ status' = [status EXCEPT ![Head(spawn.todo)] = "deleted"]
     \/ /\ mishaps' = mishaps + 1
        /\ \E s \in {"running", "stopped"} : status' = [status EXCEPT ![Head(spawn.todo)] = s]
  /\ UNCHANGED <<controllers, i1, i2Vars, witnessVars, asked>>

-----------------------------------------------------------------------------
(* Witness *)

\* Mutant: the number of canisters decides, and one is miscounted.
AllButOneAnnounced == Cardinality(intents') + 1 >= Cardinality(expected) /\ expected # {}

AllAnnounced == expected \subseteq intents' /\ expected # {}

\* log_destruct_intent, by which the caller has announced its destruction; the
\* last one makes the Witness send itself auto_finalize.
LogIntent(c) ==
  LET free == {k \in Reports : report[k].at = "none"} IN
  /\ status[Witness] = "running" /\ intents' = intents \cup {c}
  /\ report' = IF AllAnnounced /\ ~finalized /\ free # {}
               THEN [report EXCEPT ![CHOOSE k \in free : TRUE].at = "queued"]
               ELSE report
  /\ UNCHANGED <<expected, finalized, records>>

\* A report that its sender makes on a best effort.
TryIntent(c) ==
  \/ LogIntent(c) /\ NoMishap
  \/ status[Witness] # "running" /\ NoMishap /\ UNCHANGED witnessVars
  \/ Mishap /\ UNCHANGED witnessVars

FinalizeBegin(k) ==
  /\ report[k].at = "queued" /\ NoMishap
  /\ report' = [report EXCEPT ![k] =
       IF status[Witness] # "running" \/ finalized THEN NoReport
       ELSE [at |-> "sent", proofs |-> intents]]
  /\ UNCHANGED <<spawnVars, platformVars, i1, i2Vars, intents, expected, finalized,
                 records, asked>>

\* The Noticeboard appends what it is told; finalized is set after the await.
FinalizeEnd(k) ==
  /\ report[k].at = "sent" /\ report' = [report EXCEPT ![k] = NoReport]
  /\ \/ NoMishap /\ records' = records \cup {report[k].proofs} /\ finalized' = TRUE
     \/ Mishap /\ UNCHANGED <<records, finalized>>
  /\ UNCHANGED <<spawnVars, platformVars, i1, i2Vars, intents, expected, asked>>

-----------------------------------------------------------------------------
(* Giving up: a canister adds the Factory to its controllers and calls       *)
(* cleanup_child, without waiting for the answer.                            *)

HandOver(c) ==
  /\ controllers' = [controllers EXCEPT ![c] = {"self", "factory"}]
  /\ asked' = asked \cup {c}

\* I1 has stored the package and announced the deposit: it reports to the
\* Witness, log_ingress first.  When that is rejected, or this, the Witness does
\* not hear of I1's end.
I1Report ==
  /\ spawn.phase = "done" /\ i1 = "idle" /\ i1' = "reported" /\ TryIntent(I1)
  /\ UNCHANGED <<spawnVars, platformVars, i2Vars, asked>>

\* self_destruct follows either way.  (A second store_and_announce would come
\* here again; it is left out.)
I1Leave ==
  /\ i1 = "reported" /\ i1' = "left"
  /\ \/ NoMishap /\ HandOver(I1)
     \/ Mishap /\ UNCHANGED <<controllers, asked>>
  /\ UNCHANGED <<spawnVars, status, i2Vars, witnessVars>>

-----------------------------------------------------------------------------
(* I2 *)

JobStart ==
  /\ spawn.phase = "done" /\ job = "none" /\ status[I2] = "running" /\ job' = "open"
  /\ NoMishap
  /\ UNCHANGED <<spawnVars, platformVars, i1, listed, run, witnessVars, asked>>

\* A job that has paid announces I2's destruction; a failed one does not.
JobEnd ==
  /\ job = "open" /\ job' = "ended"
  /\ TryIntent(I2) \/ (NoMishap /\ UNCHANGED witnessVars)
  /\ UNCHANGED <<spawnVars, platformVars, i1, listed, run, asked>>

\* Mutant: the Witness is asked before the Storages.
AfterKidWitnessFirst(c) ==
  IF c = I2 THEN Witness ELSE IF c = Witness THEN 4 ELSE IF c = LastKid THEN I2 ELSE c + 1

\* Mutant: the loop over the Storages goes one too far.
AfterKidTooFar(c) ==
  IF c = I2 THEN IF listed THEN 4 ELSE Witness
  ELSE IF c = Witness THEN I2 ELSE IF c > LastKid THEN Witness ELSE c + 1

\* The Storages, the Witness, then I2 itself.
AfterKid(c) ==
  IF c = I2 THEN IF listed THEN 4 ELSE Witness
  ELSE IF c = Witness THEN I2 ELSE IF c = LastKid THEN Witness ELSE c + 1

\* self_destruct goes on to the next canister; before its own turn it forgets
\* the Storages.
Proceed(k) ==
  LET c == AfterKid(run[k].kid) IN
  /\ run' = [run EXCEPT ![k] = [at |-> IF c = I2 THEN "settings" ELSE "ask", kid |-> c]]
  /\ listed' = (listed /\ c # I2)

\* heartbeat: the time of destroy_at or MAX_LIFETIME_NS has come.  It comes in
\* every later round too, whatever the earlier ones have got to.
Heartbeat(k) ==
  /\ job # "none" /\ status[I2] = "running" /\ run[k].at = "idle"
  /\ \A h \in 1..(k - 1) : run[h].at # "idle"
  /\ Proceed(k) /\ NoMishap
  /\ UNCHANGED <<spawnVars, platformVars, i1, job, witnessVars, asked>>

\* request_destruct up to the change of its controllers.  A Storage announces
\* its destruction; the Witness empties its lists.
Ask(k) ==
  LET c == run[k].kid IN
  /\ run[k].at = "ask" /\ UNCHANGED <<spawnVars, platformVars, i1, job, asked>>
  /\ \/ /\ status[c] = "running" /\ UNCHANGED listed
        /\ run' = [run EXCEPT ![k].at = "settings"]
        /\ IF c = Witness
           THEN /\ intents' = {} /\ expected' = {} /\ NoMishap
                /\ UNCHANGED <<finalized, report, records>>
           ELSE TryIntent(c)
     \/ /\ IF status[c] = "running" THEN Mishap ELSE NoMishap
        /\ Proceed(k) /\ UNCHANGED witnessVars

\* The rest of request_destruct, or of self_destruct.
Settings(k) ==
  LET c == run[k].kid IN
  /\ run[k].at = "settings"
  /\ \/ NoMishap /\ HandOver(c)
     \/ Mishap /\ UNCHANGED <<controllers, asked>>
  /\ IF c = I2 THEN run' = [run EXCEPT ![k] = Idle] /\ UNCHANGED listed ELSE Proceed(k)
  /\ UNCHANGED <<spawnVars, status, i1, job, witnessVars>>

-----------------------------------------------------------------------------
(* Factory *)

\* What a canister must see the end of before it is stopped.
Unfinished(c) ==
  \/ c \in asked
  \/ c = I2 /\ (job = "open" \/ \E k \in Runs : run[k].at # "idle")
  \/ \E k \in Runs : run[k] = [at |-> "settings", kid |-> c]
  \/ c = Witness /\ \E k \in Reports : report[k].at # "none"

\* Only a controller may stop a canister.
Stop(c) ==
  status' = IF status[c] = "running" /\ "factory" \in controllers[c]
            THEN [status EXCEPT ![c] = "stopping"] ELSE status

\* Mutant: cleanup_child answers after it has killed its caller.
CleanupWaits(c) ==
  /\ c \in asked /\ status[c] # "stopping" /\ NoMishap /\ Stop(c)
  /\ UNCHANGED <<spawnVars, controllers, i1, i2Vars, witnessVars, asked>>

\* cleanup_child answers at once and leaves the execution to a message of its
\* own, which begins with stop_canister.
Cleanup(c) ==
  /\ c \in asked /\ asked' = asked \ {c}
  /\ (NoMishap /\ Stop(c)) \/ (Mishap /\ UNCHANGED status)
  /\ UNCHANGED <<spawnVars, controllers, i1, i2Vars, witnessVars>>

\* It is stopped, and deleted unless delete_canister fails.
KillEnd(c) ==
  /\ status[c] = "stopping" /\ ~Unfinished(c)
  /\ \/ NoMishap /\ status' = [status EXCEPT ![c] = "deleted"]
     \/ Mishap /\ status' = [status EXCEPT ![c] = "stopped"]
  /\ UNCHANGED <<spawnVars, controllers, i1, i2Vars, witnessVars, asked>>

-----------------------------------------------------------------------------
Spawning == SpawnStep \/ SpawnFails \/ Rollback

RunStep(k) == Ask(k) \/ Settings(k)

Next ==
  \/ Spawning
  \/ I1Report \/ I1Leave
  \/ JobStart \/ JobEnd
  \/ \E k \in Runs : Heartbeat(k) \/ RunStep(k)
  \/ \E k \in Reports : FinalizeBegin(k) \/ FinalizeEnd(k)
  \/ \E c \in Kids : Cleanup(c) \/ KillEnd(c)

Spec == Init /\ [][Next]_vars

\* Calls are answered in the end, messages executed, and heartbeats come in
\* every round.  Nobody has to deposit or to claim.
FairSpec ==
  /\ Spec
  /\ WF_vars(JobEnd) /\ WF_vars(I1Leave)
  /\ \A k \in Runs : WF_vars(Heartbeat(k)) /\ WF_vars(RunStep(k))
  /\ \A k \in Reports : WF_vars(FinalizeBegin(k)) /\ WF_vars(FinalizeEnd(k))
  /\ \A c \in Kids : WF_vars(Cleanup(c)) /\ WF_vars(KillEnd(c))

-----------------------------------------------------------------------------
(* Properties *)

Statuses == {"none", "running", "stopping", "stopped", "deleted"}

TypeOK ==
  /\ spawn.phase \in SpawnPhases \cup {"done", "rollback", "failed"}
  /\ spawn.todo \in Seq(Kids)
  /\ status \in [Kids -> Statuses] /\ controllers \in [Kids -> SUBSET {"self", "factory"}]
  /\ i1 \in {"idle", "reported", "left"} /\ job \in {"none", "open", "ended"}
  /\ listed \in BOOLEAN /\ finalized \in BOOLEAN
  /\ run \in [Runs -> [at : {"idle", "ask", "settings"}, kid : Kids \ {I1}]]
  /\ intents \subseteq Kids \ {Witness} /\ expected \in {{}, Kids \ {Witness}}
  /\ report \in [Reports -> [at : {"none", "queued", "sent"}, proofs : SUBSET Kids]]
  /\ records \subseteq SUBSET Kids /\ asked \subseteq Kids /\ mishaps \in Nat

\* A failed spawn leaves no canister, except those that were blackholed before,
\* and Storages when Witness, I1 and I2 were.  (One thing has gone wrong, the
\* step itself: a rollback in which a deletion fails leaves what it could not
\* delete.)
FailedSpawnLeaves ==
  spawn.phase = "failed" /\ mishaps = 1 =>
    \A c \in Kids : status[c] \in {"none", "deleted"} \/ controllers[c] = {"self"}
                    \/ (c \in Storages /\ controllers[I2] = {"self"})

\* A record at the Noticeboard names every canister of the deposit.  (A
\* finalization the Witness runs after it was told to empty its lists does not.)
RecordsComplete == \A r \in records : Kids \ {Witness} \subseteq r \/ expected = {}

\* I2 leaves only when the Witness has given itself up, and the Witness is told
\* to empty its lists only when every Storage has: afterwards nobody would tell
\* them.  Holds for overlapping runs of self_destruct too.
HandedOver(c) == "factory" \in controllers[c]
LeaveInOrder ==
  mishaps = 0 /\ spawn.phase = "done" =>
    /\ HandedOver(I2) => HandedOver(Witness)
    /\ expected = {} => \A c \in Storages : HandedOver(c)

\* When nothing is rejected, every canister of a deposit that was stored and
\* claimed, or whose claim has failed, is deleted: nobody waits for ever, above
\* all no canister for its own end.
ChildrenDestroyed ==
  [](mishaps = 0) =>
    /\ job # "none" ~> \A c \in Kids \ {I1} : status[c] = "deleted"
    /\ i1 # "idle" ~> status[I1] = "deleted"
=============================================================================
