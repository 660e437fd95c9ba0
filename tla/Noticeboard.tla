---------------------------- MODULE Noticeboard -----------------------------
(***************************************************************************)
(* The Noticeboard canister (src/motoko/noticeboard/Noticeboard.mo): a     *)
(* list of announcements in which real ones are mixed with dummies, the    *)
(* dummies' ids kept beside it.  Every operation is a single message.      *)
(*                                                                         *)
(* finalize, which appends to a list of its own, is in Children.  Queries  *)
(* by hint and by bucket have no caller.                                   *)
(***************************************************************************)
EXTENDS Lists, FiniteSets, SequencesExt

CONSTANTS
  Deposits,
  PoolSize,      \* POOL_SIZE
  RemovalPcts    \* REMOVAL_MIN_PCT..REMOVAL_MAX_PCT

\* The random ids of dummies.  An id is as good as new when its dummy is gone.
DummyIds == 1..PoolSize

\* A random id of 32 bytes is not a deposit's.
ASSUME NoticeboardAssumption ==
  /\ PoolSize \in Nat /\ RemovalPcts \subseteq 0..100 /\ RemovalPcts # {}
  /\ Deposits \cap DummyIds = {}

VARIABLES
  announcements,
  dummy_ids,
  pool_initialized

boardVars == <<announcements, dummy_ids, pool_initialized>>

Announcement ==
  [deposit_id : Deposits \cup DummyIds, storage : BOOLEAN, consumed : BOOLEAN]

\* A dummy has no Storage canisters; nor has what an I1 announces after it has
\* destroyed itself, which is no dummy: its id is a deposit's.
Entry(id, storage) == [deposit_id |-> id, storage |-> storage, consumed |-> FALSE]

InitBoard == announcements = << >> /\ dummy_ids = {} /\ pool_initialized = FALSE

Pending == Only(announcements, {a \in Announcement : ~a.consumed /\ a.storage})

\* get_announcements(0, limit)
Page(limit) ==
  LET n == IF Len(Pending) < limit THEN Len(Pending) ELSE limit IN
  [i \in 1..n |-> Pending[i].deposit_id]

\* n dummies appended to a list, beside which ids are in use.
WithDummies(list, ids, n) ==
  LET new == CHOOSE S \in SUBSET (DummyIds \ ids) : Cardinality(S) = n
      order == SetToSeq(new)
  IN
  /\ announcements' = list \o [i \in 1..n |-> Entry(order[i], FALSE)]
  /\ dummy_ids' = ids \cup new

\* The list that announce finds: ensure_initialized has filled the pool before.
announce(d, storage) ==
  LET order == SetToSeq(DummyIds)
      filled == IF pool_initialized THEN announcements
                ELSE [i \in 1..PoolSize |-> Entry(order[i], FALSE)]
  IN
  /\ announcements' = Append(filled, Entry(d, storage))
  /\ dummy_ids' = IF pool_initialized THEN dummy_ids ELSE DummyIds
  /\ pool_initialized' = TRUE

consume(d) ==
  /\ announcements' = [i \in DOMAIN announcements |->
       IF announcements[i].deposit_id = d
       THEN [announcements[i] EXCEPT !.consumed = TRUE] ELSE announcements[i]]
  /\ UNCHANGED <<dummy_ids, pool_initialized>>

\* heartbeat in its first round.
ensure_initialized ==
  /\ ~pool_initialized /\ pool_initialized' = TRUE
  /\ WithDummies(<< >>, {}, PoolSize)

\* Mutant: the oldest entries go, whatever they are.
churnOldest ==
  \E pct \in RemovalPcts :
    LET n == (Cardinality(dummy_ids) * pct) \div 100
        left == SubSeq(announcements, n + 1, Len(announcements))
        gone == {announcements[i].deposit_id : i \in 1..n}
    IN
    /\ pool_initialized /\ UNCHANGED pool_initialized
    /\ WithDummies(left, dummy_ids \ gone, Cardinality(gone \cap dummy_ids))

\* Mutant: the ids of the removed dummies are kept.
churnKeepsIds ==
  \E pct \in RemovalPcts, R \in SUBSET dummy_ids :
    LET Kept == {a \in Announcement : a.deposit_id \notin R} IN
    /\ pool_initialized /\ UNCHANGED <<pool_initialized, dummy_ids>>
    /\ Cardinality(R) = (Cardinality(dummy_ids) * pct) \div 100
    /\ announcements' = Only(announcements, Kept)

\* do_churn, in heartbeat: some dummies go, and as many come as the pending
\* announcements leave room for in the pool.
do_churn ==
  \E pct \in RemovalPcts, R \in SUBSET dummy_ids :
    LET left == Only(announcements, {a \in Announcement : a.deposit_id \notin R})
        Real == {a \in Announcement : ~a.consumed /\ a.deposit_id \notin dummy_ids \ R}
        active == Len(Only(left, Real)) + Cardinality(dummy_ids \ R)
    IN
    /\ pool_initialized /\ UNCHANGED pool_initialized
    /\ Cardinality(R) = (Cardinality(dummy_ids) * pct) \div 100
    /\ WithDummies(left, dummy_ids \ R, IF active < PoolSize THEN PoolSize - active ELSE 0)

prune ==
  LET Consumed(id) == \E i \in DOMAIN announcements :
                        announcements[i].deposit_id = id /\ announcements[i].consumed
  IN
  /\ announcements' = Only(announcements, {a \in Announcement : ~a.consumed})
  /\ dummy_ids' = {id \in dummy_ids : ~Consumed(id)}
  /\ UNCHANGED pool_initialized
=============================================================================
