------------------------------- MODULE Board --------------------------------
(***************************************************************************)
(* What the Noticeboard promises: the deposits announced and not yet       *)
(* consumed, in the order of their announcement, and queries that answer   *)
(* with the first of them.  A deposit is consumed when its recipient has   *)
(* been paid, not before.  Nothing of the dummies shows.                   *)
(***************************************************************************)
EXTENDS Lists

CONSTANTS Deposits, Limit, Readers

VARIABLES
  pending,
  paid,
  answer    \* what each query has been answered, until it is delivered

vars == <<pending, paid, answer>>

FirstPage == SubSeq(pending, 1, IF Len(pending) < Limit THEN Len(pending) ELSE Limit)

NoAnswer == [read |-> FALSE, page |-> << >>]

Init == pending = << >> /\ paid = {} /\ answer = [r \in Readers |-> NoAnswer]

Announce(d) == pending' = Append(pending, d) /\ UNCHANGED <<paid, answer>>

Pay(d) == paid' = paid \cup {d} /\ UNCHANGED <<pending, answer>>

Consume(d) ==
  d \in paid /\ pending' = Only(pending, Deposits \ {d}) /\ UNCHANGED <<paid, answer>>

Read(r) ==
  /\ answer[r] = NoAnswer /\ UNCHANGED <<pending, paid>>
  /\ answer' = [answer EXCEPT ![r] = [read |-> TRUE, page |-> FirstPage]]

Deliver(r) == answer' = [answer EXCEPT ![r] = NoAnswer] /\ UNCHANGED <<pending, paid>>

Next ==
  \/ \E d \in Deposits : Announce(d) \/ Pay(d) \/ Consume(d)
  \/ \E r \in Readers : Read(r) \/ Deliver(r)

Spec == Init /\ [][Next]_vars
=============================================================================
