------------------------------- MODULE Escrow -------------------------------
(***************************************************************************)
(* What the Router promises about each deposit, without its ledger         *)
(* accounts, locks and awaits: a deposit goes through its stages in order, *)
(* Bob is paid once and in full and only for a sealed deposit, Alice is    *)
(* refunded at most once and only for a deposit that was never sealed, and *)
(* a deposit is forgotten only when one of the two has been paid.          *)
(***************************************************************************)
EXTENDS Naturals

CONSTANTS Deposits, Amount

VARIABLES stage, paid, refunded

vars == <<stage, paid, refunded>>

Init ==
  /\ stage = [d \in Deposits |-> "none"]
  /\ paid = [d \in Deposits |-> 0]
  /\ refunded = [d \in Deposits |-> 0]

Advance(d, from, to) ==
  /\ stage[d] = from /\ paid[d] = 0 /\ refunded[d] = 0
  /\ stage' = [stage EXCEPT ![d] = to]
  /\ UNCHANGED <<paid, refunded>>

Allocate(d) == Advance(d, "none", "allocated")
Prepare(d) == Advance(d, "allocated", "created")
Seal(d) == Advance(d, "created", "sealed")

Pay(d) ==
  /\ stage[d] = "sealed" /\ paid[d] = 0
  /\ paid' = [paid EXCEPT ![d] = Amount[d]]
  /\ UNCHANGED <<stage, refunded>>

Refund(d) ==
  /\ stage[d] = "created" /\ refunded[d] = 0
  /\ refunded'[d] \in Nat \ {0}
  /\ refunded' = [refunded EXCEPT ![d] = refunded'[d]]
  /\ UNCHANGED <<stage, paid>>

Close(d) ==
  /\ \/ stage[d] = "sealed" /\ paid[d] > 0
     \/ stage[d] = "created" /\ refunded[d] > 0
  /\ stage' = [stage EXCEPT ![d] = "closed"]
  /\ UNCHANGED <<paid, refunded>>

Next == \E d \in Deposits :
          \/ Allocate(d) \/ Prepare(d) \/ Seal(d)
          \/ Pay(d) \/ Refund(d) \/ Close(d)

Spec == Init /\ [][Next]_vars
=============================================================================
