------------------------------- MODULE MCSend -------------------------------
(***************************************************************************)
(* Pages, orders and deposits for checking the send flow.                  *)
(***************************************************************************)
EXTENDS SendFlow

CONSTANTS o1, o2, d1, d2, d3

TwoPages == 1..2
OneICP == [d \in Deposits |-> 1]
=============================================================================
