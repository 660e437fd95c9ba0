------------------------------ MODULE MCClaim -------------------------------
(***************************************************************************)
(* Pages and deposits for checking the claim flow.                         *)
(***************************************************************************)
EXTENDS ClaimFlow

CONSTANTS d1, d2

TwoPages == 1..2
OneICP == [d \in Deposits |-> 1]
=============================================================================
