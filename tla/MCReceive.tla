----------------------------- MODULE MCReceive ------------------------------
(***************************************************************************)
(* The instance of the Receive screen and the Noticeboard for TLC.         *)
(***************************************************************************)
EXTENDS Receive

CONSTANTS d1, d2
=============================================================================
