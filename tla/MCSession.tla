----------------------------- MODULE MCSession ------------------------------
(***************************************************************************)
(* Tasks for checking the session.                                         *)
(***************************************************************************)
EXTENDS Session

CONSTANTS t1, t2, t3
=============================================================================
