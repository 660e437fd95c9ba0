----------------------------- MODULE MCChildren -----------------------------
(***************************************************************************)
(* The instance of the life of a deposit's canisters for TLC.              *)
(***************************************************************************)
EXTENDS Children
=============================================================================
