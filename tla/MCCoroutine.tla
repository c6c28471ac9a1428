----------------------------- MODULE MCCoroutine -----------------------------
(***************************************************************************)
(* MgxCoroutine for TLC.                                                   *)
(***************************************************************************)
EXTENDS MgxCoroutine

CONSTANTS co1, co2
=============================================================================
