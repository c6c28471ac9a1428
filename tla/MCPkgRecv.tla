----------------------------- MODULE MCPkgRecv ------------------------------
(***************************************************************************)
(* MgxPkgRecv for TLC: the sizes and the length of the stream are given in *)
(* the configuration, which has a header of two bytes.                     *)
(***************************************************************************)
EXTENDS MgxPkgRecv
=============================================================================
