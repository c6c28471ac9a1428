----------------------------- MODULE MCConnPool -----------------------------
(***************************************************************************)
(* MgxConnPool for TLC.  Peers and descriptor numbers are interchangeable. *)
(***************************************************************************)
EXTENDS MgxConnPool, TLC

Symmetry == Permutations(Client) \cup Permutations(Fd)
=============================================================================
