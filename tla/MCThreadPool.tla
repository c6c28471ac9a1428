---------------------------- MODULE MCThreadPool ----------------------------
(***************************************************************************)
(* MgxThreadPool for TLC.  Threads and buffers are interchangeable, so the *)
(* safety run is reduced by their symmetry; the liveness runs are not.     *)
(***************************************************************************)
EXTENDS MgxThreadPool, TLC

Symmetry == Permutations(Thread) \cup Permutations(Msg)
=============================================================================
