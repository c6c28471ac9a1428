------------------------------ MODULE MCMaster ------------------------------
(***************************************************************************)
(* MgxMaster for TLC.  Process ids are interchangeable.                    *)
(***************************************************************************)
EXTENDS MgxMaster, TLC

Symmetry == Permutations(Pid)
=============================================================================
