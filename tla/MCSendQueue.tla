----------------------------- MODULE MCSendQueue -----------------------------
(***************************************************************************)
(* MgxSendQueue for TLC: which reply is for which connection.              *)
(***************************************************************************)
EXTENDS MgxSendQueue

CONSTANTS m1, m2, m3, c1, c2

\* Two replies for one connection, a third for another.
MCConnOf == [m \in Msg |-> IF m = m3 THEN c2 ELSE c1]
=============================================================================
