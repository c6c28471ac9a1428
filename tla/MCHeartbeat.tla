---------------------------- MODULE MCHeartbeat -----------------------------
(***************************************************************************)
(* MgxHeartbeat for TLC: a PING, and one package for every reason not to   *)
(* take it for one.                                                        *)
(***************************************************************************)
EXTENDS MgxHeartbeat, TLC

Symmetry == Permutations(Conn)

MCPackages == { [crc |-> TRUE,  body |-> FALSE, type |-> 0],
                [crc |-> TRUE,  body |-> TRUE,  type |-> 0],
                [crc |-> FALSE, body |-> FALSE, type |-> 0],
                [crc |-> TRUE,  body |-> TRUE,  type |-> 3],
                [crc |-> TRUE,  body |-> TRUE,  type |-> 4] }
=============================================================================
