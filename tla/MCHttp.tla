------------------------------- MODULE MCHttp -------------------------------
(***************************************************************************)
(* MgxHttp for TLC: the requests a browser sends, and a text file, a file  *)
(* with a NUL byte and a missing one.                                      *)
(***************************************************************************)
EXTENDS MgxHttp

MCRequest(method, uri, len) == [method |-> method, uri |-> uri, len |-> len]

MCContent == [u \in {"text", "image", "none"} |->
                 CASE u = "text" -> <<"x", "x">>
                   [] u = "image" -> <<"x", "NUL", "x">>
                   [] u = "none" -> Missing]

MCRequests == { MCRequest("GET", "text", Absent),
                MCRequest("GET", "image", Absent),
                MCRequest("GET", "none", Absent),
                MCRequest("GET", "text", 1),
                MCRequest("PUT", "text", Absent),
                MCRequest("POST", "text", Absent),
                MCRequest("POST", "text", 0),
                MCRequest("POST", "text", 2) }
=============================================================================
