------------------------------ MODULE MgxMysql ------------------------------
(***************************************************************************)
(* The Mgx_mysql object of a connection (misc/mgx_mysql.cpp), as the HTTP  *)
(* handler uses it: query_table, called by any pool thread that serves a   *)
(* request of the connection.  The object keeps the result set and the     *)
(* number of its columns between calls, and has no lock.                   *)
(*                                                                         *)
(* Of a result set only what keeps mysql_fetch_field in bounds is kept;    *)
(* rows go to the log and to nobody else.                                  *)
(***************************************************************************)
EXTENDS Naturals, FiniteSets

CONSTANTS Columns,      \* columns of the table
          Null          \* nullptr

ASSUME ColumnsAssumption == Columns \in Nat \ {0}
ASSUME NullAssumption == Null \notin [names : 0..Columns, made : BOOLEAN]

VARIABLES state,        \* _state: the constructor's connect succeeded
          res,          \* _res: the column names still to be fetched from it, and
                        \* whether the library made it
          field_num,    \* field_num
          calls         \* calls of query_table that have not returned, with their place

sql_vars == <<state, res, field_num, calls>>

SqlTypeOK ==
    /\ state \in BOOLEAN
    /\ res \in {Null} \cup [names : 0..Columns, made : BOOLEAN]
    /\ field_num \in 0..Columns
    /\ \A c \in calls : c.at \in {"excute", "display"}

SqlInit ==
    /\ state \in BOOLEAN
    /\ res = Null /\ field_num = 0 /\ calls = {}

QueryTable(u) ==
    /\ calls' = calls \cup {[user |-> u, at |-> "excute"]}
    /\ UNCHANGED <<state, res, field_num>>

MovesOn(u) ==
    /\ [user |-> u, at |-> "excute"] \in calls
    /\ calls' = (calls \ {[user |-> u, at |-> "excute"]}) \cup {[user |-> u, at |-> "display"]}
    /\ UNCHANGED state

\* Mutant: field_num is set after a query that succeeds, and left alone otherwise.
QueryFails_KeepsFieldNum(u) == MovesOn(u) /\ UNCHANGED <<res, field_num>>

\* excute_sql without a connection, or whose query the server refuses: _res is
\* still the one of an earlier query.
QueryFails(u) == MovesOn(u) /\ field_num' = 0 /\ UNCHANGED res

QuerySucceeds(u) ==
    /\ state
    /\ MovesOn(u)
    /\ res' = [names |-> Columns, made |-> TRUE]
    /\ field_num' = Columns

\* The query succeeds and its result cannot be stored: query() makes a MYSQL_RES
\* of its own, with members that nothing has set.
StoreFails(u) ==
    /\ state
    /\ MovesOn(u)
    /\ res' = [names |-> 0, made |-> FALSE]
    /\ field_num' = Columns

\* display__res stays inside the result set: every name it asks for is there,
\* and the rows it fetches are the library's.
InBounds == IF res = Null THEN field_num = 0 ELSE res.made /\ field_num <= res.names

\* Names of the columns, then all rows.  Out of bounds the call may also go on,
\* with whatever it reads.
DisplayRes(u) ==
    /\ [user |-> u, at |-> "display"] \in calls
    /\ calls' = calls \ {[user |-> u, at |-> "display"]}
    /\ res' = IF res # Null /\ InBounds THEN [res EXCEPT !.names = @ - field_num] ELSE res
    /\ UNCHANGED <<state, field_num>>

\* Two threads inside the client library with one handle, or a read out of
\* bounds: the process may end.
Undefined ==
    \/ Cardinality(calls) > 1
    \/ ~InBounds /\ \E c \in calls : c.at = "display"
=============================================================================
