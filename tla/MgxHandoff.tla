----------------------------- MODULE MgxHandoff -----------------------------
(***************************************************************************)
(* What the thread pool of a worker process promises to the event loop     *)
(* that feeds it: a message buffer handed over is taken by exactly one     *)
(* pool thread, in the order of submission, is released once after it was  *)
(* handled, and is only dropped unhandled when the pool is destroyed.      *)
(***************************************************************************)
EXTENDS Naturals, Sequences

CONSTANT Msg            \* message buffers the event loop allocates

VARIABLES fifo,         \* submitted and not yet taken, oldest first
          busy,         \* taken by a pool thread, still in use
          done          \* released

vars == <<fifo, busy, done>>

Pending == {fifo[i] : i \in 1..Len(fifo)}

Init == fifo = <<>> /\ busy = {} /\ done = {}

Submit(m) ==
    /\ m \notin Pending \cup busy \cup done
    /\ fifo' = Append(fifo, m)
    /\ UNCHANGED <<busy, done>>

Take ==
    /\ fifo # <<>>
    /\ fifo' = Tail(fifo)
    /\ busy' = busy \cup {Head(fifo)}
    /\ UNCHANGED done

Finish(m) ==
    /\ m \in busy
    /\ busy' = busy \ {m}
    /\ done' = done \cup {m}
    /\ UNCHANGED fifo

\* Destruction: the buffers nobody took are released, none is in use.
Discard ==
    /\ busy = {}
    /\ fifo' = <<>>
    /\ done' = done \cup Pending
    /\ UNCHANGED busy

Next ==
    \/ \E m \in Msg : Submit(m) \/ Finish(m)
    \/ Take
    \/ Discard

Spec == Init /\ [][Next]_vars
=============================================================================
