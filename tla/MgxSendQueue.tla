---------------------------- MODULE MgxSendQueue ----------------------------
(***************************************************************************)
(* How replies leave a worker: pool threads push them on m_send_list       *)
(* (send_msg), the send thread walks the list (send_msg_th_func), and what *)
(* the socket did not take is left to the event loop, which is told by     *)
(* EPOLLOUT (send_msg_handler).  The event loop may close and reuse the    *)
(* connection at any time.                                                 *)
(*                                                                         *)
(* A buffer is an internal message header, unit 0, followed by the units   *)
(* 1..PkgSize of the package the peer is meant to see.  The fields of a    *)
(* connection are shared between the two threads without a lock, so every  *)
(* access that the other thread can observe is a step.                     *)
(***************************************************************************)
EXTENDS Integers, Sequences, FiniteSets

CONSTANTS Conn,         \* connections
          Msg,          \* reply buffers
          ConnOf,       \* the connection every reply is for
          PkgSize,      \* units of a package
          None,         \* nullptr
          SemValueMax,  \* SEM_VALUE_MAX: sem_post fails beyond it
          MaxPartial,   \* bound: calls of send on an open socket that do not take everything
          MaxClose      \* bound: connections closed by the event loop

ASSUME ConnOfAssumption == ConnOf \in [Msg -> Conn] /\ None \notin Msg \cup Conn
ASSUME BoundAssumption ==
    /\ PkgSize \in Nat \ {0} /\ SemValueMax \in Nat \ {0}
    /\ MaxPartial \in Nat /\ MaxClose \in Nat

VARIABLES list,         \* m_send_list
          cnt,          \* m_send_list_cnt
          sem,          \* m_send_queue_sem
          buf,          \* every buffer: not allocated, live, deleted, deleted twice
          stamp,        \* cur_seq of every reply
          seq,          \* m_cur_seq of every connection
          open,         \* whether its descriptor is open
          pbuf,         \* psend_buf: <<buffer, unit>>
          rest,         \* rest_send_size
          mem,          \* psend_mem_addr
          throw,        \* throw_send_cnt
          epollout,     \* EPOLLOUT is armed for the connection
          wire,         \* units put on the wire in the current session
          spc, it, sc, sres,  \* the send thread: place, iterator, connection, send's result
          mpc, mc, mres,      \* the event loop in send_msg_handler: place, connection, result
          order,        \* history: replies in the order of send_msg
          wild,         \* history: *end() was deleted
          partials, closes    \* history, for the bounds

connv == <<pbuf, rest, mem, throw>>
queue == <<list, cnt, sem>>
sender == <<spc, it, sc, sres>>
loop == <<mpc, mc, mres>>
hist == <<order, wild, partials, closes>>
vars == <<list, cnt, sem, buf, stamp, seq, open, pbuf, rest, mem, throw, epollout,
          wire, spc, it, sc, sres, mpc, mc, mres, order, wild, partials, closes>>

TypeOK ==
    /\ list \in Seq(Msg) /\ cnt \in Nat /\ sem \in 0..SemValueMax
    /\ buf \in [Msg -> {"new", "received", "live", "freed", "twice"}]
    /\ stamp \in [Msg -> Nat]
    /\ seq \in [Conn -> Nat]
    /\ open \in [Conn -> BOOLEAN]
    /\ pbuf \in [Conn -> (Msg \cup {None}) \X Nat]
    /\ rest \in [Conn -> Int]
    /\ mem \in [Conn -> Msg \cup {None}]
    /\ throw \in [Conn -> Nat]
    /\ epollout \in [Conn -> BOOLEAN]
    /\ wire \in [Conn -> Seq(Msg \X Nat)]
    /\ spc \in {"wait", "scan", "send", "book", "null", "crashed"}
    /\ it \in Nat /\ sc \in Conn \cup {None} /\ sres \in -2..PkgSize
    /\ mpc \in {"idle", "event", "book", "post", "clear", "delete", "null"}
    /\ mc \in Conn \cup {None} /\ mres \in -2..PkgSize
    /\ order \in Seq(Msg) /\ wild \in BOOLEAN
    /\ partials \in 0..MaxPartial /\ closes \in 0..MaxClose

Init ==
    /\ list = <<>> /\ cnt = 0 /\ sem = 0
    /\ buf = [m \in Msg |-> "new"]
    /\ stamp = [m \in Msg |-> 0]
    /\ seq = [c \in Conn |-> 1]
    /\ open = [c \in Conn |-> TRUE]
    /\ pbuf = [c \in Conn |-> <<None, 0>>]
    /\ rest = [c \in Conn |-> 0]
    /\ mem = [c \in Conn |-> None]
    /\ throw = [c \in Conn |-> 0]
    /\ epollout = [c \in Conn |-> FALSE]
    /\ wire = [c \in Conn |-> <<>>]
    /\ spc = "wait" /\ it = 0 /\ sc = None /\ sres = 0
    /\ mpc = "idle" /\ mc = None /\ mres = 0
    /\ order = <<>> /\ wild = FALSE
    /\ partials = 0 /\ closes = 0

-----------------------------------------------------------------------------
Remove(s, i) == SubSeq(s, 1, i - 1) \o SubSeq(s, i + 1, Len(s))

\* delete[] of a buffer pointer, which may be null.
Delete(m) ==
    buf' = IF m = None THEN buf
           ELSE [buf EXCEPT ![m] = IF @ = "live" THEN "freed" ELSE "twice"]

\* The n units from unit u of buffer m on.
Units(m, u, n) == [i \in 1..n |-> <<m, u + i - 1>>]

\* sem_post; the code ignores its failure at SEM_VALUE_MAX.
SemPost == sem' = IF sem < SemValueMax THEN sem + 1 ELSE sem

\* What send_uninterrupt may return for size units on connection c: all or part
\* of them, -1 for EAGAIN, -2 for another error, which a closed descriptor, a
\* null buffer and a rest_send_size that wrapped below zero always give.
SendResult(c, m, size) ==
    IF ~open[c] \/ m = None \/ size < 0 THEN {-2}
    ELSE {size} \cup (IF partials < MaxPartial THEN {-2, -1} \cup 1..(size - 1) ELSE {})

PutOnWire(c, m, u, n) ==
    /\ wire' = IF n > 0 THEN [wire EXCEPT ![c] = @ \o Units(m, u, n)] ELSE wire
    /\ partials' = IF open[c] /\ m # None /\ n < rest[c] /\ rest[c] > 0 THEN partials + 1 ELSE partials

\* epoll_oper_event(EPOLL_CTL_MOD): EPOLLOUT is added to or removed from the
\* events of the connection; the call fails on a closed descriptor.
EpollOperEvent(c, add) == epollout' = [epollout EXCEPT ![c] = add /\ open[c]]

-----------------------------------------------------------------------------
(* Requests and replies. *)

\* A request arrives: its message is stamped with the current sequence number.
Receive(m) ==
    /\ buf[m] = "new"
    /\ open[ConnOf[m]]
    /\ buf' = [buf EXCEPT ![m] = "received"]
    /\ stamp' = [stamp EXCEPT ![m] = seq[ConnOf[m]]]
    /\ UNCHANGED <<queue, seq, open, connv, epollout, wire, sender, loop, hist>>

\* Mutant: push_front.
SendMsg_Front(m) ==
    /\ buf[m] = "received"
    /\ spc \notin {"send", "book", "null"}
    /\ buf' = [buf EXCEPT ![m] = "live"]
    /\ list' = <<m>> \o list
    /\ cnt' = cnt + 1
    /\ SemPost
    /\ order' = Append(order, m)
    /\ UNCHANGED <<stamp, seq, open, connv, epollout, wire, sender, loop, wild, partials, closes>>

\* A pool thread answers it: send_msg, under m_send_queue_mutex.
SendMsg(m) ==
    /\ buf[m] = "received"
    /\ spc \notin {"send", "book", "null"}
    /\ buf' = [buf EXCEPT ![m] = "live"]
    /\ list' = Append(list, m)
    /\ cnt' = cnt + 1
    /\ SemPost
    /\ order' = Append(order, m)
    /\ UNCHANGED <<stamp, seq, open, connv, epollout, wire, sender, loop, wild, partials, closes>>

-----------------------------------------------------------------------------
(* send_msg_th_func.  m_send_queue_mutex is held over Pick*, Send and Book*. *)

\* Mutant: m_send_list_cnt > 1.
SemWait_OffByOne ==
    /\ spc = "wait"
    /\ sem > 0
    /\ sem' = sem - 1
    /\ spc' = IF cnt > 1 THEN "scan" ELSE "wait"
    /\ it' = 1
    /\ UNCHANGED <<list, cnt, buf, stamp, seq, open, connv, epollout, wire, sc, sres, loop, hist>>

SemWait ==
    /\ spc = "wait"
    /\ sem > 0
    /\ sem' = sem - 1
    /\ spc' = IF cnt > 0 THEN "scan" ELSE "wait"
    /\ it' = 1
    /\ UNCHANGED <<list, cnt, buf, stamp, seq, open, connv, epollout, wire, sc, sres, loop, hist>>

\* EINTR: the result of sem_wait is not looked at.
SemWaitInterrupted ==
    /\ spc = "wait"
    /\ cnt > 0
    /\ spc' = "scan"
    /\ it' = 1
    /\ UNCHANGED <<queue, buf, stamp, seq, open, connv, epollout, wire, sc, sres, loop, hist>>

ScanEnd ==
    /\ spc = "scan"
    /\ it > Len(list)
    /\ spc' = "wait"
    /\ UNCHANGED <<queue, buf, stamp, seq, open, connv, epollout, wire, it, sc, sres, loop, hist>>

\* A reply for a connection that was recycled: it is erased, then what the
\* iterator points to afterwards is deleted.
PickStale ==
    /\ spc = "scan" /\ it <= Len(list)
    /\ seq[ConnOf[list[it]]] # stamp[list[it]]
    /\ cnt' = cnt - 1
    /\ list' = Remove(list, it)
    /\ IF it < Len(list)
       THEN Delete(list[it + 1]) /\ UNCHANGED wild
       ELSE wild' = TRUE /\ UNCHANGED buf
    /\ UNCHANGED <<sem, stamp, seq, open, connv, epollout, wire, sender, loop, order, partials, closes>>

\* After a wild or double delete[], or when the buffer under the iterator was
\* deleted, the worker may crash; the other outcome is that it goes on.
Crash ==
    /\ \/ wild
       \/ \E m \in Msg : buf[m] = "twice"
       \/ spc = "scan" /\ it <= Len(list) /\ buf[list[it]] # "live"
    /\ spc' = "crashed"
    /\ UNCHANGED <<queue, buf, stamp, seq, open, connv, epollout, wire, it, sc, sres, loop, hist>>

\* The connection still waits for EPOLLOUT: the reply is passed over.
PickBusy ==
    /\ spc = "scan" /\ it <= Len(list)
    /\ seq[ConnOf[list[it]]] = stamp[list[it]]
    /\ throw[ConnOf[list[it]]] > 0
    /\ it' = it + 1
    /\ UNCHANGED <<queue, buf, stamp, seq, open, connv, epollout, wire, spc, sc, sres, loop, hist>>

PickReply ==
    /\ spc = "scan" /\ it <= Len(list)
    /\ LET m == list[it]  c == ConnOf[m] IN
          /\ seq[c] = stamp[m] /\ throw[c] = 0
          /\ pbuf' = [pbuf EXCEPT ![c] = <<m, 1>>]
          /\ rest' = [rest EXCEPT ![c] = PkgSize]
          /\ mem' = [mem EXCEPT ![c] = m]
          /\ sc' = c
    /\ list' = Remove(list, it)
    /\ cnt' = cnt - 1
    /\ spc' = "send"
    /\ UNCHANGED <<sem, buf, stamp, seq, open, throw, epollout, wire, it, sres, loop, hist>>

Send ==
    /\ spc = "send"
    /\ \E n \in SendResult(sc, pbuf[sc][1], rest[sc]) :
          /\ sres' = n
          /\ PutOnWire(sc, pbuf[sc][1], pbuf[sc][2], n)
    /\ spc' = "book"
    /\ UNCHANGED <<queue, buf, stamp, seq, open, connv, epollout, it, sc, loop, order, wild, closes>>

\* Mutant: the pointer is reset before delete[], which then gets a null pointer.
BookDone_NullFirst ==
    /\ spc = "book"
    /\ sres \in {rest[sc], 0, -2}
    /\ throw' = [throw EXCEPT ![sc] = 0]
    /\ mem' = [mem EXCEPT ![sc] = None]
    /\ spc' = "scan"
    /\ UNCHANGED <<queue, buf, stamp, seq, open, pbuf, rest, epollout, wire, it, sc, sres, loop, hist>>

\* Everything was sent, or the connection is broken: the buffer is deleted.
\* The third case, send_size = 0, keeps it.
BookDone ==
    /\ spc = "book"
    /\ sres \in {rest[sc], 0, -2}
    /\ throw' = [throw EXCEPT ![sc] = 0]
    /\ IF sres = 0
       THEN spc' = "scan" /\ UNCHANGED buf
       ELSE spc' = "null" /\ Delete(mem[sc])
    /\ UNCHANGED <<queue, stamp, seq, open, pbuf, rest, mem, epollout, wire, it, sc, sres, loop, hist>>

BookNull ==
    /\ spc = "null"
    /\ mem' = [mem EXCEPT ![sc] = None]
    /\ spc' = "scan"
    /\ UNCHANGED <<queue, buf, stamp, seq, open, pbuf, rest, throw, epollout, wire, it, sc, sres, loop, hist>>

\* Mutant: EPOLLOUT is only armed when some of the package was sent.
BookRest_ArmsPartial ==
    /\ spc = "book"
    /\ sres = -1 \/ (sres > 0 /\ sres # rest[sc])
    /\ IF sres > 0
       THEN /\ pbuf' = [pbuf EXCEPT ![sc] = <<@[1], @[2] + sres>>]
            /\ rest' = [rest EXCEPT ![sc] = @ - sres]
            /\ EpollOperEvent(sc, TRUE)
       ELSE UNCHANGED <<pbuf, rest, epollout>>
    /\ throw' = [throw EXCEPT ![sc] = @ + 1]
    /\ spc' = "scan"
    /\ UNCHANGED <<queue, buf, stamp, seq, open, mem, wire, it, sc, sres, loop, hist>>

\* The rest is left to the event loop.
BookRest ==
    /\ spc = "book"
    /\ sres = -1 \/ (sres > 0 /\ sres # rest[sc])
    /\ IF sres > 0
       THEN /\ pbuf' = [pbuf EXCEPT ![sc] = <<@[1], @[2] + sres>>]
            /\ rest' = [rest EXCEPT ![sc] = @ - sres]
       ELSE UNCHANGED <<pbuf, rest>>
    /\ throw' = [throw EXCEPT ![sc] = @ + 1]
    /\ EpollOperEvent(sc, TRUE)
    /\ spc' = "scan"
    /\ UNCHANGED <<queue, buf, stamp, seq, open, mem, wire, it, sc, sres, loop, hist>>

-----------------------------------------------------------------------------
(* send_msg_handler, called by the event loop when EPOLLOUT is reported.   *)
(* It sends from psend_mem_addr, the start of the buffer.                  *)

HandlerSend(c) ==
    /\ \/ mpc = "idle" /\ epollout[c]
       \/ mpc = "event" /\ mc = c
    /\ \E n \in SendResult(c, mem[c], rest[c]) :
          /\ PutOnWire(c, mem[c], 0, n)
          /\ mres' = n
    /\ mpc' = "book" /\ mc' = c
    /\ UNCHANGED <<queue, buf, stamp, seq, open, connv, epollout, sender, order, wild, closes>>

\* Part of it was sent, or nothing: EPOLLOUT will be reported again.
HandlerRest ==
    /\ mpc = "book"
    /\ mres = -1 \/ (mres > 0 /\ mres # rest[mc])
    /\ IF mres > 0
       THEN /\ pbuf' = [pbuf EXCEPT ![mc] = <<@[1], @[2] + mres>>]
            /\ rest' = [rest EXCEPT ![mc] = @ - mres]
       ELSE UNCHANGED <<pbuf, rest>>
    /\ mpc' = "idle" /\ mc' = None
    /\ UNCHANGED <<queue, buf, stamp, seq, open, mem, throw, epollout, wire, sender, mres, hist>>

\* All of it was sent, and EPOLLOUT is disarmed, or send_size is 0 or -2, and
\* it is not.
HandlerRemove ==
    /\ mpc = "book"
    /\ mres \in {rest[mc], 0, -2}
    /\ IF mres > 0 THEN EpollOperEvent(mc, FALSE) ELSE UNCHANGED epollout
    /\ mpc' = "post"
    /\ UNCHANGED <<queue, buf, stamp, seq, open, connv, wire, sender, mc, mres, hist>>

HandlerPost ==
    /\ mpc = "post"
    /\ SemPost
    /\ mpc' = "clear"
    /\ UNCHANGED <<list, cnt, buf, stamp, seq, open, connv, epollout, wire, sender, mc, mres, hist>>

HandlerClear ==
    /\ mpc = "clear"
    /\ throw' = [throw EXCEPT ![mc] = 0]
    /\ mpc' = "delete"
    /\ UNCHANGED <<queue, buf, stamp, seq, open, pbuf, rest, mem, epollout, wire, sender, mc, mres, hist>>

HandlerDelete ==
    /\ mpc = "delete"
    /\ Delete(mem[mc])
    /\ mpc' = "null"
    /\ UNCHANGED <<queue, stamp, seq, open, connv, epollout, wire, sender, mc, mres, hist>>

HandlerNull ==
    /\ mpc = "null"
    /\ mem' = [mem EXCEPT ![mc] = None]
    /\ mpc' = "idle" /\ mc' = None
    /\ UNCHANGED <<queue, buf, stamp, seq, open, pbuf, rest, throw, epollout, wire, sender, mres, hist>>

-----------------------------------------------------------------------------
(* The event loop recycles a connection (MgxConnPool has the details). *)

\* close_conn: put_one_to_free deletes the buffer of an unfinished send.  When
\* r_handler closes the connection on an event that also reports EPOLLOUT,
\* w_handler is called next.
CloseConn(c) ==
    /\ mpc = "idle"
    /\ open[c]
    /\ closes < MaxClose
    /\ closes' = closes + 1
    /\ open' = [open EXCEPT ![c] = FALSE]
    /\ epollout' = [epollout EXCEPT ![c] = FALSE]
    /\ seq' = [seq EXCEPT ![c] = @ + 1]
    /\ Delete(mem[c])
    /\ mem' = [mem EXCEPT ![c] = None]
    /\ \/ UNCHANGED <<mpc, mc>>
       \/ epollout[c] /\ mpc' = "event" /\ mc' = c
    /\ UNCHANGED <<queue, stamp, pbuf, rest, throw, wire, sender, mres, order, wild, partials>>

\* get_one_to_use for the next peer.
Reuse(c) ==
    /\ mpc = "idle"
    /\ ~open[c]
    /\ open' = [open EXCEPT ![c] = TRUE]
    /\ seq' = [seq EXCEPT ![c] = @ + 1]
    /\ mem' = [mem EXCEPT ![c] = None]
    /\ throw' = [throw EXCEPT ![c] = 0]
    /\ wire' = [wire EXCEPT ![c] = <<>>]
    /\ UNCHANGED <<queue, buf, stamp, pbuf, rest, epollout, sender, loop, hist>>

SenderStep ==
    \/ SemWait
    \/ ScanEnd
    \/ PickStale
    \/ PickBusy
    \/ PickReply
    \/ Send
    \/ BookDone
    \/ BookNull
    \/ BookRest

LoopStep ==
    \/ \E c \in Conn : HandlerSend(c)
    \/ HandlerRest
    \/ HandlerRemove
    \/ HandlerPost
    \/ HandlerClear
    \/ HandlerDelete
    \/ HandlerNull

Next ==
    /\ spc # "crashed"
    /\ \/ \E m \in Msg : Receive(m) \/ SendMsg(m)
       \/ SenderStep
       \/ SemWaitInterrupted
       \/ LoopStep
       \/ \E c \in Conn : CloseConn(c) \/ Reuse(c)
       \/ Crash

Spec == Init /\ [][Next]_vars

-----------------------------------------------------------------------------
(* Properties. *)

\* Sockets have taken what they were given and no connection was closed.
Undisturbed == partials = 0 /\ closes = 0

\* A connection with an unfinished send, whose replies the send thread passes
\* over, has EPOLLOUT armed or is being finished by the handler: nothing else
\* would ever clear throw_send_cnt.
UnfinishedIsArmed ==
    \A c \in Conn : throw[c] > 0 /\ open[c] =>
        epollout[c] \/ (mc = c /\ mpc \in {"event", "post", "clear"})

\* While sockets take what they are given, buffers are neither lost nor deleted
\* while they wait: a live buffer is in the list or is the psend_mem_addr of its
\* connection, and a buffer in the list is live.
NoLostBuffer == Undisturbed =>
    /\ \A i \in 1..Len(list) : buf[list[i]] = "live"
    /\ \A m \in Msg : buf[m] = "live" =>
          m = mem[ConnOf[m]] \/ \E i \in 1..Len(list) : list[i] = m

\* How many of the first n replies that were pushed are for connection c.
Count(c, n) == Cardinality({j \in 1..n : ConnOf[order[j]] = c})

\* As long, what a connection has put on the wire is the packages of its
\* replies, whole and in the order of send_msg, the last one possibly cut short:
\* unit i belongs to the reply of this connection that was pushed as number
\* (i - 1) \div PkgSize + 1.
WireIsFifo == Undisturbed =>
    \A c \in Conn : \A i \in 1..Len(wire[c]) : \E p \in 1..Len(order) :
        /\ ConnOf[order[p]] = c /\ Count(c, p) = ((i - 1) \div PkgSize) + 1
        /\ wire[c][i] = <<order[p], ((i - 1) % PkgSize) + 1>>

\* README: "using specific message format to solve tcp packet sticking
\* problem".  What the peer receives is a sequence of whole packages, of
\* whatever replies: every unit starts a package or continues the one before.
WireIsPackages ==
    \A c \in Conn : \A i \in 1..Len(wire[c]) :
        LET u == wire[c][i] IN
            IF u[2] = 1
            THEN i = 1 \/ wire[c][i - 1][2] = PkgSize
            ELSE i > 1 /\ wire[c][i - 1] = <<u[1], u[2] - 1>>

\* The send thread does not go to sleep over a reply: when it waits and nobody
\* has posted the semaphore, the list is empty, although m_send_list_cnt is
\* tested without the mutex, sem_wait may be interrupted and connections are
\* closed meanwhile.  (Once a send was short this fails: send_msg_handler posts
\* before it clears throw_send_cnt, and the woken thread passes the reply over.)
NoReplyLeft ==
    partials = 0 /\ spc = "wait" /\ sem = 0 => list = <<>>
=============================================================================
