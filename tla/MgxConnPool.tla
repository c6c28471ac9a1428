----------------------------- MODULE MgxConnPool -----------------------------
(***************************************************************************)
(* The connection pool of a worker (net/mgx_socket_conn.cpp) as its three  *)
(* threads use it: the event loop accepts, reads and closes                *)
(* (mgx_socket.cpp, mgx_socket_accept.cpp, recv_process), the recycler     *)
(* returns delayed connections, and, with heartbeats, the timer thread     *)
(* closes silent ones (mgx_socket_time.cpp).                               *)
(*                                                                         *)
(* The kernel is a table of descriptors and the epoll registrations; a     *)
(* descriptor number is free for reuse as soon as it is closed.  Every     *)
(* system call and every critical section is one step.                     *)
(***************************************************************************)
EXTENDS Integers, Sequences, FiniteSets

CONSTANTS Conn,         \* addresses of mgx_conn_t objects
          Pool,         \* those made by conn_pool_init, m_worker_conns of them
          Client,       \* peers, each connects at most once
          Fd,           \* descriptor numbers
          WaitTime,     \* m_recy_conn_wait_time
          Heartbeat,    \* m_enabled_heartbeat
          None          \* no connection, no peer, no registration, fd -1

ASSUME PoolAssumption == Pool \subseteq Conn /\ IsFiniteSet(Pool)
ASSUME NoneAssumption == None \notin Conn \cup Client \cup Fd
ASSUME WaitAssumption == WaitTime \in Nat /\ Heartbeat \in BOOLEAN

VARIABLES fdtab,        \* the peer behind every descriptor, None if closed
          interest,     \* the epoll data of every descriptor, None if not added
          peer,         \* what every peer did
          free,         \* m_pconns_free_queue
          free_cnt,     \* m_free_conns_cnt
          conns,        \* m_pconns_queue, as a set
          fd,           \* mgx_conn_t::fd, None for -1
          seq,          \* mgx_conn_t::m_cur_seq
          inst,         \* mgx_conn_t::instance
          sess,         \* history: the peer the object was taken for
          recy,         \* m_recy_conn_set
          recy_cnt,     \* m_total_recy_conns_cnt
          age,          \* time since in_recy_time, up to WaitTime
          it,           \* the recycler's iterator, None while it sleeps
          batch,        \* events of the last epoll_wait not dispatched yet
          mpc, mc, mfd, \* the event loop: its place, connection, new descriptor
          timers,       \* m_timer_queue: <<connection, sequence number>>
          tpc, tc,      \* the timer thread: its place and connection
          stamps        \* <<c, s, k>>: a message of peer k carries pconn c, cur_seq s

kernel == <<fdtab, interest, peer>>
freeq == <<free, free_cnt, conns>>
attrs == <<fd, seq, inst, sess>>
recyq == <<recy, recy_cnt, age>>
main == <<mpc, mc, mfd>>
tmr == <<timers, tpc, tc>>
vars == <<fdtab, interest, peer, free, free_cnt, conns, fd, seq, inst, sess,
          recy, recy_cnt, age, it, batch, mpc, mc, mfd, timers, tpc, tc, stamps>>

InFree == {free[i] : i \in 1..Len(free)}

TypeOK ==
    /\ fdtab \in [Fd -> Client \cup {None}]
    /\ interest \in [Fd -> (Conn \X {0, 1}) \cup {None}]
    /\ peer \in [Client -> {"new", "live", "fin", "rst"}]
    /\ free \in Seq(Conn)
    /\ free_cnt \in Int
    /\ conns \subseteq Conn
    /\ fd \in [Conn -> Fd \cup {None}]
    /\ seq \in [Conn -> Nat]
    /\ inst \in [Conn -> {0, 1}]
    /\ sess \in [Conn -> Client \cup {None}]
    /\ recy \subseteq Conn
    /\ recy_cnt \in Int
    /\ age \in [Conn -> 0..WaitTime]
    /\ it \in Conn \cup {None}
    /\ batch \subseteq Conn \X {0, 1}
    /\ mpc \in {"wait", "dispatch", "get", "add", "recv",
                "close_recy", "insert", "close", "free"}
    /\ mc \in Conn \cup {None}
    /\ mfd \in Fd \cup {None}
    /\ timers \subseteq Conn \X Nat
    /\ tpc \in {"idle", "close", "insert"}
    /\ tc \in Conn \cup {None}
    /\ stamps \subseteq Conn \X Nat \X Client

\* conn_pool_init: the queue of the pool is filled, every object has been
\* through get_one_to_use once and its fd is not that of a socket yet.
Init ==
    /\ fdtab = [f \in Fd |-> None]
    /\ interest = [f \in Fd |-> None]
    /\ peer = [k \in Client |-> "new"]
    /\ free \in {s \in [1..Cardinality(Pool) -> Pool] :
                    \A i, j \in 1..Cardinality(Pool) : s[i] = s[j] => i = j}
    /\ free_cnt = Cardinality(Pool)
    /\ conns = Pool
    /\ fd = [c \in Conn |-> None]
    /\ seq = [c \in Conn |-> IF c \in Pool THEN 1 ELSE 0]
    /\ inst = [c \in Conn |-> 0]
    /\ sess = [c \in Conn |-> None]
    /\ recy = {}
    /\ recy_cnt = 0
    /\ age = [c \in Conn |-> 0]
    /\ it = None
    /\ batch = {}
    /\ mpc = "wait" /\ mc = None /\ mfd = None
    /\ timers = {}
    /\ tpc = "idle" /\ tc = None
    /\ stamps = {}

-----------------------------------------------------------------------------
(* Operations shared by the threads. *)

\* close(c->fd): the number becomes free and leaves the epoll set, whoever it
\* belongs to by now; on a closed number, or -1, the call fails.
CloseFd(c) ==
    IF fd[c] = None
    THEN UNCHANGED <<fdtab, interest>>
    ELSE /\ fdtab' = [fdtab EXCEPT ![fd[c]] = None]
         /\ interest' = [interest EXCEPT ![fd[c]] = None]

\* Mutant: the sequence number is only advanced when an object is taken.
PutOneToFree_KeepsSeq(c) ==
    /\ seq' = seq
    /\ fd' = [fd EXCEPT ![c] = None]
    /\ sess' = [sess EXCEPT ![c] = None]
    /\ UNCHANGED inst

PutOneToFree(c) ==
    /\ seq' = [seq EXCEPT ![c] = seq[c] + 1]
    /\ fd' = [fd EXCEPT ![c] = None]
    /\ sess' = [sess EXCEPT ![c] = None]
    /\ UNCHANGED inst

\* free_conn, under m_conn_mutex.
FreeConn(c) ==
    /\ PutOneToFree(c)
    /\ free' = Append(free, c)
    /\ free_cnt' = free_cnt + 1
    /\ UNCHANGED conns

\* Mutant: m_total_recy_conns_cnt is not counted up.
InsertRecy_NoCount(c) ==
    IF c \in recy
    THEN UNCHANGED <<recyq, attrs>>
    ELSE /\ age' = [age EXCEPT ![c] = 0]
         /\ seq' = [seq EXCEPT ![c] = seq[c] + 1]
         /\ sess' = [sess EXCEPT ![c] = None]
         /\ recy' = recy \cup {c}
         /\ UNCHANGED <<recy_cnt, fd, inst>>

\* insert_recy_conn_queue after the close, under m_recy_queue_mutex.
InsertRecy(c) ==
    IF c \in recy
    THEN UNCHANGED <<recyq, attrs>>
    ELSE /\ age' = [age EXCEPT ![c] = 0]
         /\ seq' = [seq EXCEPT ![c] = seq[c] + 1]
         /\ sess' = [sess EXCEPT ![c] = None]
         /\ recy' = recy \cup {c}
         /\ recy_cnt' = recy_cnt + 1
         /\ UNCHANGED <<fd, inst>>

\* delete_from_timer_queue: the first entry of the connection is erased.
DeleteTimer(c) ==
    IF Heartbeat /\ \E e \in timers : e[1] = c
    THEN \E e \in timers : e[1] = c /\ timers' = timers \ {e}
    ELSE UNCHANGED timers

-----------------------------------------------------------------------------
(* The event loop: epoll_process_events, event_accept, recv_process. *)

\* epoll_wait reports some of the registered connections.
EpollWait ==
    /\ mpc = "wait"
    /\ batch' \in SUBSET {interest[f] : f \in {g \in Fd : interest[g] # None}}
    /\ mpc' = "dispatch"
    /\ UNCHANGED <<kernel, freeq, attrs, recyq, it, mc, mfd, tmr, stamps>>

EndOfBatch ==
    /\ mpc = "dispatch"
    /\ batch = {}
    /\ mpc' = "wait"
    /\ UNCHANGED <<kernel, freeq, attrs, recyq, it, batch, mc, mfd, tmr, stamps>>

\* Mutant: the same event is looked at again.
Dispatch_Again(e) ==
    /\ mpc = "dispatch"
    /\ e \in batch
    /\ batch' = batch
    /\ IF fd[e[1]] = None \/ inst[e[1]] # e[2]
       THEN UNCHANGED main
       ELSE mpc' = "recv" /\ mc' = e[1] /\ UNCHANGED mfd
    /\ UNCHANGED <<kernel, freeq, attrs, recyq, it, tmr, stamps>>

\* The stale test, then r_handler.
Dispatch(e) ==
    /\ mpc = "dispatch"
    /\ e \in batch
    /\ batch' = batch \ {e}
    /\ IF fd[e[1]] = None \/ inst[e[1]] # e[2]
       THEN UNCHANGED main
       ELSE mpc' = "recv" /\ mc' = e[1] /\ UNCHANGED mfd
    /\ UNCHANGED <<kernel, freeq, attrs, recyq, it, tmr, stamps>>

\* recv returned data: once a message is complete it is stamped with the
\* connection and its sequence number.
RecvData ==
    /\ mpc = "recv"
    /\ fd[mc] # None
    /\ \E k \in Client :
          /\ fdtab[fd[mc]] = k /\ peer[k] # "rst"
          /\ stamps' \in {stamps, stamps \cup {<<mc, seq[mc], k>>}}
    /\ mpc' = "dispatch" /\ mc' = None
    /\ UNCHANGED <<kernel, freeq, attrs, recyq, it, batch, mfd, tmr>>

\* recv returned 0: delayed recovery.
RecvFin ==
    /\ mpc = "recv"
    /\ fd[mc] # None
    /\ fdtab[fd[mc]] # None /\ peer[fdtab[fd[mc]]] = "fin"
    /\ DeleteTimer(mc)
    /\ mpc' = "close_recy"
    /\ UNCHANGED <<kernel, freeq, attrs, recyq, it, batch, mc, mfd, tpc, tc, stamps>>

\* recv failed, with ECONNRESET or EBADF: immediate recovery.
RecvError ==
    /\ mpc = "recv"
    /\ fd[mc] # None /\ fdtab[fd[mc]] # None => peer[fdtab[fd[mc]]] = "rst"
    /\ mpc' = "close"
    /\ UNCHANGED <<kernel, freeq, attrs, recyq, it, batch, mc, mfd, tmr, stamps>>

\* Mutant: the descriptor stays open.
CloseForRecy_KeepsOpen ==
    /\ mpc = "close_recy"
    /\ mpc' = "insert"
    /\ UNCHANGED <<kernel, freeq, attrs, recyq, it, batch, mc, mfd, tmr, stamps>>

CloseForRecy ==
    /\ mpc = "close_recy"
    /\ CloseFd(mc)
    /\ mpc' = "insert"
    /\ UNCHANGED <<peer, freeq, attrs, recyq, it, batch, mc, mfd, tmr, stamps>>

MainInsertRecy ==
    /\ mpc = "insert"
    /\ InsertRecy(mc)
    /\ mpc' = "dispatch" /\ mc' = None
    /\ UNCHANGED <<kernel, freeq, it, batch, mfd, tmr, stamps>>

CloseConn ==
    /\ mpc = "close"
    /\ CloseFd(mc)
    /\ mpc' = "free"
    /\ UNCHANGED <<peer, freeq, attrs, recyq, it, batch, mc, mfd, tmr, stamps>>

MainFreeConn ==
    /\ mpc = "free"
    /\ FreeConn(mc)
    /\ mpc' = "dispatch" /\ mc' = None
    /\ UNCHANGED <<kernel, recyq, it, batch, mfd, tmr, stamps>>

\* accept4 hands out a descriptor number that is not open.
Accept(k) ==
    /\ mpc = "dispatch"
    /\ peer[k] = "new"
    /\ peer' = [peer EXCEPT ![k] = "live"]
    /\ \E f \in Fd :
          /\ fdtab[f] = None
          /\ fdtab' = [fdtab EXCEPT ![f] = k]
          /\ mfd' = f
    /\ mpc' = "get"
    /\ UNCHANGED <<interest, freeq, attrs, recyq, it, batch, mc, tmr, stamps>>

\* Mutant: front() without pop().
GetPooled_KeepsFront ==
    /\ mpc = "get"
    /\ free_cnt > 0
    /\ LET c == Head(free) IN
          /\ free' = free
          /\ fd' = [fd EXCEPT ![c] = mfd]
          /\ seq' = [seq EXCEPT ![c] = seq[c] + 1]
          /\ inst' = [inst EXCEPT ![c] = 1 - inst[c]]
          /\ sess' = [sess EXCEPT ![c] = fdtab[mfd]]
          /\ mc' = c
    /\ free_cnt' = free_cnt - 1
    /\ mpc' = "add"
    /\ UNCHANGED <<kernel, conns, recyq, it, batch, mfd, tmr, stamps>>

\* get_conn with a free object, under m_conn_mutex.
GetPooled ==
    /\ mpc = "get"
    /\ free_cnt > 0
    /\ LET c == Head(free) IN
          /\ free' = Tail(free)
          /\ fd' = [fd EXCEPT ![c] = mfd]
          /\ seq' = [seq EXCEPT ![c] = seq[c] + 1]
          /\ inst' = [inst EXCEPT ![c] = 1 - inst[c]]
          /\ sess' = [sess EXCEPT ![c] = fdtab[mfd]]
          /\ mc' = c
    /\ free_cnt' = free_cnt - 1
    /\ mpc' = "add"
    /\ UNCHANGED <<kernel, conns, recyq, it, batch, mfd, tmr, stamps>>

\* get_conn without one: the pool grows.  Conn bounds its growth here.
GetNew(c) ==
    /\ mpc = "get"
    /\ free_cnt <= 0
    /\ c \notin conns
    /\ conns' = conns \cup {c}
    /\ fd' = [fd EXCEPT ![c] = mfd]
    /\ seq' = [seq EXCEPT ![c] = seq[c] + 1]
    /\ sess' = [sess EXCEPT ![c] = fdtab[mfd]]
    /\ mc' = c
    /\ mpc' = "add"
    /\ UNCHANGED <<kernel, free, free_cnt, inst, recyq, it, batch, mfd, tmr, stamps>>

\* epoll_oper_event(EPOLL_CTL_ADD), with heartbeats add_to_timer_queue.
Register ==
    /\ mpc = "add"
    /\ interest' = [interest EXCEPT ![mfd] = <<mc, inst[mc]>>]
    /\ timers' = IF Heartbeat THEN timers \cup {<<mc, seq[mc]>>} ELSE timers
    /\ mpc' = "dispatch" /\ mc' = None /\ mfd' = None
    /\ UNCHANGED <<fdtab, peer, freeq, attrs, recyq, it, batch, tpc, tc, stamps>>

RegisterFails ==
    /\ mpc = "add"
    /\ mpc' = "close" /\ mfd' = None
    /\ UNCHANGED <<kernel, freeq, attrs, recyq, it, batch, mc, tmr, stamps>>

-----------------------------------------------------------------------------
(* recy_conn_th_func. *)

RecyBegin ==
    /\ it = None
    /\ recy_cnt > 0
    /\ it' \in recy
    /\ UNCHANGED <<kernel, freeq, attrs, recyq, batch, main, tmr, stamps>>

\* Mutant: the connection is returned but stays in the set.
RecyOne_KeepsMember ==
    /\ it # None
    /\ age[it] >= WaitTime
    /\ recy_cnt' = recy_cnt - 1
    /\ recy' = recy
    /\ FreeConn(it)
    /\ it' \in (recy \ {it}) \cup {None}
    /\ UNCHANGED <<kernel, age, batch, main, tmr, stamps>>

\* The connection the iterator is on is due: it leaves the set and is freed,
\* under both mutexes.  The iterator goes on to another element or to the
\* end; it never moves past a connection that is not due yet.  The order of an
\* unordered set, which a concurrent insert may change, is left open.
RecyOne ==
    /\ it # None
    /\ age[it] >= WaitTime
    /\ recy_cnt' = recy_cnt - 1
    /\ recy' = recy \ {it}
    /\ FreeConn(it)
    /\ it' \in (recy \ {it}) \cup {None}
    /\ UNCHANGED <<kernel, age, batch, main, tmr, stamps>>

-----------------------------------------------------------------------------
(* monitor_timer_th_func, for an entry that timed out. *)

\* The entry has been put back by get_over_time_timer; its stamp still holds
\* and no ping arrived in time: insert_recy_conn_queue begins.
TimerExpires(e) ==
    /\ Heartbeat
    /\ tpc = "idle"
    /\ e \in timers
    /\ e[2] = seq[e[1]]
    /\ tpc' = "close" /\ tc' = e[1]
    /\ UNCHANGED <<kernel, freeq, attrs, recyq, it, batch, main, timers, stamps>>

TimerClose ==
    /\ tpc = "close"
    /\ DeleteTimer(tc)
    /\ CloseFd(tc)
    /\ tpc' = "insert"
    /\ UNCHANGED <<peer, freeq, attrs, recyq, it, batch, main, tc, stamps>>

TimerInsertRecy ==
    /\ tpc = "insert"
    /\ InsertRecy(tc)
    /\ tpc' = "idle" /\ tc' = None
    /\ UNCHANGED <<kernel, freeq, it, batch, main, timers, stamps>>

-----------------------------------------------------------------------------
(* Peers and the clock. *)

PeerLeaves(k) ==
    /\ peer[k] = "live"
    /\ \E how \in {"fin", "rst"} : peer' = [peer EXCEPT ![k] = how]
    /\ UNCHANGED <<fdtab, interest, freeq, attrs, recyq, it, batch, main, tmr, stamps>>

Tick ==
    /\ \E c \in recy : age[c] < WaitTime
    /\ age' = [c \in Conn |-> IF c \in recy /\ age[c] < WaitTime THEN age[c] + 1 ELSE age[c]]
    /\ UNCHANGED <<kernel, freeq, attrs, recy, recy_cnt, it, batch, main, tmr, stamps>>

MainStep ==
    \/ EpollWait
    \/ EndOfBatch
    \/ \E e \in batch : Dispatch(e)
    \/ RecvData
    \/ RecvFin
    \/ RecvError
    \/ CloseForRecy
    \/ MainInsertRecy
    \/ CloseConn
    \/ MainFreeConn
    \/ \E k \in Client : Accept(k)
    \/ GetPooled
    \/ \E c \in Conn : GetNew(c)
    \/ Register
    \/ RegisterFails

RecyStep == RecyBegin \/ RecyOne

TimerStep ==
    \/ \E e \in timers : TimerExpires(e)
    \/ TimerClose
    \/ TimerInsertRecy

Next ==
    \/ MainStep
    \/ RecyStep
    \/ TimerStep
    \/ \E k \in Client : PeerLeaves(k)
    \/ Tick

Spec == Init /\ [][Next]_vars

\* Time passes and the recycler, woken every 200 ms, is scheduled.
FairSpec == Spec /\ WF_vars(RecyStep) /\ WF_vars(Tick)

-----------------------------------------------------------------------------
(* Properties. *)

\* Connections that are taken for a peer and whose descriptor the event loop
\* has not closed yet.
Serving == {c \in Conn : sess[c] # None /\ ~(mpc \in {"insert", "free"} /\ mc = c)}

\* The atomic counters that get_conn and the recycler decide on, without
\* looking at the containers, agree with the containers in every state.
CountersMatch == free_cnt = Len(free) /\ recy_cnt = Cardinality(recy)

\* An object of the pool is in exactly one place: once in the free queue, in
\* the recovery set, or taken for a peer.  A second way into the free queue
\* would hand one object to two peers.
PoolPartition ==
    /\ \A i, j \in 1..Len(free) : free[i] = free[j] => i = j
    /\ InFree \cap recy = {}
    /\ \A c \in Conn : sess[c] # None => c \in conns /\ c \notin InFree \cup recy
    /\ \A c \in conns : sess[c] = None => c \in InFree \cup recy
    /\ InFree \cup recy \subseteq conns

\* The descriptor of a serving connection is open and is that of its own peer,
\* two connections never serve the same peer, and every open descriptor
\* belongs to a connection (or has just been accepted): no descriptor is
\* closed for somebody else, none is leaked.
FdOwnership ==
    /\ \A c \in Serving : fd[c] # None /\ fdtab[fd[c]] = sess[c]
    /\ \A c, d \in Serving : sess[c] = sess[d] => c = d
    /\ \A f \in Fd : fdtab[f] # None =>
          (mpc = "get" /\ mfd = f) \/ \E c \in Serving : fd[c] = f

\* The event loop reads from a descriptor on behalf of a connection only if
\* it is open and that of the peer the connection was taken for.
ReadsOwnPeer ==
    mpc = "recv" => /\ sess[mc] # None
                    /\ fd[mc] # None /\ fdtab[fd[mc]] = sess[mc]

\* A message whose cur_seq still equals the connection's m_cur_seq is a message
\* of the peer the connection serves, and the descriptor a reply would go to
\* is that peer's or closed: no reply reaches another peer after reuse.
StampOwner ==
    \A m \in stamps : seq[m[1]] = m[2] =>
        /\ sess[m[1]] = m[3]
        /\ fd[m[1]] # None /\ fdtab[fd[m[1]]] \in {m[3], None}

\* What a step of any thread may do to the sequence numbers.
Advance ==
    \A c \in Conn : /\ seq'[c] >= seq[c]
                    /\ sess'[c] # sess[c] => seq'[c] > seq[c]

\* Whenever the peer of an object changes, its sequence number grows, so an
\* old stamp can never become valid again, whichever threads recycle it.
SeqAdvances == [][Advance]_vars

\* "delay reclaiming connections in connection pool": a connection in the
\* recovery set comes back to the free queue.
RecyReturned == \A c \in Conn : c \in recy ~> c \in InFree
=============================================================================
