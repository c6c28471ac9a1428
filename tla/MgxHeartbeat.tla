---------------------------- MODULE MgxHeartbeat ----------------------------
(***************************************************************************)
(* Heartbeats in TCP mode.  A connection gets an entry in the timer queue  *)
(* when it is accepted; pool threads note the time of every PING package   *)
(* and answer it (bussiness/mgx_logic_socket.cpp); the monitor thread      *)
(* looks at every connection once per m_heart_wait_time and recycles the   *)
(* silent ones (net/mgx_socket_time.cpp).  Connections are closed, reset   *)
(* and reused meanwhile.                                                   *)
(*                                                                         *)
(* Time is what time() returns, in seconds.  The monitor thread and the    *)
(* event loop do what they have to do before the next second; a pool       *)
(* thread may be delayed.  MgxConnPool has the descriptors and the order   *)
(* of close and insert, which are one step here.                           *)
(***************************************************************************)
EXTENDS Integers, Sequences

CONSTANTS Conn,         \* connection objects
          Job,          \* messages in the thread pool at a time
          None,         \* no message, no connection
          Wait,         \* m_heart_wait_time
          RecyWait,     \* m_recy_conn_wait_time
          Packages,     \* packages that peers send
          HeadGarbage,  \* what m_timer_que_head_time may hold before it is set
          MaxTime,      \* bound: seconds
          MaxAccept     \* bound: connections accepted

ASSUME WaitAssumption ==
    Wait \in Nat \ {0} /\ RecyWait \in Nat \ {0} /\ HeadGarbage \subseteq Nat
ASSUME BoundAssumption == MaxTime \in Nat /\ MaxAccept \in Nat
ASSUME NoneAssumption == None \notin Conn

\* What th_msg_process_func looks at: the crc32 field is right (0 for a package
\* without a body), there is a body, pkg_type.
Package == [crc : BOOLEAN, body : BOOLEAN, type : Nat]

ASSUME PackagesAssumption == Packages \subseteq Package

VARIABLES now,          \* time(nullptr)
          queue,        \* m_timer_queue, by time
          size,         \* m_timer_que_size
          head,         \* m_timer_que_head_time
          tpc,          \* where the monitor thread is
          wake,         \* when its usleep ends
          fresh,        \* history: its first usleep or the walk after it has not ended
          cur,          \* cur_time
          que, tc,      \* the entries that timed out; the connection of one of them
          seq,          \* m_cur_seq
          ping,         \* last_ping_time
          on,           \* the object serves a peer
          free, recy,   \* times in the free queue; the recovery set
          inrecy,       \* in_recy_time
          mc,           \* the event loop: connection accepted or hung up
          mpc,          \* where the event loop is
          job,          \* messages: connection, cur_seq, package, progress
          echo,         \* history: cur_seq and last_ping_time of the last PING answered
          accepts, resets,  \* history, for the bound and for EntriesAreCurrent
          twice         \* history: objects given to a peer while in the recovery set

timer == <<queue, size, head>>
monitor == <<tpc, wake, fresh, cur, que, tc>>
conn == <<seq, ping, on, free, recy, inrecy>>
loop == <<mpc, mc>>
pool == <<job, echo>>
history == <<accepts, resets, twice>>
vars == <<now, queue, size, head, tpc, wake, fresh, cur, que, tc, seq, ping, on,
          free, recy, inrecy, mc, mpc, job, echo, accepts, resets, twice>>

Stamp == [conn : Conn, seq : Nat]
Entry == [conn : Conn, seq : Nat, at : Nat]

TypeOK ==
    /\ now \in 0..MaxTime
    /\ queue \in Seq(Entry) /\ size \in Nat /\ head \in Nat
    /\ tpc \in {"sleep", "walk", "silence", "erase", "recycle", "tired"}
    /\ wake \in Nat /\ fresh \in BOOLEAN /\ cur \in 0..MaxTime
    /\ que \in Seq(Stamp) /\ tc \in Conn \cup {None}
    /\ seq \in [Conn -> Nat] /\ ping \in [Conn -> 0..MaxTime]
    /\ on \in [Conn -> BOOLEAN] /\ free \in [Conn -> Nat] /\ recy \subseteq Conn
    /\ inrecy \in [Conn -> 0..MaxTime]
    /\ mpc \in {"idle", "add", "recycle"} /\ mc \in Conn \cup {None}
    /\ job \in [Job -> [conn : Conn, seq : Nat, pkg : Packages, at : 0..MaxTime,
                        pc : {"queued", "refresh", "reply"}] \cup {None}]
    /\ echo \in [Conn -> [seq : Nat, at : 0..MaxTime]]
    /\ accepts \in 0..MaxAccept /\ resets \in Nat /\ twice \subseteq Conn

\* The monitor thread is about to compute its first sleep.
Init ==
    /\ now = 0
    /\ queue = <<>> /\ size = 0 /\ head \in HeadGarbage
    /\ tpc = "tired" /\ wake = 0 /\ fresh = TRUE /\ cur = 0
    /\ que = <<>> /\ tc = None
    /\ seq = [c \in Conn |-> 1] /\ ping = [c \in Conn |-> 0]
    /\ on = [c \in Conn |-> FALSE]
    /\ free = [c \in Conn |-> 1] /\ recy = {}
    /\ inrecy = [c \in Conn |-> 0]
    /\ mpc = "idle" /\ mc = None
    /\ job = [j \in Job |-> None]
    /\ echo = [c \in Conn |-> [seq |-> 0, at |-> 0]]
    /\ accepts = 0 /\ resets = 0 /\ twice = {}

-----------------------------------------------------------------------------
(* The timer queue, a multimap. *)

\* The queue is sorted: how many entries are of time t or earlier.
UpperBound(q, t) ==
    CHOOSE k \in 0..Len(q) : /\ \A i \in 1..k : q[i].at <= t
                             /\ \A i \in (k + 1)..Len(q) : q[i].at > t
Due(q, t) == SubSeq(q, 1, UpperBound(q, t))
Later(q, t) == SubSeq(q, UpperBound(q, t) + 1, Len(q))

\* emplace at time t of one entry per stamp: behind the entries of that time.
Emplace(q, stamps, t) ==
    Due(q, t)
    \o [i \in 1..Len(stamps) |-> [conn |-> stamps[i].conn, seq |-> stamps[i].seq, at |-> t]]
    \o Later(q, t)

\* add_to_timer_queue.
AddToTimerQueue(c) ==
    /\ queue' = Emplace(queue, <<[conn |-> c, seq |-> seq[c]]>>, now + Wait)
    /\ size' = size + 1
    /\ head' = queue'[1].at

\* Mutant: the entry stays.
DeleteFromTimerQueue_Keeps(c) == UNCHANGED timer

\* delete_from_timer_queue: the first entry of the object, of whatever session.
DeleteFromTimerQueue(c) ==
    LET mine == {i \in 1..Len(queue) : queue[i].conn = c}
        first == CHOOSE i \in mine : \A k \in mine : i <= k
    IN  /\ IF mine = {}
           THEN UNCHANGED <<queue, size>>
           ELSE /\ queue' = SubSeq(queue, 1, first - 1) \o SubSeq(queue, first + 1, Len(queue))
                /\ size' = size - 1
        /\ head' = IF size' > 0 THEN queue'[1].at ELSE head

-----------------------------------------------------------------------------
(* monitor_timer_th_func. *)

\* The end of the loop: sleep until the head is due, or for 200 ms.  The sleep
\* starts somewhere inside a second and so may end in the one after.
FallAsleep ==
    /\ tpc = "tired"
    /\ tpc' = "sleep"
    /\ \E late \in {0, 1} : wake' = late + IF head > now THEN head ELSE now
    /\ UNCHANGED <<now, timer, fresh, cur, que, tc, conn, loop, pool, history>>

\* Nothing is due when the thread looks.
WakeForNothing ==
    /\ tpc = "sleep" /\ now >= wake
    /\ size = 0 \/ now <= head
    /\ tpc' = "tired" /\ fresh' = FALSE /\ wake' = 0
    /\ UNCHANGED <<now, timer, cur, que, tc, conn, loop, pool, history>>

\* What an entry points at.
Stamps(entries) ==
    [i \in 1..Len(entries) |-> [conn |-> entries[i].conn, seq |-> entries[i].seq]]

\* Mutant: get_over_time_timer does not put the entries back.
WakeForTimers_Drops ==
    /\ tpc = "sleep" /\ now >= wake
    /\ size > 0 /\ now > head
    /\ que' = Stamps(Due(queue, now))
    /\ queue' = Later(queue, now)
    /\ size' = Len(queue')
    /\ head' = IF queue' # <<>> THEN queue'[1].at ELSE head
    /\ cur' = now /\ wake' = 0
    /\ tpc' = "walk"
    /\ UNCHANGED <<now, fresh, tc, conn, loop, pool, history>>

\* The loop over get_over_time_timer, under m_timer_que_mutex: every entry that
\* is due is remembered and put back for the time after.
WakeForTimers ==
    /\ tpc = "sleep" /\ now >= wake
    /\ size > 0 /\ now > head
    /\ que' = Stamps(Due(queue, now))
    /\ queue' = Emplace(Later(queue, now), que', now + Wait)
    /\ head' = queue'[1].at
    /\ cur' = now /\ wake' = 0
    /\ tpc' = "walk"
    /\ UNCHANGED <<now, size, fresh, tc, conn, loop, pool, history>>

WalkEnd ==
    /\ tpc = "walk" /\ que = <<>>
    /\ tpc' = "tired" /\ cur' = 0 /\ fresh' = FALSE
    /\ UNCHANGED <<now, timer, wake, que, tc, conn, loop, pool, history>>

\* The next entry, if its connection still serves the same peer.
WalkOne ==
    /\ tpc = "walk" /\ que # <<>>
    /\ que' = Tail(que)
    /\ IF Head(que).seq = seq[Head(que).conn]
       THEN tpc' = "silence" /\ tc' = Head(que).conn
       ELSE UNCHANGED <<tpc, tc>>
    /\ UNCHANGED <<now, timer, wake, fresh, cur, conn, loop, pool, history>>

\* Has it been silent for three periods?
TestSilence ==
    /\ tpc = "silence"
    /\ IF cur - ping[tc] > 3 * Wait
       THEN tpc' = "erase" /\ UNCHANGED tc
       ELSE tpc' = "walk" /\ tc' = None
    /\ UNCHANGED <<now, timer, wake, fresh, cur, que, conn, loop, pool, history>>

\* insert_recy_conn_queue: first the entry is erased,
MonitorErase ==
    /\ tpc = "erase"
    /\ DeleteFromTimerQueue(tc)
    /\ tpc' = "recycle"
    /\ UNCHANGED <<now, wake, fresh, cur, que, tc, conn, loop, pool, history>>

\* then the descriptor is closed and, unless it is there, the object goes to the
\* recovery set.
Recycle(c) ==
    /\ on' = [on EXCEPT ![c] = FALSE]
    /\ IF c \in recy
       THEN UNCHANGED <<seq, recy, inrecy>>
       ELSE /\ seq' = [seq EXCEPT ![c] = @ + 1]
            /\ recy' = recy \cup {c}
            /\ inrecy' = [inrecy EXCEPT ![c] = now]
    /\ UNCHANGED <<ping, free>>

MonitorRecycle ==
    /\ tpc = "recycle"
    /\ Recycle(tc)
    /\ tpc' = "walk" /\ tc' = None
    /\ UNCHANGED <<now, timer, wake, fresh, cur, que, loop, pool, history>>

-----------------------------------------------------------------------------
(* The event loop and the recycler. *)

\* event_accept: get_conn takes an object,
Accept(c) ==
    /\ mpc = "idle"
    /\ accepts < MaxAccept
    /\ free[c] > 0
    /\ accepts' = accepts + 1 /\ twice' = twice \cup ({c} \cap recy)
    /\ free' = [free EXCEPT ![c] = @ - 1]
    /\ seq' = [seq EXCEPT ![c] = @ + 1]
    /\ ping' = [ping EXCEPT ![c] = now]
    /\ on' = [on EXCEPT ![c] = TRUE]
    /\ mpc' = "add" /\ mc' = c
    /\ UNCHANGED <<now, timer, monitor, recy, inrecy, pool, resets>>

\* and then it gets its timer.
AcceptAddsTimer ==
    /\ mpc = "add"
    /\ AddToTimerQueue(mc)
    /\ mpc' = "idle" /\ mc' = None
    /\ UNCHANGED <<now, monitor, conn, pool, history>>

\* recv returned 0: insert_recy_conn_queue, in the same two steps.
HangUp(c) ==
    /\ mpc = "idle"
    /\ on[c]
    /\ DeleteFromTimerQueue(c)
    /\ mpc' = "recycle" /\ mc' = c
    /\ UNCHANGED <<now, monitor, conn, pool, history>>

HangUpRecycles ==
    /\ mpc = "recycle"
    /\ Recycle(mc)
    /\ mpc' = "idle" /\ mc' = None
    /\ UNCHANGED <<now, timer, monitor, pool, history>>

\* recv failed: close_conn, which leaves the timer queue alone.
Reset(c) ==
    /\ mpc = "idle"
    /\ on[c]
    /\ resets' = resets + 1
    /\ on' = [on EXCEPT ![c] = FALSE]
    /\ seq' = [seq EXCEPT ![c] = @ + 1]
    /\ free' = [free EXCEPT ![c] = @ + 1]
    /\ UNCHANGED <<now, timer, monitor, ping, recy, inrecy, loop, pool, accepts, twice>>

\* recy_conn_th_func returns an object that is due.
Return(c) ==
    /\ c \in recy
    /\ now >= inrecy[c] + RecyWait
    /\ recy' = recy \ {c}
    /\ seq' = [seq EXCEPT ![c] = @ + 1]
    /\ free' = [free EXCEPT ![c] = @ + 1]
    /\ UNCHANGED <<now, timer, monitor, ping, on, inrecy, loop, pool, history>>

-----------------------------------------------------------------------------
(* Packages: received by the event loop, handled by pool threads. *)

\* A whole package is stamped and queued.
Receive(j, c, p) ==
    /\ mpc = "idle"
    /\ on[c]
    /\ job[j] = None
    /\ job' = [job EXCEPT ![j] = [conn |-> c, seq |-> seq[c], pkg |-> p, at |-> 0, pc |-> "queued"]]
    /\ UNCHANGED <<now, timer, monitor, conn, loop, echo, history>>

\* The entries of pkg_handlers; the last is a null pointer.
PkgHandlers == <<"ping", "register", "login", "null">>

\* The handler th_msg_process_func calls: none for a wrong crc32, a package of
\* an earlier peer, a type out of range or without a handler.
HandlerOf(m) ==
    IF ~m.pkg.crc \/ m.seq # seq[m.conn] \/ m.pkg.type >= Len(PkgHandlers)
    THEN "null"
    ELSE PkgHandlers[m.pkg.type + 1]

\* ping_handler takes no body.
IsPing(m) == HandlerOf(m) = "ping" /\ ~m.pkg.body

\* th_msg_process_func up to the handler.  register_handler pushes its reply to
\* the send queue and login_handler does nothing: neither touches the timers.
Process(j) ==
    /\ job[j] # None /\ job[j].pc = "queued"
    /\ job' = [job EXCEPT ![j] = IF IsPing(@) THEN [@ EXCEPT !.pc = "refresh"] ELSE None]
    /\ UNCHANGED <<now, timer, monitor, conn, loop, echo, history>>

\* Mutant: last_ping_time is not updated.
Refresh_Forgets(j) ==
    /\ job[j] # None /\ job[j].pc = "refresh"
    /\ job' = [job EXCEPT ![j].pc = "reply", ![j].at = now]
    /\ UNCHANGED <<now, timer, monitor, conn, loop, echo, history>>

\* ping_handler; the mutex it names is released at once.
Refresh(j) ==
    /\ job[j] # None /\ job[j].pc = "refresh"
    /\ ping' = [ping EXCEPT ![job[j].conn] = now]
    /\ job' = [job EXCEPT ![j].pc = "reply", ![j].at = now]
    /\ UNCHANGED <<now, timer, monitor, seq, on, free, recy, inrecy, loop, echo, history>>

\* send_msg_with_nobody pushes the answer, stamped as the request.
Reply(j) ==
    /\ job[j] # None /\ job[j].pc = "reply"
    /\ echo' = [echo EXCEPT ![job[j].conn] = [seq |-> job[j].seq, at |-> job[j].at]]
    /\ job' = [job EXCEPT ![j] = None]
    /\ UNCHANGED <<now, timer, monitor, conn, loop, history>>

-----------------------------------------------------------------------------
Tick ==
    /\ now < MaxTime
    /\ tpc = "sleep" /\ now < wake
    /\ mpc = "idle"
    /\ now' = now + 1
    /\ UNCHANGED <<timer, monitor, conn, loop, pool, history>>

MonitorStep ==
    \/ FallAsleep
    \/ WakeForNothing
    \/ WakeForTimers
    \/ WalkEnd
    \/ WalkOne
    \/ TestSilence
    \/ MonitorErase
    \/ MonitorRecycle

LoopStep ==
    \/ \E c \in Conn : Accept(c) \/ HangUp(c) \/ Reset(c)
    \/ AcceptAddsTimer
    \/ HangUpRecycles
    \/ \E j \in Job, c \in Conn, p \in Packages : Receive(j, c, p)

JobStep(j) == Process(j) \/ Refresh(j) \/ Reply(j)

Next ==
    \/ MonitorStep
    \/ LoopStep
    \/ \E c \in Conn : Return(c)
    \/ \E j \in Job : JobStep(j)
    \/ Tick

Spec == Init /\ [][Next]_vars

-----------------------------------------------------------------------------
(* Properties. *)

\* "heartbeat packet mechanism and detection timer queue to reclaim
\* connections": a connection that sends no PING is recycled after three periods
\* and at most one period and a second more, however many others come, go and
\* are reused, once the monitor thread has come back from its first sleep
\* and looked at the connections.  One that the event loop is closing counts as
\* recycled.  Not covered is an object that close_conn freed while the monitor
\* thread put it into the recovery set: if it serves a peer when it is returned
\* from there, its new sequence number makes its timer a stale one.
SilentIsRecycled ==
    \A c \in Conn \ twice : on[c] /\ ~fresh /\ ~(mpc = "recycle" /\ mc = c)
        => now - ping[c] <= 4 * Wait + 1

\* A peer whose PING was answered is not found silent for three periods from
\* then on.  The decision uses a cur_time, a sequence number and a
\* last_ping_time that are read at different times.
AnsweredIsKept ==
    [][tpc = "silence" /\ tpc' = "erase" /\ echo[tc].seq = seq[tc]
          => now - echo[tc].at > 3 * Wait]_vars

\* As long as no connection was reset, every entry of the timer queue belongs
\* to the peer its connection serves now, whichever thread recycles it: the
\* queue does not fill with entries of peers that are gone.
EntriesAreCurrent ==
    resets = 0 => \A i \in 1..Len(queue) :
        LET e == queue[i] IN on[e.conn] /\ e.seq = seq[e.conn]
=============================================================================
