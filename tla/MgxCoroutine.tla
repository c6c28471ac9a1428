----------------------------- MODULE MgxCoroutine -----------------------------
(***************************************************************************)
(* The coroutine library: Mgx_coroutine, its scheduler and the sockets     *)
(* that suspend a coroutine instead of blocking (Mgx_cosocket).            *)
(*                                                                         *)
(* One thread runs everything.  schedule() resumes at most one sleeper     *)
(* that is due, then one coroutine of the ready list, then those whose     *)
(* descriptor epoll_wait reports.  A resumed coroutine runs until it       *)
(* switches back; where it goes on afterwards is at[c], which stands for   *)
(* its saved registers and stack.  What coroutines do between two switches *)
(* is any sequence of the library's calls.                                 *)
(*                                                                         *)
(* Times are relative to the present: sleep_ms is kept as what is left of  *)
(* it, and Tick takes one off.  Time passes in epoll_wait only: coroutines *)
(* compute in no time.                                                     *)
(***************************************************************************)
EXTENDS Integers, Sequences, FiniteSets

CONSTANTS Co,         \* coroutine objects
          Main,       \* the one that main() creates
          Fd,         \* descriptor numbers
          Delay,      \* arguments of msleep and timeouts of connect
          WaitTimeout,\* MGX_CO_SCHEDULER_EPOLL_WAIT_TIMEOUT
          None        \* nullptr, and no descriptor

ASSUME CoAssumption == IsFiniteSet(Co) /\ Main \in Co /\ None \notin Co \cup Fd
ASSUME DelayAssumption == Delay \subseteq Nat /\ WaitTimeout \in Nat \ {0}

VARIABLES status,     \* m_status; "none" before the constructor, "EXITED" when deleted
          at,         \* where the coroutine goes on when it is resumed
          wait_fd,    \* m_wait_fd; none when nothing will read it before it is set
          ready,      \* m_co_ready_list
          sleep,      \* m_co_sleep_rbtree, in the order of its keys
          interest,   \* epoll: the coroutine in data.ptr and the event waited for
          cur,        \* m_cur_co
          pc,         \* the place of schedule() that runs, or is returned to
          left,       \* what is left of epoll_wait's timeout
          events,     \* m_events still to be handled: coroutines, with EPOLLERR or not
          sock,       \* kernel: the state of every descriptor
          avail,      \* kernel: what can be done on it without blocking
          owner       \* the coroutine that uses the descriptor

co_vars == <<status, at, wait_fd>>
sch_vars == <<ready, sleep, interest>>
kernel == <<sock, avail, owner>>
vars == <<status, at, wait_fd, ready, sleep, interest, cur, pc, left, events, sock, avail, owner>>

Status == {"none", "READY", "WAITING", "SLEEPING", "RUNNING", "EXITED"}
Event == {"in", "out"}      \* EPOLLIN, EPOLLOUT

TypeOK ==
    /\ status \in [Co -> Status]
    /\ at \in [Co -> {"code", "slept", "waited", "connect", "timed"}]
    /\ wait_fd \in [Co -> Fd \cup {None}]
    /\ ready \in Seq(Co)
    /\ sleep \in Seq([left : Int, co : Co])
    /\ interest \in [Fd -> [co : Co \cup {None}, ev : Event]]
    /\ cur \in Co \cup {None}
    /\ pc \in {"sleep", "ready", "poll", "wait", "events"}
    /\ left \in 0..WaitTimeout
    /\ events \subseteq [co : Co, err : BOOLEAN]
    /\ sock \in [Fd -> {"closed", "listen", "connecting", "open", "error"}]
    /\ avail \in [Fd -> SUBSET Event]
    /\ owner \in [Fd -> Co \cup {None}]

Unregistered == [co |-> None, ev |-> "in"]

Init ==
    /\ status = [c \in Co |-> IF c = Main THEN "READY" ELSE "none"]
    /\ at = [c \in Co |-> "code"]
    /\ wait_fd = [c \in Co |-> None]
    /\ ready = <<Main>>
    /\ sleep = <<>>
    /\ interest = [f \in Fd |-> Unregistered]
    /\ cur = None /\ pc = "sleep" /\ left = 0 /\ events = {}
    /\ sock = [f \in Fd |-> "closed"]
    /\ avail = [f \in Fd |-> {}]
    /\ owner = [f \in Fd |-> None]

-----------------------------------------------------------------------------
(* Mgx_coroutine_scheduler::schedule *)

\* Mgx_coroutine::resume, up to the switch; schedule() goes on at place p.
Resume(c, p) ==
    /\ cur' = c
    /\ status' = [status EXCEPT ![c] = "RUNNING"]
    /\ pc' = p

Due == sleep # <<>> /\ Head(sleep).left <= 0

\* Mutant: sleepers are only looked at when nobody is ready.
WakeSleeper_Idle ==
    /\ cur = None /\ pc = "sleep"
    /\ IF Due /\ ready = <<>> THEN Resume(Head(sleep).co, "ready")
                              ELSE pc' = "ready" /\ UNCHANGED <<cur, status>>
    /\ UNCHANGED <<at, wait_fd, sch_vars, left, events, kernel>>

\* The first sleeper, if it is due.  It stays in the tree until it runs.
WakeSleeper ==
    /\ cur = None /\ pc = "sleep"
    /\ IF Due THEN Resume(Head(sleep).co, "ready")
              ELSE pc' = "ready" /\ UNCHANGED <<cur, status>>
    /\ UNCHANGED <<at, wait_fd, sch_vars, left, events, kernel>>

\* Mutant: the coroutine is erased from the list when it has run.
RunReady_KeepsFront ==
    /\ cur = None /\ pc = "ready"
    /\ IF ready # <<>> THEN Resume(Head(ready), "poll")
                       ELSE pc' = "poll" /\ UNCHANGED <<cur, status>>
    /\ UNCHANGED <<at, wait_fd, sch_vars, left, events, kernel>>

RunReady ==
    /\ cur = None /\ pc = "ready"
    /\ IF ready # <<>>
       THEN Resume(Head(ready), "poll") /\ ready' = Tail(ready)
       ELSE pc' = "poll" /\ UNCHANGED <<cur, status, ready>>
    /\ UNCHANGED <<at, wait_fd, sleep, interest, left, events, kernel>>

\* get_epoll_wait_timeout_ms: not shorter than the default when somebody is
\* ready, or when the first sleeper is already late.
EpollWaitTimeout ==
    IF sleep # <<>> /\ ready = <<>> /\ Head(sleep).left \in 1..WaitTimeout
    THEN Head(sleep).left
    ELSE WaitTimeout

EpollWait ==
    /\ cur = None /\ pc = "poll"
    /\ left' = EpollWaitTimeout
    /\ pc' = "wait"
    /\ UNCHANGED <<co_vars, sch_vars, cur, events, kernel>>

Tick ==
    /\ cur = None /\ pc = "wait"
    /\ left > 0
    /\ left' = left - 1
    /\ sleep' = [i \in DOMAIN sleep |-> [sleep[i] EXCEPT !.left = @ - 1]]
    /\ UNCHANGED <<co_vars, ready, interest, cur, pc, events, kernel>>

\* EPOLLERR, or the event that was asked for.
Reported(f) ==
    interest[f].co # None /\ (sock[f] = "error" \/ interest[f].ev \in avail[f])

EpollReturn ==
    /\ cur = None /\ pc = "wait"
    /\ left = 0 \/ \E f \in Fd : Reported(f)
    /\ events' = {[co |-> interest[f].co, err |-> sock[f] = "error"] : f \in {g \in Fd : Reported(g)}}
    /\ pc' = "events" /\ left' = 0
    /\ UNCHANGED <<co_vars, sch_vars, cur, kernel>>

\* EINTR, while there is nothing to report: num_events is -1.
EpollInterrupted ==
    /\ cur = None /\ pc = "wait"
    /\ \A f \in Fd : ~Reported(f)
    /\ pc' = "events" /\ left' = 0
    /\ UNCHANGED <<co_vars, sch_vars, cur, events, kernel>>

EventResumes(e) ==
    /\ cur = None /\ pc = "events"
    /\ e \in events /\ ~e.err
    /\ Resume(e.co, "events")
    /\ events' = events \ {e}
    /\ UNCHANGED <<at, wait_fd, sch_vars, left, kernel>>

\* Mutant: after EPOLL_CTL_DEL the coroutine is resumed, as for other events.
EventError_Resumes(e) ==
    /\ cur = None /\ pc = "events"
    /\ e \in events /\ e.err
    /\ interest' = [interest EXCEPT ![wait_fd[e.co]] = Unregistered]
    /\ events' = events \ {e}
    /\ Resume(e.co, "events")
    /\ UNCHANGED <<at, wait_fd, ready, sleep, left, kernel>>

\* EPOLLERR: the descriptor is taken out of epoll, the coroutine is not resumed.
EventError(e) ==
    /\ cur = None /\ pc = "events"
    /\ e \in events /\ e.err
    /\ interest' = [interest EXCEPT ![wait_fd[e.co]] = Unregistered]
    /\ events' = events \ {e}
    /\ UNCHANGED <<co_vars, ready, sleep, cur, pc, left, kernel>>

EventsEnd ==
    /\ cur = None /\ pc = "events"
    /\ events = {}
    /\ pc' = "sleep"
    /\ UNCHANGED <<co_vars, sch_vars, cur, left, events, kernel>>

-----------------------------------------------------------------------------
(* Mgx_coroutine: what the running coroutine may call. *)

\* It runs code of its own: between calls of the library.
InCode(c) == cur = c /\ at[c] = "code"

\* _switch to the scheduler, whose resume() resets m_cur_co.
SwitchBack(c, s, p) ==
    /\ status' = [status EXCEPT ![c] = s]
    /\ at' = [at EXCEPT ![c] = p]
    /\ cur' = None

\* new Mgx_coroutine(func, arg), where arg may pass a descriptor on.
Spawn(c, d) ==
    /\ InCode(c)
    /\ status[d] = "none"
    /\ status' = [status EXCEPT ![d] = "READY"]
    /\ ready' = Append(ready, d)
    /\ \/ UNCHANGED owner
       \/ \E f \in Fd : owner[f] = c /\ owner' = [owner EXCEPT ![f] = d]
    /\ UNCHANGED <<at, wait_fd, sleep, interest, cur, pc, left, events, sock, avail>>

\* Mutant: push_front.
Yield_Front(c) ==
    /\ InCode(c)
    /\ ready' = <<c>> \o ready
    /\ SwitchBack(c, "READY", "code")
    /\ UNCHANGED <<wait_fd, sleep, interest, pc, left, events, kernel>>

Yield(c) ==
    /\ InCode(c)
    /\ ready' = Append(ready, c)
    /\ SwitchBack(c, "READY", "code")
    /\ UNCHANGED <<wait_fd, sleep, interest, pc, left, events, kernel>>

\* multimap::emplace: behind the entries with the same or an earlier time.
InsertSleep(ms, c) ==
    \E n \in 0..Len(sleep) :
        /\ \A i \in 1..Len(sleep) : i <= n <=> sleep[i].left <= ms
        /\ sleep' = SubSeq(sleep, 1, n) \o <<[left |-> ms, co |-> c]>> \o SubSeq(sleep, n + 1, Len(sleep))

Msleep(c) ==
    /\ InCode(c)
    /\ \E ms \in Delay : InsertSleep(ms, c)
    /\ SwitchBack(c, "SLEEPING", "slept")
    /\ UNCHANGED <<wait_fd, ready, interest, pc, left, events, kernel>>

\* The rest of msleep: remove_first_sleep_rbtree.
MsleepReturns(c) ==
    /\ cur = c /\ at[c] = "slept"
    /\ sleep' = Tail(sleep)
    /\ at' = [at EXCEPT ![c] = "code"]
    /\ UNCHANGED <<status, wait_fd, ready, interest, cur, pc, left, events, kernel>>

\* _exec: the function has returned, having closed or passed on its sockets;
\* the scheduler deletes the object.
Exit(c) ==
    /\ InCode(c)
    /\ \A f \in Fd : owner[f] # c
    /\ SwitchBack(c, "EXITED", "code")
    /\ UNCHANGED <<wait_fd, sch_vars, pc, left, events, kernel>>

-----------------------------------------------------------------------------
(* Mgx_cosocket.  A descriptor is used by one coroutine at a time. *)

\* A coroutine waits for ev on f: set_wait_fd, add_event_wait_epoll, yield.
WaitFor(c, f, ev, p) ==
    /\ wait_fd' = [wait_fd EXCEPT ![c] = f]
    /\ interest' = [interest EXCEPT ![f] = [co |-> c, ev |-> ev]]
    /\ SwitchBack(c, "WAITING", p)
    /\ UNCHANGED <<ready, sleep, pc, left, events, kernel>>

RemoveEventWait(c) == interest' = [interest EXCEPT ![wait_fd[c]] = Unregistered]

\* A call on f that would do ev does not have to wait; one that fails returns too.
Possible(f, ev) == ev \in avail[f] \/ sock[f] = "error"

\* socket, bind and listen.
Listen(c, f) ==
    /\ InCode(c)
    /\ sock[f] = "closed"
    /\ sock' = [sock EXCEPT ![f] = "listen"]
    /\ owner' = [owner EXCEPT ![f] = c]
    /\ UNCHANGED <<co_vars, sch_vars, cur, pc, left, events, avail>>

Close(c, f) ==
    /\ InCode(c)
    /\ owner[f] = c
    /\ sock' = [sock EXCEPT ![f] = "closed"]
    /\ avail' = [avail EXCEPT ![f] = {}]
    /\ owner' = [owner EXCEPT ![f] = None]
    /\ interest' = [interest EXCEPT ![f] = Unregistered]
    /\ UNCHANGED <<co_vars, ready, sleep, cur, pc, left, events>>

\* recv or send that goes through, using up what there is, or fails: the
\* connection is broken.
Transfer(c, f, ev) ==
    /\ InCode(c)
    /\ owner[f] = c /\ sock[f] \in {"open", "error"}
    /\ Possible(f, ev)
    /\ avail' = [avail EXCEPT ![f] = @ \ {ev}]
    /\ UNCHANGED <<co_vars, sch_vars, cur, pc, left, events, sock, owner>>

\* accept; set_socket_opt closes the new descriptor when it fails.
Accept(c, f) ==
    /\ InCode(c)
    /\ owner[f] = c /\ sock[f] = "listen"
    /\ Possible(f, "in")
    /\ avail' = [avail EXCEPT ![f] = {}]
    /\ \/ UNCHANGED <<sock, owner>>
       \/ \E g \in Fd :
             /\ sock[g] = "closed"
             /\ sock' = [sock EXCEPT ![g] = "open"]
             /\ owner' = [owner EXCEPT ![g] = c]
    /\ UNCHANGED <<co_vars, sch_vars, cur, pc, left, events>>

\* EAGAIN.
WouldBlock(c, f, ev) ==
    /\ InCode(c)
    /\ owner[f] = c /\ sock[f] \in {"listen", "open"}
    /\ sock[f] = "listen" => ev = "in"
    /\ ~Possible(f, ev)
    /\ WaitFor(c, f, ev, "waited")

\* Back from the yield in accept, recv or send: the event is removed and the
\* call tried again, which is a call of its own from there on.
WaitReturns(c) ==
    /\ cur = c /\ at[c] = "waited"
    /\ RemoveEventWait(c)
    /\ wait_fd' = [wait_fd EXCEPT ![c] = None]
    /\ at' = [at EXCEPT ![c] = "code"]
    /\ UNCHANGED <<status, ready, sleep, cur, pc, left, events, kernel>>

\* socket and connect, whose handshake goes on: EINPROGRESS.
Connect(c, f) ==
    /\ InCode(c)
    /\ sock[f] = "closed"
    /\ sock' = [sock EXCEPT ![f] = "connecting"]
    /\ owner' = [owner EXCEPT ![f] = c]
    /\ UNCHANGED <<ready, pc, left, events, avail>>
    /\ \/ /\ wait_fd' = [wait_fd EXCEPT ![c] = f]
          /\ interest' = [interest EXCEPT ![f] = [co |-> c, ev |-> "out"]]
          /\ SwitchBack(c, "WAITING", "connect")
          /\ UNCHANGED sleep
       \/ /\ \E timeout \in Delay \ {0} : InsertSleep(timeout, c)
          /\ SwitchBack(c, "SLEEPING", "timed")
          /\ UNCHANGED <<wait_fd, interest>>

\* connect that has succeeded or failed at once, or whose errno says so.
ConnectAtOnce(c, f) ==
    /\ InCode(c)
    /\ sock[f] = "closed"
    /\ \/ sock' = [sock EXCEPT ![f] = "open"] /\ avail' = [avail EXCEPT ![f] = {"out"}]
       \/ sock' = [sock EXCEPT ![f] = "error"] /\ UNCHANGED avail
    /\ owner' = [owner EXCEPT ![f] = c]
    /\ UNCHANGED <<co_vars, sch_vars, cur, pc, left, events>>

\* Back in connect: SO_ERROR, or mgx_select with no time to wait after the
\* sleep, tells whether the handshake succeeded, failed or is still going on.
\* The caller learns the result; the socket stays its own in every case.
ConnectReturns(c) ==
    /\ cur = c /\ at[c] \in {"connect", "timed"}
    /\ IF at[c] = "connect"
       THEN RemoveEventWait(c) /\ wait_fd' = [wait_fd EXCEPT ![c] = None] /\ UNCHANGED sleep
       ELSE sleep' = Tail(sleep) /\ UNCHANGED <<interest, wait_fd>>
    /\ at' = [at EXCEPT ![c] = "code"]
    /\ UNCHANGED <<status, ready, cur, pc, left, events, kernel>>

-----------------------------------------------------------------------------
(* The kernel and the peers.  They act at any time; what happens while a   *)
(* coroutine runs is taken to happen before it was resumed.                *)

Outside == cur = None /\ pc \in {"wait", "events"}

Arrive(f, ev) ==
    /\ Outside
    /\ sock[f] = "open" \/ (sock[f] = "listen" /\ ev = "in")
    /\ avail' = [avail EXCEPT ![f] = @ \cup {ev}]
    /\ UNCHANGED <<co_vars, sch_vars, cur, pc, left, events, sock, owner>>

Handshake(f) ==
    /\ Outside
    /\ sock[f] = "connecting"
    /\ sock' = [sock EXCEPT ![f] = "open"]
    /\ avail' = [avail EXCEPT ![f] = {"out"}]
    /\ UNCHANGED <<co_vars, sch_vars, cur, pc, left, events, owner>>

\* A refused connect or a reset connection.
Fail(f) ==
    /\ Outside
    /\ sock[f] \in {"connecting", "open"}
    /\ sock' = [sock EXCEPT ![f] = "error"]
    /\ avail' = [avail EXCEPT ![f] = {}]
    /\ UNCHANGED <<co_vars, sch_vars, cur, pc, left, events, owner>>

Schedule ==
    \/ WakeSleeper
    \/ RunReady
    \/ EpollWait
    \/ EpollReturn
    \/ \E e \in events : EventResumes(e) \/ EventError(e)
    \/ EventsEnd

\* The calls that come back from a switch, and those that end in one.
Return(c) == MsleepReturns(c) \/ WaitReturns(c) \/ ConnectReturns(c)
Leave(c) ==
    \/ Yield(c)
    \/ Msleep(c)
    \/ Exit(c)
    \/ \E f \in Fd : Connect(c, f) \/ \E ev \in Event : WouldBlock(c, f, ev)

Next ==
    \/ Schedule
    \/ Tick
    \/ EpollInterrupted
    \/ \E c \in Co : Return(c) \/ Leave(c)
    \/ \E c, d \in Co : Spawn(c, d)
    \/ \E c \in Co, f \in Fd : Listen(c, f) \/ ConnectAtOnce(c, f) \/ Close(c, f) \/ Accept(c, f)
    \/ \E c \in Co, f \in Fd, ev \in Event : Transfer(c, f, ev)
    \/ \E f \in Fd : Handshake(f) \/ Fail(f) \/ \E ev \in Event : Arrive(f, ev)

Spec == Init /\ [][Next]_vars

\* main() calls schedule() in an endless loop, time passes, whether or not
\* signals interrupt epoll_wait, and the code of a coroutine does not run for
\* ever without a call that switches.
FairSpec ==
    /\ Spec
    /\ WF_vars(Schedule)
    /\ SF_vars(Tick)
    /\ WF_vars(\E c \in Co : Return(c) \/ Leave(c))

-----------------------------------------------------------------------------
(* Properties. *)

\* Where the scheduler can find coroutine c again.
InReady(c) == {i \in 1..Len(ready) : ready[i] = c}
InSleep(c) == {i \in 1..Len(sleep) : sleep[i].co = c}
InEpoll(c) == {f \in Fd : interest[f].co = c}
InEvents(c) == {e \in events : e.co = c}

\* A coroutine is in exactly one place from which it can be resumed, and in
\* none once it is deleted: the ready list, the sleep tree and epoll hold raw
\* pointers, so a second place would resume it twice and a late one would
\* resume freed memory.  The one coroutine that nobody holds is one that waited
\* on a socket that failed.  A coroutine that comes back from msleep erases the
\* first entry of the tree, whichever that is by then: it is its own.
OneHome ==
    /\ \A c \in Co : status[c] = "READY" =>
          Cardinality(InReady(c)) = 1 /\ InSleep(c) = {} /\ InEpoll(c) = {}
    /\ \A c \in Co : status[c] = "SLEEPING" =>
          Cardinality(InSleep(c)) = 1 /\ InReady(c) = {} /\ InEpoll(c) = {}
    /\ \A c \in Co : status[c] = "WAITING" =>
          /\ InReady(c) = {} /\ InSleep(c) = {}
          /\ InEpoll(c) = {wait_fd[c]} \/ (InEpoll(c) = {} /\ sock[wait_fd[c]] = "error")
    /\ \A c \in Co : status[c] = "RUNNING" =>
          /\ cur = c /\ InReady(c) = {}
          /\ InSleep(c) = IF at[c] \in {"slept", "timed"} THEN {1} ELSE {}
    /\ \A c \in Co : status[c] \in {"none", "EXITED"} =>
          InReady(c) = {} /\ InSleep(c) = {} /\ InEpoll(c) = {} /\ InEvents(c) = {}
    /\ \A e \in events : status[e.co] = "WAITING"

\* The assertions on epoll_ctl hold: what a coroutine adds is not registered
\* yet, and what it removes is registered, for itself.
EpollAssertsHold ==
    \A c \in Co : cur = c =>
        IF at[c] \in {"waited", "connect"}
        THEN wait_fd[c] # None /\ interest[wait_fd[c]].co = c
        ELSE \A f \in Fd : owner[f] = c => interest[f].co = None

\* Nobody sleeps for long over its time, although schedule() wakes one sleeper
\* a round and a round waits the whole default timeout when somebody is ready
\* or late: with n coroutines, the sleeper at place i of the tree is at most
\* n - i + 1 timeouts late.
BoundedLateness ==
    \A i \in 1..Len(sleep) :
        sleep[i].left >= -(WaitTimeout * (Cardinality(Co) - i + 1))

\* A coroutine that is ready, sleeps, or waits for what has come is resumed,
\* unless its socket fails first.
Resumable(c) ==
    \/ status[c] \in {"READY", "SLEEPING"}
    \/ status[c] = "WAITING" /\ interest[wait_fd[c]].ev \in avail[wait_fd[c]]
EveryoneResumed ==
    \A c \in Co : Resumable(c) ~>
        \/ status[c] = "RUNNING"
        \/ status[c] = "WAITING" /\ sock[wait_fd[c]] = "error"
=============================================================================
