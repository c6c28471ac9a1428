---------------------------- MODULE MgxThreadPool ----------------------------
(***************************************************************************)
(* Mgx_th_pool (misc/mgx_thread_pool.cpp): the event loop thread of a      *)
(* worker process pushes received messages on a queue and posts a          *)
(* semaphore; the pool's threads wait on the semaphore, pop and handle.    *)
(*                                                                         *)
(* The queue and m_msg_queue_size are written under m_mutex only, so a     *)
(* critical section is one step here.  m_msg_queue_size is also read       *)
(* without the mutex, right after sem_wait, which is why that read is a    *)
(* step of its own.                                                        *)
(***************************************************************************)
EXTENDS Integers, Sequences, FiniteSets

CONSTANTS Thread,       \* threads of the pool, m_th_cnt of them
          Msg,          \* message buffers allocated by the event loop
          NoMsg,        \* msg_buf == nullptr
          MaxEintr      \* bound: interrupted calls of sem_wait

ASSUME ThreadAssumption == IsFiniteSet(Thread) /\ Thread # {}
ASSUME NoMsgAssumption == NoMsg \notin Msg
ASSUME MaxEintrAssumption == MaxEintr \in Nat

VARIABLES queue,        \* m_msg_queue
          size,         \* m_msg_queue_size
          sem,          \* m_th_pool_sem
          shutdown,     \* m_shutdown
          running_cnt,  \* m_running_cnt
          freed,        \* buffers given back with delete[]
          pc,           \* where each pool thread is in th_func
          msg_buf,      \* th_func's local of that name
          owner,        \* what the thread that owns the pool is doing
          eintr         \* how often a signal interrupted a sem_wait so far

vars == <<queue, size, sem, shutdown, running_cnt, freed, pc, msg_buf, owner, eintr>>

Queued == {queue[i] : i \in 1..Len(queue)}

Holding == {t \in Thread : pc[t] \in {"popped", "run"}}

Held == {msg_buf[t] : t \in Holding}

TypeOK ==
    /\ queue \in Seq(Msg)
    /\ size \in Int
    /\ sem \in Nat
    /\ shutdown \in BOOLEAN
    /\ running_cnt \in Int
    /\ freed \subseteq Msg
    /\ pc \in [Thread -> {"none", "start", "wait", "check", "lock",
                          "popped", "run", "exited", "undefined"}]
    /\ msg_buf \in [Thread -> Msg \cup {NoMsg}]
    /\ owner \in {"create", "ready", "post", "join", "gone"}
    /\ eintr \in 0..MaxEintr

Init ==
    /\ queue = <<>>
    /\ size = 0
    /\ sem = 0
    /\ shutdown = FALSE
    /\ running_cnt = 0
    /\ freed = {}
    /\ pc = [t \in Thread |-> "none"]
    /\ msg_buf = [t \in Thread |-> NoMsg]
    /\ owner = "create"
    /\ eintr = 0

-----------------------------------------------------------------------------
(* create(): start every thread, then poll until each has set m_isrunning. *)

CreateThread(t) ==
    /\ owner = "create"
    /\ pc[t] = "none"
    /\ pc' = [pc EXCEPT ![t] = "start"]
    /\ UNCHANGED <<queue, size, sem, shutdown, running_cnt, freed, msg_buf, owner, eintr>>

CreateDone ==
    /\ owner = "create"
    /\ \A t \in Thread : pc[t] \notin {"none", "start"}
    /\ owner' = "ready"
    /\ UNCHANGED <<queue, size, sem, shutdown, running_cnt, freed, pc, msg_buf, eintr>>

\* pthread_create fails: create() returns false, the process calls exit(1)
\* and the static destructor of the pool runs destory_all().  The failed
\* Mgx_thread is joined too, with an id nobody set: that join returns at once.
CreateFails ==
    /\ owner = "create"
    /\ \E t \in Thread : pc[t] = "none"
    /\ shutdown' = TRUE
    /\ owner' = "join"
    /\ UNCHANGED <<queue, size, sem, running_cnt, freed, pc, msg_buf, eintr>>

-----------------------------------------------------------------------------
(* The event loop thread. *)

\* Mutant: the token is posted with the push, and again by signal_to_th.
InsertMsg_PostsToo(m) ==
    /\ owner = "ready"
    /\ m \notin Queued \cup Held \cup freed
    /\ queue' = Append(queue, m)
    /\ size' = size + 1
    /\ sem' = sem + 1
    /\ owner' = "post"
    /\ UNCHANGED <<shutdown, running_cnt, freed, pc, msg_buf, eintr>>

InsertMsg(m) ==
    /\ owner = "ready"
    /\ m \notin Queued \cup Held \cup freed
    /\ queue' = Append(queue, m)
    /\ size' = size + 1
    /\ owner' = "post"
    /\ UNCHANGED <<sem, shutdown, running_cnt, freed, pc, msg_buf, eintr>>

\* Mutant: the post is saved when a token is already there.
SignalToTh_SkipsIfPosted ==
    /\ owner = "post"
    /\ sem' = IF sem > 0 THEN sem ELSE 1
    /\ owner' = "ready"
    /\ UNCHANGED <<queue, size, shutdown, running_cnt, freed, pc, msg_buf, eintr>>

SignalToTh ==
    /\ owner = "post"
    /\ sem' = sem + 1
    /\ owner' = "ready"
    /\ UNCHANGED <<queue, size, shutdown, running_cnt, freed, pc, msg_buf, eintr>>

\* signal_to_th logs "threads in thread pool not enough !" in this state.
Alert == running_cnt = Cardinality(Thread)

\* destory_all() up to the joins: from the static destructor after an exit(1)
\* of epoll_init(), or at the end of mgx_worker_process_cycle().
DestroyAll ==
    /\ owner = "ready"
    /\ shutdown' = TRUE
    /\ owner' = "join"
    /\ UNCHANGED <<queue, size, sem, running_cnt, freed, pc, msg_buf, eintr>>

\* All joins returned; a thread that was never created has nothing to join.
JoinAll ==
    /\ owner = "join"
    /\ \A t \in Thread : pc[t] \in {"none", "exited"}
    /\ freed' = freed \cup Queued
    /\ queue' = <<>>
    /\ owner' = "gone"
    /\ UNCHANGED <<size, sem, shutdown, running_cnt, pc, msg_buf, eintr>>

-----------------------------------------------------------------------------
(* th_func, run by every thread of the pool. *)

ThreadRun(t) ==
    /\ pc[t] = "start"
    /\ pc' = [pc EXCEPT ![t] = "wait"]
    /\ UNCHANGED <<queue, size, sem, shutdown, running_cnt, freed, msg_buf, owner, eintr>>

SemWait(t) ==
    /\ pc[t] = "wait"
    /\ sem > 0
    /\ sem' = sem - 1
    /\ pc' = [pc EXCEPT ![t] = "check"]
    /\ UNCHANGED <<queue, size, shutdown, running_cnt, freed, msg_buf, owner, eintr>>

\* A signal handled by the thread interrupts sem_wait, whose result th_func
\* does not look at (the handlers are installed without SA_RESTART): it goes on
\* as if it had been given a token.
SemWaitInterrupted(t) ==
    /\ pc[t] = "wait"
    /\ eintr < MaxEintr
    /\ eintr' = eintr + 1
    /\ pc' = [pc EXCEPT ![t] = "check"]
    /\ UNCHANGED <<queue, size, sem, shutdown, running_cnt, freed, msg_buf, owner>>

\* The unlocked test of m_msg_queue_size.
CheckSize(t) ==
    /\ pc[t] = "check"
    /\ pc' = [pc EXCEPT ![t] = IF size > 0 THEN "lock" ELSE "wait"]
    /\ UNCHANGED <<queue, size, sem, shutdown, running_cnt, freed, msg_buf, owner, eintr>>

\* Mutant: front() without pop().
Pop_KeepsFront(t) ==
    /\ pc[t] = "lock"
    /\ ~shutdown
    /\ queue # <<>>
    /\ msg_buf' = [msg_buf EXCEPT ![t] = Head(queue)]
    /\ size' = size - 1
    /\ pc' = [pc EXCEPT ![t] = "popped"]
    /\ UNCHANGED <<queue, sem, shutdown, running_cnt, freed, owner, eintr>>

\* Mutant: a stack instead of a queue.
Pop_Newest(t) ==
    /\ pc[t] = "lock"
    /\ ~shutdown
    /\ queue # <<>>
    /\ msg_buf' = [msg_buf EXCEPT ![t] = queue[Len(queue)]]
    /\ queue' = SubSeq(queue, 1, Len(queue) - 1)
    /\ size' = size - 1
    /\ pc' = [pc EXCEPT ![t] = "popped"]
    /\ UNCHANGED <<sem, shutdown, running_cnt, freed, owner, eintr>>

Pop(t) ==
    /\ pc[t] = "lock"
    /\ ~shutdown
    /\ queue # <<>>
    /\ msg_buf' = [msg_buf EXCEPT ![t] = Head(queue)]
    /\ queue' = Tail(queue)
    /\ size' = size - 1
    /\ pc' = [pc EXCEPT ![t] = "popped"]
    /\ UNCHANGED <<sem, shutdown, running_cnt, freed, owner, eintr>>

\* front() and pop() of an empty queue: undefined behaviour, and the model
\* follows the thread no further.
PopEmpty(t) ==
    /\ pc[t] = "lock"
    /\ ~shutdown
    /\ queue = <<>>
    /\ pc' = [pc EXCEPT ![t] = "undefined"]
    /\ UNCHANGED <<queue, size, sem, shutdown, running_cnt, freed, msg_buf, owner, eintr>>

LeaveOnShutdown(t) ==
    /\ pc[t] = "lock"
    /\ shutdown
    /\ pc' = [pc EXCEPT ![t] = "exited"]
    /\ UNCHANGED <<queue, size, sem, shutdown, running_cnt, freed, msg_buf, owner, eintr>>

StartHandler(t) ==
    /\ pc[t] = "popped"
    /\ running_cnt' = running_cnt + 1
    /\ pc' = [pc EXCEPT ![t] = "run"]
    /\ UNCHANGED <<queue, size, sem, shutdown, freed, msg_buf, owner, eintr>>

\* Mutant: m_running_cnt is left as it is.
FinishHandler_KeepsCount(t) ==
    /\ pc[t] = "run"
    /\ freed' = freed \cup {msg_buf[t]}
    /\ msg_buf' = [msg_buf EXCEPT ![t] = NoMsg]
    /\ pc' = [pc EXCEPT ![t] = "wait"]
    /\ UNCHANGED <<queue, size, sem, shutdown, running_cnt, owner, eintr>>

\* th_msg_process_func returned; delete[] msg_buf; m_running_cnt--.
FinishHandler(t) ==
    /\ pc[t] = "run"
    /\ freed' = freed \cup {msg_buf[t]}
    /\ msg_buf' = [msg_buf EXCEPT ![t] = NoMsg]
    /\ running_cnt' = running_cnt - 1
    /\ pc' = [pc EXCEPT ![t] = "wait"]
    /\ UNCHANGED <<queue, size, sem, shutdown, owner, eintr>>

ThreadStep(t) ==
    \/ ThreadRun(t)
    \/ SemWait(t)
    \/ SemWaitInterrupted(t)
    \/ CheckSize(t)
    \/ Pop(t)
    \/ PopEmpty(t)
    \/ LeaveOnShutdown(t)
    \/ StartHandler(t)
    \/ FinishHandler(t)

OwnerStep ==
    \/ \E t \in Thread : CreateThread(t)
    \/ CreateDone
    \/ CreateFails
    \/ \E m \in Msg : InsertMsg(m)
    \/ SignalToTh
    \/ DestroyAll
    \/ JoinAll

Next == OwnerStep \/ \E t \in Thread : ThreadStep(t)

Spec == Init /\ [][Next]_vars

\* Threads are scheduled by the kernel, a handler returns, and an owner that
\* has pushed a message goes on to post the semaphore.  Nothing obliges the
\* owner to push a message or to destroy the pool.
Fairness ==
    /\ \A t \in Thread : WF_vars(ThreadStep(t) /\ eintr' = eintr)
    /\ WF_vars(SignalToTh)
    /\ WF_vars(JoinAll)

FairSpec == Spec /\ Fairness

-----------------------------------------------------------------------------
(* Properties. *)

\* As long as no sem_wait was interrupted, a thread let through by the
\* semaphore finds a message: the unlocked test of m_msg_queue_size does not
\* read 0 and front() is not called on an empty queue, although the push, the
\* post, the wait, the test and the pop are separate steps of several threads.
WokenFindsMessage ==
    eintr = 0 => \A t \in Thread :
        /\ pc[t] \in {"check", "lock"} => queue # <<>> /\ size > 0
        /\ pc[t] # "undefined"

\* The comment that th_func keeps of its older wait, "while (!m_msg_queue_size
\* && !m_shutdown)": a thread only goes on to front() when there is a message.
NoEmptyPop == \A t \in Thread : pc[t] # "undefined"

\* A buffer has one owner: it is not queued twice, two threads never handle
\* the same buffer, and a buffer that is queued or being handled has not been
\* deleted, so no delete[] frees it a second time.
SingleOwner ==
    /\ \A i, j \in 1..Len(queue) : queue[i] = queue[j] => i = j
    /\ \A t, u \in Holding : msg_buf[t] = msg_buf[u] => t = u
    /\ Held \cap Queued = {}
    /\ freed \cap (Held \cup Queued) = {}
    /\ NoMsg \notin Held

\* The alert "threads in thread pool not enough !" is never a false alarm:
\* when signal_to_th reads m_running_cnt == m_th_cnt, every thread of the pool
\* is inside a handler.
AlertIsTruthful == Alert => \A t \in Thread : pc[t] = "run"

\* The pool implements the hand-over of MgxHandoff: FIFO, exactly one taker,
\* released once, dropped only by destory_all.
Handoff == INSTANCE MgxHandoff WITH fifo <- queue, busy <- Held, done <- freed

HandoffSpec == Handoff!Spec

\* A message pushed by the event loop is handled and released, unless the
\* pool is shut down meanwhile or a thread went astray on an empty queue: no
\* wake-up of th_func is lost, interrupted waits included.
EveryMessageHandled ==
    \A m \in Msg : m \in Queued ~> (m \in freed \/ shutdown \/ ~NoEmptyPop)
=============================================================================
