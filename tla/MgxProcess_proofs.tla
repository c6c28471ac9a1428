-------------------------- MODULE MgxProcess_proofs --------------------------
(***************************************************************************)
(* Two specifications of a process: the thread pool of a worker, for any   *)
(* number of threads, messages and interrupted waits, and the master that  *)
(* forks the workers.  They share no variable.                             *)
(*                                                                         *)
(* The pool's argument is an account of the semaphore's tokens: until the  *)
(* pool is gone, and as long as no sem_wait was interrupted, every queued  *)
(* message is matched by a token in the semaphore, by a thread that took   *)
(* one and has not popped yet (or left with it at shutdown), or by the     *)
(* post the event loop still owes.                                         *)
(***************************************************************************)
EXTENDS MgxThreadPool, MgxMaster, FiniteSetTheorems, TLAPS

\* Threads that took a token and did not pop a message for it.
Served == {t \in Thread : pc[t] \in {"check", "lock", "exited"}}

Running == {t \in Thread : pc[t] = "run"}

Owed == IF owner = "post" THEN 1 ELSE 0

TokenAccount ==
    eintr = 0 /\ owner # "gone" => Len(queue) = sem + Cardinality(Served) + Owed

SizeIsLength == owner # "gone" => size = Len(queue)

GoneIsQuiet ==
    owner = "gone" => \A t \in Thread : pc[t] \in {"none", "exited"}

NothingUndefined == eintr = 0 => \A t \in Thread : pc[t] # "undefined"

RunningCount == running_cnt = Cardinality(Running)

IInv ==
    /\ TypeOK
    /\ TokenAccount
    /\ SizeIsLength
    /\ GoneIsQuiet
    /\ NothingUndefined
    /\ RunningCount
    /\ SingleOwner

-----------------------------------------------------------------------------
\* A set of threads stays finite, and gains or loses one with one thread.
LEMMA CountAdd ==
    ASSUME NEW S \in SUBSET Thread, NEW t \in Thread, t \notin S
    PROVE  Cardinality(S \cup {t}) = Cardinality(S) + 1
BY ThreadAssumption, FS_Subset, FS_AddElement

LEMMA CountRemove ==
    ASSUME NEW S \in SUBSET Thread, NEW t \in S
    PROVE  Cardinality(S \ {t}) = Cardinality(S) - 1
BY ThreadAssumption, FS_Subset, FS_RemoveElement

LEMMA CountNat ==
    ASSUME NEW S \in SUBSET Thread
    PROVE  Cardinality(S) \in Nat /\ (\A t \in S : Cardinality(S) > 0)
<1>1. IsFiniteSet(S) /\ Cardinality(S) \in Nat
  BY ThreadAssumption, FS_Subset, FS_CardinalityType
<1>2. ASSUME NEW t \in S PROVE Cardinality(S) > 0
  BY <1>1, FS_EmptySet
<1> QED BY <1>1, <1>2

\* The whole pool is counted only when every thread is.
LEMMA CountAll ==
    ASSUME NEW S \in SUBSET Thread, Cardinality(S) = Cardinality(Thread)
    PROVE  S = Thread
BY ThreadAssumption, FS_Subset

-----------------------------------------------------------------------------
(* The inductive invariant, one lemma per group of its conjuncts. *)

LEMMA InitIInv == Init => IInv
<1> SUFFICES ASSUME Init PROVE IInv
  OBVIOUS
<1> USE DEF Init
<1>1. TypeOK
  <2>1. queue \in Seq(Msg) /\ freed \subseteq Msg
    OBVIOUS
  <2>2. shutdown \in BOOLEAN
    OBVIOUS
  <2>3. pc \in [Thread -> {"none"}] /\ msg_buf \in [Thread -> {NoMsg}]
    OBVIOUS
  <2>4. eintr \in 0..MaxEintr
    BY MaxEintrAssumption
  <2> QED BY <2>1, <2>2, <2>3, <2>4 DEF TypeOK
<1>2. Served = {} /\ Running = {} /\ Holding = {} /\ Held = {} /\ Queued = {}
  BY DEF Served, Running, Holding, Held, Queued
<1>3. Cardinality(Served) = 0 /\ Cardinality(Running) = 0
  BY <1>2, FS_EmptySet
<1>4. TokenAccount /\ SizeIsLength /\ RunningCount
  BY <1>3 DEF TokenAccount, SizeIsLength, RunningCount, Owed
<1>5. GoneIsQuiet /\ NothingUndefined
  BY DEF GoneIsQuiet, NothingUndefined
<1>6. SingleOwner
  BY <1>2 DEF SingleOwner
<1> QED BY <1>1, <1>4, <1>5, <1>6 DEF IInv

LEMMA TypeStep == IInv /\ [Next]_vars => TypeOK'
<1> SUFFICES ASSUME IInv, [Next]_vars PROVE TypeOK'
  OBVIOUS
<1> USE DEF IInv, TypeOK
<1>1. CASE UNCHANGED vars
  BY <1>1 DEF vars
<1>2. ASSUME NEW t \in Thread, CreateThread(t) PROVE TypeOK'
  BY <1>2 DEF CreateThread
<1>3. CASE CreateDone
  BY <1>3 DEF CreateDone
<1>4. CASE CreateFails
  BY <1>4 DEF CreateFails
<1>5. ASSUME NEW m \in Msg, InsertMsg(m) PROVE TypeOK'
  BY <1>5 DEF InsertMsg
<1>6. CASE SignalToTh
  BY <1>6 DEF SignalToTh
<1>7. CASE DestroyAll
  BY <1>7 DEF DestroyAll
<1>8. CASE JoinAll
  BY <1>8 DEF JoinAll, Queued
<1>9. ASSUME NEW t \in Thread, ThreadRun(t) PROVE TypeOK'
  BY <1>9 DEF ThreadRun
<1>10. ASSUME NEW t \in Thread, SemWait(t) PROVE TypeOK'
  BY <1>10 DEF SemWait
<1>11. ASSUME NEW t \in Thread, SemWaitInterrupted(t) PROVE TypeOK'
  BY <1>11, MaxEintrAssumption DEF SemWaitInterrupted
<1>12. ASSUME NEW t \in Thread, CheckSize(t) PROVE TypeOK'
  BY <1>12 DEF CheckSize
<1>13. ASSUME NEW t \in Thread, Pop(t) PROVE TypeOK'
  BY <1>13 DEF Pop
<1>14. ASSUME NEW t \in Thread, PopEmpty(t) PROVE TypeOK'
  BY <1>14 DEF PopEmpty
<1>15. ASSUME NEW t \in Thread, LeaveOnShutdown(t) PROVE TypeOK'
  BY <1>15 DEF LeaveOnShutdown
<1>16. ASSUME NEW t \in Thread, StartHandler(t) PROVE TypeOK'
  BY <1>16 DEF StartHandler
<1>17. ASSUME NEW t \in Thread, FinishHandler(t) PROVE TypeOK'
  <2>1. msg_buf[t] \in Msg
    BY <1>17 DEF FinishHandler, SingleOwner, Held, Holding
  <2> QED BY <1>17, <2>1 DEF FinishHandler
<1> QED
  BY <1>1, <1>2, <1>3, <1>4, <1>5, <1>6, <1>7, <1>8, <1>9, <1>10, <1>11,
     <1>12, <1>13, <1>14, <1>15, <1>16, <1>17 DEF Next, OwnerStep, ThreadStep

\* The token account and what it needs: m_msg_queue_size is the length of
\* the queue, a destroyed pool is quiet, no thread has popped nothing.
Account == TokenAccount /\ SizeIsLength /\ GoneIsQuiet /\ NothingUndefined

LEMMA AccountStep == IInv /\ [Next]_vars => Account'
<1> SUFFICES ASSUME IInv, [Next]_vars PROVE Account'
  OBVIOUS
<1>0. TypeOK /\ TypeOK'
  BY TypeStep DEF IInv
<1>a. Cardinality(Served) \in Nat /\ \A t \in Served : Cardinality(Served) > 0
  BY CountNat DEF Served
<1> USE DEF IInv, TypeOK, Account, TokenAccount, SizeIsLength, GoneIsQuiet,
            NothingUndefined, Owed
<1>1. CASE UNCHANGED vars
  BY <1>1, <1>0 DEF vars, Served
<1>2. ASSUME NEW t \in Thread, CreateThread(t) PROVE Account'
  <2>1. Served' = Served
    BY <1>2, <1>0 DEF CreateThread, Served
  <2> QED BY <1>2, <1>0, <2>1 DEF CreateThread
<1>3. CASE CreateDone
  BY <1>3, <1>0 DEF CreateDone, Served
<1>4. CASE CreateFails
  BY <1>4, <1>0 DEF CreateFails, Served
<1>5. ASSUME NEW m \in Msg, InsertMsg(m) PROVE Account'
  <2>1. Served' = Served
    BY <1>5 DEF InsertMsg, Served
  <2> QED BY <1>5, <1>0, <1>a, <2>1 DEF InsertMsg
<1>6. CASE SignalToTh
  <2>1. Served' = Served
    BY <1>6 DEF SignalToTh, Served
  <2> QED BY <1>6, <1>0, <1>a, <2>1 DEF SignalToTh
<1>7. CASE DestroyAll
  BY <1>7, <1>0 DEF DestroyAll, Served
<1>8. CASE JoinAll
  BY <1>8, <1>0 DEF JoinAll
<1>9. ASSUME NEW t \in Thread, ThreadRun(t) PROVE Account'
  <2>1. Served' = Served
    BY <1>9, <1>0 DEF ThreadRun, Served
  <2> QED BY <1>9, <1>0, <2>1 DEF ThreadRun
<1>10. ASSUME NEW t \in Thread, SemWait(t) PROVE Account'
  <2>1. Served' = Served \cup {t} /\ t \notin Served
    BY <1>10, <1>0 DEF SemWait, Served
  <2>2. Cardinality(Served') = Cardinality(Served) + 1
    BY <2>1, CountAdd DEF Served
  <2> QED BY <1>10, <1>0, <1>a, <2>2 DEF SemWait
<1>11. ASSUME NEW t \in Thread, SemWaitInterrupted(t) PROVE Account'
  BY <1>11, <1>0 DEF SemWaitInterrupted
<1>12. ASSUME NEW t \in Thread, CheckSize(t) PROVE Account'
  <2>1. eintr = 0 => size > 0
    <3>1. t \in Served /\ owner # "gone"
      BY <1>12, <1>0 DEF CheckSize, Served
    <3> QED BY <3>1, <1>0, <1>a
  <2>2. eintr = 0 => Served' = Served
    BY <1>12, <1>0, <2>1 DEF CheckSize, Served
  <2> QED BY <1>12, <1>0, <2>1, <2>2 DEF CheckSize
<1>13. ASSUME NEW t \in Thread, Pop(t) PROVE Account'
  <2>1. Served' = Served \ {t} /\ t \in Served
    BY <1>13, <1>0 DEF Pop, Served
  <2>2. Cardinality(Served') = Cardinality(Served) - 1
    BY <2>1, CountRemove DEF Served
  <2>3. Len(queue') = Len(queue) - 1
    BY <1>13, <1>0 DEF Pop
  <2>4. owner' = owner /\ sem' = sem /\ eintr' = eintr /\ size' = size - 1
    BY <1>13 DEF Pop
  <2>5. TokenAccount' /\ SizeIsLength'
    BY <1>0, <1>a, <2>2, <2>3, <2>4
  <2>6. GoneIsQuiet' /\ NothingUndefined'
    BY <1>13, <1>0 DEF Pop
  <2> QED BY <2>5, <2>6
<1>14. ASSUME NEW t \in Thread, PopEmpty(t) PROVE Account'
  <2>1. t \in Served /\ owner # "gone" /\ Len(queue) = 0
    BY <1>14, <1>0 DEF PopEmpty, Served
  <2>2. eintr # 0
    BY <2>1, <1>0, <1>a
  <2> QED BY <1>14, <1>0, <2>2 DEF PopEmpty
<1>15. ASSUME NEW t \in Thread, LeaveOnShutdown(t) PROVE Account'
  <2>1. Served' = Served
    BY <1>15, <1>0 DEF LeaveOnShutdown, Served
  <2> QED BY <1>15, <1>0, <2>1 DEF LeaveOnShutdown
<1>16. ASSUME NEW t \in Thread, StartHandler(t) PROVE Account'
  <2>1. Served' = Served
    BY <1>16, <1>0 DEF StartHandler, Served
  <2> QED BY <1>16, <1>0, <2>1 DEF StartHandler
<1>17. ASSUME NEW t \in Thread, FinishHandler(t) PROVE Account'
  <2>1. Served' = Served
    BY <1>17, <1>0 DEF FinishHandler, Served
  <2> QED BY <1>17, <1>0, <2>1 DEF FinishHandler
<1> QED
  BY <1>1, <1>2, <1>3, <1>4, <1>5, <1>6, <1>7, <1>8, <1>9, <1>10, <1>11,
     <1>12, <1>13, <1>14, <1>15, <1>16, <1>17 DEF Next, OwnerStep, ThreadStep

-----------------------------------------------------------------------------
\* m_running_cnt counts the threads inside a handler.
LEMMA RunningStep == IInv /\ [Next]_vars => RunningCount'
<1> SUFFICES ASSUME IInv, [Next]_vars PROVE RunningCount'
  OBVIOUS
<1>0. TypeOK
  BY DEF IInv
<1> USE DEF IInv, TypeOK, RunningCount
<1>1. ASSUME NEW t \in Thread, StartHandler(t) PROVE RunningCount'
  <2>1. Running' = Running \cup {t} /\ t \notin Running
    BY <1>1, <1>0 DEF StartHandler, Running
  <2>2. Cardinality(Running') = Cardinality(Running) + 1
    BY <2>1, CountAdd DEF Running
  <2> QED BY <1>1, <2>2 DEF StartHandler
<1>2. ASSUME NEW t \in Thread, FinishHandler(t) PROVE RunningCount'
  <2>1. Running' = Running \ {t} /\ t \in Running
    BY <1>2, <1>0 DEF FinishHandler, Running
  <2>2. Cardinality(Running') = Cardinality(Running) - 1
    BY <2>1, CountRemove DEF Running
  <2> QED BY <1>2, <2>2 DEF FinishHandler
<1>3. ASSUME \/ UNCHANGED vars
             \/ CreateDone \/ CreateFails \/ SignalToTh \/ DestroyAll \/ JoinAll
             \/ \E m \in Msg : InsertMsg(m)
      PROVE  RunningCount'
  <2>1. Running' = Running /\ running_cnt' = running_cnt
    BY <1>3 DEF vars, CreateDone, CreateFails, SignalToTh, DestroyAll, JoinAll,
                InsertMsg, Running
  <2> QED BY <2>1
<1>4. ASSUME NEW t \in Thread,
             \/ CreateThread(t) \/ ThreadRun(t) \/ SemWait(t)
             \/ SemWaitInterrupted(t) \/ CheckSize(t) \/ Pop(t) \/ PopEmpty(t)
             \/ LeaveOnShutdown(t)
      PROVE  RunningCount'
  <2>1. Running' = Running /\ running_cnt' = running_cnt
    BY <1>4, <1>0 DEF CreateThread, ThreadRun, SemWait, SemWaitInterrupted,
                      CheckSize, Pop, PopEmpty, LeaveOnShutdown, Running
  <2> QED BY <2>1
<1> QED
  BY <1>1, <1>2, <1>3, <1>4 DEF Next, OwnerStep, ThreadStep

-----------------------------------------------------------------------------
(* Buffers and their owners. *)

\* What appending and removing do to the set of the queued buffers.
LEMMA QueuedAppend ==
    ASSUME queue \in Seq(Msg), NEW m \in Msg, queue' = Append(queue, m)
    PROVE  /\ Queued' = Queued \cup {m}
           /\ Len(queue') = Len(queue) + 1
           /\ \A i \in 1..Len(queue) : queue'[i] = queue[i]
           /\ queue'[Len(queue) + 1] = m
BY DEF Queued

LEMMA QueuedTail ==
    ASSUME queue \in Seq(Msg), queue # <<>>, queue' = Tail(queue),
           \A i, j \in 1..Len(queue) : queue[i] = queue[j] => i = j
    PROVE  /\ Queued' = Queued \ {Head(queue)}
           /\ Head(queue) \in Queued
           /\ \A i, j \in 1..Len(queue') : queue'[i] = queue'[j] => i = j
<1>1. Len(queue) \in Nat /\ Len(queue) > 0 /\ Len(queue') = Len(queue) - 1
  OBVIOUS
<1>2. \A i \in 1..Len(queue') : queue'[i] = queue[i + 1] /\ i + 1 \in 1..Len(queue)
  BY <1>1
<1>3. Head(queue) = queue[1]
  OBVIOUS
<1>4. \A i, j \in 1..Len(queue') : queue'[i] = queue'[j] => i = j
  BY <1>1, <1>2
<1>5. Queued' = {queue'[i] : i \in 1..Len(queue')}
  BY DEF Queued
<1>6. ASSUME NEW x \in Queued' PROVE x \in Queued \ {Head(queue)}
  <2>1. PICK i \in 1..Len(queue') : x = queue'[i]
    BY <1>5
  <2> QED BY <2>1, <1>1, <1>2, <1>3 DEF Queued
<1>7. ASSUME NEW x \in Queued \ {Head(queue)} PROVE x \in Queued'
  <2>1. PICK i \in 1..Len(queue) : x = queue[i]
    BY DEF Queued
  <2>2. i # 1 /\ i - 1 \in 1..Len(queue') /\ queue'[i - 1] = x
    BY <2>1, <1>1, <1>2, <1>3
  <2> QED BY <2>2, <1>5
<1>8. Head(queue) \in Queued
  BY <1>1, <1>3 DEF Queued
<1> QED BY <1>4, <1>6, <1>7, <1>8

\* What each kind of step does to the buffers: nothing, or one hand-over.
LEMMA HeldOnPop ==
    ASSUME IInv, NEW t \in Thread, Pop(t)
    PROVE  /\ Holding' = Holding \cup {t} /\ t \notin Holding
           /\ \A u \in Holding : msg_buf'[u] = msg_buf[u]
           /\ msg_buf'[t] = Head(queue)
           /\ Held' = Held \cup {Head(queue)}
<1>1. /\ Holding' = Holding \cup {t} /\ t \notin Holding
      /\ \A u \in Holding : msg_buf'[u] = msg_buf[u]
      /\ msg_buf'[t] = Head(queue)
  BY DEF IInv, TypeOK, Pop, Holding
<1> QED BY <1>1 DEF Held

LEMMA HeldOnFinish ==
    ASSUME IInv, NEW t \in Thread, FinishHandler(t)
    PROVE  /\ Holding' = Holding \ {t} /\ t \in Holding
           /\ \A u \in Holding' : msg_buf'[u] = msg_buf[u]
           /\ Held' = Held \ {msg_buf[t]}
           /\ msg_buf[t] \in Held
<1>1. /\ Holding' = Holding \ {t} /\ t \in Holding
      /\ \A u \in Holding' : msg_buf'[u] = msg_buf[u]
  BY DEF IInv, TypeOK, FinishHandler, Holding
<1>2. \A u \in Holding : msg_buf[u] = msg_buf[t] => u = t
  BY <1>1 DEF IInv, SingleOwner
<1> QED BY <1>1, <1>2 DEF Held

LEMMA HeldOtherwise ==
    ASSUME IInv, NEW t \in Thread,
           \/ CreateThread(t) \/ ThreadRun(t) \/ SemWait(t)
           \/ SemWaitInterrupted(t) \/ CheckSize(t) \/ PopEmpty(t)
           \/ LeaveOnShutdown(t) \/ StartHandler(t)
    PROVE  /\ Holding' = Holding /\ msg_buf' = msg_buf /\ Held' = Held
           /\ queue' = queue /\ Queued' = Queued /\ freed' = freed
<1>1. Holding' = Holding /\ msg_buf' = msg_buf /\ queue' = queue /\ freed' = freed
  BY DEF IInv, TypeOK, CreateThread, ThreadRun, SemWait, SemWaitInterrupted,
         CheckSize, PopEmpty, LeaveOnShutdown, StartHandler, Holding
<1> QED BY <1>1 DEF Held, Queued

LEMMA OwnerOnJoin ==
    ASSUME IInv, JoinAll
    PROVE  Holding = {} /\ Held = {} /\ Holding' = {} /\ Held' = {} /\ Queued' = {}
<1>1. Holding = {} /\ Holding' = {}
  BY DEF JoinAll, Holding
<1>2. Queued' = {}
  BY DEF JoinAll, Queued
<1> QED BY <1>1, <1>2 DEF Held

LEMMA SingleOwnerStep == IInv /\ [Next]_vars => SingleOwner'
<1> SUFFICES ASSUME IInv, [Next]_vars PROVE SingleOwner'
  OBVIOUS
<1>0. TypeOK /\ SingleOwner /\ NoMsg \notin Msg
  BY NoMsgAssumption DEF IInv
<1>1. ASSUME NEW t \in Thread, Pop(t) PROVE SingleOwner'
  <2>1. queue' = Tail(queue) /\ queue # <<>> /\ freed' = freed /\ queue \in Seq(Msg)
    BY <1>1, <1>0 DEF Pop, TypeOK
  <2>2. /\ Queued' = Queued \ {Head(queue)}
        /\ Head(queue) \in Queued
        /\ \A i, j \in 1..Len(queue') : queue'[i] = queue'[j] => i = j
    BY <2>1, <1>0, QueuedTail DEF SingleOwner
  <2>3. Head(queue) # NoMsg
    BY <2>1, <1>0
  <2> QED BY <2>1, <2>2, <2>3, <1>0, <1>1, HeldOnPop DEF SingleOwner, Held
<1>2. ASSUME NEW t \in Thread, FinishHandler(t) PROVE SingleOwner'
  <2>1. queue' = queue /\ Queued' = Queued /\ freed' = freed \cup {msg_buf[t]}
    BY <1>2 DEF FinishHandler, Queued
  <2> QED BY <2>1, <1>0, <1>2, HeldOnFinish DEF SingleOwner
<1>3. ASSUME NEW m \in Msg, InsertMsg(m) PROVE SingleOwner'
  <2>1. /\ queue \in Seq(Msg) /\ queue' = Append(queue, m)
        /\ m \notin Queued \cup Held \cup freed
        /\ Holding' = Holding /\ msg_buf' = msg_buf /\ Held' = Held /\ freed' = freed
    BY <1>3, <1>0 DEF InsertMsg, TypeOK, Holding, Held
  <2>2. /\ Queued' = Queued \cup {m}
        /\ Len(queue') = Len(queue) + 1
        /\ \A i \in 1..Len(queue) : queue'[i] = queue[i]
        /\ queue'[Len(queue) + 1] = m
    BY <2>1, QueuedAppend
  <2>3. ASSUME NEW i \in 1..Len(queue'), NEW j \in 1..Len(queue'), queue'[i] = queue'[j]
        PROVE  i = j
    <3>1. Len(queue) \in Nat
      BY <2>1
    <3>2. \A k \in 1..Len(queue) : queue'[k] # m
      BY <2>1, <2>2 DEF Queued
    <3>3. CASE i = Len(queue) + 1 \/ j = Len(queue) + 1
      BY <3>1, <3>2, <3>3, <2>2, <2>3
    <3>4. CASE i \in 1..Len(queue) /\ j \in 1..Len(queue)
      BY <3>4, <2>2, <2>3, <1>0 DEF SingleOwner
    <3> QED BY <3>1, <3>3, <3>4, <2>2
  <2> QED BY <2>1, <2>2, <2>3, <1>0 DEF SingleOwner
<1>4. CASE JoinAll
  BY <1>4, OwnerOnJoin DEF SingleOwner, JoinAll
<1>5. ASSUME UNCHANGED vars \/ CreateDone \/ CreateFails \/ SignalToTh \/ DestroyAll
      PROVE  SingleOwner'
  <2>1. queue' = queue /\ freed' = freed /\ pc' = pc /\ msg_buf' = msg_buf
    BY <1>5 DEF vars, CreateDone, CreateFails, SignalToTh, DestroyAll
  <2> QED BY <2>1, <1>0 DEF SingleOwner, Holding, Held, Queued
<1>6. ASSUME NEW t \in Thread,
             \/ CreateThread(t) \/ ThreadRun(t) \/ SemWait(t)
             \/ SemWaitInterrupted(t) \/ CheckSize(t) \/ PopEmpty(t)
             \/ LeaveOnShutdown(t) \/ StartHandler(t)
      PROVE  SingleOwner'
  BY <1>6, <1>0, HeldOtherwise DEF SingleOwner
<1> QED
  BY <1>1, <1>2, <1>3, <1>4, <1>5, <1>6 DEF Next, OwnerStep, ThreadStep

-----------------------------------------------------------------------------
\* The conjunction is inductive.
THEOREM Invariant == Spec => []IInv
<1>1. IInv /\ [Next]_vars => IInv'
  BY TypeStep, AccountStep, RunningStep, SingleOwnerStep DEF IInv, Account
<1> QED BY <1>1, InitIInv, PTL DEF Spec

\* Every variable of the pool keeps its type; with it, no buffer that a
\* handler deletes is nullptr.
THEOREM TypeCorrect == Spec => []TypeOK
<1>1. IInv => TypeOK
  BY DEF IInv
<1> QED BY <1>1, Invariant, PTL

\* th_func never finds the queue empty after an uninterrupted wait.
THEOREM WokenCorrect == Spec => []WokenFindsMessage
<1>1. IInv => WokenFindsMessage
  <2> SUFFICES ASSUME IInv, eintr = 0, NEW t \in Thread
               PROVE  /\ pc[t] \in {"check", "lock"} => queue # <<>> /\ size > 0
                      /\ pc[t] # "undefined"
    BY DEF WokenFindsMessage
  <2>1. pc[t] # "undefined"
    BY DEF IInv, NothingUndefined
  <2>2. ASSUME pc[t] \in {"check", "lock"} PROVE queue # <<>> /\ size > 0
    <3>1. t \in Served /\ owner # "gone"
      BY <2>2 DEF Served, IInv, GoneIsQuiet
    <3>2. Cardinality(Served) \in Nat /\ Cardinality(Served) > 0
      BY <3>1, CountNat DEF Served
    <3>3. Len(queue) > 0 /\ size = Len(queue)
      BY <3>1, <3>2 DEF IInv, TypeOK, TokenAccount, SizeIsLength, Owed
    <3> QED BY <3>3 DEF IInv, TypeOK
  <2> QED BY <2>1, <2>2
<1> QED BY <1>1, Invariant, PTL

\* No buffer is handled twice, shared, or freed while in use.
THEOREM SingleOwnerCorrect == Spec => []SingleOwner
<1>1. IInv => SingleOwner
  BY DEF IInv
<1> QED BY <1>1, Invariant, PTL

\* The alert of signal_to_th is never a false alarm.
THEOREM AlertCorrect == Spec => []AlertIsTruthful
<1>1. IInv => AlertIsTruthful
  <2> SUFFICES ASSUME IInv, Alert PROVE Running = Thread
    BY DEF AlertIsTruthful, Running
  <2>1. Cardinality(Running) = Cardinality(Thread)
    BY DEF IInv, RunningCount, Alert
  <2> QED BY <2>1, CountAll DEF Running
<1> QED BY <1>1, Invariant, PTL

-----------------------------------------------------------------------------
\* Every step of the pool is a step of the abstract hand-over or leaves the
\* queue, the buffers in use and the released buffers as they are.
THEOREM ImplementsHandoff == Spec => HandoffSpec
<1>1. Init => Handoff!Init
  BY DEF Init, Handoff!Init, Held, Holding
<1>2. IInv /\ [Next]_vars => [Handoff!Next]_(Handoff!vars)
  <2> SUFFICES ASSUME IInv, [Next]_vars PROVE [Handoff!Next]_(Handoff!vars)
    OBVIOUS
  <2>0. Handoff!Pending = Queued
    BY DEF Handoff!Pending, Queued
  <2>1. ASSUME NEW t \in Thread, Pop(t) PROVE Handoff!Take
    BY <2>1, HeldOnPop DEF Pop, Handoff!Take
  <2>2. ASSUME NEW t \in Thread, FinishHandler(t) PROVE Handoff!Next
    <3>1. msg_buf[t] \in Msg
      BY <2>2, HeldOnFinish DEF IInv, TypeOK, SingleOwner
    <3>2. Handoff!Finish(msg_buf[t])
      BY <2>2, HeldOnFinish DEF FinishHandler, Handoff!Finish
    <3> QED BY <3>1, <3>2 DEF Handoff!Next
  <2>3. ASSUME NEW m \in Msg, InsertMsg(m) PROVE Handoff!Submit(m)
    <3>1. Held' = Held
      BY <2>3 DEF InsertMsg, Held, Holding
    <3> QED BY <2>3, <2>0, <3>1 DEF InsertMsg, Handoff!Submit
  <2>4. CASE JoinAll
    BY <2>4, <2>0, OwnerOnJoin DEF JoinAll, Handoff!Discard, Handoff!Next
  <2>5. ASSUME UNCHANGED vars \/ CreateDone \/ CreateFails \/ SignalToTh \/ DestroyAll
        PROVE  UNCHANGED Handoff!vars
    <3>1. queue' = queue /\ freed' = freed /\ pc' = pc /\ msg_buf' = msg_buf
      BY <2>5 DEF vars, CreateDone, CreateFails, SignalToTh, DestroyAll
    <3> QED BY <3>1 DEF Handoff!vars, Held, Holding
  <2>6. ASSUME NEW t \in Thread,
               \/ CreateThread(t) \/ ThreadRun(t) \/ SemWait(t)
               \/ SemWaitInterrupted(t) \/ CheckSize(t) \/ PopEmpty(t)
               \/ LeaveOnShutdown(t) \/ StartHandler(t)
        PROVE  UNCHANGED Handoff!vars
    BY <2>6, HeldOtherwise DEF Handoff!vars
  <2> QED
    BY <2>1, <2>2, <2>3, <2>4, <2>5, <2>6
    DEF Next, OwnerStep, ThreadStep, Handoff!Next
<1> QED BY <1>1, <1>2, Invariant, PTL DEF Spec, HandoffSpec, Handoff!Spec

-----------------------------------------------------------------------------
(***************************************************************************)
(* The master process that forks the workers (MgxMaster), for any number   *)
(* of workers.  Forks are paid for: a worker that dies, or a stray         *)
(* SIGCHLD, leaves at most one pending bit, which becomes at most one run  *)
(* of the handler, which becomes at most one g_mgx_reap, which becomes at  *)
(* most one fork.                                                          *)
(***************************************************************************)
One(b) == IF b THEN 1 ELSE 0

\* Workers the forks so far have a right to.
Allowed == (IF mpc = "start" THEN started ELSE WorkerProcesses) + stops

ForksPaid ==
    Cardinality(Alive) + One(chld) + One(InChld) + One(reap) <= Allowed

-----------------------------------------------------------------------------
LEMMA AliveNat == Cardinality(Alive) \in Nat
BY PidAssumption, FS_Subset, FS_CardinalityType DEF Alive

LEMMA AliveAdd ==
    ASSUME NEW p \in Pid, p \notin Alive, Alive' = Alive \cup {p}
    PROVE  Cardinality(Alive)' = Cardinality(Alive) + 1
<1>1. IsFiniteSet(Alive)
  BY PidAssumption, FS_Subset DEF Alive
<1> QED BY <1>1, FS_AddElement

LEMMA AliveRemove ==
    ASSUME NEW p \in Pid, p \in Alive, Alive' = Alive \ {p}
    PROVE  Cardinality(Alive)' = Cardinality(Alive) - 1
<1>1. IsFiniteSet(Alive)
  BY PidAssumption, FS_Subset DEF Alive
<1> QED BY <1>1, FS_RemoveElement

\* Every variable of the master keeps its type.
THEOREM MasterTypeCorrect == MasterSpec => []MasterTypeOK
<1>0. /\ WorkerProcesses \in Nat \ {0}
      /\ MaxStop \in Nat /\ MaxForkFail \in Nat /\ MaxDay \in Nat
  BY WorkerAssumption, BoundAssumption
<1>1. MasterInit => MasterTypeOK
  <2> SUFFICES ASSUME MasterInit PROVE MasterTypeOK
    OBVIOUS
  <2>1. worker \in [Pid -> {"none"}]
    BY DEF MasterInit
  <2>2. chld \in BOOLEAN /\ usr1 \in BOOLEAN /\ reap \in BOOLEAN /\ rotate \in BOOLEAN
    BY DEF MasterInit
  <2>3. /\ started \in 0..WorkerProcesses /\ today \in 0..MaxDay
        /\ masterLog \in 0..MaxDay /\ 0 \in 0..MaxDay
        /\ stops \in 0..MaxStop /\ forkFails \in 0..MaxForkFail
    BY <1>0 DEF MasterInit
  <2> QED BY <2>1, <2>2, <2>3 DEF MasterInit, MasterTypeOK
<1>2. MasterTypeOK /\ [MasterNext]_MasterVars => MasterTypeOK'
  <2> SUFFICES ASSUME MasterTypeOK, [MasterNext]_MasterVars PROVE MasterTypeOK'
    OBVIOUS
  <2> USE <1>0
      DEF MasterTypeOK, pending, flags, env
  <2>1. CASE UNCHANGED MasterVars
    BY <2>1 DEF MasterVars
  <2>2. CASE StartWorker
    BY <2>2 DEF StartWorker, SpawnProcess
  <2>3. CASE StartDone
    BY <2>3 DEF StartDone
  <2>4. CASE DeliverChld
    BY <2>4 DEF DeliverChld
  <2>5. CASE DeliverUsr1
    BY <2>5 DEF DeliverUsr1
  <2>6. CASE Usr1Returns
    BY <2>6 DEF Usr1Returns
  <2>7. CASE WakeByOther
    BY <2>7 DEF WakeByOther
  <2>8. ASSUME NEW p \in Pid, WaitPid(p) PROVE MasterTypeOK'
    BY <2>8 DEF WaitPid
  <2>9. CASE ChldReturns
    BY <2>9 DEF ChldReturns
  <2>10. CASE LoopReap
    <3>0. reap' = FALSE /\ mpc' = "loop2" /\ UNCHANGED <<started, pending, rotate, today, masterLog, stops>>
      BY <2>10 DEF LoopReap
    <3>1. CASE SpawnProcess
      <4>1. /\ worker' \in [Pid -> {"none", "init", "serving", "stuck", "zombie"}]
            /\ forkFails' \in 0..MaxForkFail
        BY <3>1 DEF SpawnProcess
      <4>2. reap' \in BOOLEAN
        BY <3>0
      <4> QED BY <3>0, <4>1, <4>2
    <3>2. CASE UNCHANGED <<worker, forkFails>>
      BY <2>10, <3>2 DEF LoopReap
    <3> QED BY <2>10, <3>1, <3>2 DEF LoopReap
  <2>11. CASE LoopRotate
    BY <2>11 DEF LoopRotate, LogInit
  <2>12. ASSUME NEW p \in Pid, WorkerReady(p) \/ WorkerStuck(p) PROVE MasterTypeOK'
    BY <2>12 DEF WorkerReady, WorkerStuck
  <2>13. ASSUME NEW p \in Pid, WorkerDies(p) PROVE MasterTypeOK'
    BY <2>13 DEF WorkerDies
  <2>14. ASSUME NEW p \in Pid, WorkerStops(p) PROVE MasterTypeOK'
    BY <2>14 DEF WorkerStops
  <2>15. CASE RotateRequest
    BY <2>15 DEF RotateRequest
  <2>16. CASE NewDay
    BY <2>16 DEF NewDay
  <2> QED
    BY <2>1, <2>2, <2>3, <2>4, <2>5, <2>6, <2>7, <2>8, <2>9, <2>10, <2>11, <2>12,
       <2>13, <2>14, <2>15, <2>16 DEF MasterNext, MasterStep, WorkerStep
<1> QED BY <1>1, <1>2, PTL DEF MasterSpec

-----------------------------------------------------------------------------
\* What a fork does to the set of live workers.
LEMMA SpawnAlive ==
    ASSUME MasterTypeOK, SpawnProcess
    PROVE  /\ Cardinality(Alive)' \in {Cardinality(Alive), Cardinality(Alive) + 1}
           /\ Zombie' = Zombie
<1>1. ASSUME NEW p \in Pid, worker[p] = "none",
             worker' = [worker EXCEPT ![p] = "init"]
      PROVE  Cardinality(Alive)' = Cardinality(Alive) + 1 /\ Zombie' = Zombie
  <2>1. p \notin Alive /\ Alive' = Alive \cup {p} /\ Zombie' = Zombie
    BY <1>1 DEF MasterTypeOK, Alive, Zombie
  <2> QED BY <2>1, AliveAdd
<1>2. ASSUME worker' = worker PROVE Alive' = Alive /\ Zombie' = Zombie
  BY <1>2 DEF Alive, Zombie
<1> QED BY <1>1, <1>2 DEF SpawnProcess

LEMMA ForksPaidStep ==
    ASSUME MasterTypeOK, ForksPaid, [MasterNext]_MasterVars
    PROVE  ForksPaid'
<1>a. /\ WorkerProcesses \in Nat \ {0}
      /\ MaxStop \in Nat /\ MaxForkFail \in Nat /\ MaxDay \in Nat
  BY WorkerAssumption, BoundAssumption
<1>0. Cardinality(Alive) \in Nat /\ stops \in Nat /\ started \in Nat
  BY AliveNat, <1>a DEF MasterTypeOK
<1> USE <1>a, <1>0 DEF ForksPaid, Allowed, One, InChld, pending, flags, env
<1>1. ASSUME worker' = worker PROVE Alive' = Alive
  BY <1>1 DEF Alive
<1>2. CASE UNCHANGED MasterVars
  BY <1>2, <1>1 DEF MasterVars
<1>3. CASE StartWorker
  <2>1. Cardinality(Alive)' \in {Cardinality(Alive), Cardinality(Alive) + 1}
    BY <1>3, SpawnAlive DEF StartWorker
  <2> QED BY <1>3, <2>1 DEF StartWorker
<1>4. CASE StartDone
  BY <1>4, <1>1 DEF StartDone
<1>5. CASE DeliverChld
  BY <1>5, <1>1 DEF DeliverChld
<1>6. CASE DeliverUsr1 \/ Usr1Returns \/ WakeByOther \/ LoopRotate \/ RotateRequest \/ NewDay
  BY <1>6, <1>1 DEF DeliverUsr1, Usr1Returns, WakeByOther, LoopRotate, LogInit, RotateRequest, NewDay
<1>7. ASSUME NEW p \in Pid, WaitPid(p) PROVE ForksPaid'
  <2>1. Alive' = Alive
    BY <1>7 DEF WaitPid, Alive, MasterTypeOK
  <2> QED BY <1>7, <2>1 DEF WaitPid
<1>8. CASE ChldReturns
  BY <1>8, <1>1 DEF ChldReturns
<1>9. CASE LoopReap
  <2>1. CASE reap
    <3>1. Cardinality(Alive)' \in {Cardinality(Alive), Cardinality(Alive) + 1}
      BY <1>9, <2>1, SpawnAlive DEF LoopReap
    <3> QED BY <1>9, <2>1, <3>1 DEF LoopReap
  <2>2. CASE ~reap
    BY <1>9, <2>2, <1>1 DEF LoopReap
  <2> QED BY <2>1, <2>2
<1>10. ASSUME NEW p \in Pid, WorkerReady(p) \/ WorkerStuck(p) PROVE ForksPaid'
  <2>1. Alive' = Alive
    BY <1>10 DEF WorkerReady, WorkerStuck, Alive, MasterTypeOK
  <2> QED BY <1>10, <2>1 DEF WorkerReady, WorkerStuck
<1>11. ASSUME NEW p \in Pid, WorkerDies(p) PROVE ForksPaid'
  <2>1. p \in Alive /\ Alive' = Alive \ {p}
    BY <1>11 DEF WorkerDies, Alive, MasterTypeOK
  <2>2. Cardinality(Alive)' = Cardinality(Alive) - 1
    BY <2>1, AliveRemove
  <2> QED BY <1>11, <2>2 DEF WorkerDies
<1>12. ASSUME NEW p \in Pid, WorkerStops(p) PROVE ForksPaid'
  BY <1>12, <1>1 DEF WorkerStops
<1> QED
  BY <1>2, <1>3, <1>4, <1>5, <1>6, <1>7, <1>8, <1>9, <1>10, <1>11, <1>12
  DEF MasterNext, MasterStep, WorkerStep

\* No death is answered by two forks, in any interleaving.
THEOREM WorkersCorrect == MasterSpec => []WorkersBounded
<1>1. MasterInit => ForksPaid
  <2> SUFFICES ASSUME MasterInit PROVE ForksPaid
    OBVIOUS
  <2>1. Alive = {}
    BY DEF MasterInit, Alive
  <2>2. Cardinality(Alive) = 0
    BY <2>1, FS_EmptySet
  <2> QED BY <2>2 DEF MasterInit, ForksPaid, Allowed, One, InChld
<1>2. MasterTypeOK /\ ForksPaid => WorkersBounded
  <2> SUFFICES ASSUME MasterTypeOK, ForksPaid PROVE WorkersBounded
    OBVIOUS
  <2>1. /\ Cardinality(Alive) \in Nat /\ stops \in Nat
        /\ started \in 0..WorkerProcesses /\ WorkerProcesses \in Nat
    BY AliveNat, WorkerAssumption, BoundAssumption DEF MasterTypeOK
  <2>2. One(chld) \in Nat /\ One(InChld) \in Nat /\ One(reap) \in Nat
    BY DEF One
  <2>3. Allowed \in Nat /\ Allowed <= WorkerProcesses + stops
    BY <2>1 DEF Allowed
  <2>4. Cardinality(Alive) <= WorkerProcesses + stops
    BY <2>1, <2>2, <2>3 DEF ForksPaid
  <2> QED BY <2>4 DEF WorkersBounded
<1> QED BY <1>1, <1>2, ForksPaidStep, MasterTypeCorrect, PTL DEF MasterSpec

-----------------------------------------------------------------------------
\* A zombie always has a SIGCHLD or a running handler that will collect it.
THEOREM ZombieCorrect == MasterSpec => []NoForgottenZombie
<1>1. MasterInit => NoForgottenZombie
  BY DEF MasterInit, NoForgottenZombie, Zombie
<1>2. MasterTypeOK /\ NoForgottenZombie /\ [MasterNext]_MasterVars => NoForgottenZombie'
  <2> SUFFICES ASSUME MasterTypeOK, NoForgottenZombie, [MasterNext]_MasterVars PROVE NoForgottenZombie'
    OBVIOUS
  <2> USE DEF NoForgottenZombie, InChld, pending, flags, env
  <2>1. ASSUME worker' = worker PROVE Zombie' = Zombie
    BY <2>1 DEF Zombie
  <2>2. CASE UNCHANGED MasterVars
    BY <2>2, <2>1 DEF MasterVars
  <2>3. CASE StartWorker
    BY <2>3, SpawnAlive DEF StartWorker
  <2>4. CASE LoopReap
    <3>1. Zombie' = Zombie
      BY <2>4, <2>1, SpawnAlive DEF LoopReap
    <3> QED BY <2>4, <3>1 DEF LoopReap
  <2>5. CASE DeliverChld \/ DeliverUsr1
    BY <2>5, <2>1 DEF DeliverChld, DeliverUsr1
  <2>6. CASE StartDone \/ Usr1Returns \/ WakeByOther \/ LoopRotate \/ RotateRequest \/ NewDay
    BY <2>6, <2>1 DEF StartDone, Usr1Returns, WakeByOther, LoopRotate, LogInit, RotateRequest, NewDay
  <2>7. ASSUME NEW p \in Pid, WaitPid(p) PROVE NoForgottenZombie'
    BY <2>7 DEF WaitPid
  <2>8. CASE ChldReturns
    BY <2>8, <2>1 DEF ChldReturns
  <2>9. ASSUME NEW p \in Pid, WorkerReady(p) \/ WorkerStuck(p) PROVE NoForgottenZombie'
    <3>1. Zombie' = Zombie
      BY <2>9 DEF WorkerReady, WorkerStuck, Zombie, MasterTypeOK
    <3> QED BY <2>9, <3>1 DEF WorkerReady, WorkerStuck
  <2>10. ASSUME NEW p \in Pid, WorkerDies(p) \/ WorkerStops(p) PROVE NoForgottenZombie'
    BY <2>10 DEF WorkerDies, WorkerStops
  <2> QED
    BY <2>2, <2>3, <2>4, <2>5, <2>6, <2>7, <2>8, <2>9, <2>10 DEF MasterNext, MasterStep, WorkerStep
<1> QED BY <1>1, <1>2, MasterTypeCorrect, PTL DEF MasterSpec
=============================================================================
