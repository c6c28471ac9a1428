------------------------- MODULE MgxConnPool_proofs -------------------------
(***************************************************************************)
(* Theorems about the connection pool, for any number of objects, peers    *)
(* and descriptors.  The counters and the sequence numbers are right with  *)
(* and without heartbeats; who owns an object and a descriptor is proved   *)
(* for a worker without them, where only the event loop closes.            *)
(***************************************************************************)
EXTENDS MgxConnPool, FiniteSetTheorems, FunctionTheorems, TLAPS

\* The places of the event loop where mc is a connection.
HoldPcs == {"add", "recv", "close_recy", "insert", "close", "free"}

Places ==
    /\ mpc \in HoldPcs => mc \in Conn
    /\ mpc \in {"get", "add"} => mfd \in Fd
    /\ tpc # "idle" => tc \in Conn

\* The iterator of the recycler is on an element of the set it walks, which only
\* the recycler takes elements from.
Iterator == IsFiniteSet(recy) /\ (it # None => it \in recy)

BaseInv == TypeOK /\ Places /\ Iterator /\ CountersMatch

-----------------------------------------------------------------------------
(* Without heartbeats. *)

\* The timer thread is not running.
Quiet == ~Heartbeat /\ tpc = "idle" /\ timers = {}

\* The connection the event loop works on is taken for a peer.
Held == mpc \in HoldPcs => sess[mc] # None

\* A peer that has not connected is behind no descriptor and no connection.
NewPeers ==
    \A k \in Client : peer[k] = "new" =>
        /\ \A f \in Fd : fdtab[f] # k
        /\ \A c \in Conn : sess[c] # k

\* Between accept4 and get_conn the new peer has a descriptor and no connection.
Accepted ==
    mpc = "get" => fdtab[mfd] # None /\ \A c \in Conn : sess[c] # fdtab[mfd]

\* Between get_conn and epoll_ctl the connection has that descriptor.
Assigned == mpc = "add" => fd[mc] = mfd

\* epoll reports connections that serve, under their present instance bit.
InterestServes ==
    \A f \in Fd : interest[f] # None =>
        /\ interest[f][1] \in Serving
        /\ fd[interest[f][1]] = f
        /\ inst[interest[f][1]] = interest[f][2]

\* An event that is not dispatched yet is that of a connection that serves, and
\* that the event loop is not about to close.
BatchServes ==
    \A e \in batch :
        /\ sess[e[1]] # None
        /\ inst[e[1]] = e[2]
        /\ mpc \in HoldPcs => mc # e[1]

\* No message carries a sequence number its connection has not reached.
StampsOld == \A m \in stamps : m[2] <= seq[m[1]]

OwnInv ==
    /\ Quiet /\ PoolPartition /\ Held /\ NewPeers /\ Accepted /\ Assigned
    /\ FdOwnership /\ InterestServes /\ BatchServes /\ StampsOld /\ StampOwner

-----------------------------------------------------------------------------
(* The types and the counters. *)

LEMMA CloseFdType ==
    ASSUME TypeOK, NEW c \in Conn, CloseFd(c)
    PROVE  /\ fdtab' \in [Fd -> Client \cup {None}]
           /\ interest' \in [Fd -> (Conn \X {0, 1}) \cup {None}]
BY DEF TypeOK, CloseFd

LEMMA DeleteTimerType ==
    ASSUME TypeOK, NEW c \in Conn, DeleteTimer(c)
    PROVE  timers' \subseteq Conn \X Nat
BY DEF TypeOK, DeleteTimer

LEMMA FreeConnType ==
    ASSUME TypeOK, CountersMatch, NEW c \in Conn, FreeConn(c)
    PROVE  /\ free' \in Seq(Conn) /\ Len(free') = Len(free) + 1
           /\ free_cnt' = Len(free') /\ free_cnt' \in Int
           /\ conns' \subseteq Conn
           /\ fd' \in [Conn -> Fd \cup {None}]
           /\ seq' \in [Conn -> Nat]
           /\ inst' \in [Conn -> {0, 1}]
           /\ sess' \in [Conn -> Client \cup {None}]
<1>1. free' \in Seq(Conn) /\ Len(free') = Len(free) + 1
  BY DEF TypeOK, FreeConn, PutOneToFree
<1>2. free_cnt' = Len(free') /\ free_cnt' \in Int
  BY <1>1 DEF TypeOK, CountersMatch, FreeConn, PutOneToFree
<1>3. conns' \subseteq Conn /\ fd' \in [Conn -> Fd \cup {None}]
  BY DEF TypeOK, FreeConn, PutOneToFree
<1>4. seq' \in [Conn -> Nat] /\ inst' \in [Conn -> {0, 1}]
  BY DEF TypeOK, FreeConn, PutOneToFree
<1>5. sess' \in [Conn -> Client \cup {None}]
  BY DEF TypeOK, FreeConn, PutOneToFree
<1> QED BY <1>1, <1>2, <1>3, <1>4, <1>5

LEMMA InsertRecyType ==
    ASSUME TypeOK, CountersMatch, IsFiniteSet(recy), NEW c \in Conn, InsertRecy(c)
    PROVE  /\ recy' \subseteq Conn /\ recy \subseteq recy'
           /\ IsFiniteSet(recy') /\ recy_cnt' = Cardinality(recy') /\ recy_cnt' \in Int
           /\ age' \in [Conn -> 0..WaitTime]
           /\ fd' \in [Conn -> Fd \cup {None}]
           /\ seq' \in [Conn -> Nat]
           /\ inst' \in [Conn -> {0, 1}]
           /\ sess' \in [Conn -> Client \cup {None}]
<1>1. CASE c \in recy
  BY <1>1 DEF InsertRecy, recyq, attrs, TypeOK, CountersMatch
<1>2. CASE c \notin recy
  <2>1. IsFiniteSet(recy') /\ Cardinality(recy') = Cardinality(recy) + 1
    BY <1>2, FS_AddElement DEF InsertRecy
  <2>2. age' \in [Conn -> 0..WaitTime]
    BY <1>2, WaitAssumption DEF InsertRecy, TypeOK
  <2>3. /\ recy' = recy \cup {c} /\ recy_cnt' = recy_cnt + 1 /\ fd' = fd /\ inst' = inst
        /\ seq' = [seq EXCEPT ![c] = seq[c] + 1]
        /\ sess' = [sess EXCEPT ![c] = None]
    BY <1>2 DEF InsertRecy
  <2>4. seq' \in [Conn -> Nat] /\ sess' \in [Conn -> Client \cup {None}]
    BY <2>3 DEF TypeOK
  <2>5. recy' \subseteq Conn /\ recy \subseteq recy'
    BY <2>3 DEF TypeOK
  <2>6. recy_cnt' = Cardinality(recy') /\ recy_cnt' \in Int
    BY <2>1, <2>3 DEF TypeOK, CountersMatch
  <2>7. fd' \in [Conn -> Fd \cup {None}] /\ inst' \in [Conn -> {0, 1}]
    BY <2>3 DEF TypeOK
  <2> QED BY <2>1, <2>2, <2>4, <2>5, <2>6, <2>7
<1> QED BY <1>1, <1>2

LEMMA GetPooledEqs ==
    ASSUME GetPooled
    PROVE  /\ free' = Tail(free)
           /\ fd' = [fd EXCEPT ![Head(free)] = mfd]
           /\ seq' = [seq EXCEPT ![Head(free)] = seq[Head(free)] + 1]
           /\ inst' = [inst EXCEPT ![Head(free)] = 1 - inst[Head(free)]]
           /\ sess' = [sess EXCEPT ![Head(free)] = fdtab[mfd]]
           /\ mc' = Head(free)
           /\ free_cnt' = free_cnt - 1
           /\ mpc = "get" /\ mpc' = "add"
           /\ UNCHANGED <<kernel, conns, recyq, it, batch, mfd, tmr, stamps>>
BY DEF GetPooled

LEMMA InitBase == Init => BaseInv
<1> SUFFICES ASSUME Init PROVE BaseInv
    OBVIOUS
<1>1. Cardinality(Pool) \in Nat
  BY PoolAssumption, FS_CardinalityType
<1>2. free \in Seq(Conn) /\ Len(free) = Cardinality(Pool)
  BY <1>1, PoolAssumption DEF Init
<1>3. IsFiniteSet({}) /\ Cardinality({}) = 0
  BY FS_EmptySet
<1>4. TypeOK
  BY <1>1, <1>2, PoolAssumption, WaitAssumption DEF Init, TypeOK
<1>5. Places /\ Iterator /\ CountersMatch
  BY <1>1, <1>2, <1>3 DEF Init, Places, HoldPcs, Iterator, CountersMatch
<1> QED BY <1>4, <1>5 DEF BaseInv

LEMMA StepBase == BaseInv /\ [Next]_vars => BaseInv'
<1> SUFFICES ASSUME BaseInv, [Next]_vars PROVE BaseInv'
    OBVIOUS
<1> USE NoneAssumption
<1>a. TypeOK /\ Places /\ Iterator /\ CountersMatch
  BY DEF BaseInv
<1>1. CASE UNCHANGED vars
  BY <1>1, SMTT(30) DEF vars, BaseInv, TypeOK, Places, Iterator, CountersMatch
<1>2. CASE EpollWait
  <2>1. batch' \subseteq Conn \X {0, 1}
    BY <1>2 DEF EpollWait, BaseInv, TypeOK
  <2> QED
    BY <1>2, <2>1 DEF EpollWait, kernel, freeq, attrs, recyq, tmr, HoldPcs,
         BaseInv, TypeOK, Places, Iterator, CountersMatch
<1>3. CASE EndOfBatch
  BY <1>3 DEF EndOfBatch, kernel, freeq, attrs, recyq, tmr, HoldPcs,
       BaseInv, TypeOK, Places, Iterator, CountersMatch
<1>4. ASSUME NEW e \in batch, Dispatch(e) PROVE BaseInv'
  <2>1. e[1] \in Conn
    BY <1>a DEF TypeOK
  <2> QED
    BY <1>4, <2>1 DEF Dispatch, kernel, freeq, attrs, recyq, tmr, main, HoldPcs,
         BaseInv, TypeOK, Places, Iterator, CountersMatch
<1>5. CASE RecvData
  <2>1. mc \in Conn
    BY <1>5, <1>a DEF RecvData, Places, HoldPcs
  <2>2. stamps' \subseteq Conn \X Nat \X Client
    BY <1>5, <1>a, <2>1 DEF RecvData, TypeOK
  <2> QED
    BY <1>5, <2>2 DEF RecvData, kernel, freeq, attrs, recyq, tmr, HoldPcs,
         BaseInv, TypeOK, Places, Iterator, CountersMatch
<1>6. CASE RecvFin
  <2>1. mc \in Conn
    BY <1>6, <1>a DEF RecvFin, Places, HoldPcs
  <2>2. timers' \subseteq Conn \X Nat
    BY <1>6, <1>a, <2>1, DeleteTimerType DEF RecvFin
  <2> QED
    BY <1>6, <2>1, <2>2 DEF RecvFin, kernel, freeq, attrs, recyq, HoldPcs,
         BaseInv, TypeOK, Places, Iterator, CountersMatch
<1>7. CASE RecvError
  BY <1>7 DEF RecvError, kernel, freeq, attrs, recyq, tmr, HoldPcs,
       BaseInv, TypeOK, Places, Iterator, CountersMatch
<1>8. CASE CloseForRecy
  <2>1. mc \in Conn
    BY <1>8, <1>a DEF CloseForRecy, Places, HoldPcs
  <2> QED
    BY <1>8, <1>a, <2>1, CloseFdType DEF CloseForRecy, freeq, attrs, recyq, tmr,
         HoldPcs, BaseInv, TypeOK, Places, Iterator, CountersMatch
<1>9. CASE MainInsertRecy
  <2>1. mc \in Conn
    BY <1>9, <1>a DEF MainInsertRecy, Places, HoldPcs
  <2>2. InsertRecy(mc)
    BY <1>9 DEF MainInsertRecy
  <2> QED
    BY <1>9, <1>a, <2>1, <2>2, InsertRecyType DEF MainInsertRecy, kernel, freeq, tmr,
         HoldPcs, BaseInv, TypeOK, Places, Iterator, CountersMatch
<1>10. CASE CloseConn
  <2>1. mc \in Conn
    BY <1>10, <1>a DEF CloseConn, Places, HoldPcs
  <2> QED
    BY <1>10, <1>a, <2>1, CloseFdType DEF CloseConn, freeq, attrs, recyq, tmr,
         HoldPcs, BaseInv, TypeOK, Places, Iterator, CountersMatch
<1>11. CASE MainFreeConn
  <2>1. mc \in Conn
    BY <1>11, <1>a DEF MainFreeConn, Places, HoldPcs
  <2>2. FreeConn(mc)
    BY <1>11 DEF MainFreeConn
  <2> QED
    BY <1>11, <1>a, <2>1, <2>2, FreeConnType DEF MainFreeConn, kernel, recyq, tmr,
         HoldPcs, BaseInv, TypeOK, Places, Iterator, CountersMatch
<1>12. ASSUME NEW k \in Client, Accept(k) PROVE BaseInv'
  BY <1>12, SMTT(30) DEF Accept, freeq, attrs, recyq, tmr, HoldPcs,
       BaseInv, TypeOK, Places, Iterator, CountersMatch
<1>13. CASE GetPooled
  <2>1. mfd \in Fd /\ free # <<>>
    BY <1>13, <1>a DEF GetPooled, Places, CountersMatch, TypeOK
  <2>2. Head(free) \in Conn /\ Tail(free) \in Seq(Conn) /\ Len(Tail(free)) = Len(free) - 1
    BY <2>1, <1>a DEF TypeOK
  <2>3. /\ fd' \in [Conn -> Fd \cup {None}]
        /\ seq' \in [Conn -> Nat]
        /\ inst' \in [Conn -> {0, 1}]
        /\ sess' \in [Conn -> Client \cup {None}]
    <3> DEFINE c == Head(free)
    <3>1. c \in Conn
      BY <2>2
    <3>2. /\ fd' = [fd EXCEPT ![c] = mfd]
          /\ seq' = [seq EXCEPT ![c] = seq[c] + 1]
          /\ inst' = [inst EXCEPT ![c] = 1 - inst[c]]
          /\ sess' = [sess EXCEPT ![c] = fdtab[mfd]]
      BY <1>13, GetPooledEqs
    <3> HIDE DEF c
    <3>3. seq[c] \in Nat /\ inst[c] \in {0, 1} /\ fdtab[mfd] \in Client \cup {None}
      BY <1>a, <2>1, <3>1 DEF TypeOK
    <3>4. seq[c] + 1 \in Nat /\ 1 - inst[c] \in {0, 1}
      BY <3>3
    <3> QED BY <1>a, <2>1, <3>1, <3>2, <3>3, <3>4 DEF TypeOK
  <2>4. free' = Tail(free) /\ mc' = Head(free)
    BY <1>13, GetPooledEqs
  <2>5. /\ free_cnt' = free_cnt - 1 /\ mpc' = "add" /\ mfd' = mfd
        /\ UNCHANGED <<kernel, conns, recyq, it, batch, tmr, stamps>>
    BY <1>13, GetPooledEqs
  <2>6. TypeOK'
    <3>1. free' \in Seq(Conn) /\ mc' \in Conn
      BY <2>2, <2>4
    <3>2. free_cnt' \in Int
      BY <1>a, <2>5 DEF TypeOK
    <3> QED BY <1>a, <2>3, <2>5, <3>1, <3>2 DEF kernel, recyq, tmr, TypeOK
  <2>7. Places' /\ Iterator'
    BY <1>a, <2>1, <2>2, <2>4, <2>5 DEF tmr, recyq, HoldPcs, Places, Iterator
  <2>8. CountersMatch'
    BY <1>a, <2>2, <2>4, <2>5 DEF recyq, CountersMatch
  <2> QED BY <2>6, <2>7, <2>8 DEF BaseInv
<1>14. ASSUME NEW c \in Conn, GetNew(c) PROVE BaseInv'
  <2>1. mfd \in Fd
    BY <1>14, <1>a DEF GetNew, Places
  <2> QED
    BY <1>14, <2>1 DEF GetNew, kernel, recyq, tmr, HoldPcs,
         BaseInv, TypeOK, Places, Iterator, CountersMatch
<1>15. CASE Register
  <2>1. mfd \in Fd /\ mc \in Conn
    BY <1>15, <1>a DEF Register, Places, HoldPcs
  <2>2. interest' \in [Fd -> (Conn \X {0, 1}) \cup {None}]
    BY <1>15, <1>a, <2>1 DEF Register, TypeOK
  <2>3. timers' \subseteq Conn \X Nat
    BY <1>15, <1>a, <2>1 DEF Register, TypeOK
  <2> QED
    BY <1>15, <2>2, <2>3 DEF Register, freeq, attrs, recyq, HoldPcs,
         BaseInv, TypeOK, Places, Iterator, CountersMatch
<1>16. CASE RegisterFails
  BY <1>16 DEF RegisterFails, kernel, freeq, attrs, recyq, tmr, HoldPcs,
       BaseInv, TypeOK, Places, Iterator, CountersMatch
<1>17. CASE RecyBegin
  BY <1>17 DEF RecyBegin, kernel, freeq, attrs, recyq, main, tmr,
       BaseInv, TypeOK, Places, Iterator, CountersMatch
<1>18. CASE RecyOne
  <2>1. it \in Conn /\ it \in recy
    BY <1>18, <1>a DEF RecyOne, Iterator, TypeOK
  <2>2. IsFiniteSet(recy') /\ Cardinality(recy') = Cardinality(recy) - 1
    BY <1>18, <1>a, <2>1, FS_RemoveElement DEF RecyOne, Iterator
  <2>3. FreeConn(it)
    BY <1>18 DEF RecyOne
  <2> QED
    <3>1. TypeOK'
      <4>1. recy' \subseteq Conn /\ recy_cnt' \in Int /\ it' \in Conn \cup {None}
        BY <1>18, <1>a DEF RecyOne, TypeOK
      <4> QED
        BY <1>18, <1>a, <2>1, <2>3, <4>1, FreeConnType DEF RecyOne, kernel, main, tmr, TypeOK
    <3>2. Places'
      BY <1>18, <1>a DEF RecyOne, main, tmr, Places
    <3>3. Iterator'
      BY <1>18, <2>2 DEF RecyOne, Iterator
    <3>4. CountersMatch'
      BY <1>18, <1>a, <2>1, <2>2, <2>3, FreeConnType DEF RecyOne, CountersMatch
    <3> QED BY <3>1, <3>2, <3>3, <3>4 DEF BaseInv
<1>19. ASSUME NEW e \in timers, TimerExpires(e) PROVE BaseInv'
  <2>1. e[1] \in Conn
    BY <1>a DEF TypeOK
  <2> QED
    BY <1>19, <2>1 DEF TimerExpires, kernel, freeq, attrs, recyq, main,
         BaseInv, TypeOK, Places, Iterator, CountersMatch
<1>20. CASE TimerClose
  <2>1. tc \in Conn
    BY <1>20, <1>a DEF TimerClose, Places
  <2> QED
    BY <1>20, <1>a, <2>1, CloseFdType, DeleteTimerType DEF TimerClose, freeq, attrs,
         recyq, main, BaseInv, TypeOK, Places, Iterator, CountersMatch
<1>21. CASE TimerInsertRecy
  <2>1. tc \in Conn
    BY <1>21, <1>a DEF TimerInsertRecy, Places
  <2>2. InsertRecy(tc)
    BY <1>21 DEF TimerInsertRecy
  <2> QED
    BY <1>21, <1>a, <2>1, <2>2, InsertRecyType DEF TimerInsertRecy, kernel, freeq, main,
         BaseInv, TypeOK, Places, Iterator, CountersMatch
<1>22. ASSUME NEW k \in Client, PeerLeaves(k) PROVE BaseInv'
  <2>1. peer' \in [Client -> {"new", "live", "fin", "rst"}]
    BY <1>22, <1>a DEF PeerLeaves, TypeOK
  <2> QED
    BY <1>22, <2>1, SMTT(30) DEF PeerLeaves, freeq, attrs, recyq, main, tmr,
         BaseInv, TypeOK, Places, Iterator, CountersMatch
<1>23. CASE Tick
  <2>1. age' \in [Conn -> 0..WaitTime]
    BY <1>23, <1>a, WaitAssumption, SMTT(30) DEF Tick, TypeOK
  <2> QED
    <3>1. UNCHANGED <<kernel, freeq, recy, recy_cnt, it, attrs, batch, main, tmr, stamps>>
      BY <1>23 DEF Tick
    <3>2. TypeOK'
      <4>1. UNCHANGED <<fdtab, interest, peer, free, free_cnt, conns, fd, seq, inst, sess, recy,
                        recy_cnt, it, batch, mpc, mc, mfd, timers, tpc, tc, stamps>>
        BY <3>1 DEF kernel, freeq, attrs, main, tmr
      <4>2. TypeOK
        BY <1>a
      <4> QED BY <2>1, <4>1, <4>2, ZenonT(30) DEF TypeOK
    <3>3. Places' /\ Iterator' /\ CountersMatch'
      BY <1>a, <3>1 DEF Places, Iterator, CountersMatch, freeq, main, tmr
    <3> QED BY <3>2, <3>3 DEF BaseInv
<1> QED
  BY <1>1, <1>2, <1>3, <1>4, <1>5, <1>6, <1>7, <1>8, <1>9, <1>10, <1>11, <1>12, <1>13,
     <1>14, <1>15, <1>16, <1>17, <1>18, <1>19, <1>20, <1>21, <1>22, <1>23
     DEF Next, MainStep, RecyStep, TimerStep

\* The state has its type in every reachable state, with and without heartbeats.
THEOREM TypeCorrect == Spec => []TypeOK
<1>1. BaseInv => TypeOK
  BY DEF BaseInv
<1> QED BY <1>1, InitBase, StepBase, PTL DEF Spec

\* The counters that get_conn and the recycler decide on without looking at the
\* containers are right in every reachable state, whichever of the three threads
\* recycle, so Head(free) is never taken of an empty queue and the recycler's
\* iterator is never dereferenced at end().
THEOREM CountersCorrect == Spec => []CountersMatch
<1>1. BaseInv => CountersMatch
  BY DEF BaseInv
<1> QED BY <1>1, InitBase, StepBase, PTL DEF Spec

-----------------------------------------------------------------------------
(* The sequence numbers. *)

LEMMA StepAdvance == BaseInv /\ [Next]_vars => [Advance]_vars
<1> SUFFICES ASSUME BaseInv, Next PROVE Advance
    OBVIOUS
<1>a. TypeOK /\ Places /\ Iterator /\ CountersMatch
  BY DEF BaseInv
<1>b. \A c \in Conn : seq[c] \in Nat
  BY <1>a DEF TypeOK
<1>1. CASE UNCHANGED <<seq, sess>>
  BY <1>1, <1>b DEF Advance
<1>2. ASSUME NEW c \in Conn, seq' = [seq EXCEPT ![c] = seq[c] + 1],
             NEW k, sess' = [sess EXCEPT ![c] = k]
      PROVE  Advance
  BY <1>2, <1>a, <1>b DEF Advance, TypeOK
<1>3. ASSUME NEW c \in Conn, InsertRecy(c) PROVE Advance
  BY <1>1, <1>2, <1>3 DEF InsertRecy, attrs
<1>4. ASSUME NEW c \in Conn, FreeConn(c) PROVE Advance
  BY <1>2, <1>4 DEF FreeConn, PutOneToFree
<1>5. CASE MainInsertRecy
  BY <1>3, <1>5, <1>a DEF MainInsertRecy, Places, HoldPcs
<1>6. CASE MainFreeConn
  BY <1>4, <1>6, <1>a DEF MainFreeConn, Places, HoldPcs
<1>7. CASE GetPooled
  <2>1. Head(free) \in Conn
    BY <1>7, <1>a DEF GetPooled, CountersMatch, TypeOK
  <2> QED BY <1>2, <1>7, <2>1 DEF GetPooled
<1>8. ASSUME NEW c \in Conn, GetNew(c) PROVE Advance
  BY <1>2, <1>8 DEF GetNew
<1>9. CASE RecyOne
  BY <1>4, <1>9, <1>a DEF RecyOne, Iterator, TypeOK
<1>10. CASE TimerInsertRecy
  BY <1>3, <1>10, <1>a DEF TimerInsertRecy, Places
<1>11. CASE EpollWait \/ EndOfBatch \/ (\E e \in batch : Dispatch(e)) \/ RecvData \/ RecvFin
            \/ RecvError \/ CloseForRecy \/ CloseConn \/ (\E k \in Client : Accept(k))
            \/ Register \/ RegisterFails \/ RecyBegin
            \/ (\E e \in timers : TimerExpires(e)) \/ TimerClose
            \/ (\E k \in Client : PeerLeaves(k)) \/ Tick
  BY <1>1, <1>11 DEF EpollWait, EndOfBatch, Dispatch, RecvData, RecvFin, RecvError,
       CloseForRecy, CloseConn, Accept, Register, RegisterFails, RecyBegin, TimerExpires,
       TimerClose, PeerLeaves, Tick, attrs
<1> QED
  BY <1>5, <1>6, <1>7, <1>8, <1>9, <1>10, <1>11 DEF Next, MainStep, RecyStep, TimerStep

\* With any interleaving of the three threads, a sequence number never goes back,
\* and grows whenever the object passes to or from a peer.
THEOREM SeqCorrect == Spec => SeqAdvances
BY InitBase, StepBase, StepAdvance, PTL DEF Spec, SeqAdvances

-----------------------------------------------------------------------------
(* Who owns what, without heartbeats: what is untouched stays right. *)

LEMMA ServingSame ==
    ASSUME sess' = sess, mpc \notin {"insert", "free"}, mpc' \notin {"insert", "free"}
    PROVE  Serving' = Serving
BY DEF Serving

LEMMA PartitionSame ==
    ASSUME PoolPartition, UNCHANGED <<free, conns, sess, recy>>
    PROVE  PoolPartition'
BY DEF PoolPartition, InFree

LEMMA PeersSame ==
    ASSUME NewPeers,
           \A k \in Client : peer'[k] = "new" => peer[k] = "new",
           \A f \in Fd : fdtab'[f] = fdtab[f] \/ fdtab'[f] = None,
           \A c \in Conn : sess'[c] = sess[c] \/ sess'[c] = None
    PROVE  NewPeers'
BY NoneAssumption DEF NewPeers

LEMMA OwnershipSame ==
    ASSUME FdOwnership, UNCHANGED <<fd, fdtab, sess>>, Serving' = Serving, mpc # "get"
    PROVE  FdOwnership'
BY DEF FdOwnership

LEMMA InterestSame ==
    ASSUME InterestServes, UNCHANGED <<interest, fd, inst>>, Serving' = Serving
    PROVE  InterestServes'
BY DEF InterestServes

LEMMA StampsSame ==
    ASSUME StampsOld, StampOwner, UNCHANGED <<stamps, seq, sess, fd, fdtab>>
    PROVE  StampsOld' /\ StampOwner'
BY DEF StampsOld, StampOwner

\* Steps of the event loop that only move it, between places where it has not
\* closed the descriptor of its connection.
LEMMA MoveStep ==
    ASSUME BaseInv, OwnInv,
           UNCHANGED <<kernel, freeq, attrs, recy, timers, tpc>>,
           mpc \notin {"insert", "free", "get"}, mpc' \notin {"insert", "free", "get", "add"},
           Held', BatchServes', StampsOld', StampOwner'
    PROVE  OwnInv'
<1>1. Serving' = Serving
  BY ServingSame DEF attrs
<1>2. Quiet' /\ Accepted' /\ Assigned'
  BY DEF OwnInv, Quiet, Accepted, Assigned
<1>3. PoolPartition'
  BY PartitionSame DEF OwnInv, freeq, attrs
<1>4. NewPeers'
  BY PeersSame DEF OwnInv, kernel, attrs
<1>5. FdOwnership'
  BY <1>1, OwnershipSame DEF OwnInv, kernel, attrs
<1>6. InterestServes'
  BY <1>1, InterestSame DEF OwnInv, kernel, attrs
<1> QED BY <1>2, <1>3, <1>4, <1>5, <1>6 DEF OwnInv

\* Steps of the others that touch nothing of this.
LEMMA IdleStep ==
    ASSUME OwnInv,
           UNCHANGED <<fdtab, interest, freeq, attrs, recy, batch, main, tmr, stamps>>,
           \A k \in Client : peer'[k] = "new" => peer[k] = "new"
    PROVE  OwnInv'
<1>1. Serving' = Serving
  BY DEF Serving, main, attrs
<1>2. Quiet' /\ Accepted' /\ Assigned' /\ Held'
  BY DEF OwnInv, Quiet, Accepted, Assigned, Held, tmr, main, attrs
<1>3. PoolPartition'
  BY PartitionSame DEF OwnInv, freeq, attrs
<1>4. NewPeers'
  BY PeersSame DEF OwnInv, attrs
<1>5. FdOwnership'
  BY <1>1 DEF OwnInv, FdOwnership, attrs, main
<1>6. InterestServes'
  BY <1>1, InterestSame DEF OwnInv, attrs
<1>7. BatchServes'
  BY DEF OwnInv, BatchServes, attrs, main
<1>8. StampsOld' /\ StampOwner'
  BY StampsSame DEF OwnInv, attrs
<1> QED BY <1>2, <1>3, <1>4, <1>5, <1>6, <1>7, <1>8 DEF OwnInv

\* The only connection a descriptor belongs to.
LEMMA OneOwner ==
    ASSUME FdOwnership, NEW c \in Serving, NEW d \in Serving, fd[c] = fd[d]
    PROVE  c = d
BY DEF FdOwnership

-----------------------------------------------------------------------------
(* Closing, giving back and taking. *)

\* close(mc->fd) by the event loop.
LEMMA CloseStep ==
    ASSUME BaseInv, OwnInv,
           mpc \in {"close_recy", "close"}, mpc' \in {"insert", "free"},
           CloseFd(mc),
           UNCHANGED <<peer, freeq, attrs, recyq, it, batch, mc, mfd, tmr, stamps>>
    PROVE  OwnInv'
<1> USE DEF attrs
<1>1. mc \in Conn /\ sess[mc] # None /\ mc \in Serving
  BY DEF BaseInv, OwnInv, Places, HoldPcs, Held, Serving
<1>2. fd[mc] # None /\ fd[mc] \in Fd
  BY <1>1 DEF OwnInv, FdOwnership, BaseInv, TypeOK
<1>3. /\ fdtab' = [fdtab EXCEPT ![fd[mc]] = None]
      /\ interest' = [interest EXCEPT ![fd[mc]] = None]
  BY <1>2 DEF CloseFd
<1>4. Serving' = Serving \ {mc}
  BY DEF Serving
<1>5. \A c \in Serving' : c \in Serving /\ fd[c] # fd[mc]
  BY <1>1, <1>4, OneOwner DEF OwnInv
<1>6. \A f \in Fd : /\ f # fd[mc] => fdtab'[f] = fdtab[f] /\ interest'[f] = interest[f]
                    /\ f = fd[mc] => fdtab'[f] = None /\ interest'[f] = None
  BY <1>2, <1>3 DEF BaseInv, TypeOK
<1>7. Quiet' /\ Accepted' /\ Assigned' /\ Held'
  BY DEF OwnInv, Quiet, Accepted, Assigned, Held, tmr, HoldPcs
<1>8. PoolPartition'
  BY PartitionSame DEF OwnInv, freeq, recyq
<1>9. NewPeers'
  BY <1>6, PeersSame DEF OwnInv
<1>10. FdOwnership'
  <2>1. \A c \in Serving' : fd'[c] # None /\ fdtab'[fd'[c]] = sess'[c]
    <3> SUFFICES ASSUME NEW c \in Serving' PROVE fd[c] # None /\ fdtab'[fd[c]] = sess[c]
        OBVIOUS
    <3>1. c \in Conn /\ fd[c] # None /\ fdtab[fd[c]] = sess[c] /\ fd[c] # fd[mc]
      BY <1>5 DEF OwnInv, FdOwnership, Serving
    <3>2. fd[c] \in Fd
      BY <3>1 DEF BaseInv, TypeOK
    <3> QED BY <3>1, <3>2, <1>6
  <2>2. \A c, d \in Serving' : sess'[c] = sess'[d] => c = d
    BY <1>4 DEF OwnInv, FdOwnership
  <2>3. \A f \in Fd : fdtab'[f] # None => \E c \in Serving' : fd'[c] = f
    <3> SUFFICES ASSUME NEW f \in Fd, fdtab'[f] # None PROVE \E c \in Serving' : fd[c] = f
        OBVIOUS
    <3>1. f # fd[mc] /\ fdtab[f] # None
      BY <1>6
    <3>2. PICK c \in Serving : fd[c] = f
      BY <3>1 DEF OwnInv, FdOwnership
    <3> QED BY <3>1, <3>2, <1>4
  <2> QED BY <2>1, <2>2, <2>3 DEF FdOwnership
<1>11. InterestServes'
  <2> SUFFICES ASSUME NEW f \in Fd, interest'[f] # None
               PROVE  /\ interest'[f][1] \in Serving'
                      /\ fd[interest'[f][1]] = f
                      /\ inst[interest'[f][1]] = interest'[f][2]
    BY DEF InterestServes
  <2>1. f # fd[mc] /\ interest'[f] = interest[f]
    BY <1>6
  <2>2. interest[f][1] \in Serving /\ fd[interest[f][1]] = f
        /\ inst[interest[f][1]] = interest[f][2]
    BY <2>1 DEF OwnInv, InterestServes
  <2> QED BY <2>1, <2>2, <1>4
<1>12. BatchServes'
  BY DEF OwnInv, BatchServes, HoldPcs
<1>13. StampsOld' /\ StampOwner'
  <2>1. StampsOld'
    BY DEF OwnInv, StampsOld
  <2>2. StampOwner'
    <3> SUFFICES ASSUME NEW m \in stamps, seq[m[1]] = m[2]
                 PROVE  /\ sess[m[1]] = m[3] /\ fd[m[1]] # None
                        /\ fdtab'[fd[m[1]]] \in {m[3], None}
      BY DEF StampOwner
    <3>1. /\ sess[m[1]] = m[3] /\ fd[m[1]] # None
          /\ fdtab[fd[m[1]]] \in {m[3], None}
      BY DEF OwnInv, StampOwner
    <3>2. fd[m[1]] \in Fd
      BY <3>1 DEF BaseInv, TypeOK
    <3> QED BY <3>1, <3>2, <1>6
  <2> QED BY <2>1, <2>2
<1> QED BY <1>7, <1>8, <1>9, <1>10, <1>11, <1>12, <1>13 DEF OwnInv

\* A connection whose descriptor is closed goes to the recovery set or to the free
\* queue: by the event loop, which then leaves it, or by the recycler.
LEMMA ReturnStep ==
    ASSUME BaseInv, OwnInv, NEW c \in Conn,
           \/ mpc \in {"insert", "free"} /\ mc = c /\ mpc' = "dispatch"
           \/ sess[c] = None /\ UNCHANGED <<mpc, mc>>,
           seq' = [seq EXCEPT ![c] = seq[c] + 1],
           sess' = [sess EXCEPT ![c] = None],
           \A d \in Conn : d # c => fd'[d] = fd[d],
           PoolPartition',
           UNCHANGED <<kernel, inst, batch, mfd, tmr, stamps>>
    PROVE  OwnInv'
<1> USE DEF kernel
<1>a. TypeOK
  BY DEF BaseInv
<1>1. /\ c \notin Serving /\ sess'[c] = None /\ seq'[c] = seq[c] + 1 /\ seq[c] \in Nat
      /\ \A d \in Conn : d # c => sess'[d] = sess[d] /\ seq'[d] = seq[d] /\ fd'[d] = fd[d]
  BY <1>a DEF Serving, TypeOK
<1>2. Serving' = Serving
  BY <1>1 DEF Serving
<1>3. mpc' \in HoldPcs => mpc' = mpc /\ mc' = mc /\ mc \in Conn /\ mc # c
  BY DEF HoldPcs, OwnInv, Held, BaseInv, Places
<1>4. Quiet' /\ Accepted' /\ Assigned' /\ Held'
  <2>1. Quiet'
    BY DEF OwnInv, Quiet, tmr
  <2>2. Accepted'
    BY <1>1 DEF OwnInv, Accepted
  <2>3. Assigned'
    BY <1>1, <1>3 DEF OwnInv, Assigned, HoldPcs
  <2>4. Held'
    BY <1>1, <1>3 DEF OwnInv, Held
  <2> QED BY <2>1, <2>2, <2>3, <2>4
<1>5. NewPeers'
  BY <1>1, PeersSame DEF OwnInv
<1>6. FdOwnership'
  <2>1. \A d \in Serving : d \in Conn /\ d # c
    BY <1>1 DEF Serving
  <2>2. mpc = "get" => mpc' = "get"
    OBVIOUS
  <2> QED BY <1>1, <1>2, <2>1, <2>2 DEF OwnInv, FdOwnership
<1>7. InterestServes'
  <2>1. \A d \in Serving : d \in Conn /\ d # c
    BY <1>1 DEF Serving
  <2> QED BY <1>1, <1>2, <2>1 DEF OwnInv, InterestServes
<1>8. BatchServes'
  <2> SUFFICES ASSUME NEW e \in batch
               PROVE  /\ sess'[e[1]] # None /\ inst[e[1]] = e[2]
                      /\ mpc' \in HoldPcs => mc' # e[1]
    BY DEF BatchServes
  <2>1. e[1] \in Conn /\ sess[e[1]] # None /\ inst[e[1]] = e[2]
        /\ (mpc \in HoldPcs => mc # e[1])
    BY <1>a DEF OwnInv, BatchServes, TypeOK
  <2>2. e[1] # c
    BY <2>1 DEF HoldPcs
  <2> QED BY <1>1, <1>3, <2>1, <2>2
<1>9. StampsOld' /\ StampOwner'
  <2>1. \A m \in stamps : m[1] \in Conn /\ m[2] \in Nat /\ m[2] <= seq[m[1]]
    BY <1>a DEF OwnInv, StampsOld, TypeOK
  <2>2. StampsOld'
    BY <1>1, <2>1 DEF StampsOld
  <2>3. \A m \in stamps : seq'[m[1]] = m[2] => m[1] # c /\ seq[m[1]] = m[2]
    BY <1>1, <2>1
  <2>4. StampOwner'
    BY <1>1, <2>1, <2>3 DEF OwnInv, StampOwner
  <2> QED BY <2>2, <2>4
<1> QED BY <1>4, <1>5, <1>6, <1>7, <1>8, <1>9 DEF OwnInv

\* get_conn gives the accepted descriptor to an object that serves nobody.
LEMMA TakeStep ==
    ASSUME BaseInv, OwnInv, NEW c \in Conn, sess[c] = None,
           mpc = "get", mpc' = "add", mc' = c,
           fd' = [fd EXCEPT ![c] = mfd],
           seq' = [seq EXCEPT ![c] = seq[c] + 1],
           sess' = [sess EXCEPT ![c] = fdtab[mfd]],
           \A d \in Conn : d # c => inst'[d] = inst[d],
           PoolPartition',
           UNCHANGED <<kernel, batch, mfd, tmr, stamps>>
    PROVE  OwnInv'
<1> USE DEF kernel
<1>a. TypeOK
  BY DEF BaseInv
<1>b. mfd \in Fd /\ fdtab[mfd] # None /\ \A d \in Conn : sess[d] # fdtab[mfd]
  BY DEF BaseInv, Places, OwnInv, Accepted
<1>1. /\ c \notin Serving /\ sess'[c] = fdtab[mfd] /\ fd'[c] = mfd
      /\ seq'[c] = seq[c] + 1 /\ seq[c] \in Nat
      /\ \A d \in Conn : d # c => /\ sess'[d] = sess[d] /\ seq'[d] = seq[d]
                                  /\ fd'[d] = fd[d] /\ inst'[d] = inst[d]
  BY <1>a DEF Serving, TypeOK
<1>2. Serving' = Serving \cup {c}
  BY <1>1, <1>b DEF Serving
<1>3. \A d \in Serving : d \in Conn /\ d # c
  BY <1>1 DEF Serving
<1>4. Quiet' /\ Accepted' /\ Assigned' /\ Held'
  BY <1>1, <1>b DEF OwnInv, Quiet, Accepted, Assigned, Held, tmr
<1>5. NewPeers'
  <2> SUFFICES ASSUME NEW k \in Client, peer[k] = "new"
               PROVE  /\ \A f \in Fd : fdtab[f] # k
                      /\ \A d \in Conn : sess'[d] # k
    BY DEF NewPeers
  <2>1. /\ \A f \in Fd : fdtab[f] # k
        /\ \A d \in Conn : sess[d] # k
    BY DEF OwnInv, NewPeers
  <2> QED BY <1>1, <1>b, <2>1
<1>6. FdOwnership'
  <2>1. \A d \in Serving' : fd'[d] # None /\ fdtab[fd'[d]] = sess'[d]
    BY <1>1, <1>2, <1>3, <1>b, NoneAssumption DEF OwnInv, FdOwnership
  <2>2. \A d, e \in Serving' : sess'[d] = sess'[e] => d = e
    BY <1>1, <1>2, <1>3, <1>b DEF OwnInv, FdOwnership
  <2>3. \A f \in Fd : fdtab[f] # None => \E d \in Serving' : fd'[d] = f
    <3> SUFFICES ASSUME NEW f \in Fd, fdtab[f] # None PROVE \E d \in Serving' : fd'[d] = f
        OBVIOUS
    <3>1. CASE f = mfd
      BY <3>1, <1>1, <1>2
    <3>2. CASE f # mfd
      <4>1. PICK d \in Serving : fd[d] = f
        BY <3>2 DEF OwnInv, FdOwnership
      <4> QED BY <4>1, <1>1, <1>2, <1>3
    <3> QED BY <3>1, <3>2
  <2> QED BY <2>1, <2>2, <2>3 DEF FdOwnership
<1>7. InterestServes'
  BY <1>1, <1>2, <1>3 DEF OwnInv, InterestServes
<1>8. BatchServes'
  <2> SUFFICES ASSUME NEW e \in batch
               PROVE  sess'[e[1]] # None /\ inst'[e[1]] = e[2] /\ c # e[1]
    BY DEF BatchServes
  <2>1. e[1] \in Conn /\ sess[e[1]] # None /\ inst[e[1]] = e[2]
    BY <1>a DEF OwnInv, BatchServes, TypeOK
  <2> QED BY <1>1, <2>1
<1>9. StampsOld' /\ StampOwner'
  <2>1. \A m \in stamps : m[1] \in Conn /\ m[2] \in Nat /\ m[2] <= seq[m[1]]
    BY <1>a DEF OwnInv, StampsOld, TypeOK
  <2>2. StampsOld'
    BY <1>1, <2>1 DEF StampsOld
  <2>3. \A m \in stamps : seq'[m[1]] = m[2] => m[1] # c /\ seq[m[1]] = m[2]
    BY <1>1, <2>1
  <2>4. StampOwner'
    BY <1>1, <2>1, <2>3 DEF OwnInv, StampOwner
  <2> QED BY <2>2, <2>4
<1> QED BY <1>4, <1>5, <1>6, <1>7, <1>8, <1>9 DEF OwnInv

-----------------------------------------------------------------------------
(* The places of the objects. *)

\* push at the back of the free queue of an object that is not in it.
LEMMA PushFree ==
    ASSUME BaseInv, PoolPartition, NEW c \in Conn, free' = Append(free, c), c \notin InFree
    PROVE  /\ InFree' = InFree \cup {c}
           /\ \A i, j \in 1..Len(free') : free'[i] = free'[j] => i = j
<1>1. free \in Seq(Conn)
  BY DEF BaseInv, TypeOK
<1>2. /\ Len(free') = Len(free) + 1 /\ free'[Len(free) + 1] = c
      /\ \A i \in 1..Len(free) : free'[i] = free[i]
      /\ Len(free) \in Nat
  BY <1>1
<1>3. \A i \in 1..Len(free) : free[i] # c
  BY DEF InFree
<1>4. InFree' = InFree \cup {c}
  BY <1>2 DEF InFree
<1>5. \A i, j \in 1..Len(free') : free'[i] = free'[j] => i = j
  BY <1>2, <1>3 DEF PoolPartition
<1> QED BY <1>4, <1>5

\* pop at the front of the free queue.
LEMMA PopFree ==
    ASSUME BaseInv, PoolPartition, free # <<>>, free' = Tail(free)
    PROVE  /\ Head(free) \in InFree
           /\ InFree' = InFree \ {Head(free)}
           /\ \A i, j \in 1..Len(free') : free'[i] = free'[j] => i = j
<1>1. free \in Seq(Conn)
  BY DEF BaseInv, TypeOK
<1>2. /\ Len(free) \in Nat /\ Len(free) > 0 /\ Len(free') = Len(free) - 1
      /\ Head(free) = free[1]
      /\ \A i \in 1..Len(free') : free'[i] = free[i + 1]
  BY <1>1
<1>3. \A i, j \in 1..Len(free) : free[i] = free[j] => i = j
  BY DEF PoolPartition
<1>4. Head(free) \in InFree
  BY <1>2 DEF InFree
<1>5. \A i, j \in 1..Len(free') : free'[i] = free'[j] => i = j
  <2> SUFFICES ASSUME NEW i \in 1..Len(free'), NEW j \in 1..Len(free'), free'[i] = free'[j]
               PROVE  i = j
      OBVIOUS
  <2>1. i + 1 \in 1..Len(free) /\ j + 1 \in 1..Len(free) /\ free[i + 1] = free[j + 1]
    BY <1>2
  <2>2. i + 1 = j + 1
    BY <1>3, <2>1
  <2> QED BY <1>2, <2>2
<1>6. InFree' = InFree \ {Head(free)}
  <2>1. ASSUME NEW x \in InFree' PROVE x \in InFree \ {Head(free)}
    <3>1. PICK i \in 1..Len(free') : x = free'[i]
      BY <2>1 DEF InFree
    <3>2. i + 1 \in 1..Len(free) /\ x = free[i + 1] /\ i + 1 # 1 /\ 1 \in 1..Len(free)
      BY <1>2, <3>1
    <3>3. x # free[1]
      BY <1>3, <3>2
    <3> QED BY <1>2, <3>2, <3>3 DEF InFree
  <2>2. ASSUME NEW x \in InFree \ {Head(free)} PROVE x \in InFree'
    <3>1. PICK i \in 1..Len(free) : x = free[i]
      BY <2>2 DEF InFree
    <3>2. i # 1
      BY <1>2, <2>2, <3>1
    <3>3. i - 1 \in 1..Len(free') /\ x = free'[i - 1]
      BY <1>2, <3>1, <3>2
    <3> QED BY <3>3 DEF InFree
  <2> QED BY <2>1, <2>2
<1> QED BY <1>4, <1>5, <1>6

\* free_conn by the event loop, of the connection it serves.
LEMMA FreePartition ==
    ASSUME BaseInv, PoolPartition, NEW c \in Conn, sess[c] # None, FreeConn(c), recy' = recy
    PROVE  PoolPartition'
<1>1. c \in conns /\ c \notin InFree /\ c \notin recy
  BY DEF PoolPartition
<1>2. /\ free' = Append(free, c) /\ conns' = conns
      /\ sess' = [sess EXCEPT ![c] = None] /\ sess \in [Conn -> Client \cup {None}]
      /\ conns \subseteq Conn
  BY DEF FreeConn, PutOneToFree, BaseInv, TypeOK
<1>3. /\ InFree' = InFree \cup {c}
      /\ \A i, j \in 1..Len(free') : free'[i] = free'[j] => i = j
  BY <1>1, <1>2, PushFree
<1> QED BY <1>1, <1>2, <1>3 DEF PoolPartition

\* free_conn by the recycler, of a member of the recovery set.
LEMMA RecyPartition ==
    ASSUME BaseInv, PoolPartition, NEW c \in recy, FreeConn(c), recy' = recy \ {c}
    PROVE  PoolPartition' /\ sess[c] = None /\ c \in Conn
<1>1. c \in conns /\ c \notin InFree /\ c \in Conn /\ sess[c] = None
  BY DEF PoolPartition, BaseInv, TypeOK
<1>2. /\ free' = Append(free, c) /\ conns' = conns
      /\ sess' = [sess EXCEPT ![c] = None] /\ sess \in [Conn -> Client \cup {None}]
      /\ conns \subseteq Conn
  BY DEF FreeConn, PutOneToFree, BaseInv, TypeOK
<1>3. /\ InFree' = InFree \cup {c}
      /\ \A i, j \in 1..Len(free') : free'[i] = free'[j] => i = j
  BY <1>1, <1>2, PushFree
<1> QED BY <1>1, <1>2, <1>3 DEF PoolPartition

\* insert_recy_conn_queue by the event loop, of the connection it serves.
LEMMA InsertPartition ==
    ASSUME BaseInv, PoolPartition, NEW c \in Conn, sess[c] # None, InsertRecy(c),
           UNCHANGED <<free, conns>>
    PROVE  /\ PoolPartition'
           /\ seq' = [seq EXCEPT ![c] = seq[c] + 1]
           /\ sess' = [sess EXCEPT ![c] = None]
           /\ UNCHANGED <<fd, inst>>
<1>1. c \in conns /\ c \notin InFree /\ c \notin recy
  BY DEF PoolPartition
<1>2. /\ recy' = recy \cup {c} /\ seq' = [seq EXCEPT ![c] = seq[c] + 1]
      /\ sess' = [sess EXCEPT ![c] = None] /\ sess \in [Conn -> Client \cup {None}]
      /\ conns \subseteq Conn /\ UNCHANGED <<fd, inst>>
  BY <1>1 DEF InsertRecy, BaseInv, TypeOK
<1>3. InFree' = InFree
  BY DEF InFree
<1>4. PoolPartition'
  BY <1>1, <1>2, <1>3 DEF PoolPartition
<1> QED BY <1>2, <1>4

-----------------------------------------------------------------------------
(* The steps. *)

LEMMA InitOwn == Init /\ ~Heartbeat => OwnInv
<1> SUFFICES ASSUME Init, ~Heartbeat PROVE OwnInv
    OBVIOUS
<1>1. Cardinality(Pool) \in Nat
  BY PoolAssumption, FS_CardinalityType
<1>2. Len(free) = Cardinality(Pool) /\ (\A i, j \in 1..Len(free) : free[i] = free[j] => i = j)
      /\ InFree \subseteq Pool
  BY <1>1 DEF Init, InFree
<1>3. Pool \subseteq InFree
  <2> DEFINE N == Cardinality(Pool)
  <2>1. free \in [1..N -> Pool] /\ \A i, j \in 1..N : free[i] = free[j] => i = j
    BY DEF Init
  <2>2. free \in Injection(1..N, Pool)
    BY <2>1, Fun_IsInj
  <2>3. Cardinality(1..N) = N
    BY <1>1, FS_Interval
  <2>4. free \in Surjection(1..N, Pool)
    BY <2>2, <2>3, PoolAssumption, FS_Injection
  <2> QED BY <1>2, <2>4 DEF Surjection, InFree
<1>4. PoolPartition
  BY <1>2, <1>3, PoolAssumption DEF Init, PoolPartition
<1>5. Serving = {}
  BY DEF Init, Serving
<1> QED
  BY <1>4, <1>5, NoneAssumption DEF Init, OwnInv, Quiet, Held, NewPeers, Accepted, Assigned,
       FdOwnership, InterestServes, BatchServes, StampsOld, StampOwner, HoldPcs

LEMMA StepOwn == BaseInv /\ OwnInv /\ [Next]_vars => OwnInv'
<1> SUFFICES ASSUME BaseInv, OwnInv, [Next]_vars PROVE OwnInv'
    OBVIOUS
<1> USE NoneAssumption
<1>a. TypeOK /\ Places /\ Iterator /\ CountersMatch
  BY DEF BaseInv
<1>b. Quiet /\ PoolPartition /\ Held /\ BatchServes /\ StampsOld /\ StampOwner
  BY DEF OwnInv
<1>1. CASE UNCHANGED vars
  BY <1>1, IdleStep DEF vars, freeq, attrs, main, tmr
<1>2. CASE EpollWait
  <2>1. Held' /\ mpc = "wait" /\ mpc' = "dispatch"
    BY <1>2 DEF EpollWait, Held, HoldPcs
  <2>2. BatchServes'
    <3> SUFFICES ASSUME NEW e \in batch' PROVE sess[e[1]] # None /\ inst[e[1]] = e[2]
      BY <1>2 DEF BatchServes, EpollWait, attrs, HoldPcs
    <3>1. PICK f \in Fd : interest[f] # None /\ e = interest[f]
      BY <1>2 DEF EpollWait
    <3> QED BY <3>1 DEF OwnInv, InterestServes, Serving
  <2>3. StampsOld' /\ StampOwner'
    BY <1>2, <1>b, StampsSame DEF EpollWait, kernel, attrs
  <2> QED BY <1>2, <2>1, <2>2, <2>3, MoveStep DEF EpollWait, recyq, tmr
<1>3. CASE EndOfBatch
  <2>1. Held' /\ BatchServes' /\ mpc = "dispatch" /\ mpc' = "wait"
    BY <1>3, <1>b DEF EndOfBatch, Held, HoldPcs, BatchServes
  <2>2. StampsOld' /\ StampOwner'
    BY <1>3, <1>b, StampsSame DEF EndOfBatch, kernel, attrs
  <2> QED BY <1>3, <2>1, <2>2, MoveStep DEF EndOfBatch, recyq, tmr
<1>4. ASSUME NEW e \in batch, Dispatch(e) PROVE OwnInv'
  <2>1. sess[e[1]] # None /\ inst[e[1]] = e[2] /\ e \in Conn \X {0, 1}
    BY <1>a, <1>b DEF BatchServes, TypeOK
  <2>2. \A d \in batch \ {e} : d[1] # e[1]
    <3> SUFFICES ASSUME NEW d \in batch, d[1] = e[1] PROVE d = e
        OBVIOUS
    <3>1. inst[d[1]] = d[2] /\ d \in Conn \X {0, 1}
      BY <1>a, <1>b DEF BatchServes, TypeOK
    <3> QED BY <2>1, <3>1
  <2>3. /\ mpc = "dispatch" /\ mpc' \in {"dispatch", "recv"} /\ batch' = batch \ {e}
        /\ mpc' = "recv" => mc' = e[1]
        /\ UNCHANGED <<kernel, freeq, attrs, recyq, it, tmr, stamps>>
    BY <1>4 DEF Dispatch, main
  <2>4. Held'
    BY <2>1, <2>3 DEF Held, HoldPcs, attrs
  <2>5. BatchServes'
    BY <1>b, <2>2, <2>3 DEF BatchServes, HoldPcs, attrs
  <2>6. StampsOld' /\ StampOwner'
    BY <2>3, <1>b, StampsSame DEF kernel, attrs
  <2> QED BY <2>3, <2>4, <2>5, <2>6, MoveStep DEF recyq, tmr
<1>5. CASE RecvData
  <2>1. mc \in Conn /\ mc \in Serving /\ sess[mc] # None
    BY <1>5, <1>a, <1>b DEF RecvData, Places, Held, HoldPcs, Serving
  <2>2. fd[mc] # None /\ fdtab[fd[mc]] = sess[mc]
    BY <2>1 DEF OwnInv, FdOwnership
  <2>3. stamps' \subseteq stamps \cup {<<mc, seq[mc], sess[mc]>>}
    BY <1>5, <2>2 DEF RecvData
  <2>4. seq[mc] \in Nat /\ UNCHANGED <<fdtab, fd, seq, sess, inst, batch>>
    BY <1>5, <1>a, <2>1 DEF RecvData, kernel, attrs, TypeOK
  <2>5. StampsOld'
    BY <1>b, <2>3, <2>4 DEF StampsOld
  <2>6. StampOwner'
    BY <1>b, <2>1, <2>2, <2>3, <2>4 DEF StampOwner
  <2>7. mpc = "recv" /\ mpc' = "dispatch"
    BY <1>5 DEF RecvData
  <2>8. Held' /\ BatchServes'
    BY <1>b, <2>4, <2>7 DEF Held, BatchServes, HoldPcs
  <2> QED BY <1>5, <2>5, <2>6, <2>7, <2>8, MoveStep DEF RecvData, recyq, tmr
<1>6. CASE RecvFin
  <2>1. mpc = "recv" /\ mpc' = "close_recy" /\ mc' = mc /\ UNCHANGED <<batch, sess, inst>>
    BY <1>6 DEF RecvFin, attrs
  <2>2. Held' /\ BatchServes'
    BY <2>1, <1>b DEF Held, BatchServes, HoldPcs
  <2>3. StampsOld' /\ StampOwner'
    BY <1>6, <1>b, StampsSame DEF RecvFin, kernel, attrs
  <2>4. timers' = timers
    BY <1>6, <1>b DEF RecvFin, DeleteTimer, Quiet
  <2> QED BY <1>6, <2>1, <2>2, <2>3, <2>4, MoveStep DEF RecvFin, recyq
<1>7. CASE RecvError
  <2>1. mpc = "recv" /\ mpc' = "close" /\ mc' = mc /\ UNCHANGED <<batch, sess, inst>>
    BY <1>7 DEF RecvError, attrs
  <2>2. Held' /\ BatchServes'
    BY <2>1, <1>b DEF Held, BatchServes, HoldPcs
  <2>3. StampsOld' /\ StampOwner'
    BY <1>7, <1>b, StampsSame DEF RecvError, kernel, attrs
  <2> QED BY <1>7, <2>1, <2>2, <2>3, MoveStep DEF RecvError, recyq, tmr
<1>8. CASE CloseForRecy
  BY <1>8, CloseStep DEF CloseForRecy
<1>9. CASE MainInsertRecy
  <2>1. mc \in Conn /\ sess[mc] # None
    BY <1>9, <1>a, <1>b DEF MainInsertRecy, Places, Held, HoldPcs
  <2>2. /\ PoolPartition'
        /\ seq' = [seq EXCEPT ![mc] = seq[mc] + 1]
        /\ sess' = [sess EXCEPT ![mc] = None]
        /\ UNCHANGED <<fd, inst>>
    BY <1>9, <1>b, <2>1, InsertPartition DEF MainInsertRecy, freeq
  <2> QED BY <1>9, <2>1, <2>2, ReturnStep DEF MainInsertRecy
<1>10. CASE CloseConn
  BY <1>10, CloseStep DEF CloseConn
<1>11. CASE MainFreeConn
  <2>1. mc \in Conn /\ sess[mc] # None
    BY <1>11, <1>a, <1>b DEF MainFreeConn, Places, Held, HoldPcs
  <2>2. PoolPartition'
    BY <1>11, <1>b, <2>1, FreePartition DEF MainFreeConn, recyq
  <2>3. /\ seq' = [seq EXCEPT ![mc] = seq[mc] + 1]
        /\ sess' = [sess EXCEPT ![mc] = None]
        /\ fd' = [fd EXCEPT ![mc] = None]
        /\ inst' = inst
    BY <1>11 DEF MainFreeConn, FreeConn, PutOneToFree
  <2>4. \A d \in Conn : d # mc => fd'[d] = fd[d]
    BY <2>3, <1>a DEF TypeOK
  <2> QED BY <1>11, <2>1, <2>2, <2>3, <2>4, ReturnStep DEF MainFreeConn
<1>12. ASSUME NEW k \in Client, Accept(k) PROVE OwnInv'
  <2>1. PICK f \in Fd : fdtab[f] = None /\ fdtab' = [fdtab EXCEPT ![f] = k] /\ mfd' = f
    BY <1>12 DEF Accept
  <2>2. /\ mpc = "dispatch" /\ mpc' = "get" /\ peer[k] = "new"
        /\ peer' = [peer EXCEPT ![k] = "live"]
        /\ UNCHANGED <<interest, freeq, attrs, recyq, it, batch, mc, tmr, stamps>>
    BY <1>12 DEF Accept
  <2>3. /\ fdtab'[f] = k /\ \A g \in Fd : g # f => fdtab'[g] = fdtab[g]
        /\ peer'[k] = "live" /\ \A j \in Client : j # k => peer'[j] = peer[j]
    BY <1>a, <2>1, <2>2 DEF TypeOK
  <2>4. Serving' = Serving
    BY <2>2, ServingSame DEF attrs
  <2>5. (\A c \in Conn : sess[c] # k) /\ (\A g \in Fd : fdtab[g] # k)
    BY <2>2 DEF OwnInv, NewPeers
  <2>6. \A c \in Conn : sess[c] # None => /\ fd[c] \in Fd /\ fd[c] # f
                                          /\ fdtab'[fd[c]] = fdtab[fd[c]]
    <3> SUFFICES ASSUME NEW c \in Conn, sess[c] # None
                 PROVE  fd[c] \in Fd /\ fd[c] # f /\ fdtab'[fd[c]] = fdtab[fd[c]]
        OBVIOUS
    <3>1. c \in Serving
      BY <2>2 DEF Serving
    <3>2. fd[c] # None /\ fdtab[fd[c]] # None
      BY <3>1 DEF OwnInv, FdOwnership
    <3>3. fd[c] \in Fd
      BY <3>2, <1>a DEF TypeOK
    <3> QED BY <2>1, <2>3, <3>2, <3>3
  <2>7. Quiet' /\ PoolPartition' /\ Held' /\ Assigned' /\ Accepted' /\ BatchServes'
    <3>1. Quiet' /\ Held' /\ Assigned'
      BY <1>b, <2>2 DEF Quiet, tmr, Held, Assigned, HoldPcs
    <3>2. PoolPartition'
      BY <1>b, <2>2, PartitionSame DEF freeq, attrs, recyq
    <3>3. Accepted'
      BY <2>1, <2>2, <2>3, <2>5 DEF Accepted, attrs
    <3>4. BatchServes'
      BY <1>b, <2>2 DEF BatchServes, HoldPcs, attrs
    <3> QED BY <3>1, <3>2, <3>3, <3>4
  <2>8. NewPeers'
    <3> SUFFICES ASSUME NEW j \in Client, peer'[j] = "new"
                 PROVE  (\A g \in Fd : fdtab'[g] # j) /\ (\A c \in Conn : sess'[c] # j)
      BY DEF NewPeers
    <3>1. j # k /\ peer[j] = "new"
      BY <2>3
    <3>2. (\A g \in Fd : fdtab[g] # j) /\ (\A c \in Conn : sess[c] # j)
      BY <3>1 DEF OwnInv, NewPeers
    <3> QED BY <2>2, <2>3, <3>1, <3>2 DEF attrs
  <2>9. FdOwnership'
    <3>1. \A c \in Serving : c \in Conn /\ sess[c] # None
      BY DEF Serving
    <3>2. UNCHANGED <<fd, sess>>
      BY <2>2 DEF attrs
    <3>3. \A c \in Serving' : fd'[c] # None /\ fdtab'[fd'[c]] = sess'[c]
      BY <2>4, <2>6, <3>1, <3>2 DEF OwnInv, FdOwnership
    <3>4. \A c, d \in Serving' : sess'[c] = sess'[d] => c = d
      BY <2>4, <3>2 DEF OwnInv, FdOwnership
    <3>5. \A g \in Fd : fdtab'[g] # None =>
              (mpc' = "get" /\ mfd' = g) \/ \E c \in Serving' : fd'[c] = g
      BY <2>1, <2>2, <2>3, <2>4, <3>2 DEF OwnInv, FdOwnership
    <3> QED BY <3>3, <3>4, <3>5 DEF FdOwnership
  <2>10. InterestServes'
    BY <2>2, <2>4, InterestSame DEF OwnInv, attrs
  <2>11. StampsOld' /\ StampOwner'
    <3>1. UNCHANGED <<stamps, seq, sess, fd>>
      BY <2>2 DEF attrs
    <3>2. StampsOld'
      BY <1>b, <3>1 DEF StampsOld
    <3>3. StampOwner'
      <4> SUFFICES ASSUME NEW m \in stamps, seq[m[1]] = m[2]
                   PROVE  /\ sess[m[1]] = m[3] /\ fd[m[1]] # None
                          /\ fdtab'[fd[m[1]]] \in {m[3], None}
        BY <3>1 DEF StampOwner
      <4>1. /\ sess[m[1]] = m[3] /\ fd[m[1]] # None
            /\ fdtab[fd[m[1]]] \in {m[3], None}
        BY <1>b DEF StampOwner
      <4>2. m[1] \in Conn /\ m[3] # None
        BY <1>a DEF TypeOK
      <4> QED BY <2>6, <4>1, <4>2
    <3> QED BY <3>2, <3>3
  <2> QED BY <2>7, <2>8, <2>9, <2>10, <2>11 DEF OwnInv
<1>13. CASE GetPooled
  <2> DEFINE c == Head(free)
  <2>1. free # <<>> /\ c \in Conn /\ mfd \in Fd /\ fdtab[mfd] # None
    BY <1>13, <1>a DEF GetPooled, CountersMatch, TypeOK, Places, OwnInv, Accepted
  <2>2. /\ free' = Tail(free) /\ conns' = conns /\ recy' = recy
        /\ sess' = [sess EXCEPT ![c] = fdtab[mfd]]
        /\ inst' = [inst EXCEPT ![c] = 1 - inst[c]]
    BY <1>13, GetPooledEqs DEF recyq
  <2>3. /\ c \in InFree /\ InFree' = InFree \ {c}
        /\ \A i, j \in 1..Len(free') : free'[i] = free'[j] => i = j
    BY <1>b, <2>1, <2>2, PopFree
  <2> HIDE DEF c
  <2>4. sess[c] = None /\ c \in conns /\ c \notin recy
    BY <1>b, <2>1, <2>3 DEF PoolPartition
  <2>5. /\ sess'[c] # None /\ \A d \in Conn : d # c => sess'[d] = sess[d] /\ inst'[d] = inst[d]
        /\ conns \subseteq Conn
    BY <1>a, <2>1, <2>2 DEF TypeOK
  <2>6. PoolPartition'
    BY <1>b, <2>1, <2>2, <2>3, <2>4, <2>5 DEF PoolPartition
  <2>7. /\ mpc = "get" /\ mpc' = "add" /\ mc' = c
        /\ fd' = [fd EXCEPT ![c] = mfd]
        /\ seq' = [seq EXCEPT ![c] = seq[c] + 1]
        /\ UNCHANGED <<kernel, batch, mfd, tmr, stamps>>
    BY <1>13, GetPooledEqs DEF c
  <2> QED BY <2>1, <2>2, <2>4, <2>5, <2>6, <2>7, TakeStep
<1>14. ASSUME NEW c \in Conn, GetNew(c) PROVE OwnInv'
  <2>1. mfd \in Fd /\ fdtab[mfd] # None
    BY <1>14, <1>a DEF GetNew, Places, OwnInv, Accepted
  <2>2. c \notin conns /\ sess[c] = None /\ c \notin InFree /\ c \notin recy
    BY <1>14, <1>b DEF GetNew, PoolPartition
  <2>3. /\ conns' = conns \cup {c} /\ sess' = [sess EXCEPT ![c] = fdtab[mfd]]
        /\ UNCHANGED <<free, recy, inst>>
    BY <1>14 DEF GetNew, recyq
  <2>4. InFree' = InFree
    BY <2>3 DEF InFree
  <2>5. /\ sess'[c] # None /\ \A d \in Conn : d # c => sess'[d] = sess[d]
        /\ conns \subseteq Conn
    BY <1>a, <2>1, <2>3 DEF TypeOK
  <2>6. PoolPartition'
    BY <1>b, <2>2, <2>3, <2>4, <2>5 DEF PoolPartition
  <2> QED BY <1>14, <2>2, <2>3, <2>6, TakeStep DEF GetNew
<1>15. CASE Register
  <2>1. mc \in Conn /\ mfd \in Fd /\ sess[mc] # None /\ fd[mc] = mfd /\ mc \in Serving
    BY <1>15, <1>a, <1>b DEF Register, Places, HoldPcs, Held, OwnInv, Assigned, Serving
  <2>2. /\ mpc = "add" /\ mpc' = "dispatch" /\ timers' = timers
        /\ interest' = [interest EXCEPT ![mfd] = <<mc, inst[mc]>>]
        /\ UNCHANGED <<fdtab, peer, free, conns, fd, seq, inst, sess, recy, batch, tpc, stamps>>
    BY <1>15, <1>b DEF Register, Quiet, freeq, attrs, recyq
  <2>3. Serving' = Serving
    BY <2>2, ServingSame
  <2>4. InterestServes'
    <3> SUFFICES ASSUME NEW f \in Fd, interest'[f] # None
                 PROVE  /\ interest'[f][1] \in Serving
                        /\ fd[interest'[f][1]] = f
                        /\ inst[interest'[f][1]] = interest'[f][2]
      BY <2>2, <2>3 DEF InterestServes
    <3>1. CASE f = mfd
      <4>1. interest'[f] = <<mc, inst[mc]>>
        BY <3>1, <2>1, <2>2, <1>a DEF TypeOK
      <4> QED BY <3>1, <4>1, <2>1
    <3>2. CASE f # mfd
      <4>1. interest'[f] = interest[f]
        BY <3>2, <2>2, <1>a DEF TypeOK
      <4> QED BY <4>1 DEF OwnInv, InterestServes
    <3> QED BY <3>1, <3>2
  <2>5. Quiet' /\ Held' /\ Accepted' /\ Assigned' /\ BatchServes'
    BY <1>b, <2>2 DEF Quiet, Held, Accepted, Assigned, BatchServes, HoldPcs
  <2>6. PoolPartition'
    BY <1>b, <2>2, PartitionSame
  <2>7. NewPeers'
    BY <2>2, PeersSame DEF OwnInv
  <2>8. FdOwnership'
    BY <2>2, <2>3, OwnershipSame DEF OwnInv
  <2>9. StampsOld' /\ StampOwner'
    BY <1>b, <2>2, StampsSame
  <2> QED BY <2>4, <2>5, <2>6, <2>7, <2>8, <2>9 DEF OwnInv
<1>16. CASE RegisterFails
  <2>1. mpc = "add" /\ mpc' = "close" /\ mc' = mc /\ UNCHANGED <<batch, sess, inst>>
    BY <1>16 DEF RegisterFails, attrs
  <2>2. Held' /\ BatchServes'
    BY <2>1, <1>b DEF Held, BatchServes, HoldPcs
  <2>3. StampsOld' /\ StampOwner'
    BY <1>16, <1>b, StampsSame DEF RegisterFails, kernel, attrs
  <2> QED BY <1>16, <2>1, <2>2, <2>3, MoveStep DEF RegisterFails, recyq, tmr
<1>17. CASE RecyBegin
  BY <1>17, IdleStep DEF RecyBegin, kernel, recyq
<1>18. CASE RecyOne
  <2>1. it \in recy /\ FreeConn(it) /\ recy' = recy \ {it}
    BY <1>18, <1>a DEF RecyOne, Iterator
  <2>2. PoolPartition' /\ sess[it] = None /\ it \in Conn
    BY <1>b, <2>1, RecyPartition
  <2>3. /\ seq' = [seq EXCEPT ![it] = seq[it] + 1]
        /\ sess' = [sess EXCEPT ![it] = None]
        /\ fd' = [fd EXCEPT ![it] = None]
        /\ inst' = inst
    BY <2>1 DEF FreeConn, PutOneToFree
  <2>4. \A d \in Conn : d # it => fd'[d] = fd[d]
    BY <2>3, <1>a DEF TypeOK
  <2>5. UNCHANGED <<kernel, inst, batch, mpc, mc, mfd, tmr, stamps>>
    BY <1>18, <2>3 DEF RecyOne, main
  <2> QED BY <2>2, <2>3, <2>4, <2>5, ReturnStep
<1>19. ASSUME NEW e \in timers, TimerExpires(e) PROVE OwnInv'
  BY <1>19, <1>b DEF TimerExpires, Quiet
<1>20. CASE TimerClose
  BY <1>20, <1>b DEF TimerClose, Quiet
<1>21. CASE TimerInsertRecy
  BY <1>21, <1>b DEF TimerInsertRecy, Quiet
<1>22. ASSUME NEW k \in Client, PeerLeaves(k) PROVE OwnInv'
  <2>1. \A j \in Client : peer'[j] = "new" => peer[j] = "new"
    BY <1>22, <1>a DEF PeerLeaves, TypeOK
  <2> QED BY <1>22, <2>1, IdleStep DEF PeerLeaves, recyq
<1>23. CASE Tick
  BY <1>23, IdleStep DEF Tick, kernel
<1> QED
  BY <1>1, <1>2, <1>3, <1>4, <1>5, <1>6, <1>7, <1>8, <1>9, <1>10, <1>11, <1>12, <1>13,
     <1>14, <1>15, <1>16, <1>17, <1>18, <1>19, <1>20, <1>21, <1>22, <1>23
     DEF Next, MainStep, RecyStep, TimerStep

LEMMA OwnCorrect == Spec /\ ~Heartbeat => [](BaseInv /\ OwnInv)
BY InitBase, StepBase, InitOwn, StepOwn, PTL DEF Spec

\* Without heartbeats, an object of the pool is always in exactly one of the free
\* queue, the recovery set and the hands of one peer, whatever the event loop and
\* the recycler interleave: no object is handed out twice and none is lost.
THEOREM PartitionCorrect == Spec /\ ~Heartbeat => []PoolPartition
<1>1. OwnInv => PoolPartition
  BY DEF OwnInv
<1> QED BY <1>1, OwnCorrect, PTL

\* Without heartbeats, a serving connection has the open descriptor of its own peer,
\* no peer is served twice and every open descriptor has its connection.
THEOREM OwnershipCorrect == Spec /\ ~Heartbeat => []FdOwnership
<1>1. OwnInv => FdOwnership
  BY DEF OwnInv
<1> QED BY <1>1, OwnCorrect, PTL

\* Without heartbeats, recv_process reads from the descriptor of the peer the
\* connection was taken for, although the event may have waited in the batch while
\* others were closed and their descriptors reused.
THEOREM ReadsCorrect == Spec /\ ~Heartbeat => []ReadsOwnPeer
<1>1. BaseInv /\ OwnInv => ReadsOwnPeer
  <2> SUFFICES ASSUME BaseInv, OwnInv, mpc = "recv"
               PROVE  sess[mc] # None /\ fd[mc] # None /\ fdtab[fd[mc]] = sess[mc]
    BY DEF ReadsOwnPeer
  <2>1. mc \in Serving /\ sess[mc] # None
    BY DEF BaseInv, Places, OwnInv, Held, HoldPcs, Serving
  <2> QED BY <2>1 DEF OwnInv, FdOwnership
<1> QED BY <1>1, OwnCorrect, PTL

\* Without heartbeats, a reply whose stamp passes the sequence test goes to the peer
\* that sent the request, or to a closed descriptor, however often the object has
\* been recycled in between.
THEOREM StampCorrect == Spec /\ ~Heartbeat => []StampOwner
<1>1. OwnInv => StampOwner
  BY DEF OwnInv
<1> QED BY <1>1, OwnCorrect, PTL
=============================================================================
