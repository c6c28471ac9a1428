------------------------ MODULE MgxSendQueue_proofs ------------------------
(***************************************************************************)
(* Theorems about the send queue, for any connections and replies, and any *)
(* number of short sends, errors and closings.                             *)
(***************************************************************************)
EXTENDS MgxSendQueue, FiniteSetTheorems, TLAPS

\* What the proof needs of the types: the connection that either thread works on
\* is one, and the iterator of the send thread is inside the list or behind it.
Types ==
    /\ list \in Seq(Msg)
    /\ open \in [Conn -> BOOLEAN]
    /\ throw \in [Conn -> Nat]
    /\ epollout \in [Conn -> BOOLEAN]
    /\ it \in Nat
    /\ spc \in {"scan", "send", "book", "null"} => it > 0
    /\ spc \in {"send", "book", "null"} => sc \in Conn
    /\ mpc # "idle" => mc \in Conn

\* The handler that is called after r_handler has closed the connection finds it
\* closed: only the event loop, which is in the handler, opens it again.
EventIsClosed == mpc = "event" => ~open[mc]

IInv == Types /\ EventIsClosed /\ UnfinishedIsArmed

\* The rest of the types; the list is counted, and no rest is longer than a package.
TypeInv ==
    /\ TypeOK
    /\ cnt = Len(list)
    /\ \A c \in Conn : rest[c] <= PkgSize

Busy == spc \in {"send", "book", "null"}

\* While no send was short, nobody waits for EPOLLOUT and the event loop stays out
\* of it; the send thread takes replies from the front of the list, and does not
\* wait over a reply without a post.
SmoothNow ==
    /\ \A c \in Conn : throw[c] = 0 /\ ~epollout[c]
    /\ mpc = "idle"
    /\ spc = "scan" \/ Busy => it = 1
    /\ spc \in {"send", "book"} => rest[sc] = PkgSize /\ pbuf[sc][1] # None
    /\ spc = "book" => sres \in {PkgSize, -2}
    /\ spc = "wait" /\ sem = 0 => list = <<>>

Smooth == partials = 0 => SmoothNow

\* When no connection was closed either, every buffer is where it belongs: the
\* listed ones are live and listed once, and at most one is being sent, of the
\* connection the send thread works on.
CleanNow ==
    /\ \A c \in Conn : open[c] /\ seq[c] = 1
    /\ \A m \in Msg : buf[m] # "new" => stamp[m] = 1
    /\ \A m \in Msg : buf[m] # "twice"
    /\ ~wild
    /\ \A i, j \in 1..Len(list) : list[i] = list[j] => i = j
    /\ \A c \in Conn : mem[c] # None => Busy /\ c = sc
    /\ Busy => /\ mem[sc] \in Msg /\ ConnOf[mem[sc]] = sc
               /\ \A i \in 1..Len(list) : list[i] # mem[sc]
               /\ buf[mem[sc]] = IF spc = "null" THEN "freed" ELSE "live"
    /\ spc = "send" => pbuf[sc] = <<mem[sc], 1>>
    /\ spc = "book" => sres = PkgSize
    /\ \A i \in 1..Len(list) : buf[list[i]] = "live"
    /\ \A m \in Msg : buf[m] = "live" =>
          m = mem[ConnOf[m]] \/ \E i \in 1..Len(list) : list[i] = m

Clean == Undisturbed => CleanNow

\* How many replies have left the list, and how many of them are on the wire.
Taken == Len(order) - Len(list)
Sent == IF spc = "send" THEN Taken - 1 ELSE Taken

\* The list is the end of the order of send_msg, the reply being sent is the one
\* before it, and every reply sent has put its package on the wire.
FifoNow ==
    /\ Sent \in Nat
    /\ \A i \in 1..Len(list) : list[i] = order[Taken + i]
    /\ spc = "send" => mem[sc] = order[Taken]
    /\ \A c \in Conn : Len(wire[c]) = PkgSize * Count(c, Sent)
    /\ WireIsFifo

Fifo == Undisturbed => FifoNow

-----------------------------------------------------------------------------
LEMMA RemoveType ==
    ASSUME NEW S, NEW s \in Seq(S), NEW i \in 1..Len(s)
    PROVE  Remove(s, i) \in Seq(S)
<1>1. SubSeq(s, 1, i - 1) \in Seq(S) OBVIOUS
<1>2. SubSeq(s, i + 1, Len(s)) \in Seq(S) OBVIOUS
<1> QED BY <1>1, <1>2 DEF Remove

LEMMA InitIInv == Init => IInv
BY DEF Init, IInv, Types, EventIsClosed, UnfinishedIsArmed

\* Steps that leave alone what the invariant is about, except for the list, the
\* iterator and the place of the send thread.
LEMMA OtherSteps ==
    ASSUME IInv,
           UNCHANGED <<open, throw, epollout, mpc, mc>>,
           list' \in Seq(Msg), it' \in Nat,
           spc' \in {"scan", "send", "book", "null"} => it' > 0,
           spc' \in {"send", "book", "null"} => sc' \in Conn
    PROVE  IInv'
BY DEF IInv, Types, EventIsClosed, UnfinishedIsArmed

LEMMA StepIInv == IInv /\ [Next]_vars => IInv'
<1> SUFFICES ASSUME IInv, [Next]_vars PROVE IInv'
    OBVIOUS
<1> USE ConnOfAssumption
<1>1. CASE UNCHANGED vars
  BY <1>1, OtherSteps DEF vars, IInv, Types
<1>2. ASSUME NEW m \in Msg, Receive(m) PROVE IInv'
  BY <1>2, OtherSteps DEF Receive, queue, connv, sender, loop, hist, IInv, Types
<1>3. ASSUME NEW m \in Msg, SendMsg(m) PROVE IInv'
  <2>1. list' \in Seq(Msg)
    BY <1>3 DEF SendMsg, IInv, Types
  <2> QED BY <1>3, <2>1, OtherSteps DEF SendMsg, connv, sender, loop, IInv, Types
<1>4. CASE SemWait
  BY <1>4, OtherSteps DEF SemWait, connv, loop, hist, IInv, Types
<1>5. CASE SemWaitInterrupted
  BY <1>5, OtherSteps DEF SemWaitInterrupted, queue, connv, loop, hist, IInv, Types
<1>6. CASE ScanEnd
  BY <1>6, OtherSteps DEF ScanEnd, queue, connv, loop, hist, IInv, Types
<1>7. CASE PickStale
  <2>1. it \in 1..Len(list)
    BY <1>7 DEF PickStale, IInv, Types
  <2>2. list' \in Seq(Msg)
    BY <1>7, <2>1, RemoveType DEF PickStale, IInv, Types
  <2> QED BY <1>7, <2>2, OtherSteps DEF PickStale, connv, sender, loop, IInv, Types
<1>8. CASE Crash
  BY <1>8, OtherSteps DEF Crash, queue, connv, loop, hist, IInv, Types
<1>9. CASE PickBusy
  BY <1>9, OtherSteps DEF PickBusy, queue, connv, loop, hist, IInv, Types
<1>10. CASE PickReply
  <2>1. it \in 1..Len(list)
    BY <1>10 DEF PickReply, IInv, Types
  <2>2. list' \in Seq(Msg)
    BY <1>10, <2>1, RemoveType DEF PickReply, IInv, Types
  <2>3. sc' \in Conn
    <3>1. list[it] \in Msg
      BY <2>1 DEF IInv, Types
    <3> QED BY <1>10, <3>1 DEF PickReply
  <2> QED BY <1>10, <2>2, <2>3, OtherSteps DEF PickReply, loop, hist, IInv, Types
<1>11. CASE Send
  BY <1>11, OtherSteps DEF Send, queue, connv, loop, IInv, Types
<1>12. CASE BookDone
  BY <1>12 DEF BookDone, queue, loop, IInv, Types, EventIsClosed, UnfinishedIsArmed
<1>13. CASE BookNull
  BY <1>13, OtherSteps DEF BookNull, queue, loop, hist, IInv, Types
<1>14. CASE BookRest
  BY <1>14 DEF BookRest, EpollOperEvent, queue, loop, IInv, Types, EventIsClosed, UnfinishedIsArmed
<1>15. ASSUME NEW c \in Conn, HandlerSend(c) PROVE IInv'
  BY <1>15 DEF HandlerSend, queue, connv, sender, IInv, Types, EventIsClosed, UnfinishedIsArmed
<1>16. CASE HandlerRest
  BY <1>16 DEF HandlerRest, queue, sender, IInv, Types, EventIsClosed, UnfinishedIsArmed
<1>17. CASE HandlerRemove
  BY <1>17 DEF HandlerRemove, EpollOperEvent, queue, connv, sender, IInv, Types, EventIsClosed, UnfinishedIsArmed
<1>18. CASE HandlerPost
  BY <1>18 DEF HandlerPost, connv, sender, IInv, Types, EventIsClosed, UnfinishedIsArmed
<1>19. CASE HandlerClear
  BY <1>19 DEF HandlerClear, queue, sender, IInv, Types, EventIsClosed, UnfinishedIsArmed
<1>20. CASE HandlerDelete
  BY <1>20 DEF HandlerDelete, queue, connv, sender, IInv, Types, EventIsClosed, UnfinishedIsArmed
<1>21. CASE HandlerNull
  BY <1>21 DEF HandlerNull, queue, sender, IInv, Types, EventIsClosed, UnfinishedIsArmed
<1>22. ASSUME NEW c \in Conn, CloseConn(c) PROVE IInv'
  BY <1>22 DEF CloseConn, queue, sender, IInv, Types, EventIsClosed, UnfinishedIsArmed
<1>23. ASSUME NEW c \in Conn, Reuse(c) PROVE IInv'
  BY <1>23 DEF Reuse, queue, sender, loop, IInv, Types, EventIsClosed, UnfinishedIsArmed
<1> QED
  BY <1>1, <1>2, <1>3, <1>4, <1>5, <1>6, <1>7, <1>8, <1>9, <1>10, <1>11, <1>12, <1>13,
     <1>14, <1>15, <1>16, <1>17, <1>18, <1>19, <1>20, <1>21, <1>22, <1>23
     DEF Next, SenderStep, LoopStep

\* However sends are cut short and connections closed and reused, a connection
\* whose replies are passed over is armed for EPOLLOUT or being finished.
THEOREM ArmedCorrect == Spec => []UnfinishedIsArmed
<1>1. IInv => UnfinishedIsArmed
  BY DEF IInv
<1> QED BY <1>1, InitIInv, StepIInv, PTL DEF Spec

-----------------------------------------------------------------------------
(* The types. *)

LEMMA RemoveFacts ==
    ASSUME NEW S, NEW s \in Seq(S), NEW i \in 1..Len(s)
    PROVE  /\ Remove(s, i) \in Seq(S)
           /\ Len(Remove(s, i)) = Len(s) - 1
           /\ \A j \in 1..(Len(s) - 1) : Remove(s, i)[j] = IF j < i THEN s[j] ELSE s[j + 1]
<1>1. SubSeq(s, 1, i - 1) \in Seq(S) /\ Len(SubSeq(s, 1, i - 1)) = i - 1
      /\ \A j \in 1..(i - 1) : SubSeq(s, 1, i - 1)[j] = s[j]
  OBVIOUS
<1>2. SubSeq(s, i + 1, Len(s)) \in Seq(S) /\ Len(SubSeq(s, i + 1, Len(s))) = Len(s) - i
      /\ \A j \in 1..(Len(s) - i) : SubSeq(s, i + 1, Len(s))[j] = s[j + i]
  OBVIOUS
<1> DEFINE a == SubSeq(s, 1, i - 1)
           b == SubSeq(s, i + 1, Len(s))
<1>3. /\ Remove(s, i) = a \o b
      /\ a \in Seq(S) /\ Len(a) = i - 1 /\ \A j \in 1..(i - 1) : a[j] = s[j]
      /\ b \in Seq(S) /\ Len(b) = Len(s) - i /\ \A j \in 1..(Len(s) - i) : b[j] = s[j + i]
  BY <1>1, <1>2 DEF Remove
<1>4. Len(s) \in Nat /\ i \in 1..Len(s)
  OBVIOUS
<1> HIDE DEF a, b
<1>5. /\ Remove(s, i) \in Seq(S) /\ Len(Remove(s, i)) = (i - 1) + (Len(s) - i)
      /\ \A j \in 1..(i - 1) : Remove(s, i)[j] = s[j]
      /\ \A j \in 1..(Len(s) - i) : Remove(s, i)[(i - 1) + j] = s[j + i]
  <2>0. a \in Seq(S) /\ b \in Seq(S)
    BY <1>3
  <2>1. /\ a \o b \in Seq(S) /\ Len(a \o b) = Len(a) + Len(b)
        /\ \A j \in 1..Len(a) : (a \o b)[j] = a[j]
        /\ \A j \in 1..Len(b) : (a \o b)[Len(a) + j] = b[j]
    BY <2>0
  <2> QED BY <1>3, <2>1
<1>6. ASSUME NEW j \in 1..(Len(s) - 1), j >= i
      PROVE  Remove(s, i)[j] = s[j + 1]
  <2>1. j - i + 1 \in 1..(Len(s) - i) /\ (i - 1) + (j - i + 1) = j /\ (j - i + 1) + i = j + 1
    BY <1>4, <1>6
  <2>2. Remove(s, i)[(i - 1) + (j - i + 1)] = s[(j - i + 1) + i]
    BY <1>5, <2>1
  <2> QED BY <2>1, <2>2
<1>7. ASSUME NEW j \in 1..(Len(s) - 1), j < i
      PROVE  Remove(s, i)[j] = s[j]
  BY <1>4, <1>5, <1>7
<1>8. (i - 1) + (Len(s) - i) = Len(s) - 1
  BY <1>4
<1>9. \A j \in 1..(Len(s) - 1) : j \in Int /\ i \in Int /\ (j < i \/ j >= i)
  BY <1>4
<1> QED BY <1>5, <1>6, <1>7, <1>8, <1>9

LEMMA SendFacts ==
    ASSUME TypeInv, NEW c \in Conn, NEW m \in Msg \cup {None}, NEW u \in Nat,
           NEW n \in SendResult(c, m, rest[c]), PutOnWire(c, m, u, n)
    PROVE  /\ n \in -2..PkgSize
           /\ wire' \in [Conn -> Seq(Msg \X Nat)]
           /\ partials' \in 0..MaxPartial
<1>1. rest[c] \in Int /\ rest[c] <= PkgSize /\ PkgSize \in Nat /\ MaxPartial \in Nat
      /\ partials \in 0..MaxPartial /\ wire \in [Conn -> Seq(Msg \X Nat)]
  BY BoundAssumption DEF TypeInv, TypeOK
<1>2. n \in -2..PkgSize /\ (n > 0 => m # None)
      /\ (open[c] /\ m # None /\ rest[c] > 0 /\ n < rest[c] => partials < MaxPartial)
  BY <1>1 DEF SendResult
<1>3. partials' \in 0..MaxPartial
  BY <1>1, <1>2 DEF PutOnWire
<1>4. wire' \in [Conn -> Seq(Msg \X Nat)]
  <2>1. CASE n > 0
    <3>1. n \in Nat /\ m \in Msg
      BY <2>1, <1>2
    <3>2. Units(m, u, n) \in Seq(Msg \X Nat)
      <4>1. \A i \in 1..n : <<m, u + i - 1>> \in Msg \X Nat
        BY <3>1
      <4> QED BY <3>1, <4>1 DEF Units
    <3>3. wire[c] \o Units(m, u, n) \in Seq(Msg \X Nat)
      BY <1>1, <3>2
    <3> QED BY <1>1, <2>1, <3>3 DEF PutOnWire
  <2>2. CASE ~(n > 0)
    BY <1>1, <2>2 DEF PutOnWire
  <2> QED BY <2>1, <2>2
<1> QED BY <1>2, <1>3, <1>4

LEMMA DeleteType ==
    ASSUME TypeOK, NEW m \in Msg \cup {None}, Delete(m)
    PROVE  buf' \in [Msg -> {"new", "received", "live", "freed", "twice"}]
BY ConnOfAssumption DEF TypeOK, Delete

LEMMA SemPostType ==
    ASSUME TypeOK, SemPost
    PROVE  sem' \in 1..SemValueMax
BY BoundAssumption DEF TypeOK, SemPost

LEMMA InitTypeInv == Init => TypeInv
<1> SUFFICES ASSUME Init PROVE TypeInv
    OBVIOUS
<1>1. pbuf \in [Conn -> (Msg \cup {None}) \X Nat] /\ wire \in [Conn -> Seq(Msg \X Nat)]
  BY DEF Init
<1>2. /\ list \in Seq(Msg) /\ cnt \in Nat /\ sem \in 0..SemValueMax /\ cnt = Len(list)
      /\ it \in Nat /\ sres \in -2..PkgSize /\ mres \in -2..PkgSize
      /\ order \in Seq(Msg) /\ partials \in 0..MaxPartial /\ closes \in 0..MaxClose
  BY BoundAssumption DEF Init
<1>3. /\ stamp \in [Msg -> Nat] /\ seq \in [Conn -> Nat] /\ throw \in [Conn -> Nat]
      /\ rest \in [Conn -> Int] /\ \A c \in Conn : rest[c] <= PkgSize
  BY BoundAssumption DEF Init
<1> QED BY <1>1, <1>2, <1>3 DEF Init, TypeInv, TypeOK

LEMMA StepTypeInv == IInv /\ TypeInv /\ [Next]_vars => TypeInv'
<1> SUFFICES ASSUME IInv, TypeInv, [Next]_vars PROVE TypeInv'
    OBVIOUS
<1>a. ConnOf \in [Msg -> Conn] /\ None \notin Msg \cup Conn
  BY ConnOfAssumption
<1>b. PkgSize \in Nat \ {0} /\ SemValueMax \in Nat \ {0} /\ MaxPartial \in Nat /\ MaxClose \in Nat
  BY BoundAssumption
<1>c. TypeOK /\ cnt = Len(list) /\ \A c \in Conn : rest[c] <= PkgSize
  BY DEF TypeInv
<1>d. /\ spc \in {"scan", "send", "book", "null"} => it > 0
      /\ spc \in {"send", "book", "null"} => sc \in Conn
      /\ mpc # "idle" => mc \in Conn
  BY DEF IInv, Types
<1>e. seq \in [Conn -> Nat] /\ throw \in [Conn -> Nat] /\ rest \in [Conn -> Int]
  BY <1>c DEF TypeOK
<1>f. open \in [Conn -> BOOLEAN] /\ epollout \in [Conn -> BOOLEAN]
  BY <1>c DEF TypeOK
<1>g. mem \in [Conn -> Msg \cup {None}]
  BY <1>c DEF TypeOK
<1>h. pbuf \in [Conn -> (Msg \cup {None}) \X Nat]
  BY <1>c DEF TypeOK
<1>i. wire \in [Conn -> Seq(Msg \X Nat)]
  BY <1>c DEF TypeOK
<1>1. CASE UNCHANGED vars
  BY <1>1 DEF vars, TypeInv, TypeOK
<1>2. ASSUME NEW m \in Msg, Receive(m) PROVE TypeInv'
  BY <1>2, <1>a DEF Receive, queue, connv, sender, loop, hist, TypeInv, TypeOK
<1>3. ASSUME NEW m \in Msg, SendMsg(m) PROVE TypeInv'
  <2>1. list' \in Seq(Msg) /\ Len(list') = Len(list) + 1 /\ order' \in Seq(Msg)
    BY <1>3, <1>c DEF SendMsg, TypeOK
  <2>2. sem' \in 0..SemValueMax
    BY <1>3, <1>b, <1>c, SemPostType DEF SendMsg
  <2>3. buf' \in [Msg -> {"new", "received", "live", "freed", "twice"}]
    BY <1>3, <1>c DEF SendMsg, TypeOK
  <2>4. cnt' \in Nat /\ cnt' = Len(list')
    BY <1>3, <1>c, <2>1 DEF SendMsg, TypeOK
  <2> QED BY <1>3, <2>1, <2>2, <2>3, <2>4 DEF SendMsg, connv, sender, loop, TypeInv, TypeOK
<1>4. CASE SemWait
  <2>1. sem' \in 0..SemValueMax
    BY <1>4, <1>b, <1>c DEF SemWait, TypeOK
  <2> QED BY <1>4, <2>1 DEF SemWait, connv, loop, hist, TypeInv, TypeOK
<1>5. CASE SemWaitInterrupted
  BY <1>5 DEF SemWaitInterrupted, queue, connv, loop, hist, TypeInv, TypeOK
<1>6. CASE ScanEnd
  BY <1>6 DEF ScanEnd, queue, connv, loop, hist, TypeInv, TypeOK
<1>7. CASE PickStale
  <2>1. it \in 1..Len(list)
    BY <1>7, <1>c, <1>d DEF PickStale, TypeOK
  <2>2. list' \in Seq(Msg) /\ Len(list') = Len(list) - 1 /\ cnt' = Len(list')
    BY <1>7, <1>c, <2>1, RemoveFacts DEF PickStale, TypeOK
  <2>3. wild' \in BOOLEAN
    BY <1>7, <1>c DEF PickStale, TypeOK
  <2>4. buf' \in [Msg -> {"new", "received", "live", "freed", "twice"}]
    <3>1. CASE it < Len(list)
      <4>1. list[it + 1] \in Msg
        BY <1>c, <2>1, <3>1 DEF TypeOK
      <4> QED BY <1>7, <1>c, <3>1, <4>1, DeleteType DEF PickStale
    <3>2. CASE ~(it < Len(list))
      BY <1>7, <1>c, <3>2 DEF PickStale, TypeOK
    <3> QED BY <3>1, <3>2
  <2>5. cnt' \in Nat
    BY <2>2
  <2> QED BY <1>7, <2>2, <2>3, <2>4, <2>5 DEF PickStale, connv, sender, loop, TypeInv, TypeOK
<1>8. CASE Crash
  BY <1>8 DEF Crash, queue, connv, loop, hist, TypeInv, TypeOK
<1>9. CASE PickBusy
  <2>1. it' \in Nat
    BY <1>9, <1>c DEF PickBusy, TypeOK
  <2> QED BY <1>9, <2>1 DEF PickBusy, queue, connv, loop, hist, TypeInv, TypeOK
<1>10. CASE PickReply
  <2>1. it \in 1..Len(list)
    BY <1>10, <1>c, <1>d DEF PickReply, TypeOK
  <2>2. list' \in Seq(Msg) /\ Len(list') = Len(list) - 1 /\ cnt' = Len(list')
    BY <1>10, <1>c, <2>1, RemoveFacts DEF PickReply, TypeOK
  <2>3. cnt' \in Nat
    BY <2>2
  <2>4. list[it] \in Msg /\ ConnOf[list[it]] \in Conn
    BY <1>a, <1>c, <2>1 DEF TypeOK
  <2>5. /\ pbuf' = [pbuf EXCEPT ![ConnOf[list[it]]] = <<list[it], 1>>]
        /\ rest' = [rest EXCEPT ![ConnOf[list[it]]] = PkgSize]
        /\ mem' = [mem EXCEPT ![ConnOf[list[it]]] = list[it]]
        /\ sc' = ConnOf[list[it]]
    BY <1>10 DEF PickReply
  <2>6. pbuf' \in [Conn -> (Msg \cup {None}) \X Nat]
    BY <1>h, <2>4, <2>5
  <2>7. rest' \in [Conn -> Int] /\ \A c \in Conn : rest'[c] <= PkgSize
    BY <1>b, <1>c, <1>e, <2>4, <2>5
  <2>8. mem' \in [Conn -> Msg \cup {None}] /\ sc' \in Conn
    BY <1>g, <2>4, <2>5
  <2> QED BY <1>10, <2>2, <2>3, <2>6, <2>7, <2>8 DEF PickReply, loop, hist, TypeInv, TypeOK
<1>11. CASE Send
  <2>1. sc \in Conn /\ pbuf[sc][1] \in Msg \cup {None} /\ pbuf[sc][2] \in Nat
    BY <1>11, <1>c, <1>d DEF Send, TypeOK
  <2>2. PICK n \in SendResult(sc, pbuf[sc][1], rest[sc]) :
            sres' = n /\ PutOnWire(sc, pbuf[sc][1], pbuf[sc][2], n)
    BY <1>11 DEF Send
  <2>3. /\ sres' \in -2..PkgSize
        /\ wire' \in [Conn -> Seq(Msg \X Nat)]
        /\ partials' \in 0..MaxPartial
    BY <2>1, <2>2, SendFacts
  <2> QED BY <1>11, <2>3 DEF Send, queue, connv, loop, TypeInv, TypeOK
<1>12. CASE BookDone
  <2>1. sc \in Conn /\ mem[sc] \in Msg \cup {None}
    BY <1>12, <1>c, <1>d DEF BookDone, TypeOK
  <2>2. buf' \in [Msg -> {"new", "received", "live", "freed", "twice"}]
    BY <1>12, <1>c, <2>1, DeleteType DEF BookDone, TypeOK
  <2>3. throw' \in [Conn -> Nat] /\ spc' \in {"scan", "null"}
    BY <1>12, <1>c DEF BookDone, TypeOK
  <2> QED BY <1>12, <2>2, <2>3 DEF BookDone, queue, loop, hist, TypeInv, TypeOK
<1>13. CASE BookNull
  BY <1>13 DEF BookNull, queue, loop, hist, TypeInv, TypeOK
<1>14. CASE BookRest
  <2>1. sc \in Conn /\ sres \in Int /\ rest[sc] \in Int /\ rest[sc] <= PkgSize
    BY <1>14, <1>c, <1>d, <1>b DEF BookRest, TypeOK
  <2>2. /\ pbuf' \in [Conn -> (Msg \cup {None}) \X Nat]
        /\ rest' \in [Conn -> Int]
        /\ \A c \in Conn : rest'[c] <= PkgSize
    <3>1. CASE sres > 0
      <4>1. pbuf[sc][1] \in Msg \cup {None} /\ pbuf[sc][2] \in Nat
        BY <2>1, <1>h
      <4>a. pbuf[sc][2] + sres \in Nat
        BY <2>1, <3>1, <4>1
      <4>b. pbuf' = [pbuf EXCEPT ![sc] = <<pbuf[sc][1], pbuf[sc][2] + sres>>]
        BY <1>14, <3>1 DEF BookRest
      <4>2. pbuf' \in [Conn -> (Msg \cup {None}) \X Nat]
        BY <1>h, <4>1, <4>a, <4>b
      <4>3. rest' = [rest EXCEPT ![sc] = rest[sc] - sres]
        BY <1>14, <3>1 DEF BookRest
      <4>4. rest[sc] - sres \in Int /\ rest[sc] - sres <= PkgSize
        BY <2>1, <3>1, <1>b
      <4> QED BY <1>c, <2>1, <4>2, <4>3, <4>4 DEF TypeOK
    <3>2. CASE ~(sres > 0)
      BY <1>14, <1>c, <3>2 DEF BookRest, TypeOK
    <3> QED BY <3>1, <3>2
  <2>3. throw' \in [Conn -> Nat]
    <3>1. throw' = [throw EXCEPT ![sc] = throw[sc] + 1]
      BY <1>14 DEF BookRest
    <3> QED BY <1>e, <2>1, <3>1
  <2>4. epollout' \in [Conn -> BOOLEAN]
    BY <1>14, <1>c DEF BookRest, EpollOperEvent, TypeOK
  <2> QED BY <1>14, <2>2, <2>3, <2>4 DEF BookRest, queue, loop, hist, TypeInv, TypeOK
<1>15. ASSUME NEW c \in Conn, HandlerSend(c) PROVE TypeInv'
  <2>1. mem[c] \in Msg \cup {None} /\ 0 \in Nat
    BY <1>c DEF TypeOK
  <2>2. PICK n \in SendResult(c, mem[c], rest[c]) : mres' = n /\ PutOnWire(c, mem[c], 0, n)
    BY <1>15 DEF HandlerSend
  <2>3. /\ mres' \in -2..PkgSize
        /\ wire' \in [Conn -> Seq(Msg \X Nat)]
        /\ partials' \in 0..MaxPartial
    BY <2>1, <2>2, SendFacts
  <2> QED BY <1>15, <2>3 DEF HandlerSend, queue, connv, sender, TypeInv, TypeOK
<1>16. CASE HandlerRest
  <2>1. mc \in Conn /\ mres \in Int /\ rest[mc] \in Int /\ rest[mc] <= PkgSize
    BY <1>16, <1>c, <1>d, <1>b DEF HandlerRest, TypeOK
  <2>2. /\ pbuf' \in [Conn -> (Msg \cup {None}) \X Nat]
        /\ rest' \in [Conn -> Int]
        /\ \A c \in Conn : rest'[c] <= PkgSize
    <3>1. CASE mres > 0
      <4>1. pbuf[mc][1] \in Msg \cup {None} /\ pbuf[mc][2] \in Nat
        BY <2>1, <1>h
      <4>a. pbuf[mc][2] + mres \in Nat
        BY <2>1, <3>1, <4>1
      <4>b. pbuf' = [pbuf EXCEPT ![mc] = <<pbuf[mc][1], pbuf[mc][2] + mres>>]
        BY <1>16, <3>1 DEF HandlerRest
      <4>2. pbuf' \in [Conn -> (Msg \cup {None}) \X Nat]
        BY <1>h, <4>1, <4>a, <4>b
      <4>3. rest' = [rest EXCEPT ![mc] = rest[mc] - mres]
        BY <1>16, <3>1 DEF HandlerRest
      <4>4. rest[mc] - mres \in Int /\ rest[mc] - mres <= PkgSize
        BY <2>1, <3>1, <1>b
      <4> QED BY <1>c, <2>1, <4>2, <4>3, <4>4 DEF TypeOK
    <3>2. CASE ~(mres > 0)
      BY <1>16, <1>c, <3>2 DEF HandlerRest, TypeOK
    <3> QED BY <3>1, <3>2
  <2> QED BY <1>16, <2>2 DEF HandlerRest, queue, sender, hist, TypeInv, TypeOK
<1>17. CASE HandlerRemove
  <2>1. epollout' \in [Conn -> BOOLEAN]
    BY <1>17, <1>c DEF HandlerRemove, EpollOperEvent, TypeOK
  <2> QED BY <1>17, <2>1 DEF HandlerRemove, queue, connv, sender, hist, TypeInv, TypeOK
<1>18. CASE HandlerPost
  <2>1. sem' \in 0..SemValueMax
    BY <1>18, <1>c, SemPostType DEF HandlerPost
  <2> QED BY <1>18, <2>1 DEF HandlerPost, connv, sender, hist, TypeInv, TypeOK
<1>19. CASE HandlerClear
  BY <1>19 DEF HandlerClear, queue, sender, hist, TypeInv, TypeOK
<1>20. CASE HandlerDelete
  <2>1. mc \in Conn /\ mem[mc] \in Msg \cup {None}
    BY <1>20, <1>c, <1>d DEF HandlerDelete, TypeOK
  <2>2. buf' \in [Msg -> {"new", "received", "live", "freed", "twice"}]
    BY <1>20, <1>c, <2>1, DeleteType DEF HandlerDelete
  <2> QED BY <1>20, <2>2 DEF HandlerDelete, queue, connv, sender, hist, TypeInv, TypeOK
<1>21. CASE HandlerNull
  BY <1>21 DEF HandlerNull, queue, sender, hist, TypeInv, TypeOK
<1>22. ASSUME NEW c \in Conn, CloseConn(c) PROVE TypeInv'
  <2>1. mem[c] \in Msg \cup {None}
    BY <1>c DEF TypeOK
  <2>2. buf' \in [Msg -> {"new", "received", "live", "freed", "twice"}]
    BY <1>22, <1>c, <2>1, DeleteType DEF CloseConn
  <2>3. closes' \in 0..MaxClose /\ mpc' \in {"idle", "event"} /\ mc' \in Conn \cup {None}
    <3>1. closes \in 0..MaxClose /\ mc \in Conn \cup {None} /\ mpc = "idle"
      BY <1>22, <1>c DEF CloseConn, TypeOK
    <3> QED BY <1>22, <1>b, <3>1 DEF CloseConn
  <2>4. open' \in [Conn -> BOOLEAN] /\ epollout' \in [Conn -> BOOLEAN]
    BY <1>22, <1>f DEF CloseConn
  <2>5. seq' \in [Conn -> Nat] /\ mem' \in [Conn -> Msg \cup {None}]
    BY <1>22, <1>e, <1>g DEF CloseConn
  <2> QED BY <1>22, <2>2, <2>3, <2>4, <2>5 DEF CloseConn, queue, sender, TypeInv, TypeOK
<1>23. ASSUME NEW c \in Conn, Reuse(c) PROVE TypeInv'
  <2>1. open' \in [Conn -> BOOLEAN] /\ wire' \in [Conn -> Seq(Msg \X Nat)]
    BY <1>23, <1>f, <1>i DEF Reuse
  <2>2. /\ seq' \in [Conn -> Nat] /\ mem' \in [Conn -> Msg \cup {None}]
        /\ throw' \in [Conn -> Nat]
    BY <1>23, <1>e, <1>g DEF Reuse
  <2> QED BY <1>23, <2>1, <2>2 DEF Reuse, queue, sender, loop, hist, TypeInv, TypeOK
<1> QED
  BY <1>1, <1>2, <1>3, <1>4, <1>5, <1>6, <1>7, <1>8, <1>9, <1>10, <1>11, <1>12, <1>13,
     <1>14, <1>15, <1>16, <1>17, <1>18, <1>19, <1>20, <1>21, <1>22, <1>23
     DEF Next, SenderStep, LoopStep

\* Whatever the sockets take and whichever connections are closed and reused, the
\* state has its type: in particular psend_buf stays in a buffer or null, and
\* m_send_list_cnt and the semaphore stay in their ranges.
THEOREM TypeCorrect == Spec => []TypeOK
<1>1. TypeInv => TypeOK
  BY DEF TypeInv
<1> QED BY <1>1, InitIInv, StepIInv, InitTypeInv, StepTypeInv, PTL DEF Spec

-----------------------------------------------------------------------------
(* While no send was short. *)

\* The history of short sends and of closings only grows.
LEMMA HistoryGrows ==
    ASSUME TypeInv, [Next]_vars
    PROVE  (partials' = 0 => partials = 0) /\ (closes' = 0 => closes = 0)
<1>1. partials \in Nat /\ closes \in Nat
  BY BoundAssumption DEF TypeInv, TypeOK
<1>2. partials' = partials \/ partials' = partials + 1
  BY DEF vars, Next, SenderStep, LoopStep, Receive, SendMsg, SemWait, SemWaitInterrupted,
         ScanEnd, PickStale, Crash, PickBusy, PickReply, Send, BookDone, BookNull, BookRest,
         HandlerSend, HandlerRest, HandlerRemove, HandlerPost, HandlerClear, HandlerDelete,
         HandlerNull, CloseConn, Reuse, PutOnWire, hist
<1>3. closes' = closes \/ closes' = closes + 1
  BY DEF vars, Next, SenderStep, LoopStep, Receive, SendMsg, SemWait, SemWaitInterrupted,
         ScanEnd, PickStale, Crash, PickBusy, PickReply, Send, BookDone, BookNull, BookRest,
         HandlerSend, HandlerRest, HandlerRemove, HandlerPost, HandlerClear, HandlerDelete,
         HandlerNull, CloseConn, Reuse, hist
<1> QED BY <1>1, <1>2, <1>3

\* The steps that remain then.
SmoothNext ==
    \/ UNCHANGED vars
    \/ \E m \in Msg : Receive(m) \/ SendMsg(m)
    \/ SemWait \/ SemWaitInterrupted \/ ScanEnd \/ PickStale \/ Crash \/ PickReply
    \/ Send \/ BookDone \/ BookNull
    \/ \E c \in Conn : CloseConn(c) \/ Reuse(c)

LEMMA SmoothSteps ==
    ASSUME IInv, TypeInv, Smooth, [Next]_vars, partials = 0
    PROVE  SmoothNext
<1>1. /\ \A c \in Conn : throw[c] = 0 /\ ~epollout[c]
      /\ mpc = "idle"
      /\ spc = "book" => rest[sc] = PkgSize /\ sres \in {PkgSize, -2}
  BY DEF Smooth, SmoothNow
<1>2. ~PickBusy
  <2> SUFFICES ASSUME PickBusy PROVE FALSE
      OBVIOUS
  <2>1. it \in 1..Len(list) /\ list \in Seq(Msg)
    BY DEF PickBusy, IInv, Types
  <2>2. list[it] \in Msg /\ ConnOf[list[it]] \in Conn
    BY <2>1, ConnOfAssumption
  <2>3. throw[ConnOf[list[it]]] = 0 /\ throw[ConnOf[list[it]]] > 0
    BY <1>1, <2>2 DEF PickBusy
  <2> QED BY <2>3
<1>3. ~BookRest
  <2> SUFFICES ASSUME BookRest PROVE FALSE
      OBVIOUS
  <2>1. sres \in {PkgSize, -2} /\ (sres = -1 \/ (sres > 0 /\ sres # PkgSize))
    BY <1>1 DEF BookRest
  <2> QED BY <2>1, BoundAssumption
<1>4. ~LoopStep
  BY <1>1 DEF LoopStep, HandlerSend, HandlerRest, HandlerRemove, HandlerPost, HandlerClear,
       HandlerDelete, HandlerNull
<1> QED BY <1>2, <1>3, <1>4 DEF SmoothNext, Next, SenderStep

\* A call of send that is not cut short puts a whole package on the wire, or
\* nothing, on a closed descriptor.
LEMMA SmoothSend ==
    ASSUME IInv, TypeInv, Smooth, partials = 0, Send, partials' = 0
    PROVE  /\ sc \in Conn
           /\ sres' \in {PkgSize, -2}
           /\ open[sc] => /\ sres' = PkgSize
                          /\ wire' = [wire EXCEPT ![sc] = @ \o Units(pbuf[sc][1], pbuf[sc][2], PkgSize)]
<1>1. sc \in Conn /\ rest[sc] = PkgSize /\ pbuf[sc][1] # None /\ PkgSize \in Nat \ {0}
  BY BoundAssumption DEF Send, IInv, Types, Smooth, SmoothNow
<1>2. PICK n \in SendResult(sc, pbuf[sc][1], PkgSize) :
          sres' = n /\ PutOnWire(sc, pbuf[sc][1], pbuf[sc][2], n)
  BY <1>1 DEF Send
<1>3. CASE ~open[sc]
  BY <1>1, <1>2, <1>3 DEF SendResult
<1>4. CASE open[sc]
  <2>1. n = PkgSize \/ n \in {-2, -1} \cup 1..(PkgSize - 1)
    BY <1>1, <1>2, <1>4 DEF SendResult
  <2>2. ~(n < PkgSize)
    BY <1>1, <1>2, <1>4, <2>1 DEF PutOnWire
  <2>3. n = PkgSize
    BY <1>1, <2>1, <2>2
  <2> QED BY <1>1, <1>2, <2>3 DEF PutOnWire
<1> QED BY <1>1, <1>3, <1>4

LEMMA StepSmooth == IInv /\ TypeInv /\ TypeInv' /\ Smooth /\ [Next]_vars => Smooth'
<1> SUFFICES ASSUME IInv, TypeInv, TypeInv', Smooth, [Next]_vars, partials' = 0
             PROVE  SmoothNow'
  BY DEF Smooth
<1>a. partials = 0
  BY HistoryGrows
<1>b. SmoothNow
  BY <1>a DEF Smooth
<1>c. /\ list \in Seq(Msg) /\ cnt = Len(list) /\ sem \in Nat
      /\ throw \in [Conn -> Nat]
      /\ spc \in {"scan", "send", "book", "null"} => it > 0
      /\ spc \in {"send", "book", "null"} => sc \in Conn
  BY BoundAssumption DEF TypeInv, TypeOK, IInv, Types
<1> USE DEF Busy, SmoothNow
<1>1. CASE UNCHANGED vars
  BY <1>1, <1>b DEF vars
<1>2. ASSUME NEW m \in Msg, Receive(m) PROVE SmoothNow'
  BY <1>2, <1>b DEF Receive, queue, connv, sender, loop
<1>3. ASSUME NEW m \in Msg, SendMsg(m) PROVE SmoothNow'
  <2>1. sem' # 0
    BY <1>3, SemPostType, BoundAssumption DEF SendMsg, TypeInv
  <2> QED BY <1>3, <1>b, <2>1 DEF SendMsg, connv, sender, loop
<1>4. CASE SemWait
  <2>1. spc' = "wait" => list' = <<>>
    BY <1>4, <1>c DEF SemWait
  <2> QED BY <1>4, <1>b, <2>1 DEF SemWait, connv, loop
<1>5. CASE SemWaitInterrupted
  BY <1>5, <1>b DEF SemWaitInterrupted, queue, connv, loop
<1>6. CASE ScanEnd
  <2>1. list = <<>>
    BY <1>6, <1>b, <1>c DEF ScanEnd
  <2> QED BY <1>6, <1>b, <2>1 DEF ScanEnd, queue, connv, loop
<1>7. CASE PickStale
  BY <1>7, <1>b DEF PickStale, connv, sender, loop
<1>8. CASE Crash
  BY <1>8, <1>b DEF Crash, queue, connv, loop
<1>9. CASE PickReply
  <2>1. it \in 1..Len(list)
    BY <1>9, <1>c DEF PickReply, IInv, Types
  <2>2. list[it] \in Msg /\ list[it] # None /\ ConnOf[list[it]] \in Conn
    BY <1>c, <2>1, ConnOfAssumption
  <2>3. rest'[sc'] = PkgSize /\ pbuf'[sc'] = <<list[it], 1>>
    BY <1>9, <2>2 DEF PickReply, TypeInv, TypeOK
  <2>4. /\ spc = "scan" /\ spc' = "send"
        /\ UNCHANGED <<throw, epollout, it, mpc>>
    BY <1>9 DEF PickReply, loop
  <2>5. pbuf'[sc'][1] # None
    BY <2>2, <2>3
  <2> QED BY <1>b, <2>3, <2>4, <2>5
<1>10. CASE Send
  <2>1. sres' \in {PkgSize, -2}
    BY <1>10, <1>a, SmoothSend
  <2> QED BY <1>10, <1>b, <2>1 DEF Send, queue, connv, loop
<1>11. CASE BookDone
  BY <1>11, <1>b, <1>c DEF BookDone, queue, loop
<1>12. CASE BookNull
  BY <1>12, <1>b DEF BookNull, queue, loop
<1>13. ASSUME NEW c \in Conn, CloseConn(c) PROVE SmoothNow'
  <2>1. \A d \in Conn : throw'[d] = 0 /\ ~epollout'[d]
    BY <1>13, <1>b DEF CloseConn, TypeInv, TypeOK
  <2> QED BY <1>13, <1>b, <2>1 DEF CloseConn, queue, sender
<1>14. ASSUME NEW c \in Conn, Reuse(c) PROVE SmoothNow'
  <2>1. \A d \in Conn : throw'[d] = 0 /\ ~epollout'[d]
    BY <1>14, <1>b, <1>c DEF Reuse
  <2> QED BY <1>14, <1>b, <2>1 DEF Reuse, queue, sender, loop
<1> QED
  BY <1>a, <1>1, <1>2, <1>3, <1>4, <1>5, <1>6, <1>7, <1>8, <1>9, <1>10, <1>11, <1>12,
     <1>13, <1>14, SmoothSteps DEF SmoothNext

LEMMA SmoothCorrect == Spec => [](IInv /\ TypeInv /\ Smooth)
<1>1. Init => Smooth
  BY DEF Init, Smooth, SmoothNow, Busy
<1> QED BY <1>1, InitIInv, StepIInv, InitTypeInv, StepTypeInv, StepSmooth, PTL DEF Spec

\* As long as no send was short, whatever connections are closed and reused and
\* however often sem_wait is interrupted, the send thread never waits, with no post
\* pending, while a reply is in the list.
THEOREM NoReplyLeftCorrect == Spec => []NoReplyLeft
<1>1. Smooth => NoReplyLeft
  BY DEF Smooth, SmoothNow, NoReplyLeft
<1> QED BY <1>1, SmoothCorrect, PTL

-----------------------------------------------------------------------------
(* While no connection was closed either. *)

CleanNext ==
    \/ UNCHANGED vars
    \/ \E m \in Msg : Receive(m) \/ SendMsg(m)
    \/ SemWait \/ SemWaitInterrupted \/ ScanEnd \/ PickReply
    \/ Send \/ BookDone \/ BookNull

\* No reply is stale, so none is erased, and nothing makes the worker crash.
LEMMA CleanSteps ==
    ASSUME IInv, TypeInv, Smooth, Clean, [Next]_vars, Undisturbed'
    PROVE  Undisturbed /\ SmoothNow /\ CleanNow /\ CleanNext
<1>1. Undisturbed /\ SmoothNow /\ CleanNow
  BY HistoryGrows DEF Undisturbed, Smooth, Clean
<1>2. SmoothNext
  BY <1>1, SmoothSteps DEF Undisturbed
<1>3. ASSUME spc = "scan", it <= Len(list)
      PROVE  /\ list[it] \in Msg /\ buf[list[it]] = "live"
             /\ seq[ConnOf[list[it]]] = stamp[list[it]]
  <2>1. it \in 1..Len(list) /\ list \in Seq(Msg)
    BY <1>3 DEF IInv, Types
  <2>2. list[it] \in Msg /\ ConnOf[list[it]] \in Conn
    BY <2>1, ConnOfAssumption
  <2>3. buf[list[it]] = "live"
    BY <1>1, <2>1 DEF CleanNow
  <2>4. stamp[list[it]] = 1 /\ seq[ConnOf[list[it]]] = 1
    BY <1>1, <2>2, <2>3 DEF CleanNow
  <2> QED BY <2>2, <2>3, <2>4
<1>4. ~PickStale
  BY <1>3 DEF PickStale
<1>5. ~Crash
  BY <1>1, <1>3 DEF Crash, CleanNow
<1>6. \A c \in Conn : ~CloseConn(c)
  BY BoundAssumption DEF CloseConn, Undisturbed, TypeInv, TypeOK
<1>7. \A c \in Conn : ~Reuse(c)
  BY <1>1 DEF Reuse, CleanNow
<1> QED BY <1>1, <1>2, <1>4, <1>5, <1>6, <1>7 DEF SmoothNext, CleanNext

LEMMA StepClean == IInv /\ TypeInv /\ Smooth /\ Clean /\ [Next]_vars => Clean'
<1> SUFFICES ASSUME IInv, TypeInv, Smooth, Clean, [Next]_vars, Undisturbed'
             PROVE  CleanNow'
  BY DEF Clean
<1>a. Undisturbed /\ SmoothNow /\ CleanNow /\ CleanNext
  BY CleanSteps
<1>b. /\ list \in Seq(Msg) /\ Len(list) \in Nat
      /\ buf \in [Msg -> {"new", "received", "live", "freed", "twice"}]
      /\ mem \in [Conn -> Msg \cup {None}]
      /\ spc \in {"send", "book", "null"} => sc \in Conn
  BY DEF TypeInv, TypeOK, IInv, Types
<1>c. ConnOf \in [Msg -> Conn] /\ None \notin Msg
  BY ConnOfAssumption
<1>d. \A i \in 1..Len(list) : list[i] \in Msg
  BY <1>b
<1>1. CASE UNCHANGED vars
  BY <1>1, <1>a DEF vars, CleanNow, Busy
<1>2. ASSUME NEW m \in Msg, Receive(m) PROVE CleanNow'
  <2>1. /\ buf[m] = "new" /\ buf'[m] = "received" /\ stamp'[m] = 1
        /\ \A x \in Msg : x # m => buf'[x] = buf[x] /\ stamp'[x] = stamp[x]
    BY <1>2, <1>a, <1>b, <1>c DEF Receive, TypeInv, TypeOK, CleanNow
  <2>2. UNCHANGED <<list, seq, open, pbuf, mem, spc, sc, sres, wild>>
    BY <1>2 DEF Receive, queue, connv, sender, hist
  <2> QED BY <1>a, <1>d, <2>1, <2>2 DEF CleanNow, Busy
<1>3. ASSUME NEW m \in Msg, SendMsg(m) PROVE CleanNow'
  <2>1. /\ buf[m] = "received" /\ buf'[m] = "live"
        /\ \A x \in Msg : x # m => buf'[x] = buf[x]
    BY <1>3, <1>b DEF SendMsg
  <2>2. UNCHANGED <<stamp, seq, open, pbuf, mem, spc, sc, sres, wild>>
    BY <1>3 DEF SendMsg, connv, sender
  <2>3. /\ Len(list') = Len(list) + 1 /\ list'[Len(list) + 1] = m
        /\ \A i \in 1..Len(list) : list'[i] = list[i]
    BY <1>3, <1>b DEF SendMsg
  <2>4. \A i \in 1..Len(list) : list[i] # m
    BY <1>a, <2>1 DEF CleanNow
  <2>5. \A i, j \in 1..Len(list') : list'[i] = list'[j] => i = j
    BY <1>a, <1>b, <2>3, <2>4 DEF CleanNow
  <2>6. \A i \in 1..Len(list') : buf'[list'[i]] = "live"
    BY <1>a, <1>b, <1>d, <2>1, <2>3, <2>4 DEF CleanNow
  <2>7. \A x \in Msg : buf'[x] = "live" =>
            x = mem'[ConnOf[x]] \/ \E i \in 1..Len(list') : list'[i] = x
    <3> SUFFICES ASSUME NEW x \in Msg, buf'[x] = "live", x # mem'[ConnOf[x]]
                 PROVE  \E i \in 1..Len(list') : list'[i] = x
        OBVIOUS
    <3>1. CASE x = m
      BY <1>b, <2>3, <3>1
    <3>2. CASE x # m
      <4>1. PICK i \in 1..Len(list) : list[i] = x
        BY <1>a, <2>1, <2>2, <3>2 DEF CleanNow
      <4> QED BY <1>b, <2>3, <4>1
    <3> QED BY <3>1, <3>2
  <2>8. ~Busy /\ ~Busy'
    BY <1>3, <2>2 DEF SendMsg, Busy
  <2>9. spc' \notin {"send", "book"}
    BY <1>3, <2>2 DEF SendMsg
  <2> QED BY <1>a, <2>1, <2>2, <2>5, <2>6, <2>7, <2>8, <2>9 DEF CleanNow
<1>4. CASE SemWait
  BY <1>4, <1>a DEF SemWait, connv, hist, CleanNow, Busy
<1>5. CASE SemWaitInterrupted
  BY <1>5, <1>a DEF SemWaitInterrupted, queue, connv, hist, CleanNow, Busy
<1>6. CASE ScanEnd
  BY <1>6, <1>a DEF ScanEnd, queue, connv, hist, CleanNow, Busy
<1>7. CASE PickReply
  <2> DEFINE m == list[1]
             c == ConnOf[list[1]]
  <2>1. it = 1 /\ 1 \in 1..Len(list) /\ m \in Msg /\ c \in Conn /\ ~Busy
    BY <1>7, <1>a, <1>b, <1>c DEF PickReply, SmoothNow, Busy
  <2>2. /\ list' = Remove(list, 1) /\ spc' = "send" /\ sc' = c
        /\ pbuf' = [pbuf EXCEPT ![c] = <<m, 1>>]
        /\ mem' = [mem EXCEPT ![c] = m]
        /\ UNCHANGED <<buf, stamp, seq, open, wild>>
    BY <1>7, <2>1 DEF PickReply, hist
  <2>3. /\ Len(list') = Len(list) - 1
        /\ \A j \in 1..Len(list') : list'[j] = list[j + 1] /\ j + 1 \in 1..Len(list) /\ j + 1 # 1
    <3>1. /\ Len(list') = Len(list) - 1
          /\ \A j \in 1..(Len(list) - 1) : list'[j] = IF j < 1 THEN list[j] ELSE list[j + 1]
      BY <1>b, <2>1, <2>2, RemoveFacts
    <3> QED BY <1>b, <3>1
  <2> HIDE DEF m, c
  <2>4. /\ mem'[c] = m /\ m # None /\ pbuf'[c] = <<m, 1>>
        /\ \A d \in Conn : d # c => mem'[d] = mem[d] /\ mem[d] = None
    <3>1. pbuf \in [Conn -> (Msg \cup {None}) \X Nat]
      BY DEF TypeInv, TypeOK
    <3>2. pbuf'[c] = <<m, 1>>
      BY <2>1, <2>2, <3>1
    <3>3. \A d \in Conn : mem[d] = None
      BY <1>a, <2>1 DEF CleanNow
    <3>4. mem'[c] = m /\ \A d \in Conn : d # c => mem'[d] = mem[d]
      BY <1>b, <2>1, <2>2
    <3> QED BY <1>c, <2>1, <3>2, <3>3, <3>4
  <2>5. \A j \in 1..Len(list') : list'[j] # m
    BY <1>a, <2>1, <2>3 DEF CleanNow, m
  <2>6. \A i, j \in 1..Len(list') : list'[i] = list'[j] => i = j
    BY <1>a, <1>b, <2>3 DEF CleanNow
  <2>7. \A j \in 1..Len(list') : buf'[list'[j]] = "live"
    BY <1>a, <2>2, <2>3 DEF CleanNow
  <2>8. buf'[m] = "live" /\ ConnOf[m] = c
    BY <1>a, <2>1, <2>2 DEF CleanNow, m, c
  <2>9. \A x \in Msg : buf'[x] = "live" =>
            x = mem'[ConnOf[x]] \/ \E i \in 1..Len(list') : list'[i] = x
    <3> SUFFICES ASSUME NEW x \in Msg, buf[x] = "live", x # m
                 PROVE  \E i \in 1..Len(list') : list'[i] = x
      BY <2>2, <2>4, <2>8
    <3>1. mem[ConnOf[x]] = None
      BY <1>a, <1>c, <2>1 DEF CleanNow
    <3>2. PICK i \in 1..Len(list) : list[i] = x
      BY <1>a, <1>c, <3>1 DEF CleanNow
    <3>3. i # 1
      BY <3>2 DEF m
    <3>4. i - 1 \in 1..Len(list') /\ list'[i - 1] = list[(i - 1) + 1] /\ (i - 1) + 1 = i
      BY <1>b, <2>3, <3>2, <3>3
    <3> QED BY <3>2, <3>4
  <2>10. Busy'
    BY <2>2 DEF Busy
  <2>11. /\ \A d \in Conn : open'[d] /\ seq'[d] = 1
         /\ \A x \in Msg : buf'[x] # "new" => stamp'[x] = 1
         /\ \A x \in Msg : buf'[x] # "twice"
         /\ ~wild'
    BY <1>a, <2>2 DEF CleanNow
  <2>12. mem'[sc'] = m /\ pbuf'[sc'] = <<mem'[sc'], 1>>
    BY <2>2, <2>4
  <2>13. \A d \in Conn : mem'[d] # None => d = sc'
    BY <2>2, <2>4
  <2> QED
    BY <2>1, <2>2, <2>5, <2>6, <2>7, <2>8, <2>9, <2>10, <2>11, <2>12, <2>13 DEF CleanNow
<1>8. CASE Send
  <2>1. sc \in Conn /\ open[sc] /\ sres' = PkgSize
    BY <1>8, <1>a, <1>b, SmoothSend DEF Send, Undisturbed, CleanNow
  <2> QED BY <1>8, <1>a, <2>1 DEF Send, queue, connv, CleanNow, Busy
<1>9. CASE BookDone
  <2>1. sres = PkgSize /\ PkgSize # 0 /\ sc \in Conn /\ Busy
    BY <1>9, <1>a, <1>b, BoundAssumption DEF BookDone, CleanNow, Busy
  <2>2. mem[sc] \in Msg /\ ConnOf[mem[sc]] = sc /\ buf[mem[sc]] = "live"
        /\ \A i \in 1..Len(list) : list[i] # mem[sc]
    BY <1>9, <1>a, <2>1 DEF BookDone, CleanNow
  <2>3. spc' = "null" /\ buf' = [buf EXCEPT ![mem[sc]] = "freed"]
    BY <1>9, <1>c, <2>1, <2>2 DEF BookDone, Delete
  <2>4. /\ buf'[mem[sc]] = "freed" /\ \A x \in Msg : x # mem[sc] => buf'[x] = buf[x]
    BY <1>b, <2>2, <2>3
  <2>5. UNCHANGED <<list, stamp, seq, open, pbuf, mem, sc, wild>>
    BY <1>9 DEF BookDone, queue, hist
  <2> QED BY <1>a, <1>d, <2>1, <2>2, <2>3, <2>4, <2>5 DEF CleanNow, Busy
<1>10. CASE BookNull
  <2>1. /\ sc \in Conn /\ Busy /\ spc' = "scan" /\ mem' = [mem EXCEPT ![sc] = None]
        /\ UNCHANGED <<list, buf, stamp, seq, open, wild>>
    BY <1>10, <1>b DEF BookNull, queue, hist, Busy
  <2>2. \A d \in Conn : mem'[d] = None
    BY <1>a, <1>b, <2>1 DEF CleanNow
  <2>3. \A x \in Msg : buf[x] = "live" => x # mem[ConnOf[x]]
    <3> SUFFICES ASSUME NEW x \in Msg, x = mem[ConnOf[x]] PROVE buf[x] # "live"
        OBVIOUS
    <3>1. ConnOf[x] \in Conn /\ ConnOf[x] = sc
      BY <1>a, <1>c DEF CleanNow
    <3> QED BY <1>10, <1>a, <2>1, <3>1 DEF BookNull, CleanNow
  <2> QED BY <1>a, <2>1, <2>2, <2>3 DEF CleanNow, Busy
<1> QED
  BY <1>a, <1>1, <1>2, <1>3, <1>4, <1>5, <1>6, <1>7, <1>8, <1>9, <1>10 DEF CleanNext

LEMMA CleanCorrect == Spec => [](IInv /\ TypeInv /\ Smooth /\ Clean)
<1>1. Init => Clean
  BY DEF Init, Clean, CleanNow, Busy
<1> QED BY <1>1, StepClean, SmoothCorrect, PTL DEF Spec

\* While sockets take what they are given and no connection is closed, every live
\* buffer is in the list or being sent, and every buffer in the list is live.
THEOREM NoLostBufferCorrect == Spec => []NoLostBuffer
<1>1. Clean => NoLostBuffer
  BY DEF Clean, CleanNow, NoLostBuffer
<1> QED BY <1>1, CleanCorrect, PTL

-----------------------------------------------------------------------------
(* The order of the packages. *)

LEMMA CountNat ==
    ASSUME NEW c, NEW n \in Nat
    PROVE  IsFiniteSet({j \in 1..n : ConnOf[order[j]] = c}) /\ Count(c, n) \in Nat
<1>1. IsFiniteSet(1..n)
  BY FS_Interval
<1>2. IsFiniteSet({j \in 1..n : ConnOf[order[j]] = c})
  BY <1>1, FS_Subset
<1> QED BY <1>2, FS_CardinalityType DEF Count

LEMMA CountNext ==
    ASSUME NEW c, NEW n \in Nat
    PROVE  Count(c, n + 1) = Count(c, n) + (IF ConnOf[order[n + 1]] = c THEN 1 ELSE 0)
<1> DEFINE T == {j \in 1..n : ConnOf[order[j]] = c}
           U == {j \in 1..(n + 1) : ConnOf[order[j]] = c}
<1>1. IsFiniteSet(T) /\ Count(c, n) = Cardinality(T) /\ Count(c, n) \in Nat
      /\ Count(c, n + 1) = Cardinality(U)
  BY CountNat DEF Count
<1>2. CASE ConnOf[order[n + 1]] = c
  <2>1. U = T \cup {n + 1} /\ n + 1 \notin T
    BY <1>2
  <2> HIDE DEF T, U
  <2>2. Cardinality(U) = Cardinality(T) + 1
    BY <1>1, <2>1, FS_AddElement
  <2> QED BY <1>1, <1>2, <2>2
<1>3. CASE ConnOf[order[n + 1]] # c
  <2>1. U = T
    BY <1>3
  <2> QED BY <1>1, <1>3, <2>1
<1> QED BY <1>2, <1>3

\* A push does not change the number of a reply.
LEMMA CountAppend ==
    ASSUME NEW c, NEW m \in Msg, order \in Seq(Msg), order' = Append(order, m),
           NEW n \in 0..Len(order)
    PROVE  Count(c, n)' = Count(c, n)
<1>1. \A j \in 1..n : order'[j] = order[j]
  OBVIOUS
<1>2. {j \in 1..n : ConnOf[order[j]] = c}' = {j \in 1..n : ConnOf[order[j]] = c}
  BY <1>1
<1> QED BY <1>2 DEF Count

\* The place of unit u of package number r + 1 on the wire.
LEMMA UnitPlace ==
    ASSUME NEW P \in Nat \ {0}, NEW r \in Nat, NEW u \in 1..P
    PROVE  (P * r + u - 1) \div P = r /\ (P * r + u - 1) % P = u - 1
OBVIOUS

\* A step that sends nothing and pushes nothing.
LEMMA FifoSame ==
    ASSUME FifoNow, UNCHANGED <<order, wire, partials, closes>>, Sent' = Sent, Taken' = Taken + Len(list) - Len(list'),
           Undisturbed,
           \A i \in 1..Len(list') : list'[i] = order[Taken' + i],
           spc' = "send" => mem'[sc'] = order[Taken']
    PROVE  FifoNow'
<1>1. \A c, n : Count(c, n)' = Count(c, n)
  BY DEF Count
<1>2. WireIsFifo'
  BY <1>1 DEF FifoNow, WireIsFifo, Undisturbed
<1> QED BY <1>1, <1>2 DEF FifoNow

LEMMA StepFifo == IInv /\ TypeInv /\ TypeInv' /\ Smooth /\ Clean /\ Fifo /\ [Next]_vars => Fifo'
<1> SUFFICES ASSUME IInv, TypeInv, TypeInv', Smooth, Clean, Fifo, [Next]_vars, Undisturbed'
             PROVE  FifoNow'
  BY DEF Fifo
<1>a. Undisturbed /\ SmoothNow /\ CleanNow /\ CleanNext
  BY CleanSteps
<1>b. FifoNow
  BY <1>a DEF Fifo
<1>c. /\ list \in Seq(Msg) /\ Len(list) \in Nat /\ order \in Seq(Msg) /\ Len(order) \in Nat
      /\ wire \in [Conn -> Seq(Msg \X Nat)]
      /\ spc \in {"send", "book", "null"} => sc \in Conn
  <2>1. list \in Seq(Msg) /\ order \in Seq(Msg) /\ wire \in [Conn -> Seq(Msg \X Nat)]
    BY DEF TypeInv, TypeOK
  <2>2. spc \in {"send", "book", "null"} => sc \in Conn
    BY DEF IInv, Types
  <2> QED BY <2>1, <2>2
<1>d. PkgSize \in Nat \ {0}
  BY BoundAssumption
<1>e. UNCHANGED <<partials, closes>>
  BY <1>a DEF Undisturbed
<1>f. ASSUME UNCHANGED <<list, order, wire, mem>>, spc # "send", spc' # "send" PROVE FifoNow'
  <2>1. Taken' = Taken /\ Sent' = Sent
    BY <1>f DEF Taken, Sent
  <2>2. Taken' = Taken + Len(list) - Len(list')
    BY <1>c, <1>f, <2>1 DEF Taken
  <2>3. \A i \in 1..Len(list') : list'[i] = order[Taken' + i]
    BY <1>b, <1>f, <2>1 DEF FifoNow
  <2> QED BY <1>a, <1>b, <1>e, <1>f, <2>1, <2>2, <2>3, FifoSame
<1>1. CASE UNCHANGED vars
  <2>1. UNCHANGED <<list, order, wire, mem, spc, sc>>
    BY <1>1 DEF vars
  <2>2. Taken' = Taken /\ Sent' = Sent
    BY <2>1 DEF Taken, Sent
  <2>3. Taken' = Taken + Len(list) - Len(list')
    BY <1>c, <2>1, <2>2 DEF Taken
  <2>4. \A i \in 1..Len(list') : list'[i] = order[Taken' + i]
    BY <1>b, <2>1, <2>2 DEF FifoNow
  <2>5. spc' = "send" => mem'[sc'] = order[Taken']
    BY <1>b, <2>1, <2>2 DEF FifoNow
  <2> QED BY <1>a, <1>b, <1>e, <2>1, <2>2, <2>3, <2>4, <2>5, FifoSame
<1>2. ASSUME NEW m \in Msg, Receive(m) PROVE FifoNow'
  <2>1. UNCHANGED <<list, order, wire, mem, spc, sc>>
    BY <1>2 DEF Receive, queue, connv, sender, hist
  <2>2. Taken' = Taken /\ Sent' = Sent
    BY <2>1 DEF Taken, Sent
  <2>3. Taken' = Taken + Len(list) - Len(list')
    BY <1>c, <2>1, <2>2 DEF Taken
  <2>4. \A i \in 1..Len(list') : list'[i] = order[Taken' + i]
    BY <1>b, <2>1, <2>2 DEF FifoNow
  <2>5. spc' = "send" => mem'[sc'] = order[Taken']
    BY <1>b, <2>1, <2>2 DEF FifoNow
  <2> QED BY <1>a, <1>b, <1>e, <2>1, <2>2, <2>3, <2>4, <2>5, FifoSame
<1>3. ASSUME NEW m \in Msg, SendMsg(m) PROVE FifoNow'
  <2>1. /\ list' = Append(list, m) /\ order' = Append(order, m)
        /\ UNCHANGED <<wire, mem, spc, sc>> /\ spc # "send"
    BY <1>3 DEF SendMsg, connv, sender
  <2>2. /\ Len(list') = Len(list) + 1 /\ list'[Len(list) + 1] = m
        /\ \A i \in 1..Len(list) : list'[i] = list[i]
        /\ Len(order') = Len(order) + 1 /\ order'[Len(order) + 1] = m
        /\ \A i \in 1..Len(order) : order'[i] = order[i]
    BY <1>c, <2>1
  <2>3. Taken' = Taken /\ Sent' = Sent /\ Sent = Taken /\ Taken \in 0..Len(order)
        /\ Taken + Len(list) = Len(order)
    BY <1>b, <1>c, <2>1, <2>2 DEF Taken, Sent, FifoNow
  <2>4. \A i \in 1..Len(list') : list'[i] = order'[Taken' + i]
    <3> SUFFICES ASSUME NEW i \in 1..Len(list') PROVE list'[i] = order'[Taken + i]
      BY <2>3
    <3>1. CASE i = Len(list) + 1
      BY <1>c, <2>2, <2>3, <3>1
    <3>2. CASE i # Len(list) + 1
      <4>1. i \in 1..Len(list) /\ Taken + i \in 1..Len(order)
        BY <1>c, <2>2, <2>3, <3>2
      <4> QED BY <1>b, <2>2, <4>1 DEF FifoNow
    <3> QED BY <3>1, <3>2
  <2>5. \A c, n : n \in 0..Len(order) => Count(c, n)' = Count(c, n)
    BY <1>c, <2>1, CountAppend
  <2>6. \A c \in Conn : Len(wire'[c]) = PkgSize * Count(c, Sent)'
    BY <1>b, <2>1, <2>3, <2>5 DEF FifoNow
  <2>7. WireIsFifo'
    <3> SUFFICES ASSUME NEW c \in Conn, NEW i \in 1..Len(wire[c])
                 PROVE  \E p \in 1..Len(order') :
                            /\ ConnOf[order'[p]] = c /\ Count(c, p)' = ((i - 1) \div PkgSize) + 1
                            /\ wire[c][i] = <<order'[p], ((i - 1) % PkgSize) + 1>>
      BY <2>1 DEF WireIsFifo
    <3>1. PICK p \in 1..Len(order) :
                            /\ ConnOf[order[p]] = c /\ Count(c, p) = ((i - 1) \div PkgSize) + 1
                            /\ wire[c][i] = <<order[p], ((i - 1) % PkgSize) + 1>>
      BY <1>a, <1>b DEF FifoNow, WireIsFifo
    <3>2. p \in 1..Len(order') /\ order'[p] = order[p] /\ p \in 0..Len(order)
      BY <1>c, <2>2
    <3>3. Count(c, p)' = Count(c, p)
      BY <2>5, <3>2
    <3> QED BY <3>1, <3>2, <3>3
  <2>8. Sent' \in Nat /\ spc' # "send"
    BY <2>1, <2>3 DEF Taken
  <2> QED BY <2>4, <2>6, <2>7, <2>8 DEF FifoNow
<1>4. CASE SemWait
  BY <1>4, <1>f DEF SemWait, connv, hist
<1>5. CASE SemWaitInterrupted
  BY <1>5, <1>f DEF SemWaitInterrupted, queue, connv, hist
<1>6. CASE ScanEnd
  BY <1>6, <1>f DEF ScanEnd, queue, connv, hist
<1>7. CASE PickReply
  <2>1. it = 1 /\ 1 \in 1..Len(list) /\ list[1] \in Msg /\ ConnOf[list[1]] \in Conn
    BY <1>7, <1>a, <1>c, ConnOfAssumption DEF PickReply, SmoothNow, Busy
  <2>2. /\ list' = Remove(list, 1) /\ spc = "scan" /\ spc' = "send" /\ sc' = ConnOf[list[1]]
        /\ mem' = [mem EXCEPT ![ConnOf[list[1]]] = list[1]]
        /\ UNCHANGED <<order, wire>>
    BY <1>7, <2>1 DEF PickReply, hist
  <2>3. /\ Len(list') = Len(list) - 1
        /\ \A j \in 1..Len(list') : list'[j] = list[j + 1] /\ j + 1 \in 1..Len(list)
    <3>1. /\ Len(list') = Len(list) - 1
          /\ \A j \in 1..(Len(list) - 1) : list'[j] = IF j < 1 THEN list[j] ELSE list[j + 1]
      BY <1>c, <2>1, <2>2, RemoveFacts
    <3> QED BY <1>c, <3>1
  <2>4. Taken' = Taken + 1 /\ Sent' = Sent /\ Taken \in Int
        /\ Taken' = Taken + Len(list) - Len(list')
    <3>1. Taken' = Len(order) - (Len(list) - 1)
      BY <2>2, <2>3 DEF Taken
    <3>2. Taken' = Taken + 1 /\ Taken \in Int
      BY <1>c, <3>1 DEF Taken
    <3>3. Sent' = Taken' - 1 /\ Sent = Taken
      BY <2>2 DEF Sent
    <3>4. Len(list) - Len(list') = 1 /\ Len(list) \in Int /\ Len(list') \in Int
      BY <1>c, <2>3
    <3> QED BY <3>2, <3>3, <3>4
  <2>5. \A i \in 1..Len(list') : list'[i] = order[Taken' + i]
    <3> SUFFICES ASSUME NEW i \in 1..Len(list') PROVE list'[i] = order[Taken' + i]
        OBVIOUS
    <3>1. list'[i] = list[i + 1] /\ i + 1 \in 1..Len(list)
      BY <2>3
    <3>2. list[i + 1] = order[Taken + (i + 1)]
      BY <1>b, <3>1 DEF FifoNow
    <3>3. Taken + (i + 1) = Taken' + i
      BY <1>c, <2>3, <2>4
    <3> QED BY <3>1, <3>2, <3>3
  <2>6. mem'[sc'] = order[Taken']
    <3>1. mem'[sc'] = list[1]
      BY <2>1, <2>2 DEF TypeInv, TypeOK
    <3> QED BY <1>b, <2>1, <2>4, <3>1 DEF FifoNow
  <2> QED BY <1>a, <1>b, <1>e, <2>2, <2>4, <2>5, <2>6, FifoSame
<1>8. CASE Send
  <2>1. /\ sc \in Conn /\ open[sc] /\ spc = "send" /\ pbuf[sc] = <<mem[sc], 1>>
        /\ mem[sc] \in Msg /\ ConnOf[mem[sc]] = sc /\ mem[sc] = order[Taken]
    BY <1>8, <1>a, <1>b, <1>c DEF Send, CleanNow, FifoNow, Busy
  <2>2. wire' = [wire EXCEPT ![sc] = wire[sc] \o Units(mem[sc], 1, PkgSize)]
    <3>1. wire' = [wire EXCEPT ![sc] = @ \o Units(pbuf[sc][1], pbuf[sc][2], PkgSize)]
      BY <1>8, <1>a, <1>e, <2>1, SmoothSend DEF Undisturbed
    <3>2. pbuf[sc][1] = mem[sc] /\ pbuf[sc][2] = 1
      BY <2>1
    <3> QED BY <3>1, <3>2
  <2>3. UNCHANGED <<list, order, mem, sc>> /\ spc' = "book"
    BY <1>8 DEF Send, queue, connv
  <2>4. /\ Taken' = Taken /\ Sent \in Nat /\ Taken = Sent + 1 /\ Sent' = Sent + 1
        /\ Taken \in 1..Len(order)
    BY <1>b, <1>c, <2>1, <2>3 DEF Taken, Sent, FifoNow
  <2>5. \A c, n : Count(c, n)' = Count(c, n)
    BY <2>3 DEF Count
  <2>6. /\ Count(sc, Sent) \in Nat /\ Count(sc, Taken) = Count(sc, Sent) + 1
        /\ \A c \in Conn : c # sc => Count(c, Taken) = Count(c, Sent)
    <3>1. ConnOf[order[Sent + 1]] = sc
      BY <2>1, <2>4
    <3>2. \A c \in Conn : Count(c, Sent) \in Nat
      BY <2>4, CountNat
    <3>3. \A c \in Conn :
              Count(c, Sent + 1) = Count(c, Sent) + (IF ConnOf[order[Sent + 1]] = c THEN 1 ELSE 0)
      BY <2>4, CountNext
    <3> QED BY <2>1, <2>4, <3>1, <3>2, <3>3
  <2> DEFINE u == Units(mem[sc], 1, PkgSize)
             r == Count(sc, Sent)
  <2>7. /\ u \in Seq(Msg \X Nat) /\ Len(u) = PkgSize
        /\ \A k \in 1..PkgSize : u[k] = <<mem[sc], k>>
    <3>1. \A k \in 1..PkgSize : <<mem[sc], 1 + k - 1>> \in Msg \X Nat /\ 1 + k - 1 = k
      BY <1>d, <2>1
    <3> QED BY <1>d, <3>1 DEF Units
  <2>8. Len(wire[sc]) = PkgSize * r /\ r \in Nat
    BY <1>b, <2>1, <2>6 DEF FifoNow
  <2>9. wire[sc] \in Seq(Msg \X Nat)
    BY <1>c, <2>1
  <2> HIDE DEF u
  <2>10. /\ wire'[sc] = wire[sc] \o u
         /\ \A c \in Conn : c # sc => wire'[c] = wire[c]
    BY <1>c, <2>1, <2>2 DEF u
  <2> HIDE DEF r
  <2>11. /\ Len(wire'[sc]) = PkgSize * r + PkgSize
         /\ \A i \in 1..(PkgSize * r) : wire'[sc][i] = wire[sc][i]
         /\ \A k \in 1..PkgSize : wire'[sc][PkgSize * r + k] = <<mem[sc], k>>
    <3> DEFINE w == wire[sc]
               T == Msg \X Nat
    <3>0. w \in Seq(T) /\ u \in Seq(T)
      BY <2>7, <2>9
    <3>1. wire'[sc] = w \o u /\ Len(w) = PkgSize * r
      BY <2>8, <2>10
    <3> HIDE DEF w, T
    <3>2. /\ Len(w \o u) = Len(w) + Len(u)
          /\ \A j \in 1..Len(w) : (w \o u)[j] = w[j]
          /\ \A j \in 1..Len(u) : (w \o u)[Len(w) + j] = u[j]
      BY <3>0
    <3>3. /\ \A i \in 1..(PkgSize * r) : wire'[sc][i] = w[i]
          /\ \A k \in 1..PkgSize : wire'[sc][PkgSize * r + k] = <<mem[sc], k>>
          /\ Len(wire'[sc]) = PkgSize * r + PkgSize
      <4>2. Len(u) = PkgSize /\ \A k \in 1..PkgSize : u[k] = <<mem[sc], k>>
        BY <2>7
      <4>3. \A i \in 1..(PkgSize * r) : wire'[sc][i] = w[i]
        BY <3>1, <3>2, Zenon
      <4>4. \A k \in 1..PkgSize : wire'[sc][PkgSize * r + k] = <<mem[sc], k>>
        BY <3>1, <3>2, <4>2, Zenon
      <4>5. Len(wire'[sc]) = PkgSize * r + PkgSize
        BY <3>1, <3>2, <4>2, Zenon
      <4> QED BY <4>3, <4>4, <4>5
    <3> QED BY <3>3 DEF w
  <2>12. \A c \in Conn : Len(wire'[c]) = PkgSize * Count(c, Sent)'
    <3> SUFFICES ASSUME NEW c \in Conn PROVE Len(wire'[c]) = PkgSize * Count(c, Taken)
      BY <2>4, <2>5
    <3>1. CASE c = sc
      <4>1. PkgSize * r + PkgSize = PkgSize * (r + 1)
        BY <1>d, <2>8
      <4> QED BY <2>6, <2>11, <3>1, <4>1 DEF r
    <3>2. CASE c # sc
      BY <1>b, <2>6, <2>10, <3>2 DEF FifoNow
    <3> QED BY <3>1, <3>2
  <2>13. WireIsFifo'
    <3> SUFFICES ASSUME NEW c \in Conn, NEW i \in 1..Len(wire'[c])
                 PROVE  \E p \in 1..Len(order) :
                            /\ ConnOf[order[p]] = c /\ Count(c, p) = ((i - 1) \div PkgSize) + 1
                            /\ wire'[c][i] = <<order[p], ((i - 1) % PkgSize) + 1>>
      BY <2>3, <2>5 DEF WireIsFifo
    <3>1. ASSUME i \in 1..Len(wire[c]), wire'[c][i] = wire[c][i]
          PROVE  \E p \in 1..Len(order) :
                            /\ ConnOf[order[p]] = c /\ Count(c, p) = ((i - 1) \div PkgSize) + 1
                            /\ wire'[c][i] = <<order[p], ((i - 1) % PkgSize) + 1>>
      BY <1>a, <1>b, <3>1 DEF FifoNow, WireIsFifo
    <3>2. CASE c # sc
      BY <2>10, <3>1, <3>2
    <3>3. CASE c = sc /\ i <= PkgSize * r
      <4>1. PkgSize * r \in Nat
        BY <1>d, <2>8
      <4>2. i \in 1..(PkgSize * r)
        BY <2>11, <3>3, <4>1
      <4> QED BY <2>8, <2>11, <3>1, <3>3, <4>2
    <3>4. CASE c = sc /\ ~(i <= PkgSize * r)
      <4> DEFINE k == i - PkgSize * r
      <4>1. PkgSize * r \in Nat /\ i \in Nat
        BY <1>d, <2>8, <2>11, <3>4
      <4>2. k \in 1..PkgSize /\ i = PkgSize * r + k /\ i - 1 = PkgSize * r + k - 1
        BY <1>d, <2>11, <3>4, <4>1
      <4> HIDE DEF k
      <4>3. (i - 1) \div PkgSize = r /\ (i - 1) % PkgSize = k - 1
        <5>1. PkgSize \in Nat \ {0} /\ r \in Nat /\ k \in 1..PkgSize
          BY <1>d, <2>8, <4>2
        <5>2. (PkgSize * r + k - 1) \div PkgSize = r /\ (PkgSize * r + k - 1) % PkgSize = k - 1
          BY <5>1, UnitPlace
        <5> QED BY <4>2, <5>2, Zenon
      <4>4. ((i - 1) % PkgSize) + 1 = k
        BY <1>d, <4>2, <4>3
      <4>5. wire'[sc][i] = <<order[Taken], k>>
        BY <2>1, <2>11, <4>2
      <4>6. ConnOf[order[Taken]] = c /\ Count(c, Taken) = ((i - 1) \div PkgSize) + 1
        BY <2>1, <2>6, <3>4, <4>3 DEF r
      <4> QED BY <2>4, <3>4, <4>4, <4>5, <4>6
    <3> QED BY <3>2, <3>3, <3>4
  <2>14. \A i \in 1..Len(list') : list'[i] = order'[Taken' + i]
    BY <1>b, <2>3, <2>4 DEF FifoNow
  <2>15. Sent' \in Nat
    BY <2>4
  <2> QED BY <2>3, <2>12, <2>13, <2>14, <2>15 DEF FifoNow
<1>9. CASE BookDone
  BY <1>9, <1>f DEF BookDone, queue, hist
<1>10. CASE BookNull
  <2>1. UNCHANGED <<list, order, wire>> /\ spc # "send" /\ spc' # "send"
    BY <1>10 DEF BookNull, queue, hist
  <2>2. Taken' = Taken /\ Sent' = Sent
    BY <2>1 DEF Taken, Sent
  <2>3. Taken' = Taken + Len(list) - Len(list')
    BY <1>c, <2>1, <2>2 DEF Taken
  <2>4. \A i \in 1..Len(list') : list'[i] = order[Taken' + i]
    BY <1>b, <2>1, <2>2 DEF FifoNow
  <2> QED BY <1>a, <1>b, <1>e, <2>1, <2>2, <2>3, <2>4, FifoSame
<1> QED
  BY <1>a, <1>1, <1>2, <1>3, <1>4, <1>5, <1>6, <1>7, <1>8, <1>9, <1>10 DEF CleanNext

\* While sockets take what they are given and no connection is closed, a peer
\* receives the whole packages of its own replies, in the order in which the pool
\* threads pushed them, for any number of replies, connections and package size.
THEOREM WireCorrect == Spec => []WireIsFifo
<1>1. Init => Fifo
  <2> SUFFICES ASSUME Init PROVE FifoNow
    BY DEF Fifo
  <2>1. Len(list) = 0 /\ Len(order) = 0 /\ Taken = 0 /\ Sent = 0 /\ spc = "wait"
    BY DEF Init, Taken, Sent
  <2>2. \A c : Count(c, 0) = 0
    <3>1. \A c : {j \in 1..0 : ConnOf[order[j]] = c} = {}
      OBVIOUS
    <3> QED BY <3>1, FS_EmptySet DEF Count
  <2>3. \A c \in Conn : Len(wire[c]) = 0
    BY DEF Init
  <2>4. \A c \in Conn : Len(wire[c]) = PkgSize * Count(c, Sent)
    BY <2>1, <2>2, <2>3, BoundAssumption
  <2>5. WireIsFifo
    BY <2>3 DEF WireIsFifo
  <2> QED BY <2>1, <2>4, <2>5 DEF FifoNow
<1>2. Fifo => WireIsFifo
  BY DEF Fifo, FifoNow, WireIsFifo
<1> QED BY <1>1, <1>2, StepFifo, CleanCorrect, PTL DEF Spec
=============================================================================
