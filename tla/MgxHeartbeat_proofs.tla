------------------------- MODULE MgxHeartbeat_proofs -------------------------
(***************************************************************************)
(* Proofs about MgxHeartbeat, for any number of connections, messages,     *)
(* seconds and periods:                                                    *)
(*                                                                         *)
(*   TypeCorrect     the type invariant                                    *)
(*   AnsweredCorrect a peer that was answered is not found silent          *)
(*   SilentCorrect   a peer that is silent is recycled in time             *)
(*   EntriesCorrect  without resets, the queue holds no stale entries      *)
(*                                                                         *)
(* The inductive invariants are layers: what is true of the queue and of   *)
(* the clock (Clock), and on top of it one layer for each property.        *)
(***************************************************************************)
EXTENDS MgxHeartbeat, WellFoundedInduction, TLAPS

Awake == {"walk", "silence", "erase", "recycle"}

-----------------------------------------------------------------------------
(* The queue and the clock. *)

\* m_timer_queue is sorted, the size and the head are kept beside it, and no
\* entry is further away than one period.
Sorted(q) == \A i, k \in 1..Len(q) : i <= k => q[i].at <= q[k].at
QueueOK ==
    /\ Sorted(queue)
    /\ size = Len(queue)
    /\ size > 0 => head = queue[1].at
    /\ \A i \in 1..Len(queue) : queue[i].at <= now + Wait

\* The places of the two threads and what their variables hold there.
PlacesOK ==
    /\ tpc \in {"silence", "erase", "recycle"} => tc \in Conn
    /\ mpc # "idle" => mc \in Conn
    /\ tpc \in Awake => cur = now
    /\ tpc \notin Awake => que = <<>>
    /\ \A c \in Conn : ping[c] <= now

\* The head, which is stale while the queue is empty, is never further away than
\* one period, except for the value it has before it is set: the first sleep
\* lasts until then.
HeadNear ==
    \/ head <= now + Wait
    \/ fresh /\ tpc = "tired"
    \/ fresh /\ tpc = "sleep" /\ head <= wake

\* The monitor thread, after its first sleep, does not sleep past a second after
\* any entry that is there or may be added.
WakesInTime ==
    /\ tpc # "sleep" => \A i \in 1..Len(queue) : now <= queue[i].at
    /\ tpc = "sleep" /\ ~fresh =>
         /\ wake <= now + Wait + 1
         /\ \A i \in 1..Len(queue) : wake <= queue[i].at + 1 /\ now <= queue[i].at + 1

Clock == TypeOK /\ QueueOK /\ PlacesOK /\ HeadNear /\ WakesInTime

-----------------------------------------------------------------------------
(* Answered peers. *)

\* What was answered to the peer that a connection serves now, or is about to
\* be, is not after last_ping_time.
AnswersOK ==
    /\ \A c \in Conn : /\ echo[c].seq <= seq[c]
                       /\ echo[c].seq = seq[c] => echo[c].at <= ping[c]
    /\ \A j \in Job : job[j] # None =>
         /\ job[j].seq <= seq[job[j].conn]
         /\ job[j].pc = "reply" /\ job[j].seq = seq[job[j].conn]
              => job[j].at <= ping[job[j].conn]

-----------------------------------------------------------------------------
(* Silent peers. *)

\* The monitor thread is going to look at c in this walk.
Pending(c) ==
    \/ tpc = "silence" /\ tc = c
    \/ \E k \in 1..Len(que) : que[k].conn = c /\ que[k].seq = seq[c]

\* c has an entry of its present peer, in time to notice three silent periods.
Watched(c) ==
    \E i \in 1..Len(queue) : /\ queue[i].conn = c /\ queue[i].seq = seq[c]
                             /\ queue[i].at <= ping[c] + 4 * Wait \/ Pending(c)

\* A thread is about to give c an entry or to close it.
Between(c) ==
    \/ mpc = "add" /\ mc = c /\ ping[c] = now
    \/ mpc = "recycle" /\ mc = c
    \/ tpc \in {"erase", "recycle"} /\ tc = c

WatchOK ==
    \A c \in Conn \ twice : on[c] => /\ c \notin recy
                                     /\ Watched(c) \/ Between(c)

-----------------------------------------------------------------------------
(* Entries of the present peers, as long as no connection is reset. *)

\* An object is free, or serves a peer, or waits in the recovery set.
ObjectOK ==
    \A c \in Conn : /\ free[c] <= 1
                    /\ on[c] => free[c] = 0 /\ c \notin recy
                    /\ c \in recy => free[c] = 0

\* What a thread is about to recycle is still served or was put into the
\* recovery set by the other thread, and it has been there for less than a second.
JustClosed(c) == on[c] \/ (c \in recy /\ inrecy[c] = now)

ThreadsOK ==
    /\ tpc \in {"silence", "erase", "recycle"} =>
         JustClosed(tc) /\ ~(mpc = "add" /\ mc = tc)
    /\ mpc = "recycle" => JustClosed(mc)
    /\ mpc = "add" => on[mc]
    /\ \A k \in 1..Len(que) :
         /\ que[k].seq <= seq[que[k].conn]
         /\ que[k].seq = seq[que[k].conn] =>
              on[que[k].conn] /\ ~(mpc = "add" /\ mc = que[k].conn)

\* The entries: of the present peers, one for each.  A connection that is about
\* to get one, or whose entry was erased, has none.
EntriesOK ==
    \A i \in 1..Len(queue) :
        /\ on[queue[i].conn] /\ queue[i].seq = seq[queue[i].conn]
        /\ \A k \in 1..Len(queue) : queue[k].conn = queue[i].conn => k = i
        /\ mpc # "idle" => mc # queue[i].conn
        /\ tpc = "recycle" => tc # queue[i].conn

CurrentNow == ObjectOK /\ ThreadsOK /\ EntriesOK
Current == resets = 0 => CurrentNow

-----------------------------------------------------------------------------
(* The operations of the queue. *)

\* A nonempty set of natural numbers has a least one.
LEMMA LeastExists ==
    ASSUME NEW S \in SUBSET Nat, S # {}
    PROVE  \E i \in S : \A k \in S : i <= k
<1>1. \E i \in S : \A k \in S : ~(<<k, i>> \in OpToRel(<, Nat))
  BY NatLessThanWellFounded, WFMin, Zenon
<1>2. PICK i \in S : \A k \in S : ~(<<k, i>> \in OpToRel(<, Nat))
  BY <1>1
<1>3. \A k \in S : i <= k
  <2> TAKE k \in S
  <2>1. k \in Nat /\ i \in Nat
    OBVIOUS
  <2>2. ~(k < i)
    BY <1>2, <2>1 DEF OpToRel
  <2> QED BY <2>1, <2>2
<1> QED BY <1>3

\* What is in a queue.
LEMMA EntryType ==
    ASSUME NEW q \in Seq(Entry)
    PROVE  /\ Len(q) \in Nat
           /\ \A i \in 1..Len(q) : /\ q[i] \in Entry /\ q[i].conn \in Conn
                                    /\ q[i].seq \in Nat /\ q[i].at \in Nat
<1>1. Len(q) \in Nat /\ \A i \in 1..Len(q) : q[i] \in Entry
  OBVIOUS
<1>2. \A e \in Entry : e.conn \in Conn /\ e.seq \in Nat /\ e.at \in Nat
  BY DEF Entry
<1> QED BY <1>1, <1>2

LEMMA StampType ==
    ASSUME NEW s \in Seq(Stamp)
    PROVE  /\ Len(s) \in Nat
           /\ \A i \in 1..Len(s) : s[i] \in Stamp /\ s[i].conn \in Conn /\ s[i].seq \in Nat
<1>1. Len(s) \in Nat /\ \A i \in 1..Len(s) : s[i] \in Stamp
  OBVIOUS
<1>2. \A e \in Stamp : e.conn \in Conn /\ e.seq \in Nat
  BY DEF Stamp
<1> QED BY <1>1, <1>2

\* In a sorted queue the entries that are due come first.
LEMMA UpperBoundSplits ==
    ASSUME NEW q \in Seq(Entry), Sorted(q), NEW t \in Nat
    PROVE  /\ UpperBound(q, t) \in 0..Len(q)
           /\ \A i \in 1..UpperBound(q, t) : q[i].at <= t
           /\ \A i \in (UpperBound(q, t) + 1)..Len(q) : q[i].at > t
<1> DEFINE S == {k \in 0..Len(q) : \A i \in (k + 1)..Len(q) : q[i].at > t}
<1>1. Len(q) \in Nat /\ \A i \in 1..Len(q) : q[i].at \in Nat
  BY EntryType
<1>2. S \in SUBSET Nat /\ Len(q) \in S
  BY <1>1
<1>3. PICK k \in S : \A m \in S : k <= m
  BY <1>2, LeastExists
<1>4. k \in 0..Len(q) /\ \A i \in (k + 1)..Len(q) : q[i].at > t
  OBVIOUS
<1>5. k > 0 => ~(q[k].at > t)
  <2> SUFFICES ASSUME k > 0, q[k].at > t PROVE FALSE
    OBVIOUS
  <2>1. k - 1 \in 0..Len(q) /\ \A i \in ((k - 1) + 1)..Len(q) : q[i].at > t
    BY <1>1, <1>4
  <2>2. k - 1 \in S
    BY <2>1
  <2>3. k <= k - 1
    BY <1>3, <2>2, Zenon
  <2>4. k \in Nat
    BY <1>4
  <2> QED BY <2>3, <2>4
<1>6. \A i \in 1..k : q[i].at <= t
  BY <1>1, <1>4, <1>5 DEF Sorted
<1>7. \E m \in 0..Len(q) : /\ \A i \in 1..m : q[i].at <= t
                           /\ \A i \in (m + 1)..Len(q) : q[i].at > t
  BY <1>4, <1>6
<1> HIDE DEF S
<1> QED BY <1>7, Zenon DEF UpperBound

\* The elements of a concatenation.
LEMMA ConcatElements ==
    ASSUME NEW S, NEW a \in Seq(S), NEW b \in Seq(S)
    PROVE  \A i \in 1..Len(a \o b) : (a \o b)[i] = IF i <= Len(a) THEN a[i] ELSE b[i - Len(a)]
OBVIOUS

\* What emplace does when no entry is later than t: the new ones are the last.
LEMMA EmplaceAtEnd ==
    ASSUME NEW q \in Seq(Entry), NEW s \in Seq(Stamp), NEW t \in Nat,
           \A i \in 1..Len(q) : q[i].at <= t
    PROVE  /\ Emplace(q, s, t) \in Seq(Entry)
           /\ Len(Emplace(q, s, t)) = Len(q) + Len(s)
           /\ \A i \in 1..Len(q) : Emplace(q, s, t)[i] = q[i]
           /\ \A i \in 1..Len(s) : Emplace(q, s, t)[Len(q) + i]
                = [conn |-> s[i].conn, seq |-> s[i].seq, at |-> t]
<1> DEFINE new == [i \in 1..Len(s) |-> [conn |-> s[i].conn, seq |-> s[i].seq, at |-> t]]
<1>1. UpperBound(q, t) = Len(q)
  <2>1. Len(q) \in Nat /\ \A i \in 1..Len(q) : q[i].at \in Nat
    BY EntryType
  <2>2. \A k \in 0..Len(q) :
          (/\ \A i \in 1..k : q[i].at <= t
           /\ \A i \in (k + 1)..Len(q) : q[i].at > t) <=> k = Len(q)
    BY <2>1
  <2> QED BY <2>1, <2>2 DEF UpperBound
<1>2. Due(q, t) = q /\ Later(q, t) = <<>>
  BY <1>1 DEF Due, Later
<1>3. new \in Seq(Entry) /\ Len(new) = Len(s)
  <2>1. \A i \in 1..Len(s) : [conn |-> s[i].conn, seq |-> s[i].seq, at |-> t] \in Entry
    BY StampType DEF Entry
  <2> QED BY <2>1
<1>4. Emplace(q, s, t) = q \o new
  <2> HIDE DEF new
  <2>1. (q \o new) \o <<>> = q \o new
    BY <1>3
  <2>2. Emplace(q, s, t) = Due(q, t) \o new \o Later(q, t)
    BY DEF Emplace, new
  <2> QED BY <1>2, <2>1, <2>2
<1>5. \A i \in 1..Len(s) : new[i] = [conn |-> s[i].conn, seq |-> s[i].seq, at |-> t]
  OBVIOUS
<1> HIDE DEF new
<1>6. /\ q \o new \in Seq(Entry)
      /\ Len(q \o new) = Len(q) + Len(s)
      /\ \A i \in 1..Len(q) : (q \o new)[i] = q[i]
      /\ \A i \in 1..Len(s) : (q \o new)[Len(q) + i] = new[i]
  BY <1>3, SMTT(30)
<1> QED BY <1>4, <1>5, <1>6

\* add_to_timer_queue, while no entry is further away than one period: the new
\* entry is the last.
LEMMA AddAppends ==
    ASSUME TypeOK, QueueOK, NEW c \in Conn, AddToTimerQueue(c)
    PROVE  /\ queue' \in Seq(Entry)
           /\ Len(queue') = Len(queue) + 1
           /\ \A i \in 1..Len(queue) : queue'[i] = queue[i]
           /\ queue'[Len(queue) + 1] = [conn |-> c, seq |-> seq[c], at |-> now + Wait]
           /\ size' = size + 1
           /\ head' = queue'[1].at
<1> DEFINE s == <<[conn |-> c, seq |-> seq[c]]>>
<1>1. queue \in Seq(Entry) /\ now \in Nat /\ seq[c] \in Nat /\ now + Wait \in Nat
  BY BoundAssumption, WaitAssumption DEF TypeOK
<1>2. s \in Seq(Stamp) /\ Len(s) = 1 /\ s[1] = [conn |-> c, seq |-> seq[c]]
  BY <1>1 DEF Stamp
<1>3. queue' = Emplace(queue, s, now + Wait)
  BY DEF AddToTimerQueue
<1>4. \A i \in 1..Len(queue) : queue[i].at <= now + Wait
  BY DEF QueueOK
<1> HIDE DEF s
<1> DEFINE e == Emplace(queue, s, now + Wait)
<1>a. /\ e \in Seq(Entry)
      /\ Len(e) = Len(queue) + Len(s)
      /\ \A i \in 1..Len(queue) : e[i] = queue[i]
      /\ \A i \in 1..Len(s) : e[Len(queue) + i]
           = [conn |-> s[i].conn, seq |-> s[i].seq, at |-> now + Wait]
  <2> DEFINE t == now + Wait
  <2>1. /\ queue \in Seq(Entry) /\ s \in Seq(Stamp) /\ t \in Nat
        /\ \A i \in 1..Len(queue) : queue[i].at <= t
    BY <1>1, <1>2, <1>4, Zenon
  <2> HIDE DEF t
  <2>2. /\ Emplace(queue, s, t) \in Seq(Entry)
        /\ Len(Emplace(queue, s, t)) = Len(queue) + Len(s)
        /\ \A i \in 1..Len(queue) : Emplace(queue, s, t)[i] = queue[i]
        /\ \A i \in 1..Len(s) : Emplace(queue, s, t)[Len(queue) + i]
             = [conn |-> s[i].conn, seq |-> s[i].seq, at |-> t]
    BY <2>1, EmplaceAtEnd, Zenon
  <2> QED BY <2>2, Zenon DEF t
<1> HIDE DEF e
<1>b. queue' = e
  BY <1>3 DEF e
<1>5. /\ queue' \in Seq(Entry)
      /\ Len(queue') = Len(queue) + 1
      /\ \A i \in 1..Len(queue) : queue'[i] = queue[i]
      /\ \A i \in 1..1 : queue'[Len(queue) + i]
           = [conn |-> s[i].conn, seq |-> s[i].seq, at |-> now + Wait]
  BY <1>2, <1>a, <1>b
<1>6. queue'[Len(queue) + 1] = [conn |-> c, seq |-> seq[c], at |-> now + Wait]
  BY <1>2, <1>5
<1> QED BY <1>5, <1>6 DEF AddToTimerQueue

\* delete_from_timer_queue: nothing, or one entry of the connection is gone and
\* the others stay in their order.
LEMMA DeleteTakesOne ==
    ASSUME TypeOK, QueueOK, NEW c \in Conn, DeleteFromTimerQueue(c)
    PROVE  /\ queue' \in Seq(Entry)
           /\ \/ /\ \A i \in 1..Len(queue) : queue[i].conn # c
                 /\ queue' = queue /\ size' = size
              \/ /\ size' = size - 1 /\ Len(queue') = Len(queue) - 1
                 /\ \E f \in 1..Len(queue) :
                      /\ queue[f].conn = c
                      /\ \A i \in 1..Len(queue') :
                           queue'[i] = IF i < f THEN queue[i] ELSE queue[i + 1]
           /\ head' = IF size' > 0 THEN queue'[1].at ELSE head
<1> DEFINE mine == {i \in 1..Len(queue) : queue[i].conn = c}
           first == CHOOSE i \in mine : \A k \in mine : i <= k
<1>1. queue \in Seq(Entry) /\ Len(queue) \in Nat
  BY DEF TypeOK
<1>2. head' = IF size' > 0 THEN queue'[1].at ELSE head
  BY DEF DeleteFromTimerQueue
<1>3. CASE mine = {}
  BY <1>1, <1>2, <1>3 DEF DeleteFromTimerQueue
<1>4. CASE mine # {}
  <2>1. mine \in SUBSET Nat
    BY <1>1
  <2>2. \E i \in mine : \A k \in mine : i <= k
    BY <1>4, <2>1, LeastExists
  <2>3. first \in mine
    BY <2>2, Zenon
  <2>4. first \in 1..Len(queue) /\ queue[first].conn = c
    BY <2>3
  <2>5. /\ queue' = SubSeq(queue, 1, first - 1) \o SubSeq(queue, first + 1, Len(queue))
        /\ size' = size - 1
    BY <1>4 DEF DeleteFromTimerQueue
  <2> HIDE DEF first, mine
  <2>6. /\ queue' \in Seq(Entry)
        /\ Len(queue') = Len(queue) - 1
        /\ \A i \in 1..Len(queue') : queue'[i] = IF i < first THEN queue[i] ELSE queue[i + 1]
    <3> DEFINE a == SubSeq(queue, 1, first - 1)
               b == SubSeq(queue, first + 1, Len(queue))
    <3>1. a \in Seq(Entry) /\ Len(a) = first - 1 /\ \A i \in 1..(first - 1) : a[i] = queue[i]
      BY <1>1, <2>4
    <3>2. /\ b \in Seq(Entry) /\ Len(b) = Len(queue) - first
          /\ \A i \in 1..(Len(queue) - first) : b[i] = queue[first + i]
      BY <1>1, <2>4
    <3> HIDE DEF a, b
    <3>3. queue' = a \o b
      BY <2>5 DEF a, b
    <3>4. queue' \in Seq(Entry) /\ Len(queue') = Len(a) + Len(b)
      <4>1. a \in Seq(Entry) /\ b \in Seq(Entry)
        BY <3>1, <3>2
      <4>2. a \o b \in Seq(Entry) /\ Len(a \o b) = Len(a) + Len(b)
        BY <4>1
      <4> QED BY <3>3, <4>2
    <3>5. Len(queue') = Len(queue) - 1
      BY <1>1, <2>4, <3>1, <3>2, <3>4
    <3>6. \A i \in 1..Len(queue') : queue'[i] = IF i <= Len(a) THEN a[i] ELSE b[i - Len(a)]
      <4>1. a \in Seq(Entry) /\ b \in Seq(Entry)
        BY <3>1, <3>2
      <4>2. \A i \in 1..Len(a \o b) : (a \o b)[i] = IF i <= Len(a) THEN a[i] ELSE b[i - Len(a)]
        BY <4>1, ConcatElements, Zenon
      <4> QED BY <3>3, <4>2, Zenon
    <3>7. ASSUME NEW i \in 1..Len(queue')
          PROVE  queue'[i] = IF i < first THEN queue[i] ELSE queue[i + 1]
      <4>1. CASE i < first
        BY <1>1, <2>4, <3>1, <3>5, <3>6, <4>1
      <4>2. CASE ~(i < first)
        <5>1. /\ ~(i <= Len(a)) /\ i - Len(a) \in 1..(Len(queue) - first)
              /\ first + (i - Len(a)) = i + 1
          BY <1>1, <2>4, <3>1, <3>5, <4>2
        <5> QED BY <3>2, <3>6, <4>2, <5>1
      <4> QED BY <4>1, <4>2
    <3> QED BY <3>4, <3>5, <3>7
  <2> QED BY <1>2, <2>4, <2>5, <2>6
<1> QED BY <1>3, <1>4

\* The loop over get_over_time_timer: the entries that are due become the last
\* ones, a period from now, and are what the thread walks over.
LEMMA WakeRotates ==
    ASSUME TypeOK, QueueOK, WakeForTimers
    PROVE  \E k \in 0..Len(queue) :
             /\ \A i \in 1..k : queue[i].at <= now
             /\ \A i \in (k + 1)..Len(queue) : queue[i].at > now
             /\ queue' \in Seq(Entry) /\ Len(queue') = Len(queue)
             /\ \A i \in 1..(Len(queue) - k) : queue'[i] = queue[k + i]
             /\ \A i \in 1..k : queue'[(Len(queue) - k) + i]
                  = [conn |-> queue[i].conn, seq |-> queue[i].seq, at |-> now + Wait]
             /\ que' \in Seq(Stamp) /\ Len(que') = k
             /\ \A i \in 1..k : que'[i] = [conn |-> queue[i].conn, seq |-> queue[i].seq]
<1> DEFINE k == UpperBound(queue, now)
           later == Later(queue, now)
           due == Due(queue, now)
<1>1. queue \in Seq(Entry) /\ Len(queue) \in Nat /\ now \in Nat /\ now + Wait \in Nat
  BY BoundAssumption, WaitAssumption DEF TypeOK
<1>2. /\ k \in 0..Len(queue)
      /\ \A i \in 1..k : queue[i].at <= now
      /\ \A i \in (k + 1)..Len(queue) : queue[i].at > now
  BY <1>1, UpperBoundSplits DEF QueueOK
<1>3. due = SubSeq(queue, 1, k) /\ later = SubSeq(queue, k + 1, Len(queue))
  BY DEF Due, Later
<1>4. que' = Stamps(due) /\ queue' = Emplace(later, que', now + Wait)
  BY DEF WakeForTimers
<1>5. \A i \in 1..Len(queue) : queue[i].at <= now + Wait
  BY DEF QueueOK
<1> HIDE DEF k, later, due
<1>6. /\ due \in Seq(Entry) /\ Len(due) = k /\ \A i \in 1..k : due[i] = queue[i]
  BY <1>1, <1>2, <1>3
<1>7. /\ later \in Seq(Entry) /\ Len(later) = Len(queue) - k
      /\ \A i \in 1..(Len(queue) - k) : later[i] = queue[k + i]
  BY <1>1, <1>2, <1>3
<1>8. /\ que' \in Seq(Stamp) /\ Len(que') = k
      /\ \A i \in 1..k : que'[i] = [conn |-> queue[i].conn, seq |-> queue[i].seq]
  <2>1. \A i \in 1..k : [conn |-> due[i].conn, seq |-> due[i].seq] \in Stamp
    BY <1>6, EntryType DEF Stamp
  <2>2. que' = [i \in 1..k |-> [conn |-> due[i].conn, seq |-> due[i].seq]]
    BY <1>4, <1>6 DEF Stamps
  <2>3. que' \in Seq(Stamp) /\ Len(que') = k
    BY <1>2, <2>1, <2>2
  <2> QED BY <1>6, <2>2, <2>3
<1>9. \A i \in 1..Len(later) : later[i].at <= now + Wait
  BY <1>1, <1>2, <1>5, <1>7, SMTT(30)
<1> DEFINE s == que'
           e == Emplace(later, s, now + Wait)
<1>a. /\ e \in Seq(Entry)
      /\ Len(e) = Len(later) + Len(s)
      /\ \A i \in 1..Len(later) : e[i] = later[i]
      /\ \A i \in 1..Len(s) : e[Len(later) + i]
           = [conn |-> s[i].conn, seq |-> s[i].seq, at |-> now + Wait]
  <2> DEFINE t == now + Wait
  <2>1. s \in Seq(Stamp) /\ t \in Nat
    BY <1>1, <1>8
  <2>2. later \in Seq(Entry) /\ \A i \in 1..Len(later) : later[i].at <= t
    BY <1>7, <1>9, Zenon
  <2> HIDE DEF s, t
  <2>3. /\ Emplace(later, s, t) \in Seq(Entry)
        /\ Len(Emplace(later, s, t)) = Len(later) + Len(s)
        /\ \A i \in 1..Len(later) : Emplace(later, s, t)[i] = later[i]
        /\ \A i \in 1..Len(s) : Emplace(later, s, t)[Len(later) + i]
             = [conn |-> s[i].conn, seq |-> s[i].seq, at |-> t]
    BY <2>1, <2>2, EmplaceAtEnd, Zenon
  <2> QED BY <2>3, Zenon DEF t
<1>b. queue' = e
  BY <1>4
<1> HIDE DEF e
<1>10. /\ queue' \in Seq(Entry)
       /\ Len(queue') = Len(later) + Len(que')
       /\ \A i \in 1..Len(later) : queue'[i] = later[i]
       /\ \A i \in 1..Len(que') : queue'[Len(later) + i]
            = [conn |-> que'[i].conn, seq |-> que'[i].seq, at |-> now + Wait]
  BY <1>a, <1>b
<1>11. \A i \in 1..k : queue'[(Len(queue) - k) + i]
         = [conn |-> queue[i].conn, seq |-> queue[i].seq, at |-> now + Wait]
  <2> TAKE i \in 1..k
  <2>1. queue'[Len(later) + i] = [conn |-> que'[i].conn, seq |-> que'[i].seq, at |-> now + Wait]
    BY <1>8, <1>10
  <2>2. que'[i].conn = queue[i].conn /\ que'[i].seq = queue[i].seq
    BY <1>8
  <2> QED BY <1>7, <2>1, <2>2
<1>12. Len(queue') = Len(queue)
  BY <1>1, <1>2, <1>7, <1>8, <1>10
<1> QED BY <1>2, <1>7, <1>8, <1>10, <1>11, <1>12

-----------------------------------------------------------------------------
(* Types. *)

TimerType == queue \in Seq(Entry) /\ size \in Nat /\ head \in Nat
MonitorType ==
    /\ tpc \in {"sleep", "walk", "silence", "erase", "recycle", "tired"}
    /\ wake \in Nat /\ fresh \in BOOLEAN /\ cur \in 0..MaxTime
    /\ que \in Seq(Stamp) /\ tc \in Conn \cup {None}
ConnType ==
    /\ seq \in [Conn -> Nat] /\ ping \in [Conn -> 0..MaxTime]
    /\ on \in [Conn -> BOOLEAN] /\ free \in [Conn -> Nat] /\ recy \subseteq Conn
    /\ inrecy \in [Conn -> 0..MaxTime]
Message == [conn : Conn, seq : Nat, pkg : Packages, at : 0..MaxTime,
            pc : {"queued", "refresh", "reply"}]
PoolType == job \in [Job -> Message \cup {None}] /\ echo \in [Conn -> [seq : Nat, at : 0..MaxTime]]
LoopType ==
    /\ now \in 0..MaxTime
    /\ mpc \in {"idle", "add", "recycle"} /\ mc \in Conn \cup {None}
    /\ accepts \in 0..MaxAccept /\ resets \in Nat /\ twice \subseteq Conn

LEMMA TypeParts == TypeOK <=> TimerType /\ MonitorType /\ ConnType /\ PoolType /\ LoopType
BY DEF TypeOK, TimerType, MonitorType, ConnType, PoolType, LoopType, Message

LEMMA TypePartsNext ==
    ASSUME TimerType', MonitorType', ConnType', PoolType', LoopType'
    PROVE  TypeOK'
BY DEF TypeOK, TimerType, MonitorType, ConnType, PoolType, LoopType, Message

LEMMA TypeSame ==
    /\ TimerType /\ UNCHANGED timer => TimerType'
    /\ MonitorType /\ UNCHANGED monitor => MonitorType'
    /\ ConnType /\ UNCHANGED conn => ConnType'
    /\ PoolType /\ UNCHANGED pool => PoolType'
    /\ LoopType /\ UNCHANGED <<now, loop, history>> => LoopType'
<1>1. TimerType /\ UNCHANGED timer => TimerType'
  BY DEF TimerType, timer
<1>2. MonitorType /\ UNCHANGED monitor => MonitorType'
  BY DEF MonitorType, monitor
<1>3. ConnType /\ UNCHANGED conn => ConnType'
  BY DEF ConnType, conn
<1>4. PoolType /\ UNCHANGED pool => PoolType'
  BY DEF PoolType, pool
<1>5. LoopType /\ UNCHANGED <<now, loop, history>> => LoopType'
  BY DEF LoopType, loop, history
<1> QED BY <1>1, <1>2, <1>3, <1>4, <1>5

\* A message is None or has its parts.
LEMMA MessageParts ==
    ASSUME PoolType, NEW j \in Job, job[j] # None
    PROVE  /\ job[j] \in Message
           /\ job[j].conn \in Conn /\ job[j].seq \in Nat /\ job[j].at \in 0..MaxTime
BY DEF PoolType, Message

LEMMA DeleteType ==
    ASSUME TypeOK, TimerType, QueueOK, NEW c \in Conn, DeleteFromTimerQueue(c)
    PROVE  TimerType'
<1>1. /\ queue' \in Seq(Entry)
      /\ head' = IF size' > 0 THEN queue'[1].at ELSE head
      /\ \/ size' = size /\ queue' = queue
         \/ size' = size - 1 /\ Len(queue') = Len(queue) - 1 /\ Len(queue) > 0
  <2>0. queue' \in Seq(Entry) /\ head' = IF size' > 0 THEN queue'[1].at ELSE head
    BY DeleteTakesOne, Zenon
  <2>1. CASE queue' = queue /\ size' = size
    BY <2>0, <2>1, Zenon
  <2>2. CASE ~(queue' = queue /\ size' = size)
    <3>1. size' = size - 1 /\ Len(queue') = Len(queue) - 1 /\ \E f \in 1..Len(queue) : TRUE
      BY <2>2, DeleteTakesOne
    <3>2. Len(queue) > 0
      BY <3>1 DEF TimerType
    <3> QED BY <2>0, <3>1, <3>2, Zenon
  <2> QED BY <2>1, <2>2
<1>2. size' = Len(queue') /\ size' \in Nat
  BY <1>1 DEF QueueOK, TimerType
<1>3. head' \in Nat
  BY <1>1, <1>2, EntryType DEF TimerType
<1> QED BY <1>1, <1>2, <1>3 DEF TimerType

LEMMA TypeStep ==
    ASSUME TypeOK, QueueOK, PlacesOK, [Next]_vars
    PROVE  TypeOK'
<1> USE DEF timer, monitor, conn, loop, pool, history
<1>0. TimerType /\ MonitorType /\ ConnType /\ PoolType /\ LoopType
  BY TypeParts
<1>1. CASE FallAsleep
  <2>1. MonitorType'
    BY <1>1, <1>0 DEF FallAsleep, MonitorType, TimerType, LoopType
  <2>2. UNCHANGED <<timer, conn, pool, <<now, loop, history>>>>
    BY <1>1 DEF FallAsleep
  <2> QED BY <1>0, <2>1, <2>2, TypePartsNext, TypeSame
<1>2. CASE WakeForNothing
  <2>1. MonitorType'
    BY <1>2, <1>0 DEF WakeForNothing, MonitorType
  <2>2. UNCHANGED <<timer, conn, pool, <<now, loop, history>>>>
    BY <1>2 DEF WakeForNothing
  <2> QED BY <1>0, <2>1, <2>2, TypePartsNext, TypeSame
<1>3. CASE WakeForTimers
  <2>a. queue' \in Seq(Entry) /\ que' \in Seq(Stamp) /\ Len(queue') = Len(queue)
    BY <1>3, WakeRotates
  <2>b. size > 0 /\ head' = queue'[1].at
    BY <1>3 DEF WakeForTimers
  <2>c. head' \in Nat
    BY <2>a, <2>b, EntryType DEF QueueOK
  <2>d. tpc' = "walk" /\ wake' = 0 /\ fresh' = fresh /\ cur' = now /\ tc' = tc
    BY <1>3 DEF WakeForTimers
  <2>1. TimerType'
    BY <1>3, <1>0, <2>a, <2>c DEF WakeForTimers, TimerType
  <2>2. MonitorType'
    BY <1>0, <2>a, <2>d DEF MonitorType, LoopType
  <2>3. UNCHANGED <<conn, pool, <<now, loop, history>>>>
    BY <1>3 DEF WakeForTimers
  <2> QED BY <1>0, <2>1, <2>2, <2>3, TypePartsNext, TypeSame
<1>4. CASE WalkEnd
  <2>a. tpc' = "tired" /\ wake' = wake /\ fresh' = FALSE /\ cur' = 0 /\ que' = que /\ tc' = tc
    BY <1>4 DEF WalkEnd
  <2>b. 0 \in 0..MaxTime
    BY BoundAssumption
  <2>1. MonitorType'
    BY <1>0, <2>a, <2>b DEF MonitorType
  <2>2. UNCHANGED <<timer, conn, pool, <<now, loop, history>>>>
    BY <1>4 DEF WalkEnd
  <2> QED BY <1>0, <2>1, <2>2, TypePartsNext, TypeSame
<1>5. CASE WalkOne
  <2>a. que \in Seq(Stamp) /\ que # <<>>
    BY <1>5, <1>0 DEF MonitorType, WalkOne
  <2>b. Tail(que) \in Seq(Stamp) /\ Head(que).conn \in Conn
    BY <2>a, StampType
  <2>1. MonitorType'
    BY <1>5, <1>0, <2>b DEF WalkOne, MonitorType
  <2>2. UNCHANGED <<timer, conn, pool, <<now, loop, history>>>>
    BY <1>5 DEF WalkOne
  <2> QED BY <1>0, <2>1, <2>2, TypePartsNext, TypeSame
<1>6. CASE TestSilence
  <2>1. MonitorType'
    BY <1>6, <1>0 DEF TestSilence, MonitorType
  <2>2. UNCHANGED <<timer, conn, pool, <<now, loop, history>>>>
    BY <1>6 DEF TestSilence
  <2> QED BY <1>0, <2>1, <2>2, TypePartsNext, TypeSame
<1>7. CASE MonitorErase
  <2>a. tc \in Conn /\ DeleteFromTimerQueue(tc)
    BY <1>7 DEF MonitorErase, PlacesOK
  <2>b. TimerType'
    BY <1>0, <2>a, DeleteType
  <2>1. TimerType'
    BY <2>b
  <2>2. MonitorType'
    BY <1>7, <1>0 DEF MonitorErase, MonitorType
  <2>3. UNCHANGED <<conn, pool, <<now, loop, history>>>>
    BY <1>7 DEF MonitorErase
  <2> QED BY <1>0, <2>1, <2>2, <2>3, TypePartsNext, TypeSame
<1>8. CASE MonitorRecycle
  <2>a. tc \in Conn /\ Recycle(tc)
    BY <1>8 DEF MonitorRecycle, PlacesOK
  <2>1. MonitorType'
    BY <1>8, <1>0 DEF MonitorRecycle, MonitorType
  <2>2. ConnType'
    BY <1>0, <2>a DEF Recycle, ConnType, LoopType
  <2>3. UNCHANGED <<timer, pool, <<now, loop, history>>>>
    BY <1>8 DEF MonitorRecycle, Recycle
  <2> QED BY <1>0, <2>1, <2>2, <2>3, TypePartsNext, TypeSame
<1>9. ASSUME NEW c \in Conn, Accept(c)
      PROVE  TypeOK'
  <2>1. ConnType'
    BY <1>9, <1>0 DEF Accept, ConnType, LoopType
  <2>2. LoopType'
    BY <1>9, <1>0, BoundAssumption DEF Accept, LoopType
  <2>3. UNCHANGED <<timer, monitor, pool>>
    BY <1>9 DEF Accept
  <2> QED BY <1>0, <2>1, <2>2, <2>3, TypePartsNext, TypeSame
<1>10. CASE AcceptAddsTimer
  <2>a. mc \in Conn /\ AddToTimerQueue(mc)
    BY <1>10 DEF AcceptAddsTimer, PlacesOK
  <2>b. /\ queue' \in Seq(Entry) /\ Len(queue') = Len(queue) + 1
        /\ size' = size + 1 /\ head' = queue'[1].at
    BY <2>a, AddAppends
  <2>c. head' \in Nat
    BY <1>0, <2>b, EntryType DEF TimerType
  <2>1. TimerType'
    BY <1>0, <2>b, <2>c DEF TimerType
  <2>2. LoopType'
    BY <1>10, <1>0 DEF AcceptAddsTimer, LoopType
  <2>3. UNCHANGED <<monitor, conn, pool>>
    BY <1>10 DEF AcceptAddsTimer
  <2> QED BY <1>0, <2>1, <2>2, <2>3, TypePartsNext, TypeSame
<1>11. ASSUME NEW c \in Conn, HangUp(c)
      PROVE  TypeOK'
  <2>a. DeleteFromTimerQueue(c)
    BY <1>11 DEF HangUp
  <2>b. TimerType'
    BY <1>0, <2>a, DeleteType
  <2>1. TimerType'
    BY <2>b
  <2>2. LoopType'
    BY <1>11, <1>0 DEF HangUp, LoopType
  <2>3. UNCHANGED <<monitor, conn, pool>>
    BY <1>11 DEF HangUp
  <2> QED BY <1>0, <2>1, <2>2, <2>3, TypePartsNext, TypeSame
<1>12. CASE HangUpRecycles
  <2>a. mc \in Conn /\ Recycle(mc)
    BY <1>12 DEF HangUpRecycles, PlacesOK
  <2>1. ConnType'
    BY <1>0, <2>a DEF Recycle, ConnType, LoopType
  <2>2. LoopType'
    BY <1>12, <1>0 DEF HangUpRecycles, LoopType
  <2>3. UNCHANGED <<timer, monitor, pool>>
    BY <1>12 DEF HangUpRecycles, Recycle
  <2> QED BY <1>0, <2>1, <2>2, <2>3, TypePartsNext, TypeSame
<1>13. ASSUME NEW c \in Conn, Reset(c)
      PROVE  TypeOK'
  <2>1. ConnType'
    BY <1>13, <1>0 DEF Reset, ConnType
  <2>2. LoopType'
    BY <1>13, <1>0 DEF Reset, LoopType
  <2>3. UNCHANGED <<timer, monitor, pool>>
    BY <1>13 DEF Reset
  <2> QED BY <1>0, <2>1, <2>2, <2>3, TypePartsNext, TypeSame
<1>14. ASSUME NEW c \in Conn, Return(c)
      PROVE  TypeOK'
  <2>1. ConnType'
    BY <1>14, <1>0 DEF Return, ConnType
  <2>2. UNCHANGED <<timer, monitor, pool, <<now, loop, history>>>>
    BY <1>14 DEF Return
  <2> QED BY <1>0, <2>1, <2>2, TypePartsNext, TypeSame
<1>15. ASSUME NEW j \in Job, NEW c \in Conn, NEW p \in Packages, Receive(j, c, p)
      PROVE  TypeOK'
  <2>a. [conn |-> c, seq |-> seq[c], pkg |-> p, at |-> 0, pc |-> "queued"] \in Message
    BY <1>0, BoundAssumption DEF ConnType, Message
  <2>1. PoolType'
    BY <1>15, <1>0, <2>a DEF Receive, PoolType
  <2>2. UNCHANGED <<timer, monitor, conn, <<now, loop, history>>>>
    BY <1>15 DEF Receive
  <2> QED BY <1>0, <2>1, <2>2, TypePartsNext, TypeSame
<1>16. ASSUME NEW j \in Job, Process(j)
      PROVE  TypeOK'
  <2>a. job[j] \in Message
    BY <1>16, <1>0, MessageParts DEF Process
  <2>b. [job[j] EXCEPT !.pc = "refresh"] \in Message
    BY <2>a DEF Message
  <2>1. PoolType'
    BY <1>16, <1>0, <2>b DEF Process, PoolType
  <2>2. UNCHANGED <<timer, monitor, conn, <<now, loop, history>>>>
    BY <1>16 DEF Process
  <2> QED BY <1>0, <2>1, <2>2, TypePartsNext, TypeSame
<1>17. ASSUME NEW j \in Job, Refresh(j)
      PROVE  TypeOK'
  <2>a. job[j] \in Message /\ job[j].conn \in Conn
    BY <1>17, <1>0, MessageParts DEF Refresh
  <2>b. [job[j] EXCEPT !.pc = "reply", !.at = now] \in Message
    BY <1>0, <2>a DEF Message, LoopType
  <2>c. job' = [job EXCEPT ![j] = [job[j] EXCEPT !.pc = "reply", !.at = now]]
    BY <1>17, <1>0, <2>a DEF Refresh, PoolType, Message
  <2>1. ConnType'
    BY <1>17, <1>0, <2>a DEF Refresh, ConnType, LoopType
  <2>2. PoolType'
    BY <1>17, <1>0, <2>b, <2>c DEF Refresh, PoolType
  <2>3. UNCHANGED <<timer, monitor, <<now, loop, history>>>>
    BY <1>17 DEF Refresh
  <2> QED BY <1>0, <2>1, <2>2, <2>3, TypePartsNext, TypeSame
<1>18. ASSUME NEW j \in Job, Reply(j)
      PROVE  TypeOK'
  <2>a. job[j].conn \in Conn /\ [seq |-> job[j].seq, at |-> job[j].at] \in [seq : Nat, at : 0..MaxTime]
    BY <1>18, <1>0, MessageParts DEF Reply
  <2>1. PoolType'
    BY <1>18, <1>0, <2>a DEF Reply, PoolType
  <2>2. UNCHANGED <<timer, monitor, conn, <<now, loop, history>>>>
    BY <1>18 DEF Reply
  <2> QED BY <1>0, <2>1, <2>2, TypePartsNext, TypeSame
<1>19. CASE Tick
  <2>1. LoopType'
    BY <1>19, <1>0, BoundAssumption DEF Tick, LoopType
  <2>2. UNCHANGED <<timer, monitor, conn, pool>>
    BY <1>19 DEF Tick
  <2> QED BY <1>0, <2>1, <2>2, TypePartsNext, TypeSame
<1>20. CASE UNCHANGED vars
  BY <1>20, <1>0, TypePartsNext, TypeSame DEF vars
<1> QED
  BY <1>1, <1>2, <1>3, <1>4, <1>5, <1>6, <1>7, <1>8, <1>9, <1>10, <1>11, <1>12,
     <1>13, <1>14, <1>15, <1>16, <1>17, <1>18, <1>19, <1>20
     DEF Next, MonitorStep, LoopStep, JobStep

-----------------------------------------------------------------------------
(* The queue and the clock. *)

\* An entry after a deletion was there before.
LEMMA DeleteKeeps ==
    ASSUME TypeOK, QueueOK, NEW c \in Conn, DeleteFromTimerQueue(c)
    PROVE  \A i \in 1..Len(queue') : \E m \in 1..Len(queue) : queue'[i] = queue[m]
<1>1. queue \in Seq(Entry) /\ Len(queue) \in Nat
  BY DEF TypeOK
<1>2. CASE queue' = queue
  BY <1>1, <1>2
<1>3. CASE queue' # queue
  <2>1. /\ Len(queue') = Len(queue) - 1
        /\ \E f \in 1..Len(queue) : \A i \in 1..Len(queue') :
             queue'[i] = IF i < f THEN queue[i] ELSE queue[i + 1]
    BY <1>3, DeleteTakesOne
  <2>2. PICK f \in 1..Len(queue) : \A i \in 1..Len(queue') :
             queue'[i] = IF i < f THEN queue[i] ELSE queue[i + 1]
    BY <2>1
  <2> TAKE i \in 1..Len(queue')
  <2>3. i \in 1..Len(queue) /\ i + 1 \in 1..Len(queue)
    BY <1>1, <2>1
  <2> QED BY <2>2, <2>3
<1> QED BY <1>2, <1>3

\* An entry after the monitor thread has woken was there before, perhaps earlier.
LEMMA WakeKeeps ==
    ASSUME TypeOK, QueueOK, WakeForTimers
    PROVE  \A i \in 1..Len(queue') :
             /\ queue'[i].at > now /\ queue'[i].at <= now + Wait
             /\ \E m \in 1..Len(queue) : /\ queue'[i].conn = queue[m].conn
                                         /\ queue'[i].seq = queue[m].seq
<1>1. queue \in Seq(Entry) /\ Len(queue) \in Nat /\ now \in Nat /\ Wait \in Nat /\ Wait > 0
  <2>1. queue \in Seq(Entry) /\ now \in 0..MaxTime
    BY Zenon DEF TypeOK
  <2> QED BY <2>1, BoundAssumption, WaitAssumption
<1>2. PICK k \in 0..Len(queue) :
             /\ \A i \in (k + 1)..Len(queue) : queue[i].at > now
             /\ Len(queue') = Len(queue)
             /\ \A i \in 1..(Len(queue) - k) : queue'[i] = queue[k + i]
             /\ \A i \in 1..k : queue'[(Len(queue) - k) + i]
                  = [conn |-> queue[i].conn, seq |-> queue[i].seq, at |-> now + Wait]
  BY WakeRotates
<1> TAKE i \in 1..Len(queue')
<1>3. CASE i <= Len(queue) - k
  <2>1. i \in 1..(Len(queue) - k) /\ k + i \in (k + 1)..Len(queue) /\ k + i \in 1..Len(queue)
    BY <1>1, <1>2, <1>3
  <2>2. queue'[i] = queue[k + i] /\ queue[k + i].at > now /\ queue[k + i].at <= now + Wait
    BY <1>2, <2>1 DEF QueueOK
  <2> QED BY <2>1, <2>2
<1>4. CASE i > Len(queue) - k
  <2> DEFINE m == i - (Len(queue) - k)
  <2>1. m \in 1..k /\ i = (Len(queue) - k) + m /\ m \in 1..Len(queue)
    BY <1>1, <1>2, <1>4
  <2>2. queue'[i] = [conn |-> queue[m].conn, seq |-> queue[m].seq, at |-> now + Wait]
    BY <1>2, <2>1
  <2> HIDE DEF m
  <2> QED BY <1>1, <2>1, <2>2
<1>5. i <= Len(queue) - k \/ i > Len(queue) - k
  <2>1. i \in Int /\ Len(queue) - k \in Int
    BY <1>1, <1>2
  <2> QED BY <2>1
<1> QED BY <1>3, <1>4, <1>5, Zenon

\* The steps that the clock and the queue take part in.
LEMMA TimerSteps ==
    ASSUME [Next]_vars
    PROVE  \/ WakeForTimers \/ MonitorErase \/ AcceptAddsTimer \/ Tick
           \/ \E c \in Conn : HangUp(c)
           \/ UNCHANGED <<now, timer>>
<1> USE DEF timer, monitor, conn, loop, pool, history
<1>1. CASE \E c \in Conn : Accept(c) \/ Reset(c) \/ Return(c)
  BY <1>1 DEF Accept, Reset, Return
<1>2. CASE \E j \in Job : JobStep(j) \/ \E c \in Conn, p \in Packages : Receive(j, c, p)
  BY <1>2 DEF JobStep, Receive, Process, Refresh, Reply
<1>3. CASE FallAsleep \/ WakeForNothing \/ WalkEnd \/ WalkOne
  BY <1>3 DEF FallAsleep, WakeForNothing, WalkEnd, WalkOne
<1>4. CASE TestSilence \/ MonitorRecycle \/ HangUpRecycles
  BY <1>4 DEF TestSilence, MonitorRecycle, HangUpRecycles
<1>5. CASE UNCHANGED vars
  BY <1>5 DEF vars
<1> QED BY <1>1, <1>2, <1>3, <1>4, <1>5 DEF Next, MonitorStep, LoopStep

LEMMA MonitorSteps ==
    ASSUME [Next]_vars
    PROVE  MonitorStep \/ Tick \/ UNCHANGED <<now, monitor>>
<1> USE DEF timer, monitor, conn, loop, pool, history
<1>1. CASE \E c \in Conn : Accept(c) \/ HangUp(c) \/ Reset(c) \/ Return(c)
  BY <1>1 DEF Accept, HangUp, Reset, Return
<1>2. CASE \E j \in Job : JobStep(j) \/ \E c \in Conn, p \in Packages : Receive(j, c, p)
  BY <1>2 DEF JobStep, Receive, Process, Refresh, Reply
<1>3. CASE AcceptAddsTimer \/ HangUpRecycles
  BY <1>3 DEF AcceptAddsTimer, HangUpRecycles
<1>4. CASE UNCHANGED vars
  BY <1>4 DEF vars
<1> QED BY <1>1, <1>2, <1>3, <1>4 DEF Next, LoopStep

LEMMA ClockSteps ==
    ASSUME [Next]_vars
    PROVE  \/ MonitorStep \/ AcceptAddsTimer \/ Tick
           \/ \E c \in Conn : HangUp(c)
           \/ UNCHANGED <<now, timer, monitor>>
<1>1. CASE MonitorStep \/ AcceptAddsTimer \/ Tick \/ \E c \in Conn : HangUp(c)
  BY <1>1
<1>2. CASE ~(MonitorStep \/ AcceptAddsTimer \/ Tick \/ \E c \in Conn : HangUp(c))
  <2>1. UNCHANGED <<now, monitor>>
    BY <1>2, MonitorSteps
  <2>2. UNCHANGED <<now, timer>>
    BY <1>2, TimerSteps DEF MonitorStep
  <2> QED BY <2>1, <2>2
<1> QED BY <1>1, <1>2

LEMMA LoopSteps ==
    ASSUME [Next]_vars
    PROVE  \/ \E c \in Conn : Accept(c) \/ HangUp(c)
           \/ AcceptAddsTimer \/ HangUpRecycles
           \/ UNCHANGED loop
<1> USE DEF timer, monitor, conn, loop, pool, history
<1>1. CASE \E c \in Conn : Reset(c) \/ Return(c)
  BY <1>1 DEF Reset, Return
<1>2. CASE \E j \in Job : JobStep(j) \/ \E c \in Conn, p \in Packages : Receive(j, c, p)
  BY <1>2 DEF JobStep, Receive, Process, Refresh, Reply
<1>3. CASE FallAsleep \/ WakeForNothing \/ WakeForTimers \/ WalkEnd
  BY <1>3 DEF FallAsleep, WakeForNothing, WakeForTimers, WalkEnd
<1>4. CASE WalkOne \/ TestSilence \/ MonitorErase \/ MonitorRecycle \/ Tick
  BY <1>4 DEF WalkOne, TestSilence, MonitorErase, MonitorRecycle, Tick
<1>5. CASE UNCHANGED vars
  BY <1>5 DEF vars
<1> QED BY <1>1, <1>2, <1>3, <1>4, <1>5 DEF Next, MonitorStep, LoopStep

LEMMA PingSteps ==
    ASSUME [Next]_vars
    PROVE  \/ \E c \in Conn : Accept(c)
           \/ \E j \in Job : Refresh(j)
           \/ Tick
           \/ UNCHANGED <<now, ping>>
<1> USE DEF timer, monitor, conn, loop, pool, history
<1>1. CASE \E c \in Conn : HangUp(c) \/ Reset(c) \/ Return(c)
  BY <1>1 DEF HangUp, Reset, Return
<1>2. CASE \E j \in Job : Process(j) \/ Reply(j) \/ \E c \in Conn, p \in Packages : Receive(j, c, p)
  BY <1>2 DEF Receive, Process, Reply
<1>3. CASE FallAsleep \/ WakeForNothing \/ WakeForTimers \/ WalkEnd
  BY <1>3 DEF FallAsleep, WakeForNothing, WakeForTimers, WalkEnd
<1>4. CASE WalkOne \/ TestSilence \/ MonitorErase \/ MonitorRecycle
  BY <1>4 DEF WalkOne, TestSilence, MonitorErase, MonitorRecycle, Recycle
<1>5. CASE AcceptAddsTimer \/ HangUpRecycles
  BY <1>5 DEF AcceptAddsTimer, HangUpRecycles, Recycle
<1>6. CASE UNCHANGED vars
  BY <1>6 DEF vars
<1> QED BY <1>1, <1>2, <1>3, <1>4, <1>5, <1>6 DEF Next, MonitorStep, LoopStep, JobStep

LEMMA ConnSteps ==
    ASSUME [Next]_vars
    PROVE  \/ \E c \in Conn : Accept(c) \/ Reset(c) \/ Return(c)
           \/ \E j \in Job : Refresh(j)
           \/ MonitorRecycle \/ HangUpRecycles
           \/ UNCHANGED conn
<1> USE DEF timer, monitor, conn, loop, pool, history
<1>1. CASE \E c \in Conn : HangUp(c)
  BY <1>1 DEF HangUp
<1>2. CASE \E j \in Job : Process(j) \/ Reply(j) \/ \E c \in Conn, p \in Packages : Receive(j, c, p)
  BY <1>2 DEF Receive, Process, Reply
<1>3. CASE FallAsleep \/ WakeForNothing \/ WakeForTimers \/ WalkEnd
  BY <1>3 DEF FallAsleep, WakeForNothing, WakeForTimers, WalkEnd
<1>4. CASE WalkOne \/ TestSilence \/ MonitorErase \/ AcceptAddsTimer \/ Tick
  BY <1>4 DEF WalkOne, TestSilence, MonitorErase, AcceptAddsTimer, Tick
<1>5. CASE UNCHANGED vars
  BY <1>5 DEF vars
<1> QED BY <1>1, <1>2, <1>3, <1>4, <1>5 DEF Next, MonitorStep, LoopStep, JobStep

LEMMA PoolSteps ==
    ASSUME [Next]_vars
    PROVE  \/ \E j \in Job : Process(j) \/ Refresh(j) \/ Reply(j)
           \/ \E j \in Job, c \in Conn, p \in Packages : Receive(j, c, p)
           \/ UNCHANGED pool
<1> USE DEF timer, monitor, conn, loop, pool, history
<1>1. CASE \E c \in Conn : Accept(c) \/ HangUp(c) \/ Reset(c) \/ Return(c)
  BY <1>1 DEF Accept, HangUp, Reset, Return
<1>2. CASE MonitorStep
  BY <1>2 DEF MonitorStep, FallAsleep, WakeForNothing, WakeForTimers, WalkEnd, WalkOne,
              TestSilence, MonitorErase, MonitorRecycle
<1>3. CASE AcceptAddsTimer \/ HangUpRecycles \/ Tick
  BY <1>3 DEF AcceptAddsTimer, HangUpRecycles, Tick
<1>4. CASE UNCHANGED vars
  BY <1>4 DEF vars
<1> QED BY <1>1, <1>2, <1>3, <1>4 DEF Next, LoopStep, JobStep

LEMMA TypeConn ==
    ASSUME TypeOK, QueueOK, PlacesOK, [Next]_vars
    PROVE  ConnType'
<1>1. TypeOK'
  BY TypeStep
<1> QED BY <1>1 DEF TypeOK, ConnType

LEMMA QueueStep ==
    ASSUME TypeOK, QueueOK, PlacesOK, [Next]_vars
    PROVE  QueueOK'
<1>0. queue \in Seq(Entry) /\ Len(queue) \in Nat /\ now \in Nat /\ Wait \in Nat /\ Wait > 0
  BY BoundAssumption, WaitAssumption DEF TypeOK
<1>a. \A i \in 1..Len(queue) : queue[i].at \in Nat
  BY <1>0, EntryType
<1>1. CASE WakeForTimers
  <2>1. PICK k \in 0..Len(queue) :
             /\ Len(queue') = Len(queue)
             /\ \A i \in 1..(Len(queue) - k) : queue'[i] = queue[k + i]
             /\ \A i \in 1..k : queue'[(Len(queue) - k) + i]
                  = [conn |-> queue[i].conn, seq |-> queue[i].seq, at |-> now + Wait]
    BY <1>1, WakeRotates
  <2>2. \A i \in 1..Len(queue') : queue'[i].at <= now + Wait
    BY <1>1, WakeKeeps
  <2>3. \A i \in 1..Len(queue') : i > Len(queue) - k => queue'[i].at = now + Wait
    <3> TAKE i \in 1..Len(queue')
    <3> HAVE i > Len(queue) - k
    <3> DEFINE m == i - (Len(queue) - k)
    <3>1. m \in 1..k /\ i = (Len(queue) - k) + m
      BY <1>0, <2>1
    <3> HIDE DEF m
    <3>2. queue'[i] = [conn |-> queue[m].conn, seq |-> queue[m].seq, at |-> now + Wait]
      BY <2>1, <3>1
    <3> QED BY <3>2
  <2>4. Sorted(queue')
    <3> SUFFICES ASSUME NEW i \in 1..Len(queue'), NEW m \in 1..Len(queue'), i <= m
                 PROVE  queue'[i].at <= queue'[m].at
      BY DEF Sorted
    <3>1. CASE m > Len(queue) - k
      BY <2>2, <2>3, <3>1
    <3>2. CASE m <= Len(queue) - k
      <4>1. /\ queue'[i] = queue[k + i] /\ queue'[m] = queue[k + m] /\ k + i <= k + m
            /\ k + i \in 1..Len(queue) /\ k + m \in 1..Len(queue)
        BY <1>0, <2>1, <3>2
      <4> QED BY <4>1 DEF QueueOK, Sorted
    <3> QED BY <1>0, <2>1, <3>1, <3>2
  <2>5. head' = queue'[1].at /\ size' = size /\ now' = now
    BY <1>1 DEF WakeForTimers
  <2> QED BY <2>1, <2>2, <2>4, <2>5 DEF QueueOK
<1>2. ASSUME NEW c \in Conn, DeleteFromTimerQueue(c), now' = now PROVE QueueOK'
  <2>1. head' = IF size' > 0 THEN queue'[1].at ELSE head
    BY <1>2, DeleteTakesOne, Zenon
  <2>2. CASE queue' = queue /\ size' = size
    BY <1>2, <2>1, <2>2 DEF QueueOK
  <2>3. CASE ~(queue' = queue /\ size' = size)
    <3>1. /\ size' = size - 1 /\ Len(queue') = Len(queue) - 1
          /\ \E f \in 1..Len(queue) : \A i \in 1..Len(queue') :
               queue'[i] = IF i < f THEN queue[i] ELSE queue[i + 1]
      BY <1>2, <2>3, DeleteTakesOne
    <3>2. PICK f \in 1..Len(queue) : \A i \in 1..Len(queue') :
               queue'[i] = IF i < f THEN queue[i] ELSE queue[i + 1]
      BY <3>1
    <3>3. Sorted(queue')
      <4> SUFFICES ASSUME NEW i \in 1..Len(queue'), NEW m \in 1..Len(queue'), i <= m
                   PROVE  queue'[i].at <= queue'[m].at
        BY DEF Sorted
      <4>1. \A a, b \in 1..Len(queue) : a <= b => queue[a].at <= queue[b].at
        BY DEF QueueOK, Sorted
      <4> DEFINE a == IF i < f THEN i ELSE i + 1
                 b == IF m < f THEN m ELSE m + 1
      <4>2. a \in 1..Len(queue) /\ b \in 1..Len(queue) /\ a <= b
        BY <1>0, <3>1
      <4>3. queue'[i] = queue[a] /\ queue'[m] = queue[b]
        BY <3>2
      <4> HIDE DEF a, b
      <4> QED BY <4>1, <4>2, <4>3
    <3>4. \A i \in 1..Len(queue') : queue'[i].at <= now + Wait
      BY <1>2, DeleteKeeps DEF QueueOK
    <3> QED BY <1>2, <2>1, <3>1, <3>3, <3>4 DEF QueueOK
  <2> QED BY <2>2, <2>3
<1>3. CASE MonitorErase
  BY <1>2, <1>3 DEF MonitorErase, PlacesOK
<1>4. ASSUME NEW c \in Conn, HangUp(c) PROVE QueueOK'
  BY <1>2, <1>4 DEF HangUp
<1>5. CASE AcceptAddsTimer
  <2>1. mc \in Conn /\ AddToTimerQueue(mc) /\ now' = now
    BY <1>5 DEF AcceptAddsTimer, PlacesOK
  <2>2. /\ Len(queue') = Len(queue) + 1
        /\ \A i \in 1..Len(queue) : queue'[i] = queue[i]
        /\ queue'[Len(queue) + 1] = [conn |-> mc, seq |-> seq[mc], at |-> now + Wait]
        /\ size' = size + 1
        /\ head' = queue'[1].at
    BY <2>1, AddAppends
  <2>3. queue'[Len(queue) + 1].at = now + Wait
    BY <2>2
  <2>4. \A i \in 1..Len(queue') : i \in 1..Len(queue) \/ i = Len(queue) + 1
    BY <1>0, <2>2
  <2>5. \A i \in 1..Len(queue') : queue'[i].at <= now + Wait
    BY <1>0, <2>2, <2>3, <2>4 DEF QueueOK
  <2>6. Sorted(queue')
    <3> SUFFICES ASSUME NEW i \in 1..Len(queue'), NEW m \in 1..Len(queue'), i <= m
                 PROVE  queue'[i].at <= queue'[m].at
      BY DEF Sorted
    <3>1. CASE m = Len(queue) + 1
      BY <2>3, <2>5, <3>1
    <3>2. CASE m # Len(queue) + 1
      <4>1. i \in 1..Len(queue) /\ m \in 1..Len(queue)
        BY <1>0, <2>2, <3>2
      <4> QED BY <2>2, <4>1 DEF QueueOK, Sorted
    <3> QED BY <3>1, <3>2
  <2> QED BY <2>1, <2>2, <2>5, <2>6 DEF QueueOK
<1>6. CASE Tick
  BY <1>0, <1>a, <1>6 DEF Tick, timer, QueueOK, Sorted
<1>7. CASE UNCHANGED <<now, timer>>
  BY <1>7 DEF timer, QueueOK, Sorted
<1> QED
  BY <1>1, <1>3, <1>4, <1>5, <1>6, <1>7, TimerSteps

LEMMA PlacesStep ==
    ASSUME TypeOK, QueueOK, PlacesOK, [Next]_vars
    PROVE  PlacesOK'
<1> USE DEF timer, monitor, conn, loop, pool, history
<1>0. TimerType /\ MonitorType /\ ConnType /\ PoolType /\ LoopType
  BY TypeParts
<1>a. now \in Nat /\ ping \in [Conn -> 0..MaxTime] /\ MaxTime \in Nat
  BY <1>0, BoundAssumption DEF LoopType, ConnType
<1>b. tpc \in {"silence", "erase", "recycle"} => tc \in Conn
  BY DEF PlacesOK
<1>c. mpc # "idle" => mc \in Conn
  BY DEF PlacesOK
<1>d. (tpc \in Awake => cur = now) /\ (tpc \notin Awake => que = <<>>)
  BY DEF PlacesOK
<1>e. \A c \in Conn : ping[c] <= now
  BY DEF PlacesOK
<1>1. (mpc # "idle" => mc \in Conn)'
  <2>1. CASE UNCHANGED loop
    BY <1>c, <2>1
  <2>2. CASE \E c \in Conn : Accept(c) \/ HangUp(c)
    BY <2>2 DEF Accept, HangUp
  <2>3. CASE AcceptAddsTimer \/ HangUpRecycles
    BY <2>3 DEF AcceptAddsTimer, HangUpRecycles
  <2> QED BY <2>1, <2>2, <2>3, LoopSteps
<1>2. (\A c \in Conn : ping[c] <= now)'
  <2>1. CASE UNCHANGED <<now, ping>>
    BY <1>e, <2>1
  <2>2. ASSUME NEW c \in Conn, Accept(c) PROVE \A d \in Conn : ping'[d] <= now'
    BY <1>a, <1>e, <2>2 DEF Accept
  <2>3. ASSUME NEW j \in Job, Refresh(j) PROVE \A d \in Conn : ping'[d] <= now'
    BY <1>a, <1>e, <2>3 DEF Refresh
  <2>4. CASE Tick
    BY <1>a, <1>e, <2>4 DEF Tick
  <2> QED BY <2>1, <2>2, <2>3, <2>4, PingSteps
<1>3. /\ (tpc \in {"silence", "erase", "recycle"} => tc \in Conn)'
      /\ (tpc \in Awake => cur = now)'
      /\ (tpc \notin Awake => que = <<>>)'
  <2>1. CASE UNCHANGED <<now, monitor>>
    BY <1>b, <1>d, <2>1 DEF Awake
  <2>2. CASE FallAsleep \/ WakeForNothing
    BY <1>d, <2>2 DEF FallAsleep, WakeForNothing, Awake
  <2>3. CASE WakeForTimers
    <3>1. tpc' = "walk" /\ cur' = now /\ now' = now
      BY <2>3 DEF WakeForTimers
    <3> QED BY <3>1 DEF Awake
  <2>4. CASE WalkEnd
    BY <2>4 DEF WalkEnd, Awake
  <2>5. CASE WalkOne
    <3>1. que \in Seq(Stamp) /\ que # <<>>
      BY <1>0, <2>5 DEF WalkOne, MonitorType
    <3>2. Head(que).conn \in Conn
      BY <3>1, StampType
    <3>3. /\ \/ tpc' = "silence" /\ tc' = Head(que).conn
             \/ tpc' = "walk"
          /\ now' = now /\ cur' = cur /\ tpc = "walk"
      BY <2>5 DEF WalkOne
    <3> QED BY <1>d, <3>2, <3>3 DEF Awake
  <2>6. CASE TestSilence \/ MonitorErase \/ MonitorRecycle
    <3>1. /\ now' = now /\ cur' = cur /\ tpc \in {"silence", "erase", "recycle"}
          /\ \/ tpc' \in {"erase", "recycle"} /\ tc' = tc
             \/ tpc' = "walk"
      BY <2>6 DEF TestSilence, MonitorErase, MonitorRecycle
    <3> QED BY <1>b, <1>d, <3>1 DEF Awake
  <2>7. CASE Tick
    BY <1>b, <1>d, <2>7 DEF Tick, Awake
  <2> QED BY <2>1, <2>2, <2>3, <2>4, <2>5, <2>6, <2>7, MonitorSteps DEF MonitorStep
<1> QED BY <1>1, <1>2, <1>3 DEF PlacesOK

LEMMA HeadStep ==
    ASSUME TypeOK, QueueOK, PlacesOK, HeadNear, [Next]_vars
    PROVE  HeadNear'
<1> USE DEF timer, monitor, conn, loop, pool, history
<1>0. now \in Nat /\ Wait \in Nat /\ Wait > 0 /\ head \in Nat /\ wake \in Nat
  BY BoundAssumption, WaitAssumption DEF TypeOK
<1>1. CASE UNCHANGED <<now, timer, monitor>>
  BY <1>1 DEF HeadNear
<1>2. CASE FallAsleep
  BY <1>0, <1>2 DEF FallAsleep, HeadNear
<1>3. CASE WakeForNothing
  BY <1>0, <1>3 DEF WakeForNothing, HeadNear
<1>4. CASE WakeForTimers
  <2>1. head' = queue'[1].at /\ now' = now /\ size' = size /\ size > 0
    BY <1>4 DEF WakeForTimers
  <2>2. 1 \in 1..Len(queue')
    BY <2>1, QueueStep DEF QueueOK
  <2> QED BY <1>4, <2>1, <2>2, WakeKeeps DEF HeadNear
<1>5. CASE WalkEnd \/ WalkOne \/ TestSilence \/ MonitorRecycle
  <2>1. tpc \notin {"tired", "sleep"} /\ head' = head /\ now' = now
    BY <1>5 DEF WalkEnd, WalkOne, TestSilence, MonitorRecycle
  <2> QED BY <2>1 DEF HeadNear
<1>6. ASSUME NEW c \in Conn, DeleteFromTimerQueue(c), now' = now
      PROVE  head' <= now' + Wait \/ head' = head
  <2>1. QueueOK'
    BY QueueStep
  <2>2. head' = IF size' > 0 THEN queue'[1].at ELSE head
    BY <1>6, DeleteTakesOne, Zenon
  <2>3. size' > 0 => 1 \in 1..Len(queue')
    BY <2>1 DEF QueueOK
  <2> QED BY <1>6, <2>1, <2>2, <2>3 DEF QueueOK
<1>7. CASE MonitorErase
  <2>1. tc \in Conn /\ DeleteFromTimerQueue(tc) /\ now' = now /\ tpc = "erase"
    BY <1>7 DEF MonitorErase, PlacesOK
  <2> QED BY <1>6, <2>1 DEF HeadNear
<1>8. ASSUME NEW c \in Conn, HangUp(c) PROVE HeadNear'
  <2>1. DeleteFromTimerQueue(c) /\ UNCHANGED <<now, monitor>>
    BY <1>8 DEF HangUp
  <2> QED BY <1>6, <2>1 DEF HeadNear
<1>9. CASE AcceptAddsTimer
  <2>1. mc \in Conn /\ AddToTimerQueue(mc) /\ now' = now
    BY <1>9 DEF AcceptAddsTimer, PlacesOK
  <2>2. head' = queue'[1].at /\ Len(queue') = Len(queue) + 1
    BY <2>1, AddAppends
  <2>3. 1 \in 1..Len(queue')
    BY <2>2 DEF TypeOK
  <2>4. QueueOK'
    BY QueueStep
  <2> QED BY <2>1, <2>2, <2>3, <2>4 DEF HeadNear, QueueOK
<1>10. CASE Tick
  BY <1>0, <1>10 DEF Tick, HeadNear
<1> QED
  BY <1>1, <1>2, <1>3, <1>4, <1>5, <1>7, <1>8, <1>9, <1>10, ClockSteps DEF MonitorStep

LEMMA WakesStep ==
    ASSUME TypeOK, QueueOK, PlacesOK, HeadNear, WakesInTime, [Next]_vars
    PROVE  WakesInTime'
<1> USE DEF timer, monitor, conn, loop, pool, history
<1>0. now \in Nat /\ Wait \in Nat /\ Wait > 0 /\ head \in Nat /\ wake \in Nat /\ Len(queue) \in Nat
  BY BoundAssumption, WaitAssumption DEF TypeOK
<1>a. \A i \in 1..Len(queue) : queue[i].at \in Nat
  BY EntryType DEF TypeOK
<1>b. size = Len(queue) /\ \A i \in 1..Len(queue) : head <= queue[i].at
  <2>1. size = Len(queue) /\ (size > 0 => head = queue[1].at)
    BY DEF QueueOK
  <2>2. \A i \in 1..Len(queue) : queue[1].at <= queue[i].at
    BY <1>0 DEF QueueOK, Sorted
  <2> QED BY <1>0, <2>1, <2>2
<1>1. CASE UNCHANGED <<now, timer, monitor>>
  BY <1>1 DEF WakesInTime
<1>2. CASE FallAsleep
  <2>1. /\ tpc = "tired" /\ tpc' = "sleep" /\ UNCHANGED <<now, timer, fresh>>
        /\ wake' <= 1 + IF head > now THEN head ELSE now
    BY <1>0, <1>2 DEF FallAsleep
  <2>2. \A i \in 1..Len(queue) : now <= queue[i].at
    BY <2>1 DEF WakesInTime
  <2>3. ~fresh => head <= now + Wait
    BY <2>1 DEF HeadNear
  <2>4. wake' \in Nat
    BY <1>0, <1>2 DEF FallAsleep
  <2> QED BY <1>0, <1>a, <1>b, <2>1, <2>2, <2>3, <2>4 DEF WakesInTime
<1>3. CASE WakeForNothing
  <2>1. tpc' = "tired" /\ UNCHANGED <<now, timer>> /\ (size = 0 \/ now <= head)
    BY <1>3 DEF WakeForNothing
  <2>2. \A i \in 1..Len(queue) : now <= queue[i].at
    BY <1>0, <1>a, <1>b, <2>1
  <2> QED BY <2>1, <2>2 DEF WakesInTime
<1>4. CASE WakeForTimers
  <2>1. tpc' = "walk" /\ now' = now
    BY <1>4 DEF WakeForTimers
  <2>2. queue' \in Seq(Entry) /\ \A i \in 1..Len(queue') : queue'[i].at > now
    BY <1>4, WakeKeeps, WakeRotates
  <2>3. \A i \in 1..Len(queue') : queue'[i].at \in Nat
    BY <2>2, EntryType
  <2> QED BY <1>0, <2>1, <2>2, <2>3 DEF WakesInTime
<1>5. CASE WalkEnd \/ WalkOne \/ TestSilence \/ MonitorRecycle
  <2>1. tpc # "sleep" /\ tpc' # "sleep" /\ UNCHANGED <<now, timer>>
    BY <1>5 DEF WalkEnd, WalkOne, TestSilence, MonitorRecycle
  <2> QED BY <2>1 DEF WakesInTime
<1>6. CASE MonitorErase
  <2>1. tc \in Conn /\ DeleteFromTimerQueue(tc) /\ now' = now /\ tpc = "erase" /\ tpc' = "recycle"
    BY <1>6 DEF MonitorErase, PlacesOK
  <2>2. \A i \in 1..Len(queue') : \E m \in 1..Len(queue) : queue'[i] = queue[m]
    BY <2>1, DeleteKeeps
  <2> QED BY <2>1, <2>2 DEF WakesInTime
<1>7. ASSUME NEW c \in Conn, HangUp(c) PROVE WakesInTime'
  <2>1. DeleteFromTimerQueue(c) /\ UNCHANGED <<now, monitor>>
    BY <1>7 DEF HangUp
  <2>2. \A i \in 1..Len(queue') : \E m \in 1..Len(queue) : queue'[i] = queue[m]
    BY <2>1, DeleteKeeps
  <2> QED BY <2>1, <2>2 DEF WakesInTime
<1>8. CASE AcceptAddsTimer
  <2>1. mc \in Conn /\ AddToTimerQueue(mc) /\ UNCHANGED <<now, monitor>>
    BY <1>8 DEF AcceptAddsTimer, PlacesOK
  <2>2. /\ Len(queue') = Len(queue) + 1
        /\ \A i \in 1..Len(queue) : queue'[i] = queue[i]
        /\ queue'[Len(queue) + 1] = [conn |-> mc, seq |-> seq[mc], at |-> now + Wait]
    BY <2>1, AddAppends
  <2>3. queue'[Len(queue) + 1].at = now + Wait
    BY <2>2
  <2>4. \A i \in 1..Len(queue') : i \in 1..Len(queue) \/ i = Len(queue) + 1
    BY <1>0, <2>2
  <2> QED BY <1>0, <2>1, <2>2, <2>3, <2>4 DEF WakesInTime
<1>9. CASE Tick
  BY <1>0, <1>a, <1>9, SMTT(30) DEF Tick, WakesInTime
<1> QED
  BY <1>1, <1>2, <1>3, <1>4, <1>5, <1>6, <1>7, <1>8, <1>9, ClockSteps DEF MonitorStep

LEMMA ClockInit ==
    ASSUME Init
    PROVE  Clock
<1>1. TypeOK
  <2>1. 0 \in 0..MaxTime /\ 0 \in 0..MaxAccept
    BY BoundAssumption
  <2> QED BY <2>1, WaitAssumption DEF Init, TypeOK
<1>2. QueueOK /\ WakesInTime
  BY DEF Init, QueueOK, Sorted, WakesInTime
<1>3. PlacesOK /\ HeadNear
  BY DEF Init, PlacesOK, HeadNear, Awake
<1> QED BY <1>1, <1>2, <1>3 DEF Clock

LEMMA ClockStep == Clock /\ [Next]_vars => Clock'
BY TypeStep, QueueStep, PlacesStep, HeadStep, WakesStep DEF Clock

LEMMA ClockAlways == Spec => []Clock
BY ClockInit, ClockStep, PTL DEF Spec

-----------------------------------------------------------------------------
(* Answered peers. *)

\* m_cur_seq only grows, and last_ping_time of one peer does not go back.
LEMMA PingGrows ==
    ASSUME TypeOK, PlacesOK, [Next]_vars
    PROVE  \A c \in Conn : /\ seq[c] <= seq'[c]
                           /\ seq'[c] = seq[c] => ping[c] <= ping'[c]
<1> USE DEF timer, monitor, conn, loop, pool, history
<1>0. /\ seq \in [Conn -> Nat] /\ ping \in [Conn -> 0..MaxTime]
      /\ now \in Nat /\ MaxTime \in Nat
  <2>1. ConnType /\ LoopType
    BY TypeParts
  <2> QED BY <2>1, BoundAssumption DEF ConnType, LoopType
<1>a. \A c \in Conn : ping[c] <= now
  BY DEF PlacesOK
<1>1. CASE UNCHANGED <<seq, ping>>
  BY <1>0, <1>1
<1>2. ASSUME NEW c \in Conn, Accept(c) PROVE \A d \in Conn : seq[d] <= seq'[d] /\ (seq'[d] = seq[d] => ping[d] <= ping'[d])
  BY <1>0, <1>2 DEF Accept
<1>3. ASSUME NEW c \in Conn, Reset(c) \/ Return(c) \/ (Recycle(c) /\ UNCHANGED now)
      PROVE \A d \in Conn : seq[d] <= seq'[d] /\ (seq'[d] = seq[d] => ping[d] <= ping'[d])
  BY <1>0, <1>3 DEF Reset, Return, Recycle
<1>4. ASSUME NEW j \in Job, Refresh(j)
      PROVE \A d \in Conn : seq[d] <= seq'[d] /\ (seq'[d] = seq[d] => ping[d] <= ping'[d])
  BY <1>0, <1>a, <1>4 DEF Refresh
<1>5. CASE MonitorRecycle \/ HangUpRecycles
  <2>1. \E c \in Conn : Recycle(c) /\ UNCHANGED now
    BY <1>5 DEF MonitorRecycle, HangUpRecycles, PlacesOK
  <2> QED BY <1>3, <2>1
<1> QED BY <1>1, <1>2, <1>3, <1>4, <1>5, ConnSteps

LEMMA AnswersStep ==
    ASSUME TypeOK, QueueOK, PlacesOK, AnswersOK, [Next]_vars
    PROVE  AnswersOK'
<1> USE DEF timer, monitor, conn, loop, pool, history
<1>0. TimerType /\ MonitorType /\ ConnType /\ PoolType /\ LoopType
  BY TypeParts
<1>a. /\ seq \in [Conn -> Nat] /\ ping \in [Conn -> 0..MaxTime] /\ MaxTime \in Nat /\ now \in Nat
      /\ echo \in [Conn -> [seq : Nat, at : 0..MaxTime]]
  <2>1. echo \in [Conn -> [seq : Nat, at : 0..MaxTime]]
    BY <1>0 DEF PoolType
  <2>2. seq \in [Conn -> Nat] /\ ping \in [Conn -> 0..MaxTime]
    BY <1>0 DEF ConnType
  <2>3. MaxTime \in Nat /\ now \in Nat
    BY <1>0, BoundAssumption DEF LoopType
  <2> QED BY <2>1, <2>2, <2>3
<1>b. seq' \in [Conn -> Nat] /\ ping' \in [Conn -> 0..MaxTime]
  <2>1. ConnType'
    BY TypeConn
  <2> QED BY <2>1 DEF ConnType
<1>c. \A c \in Conn : /\ echo[c].seq \in Nat /\ echo[c].at \in Nat
                      /\ echo[c].seq <= seq[c]
                      /\ echo[c].seq = seq[c] => echo[c].at <= ping[c]
  BY <1>a DEF AnswersOK
<1>d. \A j \in Job : job[j] # None =>
         /\ job[j].conn \in Conn /\ job[j].seq \in Nat /\ job[j].at \in Nat
         /\ job[j].seq <= seq[job[j].conn]
         /\ job[j].pc = "reply" /\ job[j].seq = seq[job[j].conn]
              => job[j].at <= ping[job[j].conn]
  BY <1>0, <1>a, MessageParts DEF AnswersOK
<1>e. \A c \in Conn : seq[c] <= seq'[c] /\ (seq'[c] = seq[c] => ping[c] <= ping'[c])
  BY PingGrows
<1>1. ASSUME echo' = echo
      PROVE  \A c \in Conn : /\ echo'[c].seq <= seq'[c]
                             /\ echo'[c].seq = seq'[c] => echo'[c].at <= ping'[c]
  BY <1>a, <1>b, <1>c, <1>e, <1>1
<1>2. ASSUME NEW j \in Job, job[j] # None,
             job'[j] = job[j] \/ (job'[j].conn = job[j].conn /\ job'[j].seq = job[j].seq /\ job'[j].pc # "reply")
      PROVE  /\ job'[j].seq <= seq'[job'[j].conn]
             /\ job'[j].pc = "reply" /\ job'[j].seq = seq'[job'[j].conn]
                  => job'[j].at <= ping'[job'[j].conn]
  <2>1. /\ job[j].conn \in Conn /\ job[j].seq \in Nat /\ job[j].at \in Nat
        /\ job[j].seq <= seq[job[j].conn]
        /\ job[j].pc = "reply" /\ job[j].seq = seq[job[j].conn] => job[j].at <= ping[job[j].conn]
    BY <1>2, <1>d
  <2>2. job[j].seq <= seq'[job[j].conn]
    BY <1>a, <1>b, <1>e, <2>1
  <2>3. CASE job'[j] = job[j]
    <3>1. seq[job[j].conn] \in Nat /\ seq'[job[j].conn] \in Nat
      BY <1>a, <1>b, <2>1
    <3>2. ping[job[j].conn] \in Nat /\ ping'[job[j].conn] \in Nat
      BY <1>a, <1>b, <2>1
    <3>3. job[j].pc = "reply" /\ job[j].seq = seq'[job[j].conn] => job[j].at <= ping'[job[j].conn]
      <4>1. /\ seq[job[j].conn] <= seq'[job[j].conn]
            /\ seq'[job[j].conn] = seq[job[j].conn] => ping[job[j].conn] <= ping'[job[j].conn]
        BY <1>e, <2>1
      <4> QED BY <2>1, <3>1, <3>2, <4>1
    <3> QED BY <2>2, <2>3, <3>3
  <2>4. CASE job'[j] # job[j]
    BY <1>2, <2>2, <2>4
  <2> QED BY <2>3, <2>4
<1>3. CASE UNCHANGED pool
  <2>1. \A j \in Job : job'[j] = job[j]
    BY <1>3
  <2>2. echo' = echo
    BY <1>3
  <2> QED BY <1>1, <1>2, <2>1, <2>2 DEF AnswersOK
<1>4. ASSUME NEW j \in Job, NEW c \in Conn, NEW p \in Packages, Receive(j, c, p)
      PROVE  AnswersOK'
  <2>1. /\ echo' = echo /\ seq' = seq
        /\ job' = [job EXCEPT ![j] = [conn |-> c, seq |-> seq[c], pkg |-> p, at |-> 0, pc |-> "queued"]]
    BY <1>4 DEF Receive
  <2>2. /\ job'[j] = [conn |-> c, seq |-> seq[c], pkg |-> p, at |-> 0, pc |-> "queued"]
        /\ \A k \in Job \ {j} : job'[k] = job[k]
    BY <1>0, <2>1 DEF PoolType
  <2>3. job'[j].seq <= seq'[job'[j].conn] /\ job'[j].pc # "reply"
    BY <1>a, <2>1, <2>2
  <2>4. \A k \in Job \ {j} : job'[k] # None =>
           /\ job'[k].seq <= seq'[job'[k].conn]
           /\ job'[k].pc = "reply" /\ job'[k].seq = seq'[job'[k].conn]
                => job'[k].at <= ping'[job'[k].conn]
    BY <1>2, <2>2
  <2> QED BY <1>1, <2>1, <2>3, <2>4 DEF AnswersOK
<1>5. ASSUME NEW j \in Job, Process(j)
      PROVE  AnswersOK'
  <2>1. /\ echo' = echo /\ job[j] # None
        /\ job' = [job EXCEPT ![j] = IF IsPing(job[j]) THEN [job[j] EXCEPT !.pc = "refresh"] ELSE None]
    BY <1>5 DEF Process
  <2>2. job[j] \in Message
    BY <1>0, <2>1, MessageParts
  <2>3. /\ job'[j] = None \/ job'[j] = [job[j] EXCEPT !.pc = "refresh"]
        /\ \A k \in Job \ {j} : job'[k] = job[k]
    BY <1>0, <2>1 DEF PoolType
  <2>4. LET r == [job[j] EXCEPT !.pc = "refresh"]
        IN  r.conn = job[j].conn /\ r.seq = job[j].seq /\ r.pc # "reply"
    BY <2>2 DEF Message
  <2>5. \A k \in Job : job'[k] # None =>
           /\ job'[k].seq <= seq'[job'[k].conn]
           /\ job'[k].pc = "reply" /\ job'[k].seq = seq'[job'[k].conn]
                => job'[k].at <= ping'[job'[k].conn]
    BY <1>2, <2>1, <2>3, <2>4
  <2> QED BY <1>1, <2>1, <2>5 DEF AnswersOK
<1>6. ASSUME NEW j \in Job, Refresh(j)
      PROVE  AnswersOK'
  <2>1. /\ echo' = echo /\ job[j] # None /\ seq' = seq
        /\ ping' = [ping EXCEPT ![job[j].conn] = now]
    BY <1>6 DEF Refresh
  <2>2. job[j] \in Message /\ job[j].conn \in Conn
    BY <1>0, <2>1, MessageParts
  <2>3. job' = [job EXCEPT ![j] = [job[j] EXCEPT !.pc = "reply", !.at = now]]
    BY <1>0, <1>6, <2>2 DEF Refresh, PoolType, Message
  <2>4. /\ job'[j] = [job[j] EXCEPT !.pc = "reply", !.at = now]
        /\ \A k \in Job \ {j} : job'[k] = job[k]
    BY <1>0, <2>3 DEF PoolType
  <2>5. job'[j].conn = job[j].conn /\ job'[j].seq = job[j].seq /\ job'[j].at = now
    BY <2>2, <2>4 DEF Message
  <2>6. ping'[job[j].conn] = now
    BY <1>a, <2>1, <2>2
  <2>7. job'[j].seq <= seq'[job'[j].conn] /\ job'[j].at <= ping'[job'[j].conn]
    BY <1>a, <1>d, <2>1, <2>5, <2>6
  <2>8. \A k \in Job \ {j} : job'[k] # None =>
           /\ job'[k].seq <= seq'[job'[k].conn]
           /\ job'[k].pc = "reply" /\ job'[k].seq = seq'[job'[k].conn]
                => job'[k].at <= ping'[job'[k].conn]
    BY <1>2, <2>4
  <2> QED BY <1>1, <2>1, <2>7, <2>8 DEF AnswersOK
<1>7. ASSUME NEW j \in Job, Reply(j)
      PROVE  AnswersOK'
  <2>1. /\ seq' = seq /\ ping' = ping /\ job[j] # None /\ job[j].pc = "reply"
        /\ echo' = [echo EXCEPT ![job[j].conn] = [seq |-> job[j].seq, at |-> job[j].at]]
        /\ job' = [job EXCEPT ![j] = None]
    BY <1>7 DEF Reply
  <2>2. job'[j] = None /\ \A k \in Job \ {j} : job'[k] = job[k]
    BY <1>0, <2>1 DEF PoolType
  <2>3. \A k \in Job : job'[k] # None =>
           /\ job'[k].seq <= seq'[job'[k].conn]
           /\ job'[k].pc = "reply" /\ job'[k].seq = seq'[job'[k].conn]
                => job'[k].at <= ping'[job'[k].conn]
    BY <1>2, <2>2
  <2>4. /\ job[j].conn \in Conn /\ job[j].seq <= seq[job[j].conn]
        /\ job[j].seq = seq[job[j].conn] => job[j].at <= ping[job[j].conn]
    BY <1>d, <2>1
  <2>5. \A c \in Conn : /\ echo'[c].seq <= seq'[c]
                        /\ echo'[c].seq = seq'[c] => echo'[c].at <= ping'[c]
    BY <1>a, <1>c, <2>1, <2>4
  <2> QED BY <2>3, <2>5 DEF AnswersOK
<1> QED BY <1>3, <1>4, <1>5, <1>6, <1>7, PoolSteps

\* What AnsweredIsKept says of a step.
LEMMA AnsweredStep ==
    ASSUME TypeOK, QueueOK, PlacesOK, AnswersOK, [Next]_vars
    PROVE  tpc = "silence" /\ tpc' = "erase" /\ echo[tc].seq = seq[tc]
              => now - echo[tc].at > 3 * Wait
<1> SUFFICES ASSUME tpc = "silence", tpc' = "erase", echo[tc].seq = seq[tc]
             PROVE  now - echo[tc].at > 3 * Wait
  OBVIOUS
<1>1. TestSilence
  <2>1. ~ UNCHANGED <<now, monitor>>
    BY DEF monitor
  <2>2. ~Tick
    BY DEF Tick
  <2> QED BY <2>1, <2>2, MonitorSteps
          DEF MonitorStep, FallAsleep, WakeForNothing, WakeForTimers, WalkEnd, WalkOne,
              MonitorErase, MonitorRecycle
<1>2. cur - ping[tc] > 3 * Wait
  BY <1>1 DEF TestSilence
<1>3. tc \in Conn /\ cur = now
  BY DEF PlacesOK, Awake
<1>4. echo[tc].at <= ping[tc]
  BY <1>3 DEF AnswersOK
<1>5. echo[tc].at \in Int /\ ping[tc] \in Int /\ now \in Int /\ 3 * Wait \in Int
  BY <1>3, BoundAssumption, WaitAssumption DEF TypeOK
<1> QED BY <1>2, <1>3, <1>4, <1>5

\* A peer whose PING was answered (ping_handler) is not found silent by
\* monitor_timer_th_func for three periods from then on.
THEOREM AnsweredCorrect == Spec => AnsweredIsKept
<1>1. Init => AnswersOK
  BY NoneAssumption DEF Init, AnswersOK
<1>2. Clock /\ AnswersOK /\ [Next]_vars => AnswersOK'
  BY AnswersStep DEF Clock
<1>3. Clock /\ AnswersOK /\ [Next]_vars =>
        [tpc = "silence" /\ tpc' = "erase" /\ echo[tc].seq = seq[tc]
            => now - echo[tc].at > 3 * Wait]_vars
  BY AnsweredStep DEF Clock
<1> QED BY <1>1, <1>2, <1>3, ClockAlways, PTL DEF Spec, AnsweredIsKept

-----------------------------------------------------------------------------
(* Silent peers. *)

\* A deletion leaves the entries of the other connections.
LEMMA DeleteLeaves ==
    ASSUME TypeOK, QueueOK, NEW c \in Conn, DeleteFromTimerQueue(c),
           NEW m \in 1..Len(queue), queue[m].conn # c
    PROVE  \E i \in 1..Len(queue') : queue'[i] = queue[m]
<1>1. queue \in Seq(Entry) /\ Len(queue) \in Nat
  BY DEF TypeOK
<1>2. CASE queue' = queue
  BY <1>1, <1>2
<1>3. CASE queue' # queue
  <2>1. /\ Len(queue') = Len(queue) - 1
        /\ \E f \in 1..Len(queue) :
             /\ queue[f].conn = c
             /\ \A i \in 1..Len(queue') : queue'[i] = IF i < f THEN queue[i] ELSE queue[i + 1]
    BY <1>3, DeleteTakesOne
  <2>2. PICK f \in 1..Len(queue) :
             /\ queue[f].conn = c
             /\ \A i \in 1..Len(queue') : queue'[i] = IF i < f THEN queue[i] ELSE queue[i + 1]
    BY <2>1
  <2>3. m # f
    BY <2>2
  <2>4. CASE m < f
    <3>1. m \in 1..Len(queue')
      BY <1>1, <2>1, <2>4
    <3> QED BY <2>2, <2>4, <3>1
  <2>5. CASE m > f
    <3>1. m - 1 \in 1..Len(queue') /\ ~(m - 1 < f) /\ (m - 1) + 1 = m
      BY <1>1, <2>1, <2>5
    <3> QED BY <2>2, <3>1
  <2> QED BY <1>1, <2>3, <2>4, <2>5
<1> QED BY <1>2, <1>3

\* What keeps an entry that is in time.
LEMMA WatchedStays ==
    ASSUME TypeOK, TypeOK', NEW c \in Conn, Watched(c),
           \A m \in 1..Len(queue) : queue[m].conn = c =>
               \E i \in 1..Len(queue') : queue'[i] = queue[m],
           seq'[c] = seq[c], ping[c] <= ping'[c], Pending(c) => Pending(c)'
    PROVE  Watched(c)'
<1>1. PICK m \in 1..Len(queue) : /\ queue[m].conn = c /\ queue[m].seq = seq[c]
                                 /\ queue[m].at <= ping[c] + 4 * Wait \/ Pending(c)
  BY DEF Watched
<1>2. PICK i \in 1..Len(queue') : queue'[i] = queue[m]
  BY <1>1
<1>3. queue[m].at \in Nat
  BY EntryType DEF TypeOK
<1>4. ping[c] \in Nat /\ ping'[c] \in Nat /\ 4 * Wait \in Nat
  <2>1. ping \in [Conn -> 0..MaxTime] /\ ping' \in [Conn -> 0..MaxTime]
    BY DEF TypeOK
  <2> QED BY <2>1, BoundAssumption, WaitAssumption
<1>5. queue'[i].conn = c /\ queue'[i].seq = seq'[c]
  BY <1>1, <1>2
<1>6. queue'[i].at <= ping'[c] + 4 * Wait \/ Pending(c)'
  <2> DEFINE a == queue[m].at
             w == 4 * Wait
             x == ping[c]
             y == ping'[c]
  <2>1. a <= x + w \/ Pending(c)'
    BY <1>1
  <2>2. x <= y /\ a \in Nat /\ x \in Nat /\ y \in Nat /\ w \in Nat
    BY <1>3, <1>4
  <2> HIDE DEF a, w, x, y
  <2>3. a <= y + w \/ Pending(c)'
    BY <2>1, <2>2
  <2> QED BY <1>2, <2>3 DEF a, w, y
<1> QED BY <1>5, <1>6 DEF Watched

LEMMA PendingStays ==
    ASSUME NEW c \in Conn, seq'[c] = seq[c], que' = que,
           tpc = "silence" /\ tc = c => tpc' = "silence" /\ tc' = c
    PROVE  Pending(c) => Pending(c)'
BY DEF Pending

LEMMA WatchStep ==
    ASSUME Clock, Clock', WatchOK, [Next]_vars
    PROVE  WatchOK'
<1> USE DEF timer, monitor, conn, loop, pool, history
<1>a. /\ TypeOK /\ QueueOK /\ PlacesOK /\ TypeOK'
      /\ TimerType /\ MonitorType /\ ConnType /\ PoolType /\ LoopType
  BY TypeParts DEF Clock
<1>b. /\ seq \in [Conn -> Nat] /\ ping \in [Conn -> 0..MaxTime] /\ on \in [Conn -> BOOLEAN]
      /\ recy \subseteq Conn /\ MaxTime \in Nat
  BY <1>a, BoundAssumption DEF ConnType
<1>c. now \in Nat /\ Wait \in Nat /\ Wait > 0 /\ Len(queue) \in Nat
  BY <1>a, BoundAssumption, WaitAssumption DEF LoopType, TimerType
<1> SUFFICES ASSUME NEW c \in Conn, c \notin twice', on'[c]
             PROVE  c \notin recy' /\ (Watched(c)' \/ Between(c)')
  BY DEF WatchOK
<1>d. c \notin twice /\ on[c] => c \notin recy /\ (Watched(c) \/ Between(c))
  BY DEF WatchOK
\* The entry of c stays in its place and c stays where it is.
<1>s. ASSUME queue' = queue, seq'[c] = seq[c], ping'[c] = ping[c], Watched(c),
             Pending(c) => Pending(c)'
      PROVE  Watched(c)'
  <2>1. ping[c] <= ping'[c]
    BY <1>b, <1>s
  <2> QED BY <1>a, <1>s, <2>1, WatchedStays
<1>1. CASE UNCHANGED <<now, timer, monitor, conn, loop, twice>>
  <2>1. Watched(c) => Watched(c)'
    BY <1>1, <1>s, PendingStays
  <2>2. Between(c) => Between(c)'
    BY <1>1 DEF Between
  <2> QED BY <1>1, <1>d, <2>1, <2>2
<1>2. ASSUME NEW j \in Job, Refresh(j)
      PROVE  c \notin recy' /\ (Watched(c)' \/ Between(c)')
  <2>1. /\ ping' = [ping EXCEPT ![job[j].conn] = now]
        /\ UNCHANGED <<now, timer, monitor, seq, on, recy, loop, twice>>
    BY <1>2 DEF Refresh
  <2>2. ping[c] <= ping'[c] /\ (ping[c] = now => ping'[c] = now)
    BY <1>a, <1>b, <1>c, <2>1 DEF PlacesOK
  <2>3. Watched(c) => Watched(c)'
    BY <1>a, <2>1, <2>2, PendingStays, WatchedStays
  <2>4. Between(c) => Between(c)'
    BY <2>1, <2>2 DEF Between
  <2> QED BY <1>d, <2>1, <2>3, <2>4
<1>3. CASE FallAsleep \/ WakeForNothing
  <2>1. /\ tpc \in {"sleep", "tired"} /\ tpc' \in {"sleep", "tired"}
        /\ UNCHANGED <<now, timer, que, tc, conn, loop, twice>>
    BY <1>3 DEF FallAsleep, WakeForNothing
  <2>2. Watched(c) => Watched(c)'
    BY <1>s, <2>1, PendingStays
  <2>3. Between(c) => Between(c)'
    BY <2>1 DEF Between
  <2> QED BY <1>d, <2>1, <2>2, <2>3
<1>4. CASE WakeForTimers
  <2>1. /\ tpc = "sleep" /\ tpc' = "walk"
        /\ UNCHANGED <<now, tc, conn, loop, twice>>
    BY <1>4 DEF WakeForTimers
  <2>2. que = <<>> /\ ~Pending(c)
    <3>1. que = <<>>
      BY <1>a, <2>1 DEF PlacesOK, Awake
    <3> QED BY <2>1, <3>1 DEF Pending
  <2>3. Between(c) => Between(c)'
    BY <2>1 DEF Between
  <2>4. ASSUME Watched(c) PROVE Watched(c)'
    <3>1. PICK m \in 1..Len(queue) : /\ queue[m].conn = c /\ queue[m].seq = seq[c]
                                     /\ queue[m].at <= ping[c] + 4 * Wait
      BY <2>2, <2>4 DEF Watched
    <3>2. PICK k \in 0..Len(queue) :
             /\ Len(queue') = Len(queue)
             /\ \A i \in 1..(Len(queue) - k) : queue'[i] = queue[k + i]
             /\ \A i \in 1..k : queue'[(Len(queue) - k) + i]
                  = [conn |-> queue[i].conn, seq |-> queue[i].seq, at |-> now + Wait]
             /\ Len(que') = k
             /\ \A i \in 1..k : que'[i] = [conn |-> queue[i].conn, seq |-> queue[i].seq]
      BY <1>4, <1>a, WakeRotates
    <3>3. CASE m > k
      <4>1. m - k \in 1..(Len(queue) - k) /\ k + (m - k) = m /\ m - k \in 1..Len(queue')
        BY <1>c, <3>2, <3>3
      <4>2. queue'[m - k] = queue[m]
        BY <3>2, <4>1
      <4> QED BY <2>1, <3>1, <4>1, <4>2 DEF Watched
    <3>4. CASE m <= k
      <4>1. m \in 1..k /\ (Len(queue) - k) + m \in 1..Len(queue')
        BY <1>c, <3>2, <3>4
      <4>2. /\ queue'[(Len(queue) - k) + m] = [conn |-> queue[m].conn, seq |-> queue[m].seq, at |-> now + Wait]
            /\ que'[m] = [conn |-> queue[m].conn, seq |-> queue[m].seq]
        BY <3>2, <4>1
      <4>3. Pending(c)'
        BY <2>1, <3>1, <3>2, <4>1, <4>2 DEF Pending
      <4> QED BY <2>1, <3>1, <4>1, <4>2, <4>3 DEF Watched
    <3> QED BY <1>c, <3>3, <3>4
  <2> QED BY <1>d, <2>1, <2>3, <2>4
<1>5. CASE WalkEnd
  <2>1. /\ tpc = "walk" /\ tpc' = "tired" /\ que' = que
        /\ UNCHANGED <<now, timer, tc, conn, loop, twice>>
    BY <1>5 DEF WalkEnd
  <2>2. Watched(c) => Watched(c)'
    BY <1>s, <2>1, PendingStays
  <2>3. Between(c) => Between(c)'
    BY <2>1 DEF Between
  <2> QED BY <1>d, <2>1, <2>2, <2>3
<1>6. CASE WalkOne
  <2>1. /\ tpc = "walk" /\ que # <<>> /\ que' = Tail(que)
        /\ IF Head(que).seq = seq[Head(que).conn]
           THEN tpc' = "silence" /\ tc' = Head(que).conn
           ELSE UNCHANGED <<tpc, tc>>
        /\ UNCHANGED <<now, timer, conn, loop, twice>>
    BY <1>6 DEF WalkOne
  <2>2. que \in Seq(Stamp) /\ Len(que) \in Nat
    BY <1>a DEF MonitorType
  <2>3. ASSUME Pending(c) PROVE Pending(c)'
    <3>1. PICK k \in 1..Len(que) : que[k].conn = c /\ que[k].seq = seq[c]
      BY <2>1, <2>3 DEF Pending
    <3>2. CASE k = 1
      <4>1. Head(que) = que[1]
        BY <2>1, <2>2
      <4> QED BY <2>1, <3>1, <3>2, <4>1 DEF Pending
    <3>3. CASE k # 1
      <4>1. k - 1 \in 1..Len(Tail(que)) /\ Tail(que)[k - 1] = que[k]
        BY <2>1, <2>2, <3>3
      <4> QED BY <2>1, <3>1, <4>1 DEF Pending
    <3> QED BY <3>2, <3>3
  <2>4. Watched(c) => Watched(c)'
    BY <1>s, <2>1, <2>3
  <2>5. Between(c) => Between(c)'
    BY <2>1 DEF Between
  <2> QED BY <1>d, <2>1, <2>4, <2>5
<1>7. CASE TestSilence
  <2>1. /\ tpc = "silence" /\ que' = que
        /\ IF cur - ping[tc] > 3 * Wait
           THEN tpc' = "erase" /\ tc' = tc
           ELSE tpc' = "walk" /\ tc' = None
        /\ UNCHANGED <<now, timer, conn, loop, twice>>
    BY <1>7 DEF TestSilence
  <2>2. cur = now /\ tc \in Conn
    BY <1>a, <2>1 DEF PlacesOK, Awake
  <2>3. Between(c) => Between(c)'
    BY <2>1 DEF Between
  <2>4. CASE c # tc
    BY <1>d, <1>s, <2>1, <2>3, <2>4, PendingStays
  <2>5. CASE c = tc /\ cur - ping[tc] > 3 * Wait
    BY <1>d, <2>1, <2>5 DEF Between
  <2>6. CASE c = tc /\ ~(cur - ping[tc] > 3 * Wait)
    <3>1. ASSUME Watched(c) PROVE Watched(c)'
      <4>1. PICK m \in 1..Len(queue) : queue[m].conn = c /\ queue[m].seq = seq[c]
        BY <3>1 DEF Watched
      <4>2. queue[m].at <= now + Wait /\ queue[m].at \in Nat
        BY <1>a, EntryType DEF QueueOK, TypeOK
      <4>3. ping[c] \in Nat
        BY <1>b
      <4>4. queue[m].at <= ping[c] + 4 * Wait
        BY <1>c, <2>2, <2>6, <4>2, <4>3
      <4> QED BY <2>1, <4>1, <4>4 DEF Watched
    <3> QED BY <1>d, <2>1, <2>3, <3>1
  <2> QED BY <2>4, <2>5, <2>6
<1>8. CASE MonitorErase
  <2>1. /\ tpc = "erase" /\ tpc' = "recycle" /\ DeleteFromTimerQueue(tc) /\ tc \in Conn
        /\ UNCHANGED <<now, que, tc, conn, loop, twice>>
    BY <1>8, <1>a DEF MonitorErase, PlacesOK
  <2>2. CASE c = tc
    BY <1>d, <2>1, <2>2 DEF Between
  <2>3. CASE c # tc
    <3>1. \A m \in 1..Len(queue) : queue[m].conn = c =>
             \E i \in 1..Len(queue') : queue'[i] = queue[m]
      BY <1>a, <2>1, <2>3, DeleteLeaves
    <3>2. ping[c] <= ping'[c]
      BY <1>b, <2>1
    <3>3. Watched(c) => Watched(c)'
      BY <1>a, <2>1, <3>1, <3>2, PendingStays, WatchedStays
    <3>4. Between(c) => Between(c)'
      BY <2>1, <2>3 DEF Between
    <3> QED BY <1>d, <2>1, <3>3, <3>4
  <2> QED BY <2>2, <2>3
<1>9. ASSUME NEW d \in Conn, Recycle(d), UNCHANGED <<now, timer, que, twice>>,
             Between(c) /\ c # d => Between(c)',
             c # d /\ tpc = "silence" /\ tc = c => tpc' = "silence" /\ tc' = c
      PROVE  c \notin recy' /\ (Watched(c)' \/ Between(c)')
  <2>1. /\ on' = [on EXCEPT ![d] = FALSE]
        /\ c # d => seq'[c] = seq[c] /\ (c \in recy' => c \in recy)
        /\ ping' = ping
    BY <1>9, <1>b DEF Recycle
  <2>2. c # d /\ on[c]
    BY <1>b, <2>1
  <2>3. Watched(c) => Watched(c)'
    BY <1>9, <1>s, <2>1, <2>2, PendingStays
  <2> QED BY <1>9, <1>d, <2>1, <2>2, <2>3
<1>10. CASE MonitorRecycle
  <2>1. /\ tpc = "recycle" /\ tc \in Conn /\ Recycle(tc)
        /\ UNCHANGED <<now, timer, que, loop, twice>>
    BY <1>10, <1>a DEF MonitorRecycle, PlacesOK
  <2>2. ping' = ping
    BY <2>1 DEF Recycle
  <2>3. Between(c) /\ c # tc => Between(c)'
    BY <2>1, <2>2 DEF Between
  <2> QED BY <1>9, <2>1, <2>3
<1>11. CASE HangUpRecycles
  <2>1. /\ mpc = "recycle" /\ mc \in Conn /\ Recycle(mc)
        /\ UNCHANGED <<now, timer, monitor, twice>>
    BY <1>11, <1>a DEF HangUpRecycles, PlacesOK
  <2>2. Between(c) /\ c # mc => Between(c)'
    BY <2>1 DEF Between
  <2> QED BY <1>9, <2>1, <2>2
<1>12. ASSUME NEW d \in Conn, Accept(d)
       PROVE  c \notin recy' /\ (Watched(c)' \/ Between(c)')
  <2>1. /\ mpc = "idle" /\ mpc' = "add" /\ mc' = d /\ twice' = twice \cup ({d} \cap recy)
        /\ on' = [on EXCEPT ![d] = TRUE] /\ seq' = [seq EXCEPT ![d] = @ + 1]
        /\ ping' = [ping EXCEPT ![d] = now]
        /\ UNCHANGED <<now, timer, monitor, recy>>
    BY <1>12 DEF Accept
  <2>2. CASE d = c
    <3>1. ping'[c] = now
      BY <1>b, <2>1, <2>2
    <3> QED BY <2>1, <2>2, <3>1 DEF Between
  <2>3. CASE d # c
    <3>1. on[c] /\ seq'[c] = seq[c] /\ ping'[c] = ping[c]
      BY <1>b, <2>1, <2>3
    <3>2. Watched(c) => Watched(c)'
      BY <1>s, <2>1, <3>1, PendingStays
    <3>3. Between(c) => Between(c)'
      BY <2>1 DEF Between
    <3> QED BY <1>d, <2>1, <3>1, <3>2, <3>3
  <2> QED BY <2>2, <2>3
<1>13. CASE AcceptAddsTimer
  <2>1. /\ mpc = "add" /\ mc \in Conn /\ AddToTimerQueue(mc)
        /\ UNCHANGED <<now, monitor, conn, twice>>
    BY <1>13, <1>a DEF AcceptAddsTimer, PlacesOK
  <2>2. /\ Len(queue') = Len(queue) + 1
        /\ \A i \in 1..Len(queue) : queue'[i] = queue[i]
        /\ queue'[Len(queue) + 1] = [conn |-> mc, seq |-> seq[mc], at |-> now + Wait]
    BY <1>a, <2>1, AddAppends
  <2>3. \A m \in 1..Len(queue) : queue[m].conn = c =>
             \E i \in 1..Len(queue') : queue'[i] = queue[m]
    <3>1. \A m \in 1..Len(queue) : m \in 1..Len(queue')
      BY <1>c, <2>2
    <3> QED BY <2>2, <3>1
  <2>4. Watched(c) => Watched(c)'
    <3>1. ping[c] <= ping'[c]
      BY <1>b, <2>1
    <3> QED BY <1>a, <2>1, <2>3, <3>1, PendingStays, WatchedStays
  <2>5. Between(c) => Between(c)' \/ Watched(c)'
    <3>1. CASE mpc = "add" /\ mc = c /\ ping[c] = now
      <4>1. Len(queue) + 1 \in 1..Len(queue') /\ now + Wait <= ping[c] + 4 * Wait
        BY <1>c, <2>2, <3>1
      <4>2. /\ queue'[Len(queue) + 1].conn = c /\ queue'[Len(queue) + 1].seq = seq'[c]
            /\ queue'[Len(queue) + 1].at <= ping'[c] + 4 * Wait
        BY <2>1, <2>2, <3>1, <4>1
      <4> QED BY <4>1, <4>2 DEF Watched
    <3>2. CASE tpc \in {"erase", "recycle"} /\ tc = c
      BY <2>1, <3>2 DEF Between
    <3> QED BY <2>1, <3>1, <3>2 DEF Between
  <2> QED BY <1>d, <2>1, <2>4, <2>5
<1>14. ASSUME NEW d \in Conn, HangUp(d)
       PROVE  c \notin recy' /\ (Watched(c)' \/ Between(c)')
  <2>1. /\ mpc = "idle" /\ mpc' = "recycle" /\ mc' = d /\ DeleteFromTimerQueue(d)
        /\ UNCHANGED <<now, monitor, conn, twice>>
    BY <1>14 DEF HangUp
  <2>2. CASE c = d
    BY <1>d, <2>1, <2>2 DEF Between
  <2>3. CASE c # d
    <3>1. \A m \in 1..Len(queue) : queue[m].conn = c =>
             \E i \in 1..Len(queue') : queue'[i] = queue[m]
      BY <1>a, <2>1, <2>3, DeleteLeaves
    <3>2. ping[c] <= ping'[c]
      BY <1>b, <2>1
    <3>3. Watched(c) => Watched(c)'
      BY <1>a, <2>1, <3>1, <3>2, PendingStays, WatchedStays
    <3>4. Between(c) => Between(c)'
      BY <2>1, <2>3 DEF Between
    <3> QED BY <1>d, <2>1, <3>3, <3>4
  <2> QED BY <2>2, <2>3
<1>15. ASSUME NEW d \in Conn, Reset(d)
       PROVE  c \notin recy' /\ (Watched(c)' \/ Between(c)')
  <2>1. /\ on' = [on EXCEPT ![d] = FALSE] /\ seq' = [seq EXCEPT ![d] = @ + 1]
        /\ UNCHANGED <<now, timer, monitor, ping, recy, loop, twice>>
    BY <1>15 DEF Reset
  <2>2. c # d /\ on[c] /\ seq'[c] = seq[c]
    BY <1>b, <2>1
  <2>3. Watched(c) => Watched(c)'
    BY <1>s, <2>1, <2>2, PendingStays
  <2>4. Between(c) => Between(c)'
    BY <2>1 DEF Between
  <2> QED BY <1>d, <2>1, <2>2, <2>3, <2>4
<1>16. ASSUME NEW d \in Conn, Return(d)
       PROVE  c \notin recy' /\ (Watched(c)' \/ Between(c)')
  <2>1. /\ d \in recy /\ recy' = recy \ {d} /\ seq' = [seq EXCEPT ![d] = @ + 1]
        /\ UNCHANGED <<now, timer, monitor, ping, on, loop, twice>>
    BY <1>16 DEF Return
  <2>2. c # d /\ seq'[c] = seq[c]
    BY <1>b, <1>d, <2>1
  <2>3. Watched(c) => Watched(c)'
    BY <1>s, <2>1, <2>2, PendingStays
  <2>4. Between(c) => Between(c)'
    BY <2>1 DEF Between
  <2> QED BY <1>d, <2>1, <2>3, <2>4
<1>17. CASE Tick
  <2>1. tpc = "sleep" /\ mpc = "idle" /\ UNCHANGED <<timer, monitor, conn, loop, twice>>
    BY <1>17 DEF Tick
  <2>2. ~Between(c)
    BY <2>1 DEF Between
  <2>3. Watched(c) => Watched(c)'
    BY <1>s, <2>1, PendingStays
  <2> QED BY <1>d, <2>1, <2>2, <2>3
<1>18. CASE \E j \in Job : Process(j) \/ Reply(j) \/ \E d \in Conn, p \in Packages : Receive(j, d, p)
  BY <1>1, <1>18 DEF Process, Reply, Receive
<1>19. CASE UNCHANGED vars
  BY <1>1, <1>19 DEF vars
<1> QED
  BY <1>2, <1>3, <1>4, <1>5, <1>6, <1>7, <1>8, <1>10, <1>11, <1>12, <1>13, <1>14,
     <1>15, <1>16, <1>17, <1>18, <1>19
     DEF Next, MonitorStep, LoopStep, JobStep

\* With an entry that is in time and not overdue, the bound holds.
LEMMA WatchedInTime ==
    ASSUME TypeOK, NEW c \in Conn, Watched(c), ~Pending(c), NEW n \in Nat,
           \A i \in 1..Len(queue) : n <= queue[i].at + 1
    PROVE  n - ping[c] <= 4 * Wait + 1
<1>1. PICK m \in 1..Len(queue) : queue[m].at <= ping[c] + 4 * Wait
  BY DEF Watched
<1>2. queue[m].at \in Nat /\ n <= queue[m].at + 1
  BY EntryType DEF TypeOK
<1>3. ping[c] \in Nat /\ 4 * Wait \in Nat
  <2>1. ping \in [Conn -> 0..MaxTime]
    BY DEF TypeOK
  <2> QED BY <2>1, BoundAssumption, WaitAssumption
<1> QED BY <1>1, <1>2, <1>3

LEMMA SilentStep ==
    ASSUME Clock, WatchOK, SilentIsRecycled, [Next]_vars
    PROVE  SilentIsRecycled'
<1> USE DEF timer, monitor, conn, loop, pool, history
<1>a. /\ TypeOK /\ QueueOK /\ PlacesOK /\ WakesInTime
      /\ TimerType /\ MonitorType /\ ConnType /\ PoolType /\ LoopType
  BY TypeParts DEF Clock
<1>b. ping \in [Conn -> 0..MaxTime] /\ on \in [Conn -> BOOLEAN] /\ MaxTime \in Nat
  BY <1>a, BoundAssumption DEF ConnType
<1>c. now \in Nat /\ Wait \in Nat /\ Wait > 0 /\ Len(queue) \in Nat /\ wake \in Nat
  BY <1>a, BoundAssumption, WaitAssumption DEF LoopType, TimerType, MonitorType
<1>e. \A i \in 1..Len(queue) : queue[i].at \in Nat
  BY <1>a, EntryType DEF TimerType
<1> SUFFICES ASSUME NEW c \in Conn, c \notin twice', on'[c], ~fresh',
                    ~(mpc' = "recycle" /\ mc' = c)
             PROVE  now' - ping'[c] <= 4 * Wait + 1
  BY DEF SilentIsRecycled
<1>f. c \notin twice /\ on[c] /\ ~fresh /\ ~(mpc = "recycle" /\ mc = c)
        => now - ping[c] <= 4 * Wait + 1
  BY DEF SilentIsRecycled
<1>g. c \notin twice /\ on[c] => Watched(c) \/ Between(c)
  BY DEF WatchOK
<1>h. ping[c] \in Nat /\ ping[c] <= now
  BY <1>a, <1>b DEF PlacesOK
\* A peer that was just accepted.
<1>i. ping[c] = now => now - ping[c] <= 4 * Wait + 1
  BY <1>c, <1>h
<1>1. CASE UNCHANGED <<now, fresh, ping, on, loop, twice>>
  BY <1>1, <1>f
<1>2. ASSUME NEW j \in Job, Refresh(j) PROVE now' - ping'[c] <= 4 * Wait + 1
  <2>1. /\ ping' = [ping EXCEPT ![job[j].conn] = now]
        /\ UNCHANGED <<now, fresh, on, loop, twice>>
    BY <1>2 DEF Refresh
  <2>2. ping'[c] = ping[c] \/ ping'[c] = now
    BY <1>b, <2>1
  <2> QED BY <1>c, <1>f, <2>1, <2>2
<1>3. CASE WakeForNothing
  <2>1. /\ tpc = "sleep" /\ (size = 0 \/ now <= head)
        /\ UNCHANGED <<now, timer, que, conn, loop, twice>>
    BY <1>3 DEF WakeForNothing
  <2>2. ~Pending(c)
    BY <1>a, <2>1 DEF Pending, PlacesOK, Awake
  <2>3. \A i \in 1..Len(queue) : now <= queue[i].at + 1
    <3>1. size = Len(queue) /\ (size > 0 => head = queue[1].at)
      BY <1>a DEF QueueOK
    <3>2. \A i \in 1..Len(queue) : queue[1].at <= queue[i].at
      BY <1>a, <1>c DEF QueueOK, Sorted
    <3> QED BY <1>c, <1>e, <2>1, <3>1, <3>2
  <2>4. Watched(c) => now - ping[c] <= 4 * Wait + 1
    BY <1>a, <1>c, <2>2, <2>3, WatchedInTime
  <2>5. Between(c) => ping[c] = now
    BY <2>1 DEF Between
  <2> QED BY <1>g, <1>i, <2>1, <2>4, <2>5
<1>4. CASE WalkEnd
  <2>1. tpc = "walk" /\ que = <<>> /\ UNCHANGED <<now, timer, conn, loop, twice>>
    BY <1>4 DEF WalkEnd
  <2>2. ~Pending(c)
    BY <2>1 DEF Pending
  <2>3. \A i \in 1..Len(queue) : now <= queue[i].at + 1
    BY <1>a, <1>c, <1>e, <2>1 DEF WakesInTime
  <2>4. Watched(c) => now - ping[c] <= 4 * Wait + 1
    BY <1>a, <1>c, <2>2, <2>3, WatchedInTime
  <2>5. Between(c) => ping[c] = now
    BY <2>1 DEF Between
  <2> QED BY <1>g, <1>i, <2>1, <2>4, <2>5
<1>5. CASE Tick
  <2>1. /\ tpc = "sleep" /\ mpc = "idle" /\ now < wake /\ now' = now + 1
        /\ UNCHANGED <<timer, monitor, conn, loop, twice>>
    BY <1>5 DEF Tick
  <2>2. Watched(c)
    BY <1>g, <2>1 DEF Between
  <2>3. ~Pending(c)
    BY <1>a, <2>1 DEF Pending, PlacesOK, Awake
  <2>4. now' \in Nat /\ \A i \in 1..Len(queue) : now' <= queue[i].at + 1
    BY <1>a, <1>c, <1>e, <2>1 DEF WakesInTime
  <2>5. now' - ping[c] <= 4 * Wait + 1
    BY <1>a, <2>2, <2>3, <2>4, WatchedInTime
  <2>6. ping' = ping
    BY <2>1
  <2> QED BY <2>5, <2>6
<1>6. ASSUME NEW d \in Conn, Accept(d) PROVE now' - ping'[c] <= 4 * Wait + 1
  <2>1. /\ on' = [on EXCEPT ![d] = TRUE] /\ ping' = [ping EXCEPT ![d] = now]
        /\ twice' = twice \cup ({d} \cap recy) /\ mpc = "idle" /\ UNCHANGED <<now, fresh>>
    BY <1>6 DEF Accept
  <2>2. CASE d = c
    <3>1. ping'[c] = now
      BY <1>b, <2>1, <2>2
    <3> QED BY <1>c, <2>1, <3>1
  <2>3. CASE d # c
    BY <1>b, <1>f, <2>1, <2>3
  <2> QED BY <2>2, <2>3
<1>7. ASSUME NEW d \in Conn, HangUp(d) \/ Reset(d) PROVE now' - ping'[c] <= 4 * Wait + 1
  <2>1. /\ on'[c] => on[c]
        /\ mpc = "idle" /\ UNCHANGED <<now, fresh, ping, twice>>
    BY <1>7, <1>b DEF HangUp, Reset
  <2> QED BY <1>f, <2>1
<1>8. CASE AcceptAddsTimer
  <2>1. mpc = "add" /\ UNCHANGED <<now, fresh, ping, on, twice>>
    BY <1>8 DEF AcceptAddsTimer
  <2> QED BY <1>f, <2>1
<1>9. CASE MonitorRecycle \/ HangUpRecycles
  <2>1. UNCHANGED <<now, fresh, ping, twice>>
    BY <1>9 DEF MonitorRecycle, HangUpRecycles, Recycle
  <2>2. on[c] /\ ~(mpc = "recycle" /\ mc = c)
    <3>1. CASE MonitorRecycle
      BY <1>a, <1>b, <3>1 DEF MonitorRecycle, Recycle, PlacesOK
    <3>2. CASE HangUpRecycles
      BY <1>a, <1>b, <3>2 DEF HangUpRecycles, Recycle, PlacesOK
    <3> QED BY <1>9, <3>1, <3>2
  <2> QED BY <1>f, <2>1, <2>2
<1>10. CASE FallAsleep \/ WakeForTimers \/ WalkOne \/ TestSilence \/ MonitorErase
  BY <1>1, <1>10 DEF FallAsleep, WakeForTimers, WalkOne, TestSilence, MonitorErase
<1>11. CASE \E d \in Conn : Return(d)
  BY <1>1, <1>11 DEF Return
<1>12. CASE \E j \in Job : Process(j) \/ Reply(j) \/ \E d \in Conn, p \in Packages : Receive(j, d, p)
  BY <1>1, <1>12 DEF Process, Reply, Receive
<1>13. CASE UNCHANGED vars
  BY <1>1, <1>13 DEF vars
<1> QED
  BY <1>2, <1>3, <1>4, <1>5, <1>6, <1>7, <1>8, <1>9, <1>10, <1>11, <1>12, <1>13
     DEF Next, MonitorStep, LoopStep, JobStep

\* A connection that sends no PING is recycled by monitor_timer_th_func after three
\* periods and at most one period and a second more, unless its object is in the
\* recovery set while it serves the peer.
THEOREM SilentCorrect == Spec => []SilentIsRecycled
<1>1. Init => WatchOK /\ SilentIsRecycled
  BY DEF Init, WatchOK, SilentIsRecycled
<1>2. Clock /\ Clock' /\ WatchOK /\ SilentIsRecycled /\ [Next]_vars
        => WatchOK' /\ SilentIsRecycled'
  BY WatchStep, SilentStep
<1> QED BY <1>1, <1>2, ClockAlways, PTL DEF Spec

-----------------------------------------------------------------------------
(* Entries of the present peers. *)

\* A deletion keeps two entries two.
LEMMA DeleteApart ==
    ASSUME TypeOK, QueueOK, NEW c \in Conn, DeleteFromTimerQueue(c),
           NEW i \in 1..Len(queue'), NEW k \in 1..Len(queue'), i # k
    PROVE  \E a, b \in 1..Len(queue) : a # b /\ queue'[i] = queue[a] /\ queue'[k] = queue[b]
<1>1. queue \in Seq(Entry) /\ Len(queue) \in Nat
  BY DEF TypeOK
<1>2. CASE queue' = queue
  BY <1>1, <1>2
<1>3. CASE queue' # queue
  <2>1. /\ Len(queue') = Len(queue) - 1
        /\ \E f \in 1..Len(queue) : \A m \in 1..Len(queue') :
             queue'[m] = IF m < f THEN queue[m] ELSE queue[m + 1]
    BY <1>3, DeleteTakesOne
  <2>2. PICK f \in 1..Len(queue) : \A m \in 1..Len(queue') :
             queue'[m] = IF m < f THEN queue[m] ELSE queue[m + 1]
    BY <2>1
  <2> DEFINE a == IF i < f THEN i ELSE i + 1
             b == IF k < f THEN k ELSE k + 1
  <2>3. a \in 1..Len(queue) /\ b \in 1..Len(queue) /\ a # b
    BY <1>1, <2>1
  <2>4. queue'[i] = queue[a] /\ queue'[k] = queue[b]
    BY <2>2
  <2> HIDE DEF a, b
  <2> QED BY <2>3, <2>4
<1> QED BY <1>2, <1>3

\* Where a connection has one entry at most, a deletion leaves none.
LEMMA DeleteRemoves ==
    ASSUME TypeOK, QueueOK, NEW c \in Conn, DeleteFromTimerQueue(c),
           \A i, k \in 1..Len(queue) : queue[k].conn = queue[i].conn => k = i
    PROVE  \A i \in 1..Len(queue') : queue'[i].conn # c
<1>1. queue \in Seq(Entry) /\ Len(queue) \in Nat
  BY DEF TypeOK
<1>2. CASE \A i \in 1..Len(queue) : queue[i].conn # c
  BY <1>2, DeleteKeeps
<1>3. CASE ~ \A i \in 1..Len(queue) : queue[i].conn # c
  <2>1. /\ Len(queue') = Len(queue) - 1
        /\ \E f \in 1..Len(queue) :
             /\ queue[f].conn = c
             /\ \A m \in 1..Len(queue') : queue'[m] = IF m < f THEN queue[m] ELSE queue[m + 1]
    BY <1>3, DeleteTakesOne
  <2>2. PICK f \in 1..Len(queue) :
             /\ queue[f].conn = c
             /\ \A m \in 1..Len(queue') : queue'[m] = IF m < f THEN queue[m] ELSE queue[m + 1]
    BY <2>1
  <2> TAKE i \in 1..Len(queue')
  <2> DEFINE a == IF i < f THEN i ELSE i + 1
  <2>3. a \in 1..Len(queue) /\ a # f
    BY <1>1, <2>1
  <2>4. queue'[i] = queue[a]
    BY <2>2
  <2> HIDE DEF a
  <2> QED BY <2>2, <2>3, <2>4
<1> QED BY <1>2, <1>3

\* So does the loop over get_over_time_timer.
LEMMA WakeApart ==
    ASSUME TypeOK, QueueOK, WakeForTimers,
           NEW i \in 1..Len(queue'), NEW k \in 1..Len(queue'), i # k
    PROVE  \E a, b \in 1..Len(queue) :
             a # b /\ queue'[i].conn = queue[a].conn /\ queue'[k].conn = queue[b].conn
<1>1. queue \in Seq(Entry) /\ Len(queue) \in Nat
  BY DEF TypeOK
<1>2. PICK d \in 0..Len(queue) :
             /\ Len(queue') = Len(queue)
             /\ \A m \in 1..(Len(queue) - d) : queue'[m] = queue[d + m]
             /\ \A m \in 1..d : queue'[(Len(queue) - d) + m]
                  = [conn |-> queue[m].conn, seq |-> queue[m].seq, at |-> now + Wait]
  BY WakeRotates
<1> DEFINE g(m) == IF m <= Len(queue) - d THEN d + m ELSE m - (Len(queue) - d)
<1>3. ASSUME NEW m \in 1..Len(queue')
      PROVE  g(m) \in 1..Len(queue) /\ queue'[m].conn = queue[g(m)].conn
  <2>1. CASE m <= Len(queue) - d
    <3>1. m \in 1..(Len(queue) - d) /\ d + m \in 1..Len(queue)
      BY <1>1, <1>2, <2>1
    <3> QED BY <1>2, <2>1, <3>1
  <2>2. CASE ~(m <= Len(queue) - d)
    <3> DEFINE e == m - (Len(queue) - d)
    <3>1. e \in 1..d /\ m = (Len(queue) - d) + e /\ e \in 1..Len(queue)
      BY <1>1, <1>2, <2>2
    <3>2. queue'[m] = [conn |-> queue[e].conn, seq |-> queue[e].seq, at |-> now + Wait]
      BY <1>2, <3>1
    <3>3. g(m) = e
      BY <2>2
    <3> HIDE DEF e, g
    <3> QED BY <3>1, <3>2, <3>3
  <2> QED BY <2>1, <2>2
<1>4. g(i) # g(k)
  BY <1>1, <1>2
<1> HIDE DEF g
<1> QED BY <1>3, <1>4

\* As long as no connection is reset.
LEMMA NoReset ==
    ASSUME TypeOK, [Next]_vars, resets' = 0
    PROVE  resets = 0 /\ \A c \in Conn : ~Reset(c)
<1> USE DEF timer, monitor, conn, loop, pool, history
<1>0. resets \in Nat
  BY DEF TypeOK
<1>1. \A c \in Conn : ~Reset(c)
  BY <1>0 DEF Reset
<1>2. CASE \E c \in Conn : Accept(c) \/ HangUp(c) \/ Return(c)
  BY <1>1, <1>2 DEF Accept, HangUp, Return
<1>3. CASE \E j \in Job : JobStep(j) \/ \E c \in Conn, p \in Packages : Receive(j, c, p)
  BY <1>1, <1>3 DEF JobStep, Receive, Process, Refresh, Reply
<1>4. CASE MonitorStep
  BY <1>1, <1>4 DEF MonitorStep, FallAsleep, WakeForNothing, WakeForTimers, WalkEnd, WalkOne,
              TestSilence, MonitorErase, MonitorRecycle
<1>5. CASE AcceptAddsTimer \/ HangUpRecycles \/ Tick
  BY <1>1, <1>5 DEF AcceptAddsTimer, HangUpRecycles, Tick
<1>6. CASE UNCHANGED vars
  BY <1>1, <1>6 DEF vars
<1> QED BY <1>1, <1>2, <1>3, <1>4, <1>5, <1>6 DEF Next, LoopStep

\* How a connection object changes then.
LEMMA ObjectSteps ==
    ASSUME TypeOK, PlacesOK, CurrentNow, [Next]_vars, resets' = 0
    PROVE  \/ \E d \in Conn : Accept(d) \/ Return(d)
           \/ \E d \in Conn : /\ Recycle(d) /\ JustClosed(d) /\ UNCHANGED <<now, queue>>
                              /\ \/ MonitorRecycle /\ d = tc
                                 \/ HangUpRecycles /\ d = mc
           \/ UNCHANGED <<seq, on, free, recy, inrecy>>
<1> USE DEF timer, monitor, conn, loop, pool, history
<1>1. CASE MonitorRecycle
  BY <1>1 DEF MonitorRecycle, PlacesOK, CurrentNow, ThreadsOK
<1>2. CASE HangUpRecycles
  BY <1>2 DEF HangUpRecycles, PlacesOK, CurrentNow, ThreadsOK
<1>3. CASE \E j \in Job : Refresh(j)
  BY <1>3 DEF Refresh
<1> QED BY <1>1, <1>2, <1>3, NoReset, ConnSteps

LEMMA ObjectStep ==
    ASSUME TypeOK, PlacesOK, CurrentNow, [Next]_vars, resets' = 0
    PROVE  ObjectOK'
<1>0. free \in [Conn -> Nat] /\ on \in [Conn -> BOOLEAN] /\ recy \subseteq Conn
  <2>1. ConnType
    BY TypeParts
  <2> QED BY <2>1 DEF ConnType
<1>a. \A c \in Conn : /\ free[c] \in Nat /\ free[c] <= 1
                      /\ on[c] => free[c] = 0 /\ c \notin recy
                      /\ c \in recy => free[c] = 0
  BY <1>0 DEF CurrentNow, ObjectOK
<1>1. ASSUME NEW d \in Conn, Accept(d) PROVE ObjectOK'
  <2>1. /\ free[d] > 0 /\ free' = [free EXCEPT ![d] = @ - 1] /\ on' = [on EXCEPT ![d] = TRUE]
        /\ recy' = recy
    BY <1>1 DEF Accept
  <2>2. free[d] = 1 /\ ~on[d] /\ d \notin recy /\ free'[d] = 0
    BY <1>0, <1>a, <2>1
  <2> QED BY <1>0, <1>a, <2>1, <2>2 DEF ObjectOK
<1>2. ASSUME NEW d \in Conn, Return(d) PROVE ObjectOK'
  <2>1. /\ d \in recy /\ free' = [free EXCEPT ![d] = @ + 1] /\ on' = on
        /\ recy' = recy \ {d}
    BY <1>2 DEF Return
  <2>2. free[d] = 0 /\ ~on[d] /\ free'[d] = 1
    BY <1>0, <1>a, <2>1
  <2> QED BY <1>0, <1>a, <2>1, <2>2 DEF ObjectOK
<1>3. ASSUME NEW d \in Conn, Recycle(d), JustClosed(d) PROVE ObjectOK'
  <2>1. on' = [on EXCEPT ![d] = FALSE] /\ free' = free /\ recy' = recy \cup {d}
    BY <1>3 DEF Recycle
  <2>2. free[d] = 0
    BY <1>3, <1>a DEF JustClosed
  <2> QED BY <1>0, <1>a, <2>1, <2>2 DEF ObjectOK
<1>4. CASE UNCHANGED <<seq, on, free, recy, inrecy>>
  BY <1>4, <1>a DEF ObjectOK
<1> QED BY <1>1, <1>2, <1>3, <1>4, ObjectSteps

LEMMA JustClosedStays ==
    ASSUME TypeOK, PlacesOK, CurrentNow, [Next]_vars, resets' = 0, now' = now,
           NEW c \in Conn, JustClosed(c)
    PROVE  JustClosed(c)'
<1>0. /\ on \in [Conn -> BOOLEAN] /\ recy \subseteq Conn /\ inrecy \in [Conn -> 0..MaxTime]
      /\ now \in Nat /\ RecyWait \in Nat /\ RecyWait > 0
  <2>1. ConnType /\ LoopType
    BY TypeParts
  <2> QED BY <2>1, BoundAssumption, WaitAssumption DEF ConnType, LoopType
<1>a. on[c] => c \notin recy
  BY DEF CurrentNow, ObjectOK
<1>1. ASSUME NEW d \in Conn, Accept(d) PROVE JustClosed(c)'
  BY <1>0, <1>1 DEF Accept, JustClosed
<1>2. ASSUME NEW d \in Conn, Return(d) PROVE JustClosed(c)'
  <2>1. /\ d \in recy /\ now >= inrecy[d] + RecyWait /\ recy' = recy \ {d}
        /\ UNCHANGED <<on, inrecy>>
    BY <1>2 DEF Return
  <2>2. c = d => on[c]
    BY <1>0, <2>1 DEF JustClosed
  <2> QED BY <1>a, <2>1, <2>2 DEF JustClosed
<1>3. ASSUME NEW d \in Conn, Recycle(d) PROVE JustClosed(c)'
  BY <1>0, <1>a, <1>3 DEF Recycle, JustClosed
<1>4. CASE UNCHANGED <<seq, on, free, recy, inrecy>>
  BY <1>4 DEF JustClosed
<1> QED BY <1>1, <1>2, <1>3, <1>4, ObjectSteps

\* A peer that is no longer served has an older number.
LEMMA SeqTells ==
    ASSUME TypeOK, PlacesOK, CurrentNow, [Next]_vars, resets' = 0, NEW c \in Conn
    PROVE  /\ seq[c] \in Nat /\ seq'[c] \in Nat /\ seq[c] <= seq'[c]
           /\ on[c] /\ seq'[c] = seq[c] => on'[c]
           /\ seq'[c] = seq[c] => ~Accept(c)
<1>0. on \in [Conn -> BOOLEAN] /\ seq \in [Conn -> Nat]
  <2>1. ConnType
    BY TypeParts
  <2> QED BY <2>1 DEF ConnType
<1>a. on[c] => c \notin recy
  BY DEF CurrentNow, ObjectOK
<1>1. ASSUME NEW d \in Conn, Accept(d)
      PROVE  /\ seq'[c] \in Nat /\ seq[c] <= seq'[c] /\ (on[c] /\ seq'[c] = seq[c] => on'[c])
  BY <1>0, <1>1 DEF Accept
<1>2. ASSUME NEW d \in Conn, Return(d)
      PROVE  /\ seq'[c] \in Nat /\ seq[c] <= seq'[c] /\ (on[c] /\ seq'[c] = seq[c] => on'[c])
  BY <1>0, <1>2 DEF Return
<1>3. ASSUME NEW d \in Conn, Recycle(d)
      PROVE  /\ seq'[c] \in Nat /\ seq[c] <= seq'[c] /\ (on[c] /\ seq'[c] = seq[c] => on'[c])
  BY <1>0, <1>a, <1>3 DEF Recycle
<1>4. ASSUME UNCHANGED <<seq, on, free, recy, inrecy>>
      PROVE  /\ seq'[c] \in Nat /\ seq[c] <= seq'[c] /\ (on[c] /\ seq'[c] = seq[c] => on'[c])
  BY <1>0, <1>4
<1>5. Accept(c) => seq'[c] # seq[c]
  BY <1>0 DEF Accept
<1>6. /\ seq'[c] \in Nat /\ seq[c] <= seq'[c] /\ (on[c] /\ seq'[c] = seq[c] => on'[c])
  BY <1>0, <1>1, <1>2, <1>3, <1>4, ObjectSteps
<1> QED BY <1>0, <1>5, <1>6

LEMMA ThreadsStep ==
    ASSUME TypeOK, QueueOK, PlacesOK, CurrentNow, [Next]_vars, resets' = 0
    PROVE  ThreadsOK'
<1> USE DEF timer, monitor, conn, loop, pool, history
<1>a. TimerType /\ MonitorType /\ ConnType /\ LoopType
  BY TypeParts
<1>b. on \in [Conn -> BOOLEAN] /\ free \in [Conn -> Nat] /\ que \in Seq(Stamp) /\ Len(que) \in Nat
  BY <1>a DEF ConnType, MonitorType
<1>c. \A c \in Conn : JustClosed(c) => free[c] = 0
  BY DEF CurrentNow, ObjectOK, JustClosed
<1>d. tpc \in {"silence", "erase", "recycle"} =>
        tc \in Conn /\ JustClosed(tc) /\ ~(mpc = "add" /\ mc = tc)
  BY DEF CurrentNow, ThreadsOK, PlacesOK
<1>e. /\ mpc # "idle" => mc \in Conn
      /\ mpc = "recycle" => JustClosed(mc)
      /\ mpc = "add" => on[mc]
  BY DEF CurrentNow, ThreadsOK, PlacesOK
<1>f. \A k \in 1..Len(que) :
         /\ que[k].conn \in Conn /\ que[k].seq \in Nat
         /\ que[k].seq <= seq[que[k].conn]
         /\ que[k].seq = seq[que[k].conn] =>
              on[que[k].conn] /\ ~(mpc = "add" /\ mc = que[k].conn)
  BY <1>b, StampType DEF CurrentNow, ThreadsOK
\* Time stands still while a thread is at work.
<1>g. tpc # "sleep" \/ mpc # "idle" => now' = now
  BY TimerSteps DEF Tick, WakeForTimers, MonitorErase, AcceptAddsTimer, HangUp
\* Who enters "add".
<1>h. mpc' = "add" => (mpc = "add" /\ mc' = mc) \/ \E d \in Conn : Accept(d) /\ mc' = d
  BY LoopSteps DEF Accept, HangUp, AcceptAddsTimer, HangUpRecycles
<1>1. (tpc \in {"silence", "erase", "recycle"} =>
         JustClosed(tc) /\ ~(mpc = "add" /\ mc = tc))'
  <2> SUFFICES ASSUME tpc' \in {"silence", "erase", "recycle"}
               PROVE  JustClosed(tc)' /\ ~(mpc' = "add" /\ mc' = tc')
    OBVIOUS
  <2>1. /\ tc' \in Conn /\ JustClosed(tc') /\ ~(mpc = "add" /\ mc = tc') /\ tpc # "sleep"
    <3>1. CASE tpc \in {"silence", "erase", "recycle"} /\ tc' = tc
      BY <1>d, <3>1
    <3>2. CASE WalkOne
      <4>1. /\ que # <<>> /\ tpc = "walk" /\ tc' = Head(que).conn
            /\ Head(que).seq = seq[Head(que).conn]
        BY <3>2 DEF WalkOne
      <4>2. 1 \in 1..Len(que) /\ Head(que) = que[1]
        BY <1>b, <4>1
      <4> QED BY <1>f, <4>1, <4>2 DEF JustClosed
    <3>3. (tpc \in {"silence", "erase", "recycle"} /\ tc' = tc) \/ WalkOne
      BY MonitorSteps DEF MonitorStep, FallAsleep, WakeForNothing, WakeForTimers, WalkEnd,
         TestSilence, MonitorErase, MonitorRecycle, Tick
    <3> QED BY <3>1, <3>2, <3>3
  <2>2. JustClosed(tc)'
    BY <1>g, <2>1, JustClosedStays DEF JustClosed
  <2>3. ASSUME mpc' = "add", mc' = tc' PROVE FALSE
    <3>1. PICK d \in Conn : Accept(d) /\ mc' = d
      BY <1>h, <2>1, <2>3
    <3>2. free[d] > 0
      BY <3>1 DEF Accept
    <3> QED BY <1>c, <2>1, <2>3, <3>1, <3>2
  <2> QED BY <2>2, <2>3
<1>2. (mpc = "recycle" => JustClosed(mc))'
  <2> SUFFICES ASSUME mpc' = "recycle" PROVE JustClosed(mc)'
    OBVIOUS
  <2>1. CASE mpc = "recycle" /\ mc' = mc
    BY <1>e, <1>g, <2>1, JustClosedStays DEF JustClosed
  <2>2. ASSUME NEW d \in Conn, HangUp(d) PROVE JustClosed(mc)'
    BY <2>2 DEF HangUp, JustClosed
  <2> QED BY <2>1, <2>2, LoopSteps DEF Accept, AcceptAddsTimer, HangUpRecycles
<1>3. (mpc = "add" => on[mc])'
  <2> SUFFICES ASSUME mpc' = "add" PROVE on'[mc']
    OBVIOUS
  <2>1. ASSUME NEW d \in Conn, Accept(d), mc' = d PROVE on'[mc']
    BY <1>b, <2>1 DEF Accept
  <2>2. CASE mpc = "add" /\ mc' = mc
    <3>1. mc \in Conn /\ on[mc]
      BY <1>e, <2>2
    <3>2. ASSUME NEW d \in Conn, Recycle(d), MonitorRecycle, d = tc PROVE on'[mc]
      BY <1>b, <1>d, <2>2, <3>1, <3>2 DEF MonitorRecycle, Recycle
    <3>3. ASSUME NEW d \in Conn, Accept(d) \/ Return(d) PROVE on'[mc]
      BY <1>b, <2>2, <3>1, <3>3 DEF Accept, Return
    <3>4. ~HangUpRecycles
      BY <2>2 DEF HangUpRecycles
    <3> QED BY <2>2, <3>1, <3>2, <3>3, <3>4, ObjectSteps
  <2> QED BY <1>h, <2>1, <2>2
<1>4. ASSUME NEW s \in Stamp, s.conn \in Conn, s.seq \in Nat, s.seq <= seq[s.conn],
             s.seq = seq[s.conn] => on[s.conn] /\ ~(mpc = "add" /\ mc = s.conn)
      PROVE  /\ s.seq <= seq'[s.conn]
             /\ s.seq = seq'[s.conn] => on'[s.conn] /\ ~(mpc' = "add" /\ mc' = s.conn)
  <2> DEFINE c == s.conn
  <2>1. /\ c \in Conn /\ seq[c] \in Nat /\ seq'[c] \in Nat /\ seq[c] <= seq'[c]
        /\ on[c] /\ seq'[c] = seq[c] => on'[c]
        /\ seq'[c] = seq[c] => ~Accept(c)
    BY <1>4, SeqTells
  <2>2. s.seq <= seq'[c]
    BY <1>4, <2>1
  <2>3. ASSUME s.seq = seq'[c] PROVE seq'[c] = seq[c] /\ s.seq = seq[c]
    BY <1>4, <2>1, <2>3
  <2>4. s.seq = seq'[c] => on'[c] /\ ~(mpc' = "add" /\ mc' = c)
    BY <1>4, <1>h, <2>1, <2>3
  <2> QED BY <2>2, <2>4
<1>5. (\A k \in 1..Len(que) :
         /\ que[k].seq <= seq[que[k].conn]
         /\ que[k].seq = seq[que[k].conn] =>
              on[que[k].conn] /\ ~(mpc = "add" /\ mc = que[k].conn))'
  <2>0. \A k \in 1..Len(que) :
          /\ que[k].seq <= seq'[que[k].conn]
          /\ que[k].seq = seq'[que[k].conn] =>
               on'[que[k].conn] /\ ~(mpc' = "add" /\ mc' = que[k].conn)
    BY <1>4, <1>b, <1>f, StampType
  <2>1. CASE que' = que
    BY <2>0, <2>1
  <2>2. CASE WalkOne
    <3>1. que # <<>> /\ que' = Tail(que)
      BY <2>2 DEF WalkOne
    <3>2. \A k \in 1..Len(que') : k + 1 \in 1..Len(que) /\ que'[k] = que[k + 1]
      BY <1>b, <3>1
    <3> QED BY <2>0, <3>2
  <2>3. CASE WakeForTimers
    <3>1. PICK d \in 0..Len(queue) :
             /\ Len(que') = d
             /\ \A k \in 1..d : que'[k] = [conn |-> queue[k].conn, seq |-> queue[k].seq]
      BY <2>3, WakeRotates
    <3>2. UNCHANGED <<seq, on, loop>>
      BY <2>3 DEF WakeForTimers
    <3>3. Len(queue) \in Nat /\ \A k \in 1..Len(queue) :
            /\ queue[k].conn \in Conn /\ queue[k].seq \in Nat
            /\ on[queue[k].conn] /\ queue[k].seq = seq[queue[k].conn]
            /\ mpc # "idle" => mc # queue[k].conn
      BY <1>a, EntryType DEF CurrentNow, EntriesOK, TimerType
    <3> SUFFICES ASSUME NEW k \in 1..Len(que')
                 PROVE  /\ que'[k].seq <= seq'[que'[k].conn]
                        /\ que'[k].seq = seq'[que'[k].conn] =>
                             on'[que'[k].conn] /\ ~(mpc' = "add" /\ mc' = que'[k].conn)
      OBVIOUS
    <3>4. k \in 1..Len(queue) /\ que'[k].conn = queue[k].conn /\ que'[k].seq = queue[k].seq
      BY <3>1, <3>3
    <3> QED BY <3>2, <3>3, <3>4
  <2> QED BY <2>1, <2>2, <2>3, MonitorSteps
          DEF MonitorStep, FallAsleep, WakeForNothing, WalkEnd, TestSilence, MonitorErase,
              MonitorRecycle, Tick
<1> QED BY <1>1, <1>2, <1>3, <1>5 DEF ThreadsOK

LEMMA EntriesStep ==
    ASSUME TypeOK, QueueOK, PlacesOK, CurrentNow, [Next]_vars, resets' = 0
    PROVE  EntriesOK'
<1> USE DEF timer, monitor, conn, loop, pool, history
<1>a. TimerType /\ MonitorType /\ ConnType /\ LoopType
  BY TypeParts
<1>b. on \in [Conn -> BOOLEAN] /\ seq \in [Conn -> Nat] /\ Len(queue) \in Nat
  BY <1>a DEF ConnType, TimerType
<1>c. \A i \in 1..Len(queue) :
        /\ queue[i].conn \in Conn
        /\ on[queue[i].conn] /\ queue[i].seq = seq[queue[i].conn]
        /\ mpc # "idle" => mc # queue[i].conn
        /\ tpc = "recycle" => tc # queue[i].conn
  BY <1>a, EntryType DEF CurrentNow, EntriesOK, TimerType
<1>d. \A i, k \in 1..Len(queue) : queue[k].conn = queue[i].conn => k = i
  BY DEF CurrentNow, EntriesOK
<1>e. \A c \in Conn : on[c] => free[c] = 0 /\ c \notin recy
  BY DEF CurrentNow, ObjectOK
<1>1. CASE UNCHANGED <<queue, on, seq, mpc, mc, tpc, tc>>
  BY <1>1 DEF CurrentNow, EntriesOK
<1>2. ASSUME NEW d \in Conn, Accept(d) PROVE EntriesOK'
  <2>1. /\ free[d] > 0 /\ mc' = d /\ UNCHANGED <<queue, tpc, tc>>
        /\ on' = [on EXCEPT ![d] = TRUE] /\ seq' = [seq EXCEPT ![d] = @ + 1]
    BY <1>2 DEF Accept
  <2>2. \A i \in 1..Len(queue) : queue[i].conn # d
    BY <1>c, <1>e, <2>1
  <2> QED BY <1>b, <1>c, <1>d, <2>1, <2>2 DEF EntriesOK
<1>3. ASSUME NEW d \in Conn, Return(d) PROVE EntriesOK'
  <2>1. /\ d \in recy /\ UNCHANGED <<queue, tpc, tc, mpc, mc, on>>
        /\ seq' = [seq EXCEPT ![d] = @ + 1]
    BY <1>3 DEF Return
  <2>2. \A i \in 1..Len(queue) : queue[i].conn # d
    BY <1>c, <1>e, <2>1
  <2> QED BY <1>b, <1>c, <1>d, <2>1, <2>2 DEF EntriesOK
<1>4. ASSUME NEW d \in Conn, Recycle(d), queue' = queue,
             \A i \in 1..Len(queue) : queue[i].conn # d,
             mpc' = "idle" \/ UNCHANGED loop, tpc' # "recycle" \/ UNCHANGED <<tpc, tc>>
      PROVE  EntriesOK'
  <2>1. \A c \in Conn : c # d => on'[c] = on[c] /\ seq'[c] = seq[c]
    BY <1>4, <1>b DEF Recycle
  <2> QED BY <1>4, <1>c, <1>d, <2>1 DEF EntriesOK
<1>5. CASE MonitorRecycle
  <2>1. /\ tpc = "recycle" /\ Recycle(tc) /\ tpc' = "walk" /\ UNCHANGED <<timer, loop>>
        /\ tc \in Conn
    BY <1>5 DEF MonitorRecycle, PlacesOK
  <2> QED BY <1>4, <1>c, <2>1
<1>6. CASE HangUpRecycles
  <2>1. /\ mpc = "recycle" /\ Recycle(mc) /\ mpc' = "idle" /\ UNCHANGED <<timer, monitor>>
        /\ mc \in Conn
    BY <1>6 DEF HangUpRecycles, PlacesOK
  <2> QED BY <1>4, <1>c, <2>1
<1>7. CASE WakeForTimers
  <2>1. tpc' = "walk" /\ UNCHANGED <<on, seq, loop>>
    BY <1>7 DEF WakeForTimers
  <2>2. \A i, k \in 1..Len(queue') : queue'[k].conn = queue'[i].conn => k = i
    BY <1>7, <1>d, WakeApart
  <2>3. \A i \in 1..Len(queue') : \E m \in 1..Len(queue) :
           queue'[i].conn = queue[m].conn /\ queue'[i].seq = queue[m].seq
    BY <1>7, WakeKeeps
  <2> QED BY <1>c, <2>1, <2>2, <2>3 DEF EntriesOK
<1>8. ASSUME NEW d \in Conn, DeleteFromTimerQueue(d), UNCHANGED <<on, seq>>,
             mpc' = "idle" \/ UNCHANGED loop \/ mc' = d,
             tpc' # "recycle" \/ UNCHANGED <<tpc, tc>> \/ tc' = d
      PROVE  EntriesOK'
  <2>1. \A i \in 1..Len(queue') : queue'[i].conn # d
    BY <1>8, <1>d, DeleteRemoves
  <2>2. \A i \in 1..Len(queue') : \E m \in 1..Len(queue) : queue'[i] = queue[m]
    BY <1>8, DeleteKeeps
  <2>3. \A i, k \in 1..Len(queue') : queue'[k].conn = queue'[i].conn => k = i
    BY <1>8, <1>d, DeleteApart
  <2> QED BY <1>8, <1>c, <2>1, <2>2, <2>3 DEF EntriesOK
<1>9. CASE MonitorErase
  <2>1. tc \in Conn /\ DeleteFromTimerQueue(tc) /\ UNCHANGED <<tc, conn, loop>>
    BY <1>9 DEF MonitorErase, PlacesOK
  <2> QED BY <1>8, <2>1
<1>10. ASSUME NEW d \in Conn, HangUp(d) PROVE EntriesOK'
  <2>1. DeleteFromTimerQueue(d) /\ mc' = d /\ UNCHANGED <<conn, monitor>>
    BY <1>10 DEF HangUp
  <2> QED BY <1>8, <2>1
<1>11. CASE AcceptAddsTimer
  <2>1. /\ mpc = "add" /\ mc \in Conn /\ AddToTimerQueue(mc) /\ mpc' = "idle"
        /\ UNCHANGED <<monitor, conn>>
    BY <1>11 DEF AcceptAddsTimer, PlacesOK
  <2>2. /\ Len(queue') = Len(queue) + 1
        /\ \A i \in 1..Len(queue) : queue'[i] = queue[i]
        /\ queue'[Len(queue) + 1] = [conn |-> mc, seq |-> seq[mc], at |-> now + Wait]
    BY <2>1, AddAppends
  <2>3. queue'[Len(queue) + 1].conn = mc /\ queue'[Len(queue) + 1].seq = seq[mc]
    BY <2>2
  <2>4. \A i \in 1..Len(queue') : i \in 1..Len(queue) \/ i = Len(queue) + 1
    BY <1>b, <2>2
  <2>5. on[mc] /\ (tpc = "recycle" => tc # mc)
    BY <2>1 DEF CurrentNow, ThreadsOK
  <2>6. \A i, k \in 1..Len(queue') : queue'[k].conn = queue'[i].conn => k = i
    BY <1>c, <1>d, <2>1, <2>2, <2>3, <2>4
  <2>7. \A i \in 1..Len(queue') : /\ on'[queue'[i].conn] /\ queue'[i].seq = seq'[queue'[i].conn]
                                  /\ tpc' = "recycle" => tc' # queue'[i].conn
    BY <1>c, <2>1, <2>2, <2>3, <2>4, <2>5
  <2> QED BY <2>1, <2>6, <2>7 DEF EntriesOK
<1>12. CASE FallAsleep \/ WakeForNothing \/ WalkEnd \/ WalkOne \/ TestSilence
  <2>1. tpc' # "recycle" /\ UNCHANGED <<queue, on, seq, mpc, mc>>
    BY <1>12 DEF FallAsleep, WakeForNothing, WalkEnd, WalkOne, TestSilence
  <2> QED BY <1>c, <1>d, <2>1 DEF EntriesOK
<1>13. CASE Tick \/ UNCHANGED vars
  BY <1>1, <1>13 DEF Tick, vars
<1>14. CASE \E j \in Job : JobStep(j) \/ \E c \in Conn, p \in Packages : Receive(j, c, p)
  BY <1>1, <1>14 DEF JobStep, Receive, Process, Refresh, Reply
<1> QED
  BY <1>2, <1>3, <1>5, <1>6, <1>7, <1>9, <1>10, <1>11, <1>12, <1>13, <1>14, NoReset
     DEF Next, MonitorStep, LoopStep

\* As long as no connection was reset (close_conn), every entry of m_timer_queue
\* belongs to the peer its connection serves now.
THEOREM EntriesCorrect == Spec => []EntriesAreCurrent
<1>1. Init => Current
  BY DEF Init, Current, CurrentNow, ObjectOK, ThreadsOK, EntriesOK
<1>2. Clock /\ Current /\ [Next]_vars => Current'
  <2> SUFFICES ASSUME Clock, Current, [Next]_vars, resets' = 0
               PROVE  CurrentNow'
    BY DEF Current
  <2>1. TypeOK /\ QueueOK /\ PlacesOK
    BY DEF Clock
  <2>2. CurrentNow
    BY <2>1, NoReset DEF Current
  <2> QED BY <2>1, <2>2, ObjectStep, ThreadsStep, EntriesStep DEF CurrentNow
<1>3. Current => EntriesAreCurrent
  BY DEF Current, CurrentNow, EntriesOK, EntriesAreCurrent
<1> QED BY <1>1, <1>2, <1>3, ClockAlways, PTL DEF Spec

\* The type invariant.
THEOREM TypeCorrect == Spec => []TypeOK
<1>1. Clock => TypeOK
  BY DEF Clock
<1> QED BY <1>1, ClockAlways, PTL
=============================================================================
