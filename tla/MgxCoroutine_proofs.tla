------------------------ MODULE MgxCoroutine_proofs ------------------------
(***************************************************************************)
(* Theorems about the coroutine library, for any coroutines, descriptors   *)
(* and delays.                                                             *)
(***************************************************************************)
EXTENDS MgxCoroutine, FiniteSetTheorems, FunctionTheorems, TLAPS

\* m_cur_co is the one that runs.
RunningPart == \A c \in Co : status[c] = "RUNNING" <=> cur = c

\* The ready list holds the coroutines that are ready, each once.  They and
\* those to come go on in code of their own.
ReadyPart ==
    /\ \A c \in Co : status[c] \in {"none", "READY"} => at[c] = "code"
    /\ \A i \in 1..Len(ready) : status[ready[i]] = "READY"
    /\ \A i, j \in 1..Len(ready) : ready[i] = ready[j] => i = j
    /\ \A c \in Co : status[c] = "READY" => \E i \in 1..Len(ready) : ready[i] = c

\* The sleep tree holds the sleepers, each once, and in front of them the one
\* that was just resumed.
Slept(c) == at[c] \in {"slept", "timed"}
SleepPart ==
    /\ \A i \in 1..Len(sleep) :
          /\ Slept(sleep[i].co)
          /\ status[sleep[i].co] = "SLEEPING" \/ (cur = sleep[i].co /\ i = 1)
    /\ \A i, j \in 1..Len(sleep) : sleep[i].co = sleep[j].co => i = j
    /\ \A c \in Co : status[c] = "SLEEPING" => Slept(c)
    /\ \A c \in Co : status[c] = "SLEEPING" => \E i \in 1..Len(sleep) : sleep[i].co = c
    /\ cur # None /\ Slept(cur) => Len(sleep) > 0 /\ sleep[1].co = cur

\* A registration is one of the coroutine that uses the descriptor, that waits for
\* it or was just resumed; a waiting coroutine is registered unless its socket failed.
Waited(c) == at[c] \in {"waited", "connect"}
EpollPart ==
    /\ \A f \in Fd : LET c == interest[f].co IN
          c # None => owner[f] = c /\ wait_fd[c] = f /\ Waited(c) /\ (status[c] = "WAITING" \/ cur = c)
    /\ \A c \in Co : status[c] = "WAITING" =>
          /\ Waited(c)
          /\ wait_fd[c] \in Fd /\ owner[wait_fd[c]] = c
          /\ interest[wait_fd[c]].co = c \/ sock[wait_fd[c]] = "error"
    /\ cur # None /\ Waited(cur) => wait_fd[cur] \in Fd /\ interest[wait_fd[cur]].co = cur

\* Every event still to be handled is of a coroutine that waits and is registered.
EventPart ==
    /\ \A e \in events :
          /\ status[e.co] = "WAITING" /\ interest[wait_fd[e.co]].co = e.co
          /\ e.err => sock[wait_fd[e.co]] = "error"
    /\ \A d, e \in events : d.co = e.co => d = e

\* Nobody uses a closed descriptor.
ClosedPart == \A f \in Fd : sock[f] = "closed" => owner[f] = None

IInv == TypeOK /\ RunningPart /\ ReadyPart /\ SleepPart /\ EpollPart /\ EventPart /\ ClosedPart

\* How late the sleepers may be.  Once schedule() has woken the first one, which
\* leaves the tree, or has found that nobody is due, place i is at most Late(i)
\* late; epoll_wait adds up to its timeout.
Late(i) == WaitTimeout * (Cardinality(Co) - i)
Woken == cur # None /\ Slept(cur)
Served == pc \in {"ready", "poll"} /\ ~Woken
LatePart ==
    /\ \A i, j \in 1..Len(sleep) : i <= j => sleep[i].left <= sleep[j].left
    /\ \A i \in 1..Len(sleep) :
          sleep[i].left >= IF Served THEN -Late(i) ELSE -Late(i) - WaitTimeout + left
    /\ Woken => pc = "ready"
    /\ IF pc = "wait" THEN cur = None ELSE left = 0

-----------------------------------------------------------------------------
\* What Tail, InsertSleep and Tick make of a sequence, element by element.
LEMMA TailFacts ==
    ASSUME NEW S, NEW s \in Seq(S), s # <<>>
    PROVE  /\ Head(s) = s[1] /\ s[1] \in S /\ Len(s) \in Nat \ {0}
           /\ Tail(s) \in Seq(S) /\ Len(Tail(s)) = Len(s) - 1
           /\ \A i \in 1..Len(Tail(s)) : Tail(s)[i] = s[i + 1]
  OBVIOUS

Inserted(n, ms, c) ==
    /\ \A i \in 1..Len(sleep) : i <= n <=> sleep[i].left <= ms
    /\ \A i \in 1..Len(sleep) + 1 :
          sleep'[i] = IF i <= n THEN sleep[i]
                      ELSE IF i = n + 1 THEN [left |-> ms, co |-> c] ELSE sleep[i - 1]

LEMMA InsertFacts ==
    ASSUME TypeOK, NEW ms \in Int, NEW c \in Co, InsertSleep(ms, c)
    PROVE  /\ sleep' \in Seq([left : Int, co : Co])
           /\ Len(sleep') = Len(sleep) + 1
           /\ \E n \in 0..Len(sleep) : Inserted(n, ms, c)
<1> DEFINE R == [left : Int, co : Co]
           r == [left |-> ms, co |-> c]
<1>1. sleep \in Seq(R) /\ Len(sleep) \in Nat
  BY DEF TypeOK
<1>2. PICK n \in 0..Len(sleep) :
         /\ \A i \in 1..Len(sleep) : i <= n <=> sleep[i].left <= ms
         /\ sleep' = SubSeq(sleep, 1, n) \o <<r>> \o SubSeq(sleep, n + 1, Len(sleep))
  BY DEF InsertSleep
<1>3. r \in R
  OBVIOUS
<1> DEFINE a == SubSeq(sleep, 1, n)
           b == SubSeq(sleep, n + 1, Len(sleep))
<1> HIDE DEF R, r
<1>4. a \in Seq(R) /\ Len(a) = n /\ \A i \in 1..n : a[i] = sleep[i]
  BY <1>1
<1>5. b \in Seq(R) /\ Len(b) = Len(sleep) - n /\ \A i \in 1..Len(sleep) - n : b[i] = sleep[n + i]
  BY <1>1
<1> HIDE DEF a, b
<1>6. (a \o <<r>>) \in Seq(R) /\ Len(a \o <<r>>) = n + 1
      /\ \A i \in 1..n + 1 : (a \o <<r>>)[i] = IF i <= n THEN sleep[i] ELSE r
  BY <1>1, <1>3, <1>4
<1> DEFINE d == a \o <<r>>
<1> HIDE DEF d
<1>7. sleep' = d \o b
  BY <1>2 DEF a, b, d
<1>8. d \in Seq(R) /\ Len(d) = n + 1 /\ \A i \in 1..n + 1 : d[i] = IF i <= n THEN sleep[i] ELSE r
  BY <1>6 DEF d
<1>9. sleep' \in Seq(R) /\ Len(sleep') = Len(sleep) + 1
  BY <1>1, <1>5, <1>8, <1>7
<1>10. \A i \in 1..Len(sleep) + 1 : sleep'[i] = IF i <= n THEN sleep[i] ELSE IF i = n + 1 THEN r ELSE sleep[i - 1]
  <2> SUFFICES ASSUME NEW i \in 1..Len(sleep) + 1
               PROVE  sleep'[i] = IF i <= n THEN sleep[i] ELSE IF i = n + 1 THEN r ELSE sleep[i - 1]
    OBVIOUS
  <2>1. CASE i <= n + 1
    BY <1>1, <1>5, <1>7, <1>8, <2>1
  <2>2. CASE i > n + 1
    <3>1. sleep'[i] = b[i - (n + 1)]
      BY <1>1, <1>5, <1>7, <1>8, <2>2
    <3>2. i - (n + 1) \in 1..Len(sleep) - n /\ n + (i - (n + 1)) = i - 1 /\ ~(i <= n) /\ i # n + 1
      BY <1>1, <2>2
    <3>3. b[i - (n + 1)] = sleep[n + (i - (n + 1))]
      BY <1>5, <3>2
    <3> QED BY <3>1, <3>2, <3>3
  <2> QED BY <2>1, <2>2, <1>1
<1>11. Inserted(n, ms, c)
  BY <1>2, <1>10 DEF Inserted, r
<1> QED BY <1>9, <1>11 DEF R

\* An event record is in its type.
LEMMA EventType ==
    ASSUME NEW c \in Co, NEW b \in BOOLEAN
    PROVE  [co |-> c, err |-> b] \in [co : Co, err : BOOLEAN]
  OBVIOUS

LEMMA TickFacts ==
    ASSUME TypeOK, Tick
    PROVE  /\ sleep' \in Seq([left : Int, co : Co]) /\ Len(sleep') = Len(sleep)
           /\ \A i \in 1..Len(sleep) : sleep'[i].co = sleep[i].co
<1>1. sleep \in Seq([left : Int, co : Co]) /\ Len(sleep) \in Nat /\ DOMAIN sleep = 1..Len(sleep)
  BY DEF TypeOK
<1> DEFINE R == [left : Int, co : Co]
<1>7. sleep \in Seq(R)
  BY <1>1
<1>2. \A i \in 1..Len(sleep) : sleep[i] \in R
  <2> HIDE DEF R
  <2> QED BY <1>1, <1>7
<1>3. sleep' = [i \in 1..Len(sleep) |-> [sleep[i] EXCEPT !.left = @ - 1]]
  BY <1>1 DEF Tick
<1>4. \A i \in 1..Len(sleep) : sleep'[i] \in [left : Int, co : Co] /\ sleep'[i].co = sleep[i].co
  BY <1>2, <1>3
<1>5. sleep' \in [1..Len(sleep) -> [left : Int, co : Co]]
  BY <1>3, <1>4
<1>6. sleep' \in Seq([left : Int, co : Co]) /\ Len(sleep') = Len(sleep)
  BY <1>1, <1>5
<1> QED BY <1>4, <1>6

\* Going to sleep puts the running coroutine into the tree, coming back takes
\* its own entry out.
LEMMA SleepInsert ==
    ASSUME IInv, NEW c \in Co, InCode(c), NEW ms \in Int, InsertSleep(ms, c),
           NEW p \in {"slept", "timed"}, SwitchBack(c, "SLEEPING", p)
    PROVE  SleepPart'
<1> USE CoAssumption
<1>1. /\ cur = c /\ at[c] = "code" /\ cur' = None
      /\ status' = [status EXCEPT ![c] = "SLEEPING"] /\ at' = [at EXCEPT ![c] = p]
      /\ status \in [Co -> Status] /\ at \in [Co -> {"code", "slept", "waited", "connect", "timed"}]
      /\ Len(sleep) \in Nat /\ c # None
  BY DEF InCode, SwitchBack, IInv, TypeOK
<1>2. Len(sleep') = Len(sleep) + 1
  BY InsertFacts DEF IInv
<1>3. PICK n \in 0..Len(sleep) : Inserted(n, ms, c)
  BY InsertFacts DEF IInv
<1>4. \A i \in 1..Len(sleep) : sleep[i].co # c /\ Slept(sleep[i].co) /\ status[sleep[i].co] = "SLEEPING"
  BY <1>1 DEF IInv, SleepPart, Slept
<1>5. \A i \in 1..Len(sleep) : sleep[i].co \in Co
  <2> DEFINE R == [left : Int, co : Co]
  <2>1. sleep \in Seq(R)
    BY DEF IInv, TypeOK
  <2>2. \A i \in 1..Len(sleep) : sleep[i] \in R
    <3> HIDE DEF R
    <3> QED BY <2>1, <1>1
  <2> QED BY <2>2
<1>6. \A i \in 1..Len(sleep) + 1 :
         /\ i <= n => sleep'[i].co = sleep[i].co /\ i \in 1..Len(sleep)
         /\ i = n + 1 => sleep'[i].co = c
         /\ i > n + 1 => sleep'[i].co = sleep[i - 1].co /\ i - 1 \in 1..Len(sleep)
  BY <1>1, <1>3 DEF Inserted
<1>7. \A i \in 1..Len(sleep') : Slept(sleep[i].co)' /\ status'[sleep'[i].co] = "SLEEPING"
  <2> SUFFICES ASSUME NEW i \in 1..Len(sleep')
               PROVE  Slept(sleep[i].co)' /\ status'[sleep'[i].co] = "SLEEPING"
    OBVIOUS
  <2>1. i \in 1..Len(sleep) + 1
    BY <1>2
  <2>2. CASE i = n + 1
    BY <1>1, <1>6, <2>1, <2>2 DEF Slept
  <2>3. CASE i # n + 1
    <3>1. PICK j \in 1..Len(sleep) : sleep'[i].co = sleep[j].co
      BY <1>1, <1>6, <2>1, <2>3
    <3>2. sleep[j].co \in Co /\ sleep[j].co # c /\ Slept(sleep[j].co) /\ status[sleep[j].co] = "SLEEPING"
      BY <1>4, <1>5
    <3> QED BY <1>1, <3>1, <3>2 DEF Slept
  <2> QED BY <2>2, <2>3
<1>8. \A i, j \in 1..Len(sleep') : sleep'[i].co = sleep'[j].co => i = j
  BY <1>1, <1>2, <1>4, <1>6 DEF IInv, SleepPart
<1>9. \A d \in Co : status'[d] = "SLEEPING" => Slept(d)' /\ \E i \in 1..Len(sleep') : sleep'[i].co = d
  <2> SUFFICES ASSUME NEW d \in Co, status'[d] = "SLEEPING"
               PROVE  Slept(d)' /\ \E i \in 1..Len(sleep') : sleep'[i].co = d
    OBVIOUS
  <2>1. CASE d = c
    <3>1. n + 1 \in 1..Len(sleep') /\ sleep'[n + 1].co = c
      BY <1>1, <1>2, <1>6
    <3> QED BY <1>1, <2>1, <3>1 DEF Slept
  <2>2. CASE d # c
    <3>1. Slept(d) /\ \E i \in 1..Len(sleep) : sleep[i].co = d
      BY <1>1, <2>2 DEF IInv, SleepPart
    <3>2. PICK i \in 1..Len(sleep) : sleep[i].co = d
      BY <3>1
    <3>3. CASE i <= n
      BY <1>1, <1>2, <1>6, <2>2, <3>1, <3>2, <3>3 DEF Slept
    <3>4. CASE i > n
      <4>1. i + 1 \in 1..Len(sleep') /\ sleep'[i + 1].co = sleep[i].co
        BY <1>1, <1>2, <1>6, <3>4
      <4> QED BY <1>1, <2>2, <3>1, <3>2, <4>1 DEF Slept
    <3> QED BY <1>1, <3>3, <3>4
  <2> QED BY <2>1, <2>2
<1> QED BY <1>1, <1>7, <1>8, <1>9 DEF SleepPart

LEMMA SleepTail ==
    ASSUME IInv, NEW c \in Co, cur = c, Slept(c), sleep' = Tail(sleep),
           at' = [at EXCEPT ![c] = "code"], UNCHANGED <<cur, status>>
    PROVE  sleep' \in Seq([left : Int, co : Co]) /\ SleepPart'
<1> USE CoAssumption
<1> DEFINE R == [left : Int, co : Co]
<1>1. /\ cur # None /\ status[c] = "RUNNING" /\ at \in [Co -> {"code", "slept", "waited", "connect", "timed"}]
      /\ sleep \in Seq(R) /\ Len(sleep) > 0 /\ sleep[1].co = c
  BY DEF IInv, TypeOK, RunningPart, SleepPart
<1>2. /\ sleep' \in Seq(R) /\ Len(sleep) \in Nat \ {0} /\ Len(sleep') = Len(sleep) - 1
      /\ \A i \in 1..Len(sleep') : sleep'[i] = sleep[i + 1]
  <2> HIDE DEF R
  <2> QED BY <1>1, TailFacts
<1>3. \A i \in 1..Len(sleep) : sleep[i].co \in Co
  <2>1. \A i \in 1..Len(sleep) : sleep[i] \in R
    <3> HIDE DEF R
    <3> QED BY <1>1
  <2> QED BY <2>1
<1>4. \A i \in 1..Len(sleep') : /\ i + 1 \in 1..Len(sleep) /\ sleep'[i].co = sleep[i + 1].co
                                /\ sleep[i + 1].co # c /\ sleep[i + 1].co \in Co
  <2> SUFFICES ASSUME NEW i \in 1..Len(sleep')
               PROVE  /\ i + 1 \in 1..Len(sleep) /\ sleep'[i].co = sleep[i + 1].co
                      /\ sleep[i + 1].co # c /\ sleep[i + 1].co \in Co
    OBVIOUS
  <2>1. i + 1 \in 1..Len(sleep) /\ i + 1 # 1 /\ 1 \in 1..Len(sleep)
    BY <1>2
  <2>2. sleep[i + 1].co # c
    BY <1>1, <2>1 DEF IInv, SleepPart
  <2> QED BY <1>2, <1>3, <2>1, <2>2
<1>5. \A i \in 1..Len(sleep') : Slept(sleep[i].co)' /\ status'[sleep'[i].co] = "SLEEPING"
  <2> SUFFICES ASSUME NEW i \in 1..Len(sleep')
               PROVE  Slept(sleep[i].co)' /\ status'[sleep'[i].co] = "SLEEPING"
    OBVIOUS
  <2>1. Slept(sleep[i + 1].co) /\ status[sleep[i + 1].co] = "SLEEPING"
    BY <1>4 DEF IInv, SleepPart
  <2> QED BY <1>1, <1>4, <2>1 DEF Slept
<1>6. \A i, j \in 1..Len(sleep') : sleep'[i].co = sleep'[j].co => i = j
  <2> SUFFICES ASSUME NEW i \in 1..Len(sleep'), NEW j \in 1..Len(sleep'), sleep'[i].co = sleep'[j].co
               PROVE  i = j
    OBVIOUS
  <2>1. i + 1 = j + 1
    BY <1>4 DEF IInv, SleepPart
  <2> QED BY <2>1, <1>2
<1>7. \A d \in Co : status'[d] = "SLEEPING" => Slept(d)' /\ \E i \in 1..Len(sleep') : sleep'[i].co = d
  <2> SUFFICES ASSUME NEW d \in Co, status'[d] = "SLEEPING"
               PROVE  Slept(d)' /\ \E i \in 1..Len(sleep') : sleep'[i].co = d
    OBVIOUS
  <2>1. d # c /\ Slept(d) /\ \E i \in 1..Len(sleep) : sleep[i].co = d
    BY <1>1 DEF IInv, SleepPart
  <2>2. PICK i \in 1..Len(sleep) : sleep[i].co = d
    BY <2>1
  <2>3. i - 1 \in 1..Len(sleep') /\ (i - 1) + 1 = i
    BY <1>1, <1>2, <2>1, <2>2
  <2>4. sleep'[i - 1].co = d
    BY <1>4, <2>2, <2>3
  <2> QED BY <1>1, <2>1, <2>3, <2>4 DEF Slept
<1> QED BY <1>1, <1>2, <1>5, <1>6, <1>7 DEF SleepPart, Slept

LEMMA InitIInv == Init => IInv
<1> SUFFICES ASSUME Init PROVE IInv
    OBVIOUS
<1> USE CoAssumption, DelayAssumption
<1>1. TypeOK
  BY DEF Init, TypeOK, Status, Event, Unregistered
<1>2. RunningPart /\ ReadyPart /\ SleepPart
  BY DEF Init, RunningPart, ReadyPart, SleepPart
<1>3. EpollPart /\ EventPart /\ ClosedPart
  BY DEF Init, EpollPart, EventPart, ClosedPart, Unregistered
<1> QED BY <1>1, <1>2, <1>3 DEF IInv

\* One step per action, and under it one per part of the invariant.
LEMMA StepIInv == IInv /\ [Next]_vars => IInv'
<1> SUFFICES ASSUME IInv, [Next]_vars PROVE IInv'
    OBVIOUS
<1> USE CoAssumption, DelayAssumption
<1>0. CASE UNCHANGED vars
  BY <1>0
     DEF vars, IInv, TypeOK, RunningPart, ReadyPart, SleepPart, Slept, EpollPart, Waited, EventPart, ClosedPart
<1>1. CASE WakeSleeper
  <2>1. CASE ~Due
    BY <1>1, <2>1
       DEF IInv, WakeSleeper, ClosedPart, EpollPart, Event, EventPart, ReadyPart, RunningPart, SleepPart, Slept, TypeOK, Waited, sch_vars, kernel
  <2>2. CASE Due
    <3> DEFINE c == sleep[1].co
    <3>8. c \in Co /\ status[c] = "SLEEPING" /\ Slept(c) /\ Len(sleep) \in Nat \ {0} /\ c # None /\ Head(sleep).co = c
      <4>1. sleep[1] \in [left : Int, co : Co] /\ Head(sleep) = sleep[1] /\ Len(sleep) \in Nat \ {0}
        BY <2>2, TailFacts DEF Due, IInv, TypeOK
      <4> QED BY <1>1, <4>1 DEF IInv, WakeSleeper, SleepPart
    <3>9. /\ cur = None /\ cur' = c /\ pc' = "ready" /\ status' = [status EXCEPT ![c] = "RUNNING"]
          /\ UNCHANGED <<at, wait_fd, ready, sleep, interest, left, events, sock, avail, owner>>
      BY <1>1, <2>2, <3>8 DEF WakeSleeper, Resume, sch_vars, kernel
    <3> HIDE DEF c
    <3>0. sleep[1].co = c
      BY DEF c
    <3> USE DEF IInv, Slept, TypeOK
    <3>1. TypeOK'
      BY <3>0, <3>8, <3>9 DEF Status
    <3>2. RunningPart'
      BY <3>0, <3>8, <3>9 DEF RunningPart
    <3>3. ReadyPart'
      BY <3>0, <3>8, <3>9 DEF ReadyPart
    <3>4. SleepPart'
      BY <3>0, <3>8, <3>9 DEF SleepPart
    <3>5. EpollPart'
      BY <3>0, <3>8, <3>9 DEF EpollPart, Waited
    <3>6. EventPart'
      BY <3>0, <3>8, <3>9 DEF EventPart
    <3>7. ClosedPart'
      BY <3>0, <3>8, <3>9 DEF ClosedPart
    <3> QED BY <3>1, <3>2, <3>3, <3>4, <3>5, <3>6, <3>7
  <2> QED BY <2>1, <2>2
<1>2. CASE RunReady
  <2>1. CASE ready = <<>>
    BY <1>2, <2>1
       DEF IInv, RunReady, ClosedPart, EpollPart, EventPart, ReadyPart, RunningPart, SleepPart, Slept, TypeOK, Waited, kernel
  <2>2. CASE ready # <<>>
    <3> DEFINE c == ready[1]
    <3>8. /\ c \in Co /\ Len(ready) \in Nat \ {0} /\ c = Head(ready) /\ c # None
          /\ Tail(ready) \in Seq(Co) /\ Len(Tail(ready)) = Len(ready) - 1
          /\ \A i \in 1..Len(Tail(ready)) : Tail(ready)[i] = ready[i + 1]
      BY <2>2, TailFacts DEF IInv, TypeOK
    <3>9. /\ cur = None /\ cur' = c /\ pc' = "poll" /\ status' = [status EXCEPT ![c] = "RUNNING"]
          /\ UNCHANGED <<at, wait_fd, sleep, interest, left, events, sock, avail, owner>>
          /\ ready' \in Seq(Co) /\ Len(ready') = Len(ready) - 1
          /\ \A i \in 1..Len(ready) - 1 : ready'[i] = ready[i + 1]
      BY <1>2, <2>2, <3>8 DEF RunReady, Resume, kernel
    <3>10. status[c] = "READY" /\ at[c] = "code" /\ \A i \in 2..Len(ready) : ready[i] # c
      BY <3>8 DEF IInv, ReadyPart
    <3>11. c \in Co /\ c # None /\ ready[1] = c /\ Len(ready) \in Nat \ {0}
      BY <3>8
    <3> HIDE DEF c
    <3> USE DEF IInv, Slept, TypeOK
    <3>1. TypeOK'
      BY <3>9, <3>10, <3>11 DEF Status
    <3>2. RunningPart'
      BY <3>9, <3>10, <3>11 DEF RunningPart
    <3>3. ReadyPart'
      <4>0. \A i \in 1..Len(ready') : i \in 1..Len(ready) - 1 /\ i + 1 \in 2..Len(ready)
        BY <3>9, <3>11
      <4>1. \A i \in 1..Len(ready') : i + 1 \in 2..Len(ready) /\ ready'[i] = ready[i + 1] /\ ready[i + 1] # c
        BY <3>9, <3>10, <4>0
      <4>2. \A i \in 1..Len(ready') : status'[ready'[i]] = "READY"
        BY <3>9, <3>10, <3>11, <4>1 DEF ReadyPart
      <4>3. \A i, j \in 1..Len(ready') : ready'[i] = ready'[j] => i = j
        <5> SUFFICES ASSUME NEW i \in 1..Len(ready'), NEW j \in 1..Len(ready'), ready'[i] = ready'[j]
                     PROVE  i = j
          OBVIOUS
        <5>1. i + 1 = j + 1
          BY <3>11, <4>1 DEF ReadyPart
        <5> QED BY <5>1, <3>9, <3>11
      <4>4. \A d \in Co : status'[d] = "READY" => \E i \in 1..Len(ready') : ready'[i] = d
        <5> SUFFICES ASSUME NEW d \in Co, status'[d] = "READY"
                     PROVE  \E i \in 1..Len(ready') : ready'[i] = d
          OBVIOUS
        <5>1. d # c /\ \E i \in 1..Len(ready) : ready[i] = d
          BY <3>9, <3>11 DEF ReadyPart
        <5>2. PICK i \in 1..Len(ready) : ready[i] = d
          BY <5>1
        <5>3. i - 1 \in 1..Len(ready') /\ (i - 1) + 1 = i
          BY <3>9, <3>11, <5>1, <5>2
        <5> QED BY <4>1, <5>2, <5>3
      <4> QED BY <3>9, <3>10, <3>11, <4>2, <4>3, <4>4 DEF ReadyPart
    <3>4. SleepPart'
      <4>1. \A d \in Co : d # c => status'[d] = status[d]
        BY <3>9
      <4>2. \A i \in 1..Len(sleep) : sleep[i].co # c /\ status[sleep[i].co] = "SLEEPING" /\ sleep[i].co \in Co
        <5> DEFINE R == [left : Int, co : Co]
        <5>1. sleep \in Seq(R) /\ Len(sleep) \in Nat
          OBVIOUS
        <5>2. \A i \in 1..Len(sleep) : sleep[i] \in R
          <6> HIDE DEF R
          <6> QED BY <5>1
        <5> QED BY <5>2, <3>9, <3>10, <3>11 DEF SleepPart
      <4> QED BY <4>1, <4>2, <3>9, <3>10, <3>11 DEF SleepPart
    <3>5. EpollPart'
      BY <3>9, <3>10, <3>11 DEF EpollPart, Waited
    <3>6. EventPart'
      BY <3>9, <3>10, <3>11 DEF EventPart
    <3>7. ClosedPart'
      BY <3>9, <3>10, <3>11 DEF ClosedPart
    <3> QED BY <3>1, <3>2, <3>3, <3>4, <3>5, <3>6, <3>7
  <2> QED BY <2>1, <2>2
<1>3. CASE EpollWait
  <2>1. TypeOK'
    BY <1>3 DEF IInv, EpollWait, EpollWaitTimeout, co_vars, sch_vars, kernel, TypeOK
  <2>2. RunningPart'
    BY <1>3 DEF IInv, EpollWait, EpollWaitTimeout, co_vars, RunningPart
  <2>3. ReadyPart'
    BY <1>3 DEF IInv, EpollWait, EpollWaitTimeout, co_vars, sch_vars, ReadyPart
  <2>4. SleepPart'
    BY <1>3 DEF IInv, EpollWait, EpollWaitTimeout, co_vars, sch_vars, SleepPart, Slept
  <2>5. EpollPart'
    BY <1>3 DEF IInv, EpollWait, EpollWaitTimeout, co_vars, sch_vars, kernel, EpollPart, Waited
  <2>6. EventPart'
    BY <1>3 DEF IInv, EpollWait, EpollWaitTimeout, co_vars, sch_vars, kernel, EventPart
  <2>7. ClosedPart'
    BY <1>3 DEF IInv, EpollWait, EpollWaitTimeout, kernel, ClosedPart
  <2> QED BY <2>1, <2>2, <2>3, <2>4, <2>5, <2>6, <2>7 DEF IInv
<1>4. CASE Tick
  <2>1. TypeOK'
    BY <1>4, TickFacts DEF IInv, Tick, co_vars, kernel, TypeOK
  <2>2. RunningPart'
    BY <1>4 DEF IInv, Tick, co_vars, RunningPart
  <2>3. ReadyPart'
    BY <1>4 DEF IInv, Tick, co_vars, ReadyPart
  <2>4. SleepPart'
    <3>1. /\ Len(sleep') = Len(sleep) /\ Len(sleep) \in Nat
          /\ \A i \in 1..Len(sleep) : sleep'[i].co = sleep[i].co
      BY <1>4, TickFacts DEF IInv
    <3>2. UNCHANGED <<status, at, cur>> /\ cur = None
      BY <1>4 DEF Tick, co_vars
    <3>3. \A i \in 1..Len(sleep) : Slept(sleep[i].co)' /\ status'[sleep'[i].co] = "SLEEPING"
      <4>1. \A i \in 1..Len(sleep) : sleep[i].co \in Co
        <5> DEFINE R == [left : Int, co : Co]
        <5>1. sleep \in Seq(R)
          BY DEF IInv, TypeOK
        <5>2. \A i \in 1..Len(sleep) : sleep[i] \in R
          <6> HIDE DEF R
          <6> QED BY <5>1, <3>1
        <5> QED BY <5>2
      <4> QED BY <3>1, <3>2, <4>1 DEF IInv, SleepPart, Slept
    <3> QED BY <3>1, <3>2, <3>3 DEF IInv, SleepPart
  <2>5. EpollPart'
    BY <1>4 DEF IInv, Tick, co_vars, kernel, EpollPart, Waited
  <2>6. EventPart'
    BY <1>4 DEF IInv, Tick, co_vars, kernel, EventPart
  <2>7. ClosedPart'
    BY <1>4 DEF IInv, Tick, kernel, ClosedPart
  <2> QED BY <2>1, <2>2, <2>3, <2>4, <2>5, <2>6, <2>7 DEF IInv
<1>5. CASE EpollReturn
  <2>1. TypeOK'
    <3>1. events' \subseteq [co : Co, err : BOOLEAN]
      <4> SUFFICES ASSUME NEW f \in Fd, Reported(f)
                   PROVE  [co |-> interest[f].co, err |-> sock[f] = "error"] \in [co : Co, err : BOOLEAN]
        BY <1>5, Zenon DEF EpollReturn
      <4>1. interest[f].co \in Co
        BY DEF IInv, TypeOK, Reported
      <4>2. (sock[f] = "error") \in BOOLEAN
        BY Zenon
      <4> QED BY <4>1, <4>2, EventType, Zenon
    <3> QED BY <1>5, <3>1 DEF IInv, EpollReturn, co_vars, sch_vars, kernel, TypeOK
  <2>2. RunningPart'
    BY <1>5 DEF IInv, EpollReturn, co_vars, RunningPart
  <2>3. ReadyPart'
    BY <1>5 DEF IInv, EpollReturn, co_vars, sch_vars, ReadyPart
  <2>4. SleepPart'
    BY <1>5 DEF IInv, EpollReturn, co_vars, sch_vars, SleepPart, Slept
  <2>5. EpollPart'
    BY <1>5 DEF IInv, EpollReturn, co_vars, sch_vars, kernel, EpollPart, Waited
  <2>6. EventPart'
    <3>1. \A e \in events' : \E f \in Fd : interest[f].co # None /\ e = [co |-> interest[f].co, err |-> sock[f] = "error"]
      BY <1>5 DEF EpollReturn, Reported
    <3>2. cur = None /\ UNCHANGED <<status, wait_fd, interest, sock>>
      BY <1>5 DEF EpollReturn, co_vars, sch_vars, kernel
    <3>3. \A e \in events' : \E f \in Fd :
             /\ e = [co |-> interest[f].co, err |-> sock[f] = "error"] /\ wait_fd[e.co] = f
             /\ e.co = interest[f].co /\ e.co \in Co /\ status[e.co] = "WAITING"
      BY <3>1, <3>2 DEF IInv, EpollPart, TypeOK
    <3> DEFINE Ev(c) == [co |-> interest[wait_fd[c]].co, err |-> sock[wait_fd[c]] = "error"]
    <3>4. \A e \in events' : status[e.co] = "WAITING" /\ interest[wait_fd[e.co]].co = e.co
      BY <3>3
    <3>5. \A e \in events' : e = Ev(e.co)
      BY <3>3, ZenonT(30)
    <3>6. \A d, e \in events' : d.co = e.co => d = e
      <4> HIDE DEF Ev
      <4> QED BY <3>5
    <3>7. \A e \in events' : e.err => sock[wait_fd[e.co]] = "error"
      <4> SUFFICES ASSUME NEW e \in events', e.err PROVE sock[wait_fd[e.co]] = "error"
        OBVIOUS
      <4>1. Ev(e.co).err = (sock[wait_fd[e.co]] = "error")
        BY Zenon
      <4>2. Ev(e.co).err = e.err
        <5> HIDE DEF Ev
        <5> QED BY <3>5, Zenon
      <4> QED BY <4>1, <4>2, Zenon
    <3> QED BY <3>2, <3>4, <3>6, <3>7 DEF EventPart
  <2>7. ClosedPart'
    BY <1>5 DEF IInv, EpollReturn, kernel, ClosedPart
  <2> QED BY <2>1, <2>2, <2>3, <2>4, <2>5, <2>6, <2>7 DEF IInv
<1>6. CASE EpollInterrupted
  <2>1. TypeOK'
    BY <1>6 DEF IInv, EpollInterrupted, co_vars, sch_vars, kernel, TypeOK
  <2>2. RunningPart'
    BY <1>6 DEF IInv, EpollInterrupted, co_vars, RunningPart
  <2>3. ReadyPart'
    BY <1>6 DEF IInv, EpollInterrupted, co_vars, sch_vars, ReadyPart
  <2>4. SleepPart'
    BY <1>6 DEF IInv, EpollInterrupted, co_vars, sch_vars, SleepPart, Slept
  <2>5. EpollPart'
    BY <1>6 DEF IInv, EpollInterrupted, co_vars, sch_vars, kernel, EpollPart, Waited
  <2>6. EventPart'
    BY <1>6 DEF IInv, EpollInterrupted, co_vars, sch_vars, kernel, EventPart
  <2>7. ClosedPart'
    BY <1>6 DEF IInv, EpollInterrupted, kernel, ClosedPart
  <2> QED BY <2>1, <2>2, <2>3, <2>4, <2>5, <2>6, <2>7 DEF IInv
<1>7. ASSUME NEW e \in events, EventResumes(e) PROVE IInv'
  <2> DEFINE c == e.co
  <2>8. c \in Co /\ c # None /\ status[c] = "WAITING" /\ interest[wait_fd[c]].co = c /\ wait_fd[c] \in Fd /\ Waited(c)
    BY DEF IInv, TypeOK, EventPart, EpollPart
  <2>9. /\ cur = None /\ cur' = c /\ pc' = "events" /\ status' = [status EXCEPT ![c] = "RUNNING"]
        /\ events' = events \ {e}
        /\ UNCHANGED <<at, wait_fd, ready, sleep, interest, left, sock, avail, owner>>
    BY <1>7 DEF EventResumes, Resume, sch_vars, kernel
  <2>10. \A d \in events' : d \in events /\ d.co # c
    BY <2>9 DEF IInv, EventPart
  <2> HIDE DEF c
  <2> USE DEF IInv, Waited, TypeOK
  <2>1. TypeOK'
    BY <2>8, <2>9, <2>10 DEF Status
  <2>2. RunningPart'
    BY <2>8, <2>9, <2>10 DEF RunningPart
  <2>3. ReadyPart'
    BY <2>8, <2>9, <2>10 DEF ReadyPart
  <2>4. SleepPart'
    <3>2. \A d \in Co : d # c => status'[d] = status[d]
      BY <2>9
    <3>3. \A i \in 1..Len(sleep) : sleep[i].co \in Co
      <4> DEFINE R == [left : Int, co : Co]
      <4>1. sleep \in Seq(R) /\ Len(sleep) \in Nat
        OBVIOUS
      <4>2. \A i \in 1..Len(sleep) : sleep[i] \in R
        <5> HIDE DEF R
        <5> QED BY <4>1
      <4> QED BY <4>2
    <3>1. \A i \in 1..Len(sleep) : sleep[i].co # c /\ status[sleep[i].co] = "SLEEPING"
      BY <2>8, <2>9, <3>3 DEF SleepPart
    <3> QED BY <2>8, <2>9, <3>1, <3>2, <3>3 DEF SleepPart, Slept
  <2>5. EpollPart'
    BY <2>8, <2>9, <2>10 DEF EpollPart
  <2>6. EventPart'
    BY <2>8, <2>9, <2>10 DEF EventPart
  <2>7. ClosedPart'
    BY <2>8, <2>9, <2>10 DEF ClosedPart
  <2> QED BY <2>1, <2>2, <2>3, <2>4, <2>5, <2>6, <2>7
<1>8. ASSUME NEW e \in events, EventError(e) PROVE IInv'
  <2>1. TypeOK'
    BY <1>8 DEF IInv, EventError, co_vars, kernel, TypeOK, Event, Unregistered
  <2>2. RunningPart'
    BY <1>8 DEF IInv, EventError, co_vars, RunningPart
  <2>3. ReadyPart'
    BY <1>8 DEF IInv, EventError, co_vars, ReadyPart
  <2>4. SleepPart'
    BY <1>8 DEF IInv, EventError, co_vars, SleepPart, Slept
  <2>5. EpollPart'
    <3> DEFINE c == e.co
               g == wait_fd[c]
    <3>1. c \in Co /\ status[c] = "WAITING" /\ g \in Fd /\ interest[g].co = c /\ sock[g] = "error"
      BY <1>8 DEF IInv, TypeOK, EventPart, EpollPart, EventError
    <3>2. /\ cur = None /\ interest' = [interest EXCEPT ![g] = Unregistered]
          /\ UNCHANGED <<status, at, wait_fd, cur, sock, owner>>
      BY <1>8 DEF EventError, co_vars, kernel
    <3>3. \A f \in Fd : f # g => interest'[f] = interest[f]
      BY <3>2
    <3>4. interest'[g].co = None
      BY <3>1, <3>2 DEF IInv, TypeOK, Unregistered
    <3>5. \A f \in Fd : interest'[f].co # None => f # g
      BY <3>4
    <3>6. g = wait_fd[c]
      OBVIOUS
    <3> HIDE DEF c, g
    <3> QED BY <3>1, <3>2, <3>3, <3>4, <3>5, <3>6 DEF IInv, EpollPart, Waited
  <2>6. EventPart'
    BY <1>8 DEF IInv, EventError, co_vars, kernel, EventPart
  <2>7. ClosedPart'
    BY <1>8 DEF IInv, EventError, kernel, ClosedPart
  <2> QED BY <2>1, <2>2, <2>3, <2>4, <2>5, <2>6, <2>7 DEF IInv
<1>9. CASE EventsEnd
  <2>1. TypeOK'
    BY <1>9 DEF IInv, EventsEnd, co_vars, sch_vars, kernel, TypeOK
  <2>2. RunningPart'
    BY <1>9 DEF IInv, EventsEnd, co_vars, RunningPart
  <2>3. ReadyPart'
    BY <1>9 DEF IInv, EventsEnd, co_vars, sch_vars, ReadyPart
  <2>4. SleepPart'
    BY <1>9 DEF IInv, EventsEnd, co_vars, sch_vars, SleepPart, Slept
  <2>5. EpollPart'
    BY <1>9 DEF IInv, EventsEnd, co_vars, sch_vars, kernel, EpollPart, Waited
  <2>6. EventPart'
    BY <1>9 DEF EventsEnd, EventPart
  <2>7. ClosedPart'
    BY <1>9 DEF IInv, EventsEnd, kernel, ClosedPart
  <2> QED BY <2>1, <2>2, <2>3, <2>4, <2>5, <2>6, <2>7 DEF IInv
<1>10. ASSUME NEW c \in Co, NEW d \in Co, Spawn(c, d) PROVE IInv'
  <2>1. TypeOK'
    <3>1. owner' \in [Fd -> Co \cup {None}]
      BY <1>10 DEF IInv, Spawn, TypeOK
    <3>2. ready' \in Seq(Co) /\ status' \in [Co -> Status]
      BY <1>10 DEF IInv, Spawn, TypeOK, Status
    <3> QED BY <1>10, <3>1, <3>2 DEF IInv, Spawn, TypeOK
  <2>2. RunningPart'
    BY <1>10 DEF IInv, Spawn, RunningPart
  <2>3. ReadyPart'
    BY <1>10 DEF IInv, Spawn, InCode, TypeOK, ReadyPart
  <2>4. SleepPart'
    BY <1>10 DEF IInv, Spawn, SleepPart, Slept
  <2>5. EpollPart'
    BY <1>10 DEF IInv, Spawn, InCode, TypeOK, EpollPart, Waited
  <2>6. EventPart'
    BY <1>10 DEF IInv, Spawn, EventPart
  <2>7. ClosedPart'
    BY <1>10 DEF IInv, Spawn, TypeOK, ClosedPart
  <2> QED BY <2>1, <2>2, <2>3, <2>4, <2>5, <2>6, <2>7 DEF IInv
<1>11. ASSUME NEW c \in Co, Yield(c) PROVE IInv'
  <2>1. TypeOK'
    BY <1>11 DEF IInv, Yield, SwitchBack, kernel, TypeOK, Status
  <2>2. RunningPart'
    BY <1>11 DEF IInv, Yield, InCode, SwitchBack, TypeOK, RunningPart
  <2>3. ReadyPart'
    BY <1>11 DEF IInv, Yield, InCode, SwitchBack, TypeOK, ReadyPart, RunningPart
  <2>4. SleepPart'
    <3>1. /\ cur = c /\ at[c] = "code" /\ c # None /\ cur' = None /\ UNCHANGED sleep
          /\ status' = [status EXCEPT ![c] = "READY"] /\ at' = [at EXCEPT ![c] = "code"]
          /\ status[c] = "RUNNING"
      BY <1>11 DEF Yield, InCode, SwitchBack, IInv, RunningPart
    <3>2. \A d \in Co : d # c => status'[d] = status[d] /\ at'[d] = at[d]
      BY <3>1
    <3>3. status'[c] = "READY" /\ Len(sleep) \in Nat
      BY <3>1 DEF IInv, TypeOK
    <3>4. \A i \in 1..Len(sleep) : sleep[i].co # c /\ sleep[i].co \in Co
      <4> DEFINE R == [left : Int, co : Co]
      <4>1. sleep \in Seq(R)
        BY DEF IInv, TypeOK
      <4>2. \A i \in 1..Len(sleep) : sleep[i] \in R
        <5> HIDE DEF R
        <5> QED BY <4>1, <3>3
      <4> QED BY <4>2, <3>1 DEF IInv, SleepPart, Slept
    <3> QED BY <3>1, <3>2, <3>3, <3>4 DEF IInv, SleepPart, Slept
  <2>5. EpollPart'
    BY <1>11 DEF IInv, Yield, InCode, SwitchBack, kernel, EpollPart, Waited
  <2>6. EventPart'
    BY <1>11 DEF IInv, Yield, InCode, SwitchBack, kernel, EventPart, RunningPart
  <2>7. ClosedPart'
    BY <1>11 DEF IInv, Yield, kernel, ClosedPart
  <2> QED BY <2>1, <2>2, <2>3, <2>4, <2>5, <2>6, <2>7 DEF IInv
<1>12. ASSUME NEW c \in Co, Msleep(c) PROVE IInv'
  <2>1. TypeOK'
    <3>1. PICK ms \in Int : InsertSleep(ms, c)
      BY <1>12 DEF Msleep
    <3>2. sleep' \in Seq([left : Int, co : Co])
      BY <3>1, InsertFacts DEF IInv
    <3> QED BY <1>12, <3>2 DEF IInv, Msleep, SwitchBack, kernel, TypeOK, Status
  <2>2. RunningPart'
    BY <1>12 DEF IInv, Msleep, InCode, SwitchBack, TypeOK, RunningPart
  <2>3. ReadyPart'
    BY <1>12 DEF IInv, Msleep, InCode, SwitchBack, ReadyPart, RunningPart
  <2>4. SleepPart'
    <3>1. PICK ms \in Int : InsertSleep(ms, c)
      BY <1>12 DEF Msleep
    <3> QED BY <1>12, <3>1, SleepInsert DEF Msleep
  <2>5. EpollPart'
    BY <1>12 DEF IInv, Msleep, InCode, SwitchBack, kernel, EpollPart, Waited
  <2>6. EventPart'
    BY <1>12 DEF IInv, Msleep, InCode, SwitchBack, kernel, EventPart, RunningPart
  <2>7. ClosedPart'
    BY <1>12 DEF IInv, Msleep, kernel, ClosedPart
  <2> QED BY <2>1, <2>2, <2>3, <2>4, <2>5, <2>6, <2>7 DEF IInv
<1>13. ASSUME NEW c \in Co, MsleepReturns(c) PROVE IInv'
  <2>1. TypeOK'
    <3>1. sleep' \in Seq([left : Int, co : Co]) /\ SleepPart'
      BY <1>13, SleepTail DEF MsleepReturns, Slept
    <3> QED BY <1>13, <3>1 DEF IInv, MsleepReturns, kernel, TypeOK
  <2>2. RunningPart'
    BY <1>13 DEF IInv, MsleepReturns, RunningPart
  <2>3. ReadyPart'
    BY <1>13 DEF IInv, MsleepReturns, ReadyPart
  <2>4. SleepPart'
    BY <1>13, SleepTail DEF MsleepReturns, Slept
  <2>5. EpollPart'
    BY <1>13 DEF IInv, MsleepReturns, kernel, EpollPart, Waited
  <2>6. EventPart'
    BY <1>13 DEF IInv, MsleepReturns, kernel, EventPart
  <2>7. ClosedPart'
    BY <1>13 DEF IInv, MsleepReturns, kernel, ClosedPart
  <2> QED BY <2>1, <2>2, <2>3, <2>4, <2>5, <2>6, <2>7 DEF IInv
<1>14. ASSUME NEW c \in Co, Exit(c) PROVE IInv'
  <2>1. TypeOK'
    BY <1>14 DEF IInv, Exit, SwitchBack, sch_vars, kernel, TypeOK, Status
  <2>2. RunningPart'
    BY <1>14 DEF IInv, Exit, InCode, SwitchBack, TypeOK, RunningPart
  <2>3. ReadyPart'
    BY <1>14 DEF IInv, Exit, InCode, SwitchBack, sch_vars, ReadyPart, RunningPart
  <2>4. SleepPart'
    BY <1>14 DEF IInv, Exit, InCode, SwitchBack, sch_vars, SleepPart, Slept
  <2>5. EpollPart'
    BY <1>14 DEF IInv, Exit, InCode, SwitchBack, sch_vars, kernel, EpollPart, Waited
  <2>6. EventPart'
    BY <1>14 DEF IInv, Exit, SwitchBack, sch_vars, kernel, EventPart, EpollPart
  <2>7. ClosedPart'
    BY <1>14 DEF IInv, Exit, kernel, ClosedPart
  <2> QED BY <2>1, <2>2, <2>3, <2>4, <2>5, <2>6, <2>7 DEF IInv
<1>15. ASSUME NEW c \in Co, NEW f \in Fd, Listen(c, f) PROVE IInv'
  <2>1. TypeOK'
    BY <1>15 DEF IInv, Listen, co_vars, sch_vars, TypeOK
  <2>2. RunningPart'
    BY <1>15 DEF IInv, Listen, co_vars, RunningPart
  <2>3. ReadyPart'
    BY <1>15 DEF IInv, Listen, co_vars, sch_vars, ReadyPart
  <2>4. SleepPart'
    BY <1>15 DEF IInv, Listen, co_vars, sch_vars, SleepPart, Slept
  <2>5. EpollPart'
    BY <1>15 DEF IInv, Listen, co_vars, sch_vars, EpollPart, Waited, ClosedPart
  <2>6. EventPart'
    BY <1>15 DEF IInv, Listen, co_vars, sch_vars, EventPart
  <2>7. ClosedPart'
    BY <1>15 DEF IInv, Listen, TypeOK, ClosedPart
  <2> QED BY <2>1, <2>2, <2>3, <2>4, <2>5, <2>6, <2>7 DEF IInv
<1>16. ASSUME NEW c \in Co, NEW f \in Fd, Close(c, f) PROVE IInv'
  <2>1. TypeOK'
    BY <1>16 DEF IInv, Close, co_vars, TypeOK, Event, Unregistered
  <2>2. RunningPart'
    BY <1>16 DEF IInv, Close, co_vars, RunningPart
  <2>3. ReadyPart'
    BY <1>16 DEF IInv, Close, co_vars, ReadyPart
  <2>4. SleepPart'
    BY <1>16 DEF IInv, Close, co_vars, SleepPart, Slept
  <2>5. EpollPart'
    BY <1>16 DEF IInv, Close, InCode, co_vars, EpollPart, Waited, Unregistered
  <2>6. EventPart'
    BY <1>16 DEF IInv, Close, InCode, co_vars, TypeOK, EventPart, EpollPart, RunningPart
  <2>7. ClosedPart'
    BY <1>16 DEF IInv, Close, TypeOK, ClosedPart
  <2> QED BY <2>1, <2>2, <2>3, <2>4, <2>5, <2>6, <2>7 DEF IInv
<1>17. ASSUME NEW c \in Co, NEW f \in Fd, NEW ev \in Event, Transfer(c, f, ev) PROVE IInv'
  <2>1. TypeOK'
    BY <1>17 DEF IInv, Transfer, co_vars, sch_vars, TypeOK
  <2>2. RunningPart'
    BY <1>17 DEF IInv, Transfer, co_vars, RunningPart
  <2>3. ReadyPart'
    BY <1>17 DEF IInv, Transfer, co_vars, sch_vars, ReadyPart
  <2>4. SleepPart'
    BY <1>17 DEF IInv, Transfer, co_vars, sch_vars, SleepPart, Slept
  <2>5. EpollPart'
    BY <1>17 DEF IInv, Transfer, co_vars, sch_vars, EpollPart, Waited
  <2>6. EventPart'
    BY <1>17 DEF IInv, Transfer, co_vars, sch_vars, EventPart
  <2>7. ClosedPart'
    BY <1>17 DEF IInv, Transfer, ClosedPart
  <2> QED BY <2>1, <2>2, <2>3, <2>4, <2>5, <2>6, <2>7 DEF IInv
<1>18. ASSUME NEW c \in Co, NEW f \in Fd, Accept(c, f) PROVE IInv'
  <2>1. TypeOK'
    BY <1>18 DEF IInv, Accept, co_vars, sch_vars, TypeOK
  <2>2. RunningPart'
    BY <1>18 DEF IInv, Accept, co_vars, RunningPart
  <2>3. ReadyPart'
    BY <1>18 DEF IInv, Accept, co_vars, sch_vars, ReadyPart
  <2>4. SleepPart'
    BY <1>18 DEF IInv, Accept, co_vars, sch_vars, SleepPart, Slept
  <2>5. EpollPart'
    BY <1>18 DEF IInv, Accept, co_vars, sch_vars, TypeOK, EpollPart, Waited, ClosedPart
  <2>6. EventPart'
    BY <1>18 DEF IInv, Accept, co_vars, sch_vars, TypeOK, EventPart, EpollPart
  <2>7. ClosedPart'
    BY <1>18 DEF IInv, Accept, TypeOK, ClosedPart
  <2> QED BY <2>1, <2>2, <2>3, <2>4, <2>5, <2>6, <2>7 DEF IInv
<1>19. ASSUME NEW c \in Co, NEW f \in Fd, NEW ev \in Event, WouldBlock(c, f, ev) PROVE IInv'
  <2>1. TypeOK'
    BY <1>19 DEF IInv, WouldBlock, WaitFor, SwitchBack, kernel, TypeOK, Status
  <2>2. RunningPart'
    BY <1>19 DEF IInv, WouldBlock, InCode, WaitFor, SwitchBack, TypeOK, RunningPart
  <2>3. ReadyPart'
    BY <1>19 DEF IInv, WouldBlock, InCode, WaitFor, SwitchBack, ReadyPart, RunningPart
  <2>4. SleepPart'
    BY <1>19 DEF IInv, WouldBlock, InCode, WaitFor, SwitchBack, SleepPart, Slept
  <2>5. EpollPart'
    BY <1>19
       DEF IInv, WouldBlock, InCode, WaitFor, SwitchBack, kernel, TypeOK, EpollPart, Waited
  <2>6. EventPart'
    BY <1>19
       DEF IInv, WouldBlock, InCode, WaitFor, SwitchBack, kernel, TypeOK, EventPart, EpollPart, RunningPart
  <2>7. ClosedPart'
    BY <1>19 DEF IInv, WouldBlock, WaitFor, kernel, ClosedPart
  <2> QED BY <2>1, <2>2, <2>3, <2>4, <2>5, <2>6, <2>7 DEF IInv
<1>20. ASSUME NEW c \in Co, WaitReturns(c) PROVE IInv'
  <2>1. TypeOK'
    BY <1>20 DEF IInv, WaitReturns, RemoveEventWait, kernel, TypeOK, Event, Unregistered
  <2>2. RunningPart'
    BY <1>20 DEF IInv, WaitReturns, RemoveEventWait, RunningPart
  <2>3. ReadyPart'
    BY <1>20 DEF IInv, WaitReturns, RemoveEventWait, ReadyPart
  <2>4. SleepPart'
    BY <1>20 DEF IInv, WaitReturns, RemoveEventWait, SleepPart, Slept
  <2>5. EpollPart'
    BY <1>20
       DEF IInv, WaitReturns, RemoveEventWait, kernel, TypeOK, EpollPart, Waited, RunningPart, Unregistered
  <2>6. EventPart'
    <3>1. /\ interest' = [interest EXCEPT ![wait_fd[c]] = Unregistered] /\ wait_fd' = [wait_fd EXCEPT ![c] = None]
          /\ UNCHANGED <<status, events, sock, cur>> /\ cur = c /\ status[c] = "RUNNING"
      BY <1>20 DEF WaitReturns, RemoveEventWait, kernel, IInv, RunningPart
    <3>2. \A e \in events : e.co \in Co /\ e.co # c /\ wait_fd'[e.co] = wait_fd[e.co] /\ wait_fd[e.co] \in Fd
      BY <3>1 DEF IInv, TypeOK, EventPart, EpollPart
    <3>3. wait_fd[c] \in Fd /\ interest[wait_fd[c]].co = c
      BY <1>20, <3>1 DEF WaitReturns, IInv, EpollPart, Waited
    <3>4. \A e \in events : wait_fd[e.co] # wait_fd[c]
      BY <3>2, <3>3 DEF IInv, EventPart
    <3>5. \A e \in events : interest'[wait_fd[e.co]] = interest[wait_fd[e.co]]
      BY <3>1, <3>2, <3>4
    <3> QED BY <3>1, <3>2, <3>5 DEF IInv, EventPart
  <2>7. ClosedPart'
    BY <1>20 DEF IInv, WaitReturns, RemoveEventWait, kernel, ClosedPart
  <2> QED BY <2>1, <2>2, <2>3, <2>4, <2>5, <2>6, <2>7 DEF IInv
<1>21. ASSUME NEW c \in Co, NEW f \in Fd, Connect(c, f) PROVE IInv'
  <2>1. CASE /\ wait_fd' = [wait_fd EXCEPT ![c] = f]
             /\ interest' = [interest EXCEPT ![f] = [co |-> c, ev |-> "out"]]
             /\ SwitchBack(c, "WAITING", "connect")
             /\ UNCHANGED sleep
    <3>8. /\ cur = c /\ at[c] = "code" /\ c # None /\ status[c] = "RUNNING" /\ owner[f] = None
          /\ sock[f] = "closed" /\ interest[f].co = None
      BY <1>21 DEF Connect, InCode, IInv, RunningPart, ClosedPart, EpollPart
    <3>9. /\ sock' = [sock EXCEPT ![f] = "connecting"] /\ owner' = [owner EXCEPT ![f] = c]
          /\ status' = [status EXCEPT ![c] = "WAITING"] /\ at' = [at EXCEPT ![c] = "connect"] /\ cur' = None
          /\ UNCHANGED <<ready, pc, left, events, avail>>
      BY <1>21, <2>1 DEF Connect, SwitchBack
    <3> USE DEF IInv, TypeOK
    <3>1. TypeOK'
      BY <2>1, <3>8, <3>9 DEF Status, Event
    <3>2. RunningPart'
      BY <2>1, <3>8, <3>9 DEF RunningPart
    <3>3. ReadyPart'
      BY <2>1, <3>8, <3>9 DEF ReadyPart, RunningPart
    <3>4. SleepPart'
      BY <2>1, <3>8, <3>9 DEF SleepPart, Slept
    <3>5. EpollPart'
      BY <2>1, <3>8, <3>9 DEF EpollPart, Waited
    <3>6. EventPart'
      BY <2>1, <3>8, <3>9 DEF EventPart
    <3>7. ClosedPart'
      BY <2>1, <3>8, <3>9 DEF ClosedPart
    <3> QED BY <3>1, <3>2, <3>3, <3>4, <3>5, <3>6, <3>7
  <2>2. CASE /\ \E timeout \in Delay \ {0} : InsertSleep(timeout, c)
             /\ SwitchBack(c, "SLEEPING", "timed")
             /\ UNCHANGED <<wait_fd, interest>>
    <3>8. /\ cur = c /\ at[c] = "code" /\ c # None /\ status[c] = "RUNNING" /\ owner[f] = None
          /\ sock[f] = "closed" /\ interest[f].co = None
      BY <1>21 DEF Connect, InCode, IInv, RunningPart, ClosedPart, EpollPart
    <3>9. /\ sock' = [sock EXCEPT ![f] = "connecting"] /\ owner' = [owner EXCEPT ![f] = c]
          /\ status' = [status EXCEPT ![c] = "SLEEPING"] /\ at' = [at EXCEPT ![c] = "timed"] /\ cur' = None
          /\ UNCHANGED <<wait_fd, interest, ready, pc, left, events, avail>>
      BY <1>21, <2>2 DEF Connect, SwitchBack
    <3>10. PICK ms \in Int : InsertSleep(ms, c)
      BY <2>2
    <3>11. sleep' \in Seq([left : Int, co : Co])
      BY <3>10, InsertFacts DEF IInv
    <3>12. SleepPart'
      BY <1>21, <2>2, <3>10, SleepInsert DEF Connect
    <3> USE DEF IInv, TypeOK
    <3>1. TypeOK'
      BY <3>8, <3>9, <3>11 DEF Status
    <3>2. RunningPart'
      BY <3>8, <3>9, <3>11 DEF RunningPart
    <3>3. ReadyPart'
      BY <3>8, <3>9, <3>11 DEF ReadyPart, RunningPart
    <3>5. EpollPart'
      BY <3>8, <3>9, <3>11 DEF EpollPart, Waited
    <3>6. EventPart'
      BY <3>8, <3>9, <3>11 DEF EventPart
    <3>7. ClosedPart'
      BY <3>8, <3>9, <3>11 DEF ClosedPart
    <3> QED BY <3>1, <3>2, <3>3, <3>12, <3>5, <3>6, <3>7
  <2> QED BY <1>21, <2>1, <2>2 DEF Connect
<1>22. ASSUME NEW c \in Co, NEW f \in Fd, ConnectAtOnce(c, f) PROVE IInv'
  <2>1. TypeOK'
    <3>0. sock' \in [Fd -> {"closed", "listen", "connecting", "open", "error"}]
      <4>1. \E v \in {"open", "error"} : sock' = [sock EXCEPT ![f] = v]
        BY <1>22 DEF ConnectAtOnce
      <4>2. sock \in [Fd -> {"closed", "listen", "connecting", "open", "error"}]
        BY DEF IInv, TypeOK
      <4> QED BY <4>1, <4>2
    <3>1. avail' \in [Fd -> SUBSET Event]
      <4>1. {"out"} \in SUBSET Event
        BY DEF Event
      <4>2. avail \in [Fd -> SUBSET Event]
        BY DEF IInv, TypeOK
      <4>3. avail' = avail \/ avail' = [avail EXCEPT ![f] = {"out"}]
        BY <1>22 DEF ConnectAtOnce
      <4> QED BY <4>1, <4>2, <4>3
    <3> QED BY <1>22, <3>0, <3>1 DEF IInv, ConnectAtOnce, TypeOK, co_vars, sch_vars
  <2>2. RunningPart'
    BY <1>22 DEF IInv, ConnectAtOnce, co_vars, RunningPart
  <2>3. ReadyPart'
    BY <1>22 DEF IInv, ConnectAtOnce, co_vars, sch_vars, ReadyPart, RunningPart
  <2>4. SleepPart'
    BY <1>22 DEF IInv, ConnectAtOnce, co_vars, sch_vars, SleepPart, Slept
  <2>5. EpollPart'
    BY <1>22 DEF IInv, ConnectAtOnce, co_vars, sch_vars, TypeOK, EpollPart, Waited, ClosedPart
  <2>6. EventPart'
    BY <1>22 DEF IInv, ConnectAtOnce, co_vars, sch_vars, TypeOK, EventPart, EpollPart
  <2>7. ClosedPart'
    BY <1>22 DEF IInv, ConnectAtOnce, TypeOK, ClosedPart
  <2> QED BY <2>1, <2>2, <2>3, <2>4, <2>5, <2>6, <2>7 DEF IInv
<1>23. ASSUME NEW c \in Co, ConnectReturns(c) PROVE IInv'
  <2>1. CASE at[c] = "connect"
    <3>8. /\ cur = c /\ at' = [at EXCEPT ![c] = "code"] /\ status[c] = "RUNNING" /\ c # None
          /\ interest' = [interest EXCEPT ![wait_fd[c]] = Unregistered] /\ wait_fd' = [wait_fd EXCEPT ![c] = None]
          /\ UNCHANGED <<sleep, status, ready, cur, pc, left, events, sock, avail, owner>>
      BY <1>23, <2>1 DEF ConnectReturns, RemoveEventWait, kernel, IInv, RunningPart
    <3>9. wait_fd[c] \in Fd /\ interest[wait_fd[c]].co = c
      BY <2>1, <3>8 DEF IInv, EpollPart, Waited
    <3>1. TypeOK'
      BY <3>8 DEF IInv, TypeOK, Unregistered, Event
    <3>2. RunningPart'
      BY <1>23, <2>1 DEF IInv, ConnectReturns, RunningPart
    <3>3. ReadyPart'
      BY <1>23, <2>1 DEF IInv, ConnectReturns, ReadyPart
    <3>4. SleepPart'
      BY <1>23, <2>1 DEF IInv, ConnectReturns, SleepPart, Slept
    <3>5. EpollPart'
      BY <2>1, <3>8, <3>9 DEF IInv, TypeOK, EpollPart, Waited, Unregistered
    <3>6. EventPart'
      <4>1. /\ interest' = [interest EXCEPT ![wait_fd[c]] = Unregistered] /\ wait_fd' = [wait_fd EXCEPT ![c] = None]
            /\ UNCHANGED <<status, events, sock, cur>> /\ cur = c /\ status[c] = "RUNNING"
        BY <1>23, <2>1 DEF ConnectReturns, RemoveEventWait, kernel, IInv, RunningPart
      <4>2. \A e \in events : e.co \in Co /\ e.co # c /\ wait_fd'[e.co] = wait_fd[e.co] /\ wait_fd[e.co] \in Fd
        BY <4>1 DEF IInv, TypeOK, EventPart, EpollPart
      <4>3. wait_fd[c] \in Fd /\ interest[wait_fd[c]].co = c
        BY <1>23, <2>1, <4>1 DEF ConnectReturns, IInv, EpollPart, Waited
      <4>4. \A e \in events : wait_fd[e.co] # wait_fd[c]
        BY <4>2, <4>3 DEF IInv, EventPart
      <4>5. \A e \in events : interest'[wait_fd[e.co]] = interest[wait_fd[e.co]]
        BY <4>1, <4>2, <4>4
      <4> QED BY <4>1, <4>2, <4>5 DEF IInv, EventPart
    <3>7. ClosedPart'
      BY <1>23 DEF IInv, ConnectReturns, kernel, ClosedPart
    <3> QED BY <3>1, <3>2, <3>3, <3>4, <3>5, <3>6, <3>7 DEF IInv
  <2>2. CASE at[c] = "timed"
    <3>8. /\ cur = c /\ sleep' = Tail(sleep) /\ at' = [at EXCEPT ![c] = "code"] /\ status[c] = "RUNNING"
          /\ UNCHANGED <<interest, wait_fd, status, ready, cur, pc, left, events, sock, avail, owner>>
      BY <1>23, <2>2 DEF ConnectReturns, kernel, IInv, RunningPart
    <3>9. sleep' \in Seq([left : Int, co : Co])
      BY <2>2, <3>8, SleepTail DEF Slept
    <3>10. SleepPart'
      BY <2>2, <3>8, SleepTail DEF Slept
    <3> USE DEF IInv, TypeOK
    <3>1. TypeOK'
      BY <2>2, <3>8, <3>9
    <3>2. RunningPart'
      BY <2>2, <3>8, <3>9 DEF RunningPart
    <3>3. ReadyPart'
      BY <2>2, <3>8, <3>9 DEF ReadyPart
    <3>5. EpollPart'
      BY <2>2, <3>8, <3>9 DEF EpollPart, Waited
    <3>6. EventPart'
      BY <2>2, <3>8, <3>9 DEF EventPart
    <3>7. ClosedPart'
      BY <2>2, <3>8, <3>9 DEF ClosedPart
    <3> QED BY <3>1, <3>2, <3>3, <3>10, <3>5, <3>6, <3>7
  <2> QED BY <1>23, <2>1, <2>2 DEF ConnectReturns
<1>24. ASSUME NEW f \in Fd, NEW ev \in Event, Arrive(f, ev) PROVE IInv'
  <2>1. TypeOK'
    BY <1>24 DEF IInv, Arrive, co_vars, sch_vars, TypeOK
  <2>2. RunningPart'
    BY <1>24 DEF IInv, Arrive, co_vars, RunningPart
  <2>3. ReadyPart'
    BY <1>24 DEF IInv, Arrive, co_vars, sch_vars, ReadyPart
  <2>4. SleepPart'
    BY <1>24 DEF IInv, Arrive, co_vars, sch_vars, SleepPart, Slept
  <2>5. EpollPart'
    BY <1>24 DEF IInv, Arrive, co_vars, sch_vars, EpollPart, Waited
  <2>6. EventPart'
    BY <1>24 DEF IInv, Arrive, co_vars, sch_vars, EventPart
  <2>7. ClosedPart'
    BY <1>24 DEF IInv, Arrive, ClosedPart
  <2> QED BY <2>1, <2>2, <2>3, <2>4, <2>5, <2>6, <2>7 DEF IInv
<1>25. ASSUME NEW f \in Fd, Handshake(f) PROVE IInv'
  <2>1. TypeOK'
    BY <1>25 DEF IInv, Handshake, co_vars, sch_vars, TypeOK, Event
  <2>2. RunningPart'
    BY <1>25 DEF IInv, Handshake, co_vars, RunningPart
  <2>3. ReadyPart'
    BY <1>25 DEF IInv, Handshake, co_vars, sch_vars, ReadyPart
  <2>4. SleepPart'
    BY <1>25 DEF IInv, Handshake, co_vars, sch_vars, SleepPart, Slept
  <2>5. EpollPart'
    BY <1>25 DEF IInv, Handshake, co_vars, sch_vars, EpollPart, Waited
  <2>6. EventPart'
    BY <1>25 DEF IInv, Handshake, co_vars, sch_vars, EventPart
  <2>7. ClosedPart'
    BY <1>25 DEF IInv, Handshake, ClosedPart
  <2> QED BY <2>1, <2>2, <2>3, <2>4, <2>5, <2>6, <2>7 DEF IInv
<1>26. ASSUME NEW f \in Fd, Fail(f) PROVE IInv'
  <2>1. TypeOK'
    BY <1>26 DEF IInv, Fail, co_vars, sch_vars, TypeOK
  <2>2. RunningPart'
    BY <1>26 DEF IInv, Fail, co_vars, RunningPart
  <2>3. ReadyPart'
    BY <1>26 DEF IInv, Fail, co_vars, sch_vars, ReadyPart
  <2>4. SleepPart'
    BY <1>26 DEF IInv, Fail, co_vars, sch_vars, SleepPart, Slept
  <2>5. EpollPart'
    BY <1>26 DEF IInv, Fail, co_vars, sch_vars, EpollPart, Waited
  <2>6. EventPart'
    BY <1>26 DEF IInv, Fail, co_vars, sch_vars, EventPart
  <2>7. ClosedPart'
    BY <1>26 DEF IInv, Fail, ClosedPart
  <2> QED BY <2>1, <2>2, <2>3, <2>4, <2>5, <2>6, <2>7 DEF IInv
<1> QED
  BY <1>0, <1>1, <1>2, <1>3, <1>4, <1>5, <1>6, <1>7, <1>8, <1>9, <1>10, <1>11, <1>12, <1>13, <1>14, <1>15, <1>16, <1>17, <1>18, <1>19, <1>20, <1>21, <1>22, <1>23, <1>24, <1>25, <1>26
     DEF Next, Schedule, Return, Leave

-----------------------------------------------------------------------------
\* What the parts give together.
LEMMA HomeFromIInv == IInv => OneHome
<1> SUFFICES ASSUME IInv PROVE OneHome
    OBVIOUS
<1> USE CoAssumption
<1>1. ASSUME NEW c \in Co, status[c] # "READY" PROVE InReady(c) = {}
  BY <1>1 DEF IInv, ReadyPart, InReady
<1>2. ASSUME NEW c \in Co, status[c] # "SLEEPING", ~(cur = c /\ Slept(c)) PROVE InSleep(c) = {}
  BY <1>2 DEF IInv, SleepPart, InSleep
<1>3. ASSUME NEW c \in Co, status[c] # "WAITING", status[c] # "RUNNING" PROVE InEpoll(c) = {}
  BY <1>3 DEF IInv, EpollPart, RunningPart, InEpoll
<1>4. \A c \in Co : status[c] = "READY" =>
         Cardinality(InReady(c)) = 1 /\ InSleep(c) = {} /\ InEpoll(c) = {}
  <2> SUFFICES ASSUME NEW c \in Co, status[c] = "READY"
               PROVE  Cardinality(InReady(c)) = 1 /\ InSleep(c) = {} /\ InEpoll(c) = {}
    OBVIOUS
  <2>1. PICK i \in 1..Len(ready) : ready[i] = c
    BY DEF IInv, ReadyPart
  <2>2. InReady(c) = {i}
    BY <2>1 DEF IInv, ReadyPart, InReady
  <2>3. cur # c
    BY DEF IInv, RunningPart
  <2> QED BY <1>2, <1>3, <2>2, <2>3, FS_Singleton
<1>5. \A c \in Co : status[c] = "SLEEPING" =>
         Cardinality(InSleep(c)) = 1 /\ InReady(c) = {} /\ InEpoll(c) = {}
  <2> SUFFICES ASSUME NEW c \in Co, status[c] = "SLEEPING"
               PROVE  Cardinality(InSleep(c)) = 1 /\ InReady(c) = {} /\ InEpoll(c) = {}
    OBVIOUS
  <2>1. PICK i \in 1..Len(sleep) : sleep[i].co = c
    BY DEF IInv, SleepPart
  <2>2. InSleep(c) = {i}
    BY <2>1 DEF IInv, SleepPart, InSleep
  <2> QED BY <1>1, <1>3, <2>2, FS_Singleton
<1>6. \A c \in Co : status[c] = "WAITING" =>
         /\ InReady(c) = {} /\ InSleep(c) = {}
         /\ InEpoll(c) = {wait_fd[c]} \/ (InEpoll(c) = {} /\ sock[wait_fd[c]] = "error")
  <2> SUFFICES ASSUME NEW c \in Co, status[c] = "WAITING"
               PROVE  /\ InReady(c) = {} /\ InSleep(c) = {}
                      /\ InEpoll(c) = {wait_fd[c]} \/ (InEpoll(c) = {} /\ sock[wait_fd[c]] = "error")
    OBVIOUS
  <2>1. cur # c /\ c # None
    BY DEF IInv, RunningPart
  <2>2. InEpoll(c) \subseteq {wait_fd[c]} /\ (wait_fd[c] \in InEpoll(c) \/ sock[wait_fd[c]] = "error")
    BY <2>1 DEF IInv, EpollPart, InEpoll
  <2> QED BY <1>1, <1>2, <2>1, <2>2
<1>7. \A c \in Co : status[c] = "RUNNING" =>
         /\ cur = c /\ InReady(c) = {}
         /\ InSleep(c) = IF at[c] \in {"slept", "timed"} THEN {1} ELSE {}
  <2> SUFFICES ASSUME NEW c \in Co, status[c] = "RUNNING"
               PROVE  /\ cur = c /\ InReady(c) = {}
                      /\ InSleep(c) = IF at[c] \in {"slept", "timed"} THEN {1} ELSE {}
    OBVIOUS
  <2>1. cur = c /\ c # None
    BY DEF IInv, RunningPart
  <2>2. CASE ~Slept(c)
    BY <1>1, <1>2, <2>1, <2>2 DEF Slept
  <2>3. CASE Slept(c)
    <3>1. Len(sleep) > 0 /\ sleep[1].co = c /\ Len(sleep) \in Nat
      BY <2>1, <2>3 DEF IInv, SleepPart
    <3>2. InSleep(c) = {1}
      BY <3>1 DEF IInv, SleepPart, InSleep
    <3> QED BY <1>1, <2>1, <2>3, <3>2 DEF Slept
  <2> QED BY <2>2, <2>3
<1>8. \A c \in Co : status[c] \in {"none", "EXITED"} =>
         InReady(c) = {} /\ InSleep(c) = {} /\ InEpoll(c) = {} /\ InEvents(c) = {}
  <2> SUFFICES ASSUME NEW c \in Co, status[c] \in {"none", "EXITED"}
               PROVE  InReady(c) = {} /\ InSleep(c) = {} /\ InEpoll(c) = {} /\ InEvents(c) = {}
    OBVIOUS
  <2>1. cur # c
    BY DEF IInv, RunningPart
  <2>2. InEvents(c) = {}
    BY DEF IInv, EventPart, InEvents
  <2> QED BY <1>1, <1>2, <1>3, <2>1, <2>2
<1>9. \A e \in events : status[e.co] = "WAITING"
  BY DEF IInv, EventPart
<1> QED BY <1>4, <1>5, <1>6, <1>7, <1>8, <1>9 DEF OneHome

LEMMA AssertsFromIInv == IInv => EpollAssertsHold
  BY CoAssumption DEF IInv, EpollPart, Waited, EpollAssertsHold

\* The invariant, whose parts say who is in the ready list, in the sleep tree,
\* in epoll and among the events, holds of every behaviour of schedule() and of
\* the coroutines it runs.
THEOREM InvariantCorrect == Spec => []IInv
<1> QED BY InitIInv, StepIInv, PTL DEF Spec

\* A coroutine is in exactly one place from which schedule() can resume it, and
\* in none once it is deleted.
THEOREM HomeCorrect == Spec => []OneHome
<1> QED BY InvariantCorrect, HomeFromIInv, PTL

\* The assertions on epoll_ctl in add_event_wait_epoll and
\* remove_event_wait_epoll hold.
THEOREM AssertsCorrect == Spec => []EpollAssertsHold
<1> QED BY InvariantCorrect, AssertsFromIInv, PTL

-----------------------------------------------------------------------------
(* How late a sleeper may be. *)

LEMMA LateFacts ==
    /\ Cardinality(Co) \in Nat
    /\ \A i \in Int : Late(i) \in Int /\ Late(i) = Late(i + 1) + WaitTimeout
    /\ \A i \in Int : i <= Cardinality(Co) => Late(i) >= 0
<1> DEFINE n == Cardinality(Co)
<1>1. n \in Nat /\ WaitTimeout \in Nat
  BY CoAssumption, DelayAssumption, FS_CardinalityType
<1> HIDE DEF n
<1>2. ASSUME NEW i \in Int PROVE WaitTimeout * (n - i) = WaitTimeout * (n - (i + 1)) + WaitTimeout
  BY <1>1
<1>3. ASSUME NEW i \in Int, i <= n PROVE WaitTimeout * (n - i) >= 0
  BY <1>1, <1>3
<1> QED BY <1>1, <1>2, <1>3 DEF n, Late

\* Two entries of the tree are of different coroutines.
LEMMA SleepLength ==
    ASSUME IInv
    PROVE  /\ Len(sleep) \in Nat /\ Len(sleep) <= Cardinality(Co)
           /\ \A i \in 1..Len(sleep) : sleep[i].left \in Int /\ sleep[i].co \in Co
<1> DEFINE R == [left : Int, co : Co]
           f == [i \in 1..Len(sleep) |-> sleep[i].co]
<1>1. sleep \in Seq(R) /\ Len(sleep) \in Nat
  BY DEF IInv, TypeOK
<1>2. \A i \in 1..Len(sleep) : sleep[i] \in R
  <2> HIDE DEF R
  <2> QED BY <1>1
<1>3. \A i \in 1..Len(sleep) : sleep[i].left \in Int /\ sleep[i].co \in Co
  BY <1>2
<1>4. f \in Injection(1..Len(sleep), Co)
  <2>1. f \in [1..Len(sleep) -> Co] /\ \A i, j \in 1..Len(sleep) : f[i] = f[j] => i = j
    BY <1>3 DEF IInv, SleepPart
  <2> HIDE DEF f
  <2> QED BY <2>1, Fun_IsInj
<1>5. Cardinality(1..Len(sleep)) <= Cardinality(Co)
  <2> HIDE DEF f
  <2> QED BY <1>4, CoAssumption, FS_Injection
<1>6. Cardinality(1..Len(sleep)) = Len(sleep)
  <2> DEFINE m == Len(sleep)
  <2>1. m \in Nat /\ m \in Int /\ 1 \in Int
    BY <1>1
  <2> HIDE DEF m
  <2>2. Cardinality(1..m) = IF 1 > m THEN 0 ELSE m - 1 + 1
    BY <2>1, FS_Interval
  <2>3. Cardinality(1..m) = m
    BY <2>1, <2>2
  <2> QED BY <2>3 DEF m
<1> QED BY <1>1, <1>3, <1>5, <1>6

LEMMA LateInit == Init => LatePart
  BY CoAssumption DEF Init, LatePart, Woken, Served

\* A step that leaves the scheduler where it is and the tree alone.
LEMMA LateSame ==
    ASSUME LatePart, UNCHANGED <<sleep, pc, left>>, Woken' <=> Woken, cur' \in {cur, None}
    PROVE  LatePart'
<1>1. Served' <=> Served
  BY DEF Served
<1>2. \A i : Late(i)' = Late(i)
  BY DEF Late
<1> QED BY <1>1, <1>2 DEF LatePart

LEMMA LateInsert ==
    ASSUME IInv, IInv', LatePart, NEW c \in Co, InCode(c), NEW ms \in Nat, InsertSleep(ms, c),
           cur' = None, UNCHANGED <<pc, left>>
    PROVE  LatePart'
<1> USE CoAssumption, DelayAssumption
<1>0. ms \in Int /\ TypeOK
  BY DEF IInv
<1>1. cur = c /\ ~Woken /\ ~Woken' /\ pc # "wait" /\ left = 0 /\ (Served' <=> Served) /\ WaitTimeout \in Nat
  BY DEF InCode, Woken, Slept, Served, LatePart
<1>2. /\ Len(sleep) \in Nat /\ Len(sleep') = Len(sleep) + 1 /\ Len(sleep) + 1 <= Cardinality(Co)
      /\ \A i \in 1..Len(sleep) : sleep[i].left \in Int
  <2>1. Len(sleep') = Len(sleep) + 1
    BY <1>0, InsertFacts
  <2>2. (Len(sleep) <= Cardinality(Co))'
    BY SleepLength, PTL
  <2> QED BY <2>1, <2>2, SleepLength
<1>3. PICK n \in 0..Len(sleep) : Inserted(n, ms, c)
  BY <1>0, InsertFacts
<1>4. \A i \in 1..Len(sleep) + 1 :
         /\ i <= n => sleep'[i].left = sleep[i].left /\ i \in 1..Len(sleep) /\ sleep[i].left <= ms
         /\ i = n + 1 => sleep'[i].left = ms
         /\ i > n + 1 => sleep'[i].left = sleep[i - 1].left /\ i - 1 \in 1..Len(sleep) /\ sleep[i - 1].left > ms
  <2> TAKE i \in 1..Len(sleep) + 1
  <2>1. /\ \A j \in 1..Len(sleep) : j <= n <=> sleep[j].left <= ms
        /\ sleep'[i] = IF i <= n THEN sleep[i]
                       ELSE IF i = n + 1 THEN [left |-> ms, co |-> c] ELSE sleep[i - 1]
    BY <1>3 DEF Inserted
  <2>2. i <= n => i \in 1..Len(sleep) /\ i # n + 1
    BY <1>2, <1>3
  <2>3. i > n + 1 => i - 1 \in 1..Len(sleep) /\ ~(i - 1 <= n) /\ ~(i <= n) /\ i # n + 1
    BY <1>2, <1>3
  <2>4. i = n + 1 => ~(i <= n)
    BY <1>2, <1>3
  <2>5. i <= n => sleep'[i].left = sleep[i].left /\ sleep[i].left <= ms
    BY <2>1, <2>2
  <2>6. i = n + 1 => sleep'[i].left = ms
    BY <2>1, <2>4
  <2>7. i > n + 1 => sleep'[i].left = sleep[i - 1].left /\ sleep[i - 1].left > ms
    <3>1. ASSUME i > n + 1 PROVE sleep'[i] = sleep[i - 1] /\ ~(sleep[i - 1].left <= ms)
      BY <2>1, <2>3, <3>1
    <3> QED BY <1>0, <1>2, <2>3, <3>1
  <2> QED BY <2>2, <2>3, <2>5, <2>6, <2>7
<1>5. \A i \in 1..Len(sleep) + 1 : Late(i) \in Int /\ Late(i) >= 0
  BY <1>2, LateFacts
<1> DEFINE F(i) == IF Served THEN -Late(i) ELSE -Late(i) - WaitTimeout + left
<1>6. \A i \in 1..Len(sleep) + 1 : F(i) \in Int /\ F(i) <= 0
  BY <1>1, <1>5
<1>7. \A i \in 1..Len(sleep) : sleep[i].left >= F(i)
  BY DEF LatePart
<1> HIDE DEF F
<1>8. \A i \in 1..Len(sleep') : sleep'[i].left >= F(i)
  <2> SUFFICES ASSUME NEW i \in 1..Len(sleep) + 1 PROVE sleep'[i].left >= F(i)
    BY <1>2
  <2>1. F(i) \in Int /\ F(i) <= 0
    BY <1>6
  <2>2. CASE i <= n
    BY <1>4, <1>7, <2>2
  <2>3. CASE i = n + 1
    BY <1>4, <2>1, <2>3
  <2>4. CASE i > n + 1
    <3>1. sleep'[i].left \in Int /\ sleep'[i].left > ms
      BY <1>2, <1>4, <2>4
    <3> QED BY <2>1, <3>1
  <2> QED BY <1>2, <2>2, <2>3, <2>4
<1>9. \A i, j \in 1..Len(sleep') : i <= j => sleep'[i].left <= sleep'[j].left
  <2> SUFFICES ASSUME NEW i \in 1..Len(sleep) + 1, NEW j \in 1..Len(sleep) + 1, i <= j
               PROVE  sleep'[i].left <= sleep'[j].left
    BY <1>2
  <2>1. \A k, l \in 1..Len(sleep) : k <= l => sleep[k].left <= sleep[l].left
    BY DEF LatePart
  <2>2. CASE j <= n
    BY <1>2, <1>4, <2>1, <2>2
  <2>3. CASE j = n + 1
    BY <1>2, <1>4, <2>3
  <2>4. CASE j > n + 1
    <3>1. /\ j - 1 \in 1..Len(sleep) /\ sleep'[j].left = sleep[j - 1].left
          /\ sleep[j - 1].left \in Int /\ ms < sleep[j - 1].left
      BY <1>2, <1>4, <2>4
    <3>2. CASE i <= n
      <4>1. i \in 1..Len(sleep) /\ sleep'[i].left = sleep[i].left /\ i <= j - 1
        BY <1>2, <1>4, <2>4, <3>2
      <4> QED BY <2>1, <3>1, <4>1
    <3>3. CASE i = n + 1
      BY <1>4, <3>1, <3>3
    <3>4. CASE i > n + 1
      <4>1. i - 1 \in 1..Len(sleep) /\ sleep'[i].left = sleep[i - 1].left /\ i - 1 <= j - 1
        BY <1>2, <1>4, <3>4
      <4> QED BY <2>1, <3>1, <4>1
    <3> QED BY <1>2, <3>2, <3>3, <3>4
  <2> QED BY <1>2, <2>2, <2>3, <2>4
<1>10. \A i \in 1..Len(sleep') :
          sleep'[i].left >= IF Served' THEN -Late(i)' ELSE -Late(i)' - WaitTimeout + left'
  BY <1>1, <1>8 DEF F, Late
<1> QED BY <1>1, <1>9, <1>10 DEF LatePart

LEMMA LateTail ==
    ASSUME IInv, LatePart, NEW c \in Co, cur = c, Slept(c), sleep' = Tail(sleep),
           at' = [at EXCEPT ![c] = "code"], UNCHANGED <<cur, pc, left>>
    PROVE  LatePart'
<1> USE CoAssumption, DelayAssumption
<1>1. /\ Woken /\ ~Woken' /\ pc = "ready" /\ left = 0 /\ Served' /\ ~Served /\ WaitTimeout \in Nat
      /\ Len(sleep) > 0 /\ Len(sleep) \in Nat
  BY DEF IInv, TypeOK, SleepPart, Woken, Slept, Served, LatePart
<1>2. Len(sleep') = Len(sleep) - 1 /\ \A i \in 1..Len(sleep') : sleep'[i] = sleep[i + 1]
  <2> DEFINE R == [left : Int, co : Co]
  <2>1. sleep \in Seq(R) /\ sleep # <<>>
    BY <1>1 DEF IInv, TypeOK
  <2> HIDE DEF R
  <2> QED BY <2>1, TailFacts
<1>3. \A i \in 1..Len(sleep') : i \in Int /\ i + 1 \in 1..Len(sleep) /\ sleep'[i].left = sleep[i + 1].left
  BY <1>1, <1>2
<1>4. \A i \in 1..Len(sleep') : sleep[i + 1].left >= -Late(i + 1) - WaitTimeout
  <2> SUFFICES ASSUME NEW i \in 1..Len(sleep')
               PROVE  sleep[i + 1].left >= -Late(i + 1) - WaitTimeout
    OBVIOUS
  <2>1. i + 1 \in Int /\ i + 1 \in 1..Len(sleep)
    BY <1>3
  <2>2. sleep[i + 1].left >= -Late(i + 1) - WaitTimeout + left
    BY <1>1, <2>1 DEF LatePart
  <2>3. Late(i + 1) \in Int
    BY <2>1, LateFacts
  <2>4. -Late(i + 1) - WaitTimeout + left = -Late(i + 1) - WaitTimeout
    BY <1>1, <2>3
  <2> QED BY <2>2, <2>4
<1>5. \A i \in 1..Len(sleep') : sleep'[i].left >= -Late(i)
  <2> SUFFICES ASSUME NEW i \in 1..Len(sleep') PROVE sleep'[i].left >= -Late(i)
    OBVIOUS
  <2>1. i \in Int /\ i + 1 \in Int
    BY <1>3
  <2>2. Late(i + 1) \in Int /\ Late(i) = Late(i + 1) + WaitTimeout
    BY <2>1, LateFacts
  <2>3. sleep'[i].left >= -Late(i + 1) - WaitTimeout
    BY <1>3, <1>4
  <2>4. -Late(i + 1) - WaitTimeout = -Late(i)
    BY <1>1, <2>2
  <2> QED BY <2>3, <2>4
<1>6. \A i, j \in 1..Len(sleep') : i <= j => sleep'[i].left <= sleep'[j].left
  <2> SUFFICES ASSUME NEW i \in 1..Len(sleep'), NEW j \in 1..Len(sleep'), i <= j
               PROVE  sleep'[i].left <= sleep'[j].left
    OBVIOUS
  <2>1. i + 1 <= j + 1
    BY <1>3
  <2> QED BY <1>3, <2>1 DEF LatePart
<1> QED BY <1>1, <1>5, <1>6 DEF LatePart, Late

LEMMA LateStep == IInv /\ IInv' /\ LatePart /\ [Next]_vars => LatePart'
<1> SUFFICES ASSUME IInv, IInv', LatePart, [Next]_vars PROVE LatePart'
    OBVIOUS
<1> USE CoAssumption, DelayAssumption
<1>a. /\ Len(sleep) \in Nat /\ Len(sleep) <= Cardinality(Co)
      /\ \A i \in 1..Len(sleep) : sleep[i].left \in Int /\ Late(i) \in Int /\ Late(i) >= 0
  <2>1. /\ Len(sleep) \in Nat /\ Len(sleep) <= Cardinality(Co) /\ Cardinality(Co) \in Nat
        /\ \A i \in 1..Len(sleep) : sleep[i].left \in Int
    BY SleepLength, LateFacts
  <2>2. \A i \in 1..Len(sleep) : i \in Int /\ i <= Cardinality(Co)
    BY <2>1
  <2>3. \A i \in 1..Len(sleep) : Late(i) \in Int /\ Late(i) >= 0
    BY <2>2, LateFacts
  <2> QED BY <2>1, <2>3
<1>b. \A i : Late(i)' = Late(i)
  BY DEF Late
<1>c. left \in 0..WaitTimeout /\ left' \in 0..WaitTimeout /\ WaitTimeout \in Nat
  BY DEF IInv, TypeOK
<1>0. CASE UNCHANGED vars
  BY <1>0, LateSame DEF vars, Woken, Slept
<1>1. CASE WakeSleeper
  <2>1. CASE ~Due
    <3>1. UNCHANGED <<sleep, left, cur>> /\ cur = None /\ pc' = "ready"
      BY <1>1, <2>1 DEF WakeSleeper, sch_vars
    <3>2. \A i \in 1..Len(sleep) : sleep[i].left > 0
      <4> SUFFICES ASSUME NEW i \in 1..Len(sleep) PROVE sleep[i].left > 0
        OBVIOUS
      <4>1. 1 \in 1..Len(sleep) /\ sleep # <<>> /\ Head(sleep) = sleep[1] /\ 1 <= i
        BY <1>a
      <4>2. sleep[1].left > 0 /\ sleep[1].left <= sleep[i].left
        BY <1>a, <2>1, <4>1 DEF Due, LatePart
      <4> QED BY <1>a, <4>1, <4>2
    <3>3. \A i \in 1..Len(sleep) : sleep[i].left >= -Late(i)
      BY <1>a, <3>2
    <3>4. ~Woken' /\ Served' /\ left = 0
      BY <1>1, <3>1 DEF WakeSleeper, Woken, Served, LatePart
    <3> QED BY <1>b, <3>1, <3>3, <3>4 DEF LatePart
  <2>2. CASE Due
    <3>1. UNCHANGED <<sleep, left, at>> /\ cur' = Head(sleep).co /\ pc' = "ready" /\ pc = "sleep"
      BY <1>1, <2>2 DEF WakeSleeper, Resume, sch_vars
    <3>2. Head(sleep) = sleep[1] /\ 1 \in 1..Len(sleep)
      BY <1>a, <2>2 DEF Due
    <3>3. cur' \in Co /\ Slept(cur)'
      BY <3>1, <3>2, SleepLength DEF IInv, SleepPart
    <3>4. ~Served' /\ ~Served
      BY <3>1, <3>3 DEF Served, Woken
    <3> QED BY <1>b, <3>1, <3>4 DEF LatePart
  <2> QED BY <2>1, <2>2
<1>2. CASE RunReady
  <2>1. UNCHANGED <<sleep, left, at>> /\ cur = None /\ pc = "ready" /\ pc' = "poll"
    BY <1>2 DEF RunReady, Resume
  <2>2. ~Woken'
    <3>1. CASE ready = <<>>
      BY <1>2, <3>1 DEF RunReady, Woken
    <3>2. CASE ready # <<>>
      <4>1. Head(ready) = ready[1] /\ ready[1] \in Co /\ 1 \in 1..Len(ready)
        BY <3>2, TailFacts DEF IInv, TypeOK
      <4>2. at[ready[1]] = "code"
        BY <4>1 DEF IInv, ReadyPart
      <4> QED BY <1>2, <2>1, <3>2, <4>1, <4>2 DEF RunReady, Resume, Woken, Slept
    <3> QED BY <3>1, <3>2
  <2>3. Served' /\ Served
    BY <2>1, <2>2 DEF Served, Woken
  <2> QED BY <1>b, <2>1, <2>2, <2>3 DEF LatePart
<1>3. CASE EpollWait
  <2>1. UNCHANGED <<sleep, cur>> /\ cur = None /\ pc = "poll" /\ pc' = "wait"
    BY <1>3 DEF EpollWait, sch_vars
  <2>2. Served /\ ~Served' /\ ~Woken'
    BY <2>1 DEF Served, Woken
  <2>3. \A i \in 1..Len(sleep) : sleep[i].left >= -Late(i) - WaitTimeout + left'
    <3>1. \A i \in 1..Len(sleep) : sleep[i].left >= -Late(i)
      BY <2>2 DEF LatePart
    <3> QED BY <1>a, <1>c, <3>1
  <2> QED BY <1>b, <2>1, <2>2, <2>3 DEF LatePart
<1>4. CASE Tick
  <2>1. cur = None /\ pc = "wait" /\ left' = left - 1 /\ UNCHANGED <<cur, pc>>
    BY <1>4 DEF Tick
  <2>2. ~Served /\ ~Served' /\ ~Woken'
    BY <2>1 DEF Served, Woken
  <2>3. Len(sleep') = Len(sleep) /\ \A i \in 1..Len(sleep) : sleep'[i].left = sleep[i].left - 1
    <3>1. DOMAIN sleep = 1..Len(sleep)
      BY DEF IInv
    <3>2. sleep' = [i \in 1..Len(sleep) |-> [sleep[i] EXCEPT !.left = @ - 1]]
      BY <1>4, <3>1 DEF Tick
    <3>3. \A i \in 1..Len(sleep) : sleep[i] \in [left : Int, co : Co]
      <4> DEFINE R == [left : Int, co : Co]
      <4>1. sleep \in Seq(R)
        BY DEF IInv, TypeOK
      <4> HIDE DEF R
      <4>2. \A i \in 1..Len(sleep) : sleep[i] \in R
        BY <4>1, <1>a
      <4> QED BY <4>2 DEF R
    <3>4. Len(sleep') = Len(sleep)
      BY <1>4, TickFacts DEF IInv
    <3> QED BY <3>2, <3>3, <3>4
  <2>4. \A i \in 1..Len(sleep) : sleep[i].left >= -Late(i) - WaitTimeout + left
    BY <2>2 DEF LatePart
  <2>5. \A i \in 1..Len(sleep) : sleep'[i].left >= -Late(i) - WaitTimeout + left'
    <3> SUFFICES ASSUME NEW i \in 1..Len(sleep) PROVE sleep'[i].left >= -Late(i) - WaitTimeout + left'
      OBVIOUS
    <3>1. sleep[i].left \in Int /\ Late(i) \in Int /\ sleep'[i].left = sleep[i].left - 1
      BY <1>a, <2>3
    <3>2. sleep[i].left >= -Late(i) - WaitTimeout + left
      BY <2>4
    <3> QED BY <1>c, <2>1, <3>1, <3>2
  <2>6. \A i, j \in 1..Len(sleep) : i <= j => sleep'[i].left <= sleep'[j].left
    <3>1. \A i, j \in 1..Len(sleep) : i <= j => sleep[i].left <= sleep[j].left
      BY DEF LatePart
    <3> SUFFICES ASSUME NEW i \in 1..Len(sleep), NEW j \in 1..Len(sleep), i <= j
                 PROVE  sleep'[i].left <= sleep'[j].left
      OBVIOUS
    <3>2. sleep[i].left \in Int /\ sleep[j].left \in Int /\ sleep[i].left <= sleep[j].left
      BY <1>a, <3>1
    <3>3. sleep'[i].left = sleep[i].left - 1 /\ sleep'[j].left = sleep[j].left - 1
      BY <2>3
    <3> QED BY <3>2, <3>3
  <2> QED BY <1>b, <2>1, <2>2, <2>3, <2>5, <2>6 DEF LatePart
<1>5. CASE EpollReturn \/ EpollInterrupted
  <2>1. cur = None /\ pc = "wait" /\ left' = 0 /\ pc' = "events" /\ UNCHANGED <<cur, sleep>>
    BY <1>5 DEF EpollReturn, EpollInterrupted, sch_vars
  <2>2. ~Served /\ ~Served' /\ ~Woken'
    BY <2>1 DEF Served, Woken
  <2>3. \A i \in 1..Len(sleep) : sleep[i].left >= -Late(i) - WaitTimeout + left
    BY <2>2 DEF LatePart
  <2>4. \A i \in 1..Len(sleep) : sleep[i].left >= -Late(i) - WaitTimeout + left'
    BY <1>a, <1>c, <2>1, <2>3
  <2> QED BY <1>b, <2>1, <2>2, <2>4 DEF LatePart
<1>6. ASSUME NEW e \in events, EventResumes(e) PROVE LatePart'
  <2>1. UNCHANGED <<sleep, left, at>> /\ cur = None /\ cur' = e.co /\ pc = "events" /\ pc' = "events"
    BY <1>6 DEF EventResumes, Resume, sch_vars
  <2>2. e.co \in Co /\ Waited(e.co)
    BY DEF IInv, TypeOK, EventPart, EpollPart
  <2>3. ~Woken' /\ ~Served' /\ ~Served
    BY <2>1, <2>2 DEF Woken, Slept, Waited, Served
  <2> QED BY <1>b, <2>1, <2>3 DEF LatePart
<1>7. ASSUME NEW e \in events, EventError(e) PROVE LatePart'
  BY <1>7, LateSame DEF EventError, Woken
<1>8. CASE EventsEnd
  <2>1. UNCHANGED <<sleep, left, cur>> /\ cur = None /\ pc = "events" /\ pc' = "sleep"
    BY <1>8 DEF EventsEnd, sch_vars
  <2>2. ~Woken' /\ ~Served' /\ ~Served
    BY <2>1 DEF Woken, Served
  <2> QED BY <1>b, <2>1, <2>2 DEF LatePart
<1>9. ASSUME NEW c \in Co, NEW d \in Co, Spawn(c, d) PROVE LatePart'
  BY <1>9, LateSame DEF Spawn, Woken, Slept
<1>10. ASSUME NEW c \in Co, Yield(c) \/ Exit(c) PROVE LatePart'
  BY <1>10, LateSame DEF Yield, Exit, InCode, SwitchBack, sch_vars, Woken, Slept
<1>11. ASSUME NEW c \in Co, Msleep(c) PROVE LatePart'
  <2>1. PICK ms \in Nat : InsertSleep(ms, c)
    BY <1>11 DEF Msleep
  <2> QED BY <1>11, <2>1, LateInsert DEF Msleep, SwitchBack
<1>12. ASSUME NEW c \in Co, MsleepReturns(c) PROVE LatePart'
  BY <1>12, LateTail DEF MsleepReturns, Slept
<1>13. ASSUME NEW c \in Co, NEW f \in Fd, Listen(c, f) \/ ConnectAtOnce(c, f) \/ Close(c, f) \/ Accept(c, f)
       PROVE  LatePart'
  BY <1>13, LateSame DEF Listen, ConnectAtOnce, Close, Accept, co_vars, sch_vars, Woken, Slept
<1>14. ASSUME NEW c \in Co, NEW f \in Fd, NEW ev \in Event, Transfer(c, f, ev) PROVE LatePart'
  BY <1>14, LateSame DEF Transfer, co_vars, sch_vars, Woken, Slept
<1>15. ASSUME NEW c \in Co, NEW f \in Fd, NEW ev \in Event, WouldBlock(c, f, ev) PROVE LatePart'
  BY <1>15, LateSame DEF WouldBlock, WaitFor, InCode, SwitchBack, Woken, Slept
<1>16. ASSUME NEW c \in Co, WaitReturns(c) PROVE LatePart'
  <2>1. ~Woken /\ ~Woken' /\ UNCHANGED <<sleep, pc, left, cur>>
    BY <1>16 DEF WaitReturns, Woken, Slept
  <2> QED BY <2>1, LateSame
<1>17. ASSUME NEW c \in Co, NEW f \in Fd, Connect(c, f) PROVE LatePart'
  <2>1. InCode(c) /\ cur' = None /\ UNCHANGED <<pc, left>>
    BY <1>17 DEF Connect, SwitchBack
  <2>2. CASE \E timeout \in Delay \ {0} : InsertSleep(timeout, c)
    <3>1. PICK ms \in Nat : InsertSleep(ms, c)
      BY <2>2
    <3> QED BY <2>1, <3>1, LateInsert
  <2>3. CASE UNCHANGED sleep
    <3>1. ~Woken /\ ~Woken'
      BY <2>1 DEF InCode, Woken, Slept
    <3> QED BY <2>1, <2>3, <3>1, LateSame
  <2> QED BY <1>17, <2>2, <2>3 DEF Connect
<1>18. ASSUME NEW c \in Co, ConnectReturns(c) PROVE LatePart'
  <2>1. CASE at[c] = "connect"
    <3>1. ~Woken /\ ~Woken' /\ UNCHANGED <<sleep, pc, left, cur>>
      BY <1>18, <2>1 DEF ConnectReturns, Woken, Slept
    <3> QED BY <3>1, LateSame
  <2>2. CASE at[c] = "timed"
    BY <1>18, <2>2, LateTail DEF ConnectReturns, Slept
  <2> QED BY <1>18, <2>1, <2>2 DEF ConnectReturns
<1>19. ASSUME NEW f \in Fd, Handshake(f) \/ Fail(f) \/ \E ev \in Event : Arrive(f, ev) PROVE LatePart'
  BY <1>19, LateSame DEF Handshake, Fail, Arrive, co_vars, sch_vars, Woken, Slept
<1> QED
  BY <1>0, <1>1, <1>2, <1>3, <1>4, <1>5, <1>6, <1>7, <1>8, <1>9, <1>10, <1>11, <1>12, <1>13,
     <1>14, <1>15, <1>16, <1>17, <1>18, <1>19 DEF Next, Schedule, Return, Leave

LEMMA LateFromPart == IInv /\ LatePart => BoundedLateness
<1> SUFFICES ASSUME IInv, LatePart, NEW i \in 1..Len(sleep)
             PROVE  sleep[i].left >= -(WaitTimeout * (Cardinality(Co) - i + 1))
    BY DEF BoundedLateness
<1>1. sleep[i].left \in Int /\ left \in 0..WaitTimeout /\ WaitTimeout \in Nat /\ i \in Int
  BY SleepLength, DelayAssumption DEF IInv, TypeOK
<1>2. Late(i) \in Int /\ sleep[i].left >= -Late(i) - WaitTimeout
  <2>1. Late(i) \in Int
    BY <1>1, LateFacts
  <2>2. sleep[i].left >= -Late(i) \/ sleep[i].left >= -Late(i) - WaitTimeout + left
    BY DEF LatePart
  <2> QED BY <1>1, <2>1, <2>2
<1>3. WaitTimeout * (Cardinality(Co) - i + 1) = Late(i) + WaitTimeout
  <2>1. Cardinality(Co) \in Nat /\ Late(i - 1) = Late(i - 1 + 1) + WaitTimeout /\ i - 1 + 1 = i
    BY <1>1, LateFacts
  <2>2. Cardinality(Co) - (i - 1) = Cardinality(Co) - i + 1
    BY <1>1, <2>1
  <2> QED BY <2>1, <2>2 DEF Late
<1> QED BY <1>1, <1>2, <1>3

\* With n coroutines, the sleeper at place i of the tree is at most n - i + 1
\* default timeouts late, whatever the others do.
THEOREM LatenessCorrect == Spec => []BoundedLateness
<1>1. Init => LatePart
  BY LateInit
<1>2. IInv /\ IInv' /\ LatePart /\ [Next]_vars => LatePart'
  BY LateStep
<1>3. IInv /\ LatePart => BoundedLateness
  BY LateFromPart
<1> QED BY InvariantCorrect, <1>1, <1>2, <1>3, PTL DEF Spec
=============================================================================
