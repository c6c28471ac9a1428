---------------------------- MODULE MgxLog_proofs ----------------------------
(***************************************************************************)
(* The log of a process, for any sizes, formats and number of descriptors. *)
(*                                                                         *)
(* First the descriptor: g_mgx_log.fd refers to the log file until a write *)
(* fails, and the file is not leaked.  FdIsLog alone is not inductive.     *)
(* After a failed write it says nothing, yet the master's next             *)
(* mgx_log_init must find that no number but its own refers to a file      *)
(* (NoOther); mgx_daemon closes 0, 1 and 2 and must not hit the log        *)
(* (StdKept); and nobody may close number 2, for then open could hand it   *)
(* out and "the log is stderr" would name a file (ErrKept).                *)
(*                                                                         *)
(* Then the line.  The digits that the loop of mgx_sprintf_num divides out *)
(* are those of the number (DigitsCorrect); padding and digits are cut     *)
(* where the buffer ends (SprintfNum); and so every directive adds its     *)
(* text to what a cut buffer holds (DirectiveCorrect).  The invariant is   *)
(* FormatIsCutText, that the finished line is kept until mgx_log returns   *)
(* (LineKept), what stderr shows (ErrText) and where mgx_log is            *)
(* (CallType).  Recursive functions are reasoned about by induction over   *)
(* sets of numbers (UpwardInduction), from the least number of a set.      *)
(***************************************************************************)
EXTENDS MgxLog, WellFoundedInduction, TLAPS

Kind == {"std", "closed", "file", "null", "other"}
Role == {"start", "daemon", "master", "worker"}

\* The descriptors and what the log knows of them.
FdType ==
    /\ tab \in [Number0 -> Kind]
    /\ fd \in Number0 \cup {NoFd, Stderr}
    /\ broken \in BOOLEAN
    /\ role \in Role

\* Before mgx_daemon and fork the standard descriptors are as main found them,
\* and a log file has a number above them.
StdKept ==
    role = "start" => /\ \A n \in Number0 : n <= Stderr => tab[n] = "std"
                      /\ fd \in Number0 => fd >= Stderr

\* The number 2 is never closed and never given to another file.
ErrKept == \A n \in Number0 : n = Stderr => tab[n] \in {"std", "null"}

\* The one number that may refer to a log file is the one in g_mgx_log.fd.
NoOther == \A n \in Number0 : tab[n] = "file" => n = fd /\ fd # Stderr

\* Until a write fails it does.
Refers == ~broken => \A n \in Number0 : n = fd /\ fd # Stderr => tab[n] = "file"

\* A write fails only with a descriptor to lose.
BrokenHadFd == broken => fd # NoFd

FdInv == FdType /\ StdKept /\ ErrKept /\ NoOther /\ Refers /\ BrokenHadFd

-----------------------------------------------------------------------------
\* A nonempty set of natural numbers has a least one.
LEMMA LeastNumber ==
    ASSUME NEW S \in SUBSET Nat, S # {}
    PROVE  \E n \in S : \A k \in S : n <= k
<1>1. PICK n \in S : \A k \in S : ~(<<k, n>> \in OpToRel(<, Nat))
  BY NatLessThanWellFounded, WFMin, Zenon
<1>2. \A k \in S : n <= k
  <2> TAKE k \in S
  <2>1. k \in Nat /\ n \in Nat
    OBVIOUS
  <2>2. ~(k < n)
    BY <1>1, <2>1 DEF OpToRel
  <2> QED BY <2>1, <2>2
<1> QED BY <1>2

\* What open and accept return: a number that is free.
LEMMA LowestIsFree ==
    ASSUME NEW t \in [Number0 -> Kind], HasRoom(t)
    PROVE  Lowest(t) \in Number0 /\ t[Lowest(t)] = "closed"
<1> DEFINE S == {n \in Number0 : t[n] = "closed"}
<1>1. S \in SUBSET Nat /\ S # {}
  BY FdAssumption DEF HasRoom, Number0
<1>2. PICK n \in S : \A k \in S : n <= k
  BY <1>1, LeastNumber
<1>3. n \in Number0 /\ t[n] = "closed"
  OBVIOUS
<1>4. \A m \in 0..(n - 1) : t[m] # "closed"
  <2> SUFFICES ASSUME NEW m \in 0..(n - 1), t[m] = "closed" PROVE FALSE
    OBVIOUS
  <2>1. m \in Number0 /\ m < n /\ m \in Nat /\ n \in Nat
    BY <1>3, FdAssumption DEF Number0
  <2>2. n <= m
    BY <1>2, <2>1
  <2> QED BY <2>1, <2>2
<1>5. \E k \in Number0 : t[k] = "closed" /\ \A m \in 0..(k - 1) : t[m] # "closed"
  BY <1>3, <1>4
<1> QED BY <1>5, Zenon DEF Lowest

\* Closing changes the one entry, or none.
LEMMA CloseType ==
    ASSUME NEW t \in [Number0 -> Kind], NEW n
    PROVE  /\ CloseFd(t, n) \in [Number0 -> Kind]
           /\ \A m \in Number0 : CloseFd(t, n)[m] = IF m = n THEN "closed" ELSE t[m]
BY DEF CloseFd, Kind

\* The log before mgx_log_init.
LEMMA FdInit == Init => FdInv
BY FdAssumption, SMTT(30) DEF Init, FdInv, FdType, StdKept, ErrKept, NoOther, Refers, BrokenHadFd,
   Number0, Kind, Role, Stderr, NoFd

\* mgx_log_init, at start-up and when the log is rotated.
LEMMA LogInitStep ==
    ASSUME FdInv, LogInit
    PROVE  FdInv'
<1> DEFINE t == IF fd \in {NoFd, Stderr} THEN tab ELSE CloseFd(tab, fd)
<1>1. FdType /\ StdKept /\ ErrKept /\ NoOther
  BY DEF FdInv
<1>2. t \in [Number0 -> Kind]
  BY <1>1, CloseType DEF FdType
<1>3. \A n \in Number0 : t[n] = IF n = fd /\ fd # Stderr THEN "closed" ELSE tab[n]
  <2>1. CASE fd \in {NoFd, Stderr}
    BY <2>1 DEF NoFd, Number0
  <2>2. CASE ~(fd \in {NoFd, Stderr})
    BY <1>1, <2>2, CloseType DEF FdType
  <2> QED BY <2>1, <2>2
<1>4. \A n \in Number0 : t[n] # "file"
  BY <1>1, <1>3 DEF NoOther
<1>5. \A n \in Number0 : n = Stderr => t[n] \in {"std", "null"}
  BY <1>1, <1>3 DEF ErrKept
<1>6. role = "start" => \A n \in Number0 : n <= Stderr => t[n] = "std"
  <2> SUFFICES ASSUME role = "start" PROVE \A n \in Number0 : n <= Stderr => t[n] = "std"
    OBVIOUS
  <2>1. fd = NoFd
    BY DEF LogInit
  <2> QED BY <1>1, <2>1 DEF StdKept
<1>7. \/ HasRoom(t) /\ fd' = Lowest(t) /\ tab' = [t EXCEPT ![Lowest(t)] = "file"]
      \/ fd' = Stderr /\ tab' = t
  BY DEF LogInit
<1>8. role' = role /\ broken' = FALSE /\ role \in Role
  BY <1>1 DEF LogInit, FdType
<1> HIDE DEF t
<1>9. CASE HasRoom(t) /\ fd' = Lowest(t) /\ tab' = [t EXCEPT ![Lowest(t)] = "file"]
  <2> DEFINE f == Lowest(t)
  <2>1. f \in Number0 /\ t[f] = "closed"
    BY <1>2, <1>9, LowestIsFree
  <2> HIDE DEF f
  <2>2. fd' = f /\ tab' = [t EXCEPT ![f] = "file"]
    BY <1>9 DEF f
  <2>3. tab' \in [Number0 -> Kind] /\ \A n \in Number0 : tab'[n] = IF n = f THEN "file" ELSE t[n]
    BY <1>2, <2>1, <2>2 DEF Kind
  <2>4. f # Stderr /\ f # NoFd
    BY <1>5, <2>1 DEF NoFd, Number0
  <2>5. StdKept'
    <3>1. f \in Int
      BY <2>1, FdAssumption DEF Number0
    <3>2. role = "start" => f > Stderr
      BY <1>6, <2>1, <3>1 DEF Stderr
    <3>3. role = "start" => \A n \in Number0 : n <= Stderr => n # f
      BY <3>1, <3>2 DEF Number0, Stderr
    <3>4. role = "start" => f >= Stderr
      BY <3>1, <3>2 DEF Stderr
    <3> QED BY <1>6, <1>8, <2>2, <2>3, <3>3, <3>4 DEF StdKept
  <2>6. FdType'
    BY <1>8, <2>1, <2>2, <2>3 DEF FdType
  <2>7. ErrKept' /\ NoOther' /\ Refers' /\ BrokenHadFd'
    BY <1>4, <1>5, <1>8, <2>2, <2>3, <2>4 DEF ErrKept, NoOther, Refers, BrokenHadFd
  <2> QED BY <2>5, <2>6, <2>7 DEF FdInv
<1>10. CASE fd' = Stderr /\ tab' = t
  <2>1. FdType'
    BY <1>2, <1>8, <1>10 DEF FdType
  <2>2. StdKept'
    BY <1>6, <1>8, <1>10 DEF StdKept, Stderr
  <2>3. ErrKept' /\ NoOther' /\ Refers' /\ BrokenHadFd'
    BY <1>4, <1>5, <1>8, <1>10 DEF ErrKept, NoOther, Refers, BrokenHadFd
  <2> QED BY <2>1, <2>2, <2>3 DEF FdInv
<1> QED BY <1>7, <1>9, <1>10

\* mgx_daemon: the numbers 0, 1 and 2 change hands, the log's does not.
LEMMA DaemonStep ==
    ASSUME FdInv, Daemon
    PROVE  FdInv'
<1> DEFINE closed == [n \in Number0 |-> IF n <= Stderr THEN "closed" ELSE tab[n]]
           null == Lowest(closed)
<1>1. FdType /\ StdKept /\ ErrKept /\ NoOther /\ Refers /\ BrokenHadFd /\ role = "start"
  BY DEF FdInv, Daemon
<1>2. closed \in [Number0 -> Kind] /\ HasRoom(closed)
  <2>1. closed \in [Number0 -> Kind]
    BY <1>1 DEF FdType, Kind
  <2>2. 0 \in Number0 /\ 0 <= Stderr
    BY FdAssumption DEF Number0, Stderr
  <2>3. closed[0] = "closed"
    BY <2>2
  <2> QED BY <2>1, <2>2, <2>3 DEF HasRoom
<1>3. null \in Number0 /\ closed[null] = "closed"
  BY <1>2, LowestIsFree
<1>4. tab' = [n \in Number0 |-> IF n \in {1, Stderr} THEN "null"
                                ELSE IF n = null THEN "closed" ELSE closed[n]]
  BY DEF Daemon
<1>5. role' = "daemon" /\ UNCHANGED <<fd, broken>>
  BY DEF Daemon
<1>6. \A n \in Number0 : closed[n] = IF n <= Stderr THEN "closed" ELSE tab[n]
  OBVIOUS
<1> HIDE DEF closed, null
<1>7. tab' \in [Number0 -> Kind]
  BY <1>2, <1>4 DEF Kind
<1>8. \A n \in Number0 : n > Stderr /\ tab[n] = "file" => tab'[n] = "file"
  <2> SUFFICES ASSUME NEW n \in Number0, n > Stderr, tab[n] = "file" PROVE tab'[n] = "file"
    OBVIOUS
  <2>1. n \in Int /\ n \notin {1, Stderr} /\ ~(n <= Stderr)
    BY FdAssumption DEF Number0, Stderr
  <2>2. closed[n] = "file" /\ n # null
    BY <1>3, <1>6, <2>1
  <2> QED BY <1>4, <2>1, <2>2
<1>9. \A n \in Number0 : tab'[n] = "file" => tab[n] = "file"
  BY <1>4, <1>6
<1>10. \A n \in Number0 : n = fd /\ fd # Stderr => n > Stderr
  BY <1>1, FdAssumption DEF StdKept, Number0, Stderr
<1>11. FdType' /\ StdKept' /\ ErrKept'
  BY <1>1, <1>4, <1>5, <1>7 DEF FdType, StdKept, ErrKept, Role
<1>12. NoOther' /\ BrokenHadFd'
  BY <1>1, <1>5, <1>9 DEF NoOther, BrokenHadFd
<1>13. Refers'
  BY <1>1, <1>5, <1>8, <1>10 DEF Refers
<1> QED BY <1>11, <1>12, <1>13 DEF FdInv

\* A worker's other descriptors.
LEMMA OtherStep ==
    ASSUME FdInv, OpenOther \/ CloseOther
    PROVE  FdInv'
<1>1. FdType /\ ErrKept /\ NoOther /\ Refers /\ BrokenHadFd
  BY DEF FdInv
<1>2. role = "worker" /\ UNCHANGED <<role, fd, broken>>
  BY DEF OpenOther, CloseOther
<1>3. \E f \in Number0, k \in {"other", "closed"} :
         tab[f] \in {"closed", "other"} /\ tab' = [tab EXCEPT ![f] = k]
  <2>1. CASE OpenOther
    <3>1. HasRoom(tab) /\ tab' = [tab EXCEPT ![Lowest(tab)] = "other"]
      BY <2>1 DEF OpenOther
    <3>2. Lowest(tab) \in Number0 /\ tab[Lowest(tab)] = "closed"
      BY <1>1, <3>1, LowestIsFree DEF FdType
    <3> QED BY <3>1, <3>2
  <2>2. CASE CloseOther
    BY <2>2 DEF CloseOther
  <2> QED BY <2>1, <2>2
<1>4. PICK f \in Number0, k \in {"other", "closed"} :
         tab[f] \in {"closed", "other"} /\ tab' = [tab EXCEPT ![f] = k]
  BY <1>3
<1>5. tab' \in [Number0 -> Kind] /\ \A n \in Number0 : tab'[n] = IF n = f THEN k ELSE tab[n]
  BY <1>1, <1>4 DEF FdType, Kind
<1>6. FdType' /\ StdKept'
  BY <1>1, <1>2, <1>5 DEF FdType, StdKept
<1>7. ErrKept' /\ NoOther' /\ Refers' /\ BrokenHadFd'
  BY <1>1, <1>2, <1>4, <1>5 DEF ErrKept, NoOther, Refers, BrokenHadFd
<1> QED BY <1>6, <1>7 DEF FdInv

\* A write that fails: the descriptor is closed and its number kept.
LEMMA WriteFailsStep ==
    ASSUME FdInv, WriteFails
    PROVE  FdInv'
<1>1. FdType /\ StdKept /\ ErrKept /\ NoOther /\ Refers /\ BrokenHadFd
  BY DEF FdInv
<1>2. UNCHANGED <<role, fd>>
  BY DEF WriteFails
<1>3. CASE fd = Stderr
  <2>1. UNCHANGED <<tab, broken>>
    BY <1>3 DEF WriteFails
  <2> QED BY <1>1, <1>2, <2>1 DEF FdInv, FdType, StdKept, ErrKept, NoOther, Refers, BrokenHadFd
<1>4. CASE fd # Stderr
  <2>1. tab' = CloseFd(tab, fd) /\ broken' = (fd # NoFd)
    BY <1>4 DEF WriteFails
  <2>2. tab' \in [Number0 -> Kind] /\ \A n \in Number0 : tab'[n] = IF n = fd THEN "closed" ELSE tab[n]
    BY <1>1, <2>1, CloseType DEF FdType
  <2>3. FdType'
    BY <1>1, <1>2, <2>1, <2>2 DEF FdType
  <2>4. StdKept'
    <3>1. role = "start" => \A n \in Number0 : n <= Stderr => n # fd
      BY <1>1, <1>4, FdAssumption DEF StdKept, Number0, Stderr
    <3> QED BY <1>1, <1>2, <2>2, <3>1 DEF StdKept
  <2>5. ErrKept' /\ NoOther'
    BY <1>1, <1>2, <1>4, <2>2 DEF ErrKept, NoOther
  <2>6. Refers' /\ BrokenHadFd'
    <3>1. \A n \in Number0 : n # NoFd
      BY FdAssumption DEF NoFd, Number0
    <3>2. broken' <=> fd # NoFd
      BY <2>1, Zenon
    <3> QED BY <1>2, <3>1, <3>2 DEF Refers, BrokenHadFd
  <2> QED BY <2>3, <2>4, <2>5, <2>6 DEF FdInv
<1> QED BY <1>3, <1>4

\* The steps that leave the descriptors alone.
LEMMA QuietStep ==
    ASSUME FdInv, UNCHANGED <<tab, fd, broken>>,
           role' = role \/ role' \in {"master", "worker"}
    PROVE  FdInv'
<1>1. FdType /\ StdKept /\ ErrKept /\ NoOther /\ Refers /\ BrokenHadFd
  BY DEF FdInv
<1>2. FdType' /\ StdKept'
  BY <1>1 DEF FdType, StdKept, Role
<1>3. ErrKept' /\ NoOther' /\ Refers' /\ BrokenHadFd'
  BY <1>1 DEF ErrKept, NoOther, Refers, BrokenHadFd
<1> QED BY <1>2, <1>3 DEF FdInv

\* Every step keeps what is known of the descriptors.
LEMMA FdStep == FdInv /\ [Next]_vars => FdInv'
<1> SUFFICES ASSUME FdInv, [Next]_vars PROVE FdInv'
  OBVIOUS
<1>1. CASE LogInit
  BY <1>1, LogInitStep
<1>2. CASE Daemon
  BY <1>2, DaemonStep
<1>3. CASE OpenOther \/ CloseOther
  BY <1>3, OtherStep
<1>4. CASE WriteFails
  BY <1>4, WriteFailsStep
<1>5. CASE Fork
  BY <1>5, QuietStep DEF Fork
<1>6. CASE \E l \in 0..LogLevel, f \in Formats : Log(l, f)
  BY <1>6, QuietStep DEF Log
<1>7. CASE Format \/ FormatEnd
  BY <1>7, QuietStep DEF Format, FormatEnd
<1>8. CASE WriteOk
  BY <1>8, QuietStep DEF WriteOk
<1>9. CASE Echo \/ Echoed
  BY <1>9, QuietStep DEF Echo, Echoed
<1>10. CASE UNCHANGED vars
  BY <1>10, QuietStep DEF vars
<1> QED BY <1>1, <1>2, <1>3, <1>4, <1>5, <1>6, <1>7, <1>8, <1>9, <1>10 DEF Next

-----------------------------------------------------------------------------
\* For any number of descriptors and any order of rotations, failed writes,
\* openings and closings: as long as no write has failed, the number that
\* mgx_log writes to refers to the log file or is stderr, and no other number
\* refers to a log file.
THEOREM FdCorrect == Spec => []FdIsLog
<1>1. FdInv => FdIsLog
  BY DEF FdInv, NoOther, Refers, FdIsLog
<1> QED BY <1>1, FdInit, FdStep, PTL DEF Spec

\* Number 2, to which mgx_log_stderr writes, stays open and its own: no step of the log, of mgx_daemon or of
\* a worker leaves the number 2 closed or gives it to another file.
THEOREM StderrCorrect == Spec => []ErrKept
<1>1. FdInv => ErrKept
  BY DEF FdInv
<1> QED BY <1>1, FdInit, FdStep, PTL DEF Spec

-----------------------------------------------------------------------------
(* Induction, and powers as the loop that makes scale computes them. *)

\* Induction from 0 up to n, over a set of numbers.
LEMMA UpwardInduction ==
    ASSUME NEW n \in Nat, NEW S, 0 \in S, \A k \in 1..n : k - 1 \in S => k \in S
    PROVE  \A k \in 0..n : k \in S
<1> DEFINE C == {k \in 0..n : k \notin S}
<1>1. SUFFICES ASSUME C # {} PROVE FALSE
  OBVIOUS
<1>2. PICK m \in C : \A k \in C : m <= k
  <2>1. C \in SUBSET Nat
    OBVIOUS
  <2> QED BY <2>1, <1>1, LeastNumber, Zenon
<1>3. m \in 0..n /\ m \notin S /\ m # 0
  OBVIOUS
<1>4. m \in 1..n /\ m - 1 \in 0..n /\ m - 1 < m
  BY <1>3
<1>5. m - 1 \notin C
  BY <1>2, <1>4
<1>6. m - 1 \in S
  BY <1>4, <1>5
<1> QED BY <1>3, <1>4, <1>6

-----------------------------------------------------------------------------
(* Powers. *)

\* f starts with a and goes on with step, on 0..n.
Iterates(f, n, T, a, step) ==
    /\ f \in [0..n -> T]
    /\ f[0] = a
    /\ \A k \in 1..n : f[k] = step[k][f[k - 1]]

\* A function that is defined step by step along 0..n exists: this is what stands
\* behind every recursive function below.
LEMMA FoldExists ==
    ASSUME NEW n \in Nat, NEW T, NEW a \in T, NEW step \in [1..n -> [T -> T]]
    PROVE  \E f : Iterates(f, n, T, a, step)
<1> DEFINE Solves(f, m) == f[0] = a /\ \A k \in 1..m : f[k] = step[k][f[k - 1]]
           S == {m \in 0..n : \E f \in [0..n -> T] : Solves(f, m)}
<1>1. 0 \in S
  <2> DEFINE f == [k \in 0..n |-> a]
  <2>1. f \in [0..n -> T] /\ Solves(f, 0) /\ 0 \in 0..n
    OBVIOUS
  <2> HIDE DEF f, Solves
  <2> QED BY <2>1
<1>2. ASSUME NEW m \in 1..n, m - 1 \in S PROVE m \in S
  <2>1. PICK f \in [0..n -> T] : Solves(f, m - 1)
    BY <1>2
  <2>2. m - 1 \in 0..n /\ f[m - 1] \in T /\ m \in 0..n /\ m # 0
    OBVIOUS
  <2> DEFINE x == step[m][f[m - 1]]
             g == [f EXCEPT ![m] = x]
  <2>3. x \in T
    BY <2>2
  <2> HIDE DEF x
  <2>4. g \in [0..n -> T] /\ g[m] = x /\ \A k \in 0..n : k # m => g[k] = f[k]
    BY <2>2, <2>3
  <2> HIDE DEF g
  <2>5. g[0] = a
    BY <2>1, <2>2, <2>4
  <2>6. ASSUME NEW k \in 1..m PROVE g[k] = step[k][g[k - 1]]
    <3>1. k - 1 \in 0..n /\ k - 1 # m /\ k \in 0..n
      OBVIOUS
    <3>2. g[k - 1] = f[k - 1]
      BY <3>1, <2>4
    <3>3. CASE k = m
      BY <3>2, <3>3, <2>4 DEF x
    <3>4. CASE k # m
      <4>1. k \in 1..(m - 1)
        BY <3>4
      <4>2. g[k] = f[k] /\ f[k] = step[k][f[k - 1]]
        BY <4>1, <3>1, <3>4, <2>1, <2>4
      <4> QED BY <4>2, <3>2
    <3> QED BY <3>3, <3>4
  <2> QED BY <2>2, <2>4, <2>5, <2>6
<1>3. \A m \in 0..n : m \in S
  <2> HIDE DEF S
  <2> QED BY <1>1, <1>2, UpwardInduction
<1>4. n \in S
  BY <1>3
<1> QED BY <1>4 DEF Iterates

IsPower(p, b, n) == p = [k \in 0..n |-> IF k = 0 THEN 1 ELSE b * p[k - 1]]

\* The recursive function of Power exists, so that CHOOSE finds it.
LEMMA PowerExists ==
    ASSUME NEW b \in Nat, NEW n \in Nat
    PROVE  \E p : IsPower(p, b, n)
<1> DEFINE step == [k \in 1..n |-> [e \in Nat |-> b * e]]
<1>1. step \in [1..n -> [Nat -> Nat]] /\ 1 \in Nat
  OBVIOUS
<1>2. \A e \in Nat, k \in 1..n : step[k][e] = b * e
  OBVIOUS
<1> HIDE DEF step
<1>3. PICK f : Iterates(f, n, Nat, 1, step)
  BY <1>1, FoldExists, Zenon
<1>4. ASSUME NEW k \in 0..n PROVE f[k] = IF k = 0 THEN 1 ELSE b * f[k - 1]
  <2>1. CASE k = 0
    BY <2>1, <1>3 DEF Iterates
  <2>2. CASE k # 0
    <3>1. k \in 1..n /\ k - 1 \in 0..n
      BY <2>2
    <3>2. f[k - 1] \in Nat /\ f[k] = step[k][f[k - 1]]
      BY <3>1, <1>3 DEF Iterates
    <3> QED BY <2>2, <3>1, <3>2, <1>2
  <2> QED BY <2>1, <2>2
<1>5. f = [k \in 0..n |-> IF k = 0 THEN 1 ELSE b * f[k - 1]]
  BY <1>3, <1>4 DEF Iterates
<1>6. IsPower(f, b, n)
  BY <1>5, Zenon DEF IsPower
<1> QED BY <1>6, Zenon

\* Power is a value of it.
LEMMA PowerIs ==
    ASSUME NEW b \in Nat, NEW n \in Nat
    PROVE  \E p : IsPower(p, b, n) /\ Power(b, n) = p[n]
<1> DEFINE p == CHOOSE q : IsPower(q, b, n)
<1>1. IsPower(p, b, n)
  BY PowerExists, Zenon
<1>2. Power(b, n) = p[n]
  BY Zenon DEF Power, IsPower
<1> QED BY <1>1, <1>2, Zenon

\* The values of a power are numbers.
LEMMA PowerType ==
    ASSUME NEW b \in Nat, NEW n \in Nat, NEW p, IsPower(p, b, n)
    PROVE  \A k \in 0..n : p[k] \in Nat
<1> DEFINE S == {k \in 0..n : p[k] \in Nat}
<1>1. p[0] = 1 /\ \A k \in 1..n : p[k] = b * p[k - 1]
  BY DEF IsPower
<1>2. 0 \in S
  BY <1>1
<1>3. ASSUME NEW k \in 1..n, k - 1 \in S PROVE k \in S
  <2>1. k \in 0..n /\ p[k - 1] \in Nat
    BY <1>3
  <2> QED BY <2>1, <1>1
<1>4. \A k \in 0..n : k \in S
  <2> HIDE DEF S
  <2> QED BY <1>2, <1>3, UpwardInduction
<1> QED BY <1>4

\* The equations of Power.
LEMMA PowerSteps ==
    ASSUME NEW b \in Nat, NEW n \in Nat
    PROVE  Power(b, 0) = 1 /\ Power(b, n) \in Nat /\ Power(b, n + 1) = b * Power(b, n)
<1>1. PICK p : IsPower(p, b, n) /\ Power(b, n) = p[n]
  BY PowerIs
<1>2. PICK q : IsPower(q, b, n + 1) /\ Power(b, n + 1) = q[n + 1]
  BY PowerIs
<1>3. PICK r : IsPower(r, b, 0) /\ Power(b, 0) = r[0]
  BY PowerIs
<1>4. p[0] = 1 /\ \A k \in 1..n : p[k] = b * p[k - 1]
  BY <1>1 DEF IsPower
<1>5. q[0] = 1 /\ \A k \in 1..(n + 1) : q[k] = b * q[k - 1]
  BY <1>2 DEF IsPower
<1>6. r[0] = 1
  BY <1>3 DEF IsPower
<1> DEFINE S == {k \in 0..n : q[k] = p[k]}
<1>7. 0 \in S
  BY <1>4, <1>5
<1>8. ASSUME NEW k \in 1..n, k - 1 \in S PROVE k \in S
  <2>1. k \in 0..n /\ k \in 1..(n + 1) /\ q[k - 1] = p[k - 1]
    BY <1>8
  <2> QED BY <2>1, <1>4, <1>5
<1>9. \A k \in 0..n : k \in S
  <2> HIDE DEF S
  <2> QED BY <1>7, <1>8, UpwardInduction
<1>10. q[n] = p[n]
  BY <1>9
<1>11. n + 1 \in 1..(n + 1) /\ (n + 1) - 1 = n
  OBVIOUS
<1>12. q[n + 1] = b * q[n]
  BY <1>5, <1>11
<1>13. p[n] \in Nat
  BY <1>1, PowerType
<1> QED BY <1>1, <1>2, <1>3, <1>6, <1>10, <1>12, <1>13

\* Powers of a base of at least one are positive and grow.
LEMMA PowerGrows ==
    ASSUME NEW b \in Nat \ {0}, NEW m \in Nat, NEW n \in Nat, m <= n
    PROVE  Power(b, m) >= 1 /\ Power(b, m) <= Power(b, n)
<1> DEFINE S == {k \in 0..n : Power(b, k) >= 1 /\ (k >= m => Power(b, m) <= Power(b, k))}
<1>0. \A k \in Nat : Power(b, k) \in Nat
  BY PowerSteps
<1>1. 0 \in S
  <2>1. Power(b, 0) = 1
    BY PowerSteps
  <2>2. 0 >= m => m = 0
    OBVIOUS
  <2> QED BY <2>1, <2>2
<1>2. ASSUME NEW k \in 1..n, k - 1 \in S PROVE k \in S
  <2>1. k - 1 \in Nat /\ k \in Nat /\ k \in 0..n /\ (k - 1) + 1 = k
    OBVIOUS
  <2>2. PICK x \in Nat : x = Power(b, k - 1)
    BY <2>1, <1>0
  <2>3. PICK y \in Nat : y = Power(b, k)
    BY <2>1, <1>0
  <2>4. PICK z \in Nat : z = Power(b, m)
    BY <1>0
  <2>5. y = b * x
    BY <2>1, <2>2, <2>3, PowerSteps
  <2>6. x >= 1 /\ (k - 1 >= m => z <= x)
    BY <1>2, <2>2, <2>4
  <2>7. y >= x
    BY <2>5
  <2>8. k >= m => z <= y
    <3>1. CASE k = m
      BY <3>1, <2>3, <2>4
    <3>2. CASE k # m
      BY <3>2, <2>1, <2>6, <2>7
    <3> QED BY <3>1, <3>2
  <2> QED BY <2>1, <2>3, <2>4, <2>6, <2>7, <2>8
<1>3. \A k \in 0..n : k \in S
  <2> HIDE DEF S
  <2> QED BY <1>1, <1>2, UpwardInduction
<1>4. m \in 0..n /\ n \in 0..n /\ n >= m
  OBVIOUS
<1> QED BY <1>3, <1>4

\* A larger base has larger powers.
LEMMA PowerOfLarger ==
    ASSUME NEW b \in Nat, NEW c \in Nat, b <= c, NEW n \in Nat
    PROVE  Power(b, n) <= Power(c, n)
<1> DEFINE S == {k \in 0..n : Power(b, k) <= Power(c, k)}
<1>1. 0 \in S
  <2>1. Power(b, 0) = 1 /\ Power(c, 0) = 1
    BY PowerSteps
  <2> QED BY <2>1
<1>2. ASSUME NEW k \in 1..n, k - 1 \in S PROVE k \in S
  <2>1. k - 1 \in Nat /\ k \in 0..n /\ (k - 1) + 1 = k
    OBVIOUS
  <2>2. PICK x \in Nat : x = Power(b, k - 1)
    BY <2>1, PowerSteps
  <2>3. PICK y \in Nat : y = Power(c, k - 1)
    BY <2>1, PowerSteps
  <2>4. Power(b, k) = b * x /\ Power(c, k) = c * y
    BY <2>1, <2>2, <2>3, PowerSteps
  <2>5. x <= y
    BY <1>2, <2>2, <2>3
  <2>6. b * x <= b * y /\ b * y <= c * y
    BY <2>5
  <2>7. b * x <= c * y
    BY <2>6
  <2> QED BY <2>1, <2>4, <2>7
<1>3. \A k \in 0..n : k \in S
  <2> HIDE DEF S
  <2> QED BY <1>1, <1>2, UpwardInduction
<1> QED BY <1>3

-----------------------------------------------------------------------------
(* Digits. *)

\* Division with a remainder.
LEMMA Quotient ==
    ASSUME NEW n \in Nat, NEW d \in Nat \ {0}
    PROVE  /\ n \div d \in Nat /\ n % d \in Nat /\ n % d < d
           /\ n = (n \div d) * d + (n % d)
OBVIOUS

\* ... and that it is unique.
LEMMA QuotientIs ==
    ASSUME NEW n \in Nat, NEW d \in Nat \ {0}, NEW q \in Nat, NEW r \in Nat, r < d, n = q * d + r
    PROVE  n \div d = q /\ n % d = r
OBVIOUS

\* Dividing twice.
LEMMA QuotientTwice ==
    ASSUME NEW n \in Nat, NEW b \in Nat \ {0}, NEW p \in Nat \ {0}
    PROVE  n \div (b * p) = (n \div b) \div p
<1>1. PICK x \in Nat, r \in Nat : x = n \div b /\ r = n % b /\ r < b /\ n = x * b + r
  BY Quotient
<1>2. PICK y \in Nat, s \in Nat : y = x \div p /\ s = x % p /\ s < p /\ x = y * p + s
  BY Quotient
<1>3. s * b + r \in Nat /\ b * p \in Nat \ {0}
  OBVIOUS
<1>4. n = y * (b * p) + (s * b + r)
  <2>1. x * b = (y * p) * b + s * b
    BY <1>2
  <2>2. (y * p) * b = y * (b * p)
    OBVIOUS
  <2> QED BY <2>1, <2>2, <1>1
<1>5. s * b + r < b * p
  <2>1. s + 1 <= p
    BY <1>2
  <2>2. (s + 1) * b <= p * b
    BY <2>1
  <2>3. (s + 1) * b = s * b + b
    OBVIOUS
  <2> QED BY <2>2, <2>3, <1>1
<1>6. n \div (b * p) = y
  BY <1>3, <1>4, <1>5, QuotientIs
<1> QED BY <1>1, <1>2, <1>6

\* Comparing with a quotient.
LEMMA QuotientLess ==
    ASSUME NEW n \in Nat, NEW b \in Nat \ {0}, NEW p \in Nat
    PROVE  n < b * p <=> n \div b < p
<1>1. PICK x \in Nat, r \in Nat : x = n \div b /\ r = n % b /\ r < b /\ n = x * b + r
  BY Quotient
<1>2. ASSUME x < p PROVE n < b * p
  <2>1. (x + 1) * b <= p * b
    BY <1>2
  <2>2. (x + 1) * b = x * b + b
    OBVIOUS
  <2> QED BY <2>1, <2>2, <1>1
<1>3. ASSUME ~(x < p) PROVE ~(n < b * p)
  <2>1. p * b <= x * b
    BY <1>3
  <2> QED BY <2>1, <1>1
<1> QED BY <1>1, <1>2, <1>3

IsPlaces(k, n, b) ==
    k \in 1..TempSize /\ Power(b, k) > n /\ (k = 1 \/ Power(b, k - 1) <= n)

\* A number has one number of places.
LEMMA PlacesUnique ==
    ASSUME NEW b \in Nat \ {0}, NEW n \in Nat, NEW k, NEW l, IsPlaces(k, n, b), IsPlaces(l, n, b)
    PROVE  k = l
<1>1. ASSUME NEW x, NEW y, IsPlaces(x, n, b), IsPlaces(y, n, b) PROVE ~(x < y)
  <2>1. SUFFICES ASSUME x < y PROVE FALSE
    OBVIOUS
  <2>2. x \in Nat /\ y \in Nat /\ x >= 1 /\ y >= 1
    BY <1>1, BitsAssumption DEF IsPlaces
  <2>3. y # 1 /\ y - 1 \in Nat /\ x <= y - 1
    BY <2>1, <2>2
  <2>4. Power(b, y - 1) <= n /\ Power(b, x) > n
    BY <1>1, <2>3 DEF IsPlaces
  <2>5. Power(b, x) <= Power(b, y - 1)
    BY <2>2, <2>3, PowerGrows
  <2>6. Power(b, x) \in Nat /\ Power(b, y - 1) \in Nat
    BY <2>2, <2>3, PowerSteps
  <2> QED BY <2>4, <2>5, <2>6
<1>2. k \in Int /\ l \in Int
  BY BitsAssumption DEF IsPlaces
<1>3. ~(k < l) /\ ~(l < k)
  BY <1>1
<1> QED BY <1>2, <1>3

\* Numbers that temp[] has room for.
Small(n) == n \in Nat /\ n < Power(10, TempSize)

\* A number that fits in temp[] has places, and Places finds them.
LEMMA PlacesFacts ==
    ASSUME NEW b \in {10, 16}, NEW n, Small(n)
    PROVE  IsPlaces(Places(n, b), n, b)
<1>0. TempSize \in Nat /\ n \in Nat /\ b \in Nat \ {0} /\ 10 <= b
  BY BitsAssumption DEF Small
<1>1. TempSize # 0
  <2>1. Power(2, LongBits) >= 2 /\ Power(2, LongBits) \in Nat
    <3>1. LongBits \in Nat /\ LongBits - 1 \in Nat /\ (LongBits - 1) + 1 = LongBits
      BY BitsAssumption
    <3>2. PICK x \in Nat : x = Power(2, LongBits - 1)
      BY <3>1, PowerSteps
    <3>3. x >= 1
      BY <3>1, <3>2, PowerGrows
    <3>4. Power(2, LongBits) = 2 * x
      BY <3>1, <3>2, PowerSteps
    <3> QED BY <3>3, <3>4
  <2>2. Power(10, 0) = 1
    BY PowerSteps
  <2>3. Power(10, TempSize) >= 2
    <3>1. Power(10, TempSize) \in Nat /\ Power(2, LongBits) <= Power(10, TempSize)
      BY <1>0, PowerSteps, BitsAssumption
    <3> QED BY <2>1, <3>1
  <2> QED BY <2>2, <2>3
<1> DEFINE S == {k \in 1..TempSize : Power(b, k) > n}
<1>2. TempSize \in S
  <2>1. /\ Power(10, TempSize) \in Nat /\ Power(b, TempSize) \in Nat
        /\ Power(10, TempSize) <= Power(b, TempSize)
    BY <1>0, PowerSteps, PowerOfLarger
  <2> QED BY <2>1, <1>0, <1>1 DEF Small
<1>3. PICK k \in S : \A l \in S : k <= l
  <2>1. S \in SUBSET Nat /\ S # {}
    BY <1>2
  <2> QED BY <2>1, LeastNumber, Zenon
<1>4. IsPlaces(k, n, b)
  <2>1. k \in 1..TempSize /\ Power(b, k) > n
    BY <1>3
  <2>2. ASSUME k # 1 PROVE Power(b, k - 1) <= n
    <3>1. k - 1 \in 1..TempSize /\ k - 1 < k /\ k - 1 \in Nat
      BY <2>1, <2>2, <1>0
    <3>2. k - 1 \notin S
      BY <1>3, <3>1
    <3>3. ~(Power(b, k - 1) > n)
      BY <3>1, <3>2
    <3>4. Power(b, k - 1) \in Nat
      BY <3>1, <1>0, PowerSteps
    <3> QED BY <3>3, <3>4, <1>0
  <2> QED BY <2>1, <2>2 DEF IsPlaces
<1>5. \E l \in 1..TempSize : Power(b, l) > n /\ (l = 1 \/ Power(b, l - 1) <= n)
  BY <1>4 DEF IsPlaces
<1> QED BY <1>5, Zenon DEF IsPlaces, Places

\* The digits by their places.
DigitsOf(n, b) == [j \in 1..Places(n, b) |-> (n \div Power(b, Places(n, b) - j)) % b]

\* A number below the base is its own digit.
LEMMA OneDigit ==
    ASSUME NEW b \in {10, 16}, NEW n, Small(n), n < b
    PROVE  DigitsOf(n, b) = <<n>>
<1>0. n \in Nat /\ b \in Nat \ {0} /\ TempSize \in Nat
  BY BitsAssumption DEF Small
<1>1. IsPlaces(Places(n, b), n, b)
  BY PlacesFacts
<1>2. Power(b, 0) = 1 /\ Power(b, 0 + 1) = b * Power(b, 0)
  BY <1>0, PowerSteps
<1>3. Power(b, 1) = b
  BY <1>0, <1>2
<1>4. IsPlaces(1, n, b)
  <2>1. 1 \in 1..TempSize
    BY <1>0, <1>1 DEF IsPlaces
  <2> QED BY <2>1, <1>3, <1>0 DEF IsPlaces
<1>5. Places(n, b) = 1
  BY <1>0, <1>1, <1>4, PlacesUnique
<1>6. DigitsOf(n, b) = [j \in 1..1 |-> (n \div Power(b, 1 - j)) % b]
  BY <1>5 DEF DigitsOf
<1>7. (n \div 1) % b = n
  BY <1>0
<1>8. \A j \in 1..1 : (n \div Power(b, 1 - j)) % b = n
  BY <1>2, <1>7
<1>9. DigitsOf(n, b) = [j \in 1..1 |-> n]
  BY <1>6, <1>8
<1> QED BY <1>9

\* Any other number is the digits of its quotient and its remainder: one turn of
\* the do-while loop.
LEMMA MoreDigits ==
    ASSUME NEW b \in {10, 16}, NEW n, Small(n), ~(n < b)
    PROVE  /\ Small(n \div b) /\ n \div b < n
           /\ DigitsOf(n, b) = Append(DigitsOf(n \div b, b), n % b)
<1>0. n \in Nat /\ b \in Nat \ {0} /\ TempSize \in Nat /\ n >= b /\ b >= 2
  BY BitsAssumption DEF Small
<1>1. PICK x \in Nat, r \in Nat : x = n \div b /\ r = n % b /\ r < b /\ n = x * b + r
  BY <1>0, Quotient
<1>2. x < n
  <2>1. x * 2 <= x * b
    BY <1>0
  <2> QED BY <2>1, <1>0, <1>1
<1>3. Small(x)
  BY <1>0, <1>1, <1>2, PowerSteps DEF Small
<1>4. PICK k : k = Places(n, b)
  OBVIOUS
<1>5. IsPlaces(k, n, b)
  BY <1>4, PlacesFacts
<1>6. k \in Nat /\ k \in 1..TempSize
  BY <1>0, <1>5 DEF IsPlaces
<1>7. Power(b, 0) = 1 /\ Power(b, 0 + 1) = b * Power(b, 0)
  BY <1>0, PowerSteps
<1>8. Power(b, 1) = b
  BY <1>0, <1>7
<1>9. k # 1
  BY <1>0, <1>5, <1>8 DEF IsPlaces
<1>10. k - 1 \in Nat /\ k - 1 \in 1..TempSize /\ (k - 1) + 1 = k
  BY <1>0, <1>6, <1>9
<1>11. IsPlaces(k - 1, x, b)
  <2>1. PICK p \in Nat : p = Power(b, k - 1)
    BY <1>0, <1>10, PowerSteps
  <2>2. Power(b, k) = b * p
    BY <2>1, <1>0, <1>10, PowerSteps
  <2>3. n < b * p
    BY <2>2, <1>0, <1>5 DEF IsPlaces
  <2>4. x < p
    BY <2>3, <1>0, <1>1, QuotientLess
  <2>5. ASSUME k - 1 # 1 PROVE Power(b, (k - 1) - 1) <= x
    <3>1. (k - 1) - 1 \in Nat /\ ((k - 1) - 1) + 1 = k - 1
      BY <2>5, <1>10
    <3>2. PICK q \in Nat : q = Power(b, (k - 1) - 1)
      BY <3>1, <1>0, PowerSteps
    <3>3. p = b * q
      BY <3>1, <3>2, <2>1, <1>0, PowerSteps
    <3>4. p <= n
      BY <2>1, <1>5, <1>9 DEF IsPlaces
    <3>5. ~(n < b * q)
      BY <3>3, <3>4, <1>0
    <3>6. ~(x < q)
      BY <3>5, <1>0, <1>1, QuotientLess
    <3> QED BY <3>2, <3>6
  <2> QED BY <2>1, <2>4, <2>5, <1>10 DEF IsPlaces
<1>12. Places(x, b) = k - 1
  <2>1. IsPlaces(Places(x, b), x, b)
    BY <1>3, PlacesFacts
  <2> QED BY <2>1, <1>0, <1>11, PlacesUnique
<1>13. PICK d : d = DigitsOf(x, b)
  OBVIOUS
<1>14. d = [j \in 1..(k - 1) |-> (x \div Power(b, (k - 1) - j)) % b]
  BY <1>12, <1>13 DEF DigitsOf
<1>15. PICK e : e = DigitsOf(n, b)
  OBVIOUS
<1>16. e = [j \in 1..k |-> (n \div Power(b, k - j)) % b]
  BY <1>4, <1>15 DEF DigitsOf
<1>17. ASSUME NEW j \in 1..(k - 1) PROVE e[j] = d[j]
  <2>1. j \in 1..k /\ (k - 1) - j \in Nat /\ ((k - 1) - j) + 1 = k - j
    BY <1>10
  <2>2. PICK p \in Nat : p = Power(b, (k - 1) - j)
    BY <2>1, <1>0, PowerSteps
  <2>3. p >= 1
    BY <2>1, <2>2, <1>0, PowerGrows
  <2>4. Power(b, k - j) = b * p
    BY <2>1, <2>2, <1>0, PowerSteps
  <2>5. n \div (b * p) = x \div p
    <3>1. p \in Nat \ {0}
      BY <2>3
    <3>2. n \div (b * p) = (n \div b) \div p
      BY <3>1, <1>0, QuotientTwice
    <3> QED BY <3>2, <1>1
  <2>6. e[j] = (n \div Power(b, k - j)) % b /\ d[j] = (x \div p) % b
    BY <2>1, <2>2, <1>14, <1>16
  <2> QED BY <2>4, <2>5, <2>6
<1>18. e[k] = r
  <2>1. k \in 1..k /\ k - k = 0
    BY <1>6
  <2>2. e[k] = (n \div 1) % b
    BY <2>1, <1>7, <1>16
  <2>3. n \div 1 = n
    BY <1>0
  <2> QED BY <2>2, <2>3, <1>1
<1>19. e = Append(d, r)
  <2>1. \A j \in 1..(k - 1) : d[j] \in Int
    <3> TAKE j \in 1..(k - 1)
    <3>1. (k - 1) - j \in Nat
      BY <1>10
    <3>2. PICK p \in Nat : p = Power(b, (k - 1) - j)
      BY <3>1, <1>0, PowerSteps
    <3>3. p >= 1
      BY <3>1, <3>2, <1>0, PowerGrows
    <3>4. x \div p \in Nat
      BY <3>3, Quotient
    <3>5. (x \div p) % b \in Int
      BY <3>4, <1>0, Quotient
    <3> QED BY <3>2, <3>5, <1>14
  <2>2. d \in Seq(Int) /\ Len(d) = k - 1
    BY <2>1, <1>10, <1>14
  <2>3. PICK f : f = Append(d, r)
    OBVIOUS
  <2>4. f = [j \in 1..k |-> IF j = k THEN r ELSE d[j]]
    <3>1. f \in Seq(Int) /\ Len(f) = k
      BY <2>2, <2>3, <1>10
    <3>2. f = [j \in 1..k |-> f[j]]
      BY <3>1
    <3>3. f[k] = r /\ \A j \in 1..(k - 1) : f[j] = d[j]
      BY <2>2, <2>3, <1>10
    <3>4. \A j \in 1..k : f[j] = IF j = k THEN r ELSE d[j]
      BY <3>3, <1>6
    <3> QED BY <3>2, <3>4
  <2>5. \A j \in 1..k : e[j] = IF j = k THEN r ELSE d[j]
    <3> TAKE j \in 1..k
    <3>1. CASE j = k
      BY <3>1, <1>18
    <3>2. CASE j # k
      <4>1. j \in 1..(k - 1)
        BY <3>2, <1>6
      <4> QED BY <4>1, <3>2, <1>17
    <3> QED BY <3>1, <3>2
  <2> QED BY <2>3, <2>4, <2>5, <1>16
<1> QED BY <1>1, <1>2, <1>3, <1>13, <1>15, <1>19

IsDigits(f, n, b) ==
    f = [m \in 0..n |-> IF m < b THEN <<m>> ELSE Append(f[m \div b], m % b)]

\* The recursive function of Digits exists.
LEMMA DigitsExists ==
    ASSUME NEW b \in {10, 16}, NEW n, Small(n)
    PROVE  \E f : IsDigits(f, n, b)
<1>0. n \in Nat /\ b \in Nat \ {0}
  BY DEF Small
<1>1. \A m \in 0..n : Small(m)
  BY <1>0, BitsAssumption, PowerSteps DEF Small
<1> DEFINE f == [m \in 0..n |-> DigitsOf(m, b)]
<1>2. ASSUME NEW m \in 0..n PROVE f[m] = IF m < b THEN <<m>> ELSE Append(f[m \div b], m % b)
  <2>1. Small(m) /\ f[m] = DigitsOf(m, b)
    BY <1>1
  <2>2. CASE m < b
    BY <2>1, <2>2, OneDigit
  <2>3. CASE ~(m < b)
    <3>1. Small(m \div b) /\ m \div b < m /\ DigitsOf(m, b) = Append(DigitsOf(m \div b, b), m % b)
      BY <2>1, <2>3, MoreDigits
    <3>2. m \div b \in 0..n
      BY <3>1, <1>0 DEF Small
    <3>3. f[m \div b] = DigitsOf(m \div b, b)
      BY <3>2
    <3> QED BY <2>1, <2>3, <3>1, <3>3
  <2> QED BY <2>2, <2>3
<1>3. f = [m \in 0..n |-> IF m < b THEN <<m>> ELSE Append(f[m \div b], m % b)]
  <2>1. f = [m \in 0..n |-> f[m]]
    OBVIOUS
  <2> HIDE DEF f
  <2> QED BY <2>1, <1>2
<1> HIDE DEF f
<1>4. IsDigits(f, n, b)
  BY <1>3, Zenon DEF IsDigits
<1> QED BY <1>4, Zenon

\* The do-while loop of mgx_sprintf_num finds the digits by their places.
LEMMA DigitsCorrect ==
    ASSUME NEW b \in {10, 16}, NEW n, Small(n)
    PROVE  Digits(n, b) = DigitsOf(n, b)
<1>0. n \in Nat /\ b \in Nat \ {0}
  BY DEF Small
<1>1. \A m \in 0..n : Small(m)
  BY <1>0, BitsAssumption, PowerSteps DEF Small
<1> DEFINE f == CHOOSE g : IsDigits(g, n, b)
<1>2. IsDigits(f, n, b)
  BY DigitsExists, Zenon
<1>3. Digits(n, b) = f[n]
  BY Zenon DEF Digits, IsDigits
<1> HIDE DEF f
<1>4. \A m \in 0..n : f[m] = IF m < b THEN <<m>> ELSE Append(f[m \div b], m % b)
  BY <1>2 DEF IsDigits
<1> DEFINE C == {m \in 0..n : f[m] # DigitsOf(m, b)}
<1>5. C = {}
  <2>1. SUFFICES ASSUME C # {} PROVE FALSE
    OBVIOUS
  <2>2. PICK m \in C : \A k \in C : m <= k
    <3>1. C \in SUBSET Nat
      OBVIOUS
    <3> QED BY <3>1, <2>1, LeastNumber, Zenon
  <2>3. m \in 0..n /\ f[m] # DigitsOf(m, b) /\ Small(m) /\ m \in Nat
    BY <1>1
  <2>4. CASE m < b
    BY <2>3, <2>4, <1>4, OneDigit
  <2>5. CASE ~(m < b)
    <3>1. Small(m \div b) /\ m \div b < m /\ DigitsOf(m, b) = Append(DigitsOf(m \div b, b), m % b)
      BY <2>3, <2>5, MoreDigits
    <3>2. m \div b \in 0..n /\ m \div b \in Nat
      BY <2>3, <3>1, <1>0 DEF Small
    <3>3. m \div b \notin C
      BY <2>2, <2>3, <3>1, <3>2
    <3>4. f[m \div b] = DigitsOf(m \div b, b)
      BY <3>2, <3>3
    <3> QED BY <2>3, <2>5, <3>1, <3>4, <1>4
  <2> QED BY <2>4, <2>5
<1>6. n \in 0..n
  BY <1>0
<1>7. f[n] = DigitsOf(n, b)
  BY <1>5, <1>6
<1> QED BY <1>3, <1>7

-----------------------------------------------------------------------------
(* Sequences that are cut. *)

\* Sequences with the same elements are the same.
LEMMA SameSeq ==
    ASSUME NEW T, NEW s \in Seq(T), NEW t \in Seq(T), Len(s) = Len(t),
           \A k \in 1..Len(s) : s[k] = t[k]
    PROVE  s = t
OBVIOUS

\* The elements of a concatenation.
LEMMA Concat ==
    ASSUME NEW T, NEW s \in Seq(T), NEW t \in Seq(T)
    PROVE  /\ s \o t \in Seq(T) /\ Len(s \o t) = Len(s) + Len(t)
           /\ Len(s) \in Nat /\ Len(t) \in Nat
           /\ \A k \in 1..Len(s) : (s \o t)[k] = s[k]
           /\ \A k \in 1..Len(t) : (s \o t)[Len(s) + k] = t[k]
OBVIOUS

\* The empty sequence is neutral for concatenation.
LEMMA Empty ==
    ASSUME NEW T, NEW s \in Seq(T)
    PROVE  s \o <<>> = s /\ <<>> \o s = s
OBVIOUS

\* Append is a concatenation.
LEMMA AppendIs ==
    ASSUME NEW T, NEW s \in Seq(T), NEW x \in T
    PROVE  Append(s, x) = s \o <<x>> /\ <<x>> \in Seq(T) /\ Len(<<x>>) = 1
OBVIOUS

\* The elements of a cut sequence.
LEMMA CutFacts ==
    ASSUME NEW T, NEW s \in Seq(T), NEW n \in Nat
    PROVE  /\ Cut(s, n) \in Seq(T) /\ Len(s) \in Nat
           /\ Len(Cut(s, n)) = IF Len(s) < n THEN Len(s) ELSE n
           /\ \A k \in 1..Len(Cut(s, n)) : Cut(s, n)[k] = s[k]
<1>1. PICK m : m = Min2(Len(s), n)
  OBVIOUS
<1>2. m \in Nat /\ m <= Len(s) /\ m = IF Len(s) < n THEN Len(s) ELSE n
  BY <1>1 DEF Min2
<1>3. PICK c : c = SubSeq(s, 1, m)
  OBVIOUS
<1>4. c \in Seq(T) /\ Len(c) = m /\ \A k \in 1..m : c[k] = s[k]
  BY <1>2, <1>3
<1>5. Cut(s, n) = c
  BY <1>1, <1>3 DEF Cut
<1> QED BY <1>2, <1>4, <1>5

\* A sequence that fits is not cut.
LEMMA CutShort ==
    ASSUME NEW T, NEW s \in Seq(T), NEW n \in Nat, Len(s) <= n
    PROVE  Cut(s, n) = s
<1>1. /\ Cut(s, n) \in Seq(T) /\ Len(Cut(s, n)) = Len(s)
      /\ \A k \in 1..Len(Cut(s, n)) : Cut(s, n)[k] = s[k]
  BY CutFacts
<1> QED BY <1>1, SameSeq

\* What is added to a full buffer is lost.
LEMMA CutLong ==
    ASSUME NEW T, NEW s \in Seq(T), NEW t \in Seq(T), NEW n \in Nat, Len(s) >= n
    PROVE  Cut(s \o t, n) = Cut(s, n)
<1>1. PICK u : u = s \o t
  OBVIOUS
<1>2. /\ u \in Seq(T) /\ Len(u) = Len(s) + Len(t) /\ Len(s) \in Nat /\ Len(t) \in Nat
      /\ \A k \in 1..Len(s) : u[k] = s[k]
  BY <1>1, Concat
<1>3. PICK c : c = Cut(u, n)
  OBVIOUS
<1>4. PICK d : d = Cut(s, n)
  OBVIOUS
<1>5. c \in Seq(T) /\ Len(c) = n /\ \A k \in 1..n : c[k] = u[k]
  <2>1. /\ Cut(u, n) \in Seq(T) /\ Len(Cut(u, n)) = IF Len(u) < n THEN Len(u) ELSE n
        /\ \A k \in 1..Len(Cut(u, n)) : Cut(u, n)[k] = u[k]
    BY <1>2, CutFacts
  <2>2. ~(Len(u) < n)
    BY <1>2
  <2> QED BY <2>1, <2>2, <1>3
<1>6. d \in Seq(T) /\ Len(d) = n /\ \A k \in 1..n : d[k] = s[k]
  <2>1. /\ Cut(s, n) \in Seq(T) /\ Len(Cut(s, n)) = IF Len(s) < n THEN Len(s) ELSE n
        /\ \A k \in 1..Len(Cut(s, n)) : Cut(s, n)[k] = s[k]
    BY CutFacts
  <2>2. ~(Len(s) < n)
    BY <1>2
  <2> QED BY <2>1, <2>2, <1>4
<1>7. \A k \in 1..n : c[k] = d[k]
  BY <1>2, <1>5, <1>6, SMTT(30)
<1>8. c = d
  BY <1>5, <1>6, <1>7, SameSeq
<1> QED BY <1>1, <1>3, <1>4, <1>8

\* What is added to a buffer with room is cut to that room.
LEMMA CutRest ==
    ASSUME NEW T, NEW s \in Seq(T), NEW t \in Seq(T), NEW n \in Nat, Len(s) <= n
    PROVE  Cut(s \o t, n) = s \o Cut(t, n - Len(s)) /\ n - Len(s) \in Nat
<1>0. Len(s) \in Nat /\ Len(t) \in Nat
  OBVIOUS
<1>1. PICK r \in Nat : r = n - Len(s)
  BY <1>0
<1>2. PICK u : u = s \o t
  OBVIOUS
<1>3. /\ u \in Seq(T) /\ Len(u) = Len(s) + Len(t)
      /\ \A k \in 1..Len(s) : u[k] = s[k]
      /\ \A k \in 1..Len(t) : u[Len(s) + k] = t[k]
  BY <1>2, Concat
<1>4. PICK c : c = Cut(u, n)
  OBVIOUS
<1>5. PICK d : d = Cut(t, r)
  OBVIOUS
<1>6. /\ c \in Seq(T) /\ Len(c) = IF Len(u) < n THEN Len(u) ELSE n
      /\ \A k \in 1..Len(c) : c[k] = u[k]
  BY <1>3, <1>4, CutFacts
<1>7. /\ d \in Seq(T) /\ Len(d) = IF Len(t) < r THEN Len(t) ELSE r
      /\ \A k \in 1..Len(d) : d[k] = t[k]
  BY <1>1, <1>5, CutFacts
<1>8. PICK e : e = s \o d
  OBVIOUS
<1>9. /\ e \in Seq(T) /\ Len(e) = Len(s) + Len(d) /\ Len(d) \in Nat
      /\ \A k \in 1..Len(s) : e[k] = s[k]
      /\ \A k \in 1..Len(d) : e[Len(s) + k] = d[k]
  <2>1. d \in Seq(T)
    BY <1>7
  <2> QED BY <2>1, <1>8, Concat
<1>10. Len(c) = Len(e) /\ Len(d) <= Len(t) /\ Len(c) <= Len(u) /\ Len(c) = Len(s) + Len(d)
  <2>1. PICK ls \in Nat, lt \in Nat : ls = Len(s) /\ lt = Len(t)
    BY <1>0
  <2>2. Len(u) = ls + lt /\ r = n - ls
    BY <2>1, <1>1, <1>3
  <2>3. Len(c) = (IF ls + lt < n THEN ls + lt ELSE n) /\ Len(d) = (IF lt < r THEN lt ELSE r)
    BY <2>1, <2>2, <1>6, <1>7
  <2>4. Len(e) = ls + Len(d)
    BY <2>1, <1>9
  <2>5. Len(c) = ls + Len(d) /\ Len(d) <= lt /\ Len(c) <= ls + lt
    BY <2>2, <2>3
  <2> QED BY <2>1, <2>2, <2>4, <2>5
<1>11. ASSUME NEW k \in 1..Len(c) PROVE c[k] = e[k]
  <2>1. CASE k \in 1..Len(s)
    BY <2>1, <1>3, <1>6, <1>9
  <2>2. CASE k \notin 1..Len(s)
    <3>1. PICK l : l = k - Len(s)
      OBVIOUS
    <3>2. l \in 1..Len(d) /\ l \in 1..Len(t) /\ k = Len(s) + l
      BY <2>2, <3>1, <1>0, <1>9, <1>10
    <3>3. e[k] = d[l] /\ d[l] = t[l] /\ u[k] = t[l]
      BY <3>2, <1>3, <1>7, <1>9
    <3> QED BY <3>3, <1>6
  <2> QED BY <2>1, <2>2
<1>12. c = e
  BY <1>6, <1>9, <1>10, <1>11, SameSeq
<1> QED BY <1>0, <1>1, <1>2, <1>4, <1>5, <1>8, <1>12

\* Of two cuts the shorter one counts.
LEMMA CutTwice ==
    ASSUME NEW T, NEW s \in Seq(T), NEW m \in Nat, NEW n \in Nat, m <= n
    PROVE  Cut(Cut(s, n), m) = Cut(s, m)
<1>1. PICK c : c = Cut(s, n)
  OBVIOUS
<1>2. /\ c \in Seq(T) /\ Len(s) \in Nat /\ Len(c) = IF Len(s) < n THEN Len(s) ELSE n
      /\ \A k \in 1..Len(c) : c[k] = s[k]
  BY <1>1, CutFacts
<1>3. PICK d : d = Cut(c, m)
  OBVIOUS
<1>4. PICK e : e = Cut(s, m)
  OBVIOUS
<1>5. /\ d \in Seq(T) /\ Len(d) = IF Len(c) < m THEN Len(c) ELSE m
      /\ \A k \in 1..Len(d) : d[k] = c[k]
  BY <1>2, <1>3, CutFacts
<1>6. /\ e \in Seq(T) /\ Len(e) = IF Len(s) < m THEN Len(s) ELSE m
      /\ \A k \in 1..Len(e) : e[k] = s[k]
  BY <1>4, CutFacts
<1>7. Len(d) = Len(e) /\ Len(d) <= Len(c) /\ Len(d) \in Nat
  BY <1>2, <1>5, <1>6
<1>8. \A k \in 1..Len(d) : d[k] = e[k]
  BY <1>2, <1>5, <1>6, <1>7
<1>9. d = e
  BY <1>5, <1>6, <1>7, <1>8, SameSeq
<1> QED BY <1>1, <1>3, <1>4, <1>9

\* What is behind the cut does not matter.
LEMMA CutJoin ==
    ASSUME NEW T, NEW s \in Seq(T), NEW t \in Seq(T), NEW n \in Nat
    PROVE  Cut(Cut(s, n) \o t, n) = Cut(s \o t, n)
<1>0. Len(s) \in Nat
  OBVIOUS
<1>1. CASE Len(s) <= n
  BY <1>1, CutShort
<1>2. CASE Len(s) >= n
  <2>1. PICK c : c = Cut(s, n)
    OBVIOUS
  <2>2. c \in Seq(T) /\ Len(c) = n
    BY <2>1, <1>0, <1>2, CutFacts
  <2>3. Cut(c \o t, n) = Cut(c, n)
    BY <2>2, CutLong
  <2>4. Cut(c, n) = c
    BY <2>2, CutShort
  <2>5. Cut(s \o t, n) = c
    BY <2>1, <1>2, CutLong
  <2> QED BY <2>1, <2>3, <2>4, <2>5
<1> QED BY <1>0, <1>1, <1>2

-----------------------------------------------------------------------------
(* Numbers. *)

Base(hex) == IF hex = "" THEN 10 ELSE 16
CharsOf(hex) == IF hex = "X" THEN Upper ELSE Lower

\* A tuple of sixteen is a sequence.
LEMMA Sixteen ==
    ASSUME NEW T, NEW c0 \in T, NEW c1 \in T, NEW c2 \in T, NEW c3 \in T, NEW c4 \in T,
           NEW c5 \in T, NEW c6 \in T, NEW c7 \in T, NEW c8 \in T, NEW c9 \in T,
           NEW ca \in T, NEW cb \in T, NEW cc \in T, NEW cd \in T, NEW ce \in T, NEW cf \in T
    PROVE  /\ <<c0, c1, c2, c3, c4, c5, c6, c7, c8, c9, ca, cb, cc, cd, ce, cf>> \in Seq(T)
           /\ Len(<<c0, c1, c2, c3, c4, c5, c6, c7, c8, c9, ca, cb, cc, cd, ce, cf>>) = 16
OBVIOUS

\* The digits are characters.
LEMMA CharsType ==
    ASSUME NEW hex
    PROVE  \A d \in 0..15 : CharsOf(hex)[d + 1] \in Char
<1>1. Lower \in Seq(Char) /\ Len(Lower) = 16
  <2>1. /\ "0" \in Char /\ "1" \in Char /\ "2" \in Char /\ "3" \in Char /\ "4" \in Char
        /\ "5" \in Char /\ "6" \in Char /\ "7" \in Char /\ "8" \in Char /\ "9" \in Char
        /\ "a" \in Char /\ "b" \in Char /\ "c" \in Char /\ "d" \in Char /\ "e" \in Char
        /\ "f" \in Char
    BY CharAssumption DEF OwnChars
  <2> QED BY <2>1, Sixteen, Zenon DEF Lower
<1>2. Upper \in Seq(Char) /\ Len(Upper) = 16
  <2>1. /\ "0" \in Char /\ "1" \in Char /\ "2" \in Char /\ "3" \in Char /\ "4" \in Char
        /\ "5" \in Char /\ "6" \in Char /\ "7" \in Char /\ "8" \in Char /\ "9" \in Char
        /\ "A" \in Char /\ "B" \in Char /\ "C" \in Char /\ "D" \in Char /\ "E" \in Char
        /\ "F" \in Char
    BY CharAssumption DEF OwnChars
  <2> QED BY <2>1, Sixteen, Zenon DEF Upper
<1>3. PICK c \in Seq(Char) : c = CharsOf(hex) /\ Len(c) = 16
  BY <1>1, <1>2 DEF CharsOf
<1>4. ASSUME NEW d \in 0..15 PROVE c[d + 1] \in Char
  <2>1. d + 1 \in 1..Len(c)
    BY <1>3
  <2> QED BY <2>1
<1> QED BY <1>3, <1>4

\* The digits that mgx_sprintf_num writes are those of the number.
LEMMA TempCorrect ==
    ASSUME NEW n, Small(n), NEW hex
    PROVE  /\ Temp(n, hex) = Numeral(n, Base(hex), CharsOf(hex))
           /\ Temp(n, hex) \in Seq(Char)
<1>0. PICK b \in {10, 16} : b = Base(hex)
  BY DEF Base
<1>1. PICK c : c = CharsOf(hex)
  OBVIOUS
<1>2. PICK k : k = Places(n, b)
  OBVIOUS
<1>3. k \in Nat
  <2>1. IsPlaces(k, n, b)
    BY <1>2, PlacesFacts
  <2> QED BY <2>1, BitsAssumption DEF IsPlaces
<1>4. PICK d : d = DigitsOf(n, b)
  OBVIOUS
<1>5. d = [j \in 1..k |-> (n \div Power(b, k - j)) % b]
  BY <1>2, <1>4 DEF DigitsOf
<1>6. ASSUME NEW j \in 1..k PROVE (n \div Power(b, k - j)) % b \in 0..15
  <2>1. k - j \in Nat /\ b \in Nat \ {0} /\ n \in Nat
    BY <1>3 DEF Small
  <2>2. PICK p \in Nat : p = Power(b, k - j)
    BY <2>1, PowerSteps
  <2>3. p >= 1
    BY <2>1, <2>2, PowerGrows
  <2>4. n \div p \in Nat
    BY <2>1, <2>3, Quotient
  <2>5. PICK x : x = n \div p
    OBVIOUS
  <2>6. x % b \in 0..15
    BY <2>4, <2>5
  <2> QED BY <2>2, <2>5, <2>6
<1>7. \A j \in 1..k : d[j] \in 0..15
  BY <1>5, <1>6
<1>8. d \in Seq(0..15) /\ Len(d) = k
  BY <1>3, <1>5, <1>7
<1>9. Digits(n, b) = d
  BY <1>4, DigitsCorrect
<1>10. Temp(n, hex) = [j \in 1..k |-> c[d[j] + 1]]
  <2>1. Temp(n, hex) = [j \in 1..Len(Digits(n, b)) |-> c[Digits(n, b)[j] + 1]]
    BY <1>0, <1>1 DEF Temp, Base, CharsOf
  <2> QED BY <2>1, <1>8, <1>9
<1>11. Numeral(n, b, c) = [j \in 1..k |-> c[((n \div Power(b, k - j)) % b) + 1]]
  BY <1>2 DEF Numeral
<1>12. Temp(n, hex) = Numeral(n, b, c)
  BY <1>5, <1>10, <1>11
<1>13. \A j \in 1..k : c[d[j] + 1] \in Char
  BY <1>1, <1>7, CharsType
<1>14. Temp(n, hex) \in Seq(Char)
  BY <1>3, <1>10, <1>13
<1> QED BY <1>0, <1>1, <1>12, <1>14

\* Padding,
LEMMA TimesFacts ==
    ASSUME NEW n \in Nat, NEW ch \in Char
    PROVE  /\ Times(n, ch) \in Seq(Char) /\ Len(Times(n, ch)) = n
           /\ \A k \in 1..n : Times(n, ch)[k] = ch
<1>1. PICK t : t = [k \in 1..n |-> ch]
  OBVIOUS
<1>2. \A k \in 1..n : t[k] \in Char
  BY <1>1
<1>3. t \in [1..n -> Char]
  BY <1>1, <1>2
<1>4. t \in Seq(Char) /\ Len(t) = n
  BY <1>1, <1>3
<1>5. Times(n, ch) = t
  BY <1>1 DEF Times
<1> QED BY <1>1, <1>4, <1>5

\* ... cut,
LEMMA CutTimes ==
    ASSUME NEW m \in Nat, NEW n \in Nat, m <= n, NEW ch \in Char
    PROVE  Cut(Times(n, ch), m) = Times(m, ch)
<1>1. PICK s : s = Times(n, ch)
  OBVIOUS
<1>2. s \in Seq(Char) /\ Len(s) = n /\ \A k \in 1..n : s[k] = ch
  BY <1>1, TimesFacts
<1>3. PICK t : t = Times(m, ch)
  OBVIOUS
<1>4. t \in Seq(Char) /\ Len(t) = m /\ \A k \in 1..m : t[k] = ch
  BY <1>3, TimesFacts
<1>5. PICK c : c = Cut(s, m)
  OBVIOUS
<1>6. c \in Seq(Char) /\ Len(c) = m /\ \A k \in 1..m : c[k] = s[k]
  <2>1. /\ c \in Seq(Char) /\ Len(c) = IF Len(s) < m THEN Len(s) ELSE m
        /\ \A k \in 1..Len(c) : c[k] = s[k]
    BY <1>2, <1>5, CutFacts
  <2>2. ~(Len(s) < m)
    BY <1>2
  <2> QED BY <2>1, <2>2
<1>7. \A k \in 1..m : c[k] = t[k]
  BY <1>2, <1>4, <1>6
<1>8. c = t
  BY <1>4, <1>6, <1>7, SameSeq
<1> QED BY <1>1, <1>3, <1>5, <1>8

\* ... and in front of a number.
LEMMA PaddedType ==
    ASSUME NEW s \in Seq(Char), NEW width \in Nat, NEW ch \in Char
    PROVE  Padded(s, width, ch) \in Seq(Char)
<1>1. PICK f : f = IF width > Len(s) THEN width - Len(s) ELSE 0
  OBVIOUS
<1>2. f \in Nat
  <2>1. PICK l \in Nat : l = Len(s)
    OBVIOUS
  <2> QED BY <1>1, <2>1
<1>3. Times(f, ch) \in Seq(Char)
  BY <1>2, TimesFacts
<1>4. Padded(s, width, ch) = Times(f, ch) \o s
  BY <1>1 DEF Padded
<1> QED BY <1>3, <1>4, Concat

\* mgx_sprintf_num writes the padded number, as far as the buffer goes.
LEMMA SprintfNum ==
    ASSUME NEW out \in Seq(Char), NEW last \in Nat, Len(out) <= last, NEW n, Small(n),
           NEW zero \in Char, NEW hex, NEW width \in Nat
    PROVE  /\ sprintf_num(out, last, n, zero, hex, width)
                = Cut(out \o Padded(Numeral(n, Base(hex), CharsOf(hex)), width, zero), last)
           /\ Numeral(n, Base(hex), CharsOf(hex)) \in Seq(Char)
<1>1. PICK t : t = Temp(n, hex)
  OBVIOUS
<1>2. t = Numeral(n, Base(hex), CharsOf(hex)) /\ t \in Seq(Char)
  BY <1>1, TempCorrect
<1>3. Len(out) \in Nat /\ Len(t) \in Nat
  BY <1>2
<1>4. PICK f : f = IF width > Len(t) THEN width - Len(t) ELSE 0
  OBVIOUS
<1>5. f \in Nat
  BY <1>3, <1>4
<1>6. PICK g : g = last - Len(out)
  OBVIOUS
<1>7. g \in Nat
  BY <1>3, <1>6
<1>8. PICK p : p = IF f < g THEN f ELSE g
  OBVIOUS
<1>9. p \in Nat /\ p <= f /\ p <= g
  BY <1>5, <1>7, <1>8
<1>10. sprintf_num(out, last, n, zero, hex, width) = (out \o Times(p, zero)) \o Cut(t, g - p)
  <2>1. p = IF width > Len(t) THEN Min2(width - Len(t), g) ELSE 0
    BY <1>3, <1>4, <1>7, <1>8 DEF Min2
  <2> QED BY <2>1, <1>1, <1>6 DEF sprintf_num, Cut
<1>11. PICK z : z = Times(p, zero)
  OBVIOUS
<1>12. z \in Seq(Char) /\ Len(z) = p
  BY <1>9, <1>11, TimesFacts
<1>13. PICK y : y = Times(f, zero)
  OBVIOUS
<1>14. y \in Seq(Char) /\ Len(y) = f
  BY <1>5, <1>13, TimesFacts
<1>15. Padded(t, width, zero) = y \o t
  BY <1>4, <1>13 DEF Padded
<1>16. out \o (y \o t) = (out \o y) \o t
  <2>1. t \in Seq(Char) /\ y \in Seq(Char)
    BY <1>2, <1>14
  <2> QED BY <2>1
<1>17. PICK u : u = out \o y
  OBVIOUS
<1>18. u \in Seq(Char) /\ Len(u) = Len(out) + f
  BY <1>14, <1>17, Concat
<1>19. CASE f <= g
  <2>1. p = f
    BY <1>5, <1>7, <1>8, <1>19
  <2>2. z = y
    BY <2>1, <1>11, <1>13
  <2>3. Len(u) <= last /\ last - Len(u) = g - p
    BY <2>1, <1>3, <1>5, <1>6, <1>18, <1>19
  <2>4. Cut(u \o t, last) = u \o Cut(t, last - Len(u))
    BY <2>3, <1>2, <1>18, CutRest
  <2> QED BY <2>2, <2>3, <2>4, <1>2, <1>10, <1>11, <1>15, <1>16, <1>17
<1>20. CASE ~(f <= g)
  <2>1. p = g /\ g <= f
    BY <1>5, <1>7, <1>8, <1>20
  <2>2. Len(u) >= last
    BY <2>1, <1>3, <1>5, <1>6, <1>18
  <2>3. Cut(u \o t, last) = Cut(u, last)
    BY <2>2, <1>2, <1>18, CutLong
  <2>4. Cut(u, last) = out \o Cut(y, last - Len(out))
    BY <1>14, <1>17, CutRest
  <2>5. Cut(y, g) = z
    BY <2>1, <1>5, <1>7, <1>11, <1>13, CutTimes
  <2>6. Cut(t, g - p) = <<>>
    <3>1. g - p = 0
      BY <2>1, <1>7
    <3>2. Cut(t, 0) \in Seq(Char) /\ Len(Cut(t, 0)) = 0
      BY <1>2, <1>3, CutFacts
    <3> QED BY <3>1, <3>2
  <2>7. out \o z \in Seq(Char)
    BY <1>12, Concat
  <2>8. (out \o z) \o <<>> = out \o z
    BY <2>7, Empty
  <2> QED BY <2>3, <2>4, <2>5, <2>6, <2>8, <1>2, <1>6, <1>10, <1>11, <1>15, <1>16, <1>17
<1> QED BY <1>2, <1>19, <1>20

-----------------------------------------------------------------------------
(* Directives. *)

\* Numbers of the width of a long have room in temp[].
LEMMA LongIsSmall ==
    ASSUME NEW n \in Nat, n < Power(2, LongBits)
    PROVE  Small(n)
<1>1. Power(2, LongBits) \in Nat /\ Power(10, TempSize) \in Nat
  BY BitsAssumption, PowerSteps
<1>2. Power(2, LongBits) <= Power(10, TempSize)
  BY BitsAssumption
<1> QED BY <1>1, <1>2 DEF Small

\* Half of a power of two.
LEMMA Halves ==
    ASSUME NEW b \in Nat \ {0}
    PROVE  /\ Power(2, b - 1) \in Nat /\ Power(2, b - 1) >= 1
           /\ Power(2, b) \in Nat /\ Power(2, b) = 2 * Power(2, b - 1)
<1>1. PICK c \in Nat : c = b - 1
  OBVIOUS
<1>2. Power(2, c) \in Nat /\ Power(2, c + 1) = 2 * Power(2, c)
  BY PowerSteps
<1>3. Power(2, c) >= 1
  BY PowerGrows
<1>4. c + 1 = b
  BY <1>1
<1> QED BY <1>1, <1>2, <1>3, <1>4

\* A character.
LEMMA OneCorrect ==
    ASSUME NEW out \in Seq(Char), NEW last \in Nat, Len(out) < last,
           NEW d \in DirectiveSet, d.t = "one"
    PROVE  /\ Directive(out, last, d) = Cut(out \o TextOf(d), last)
           /\ TextOf(d) \in Seq(Char)
<1>1. PICK ch \in Char : ch = d.ch
  BY DEF DirectiveSet
<1>2. Directive(out, last, d) = Append(out, ch) /\ TextOf(d) = <<ch>>
  BY <1>1 DEF Directive, TextOf
<1>3. Append(out, ch) = out \o <<ch>> /\ <<ch>> \in Seq(Char) /\ Len(<<ch>>) = 1
  BY AppendIs
<1>4. PICK u : u = out \o <<ch>>
  OBVIOUS
<1>5. u \in Seq(Char) /\ Len(u) = Len(out) + 1 /\ Len(out) \in Nat
  BY <1>3, <1>4, Concat
<1>6. Cut(u, last) = u
  <2>1. Len(u) <= last
    BY <1>5
  <2> QED BY <1>5, <2>1, CutShort
<1> QED BY <1>2, <1>3, <1>4, <1>6

\* A string.
LEMMA StringCorrect ==
    ASSUME NEW out \in Seq(Char), NEW last \in Nat, Len(out) < last,
           NEW d \in DirectiveSet, d.t = "str", Fits(d)
    PROVE  /\ Directive(out, last, d) = Cut(out \o TextOf(d), last)
           /\ TextOf(d) \in Seq(Char)
<1>1. PICK s \in Seq(Char), n \in Nat \cup {NoLen} : s = d.s /\ n = d.n
  BY DEF DirectiveSet
<1>2. PICK l \in Nat : l = Len(s)
  OBVIOUS
<1>3. n # NoLen => n \in Nat /\ n <= l
  BY <1>1, <1>2 DEF Fits
<1>4. PICK m : m = IF n = NoLen THEN l ELSE n
  OBVIOUS
<1>5. m \in Nat /\ m <= l
  BY <1>2, <1>3, <1>4
<1>6. PICK g : g = last - Len(out)
  OBVIOUS
<1>7. g \in Nat /\ Len(out) <= last
  BY <1>6
<1>8. PICK t : t = Cut(s, m)
  OBVIOUS
<1>9. t \in Seq(Char)
  BY <1>5, <1>8, CutFacts
<1>10. t = SubSeq(s, 1, m)
  <2>1. Min2(l, m) = m
    BY <1>2, <1>5 DEF Min2
  <2> QED BY <2>1, <1>2, <1>8 DEF Cut
<1>11. TextOf(d) = t
  <2>1. TextOf(d) = IF n = NoLen THEN s ELSE SubSeq(s, 1, n)
    BY <1>1 DEF TextOf
  <2>2. CASE n = NoLen
    <3>1. m = Len(s)
      BY <2>2, <1>2, <1>4
    <3>2. t = s
      BY <3>1, <1>5, <1>8, CutShort
    <3> QED BY <2>1, <2>2, <3>2
  <2>3. CASE n # NoLen
    BY <2>1, <2>3, <1>4, <1>10
  <2> QED BY <2>2, <2>3
<1>12. PICK k : k = IF g < m THEN g ELSE m
  OBVIOUS
<1>13. k \in Nat /\ k <= m /\ k <= l
  BY <1>5, <1>7, <1>12
<1>14. Directive(out, last, d) = out \o SubSeq(s, 1, k)
  <2>1. Directive(out, last, d) = String(out, last, d)
    BY DEF Directive
  <2>2. String(out, last, d) = out \o SubSeq(s, 1, Min2(g, m))
    BY <1>1, <1>2, <1>4, <1>6 DEF String
  <2>3. Min2(g, m) = k
    BY <1>12 DEF Min2
  <2> QED BY <2>1, <2>2, <2>3
<1>15. SubSeq(s, 1, k) = Cut(s, k)
  <2>1. Min2(l, k) = k
    BY <1>2, <1>13 DEF Min2
  <2> QED BY <2>1, <1>2 DEF Cut
<1>16. Cut(t, g) = Cut(s, k)
  <2>1. CASE g < m
    <3>1. k = g /\ g <= m
      BY <2>1, <1>5, <1>7, <1>12
    <3> QED BY <3>1, <1>5, <1>7, <1>8, CutTwice
  <2>2. CASE ~(g < m)
    <3>1. k = m
      BY <2>2, <1>12
    <3>2. Len(t) <= g
      <4>1. Len(t) = IF Len(s) < m THEN Len(s) ELSE m
        BY <1>5, <1>8, CutFacts
      <4>2. Len(t) = m
        BY <4>1, <1>2, <1>5
      <4> QED BY <4>2, <2>2, <1>5, <1>7
    <3>3. Cut(t, g) = t
      BY <3>2, <1>7, <1>9, CutShort
    <3> QED BY <3>1, <3>3, <1>8
  <2> QED BY <2>1, <2>2
<1>17. Cut(out \o t, last) = out \o Cut(t, last - Len(out))
  BY <1>7, <1>9, CutRest
<1> QED BY <1>6, <1>9, <1>11, <1>14, <1>15, <1>16, <1>17

\* An argument of an integer conversion, read as signed and as unsigned.
Argument(v, w, q) ==
    /\ v \in Int /\ w \in Nat /\ w < q
    /\ v < 0 => (-v) % q = -v /\ -v \in Nat /\ -v < q
    /\ ~(v < 0) => v = w

\* An integer argument: the value that is printed, and its sign.
LEMMA NumberValue ==
    ASSUME NEW raw \in Nat, NEW b \in Nat \ {0}, b <= LongBits,
           NEW v, v = Signed(raw, b), NEW w, w = raw % Power(2, b),
           NEW q, q = Power(2, LongBits)
    PROVE  Argument(v, w, q)
<1>1. LongBits \in Nat
  BY BitsAssumption
<1>2. PICK p \in Nat, h \in Nat :
         /\ p = Power(2, b) /\ h = Power(2, b - 1) /\ h >= 1 /\ p = 2 * h /\ q \in Nat
  <2>1. Power(2, LongBits) \in Nat
    BY <1>1, PowerSteps
  <2>2. /\ Power(2, b - 1) \in Nat /\ Power(2, b - 1) >= 1
        /\ Power(2, b) \in Nat /\ Power(2, b) = 2 * Power(2, b - 1)
    BY Halves
  <2> QED BY <2>1, <2>2
<1>3. p <= q
  BY <1>1, <1>2, PowerGrows
<1>4. w \in Nat /\ w < p
  BY <1>2, Quotient
<1>5. v = IF w >= h THEN w - p ELSE w
  BY <1>2 DEF Signed
<1>6. v \in Int /\ (~(v < 0) => v = w) /\ (v < 0 => -v \in Nat /\ -v < q)
  BY <1>2, <1>3, <1>4, <1>5
<1>7. v < 0 => (-v) % q = -v
  <2> SUFFICES ASSUME v < 0 PROVE (-v) % q = -v
    OBVIOUS
  <2>1. PICK u \in Nat : u = -v
    BY <1>6
  <2>2. u < q
    BY <1>6, <2>1
  <2>3. u % q = u
    <3>1. q \in Nat \ {0} /\ u = 0 * q + u
      BY <2>2, <1>2
    <3> QED BY <2>2, <3>1, QuotientIs
  <2> QED BY <2>1, <2>3
<1> QED BY <1>2, <1>3, <1>4, <1>6, <1>7 DEF Argument

\* An integer.
LEMMA NumberCorrect ==
    ASSUME NEW out \in Seq(Char), NEW last \in Nat, Len(out) < last,
           NEW d \in DirectiveSet, d.t = "num"
    PROVE  /\ Directive(out, last, d) = Cut(out \o TextOf(d), last)
           /\ TextOf(d) \in Seq(Char)
<1>1. PICK raw \in Nat, width \in Nat : raw = d.raw /\ width = WidthOf(d)
  <2>1. d.raw \in Nat /\ d.width \in Nat
    BY DEF DirectiveSet
  <2>2. LongBits \div 4 \in Nat
    BY BitsAssumption, Quotient
  <2> QED BY <2>1, <2>2 DEF WidthOf
<1>2. PICK b \in Nat \ {0} : b = BitsOf(d.conv) /\ b <= LongBits
  BY BitsAssumption DEF BitsOf
<1>3. PICK s \in BOOLEAN : s <=> IsSigned(d)
  OBVIOUS
<1>4. PICK v : v = Signed(raw, b)
  OBVIOUS
<1>5. PICK w : w = raw % Power(2, b)
  OBVIOUS
<1>6. PICK q : q = Power(2, LongBits)
  OBVIOUS
<1>7. /\ v \in Int /\ w \in Nat /\ w < q
      /\ v < 0 => (-v) % q = -v /\ -v \in Nat /\ -v < q
      /\ ~(v < 0) => v = w
  <2>1. b <= LongBits
    BY <1>2
  <2>2. Argument(v, w, q)
    BY <2>1, <1>4, <1>5, <1>6, NumberValue, Zenon
  <2> QED BY <2>2, Zenon DEF Argument
<1>8. PICK x : x = IF s THEN v ELSE w
  OBVIOUS
<1>9. Value(d) = x
  BY <1>1, <1>2, <1>3, <1>4, <1>5, <1>8 DEF Value
<1>10. PICK n : n = IF x < 0 THEN -x ELSE x
  OBVIOUS
<1>11. n \in Nat /\ n < q /\ (x < 0 <=> s /\ v < 0)
  BY <1>7, <1>8, <1>10
<1>12. n = IF s /\ v < 0 THEN (-v) % q ELSE w
  BY <1>7, <1>8, <1>10, <1>11
<1>13. Small(n)
  BY <1>6, <1>11, LongIsSmall
<1>14. Abs(Value(d)) = n
  BY <1>9, <1>10 DEF Abs
<1>15. PICK zero \in Char : zero = ZeroOf(d)
  <2>1. "0" \in Char /\ " " \in Char
    BY CharAssumption DEF OwnChars
  <2> QED BY <2>1 DEF ZeroOf
<1>16. PICK hex : hex = HexOf(d)
  OBVIOUS
<1>17. PICK minus \in Seq(Char) : minus = IF x < 0 THEN <<"-">> ELSE <<>>
  <2>1. "-" \in Char
    BY CharAssumption DEF OwnChars
  <2>2. PICK c \in Char : c = "-"
    BY <2>1
  <2>3. <<c>> \in Seq(Char) /\ <<>> \in Seq(Char)
    OBVIOUS
  <2> QED BY <2>2, <2>3
<1>18. PICK o : o = out \o minus
  OBVIOUS
<1>19. o \in Seq(Char) /\ Len(o) <= last
  <2>1. Len(minus) <= 1
    BY <1>17
  <2>2. o \in Seq(Char) /\ Len(o) = Len(out) + Len(minus) /\ Len(out) \in Nat /\ Len(minus) \in Nat
    BY <1>18, Concat
  <2> QED BY <2>1, <2>2
<1>20. o = IF s /\ v < 0 THEN Append(out, "-") ELSE out
  <2>1. CASE x < 0
    <3>1. PICK c \in Char : c = "-"
      BY CharAssumption DEF OwnChars
    <3>2. Append(out, c) = out \o <<c>>
      BY AppendIs
    <3> QED BY <2>1, <3>1, <3>2, <1>11, <1>17, <1>18
  <2>2. CASE ~(x < 0)
    <3>1. out \o <<>> = out
      BY Empty
    <3> QED BY <2>2, <3>1, <1>11, <1>17, <1>18
  <2> QED BY <2>1, <2>2
<1>21. PICK t : t = Numeral(n, Base(hex), CharsOf(hex))
  OBVIOUS
<1>22. sprintf_num(o, last, n, zero, hex, width) = Cut(o \o Padded(t, width, zero), last)
       /\ t \in Seq(Char)
  BY <1>13, <1>19, <1>21, SprintfNum
<1>23. PICK y : y = Padded(t, width, zero)
  OBVIOUS
<1>24. y \in Seq(Char)
  BY <1>22, <1>23, PaddedType
<1>25. o \o y = out \o (minus \o y)
  <2>1. (out \o minus) \o y = out \o (minus \o y)
    BY <1>24, SMTT(30)
  <2> QED BY <2>1, <1>18
<1>26. Directive(out, last, d) = sprintf_num(o, last, n, zero, hex, width)
  <2>1. Directive(out, last, d) = Number(out, last, d)
    BY DEF Directive
  <2>2. Number(out, last, d)
          = sprintf_num(IF IsSigned(d) /\ v < 0 THEN Append(out, "-") ELSE out, last,
                        IF IsSigned(d) /\ v < 0 THEN (-v) % q ELSE w, zero, hex, width)
    BY <1>1, <1>2, <1>4, <1>5, <1>6, <1>15, <1>16 DEF Number
  <2> QED BY <2>1, <2>2, <1>3, <1>12, <1>20
<1>27. TextOf(d) = minus \o y
  <2>1. TextOf(d) = (IF Value(d) < 0 THEN <<"-">> ELSE <<>>) \o
            Padded(Numeral(Abs(Value(d)), IF HexOf(d) = "" THEN 10 ELSE 16,
                           IF HexOf(d) = "X" THEN Upper ELSE Lower), WidthOf(d), ZeroOf(d))
    BY DEF TextOf
  <2>2. t = Numeral(Abs(Value(d)), IF HexOf(d) = "" THEN 10 ELSE 16,
                    IF HexOf(d) = "X" THEN Upper ELSE Lower)
    BY <1>14, <1>16, <1>21 DEF Base, CharsOf
  <2> QED BY <2>1, <2>2, <1>1, <1>9, <1>15, <1>17, <1>23
<1>28. minus \o y \in Seq(Char)
  BY <1>24, Concat
<1> QED BY <1>22, <1>23, <1>25, <1>26, <1>27, <1>28

\* x is the fraction that the code rounds to scale, y the number rounded.
Rounded(q, x, y, scale) ==
    /\ q \in Nat /\ x \in Nat /\ x <= scale
    /\ y \div scale = IF x = scale THEN q + 1 ELSE q
    /\ y % scale = IF x = scale THEN 0 ELSE x

\* The rounding of a fraction, as the code does it and as it should be: the code
\* rounds the fraction alone and carries into the integer part.
LEMMA Rounding ==
    ASSUME NEW n \in Nat, NEW p \in Nat \ {0}, NEW scale \in Nat \ {0},
           NEW q, q = n \div p, NEW x, x = (2 * (n % p) * scale + p) \div (2 * p),
           NEW y, y = (2 * n * scale + p) \div (2 * p)
    PROVE  Rounded(q, x, y, scale)
<1>1. PICK r \in Nat : r = n % p
  BY Quotient
<1>2. q \in Nat /\ r < p /\ n = q * p + r
  BY <1>1, Quotient
<1>3. PICK e \in Nat \ {0} : e = 2 * p
  OBVIOUS
<1>4. PICK c \in Nat : c = 2 * r * scale + p
  OBVIOUS
<1>5. x = c \div e
  BY <1>1, <1>3, <1>4
<1>6. PICK k \in Nat : k = c % e
  BY Quotient
<1>7. x \in Nat /\ k < e /\ c = x * e + k
  BY <1>5, <1>6, Quotient
<1>8. x <= scale
  <2>1. SUFFICES ASSUME x >= scale + 1 PROVE FALSE
    BY <1>7
  <2>2. x * e >= (scale + 1) * e
    BY <2>1, <1>7
  <2>3. (scale + 1) * e = 2 * p * scale + 2 * p
    BY <1>3
  <2>4. r * scale <= p * scale
    BY <1>2
  <2>5. c <= 2 * (p * scale) + p
    BY <2>4, <1>4
  <2>6. 2 * p * scale = 2 * (p * scale)
    OBVIOUS
  <2>7. PICK z \in Nat : z = p * scale
    OBVIOUS
  <2>8. PICK a \in Nat : a = x * e
    BY <1>7
  <2>9. a >= 2 * z + 2 * p /\ c <= 2 * z + p /\ c = a + k
    BY <2>2, <2>3, <2>5, <2>6, <2>7, <2>8, <1>7
  <2> QED BY <2>9
<1>9. 2 * n * scale + p = (q * scale + x) * e + k
  <2>1. 2 * n * scale = (q * scale) * (2 * p) + 2 * r * scale
    BY <1>2
  <2>2. (q * scale + x) * e = (q * scale) * e + x * e
    BY <1>2, <1>3, <1>7
  <2>3. PICK a \in Nat : a = (q * scale) * e
    <3>0. q \in Nat
      BY <1>2
    <3>1. PICK z \in Nat : z = q * scale
      BY <3>0
    <3>2. z * e \in Nat
      OBVIOUS
    <3> QED BY <3>1, <3>2
  <2>4. PICK f \in Nat : f = x * e
    BY <1>7
  <2>5. PICK g \in Nat : g = 2 * r * scale
    OBVIOUS
  <2>6. 2 * n * scale = a + g /\ (q * scale + x) * e = a + f /\ g + p = f + k
    BY <2>1, <2>2, <2>3, <2>4, <2>5, <1>3, <1>4, <1>7
  <2> QED BY <2>6
<1>10. y = q * scale + x
  <2>1. PICK a \in Nat : a = 2 * n * scale + p
    OBVIOUS
  <2>2. PICK z \in Nat : z = q * scale + x
    BY <1>2, <1>7
  <2>3. a = z * e + k
    BY <2>1, <2>2, <1>9
  <2>4. a \div e = z
    BY <2>3, <1>7, QuotientIs
  <2> QED BY <2>1, <2>2, <2>4, <1>3
<1>11. CASE x = scale
  <2>1. PICK z \in Nat : z = q + 1
    BY <1>2
  <2>2. y = z * scale + 0 /\ y \in Nat
    BY <2>1, <1>2, <1>10, <1>11
  <2>3. y \div scale = z /\ y % scale = 0
    BY <2>2, QuotientIs
  <2> QED BY <2>1, <2>3, <1>2, <1>8, <1>11 DEF Rounded
<1>12. CASE x # scale
  <2>1. x < scale /\ y \in Nat
    BY <1>2, <1>7, <1>8, <1>10, <1>12
  <2>2. y \div scale = q /\ y % scale = x
    <3>1. q \in Nat /\ x \in Nat
      BY <1>2, <1>7
    <3>2. PICK u \in Nat, g \in Nat, h \in Nat : u = y /\ g = q /\ h = x
      BY <2>1, <3>1
    <3>3. u = g * scale + h /\ h < scale
      BY <3>2, <2>1, <1>10
    <3>4. u \div scale = g /\ u % scale = h
      BY <3>3, QuotientIs
    <3> QED BY <3>2, <3>4
  <2> QED BY <2>2, <1>2, <1>7, <1>8, <1>12 DEF Rounded
<1> QED BY <1>11, <1>12

\* A sign in front of a number.
Sign(minus) == IF minus THEN <<"-">> ELSE <<>>

\* The minus sign is put without a test, since there is room for a character.
LEMMA SignFacts ==
    ASSUME NEW minus \in BOOLEAN, NEW out \in Seq(Char)
    PROVE  /\ Sign(minus) \in Seq(Char) /\ Len(Sign(minus)) <= 1
           /\ out \o Sign(minus) = IF minus THEN Append(out, "-") ELSE out
<1>1. PICK m \in Char : m = "-"
  BY CharAssumption DEF OwnChars
<1>2. <<m>> \in Seq(Char) /\ Len(<<m>>) = 1 /\ Append(out, m) = out \o <<m>>
  BY AppendIs
<1>3. CASE minus
  BY <1>1, <1>2, <1>3 DEF Sign
<1>4. CASE ~minus
  <2>1. Sign(minus) = <<>>
    BY <1>4 DEF Sign
  <2>2. out \o <<>> = out
    BY Empty
  <2> QED BY <1>4, <2>1, <2>2
<1> QED BY <1>3, <1>4

\* The buffer becomes res when s is added to out.
Writes(out, last, res, s) == s \in Seq(Char) /\ res = Cut(out \o s, last)

\* mgx_sprintf_num, in base ten.
LEMMA Decimal ==
    ASSUME NEW out \in Seq(Char), NEW last \in Nat, Len(out) <= last, NEW n, Small(n),
           NEW zero \in Char, NEW width \in Nat,
           NEW s, s = Padded(Numeral(n, 10, Lower), width, zero)
    PROVE  Writes(out, last, sprintf_num(out, last, n, zero, "", width), s)
<1>1. PICK hex : hex = ""
  OBVIOUS
<1>2. /\ sprintf_num(out, last, n, zero, hex, width)
           = Cut(out \o Padded(Numeral(n, Base(hex), CharsOf(hex)), width, zero), last)
      /\ Numeral(n, Base(hex), CharsOf(hex)) \in Seq(Char)
  BY SprintfNum
<1>3. Numeral(n, Base(hex), CharsOf(hex)) = Numeral(n, 10, Lower)
  BY <1>1 DEF Base, CharsOf
<1>4. s \in Seq(Char)
  BY <1>2, <1>3, PaddedType
<1> QED BY <1>1, <1>2, <1>3, <1>4 DEF Writes

PutChar(s, last, c) == IF Len(s) < last THEN Append(s, c) ELSE s

\* The dot is put where there is room for it.
LEMMA DotCorrect ==
    ASSUME NEW T, NEW t \in Seq(T), NEW last \in Nat, NEW c \in T, NEW s, s = Cut(t, last)
    PROVE  PutChar(s, last, c) = Cut(t \o <<c>>, last)
<1>1. s \in Seq(T) /\ Len(s) <= last /\ Len(s) \in Nat
  BY CutFacts
<1>2. <<c>> \in Seq(T) /\ Len(<<c>>) = 1 /\ Append(s, c) = s \o <<c>>
  BY <1>1, AppendIs
<1>3. PICK u : u = s \o <<c>>
  OBVIOUS
<1>4. u \in Seq(T) /\ Len(u) = Len(s) + 1 /\ t \o <<c>> \in Seq(T)
  BY <1>1, <1>2, <1>3, Concat
<1>5. Cut(u, last) = Cut(t \o <<c>>, last)
  BY <1>2, <1>3, CutJoin
<1>6. CASE Len(s) < last
  <2>1. Len(u) <= last
    BY <1>1, <1>4, <1>6
  <2>2. Cut(u, last) = u
    BY <1>4, <2>1, CutShort
  <2> QED BY <1>2, <1>3, <1>5, <1>6, <2>2 DEF PutChar
<1>7. CASE ~(Len(s) < last)
  <2>1. Len(s) >= last
    BY <1>1, <1>7
  <2>2. Cut(u, last) = Cut(s, last)
    BY <1>1, <1>2, <1>3, <2>1, CutLong
  <2>3. Cut(s, last) = s
    BY <1>1, CutShort
  <2> QED BY <1>5, <1>7, <2>2, <2>3 DEF PutChar
<1> QED BY <1>6, <1>7

Chained(T, r, s, t, u, v) ==
    /\ (((r \o s) \o t) \o u) \o v = r \o ((s \o t) \o (u \o v))
    /\ (s \o t) \o (u \o v) \in Seq(T)

\* The order in which the parts of %f are put together.
LEMMA Chain ==
    ASSUME NEW T, NEW r \in Seq(T), NEW s \in Seq(T), NEW t \in Seq(T), NEW u \in Seq(T), NEW v \in Seq(T)
    PROVE  Chained(T, r, s, t, u, v)
<1>1. (r \o s) \o t = r \o (s \o t)
  BY SMTT(30)
<1>2. s \o t \in Seq(T) /\ u \o v \in Seq(T)
  OBVIOUS
<1>3. PICK a : a = s \o t
  OBVIOUS
<1>4. PICK c : c = u \o v
  OBVIOUS
<1>5. a \in Seq(T) /\ c \in Seq(T)
  BY <1>2, <1>3, <1>4
<1>6. ((r \o a) \o u) \o v = (r \o a) \o (u \o v)
  <2>1. PICK b : b = r \o a
    OBVIOUS
  <2>2. b \in Seq(T)
    BY <2>1, <1>5
  <2>3. (b \o u) \o v = b \o (u \o v)
    BY <2>2, SMTT(30)
  <2> QED BY <2>1, <2>3
<1>7. (r \o a) \o c = r \o (a \o c)
  BY <1>5, SMTT(30)
<1>8. a \o c \in Seq(T)
  BY <1>5
<1> QED BY <1>1, <1>3, <1>4, <1>6, <1>7, <1>8 DEF Chained

\* %f
LEMMA FloatCorrect ==
    ASSUME NEW out \in Seq(Char), NEW last \in Nat, Len(out) < last,
           NEW d \in DirectiveSet, d.t = "flt", Fits(d)
    PROVE  /\ Directive(out, last, d) = Cut(out \o TextOf(d), last)
           /\ TextOf(d) \in Seq(Char)
<1>1. PICK parts \in Nat, width \in Nat, w \in Nat :
         parts = d.parts /\ width = d.width /\ w = d.frac
  BY DEF DirectiveSet
<1>2. PICK scale : scale = Power(10, w)
  OBVIOUS
<1>3. scale \in Nat \ {0}
  <2>1. Power(10, w) \in Nat
    BY PowerSteps
  <2>2. Power(10, w) >= 1
    BY PowerGrows
  <2> QED BY <2>1, <2>2, <1>2
<1>4. PICK q : q = parts \div Parts
  OBVIOUS
<1>5. PICK x : x = (2 * (parts % Parts) * scale + Parts) \div (2 * Parts)
  OBVIOUS
<1>6. PICK y : y = (2 * parts * scale + Parts) \div (2 * Parts)
  OBVIOUS
<1>7. /\ q \in Nat /\ x \in Nat /\ x <= scale
      /\ y \div scale = IF x = scale THEN q + 1 ELSE q
      /\ y % scale = IF x = scale THEN 0 ELSE x
  <2>1. Parts \in Nat \ {0}
    BY BitsAssumption
  <2>2. Rounded(q, x, y, scale)
    BY <2>1, <1>3, <1>4, <1>5, <1>6, Rounding, Zenon
  <2> QED BY <2>2, Zenon DEF Rounded
<1>8. PICK whole : whole = q + (IF w > 0 /\ x = scale THEN 1 ELSE 0)
  OBVIOUS
<1>9. PICK frac : frac = IF w > 0 /\ x = scale THEN 0 ELSE x
  OBVIOUS
<1>10. whole = IF w = 0 THEN q ELSE y \div scale
  BY <1>7, <1>8
<1>11. w # 0 => frac = y % scale
  BY <1>7, <1>9
<1>12. q < Power(2, LongBits - 1) /\ scale <= Power(2, LongBits)
  BY <1>1, <1>2, <1>4 DEF Fits
<1>13. /\ Power(2, LongBits - 1) \in Nat /\ Power(2, LongBits - 1) >= 1
       /\ Power(2, LongBits) \in Nat /\ Power(2, LongBits) = 2 * Power(2, LongBits - 1)
  <2>1. LongBits \in Nat \ {0}
    BY BitsAssumption
  <2> QED BY <2>1, Halves
<1>14. Small(whole)
  <2>1. whole \in Nat /\ whole <= q + 1
    BY <1>7, <1>8
  <2>2. PICK h \in Nat : h = Power(2, LongBits - 1)
    BY <1>13
  <2>3. whole < 2 * h
    BY <2>1, <2>2, <1>7, <1>12, <1>13
  <2> QED BY <2>1, <2>2, <2>3, <1>13, LongIsSmall
<1>15. w # 0 => Small(frac)
  <2>1. SUFFICES ASSUME w # 0 PROVE Small(frac)
    OBVIOUS
  <2>2. frac \in Nat /\ frac < scale
    BY <2>1, <1>3, <1>7, <1>9
  <2>3. frac < Power(2, LongBits)
    BY <2>2, <1>3, <1>12, <1>13
  <2> QED BY <2>2, <2>3, LongIsSmall
<1>16. PICK zero \in Char, null \in Char : zero = (IF d.zero THEN "0" ELSE " ") /\ null = "0"
  <2>1. "0" \in Char /\ " " \in Char
    BY CharAssumption DEF OwnChars
  <2> QED BY <2>1
<1>17. PICK c \in Char : c = "."
  BY CharAssumption DEF OwnChars
<1>18. PICK minus \in BOOLEAN : minus = d.neg
  BY DEF DirectiveSet
<1>19. PICK sign : sign = Sign(minus)
  OBVIOUS
<1>20. /\ sign \in Seq(Char) /\ Len(sign) <= 1
       /\ out \o sign = IF minus THEN Append(out, "-") ELSE out
  BY <1>19, SignFacts
<1>21. PICK o : o = out \o sign
  OBVIOUS
<1>22. o \in Seq(Char) /\ Len(o) <= last
  <2>1. o \in Seq(Char) /\ Len(o) = Len(out) + Len(sign) /\ Len(out) \in Nat /\ Len(sign) \in Nat
    BY <1>20, <1>21, Concat
  <2> QED BY <2>1, <1>20
<1>23. PICK int : int = sprintf_num(o, last, whole, zero, "", width)
  OBVIOUS
<1>24. PICK W : W = Padded(Numeral(whole, 10, Lower), width, zero)
  OBVIOUS
<1>25. W \in Seq(Char) /\ int = Cut(o \o W, last)
  <2>1. Writes(o, last, sprintf_num(o, last, whole, zero, "", width), W)
    BY <1>14, <1>22, <1>24, Decimal, Zenon
  <2> QED BY <2>1, <1>23 DEF Writes
<1>26. PICK t : t = o \o W
  OBVIOUS
<1>27. t \in Seq(Char)
  BY <1>22, <1>25, <1>26, Concat
<1> DEFINE dot == IF Len(int) < last THEN Append(int, c) ELSE int
<1>30. Directive(out, last, d) = IF w = 0 THEN int ELSE sprintf_num(dot, last, frac, null, "", w)
  <2>1. Directive(out, last, d) = Float(out, last, d)
    BY DEF Directive
  <2>2. PICK e : e = IF Len(int) < last THEN Append(int, ".") ELSE int
    OBVIOUS
  <2>3. o = IF d.neg THEN Append(out, "-") ELSE out
    BY <1>18, <1>20, <1>21
  <2>4. scale = Power(10, d.frac)
    BY <1>1, <1>2
  <2>5. x = (2 * (d.parts % Parts) * scale + Parts) \div (2 * Parts)
    BY <1>1, <1>5
  <2>6. whole = d.parts \div Parts + (IF d.frac > 0 /\ x = scale THEN 1 ELSE 0)
    BY <1>1, <1>4, <1>8
  <2>7. frac = IF d.frac > 0 /\ x = scale THEN 0 ELSE x
    BY <1>1, <1>9
  <2>8. int = sprintf_num(o, last, whole, IF d.zero THEN "0" ELSE " ", "", d.width)
    BY <1>1, <1>16, <1>23
  <2>9. Float(out, last, d) = IF d.frac = 0 THEN int ELSE sprintf_num(e, last, frac, "0", "", d.frac)
    BY <2>2, <2>3, <2>4, <2>5, <2>6, <2>7, <2>8 DEF Float
  <2>10. e = dot
    BY <2>2, <1>17
  <2> QED BY <2>1, <2>9, <2>10, <1>1, <1>16
<1> HIDE DEF dot
<1>28. CASE w = 0
  <2>1. Directive(out, last, d) = int
    BY <1>28, <1>30
  <2>2. TextOf(d) = (sign \o W) \o <<>>
    BY <1>1, <1>2, <1>4, <1>6, <1>10, <1>16, <1>18, <1>19, <1>24, <1>28 DEF TextOf, Sign
  <2>3. sign \o W \in Seq(Char)
    BY <1>20, <1>25, Concat
  <2>4. TextOf(d) = sign \o W
    BY <2>2, <2>3, Empty
  <2>5. t = out \o (sign \o W)
    <3>1. sign \in Seq(Char) /\ W \in Seq(Char)
      BY <1>20, <1>25
    <3>2. (out \o sign) \o W = out \o (sign \o W)
      BY <3>1
    <3> QED BY <3>2, <1>21, <1>26
  <2> QED BY <2>1, <2>3, <2>4, <2>5, <1>25, <1>26
<1>29. CASE w # 0
  <2>1. dot = IF Len(int) < last THEN Append(int, c) ELSE int
    BY DEF dot
  <2>2. PICK z : z = t \o <<c>>
    OBVIOUS
  <2>3. dot = Cut(z, last) /\ z \in Seq(Char)
    <3>1. int = Cut(t, last)
      BY <1>25, <1>26
    <3>2. PutChar(int, last, c) = Cut(t \o <<c>>, last)
      BY <3>1, <1>27, DotCorrect, Zenon
    <3>3. t \o <<c>> \in Seq(Char)
      BY <1>27, AppendIs
    <3> QED BY <3>2, <3>3, <2>1, <2>2 DEF PutChar
  <2>4. dot \in Seq(Char) /\ Len(dot) <= last
    <3>1. /\ dot \in Seq(Char) /\ Len(z) \in Nat
          /\ Len(dot) = IF Len(z) < last THEN Len(z) ELSE last
      BY <2>3, CutFacts
    <3> QED BY <3>1
  <2>5. PICK F : F = Padded(Numeral(frac, 10, Lower), w, null)
    OBVIOUS
  <2>6. F \in Seq(Char) /\ sprintf_num(dot, last, frac, null, "", w) = Cut(dot \o F, last)
    <3>1. Small(frac)
      BY <1>15, <1>29
    <3>2. Writes(dot, last, sprintf_num(dot, last, frac, null, "", w), F)
      BY <2>4, <2>5, <3>1, Decimal, Zenon
    <3> QED BY <3>2 DEF Writes
  <2>7. Cut(dot \o F, last) = Cut(z \o F, last)
    BY <2>3, <2>6, CutJoin
  <2>8. <<c>> \in Seq(Char)
    BY AppendIs
  <2>9. /\ z \o F = out \o ((sign \o W) \o (<<c>> \o F))
        /\ (sign \o W) \o (<<c>> \o F) \in Seq(Char)
    <3>1. sign \in Seq(Char) /\ W \in Seq(Char) /\ F \in Seq(Char)
      BY <2>6, <1>20, <1>25
    <3>2. /\ (((out \o sign) \o W) \o <<c>>) \o F = out \o ((sign \o W) \o (<<c>> \o F))
          /\ (sign \o W) \o (<<c>> \o F) \in Seq(Char)
      <4>1. Chained(Char, out, sign, W, <<c>>, F)
        BY <2>8, <3>1, Chain, Zenon
      <4> QED BY <4>1, Zenon DEF Chained
    <3> QED BY <3>2, <2>2, <1>21, <1>26
  <2>10. Directive(out, last, d) = sprintf_num(dot, last, frac, null, "", w)
    BY <1>29, <1>30
  <2>11. TextOf(d) = (sign \o W) \o (<<c>> \o F)
    BY <2>5, <1>1, <1>2, <1>4, <1>6, <1>10, <1>11, <1>16, <1>17, <1>18, <1>19, <1>24, <1>29 DEF TextOf, Sign
  <2> QED BY <2>6, <2>7, <2>9, <2>10, <2>11
<1> QED BY <1>28, <1>29

\* One round of the loop of mgx_vslprintf puts down the text of its directive, as
\* far as the buffer goes.
LEMMA DirectiveCorrect ==
    ASSUME NEW out \in Seq(Char), NEW last \in Nat, Len(out) < last,
           NEW d \in DirectiveSet, Fits(d)
    PROVE  Directive(out, last, d) = Cut(out \o TextOf(d), last)
<1>1. d.t \in {"one", "str", "num", "flt"}
  BY DEF DirectiveSet
<1> QED BY <1>1, OneCorrect, StringCorrect, NumberCorrect, FloatCorrect

-----------------------------------------------------------------------------
(* Formats. *)

\* The text of a directive is a sequence of characters.
LEMMA TextType ==
    ASSUME NEW d \in DirectiveSet, Fits(d)
    PROVE  TextOf(d) \in Seq(Char)
<1>1. d.t \in {"one", "str", "num", "flt"}
  BY DEF DirectiveSet
<1>2. PICK out \in Seq(Char) : Len(out) = 0
  <2>1. <<>> \in Seq(Char) /\ Len(<<>>) = 0
    OBVIOUS
  <2> QED BY <2>1
<1>3. PICK last \in Nat : Len(out) < last
  <2>1. Len(out) < 1
    BY <1>2
  <2> QED BY <2>1
<1> QED BY <1>1, <1>3, OneCorrect, StringCorrect, NumberCorrect, FloatCorrect

IsFlat(f, s) == f = [k \in 1..Len(s) |-> IF k = 1 THEN s[k] ELSE f[k - 1] \o s[k]]

\* g[k] is what the first k of the sequences s are together.
Joins(g, s, T) ==
    /\ g \in [0..Len(s) -> Seq(T)]
    /\ g[0] = <<>>
    /\ \A k \in 1..Len(s) : g[k] = g[k - 1] \o s[k]

\* The joined prefixes of a sequence of sequences exist.
LEMMA JoinsExist ==
    ASSUME NEW T, NEW s \in Seq(Seq(T))
    PROVE  \E g : Joins(g, s, T)
<1>1. PICK n \in Nat : n = Len(s)
  OBVIOUS
<1>2. PICK step : step = [k \in 1..n |-> [x \in Seq(T) |-> x \o s[k]]]
  OBVIOUS
<1>3. ASSUME NEW k \in 1..n PROVE s[k] \in Seq(T) /\ step[k] = [x \in Seq(T) |-> x \o s[k]]
  BY <1>1, <1>2
<1>4. ASSUME NEW k \in 1..n PROVE step[k] \in [Seq(T) -> Seq(T)]
  <2>1. PICK t \in Seq(T) : t = s[k]
    BY <1>3
  <2>2. ASSUME NEW x \in Seq(T) PROVE x \o t \in Seq(T)
    OBVIOUS
  <2>3. step[k] = [x \in Seq(T) |-> x \o t]
    BY <2>1, <1>3
  <2> QED BY <2>2, <2>3
<1>5. step \in [1..n -> [Seq(T) -> Seq(T)]]
  BY <1>2, <1>4
<1>6. <<>> \in Seq(T)
  OBVIOUS
<1>7. PICK g : Iterates(g, n, Seq(T), <<>>, step)
  BY <1>5, <1>6, FoldExists
<1>8. g \in [0..n -> Seq(T)] /\ g[0] = <<>> /\ \A k \in 1..n : g[k] = step[k][g[k - 1]]
  BY <1>7 DEF Iterates
<1>9. ASSUME NEW k \in 1..n PROVE g[k] = g[k - 1] \o s[k]
  <2>1. k - 1 \in 0..n
    OBVIOUS
  <2>2. g[k - 1] \in Seq(T)
    BY <2>1, <1>8
  <2>3. step[k][g[k - 1]] = g[k - 1] \o s[k]
    BY <2>2, <1>3
  <2> QED BY <2>3, <1>8
<1> QED BY <1>1, <1>8, <1>9 DEF Joins

\* A sequence without elements.
LEMMA NoneIsEmpty ==
    ASSUME NEW T, NEW s \in Seq(T), Len(s) = 0
    PROVE  s = <<>>
OBVIOUS

\* An element of a sequence.
LEMMA ElementType ==
    ASSUME NEW T, NEW s \in Seq(T), NEW k \in 1..Len(s)
    PROVE  s[k] \in T
OBVIOUS

\* FlattenSeq is the last of them.
LEMMA FlatIsJoin ==
    ASSUME NEW T, NEW s \in Seq(Seq(T)), NEW g, Joins(g, s, T)
    PROVE  FlattenSeq(s) = g[Len(s)]
<1>1. PICK n \in Nat : n = Len(s)
  OBVIOUS
<1>0. ASSUME NEW k \in 1..n PROVE g[k] = g[k - 1] \o s[k] /\ s[k] \in Seq(T)
  <2>1. k \in 1..Len(s)
    BY <1>1
  <2>2. g[k] = g[k - 1] \o s[k]
    BY <2>1 DEF Joins
  <2>3. s[k] \in Seq(T)
    BY <2>1, ElementType
  <2> QED BY <2>2, <2>3
<1>2. CASE n = 0
  <2>1. FlattenSeq(s) = s
    BY <1>1, <1>2 DEF FlattenSeq
  <2>2. s = <<>>
    BY <1>1, <1>2, NoneIsEmpty
  <2> QED BY <2>1, <2>2, <1>1, <1>2 DEF Joins
<1>3. CASE n # 0
  <2>1. FlattenSeq(s) = (CHOOSE f : IsFlat(f, s))[n]
    BY <1>1, <1>3 DEF FlattenSeq, IsFlat
  <2>2. \E f : IsFlat(f, s)
    <3>1. PICK f : f = [k \in 1..n |-> g[k]]
      OBVIOUS
    <3>2. ASSUME NEW k \in 1..n PROVE g[k] = IF k = 1 THEN s[k] ELSE f[k - 1] \o s[k]
      <4>1. g[k] = g[k - 1] \o s[k] /\ s[k] \in Seq(T)
        BY <1>0
      <4>2. CASE k = 1
        <5>1. g[k - 1] = <<>>
          BY <4>2 DEF Joins
        <5> QED BY <4>1, <4>2, <5>1, Empty
      <4>3. CASE k # 1
        <5>1. k - 1 \in 1..n
          BY <4>3
        <5>2. f[k - 1] = g[k - 1]
          BY <3>1, <5>1
        <5> QED BY <4>1, <4>3, <5>2
      <4> QED BY <4>2, <4>3
    <3>3. f = [k \in 1..n |-> IF k = 1 THEN s[k] ELSE f[k - 1] \o s[k]]
      <4>1. PICK h : h = [k \in 1..n |-> IF k = 1 THEN s[k] ELSE f[k - 1] \o s[k]]
        OBVIOUS
      <4>2. \A k \in 1..n : h[k] = g[k]
        BY <4>1, <3>2
      <4>3. f = h
        BY <4>1, <4>2, <3>1
      <4> QED BY <4>1, <4>3
    <3> QED BY <3>3, <1>1 DEF IsFlat
  <2>3. PICK f : f = (CHOOSE e : IsFlat(e, s))
    OBVIOUS
  <2>4. IsFlat(f, s)
    BY <2>2, <2>3, Zenon
  <2>5. \A k \in 1..n : f[k] = IF k = 1 THEN s[k] ELSE f[k - 1] \o s[k]
    BY <2>4, <1>1 DEF IsFlat
  <2> DEFINE S == {k \in 0..n : k = 0 \/ f[k] = g[k]}
  <2>6. ASSUME NEW k \in 1..n, k - 1 \in S PROVE k \in S
    <3>1. g[k] = g[k - 1] \o s[k] /\ s[k] \in Seq(T)
      BY <1>0
    <3>2. f[k] = g[k]
      <4>1. CASE k = 1
        <5>1. g[k - 1] = <<>>
          BY <4>1 DEF Joins
        <5>2. f[k] = s[k]
          BY <2>5, <4>1
        <5> QED BY <3>1, <5>1, <5>2, Empty
      <4>2. CASE k # 1
        <5>1. f[k - 1] = g[k - 1]
          BY <2>6, <4>2
        <5>2. f[k] = f[k - 1] \o s[k]
          BY <2>5, <4>2
        <5> QED BY <3>1, <5>1, <5>2
      <4> QED BY <4>1, <4>2
    <3> QED BY <3>2
  <2>7. 0 \in S
    OBVIOUS
  <2>8. \A k \in 0..n : k \in S
    <3> HIDE DEF S
    <3> QED BY <2>6, <2>7, UpwardInduction
  <2>9. f[n] = g[n]
    BY <2>8, <1>3
  <2> QED BY <2>1, <2>3, <2>9, <1>1
<1> QED BY <1>2, <1>3

\* A format whose arguments fit.
Sound(f) == f \in Seq(DirectiveSet) /\ \A k \in 1..Len(f) : Fits(f[k])

\* g[k] is the text of the first k directives of f.
Texts(g, f) ==
    /\ g \in [0..Len(f) -> Seq(Char)]
    /\ g[0] = <<>>
    /\ \A k \in 1..Len(f) : g[k] = g[k - 1] \o TextOf(f[k])

\* The directives of a format and their texts.
LEMMA TextsType ==
    ASSUME NEW f, Sound(f)
    PROVE  /\ f \in Seq(DirectiveSet) /\ Len(f) \in Nat
           /\ \A k \in 1..Len(f) : f[k] \in DirectiveSet /\ Fits(f[k]) /\ TextOf(f[k]) \in Seq(Char)
<1>1. f \in Seq(DirectiveSet) /\ \A k \in 1..Len(f) : Fits(f[k])
  BY DEF Sound
<1>2. Len(f) \in Nat
  BY <1>1
<1>3. ASSUME NEW k \in 1..Len(f) PROVE f[k] \in DirectiveSet /\ Fits(f[k]) /\ TextOf(f[k]) \in Seq(Char)
  <2>1. f[k] \in DirectiveSet
    BY <1>1, ElementType
  <2> QED BY <2>1, <1>1, TextType
<1> QED BY <1>1, <1>2, <1>3

\* The texts of its directives, as a sequence.
LEMMA TextSeq ==
    ASSUME NEW f, Sound(f), NEW s, s = [k \in 1..Len(f) |-> TextOf(f[k])]
    PROVE  s \in Seq(Seq(Char)) /\ Len(s) = Len(f) /\ \A k \in 1..Len(f) : s[k] = TextOf(f[k])
<1>1. PICK n \in Nat : n = Len(f)
  BY TextsType
<1>2. \A k \in 1..n : TextOf(f[k]) \in Seq(Char)
  BY <1>1, TextsType
<1>3. PICK U : U = Seq(Char)
  OBVIOUS
<1>4. s = [k \in 1..n |-> TextOf(f[k])] /\ \A k \in 1..n : TextOf(f[k]) \in U
  BY <1>1, <1>2, <1>3
<1>5. s \in Seq(U) /\ Len(s) = n
  BY <1>4
<1> QED BY <1>1, <1>3, <1>4, <1>5

\* The texts of the prefixes of a format exist.
LEMMA TextsExist ==
    ASSUME NEW f, Sound(f)
    PROVE  \E g : Texts(g, f)
<1>1. PICK s : s = [k \in 1..Len(f) |-> TextOf(f[k])]
  OBVIOUS
<1>2. s \in Seq(Seq(Char)) /\ Len(s) = Len(f) /\ \A k \in 1..Len(f) : s[k] = TextOf(f[k])
  BY <1>1, TextSeq
<1>3. PICK g : Joins(g, s, Char)
  BY <1>2, JoinsExist
<1> QED BY <1>2, <1>3 DEF Joins, Texts

\* A prefix of a format is a format.
LEMMA PrefixSound ==
    ASSUME NEW f, Sound(f), NEW j \in 0..Len(f), NEW p, p = SubSeq(f, 1, j)
    PROVE  Sound(p) /\ Len(p) = j /\ \A k \in 1..j : p[k] = f[k]
<1>1. f \in Seq(DirectiveSet) /\ Len(f) \in Nat
  BY TextsType
<1>2. PICK D : D = DirectiveSet
  OBVIOUS
<1>3. f \in Seq(D) /\ j \in Nat /\ j <= Len(f)
  BY <1>1, <1>2
<1>4. p \in Seq(D) /\ Len(p) = j /\ \A k \in 1..j : p[k] = f[k]
  BY <1>3
<1>5. \A k \in 1..Len(f) : Fits(f[k])
  BY DEF Sound
<1>6. ASSUME NEW k \in 1..Len(p) PROVE Fits(p[k])
  <2>1. k \in 1..j /\ k \in 1..Len(f)
    BY <1>3, <1>4
  <2> QED BY <2>1, <1>4, <1>5
<1> QED BY <1>2, <1>4, <1>6 DEF Sound

\* The text of a prefix.
LEMMA PrefixText ==
    ASSUME NEW f, Sound(f), NEW g, Texts(g, f), NEW j \in 0..Len(f)
    PROVE  TextOfAll(SubSeq(f, 1, j)) = g[j]
<1>0. Len(f) \in Nat
  BY TextsType
<1>1. PICK p : p = SubSeq(f, 1, j)
  OBVIOUS
<1>2. Sound(p) /\ Len(p) = j /\ \A k \in 1..j : p[k] = f[k]
  BY <1>1, PrefixSound
<1>3. PICK s : s = [k \in 1..Len(p) |-> TextOf(p[k])]
  OBVIOUS
<1>4. s \in Seq(Seq(Char)) /\ Len(s) = j /\ \A k \in 1..j : s[k] = TextOf(f[k])
  <2>1. s \in Seq(Seq(Char)) /\ Len(s) = Len(p) /\ \A k \in 1..Len(p) : s[k] = TextOf(p[k])
    BY <1>2, <1>3, TextSeq
  <2> QED BY <2>1, <1>2
<1>5. PICK h : h = [k \in 0..j |-> g[k]]
  OBVIOUS
<1>6. \A k \in 0..j : g[k] \in Seq(Char)
  BY <1>0, SMTT(30) DEF Texts
<1>7. h \in [0..j -> Seq(Char)] /\ h[0] = <<>>
  <2>1. g[0] = <<>> /\ 0 \in 0..j
    BY <1>0 DEF Texts
  <2> QED BY <1>5, <1>6, <2>1
<1>8. ASSUME NEW k \in 1..j PROVE h[k] = h[k - 1] \o s[k]
  <2>1. k \in 0..j /\ k - 1 \in 0..j /\ k \in 1..Len(f)
    BY <1>0
  <2>2. g[k] = g[k - 1] \o TextOf(f[k])
    BY <2>1 DEF Texts
  <2>3. h[k] = g[k] /\ h[k - 1] = g[k - 1]
    BY <2>1, <1>5
  <2> QED BY <2>2, <2>3, <1>4
<1>9. Joins(h, s, Char)
  BY <1>4, <1>7, <1>8 DEF Joins
<1>10. FlattenSeq(s) = h[j]
  BY <1>4, <1>9, FlatIsJoin
<1>11. TextOfAll(p) = FlattenSeq(s)
  BY <1>3 DEF TextOfAll
<1>12. h[j] = g[j]
  <2>1. j \in 0..j
    BY <1>0
  <2> QED BY <2>1, <1>5
<1> QED BY <1>1, <1>10, <1>11, <1>12

\* The text of the format.
LEMMA WholeText ==
    ASSUME NEW f, Sound(f), NEW g, Texts(g, f)
    PROVE  TextOfAll(f) = g[Len(f)] /\ TextOfAll(f) \in Seq(Char)
<1>1. f \in Seq(DirectiveSet) /\ Len(f) \in Nat
  BY TextsType
<1>2. PICK p : p = SubSeq(f, 1, Len(f))
  OBVIOUS
<1>3. p = f
  <2>1. PICK D : D = DirectiveSet
    OBVIOUS
  <2>2. f \in Seq(D)
    BY <2>1, <1>1
  <2>3. p \in Seq(D) /\ Len(p) = Len(f) /\ \A k \in 1..Len(p) : p[k] = f[k]
    BY <2>2, <1>2
  <2> QED BY <2>2, <2>3, SameSeq
<1>4. Len(f) \in 0..Len(f)
  BY <1>1
<1>5. TextOfAll(p) = g[Len(f)]
  BY <1>2, <1>4, PrefixText
<1>6. g[Len(f)] \in Seq(Char)
  BY <1>4 DEF Texts
<1> QED BY <1>3, <1>5, <1>6

\* The text up to directive j + 1.
LEMMA NextText ==
    ASSUME NEW f, Sound(f), NEW j \in 1..Len(f)
    PROVE  /\ TextOfAll(SubSeq(f, 1, j)) = TextOfAll(SubSeq(f, 1, j - 1)) \o TextOf(f[j])
           /\ TextOfAll(SubSeq(f, 1, j - 1)) \in Seq(Char) /\ TextOf(f[j]) \in Seq(Char)
<1>0. Len(f) \in Nat /\ TextOf(f[j]) \in Seq(Char)
  BY TextsType
<1>1. PICK g : Texts(g, f)
  BY TextsExist
<1>2. j \in 0..Len(f) /\ j - 1 \in 0..Len(f)
  BY <1>0
<1>3. TextOfAll(SubSeq(f, 1, j)) = g[j]
  BY <1>1, <1>2, PrefixText
<1>4. TextOfAll(SubSeq(f, 1, j - 1)) = g[j - 1]
  BY <1>1, <1>2, PrefixText
<1>5. g[j] = g[j - 1] \o TextOf(f[j]) /\ g[j - 1] \in Seq(Char)
  BY <1>1, <1>2 DEF Texts
<1> QED BY <1>0, <1>3, <1>4, <1>5

\* A buffer that is full holds the beginning of the whole text.
LEMMA FullText ==
    ASSUME NEW f, Sound(f), NEW j \in 0..Len(f), NEW h \in Seq(Char), NEW n \in Nat,
           NEW s, s = Cut(h \o TextOfAll(SubSeq(f, 1, j)), n), Len(s) >= n
    PROVE  s = Cut(h \o TextOfAll(f), n)
<1>0. PICK m \in Nat : m = Len(f)
  BY TextsType
<1>1. PICK g : Texts(g, f)
  BY TextsExist
<1>2. \A k \in 0..m : g[k] \in Seq(Char)
  BY <1>0, <1>1 DEF Texts
<1>3. s = Cut(h \o g[j], n)
  BY <1>1, PrefixText
<1> DEFINE S == {k \in 0..m : k < j \/ s = Cut(h \o g[k], n)}
<1>4. ASSUME NEW k \in 1..m, k - 1 \in S PROVE k \in S
  <2>1. CASE k < j
    BY <2>1
  <2>2. CASE k = j
    BY <2>2, <1>3
  <2>3. CASE k > j
    <3>1. s = Cut(h \o g[k - 1], n)
      BY <1>4, <2>3
    <3>2. PICK a : a = g[k - 1]
      OBVIOUS
    <3>3. PICK t : t = TextOf(f[k])
      OBVIOUS
    <3>4. a \in Seq(Char) /\ t \in Seq(Char)
      <4>1. k - 1 \in 0..m /\ k \in 1..Len(f)
        BY <1>0
      <4> QED BY <4>1, <3>2, <3>3, <1>2, TextsType
    <3>5. g[k] = a \o t
      BY <3>2, <3>3, <1>0, <1>1 DEF Texts
    <3>6. PICK u : u = h \o a
      OBVIOUS
    <3>7. u \in Seq(Char)
      BY <3>4, <3>6, Concat
    <3>8. Len(u) >= n
      <4>1. Len(u) \in Nat /\ Len(s) = IF Len(u) < n THEN Len(u) ELSE n
        <5>1. s = Cut(u, n)
          BY <3>1, <3>2, <3>6
        <5> QED BY <5>1, <3>7, CutFacts
      <4> QED BY <4>1
    <3>9. Cut(u \o t, n) = Cut(u, n)
      BY <3>4, <3>7, <3>8, CutLong
    <3>10. u \o t = h \o (a \o t)
      <4>1. (h \o a) \o t = h \o (a \o t)
        BY <3>4, SMTT(30)
      <4> QED BY <4>1, <3>6
    <3>11. s = Cut(h \o g[k], n)
      BY <3>1, <3>2, <3>5, <3>6, <3>9, <3>10
    <3> QED BY <3>11
  <2> QED BY <2>1, <2>2, <2>3, <1>0
<1>5. 0 \in S
  <2>1. CASE j = 0
    BY <2>1, <1>3
  <2>2. CASE j # 0
    BY <2>2, <1>0
  <2> QED BY <2>1, <2>2
<1>6. m \in S
  <2>1. \A k \in 0..m : k \in S
    <3> HIDE DEF S
    <3> QED BY <1>4, <1>5, UpwardInduction
  <2> QED BY <2>1
<1>7. s = Cut(h \o g[m], n)
  BY <1>0, <1>6
<1>8. TextOfAll(f) = g[m]
  BY <1>0, <1>1, WholeText
<1> QED BY <1>7, <1>8

-----------------------------------------------------------------------------
(* The line. *)

Text == Header \o TextOfAll(msg)

\* Where mgx_log is, and what it was called with.
CallType ==
    /\ size \in Sizes
    /\ pc \in {"idle", "format", "write", "echo", "echoed"}
    /\ pc = "idle" => line = <<>>
    /\ pc # "idle" => msg \in Formats
    /\ pc = "format" => i \in 1..(Len(msg) + 1)

\* The finished line is kept until mgx_log returns.
LineKept == pc \in {"write", "echo", "echoed"} => line = Append(Cut(Text, size - 2), "\n")

\* What stderr shows of a line that is no format.
ErrText ==
    pc = "echoed" /\ ~Contains(Text, "%") => err = Append(Cut(Tag \o Cut(Text, size - 2), size - 2), "\n")

TextInv == CallType /\ FormatIsCutText /\ LineKept /\ ErrText

\* The formats that are logged.
LEMMA FormatsSound ==
    ASSUME NEW f \in Formats
    PROVE  Sound(f)
BY TextAssumption DEF Sound

\* The end of the line: of the text that was cut to n characters, n - 2 stay.
LEMMA EndLineIs ==
    ASSUME NEW T, NEW t \in Seq(T), NEW n \in Nat, n >= 2, NEW s, s = Cut(t, n)
    PROVE  EndLine(s, n) = Append(Cut(t, n - 2), "\n")
<1>1. PICK m \in Nat : m = n - 2
  OBVIOUS
<1>2. /\ s \in Seq(T) /\ Len(t) \in Nat
      /\ Len(s) = IF Len(t) < n THEN Len(t) ELSE n
  BY CutFacts
<1>3. CASE Len(s) >= n - 1
  <2>1. Cut(s, m) = Cut(t, m)
    <3>1. m <= n
      BY <1>1
    <3> QED BY <3>1, CutTwice
  <2>2. Cut(s, m) = SubSeq(s, 1, m)
    <3>1. Min2(Len(s), m) = m
      BY <1>1, <1>2, <1>3 DEF Min2
    <3> QED BY <3>1 DEF Cut
  <2>3. EndLine(s, n) = Append(SubSeq(s, 1, n - 2), "\n")
    BY <1>3 DEF EndLine
  <2> QED BY <2>1, <2>2, <2>3, <1>1
<1>4. CASE ~(Len(s) >= n - 1)
  <2>1. Len(t) <= m /\ Len(t) <= n
    BY <1>1, <1>2, <1>4
  <2>2. s = t
    BY <2>1, CutShort
  <2>3. Cut(t, m) = t
    BY <2>1, CutShort
  <2>4. EndLine(s, n) = Append(s, "\n")
    BY <1>4 DEF EndLine
  <2> QED BY <2>2, <2>3, <2>4, <1>1
<1> QED BY <1>3, <1>4

\* The text of a call, and the size of the buffer.
LEMMA TextFacts ==
    ASSUME CallType, pc # "idle"
    PROVE  /\ Sound(msg) /\ Header \in Seq(Char) /\ Tag \in Seq(Char)
           /\ TextOfAll(msg) \in Seq(Char) /\ Text \in Seq(Char)
           /\ size \in Nat /\ size >= 2
<1>1. Sound(msg)
  BY FormatsSound DEF CallType
<1>2. Header \in Seq(Char) /\ Tag \in Seq(Char)
  BY TextAssumption
<1>3. size \in Nat /\ size >= 2
  <2>1. size \in Nat /\ size >= Len(Header) + 2 /\ Len(Header) \in Nat
    BY <1>2, SizeAssumption DEF CallType
  <2> QED BY <2>1
<1>4. TextOfAll(msg) \in Seq(Char)
  <2>1. PICK g : Texts(g, msg)
    BY <1>1, TextsExist
  <2> QED BY <2>1, <1>1, WholeText
<1>5. Text \in Seq(Char)
  BY <1>2, <1>4, Concat DEF Text
<1> QED BY <1>1, <1>2, <1>3, <1>4, <1>5

\* No line is being written at first.
LEMMA TextInit == Init => TextInv
BY DEF Init, TextInv, CallType, FormatIsCutText, LineKept, ErrText

\* mgx_log is called: the header is in the buffer.
LEMMA LogStep ==
    ASSUME TextInv, NEW l, NEW f \in Formats, Log(l, f)
    PROVE  TextInv'
<1>1. CallType
  BY DEF TextInv
<1>2. pc' = "format" /\ msg' = f /\ i' = 1 /\ line' = Header /\ size' = size
  BY DEF Log
<1>3. Sound(f)
  BY FormatsSound
<1>4. Len(f) \in Nat
  BY <1>3, TextsType
<1>5. CallType'
  BY <1>1, <1>2, <1>4 DEF CallType
<1>6. Header \in Seq(Char) /\ size \in Nat /\ Len(Header) <= size
  <2>1. size \in Nat /\ size >= Len(Header) + 2 /\ Header \in Seq(Char)
    BY <1>1, SizeAssumption, TextAssumption DEF CallType
  <2>2. Len(Header) \in Nat
    BY <2>1
  <2> QED BY <2>1, <2>2
<1>7. TextOfAll(SubSeq(f, 1, 0)) = <<>>
  <2>1. PICK g : Texts(g, f)
    BY <1>3, TextsExist
  <2>2. 0 \in 0..Len(f)
    BY <1>4
  <2> QED BY <2>1, <2>2, <1>3, PrefixText DEF Texts
<1>8. Cut(Header \o <<>>, size) = Header
  <2>1. Header \o <<>> = Header
    BY <1>6, Empty
  <2> QED BY <2>1, <1>6, CutShort
<1>9. FormatIsCutText'
  <2>1. i' - 1 = 0
    BY <1>2
  <2>2. line' = Cut(Header \o TextOfAll(SubSeq(msg', 1, i' - 1)), size')
    BY <2>1, <1>2, <1>7, <1>8
  <2> QED BY <2>2 DEF FormatIsCutText
<1>10. LineKept' /\ ErrText'
  BY <1>2 DEF LineKept, ErrText
<1> QED BY <1>5, <1>9, <1>10 DEF TextInv

\* One directive.
LEMMA FormatStep ==
    ASSUME TextInv, Format
    PROVE  TextInv'
<1>1. CallType /\ FormatIsCutText /\ pc = "format" /\ i <= Len(msg) /\ Len(line) < size
  BY DEF TextInv, Format, More
<1>2. line' = Directive(line, size, msg[i]) /\ i' = i + 1 /\ UNCHANGED <<size, pc, msg>>
  BY DEF Format
<1>3. Sound(msg) /\ Header \in Seq(Char) /\ size \in Nat
  BY <1>1, TextFacts
<1>4. Len(msg) \in Nat
  BY <1>3, TextsType
<1>5. PICK j \in 1..Len(msg) : j = i
  BY <1>1, <1>4 DEF CallType
<1>6. PICK d : d = msg[j]
  OBVIOUS
<1>7. d \in DirectiveSet /\ Fits(d)
  BY <1>3, <1>6, TextsType
<1>8. PICK s : s = TextOfAll(SubSeq(msg, 1, j - 1))
  OBVIOUS
<1>9. PICK t : t = TextOf(d)
  OBVIOUS
<1>10. TextOfAll(SubSeq(msg, 1, j)) = s \o t /\ s \in Seq(Char) /\ t \in Seq(Char)
  BY <1>3, <1>6, <1>8, <1>9, NextText
<1>11. PICK u : u = Header \o s
  OBVIOUS
<1>12. u \in Seq(Char)
  BY <1>3, <1>10, <1>11, Concat
<1>13. line = Cut(u, size)
  BY <1>1, <1>5, <1>8, <1>11 DEF FormatIsCutText
<1>14. line \in Seq(Char)
  BY <1>3, <1>12, <1>13, CutFacts
<1>15. Directive(line, size, d) = Cut(line \o t, size)
  BY <1>1, <1>3, <1>7, <1>9, <1>14, DirectiveCorrect
<1>16. Cut(line \o t, size) = Cut(u \o t, size)
  BY <1>3, <1>10, <1>12, <1>13, CutJoin
<1>17. u \o t = Header \o (s \o t)
  <2>1. (Header \o s) \o t = Header \o (s \o t)
    BY <1>3, <1>10
  <2> QED BY <2>1, <1>11
<1>18. line' = Cut(Header \o TextOfAll(SubSeq(msg, 1, j)), size)
  BY <1>2, <1>5, <1>6, <1>10, <1>15, <1>16, <1>17
<1>19. FormatIsCutText'
  <2>1. i' - 1 = j
    BY <1>2, <1>5
  <2>2. line' = Cut(Header \o TextOfAll(SubSeq(msg', 1, i' - 1)), size')
    BY <2>1, <1>2, <1>18
  <2> QED BY <2>2 DEF FormatIsCutText
<1>20. CallType'
  <2>1. i' \in 1..(Len(msg) + 1)
    BY <1>2, <1>4, <1>5
  <2> QED BY <2>1, <1>1, <1>2 DEF CallType
<1>21. LineKept' /\ ErrText'
  BY <1>1, <1>2 DEF LineKept, ErrText
<1> QED BY <1>19, <1>20, <1>21 DEF TextInv

\* The end of the line.
LEMMA FormatEndStep ==
    ASSUME TextInv, FormatEnd
    PROVE  TextInv'
<1>1. CallType /\ FormatIsCutText /\ pc = "format" /\ ~(i <= Len(msg) /\ Len(line) < size)
  BY DEF TextInv, FormatEnd, More
<1>2. line' = EndLine(line, size) /\ pc' = "write" /\ UNCHANGED <<size, msg>>
  BY DEF FormatEnd
<1>3. Sound(msg) /\ Header \in Seq(Char) /\ Text \in Seq(Char) /\ size \in Nat /\ size >= 2
  BY <1>1, TextFacts
<1>4. Len(msg) \in Nat /\ msg \in Seq(DirectiveSet)
  BY <1>3, TextsType
<1>5. PICK j \in 0..Len(msg) : j = i - 1
  BY <1>1, <1>4 DEF CallType
<1>6. line = Cut(Header \o TextOfAll(SubSeq(msg, 1, j)), size)
  BY <1>1, <1>5 DEF FormatIsCutText
<1>7. line = Cut(Text, size)
  <2>1. CASE Len(line) >= size
    <3>1. line = Cut(Header \o TextOfAll(msg), size)
      BY <2>1, <1>3, <1>6, FullText
    <3> QED BY <3>1 DEF Text
  <2>2. CASE ~(Len(line) >= size)
    <3>1. Len(line) \in Nat
      <4>1. PICK g : Texts(g, msg)
        BY <1>3, TextsExist
      <4>2. TextOfAll(SubSeq(msg, 1, j)) = g[j]
        BY <1>3, <4>1, PrefixText
      <4>3. g[j] \in Seq(Char)
        BY <4>1 DEF Texts
      <4>4. Header \o g[j] \in Seq(Char)
        BY <4>3, <1>3, Concat
      <4>5. line \in Seq(Char)
        BY <4>2, <4>4, <1>3, <1>6, CutFacts
      <4> QED BY <4>5
    <3>2. ~(i <= Len(msg))
      BY <2>2, <3>1, <1>1, <1>3
    <3>3. j = Len(msg)
      BY <3>2, <1>1, <1>4, <1>5 DEF CallType
    <3>4. SubSeq(msg, 1, j) = msg
      <4>1. PICK D : D = DirectiveSet
        OBVIOUS
      <4>2. msg \in Seq(D)
        BY <4>1, <1>4
      <4>3. PICK p : p = SubSeq(msg, 1, Len(msg))
        OBVIOUS
      <4>4. p \in Seq(D) /\ Len(p) = Len(msg) /\ \A k \in 1..Len(p) : p[k] = msg[k]
        BY <4>2, <4>3
      <4>5. p = msg
        BY <4>2, <4>4, SameSeq
      <4> QED BY <3>3, <4>3, <4>5
    <3> QED BY <3>4, <1>6 DEF Text
  <2> QED BY <2>1, <2>2
<1>8. EndLine(line, size) = Append(Cut(Text, size - 2), "\n")
  BY <1>3, <1>7, EndLineIs
<1>9. Text' = Text
  BY <1>2 DEF Text
<1>10. LineKept'
  BY <1>2, <1>8, <1>9 DEF LineKept
<1>11. CallType' /\ FormatIsCutText' /\ ErrText'
  BY <1>1, <1>2 DEF CallType, FormatIsCutText, ErrText
<1> QED BY <1>10, <1>11 DEF TextInv

\* The line is repeated on stderr.
LEMMA EchoStep ==
    ASSUME TextInv, Echo
    PROVE  TextInv'
<1>1. CallType /\ LineKept /\ pc = "echo"
  BY DEF TextInv, Echo
<1>2. pc' = "echoed" /\ UNCHANGED <<size, msg, line>>
  BY DEF Echo
<1>3. Text \in Seq(Char) /\ Tag \in Seq(Char) /\ size \in Nat /\ size >= 2
  BY <1>1, TextFacts
<1>4. PICK m \in Nat : m = size - 2
  BY <1>3
<1>5. PICK s : s = Cut(Text, m)
  OBVIOUS
<1>6. s \in Seq(Char) /\ Len(s) <= Len(Text) /\ \A k \in 1..Len(s) : s[k] = Text[k]
  <2>1. /\ s \in Seq(Char) /\ Len(Text) \in Nat
        /\ Len(s) = IF Len(Text) < m THEN Len(Text) ELSE m
        /\ \A k \in 1..Len(s) : s[k] = Text[k]
    BY <1>3, <1>5, CutFacts
  <2> QED BY <2>1
<1>7. line = Append(s, "\n")
  BY <1>1, <1>4, <1>5 DEF LineKept
<1>8. SubSeq(line, 1, Len(line) - 1) = s
  <2>1. PICK c \in Char : c = "\n"
    BY CharAssumption DEF OwnChars
  <2>2. PICK z : z = Append(s, c)
    OBVIOUS
  <2>3. z \in Seq(Char) /\ Len(z) = Len(s) + 1 /\ Len(s) \in Nat /\ \A k \in 1..Len(s) : z[k] = s[k]
    BY <2>2, <1>6
  <2>4. PICK p : p = SubSeq(z, 1, Len(s))
    OBVIOUS
  <2>5. p \in Seq(Char) /\ Len(p) = Len(s) /\ \A k \in 1..Len(s) : p[k] = z[k]
    BY <2>3, <2>4
  <2>6. \A k \in 1..Len(s) : p[k] = s[k]
    BY <2>3, <2>5
  <2>7. p = s
    BY <2>5, <2>6, <1>6, SameSeq
  <2>8. Len(z) - 1 = Len(s)
    BY <2>3
  <2> QED BY <2>1, <2>2, <2>4, <2>7, <2>8, <1>7
<1>9. err' = IF Contains(s, "%") THEN <<"?">> ELSE EndLine(Cut(Tag \o s, size), size)
  BY <1>8 DEF Echo
<1>10. ASSUME ~Contains(Text, "%") PROVE ~Contains(s, "%")
  <2>1. \A k \in 1..Len(Text) : Text[k] # "%"
    BY <1>10 DEF Contains
  <2>2. \A k \in 1..Len(s) : k \in 1..Len(Text)
    BY <1>3, <1>6
  <2>3. \A k \in 1..Len(s) : s[k] # "%"
    BY <2>1, <2>2, <1>6
  <2> QED BY <2>3 DEF Contains
<1>11. EndLine(Cut(Tag \o s, size), size) = Append(Cut(Tag \o s, size - 2), "\n")
  <2>1. Tag \o s \in Seq(Char)
    BY <1>3, <1>6, Concat
  <2> QED BY <2>1, <1>3, EndLineIs
<1>12. Text' = Text
  BY <1>2 DEF Text
<1>13. ErrText'
  <2>1. ~Contains(Text, "%") => err' = Append(Cut(Tag \o s, size - 2), "\n")
    BY <1>9, <1>10, <1>11
  <2>2. s = Cut(Text, size - 2)
    BY <1>4, <1>5
  <2> QED BY <2>1, <2>2, <1>2, <1>12 DEF ErrText
<1>14. LineKept'
  BY <1>1, <1>2, <1>12 DEF LineKept
<1>15. CallType' /\ FormatIsCutText'
  BY <1>1, <1>2 DEF CallType, FormatIsCutText
<1> QED BY <1>13, <1>14, <1>15 DEF TextInv

\* mgx_log returns.
LEMMA ReturnStep ==
    ASSUME TextInv, Return, size' = size
    PROVE  TextInv'
<1>1. CallType
  BY DEF TextInv
<1>2. pc' = "idle" /\ line' = <<>>
  BY DEF Return
<1> QED BY <1>1, <1>2 DEF TextInv, CallType, FormatIsCutText, LineKept, ErrText

\* The line is written, and mgx_log goes on or returns.
LEMMA WriteOkStep ==
    ASSUME TextInv, WriteOk
    PROVE  TextInv'
<1>1. CallType /\ LineKept /\ pc = "write" /\ size' = size
  BY DEF TextInv, WriteOk
<1>2. CASE Return
  BY <1>1, <1>2, ReturnStep
<1>3. CASE pc' = "echo" /\ UNCHANGED <<level, msg, i, line, err>>
  <2>1. Text' = Text
    BY <1>3 DEF Text
  <2> QED BY <1>1, <1>3, <2>1 DEF TextInv, CallType, FormatIsCutText, LineKept, ErrText
<1> QED BY <1>2, <1>3 DEF WriteOk

\* The steps that leave the call alone.
LEMMA CallKept ==
    ASSUME TextInv, UNCHANGED <<size, call>>
    PROVE  TextInv'
<1>1. UNCHANGED <<size, pc, msg, i, line, err>>
  BY DEF call
<1>2. Text' = Text
  BY <1>1 DEF Text
<1> QED BY <1>1, <1>2 DEF TextInv, CallType, FormatIsCutText, LineKept, ErrText

\* Every step keeps what is known of the line.
LEMMA TextStep == TextInv /\ [Next]_vars => TextInv'
<1> SUFFICES ASSUME TextInv, [Next]_vars PROVE TextInv'
  OBVIOUS
<1>1. CASE LogInit \/ Daemon \/ Fork \/ OpenOther \/ CloseOther
  BY <1>1, CallKept DEF LogInit, Daemon, Fork, OpenOther, CloseOther
<1>2. CASE \E l \in 0..LogLevel, f \in Formats : Log(l, f)
  BY <1>2, LogStep
<1>3. CASE Format
  BY <1>3, FormatStep
<1>4. CASE FormatEnd
  BY <1>4, FormatEndStep
<1>5. CASE WriteOk
  BY <1>5, WriteOkStep
<1>6. CASE WriteFails
  BY <1>6, ReturnStep DEF WriteFails
<1>7. CASE Echo
  BY <1>7, EchoStep
<1>8. CASE Echoed
  BY <1>8, ReturnStep DEF Echoed
<1>9. CASE UNCHANGED vars
  BY <1>9, CallKept DEF vars, call
<1> QED BY <1>1, <1>2, <1>3, <1>4, <1>5, <1>6, <1>7, <1>8, <1>9 DEF Next

\* For every format, every argument, any sizes of int, long and buffer: what
\* mgx_vslprintf has put into the buffer is the beginning of the text that the
\* directives so far stand for, and it never writes behind last: not in the middle
\* of a number, its padding, its sign or its fraction, nor of a string.
THEOREM FormatCorrect == Spec => []FormatIsCutText
<1>1. TextInv => FormatIsCutText
  BY DEF TextInv
<1> QED BY <1>1, TextInit, TextStep, PTL DEF Spec

\* What is known of the line is enough: it fits in the buffer with its zero byte.
LEMMA LineImplied ==
    ASSUME TextInv
    PROVE  LineIsText
<1>1. CallType /\ FormatIsCutText /\ LineKept /\ ErrText
  BY DEF TextInv
<1>2. Len(line) + (IF pc = "format" THEN 0 ELSE 1) <= size
  <2>1. CASE pc = "idle"
    <3>1. line = <<>>
      BY <2>1, <1>1 DEF CallType
    <3>2. size \in Nat /\ size >= 1
      <4>1. size \in Nat /\ size >= Len(Header) + 2 /\ Header \in Seq(Char)
        BY <1>1, SizeAssumption, TextAssumption DEF CallType
      <4>2. Len(Header) \in Nat
        BY <4>1
      <4> QED BY <4>1, <4>2
    <3> QED BY <2>1, <3>1, <3>2
  <2>2. CASE pc = "format"
    <3>1. Sound(msg) /\ Header \in Seq(Char) /\ size \in Nat
      BY <2>2, <1>1, TextFacts
    <3>2. Len(msg) \in Nat
      BY <3>1, TextsType
    <3>3. PICK j \in 0..Len(msg) : j = i - 1
      BY <2>2, <3>2, <1>1 DEF CallType
    <3>4. PICK g : Texts(g, msg)
      BY <3>1, TextsExist
    <3>5. TextOfAll(SubSeq(msg, 1, j)) = g[j]
      BY <3>1, <3>4, PrefixText
    <3>6. g[j] \in Seq(Char)
      BY <3>4 DEF Texts
    <3>7. PICK u : u = Header \o g[j]
      OBVIOUS
    <3>8. u \in Seq(Char)
      BY <3>1, <3>6, <3>7, Concat
    <3>9. line = Cut(u, size)
      BY <2>2, <3>3, <3>5, <3>7, <1>1 DEF FormatIsCutText
    <3>10. Len(u) \in Nat /\ Len(line) = IF Len(u) < size THEN Len(u) ELSE size
      BY <3>1, <3>8, <3>9, CutFacts
    <3> QED BY <2>2, <3>1, <3>10
  <2>3. CASE pc \in {"write", "echo", "echoed"}
    <3>1. Text \in Seq(Char) /\ size \in Nat /\ size >= 2
      BY <2>3, <1>1, TextFacts
    <3>2. PICK m \in Nat : m = size - 2
      BY <3>1
    <3>3. PICK s : s = Cut(Text, m)
      OBVIOUS
    <3>4. s \in Seq(Char) /\ Len(Text) \in Nat /\ Len(s) = IF Len(Text) < m THEN Len(Text) ELSE m
      BY <3>1, <3>3, CutFacts
    <3>5. PICK c \in Char : c = "\n"
      BY CharAssumption DEF OwnChars
    <3>6. line = Append(s, c)
      BY <2>3, <3>2, <3>3, <3>5, <1>1 DEF LineKept
    <3>7. Len(line) = Len(s) + 1
      BY <3>4, <3>6
    <3>8. Len(s) \in Nat /\ Len(s) <= m
      BY <3>4
    <3>9. Len(line) + 1 <= size
      BY <3>1, <3>2, <3>7, <3>8
    <3>10. pc # "format"
      BY <2>3
    <3> QED BY <3>9, <3>10
  <2> QED BY <2>1, <2>2, <2>3, <1>1 DEF CallType
<1>3. pc \in {"write", "echo"} => line = Append(Cut(Header \o TextOfAll(msg), size - 2), "\n")
  BY <1>1 DEF LineKept, Text
<1>4. pc = "echoed" /\ ~Contains(Header \o TextOfAll(msg), "%") =>
         err = Append(Cut(Tag \o Cut(Header \o TextOfAll(msg), size - 2), size - 2), "\n")
  BY <1>1 DEF ErrText, Text
<1> QED BY <1>2, <1>3, <1>4 DEF LineIsText

\* For every message and size of the buffer, a line that mgx_log writes is the
\* message, cut where the newline and the zero byte must have room, and mgx_log_stderr
\* shows the same text behind its tag, unless the text is a format itself.
THEOREM LineCorrect == Spec => []LineIsText
<1> QED BY LineImplied, TextInit, TextStep, PTL DEF Spec
=============================================================================
