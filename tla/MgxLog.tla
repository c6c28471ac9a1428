------------------------------- MODULE MgxLog -------------------------------
(***************************************************************************)
(* The log of one process: the line that mgx_log puts together in a buffer *)
(* of fixed size, and the descriptor it writes to, from start-up through   *)
(* mgx_daemon and fork to a master that rotates the log or a worker that   *)
(* opens and closes other descriptors.                                     *)
(***************************************************************************)
EXTENDS MgxPrintf

CONSTANTS Formats,    \* formats, with their arguments, that are logged
          Header,     \* time, tag and pid that start a line
          Tag,        \* STD_ERR_TAG
          Sizes,      \* MGX_MAX_LOG_STR_SIZE
          LogLevel,   \* the configured level
          MaxFd       \* bound: descriptor numbers 0..MaxFd

ASSUME SizeAssumption ==
    \A n \in Sizes : n \in Nat /\ n >= Len(Header) + 2 /\ n >= Len(Tag) + 2

ASSUME TextAssumption ==
    /\ Header \in Seq(Char) /\ Tag \in Seq(Char)
    /\ \A f \in Formats : f \in Seq(DirectiveSet) /\ \A k \in 1..Len(f) : Fits(f[k])

ASSUME FdAssumption == MaxFd \in Nat

Stderr == 2
NoFd == -1
Number0 == 0..MaxFd

VARIABLES role,       \* "start", "daemon", and then "master" or "worker"
          tab,        \* kernel: what every descriptor number refers to
          fd,         \* g_mgx_log.fd
          broken,     \* history: a write failed and fd was closed, not reset
          debug,      \* g_mgx_log.debug_mode
          size,       \* MGX_MAX_LOG_STR_SIZE
          pc,         \* place in mgx_log
          level, msg, i, \* its arguments and the next directive
          line,       \* log_str_buf up to p
          err         \* err_str_buf of mgx_log_stderr up to p

call == <<pc, level, msg, i, line, err>>
vars == <<role, tab, fd, broken, debug, size, pc, level, msg, i, line, err>>

Init ==
    /\ role = "start"
    /\ tab = [n \in Number0 |-> IF n <= Stderr THEN "std" ELSE "closed"]
    /\ fd = NoFd /\ broken = FALSE
    /\ debug \in BOOLEAN /\ size \in Sizes
    /\ pc = "idle" /\ level = 0 /\ msg = <<>> /\ i = 1 /\ line = <<>> /\ err = <<>>

-----------------------------------------------------------------------------
(* Descriptors. *)

CloseFd(t, n) == IF n \in Number0 THEN [t EXCEPT ![n] = "closed"] ELSE t

\* open and accept take the lowest number that is free.
Lowest(t) == CHOOSE n \in Number0 : t[n] = "closed" /\ \A m \in 0..(n - 1) : t[m] # "closed"
HasRoom(t) == \E n \in Number0 : t[n] = "closed"

\* Mutant: the old file is not closed when the log is opened again.
LogInit_KeepsOld ==
    /\ pc = "idle"
    /\ (role = "start" /\ fd = NoFd) \/ role = "master"
    /\ \/ HasRoom(tab) /\ fd' = Lowest(tab) /\ tab' = [tab EXCEPT ![Lowest(tab)] = "file"]
       \/ fd' = Stderr /\ tab' = tab
    /\ broken' = FALSE
    /\ UNCHANGED <<role, debug, size, call>>

\* mgx_log_init: in main, and in the master when SIGUSR1 asks for a rotation.
\* If the file cannot be opened, stderr is the log.
LogInit ==
    /\ pc = "idle"
    /\ (role = "start" /\ fd = NoFd) \/ role = "master"
    /\ LET t == IF fd \in {NoFd, Stderr} THEN tab ELSE CloseFd(tab, fd) IN
          \/ HasRoom(t) /\ fd' = Lowest(t) /\ tab' = [t EXCEPT ![Lowest(t)] = "file"]
          \/ fd' = Stderr /\ tab' = t
    /\ broken' = FALSE
    /\ UNCHANGED <<role, debug, size, call>>

\* mgx_daemon in the child: 0, 1 and 2 are closed, /dev/null gets the number 0,
\* is duplicated to 1 and 2, and 0 is closed again.
Daemon ==
    /\ pc = "idle"
    /\ role = "start" /\ fd # NoFd
    /\ role' = "daemon"
    /\ LET closed == [n \in Number0 |-> IF n <= Stderr THEN "closed" ELSE tab[n]]
           null == Lowest(closed)
       IN  tab' = [n \in Number0 |-> IF n \in {1, Stderr} THEN "null"
                                     ELSE IF n = null THEN "closed" ELSE closed[n]]
    /\ UNCHANGED <<fd, broken, debug, size, call>>

\* mgx_process_cycle forks the workers, with or without mgx_daemon before it.
Fork ==
    /\ pc = "idle"
    /\ role \in {"start", "daemon"} /\ fd # NoFd
    /\ role' \in {"master", "worker"}
    /\ UNCHANGED <<tab, fd, broken, debug, size, call>>

\* A worker opens a socket, accepts a connection, or closes one of its own.
OpenOther ==
    /\ pc = "idle" /\ role = "worker"
    /\ HasRoom(tab)
    /\ tab' = [tab EXCEPT ![Lowest(tab)] = "other"]
    /\ UNCHANGED <<role, fd, broken, debug, size, call>>

CloseOther ==
    /\ pc = "idle" /\ role = "worker"
    /\ \E n \in Number0 : tab[n] = "other" /\ tab' = [tab EXCEPT ![n] = "closed"]
    /\ UNCHANGED <<role, fd, broken, debug, size, call>>

-----------------------------------------------------------------------------
(* mgx_log *)

\* A message that the level lets through; the line starts with the header.
Log(l, f) ==
    /\ pc = "idle"
    /\ l <= LogLevel
    /\ pc' = "format" /\ level' = l /\ msg' = f /\ i' = 1
    /\ line' = Header /\ err' = <<>>
    /\ UNCHANGED <<role, tab, fd, broken, debug, size>>

More == i <= Len(msg) /\ Len(line) < size

Format ==
    /\ pc = "format" /\ More
    /\ line' = Directive(line, size, msg[i])
    /\ i' = i + 1
    /\ UNCHANGED <<role, tab, fd, broken, debug, size, pc, level, msg, err>>

\* Mutant: the buffer is taken to be full one character late.
EndLine_Late(s, n) == Append(IF Len(s) >= n THEN SubSeq(s, 1, n - 2) ELSE s, "\n")

\* The end of the line: a newline and, not counted, a zero byte, for which the
\* last characters of a full buffer give way.
EndLine(s, n) == Append(IF Len(s) >= n - 1 THEN SubSeq(s, 1, n - 2) ELSE s, "\n")

FormatEnd ==
    /\ pc = "format" /\ ~More
    /\ line' = EndLine(line, size)
    /\ pc' = "write"
    /\ UNCHANGED <<role, tab, fd, broken, debug, size, level, msg, i, err>>

\* mgx_log returns: its arguments and buffers are gone.
Return == pc' = "idle" /\ level' = 0 /\ msg' = <<>> /\ i' = 1 /\ line' = <<>> /\ err' = <<>>

\* A line of level stderr, and in debug mode every line, goes to stderr too.
WriteOk ==
    /\ pc = "write"
    /\ fd \in Number0 /\ tab[fd] # "closed"
    /\ IF level = 0 \/ debug
       THEN pc' = "echo" /\ UNCHANGED <<level, msg, i, line, err>>
       ELSE Return
    /\ UNCHANGED <<role, tab, fd, broken, debug, size>>

\* A failed or short write: the descriptor is closed, unless it is stderr, its
\* number stays in g_mgx_log.fd, and the line is written to stderr instead.
WriteFails ==
    /\ pc = "write"
    /\ IF fd = Stderr THEN UNCHANGED <<tab, broken>>
       ELSE tab' = CloseFd(tab, fd) /\ broken' = (fd # NoFd)
    /\ Return
    /\ UNCHANGED <<role, fd, debug, size>>

\* mgx_log_stderr((char *)log_str_buf): the line, without its newline, is the
\* format.  One with a % in it takes arguments that were not passed.
Echo ==
    /\ pc = "echo"
    /\ LET text == SubSeq(line, 1, Len(line) - 1)
           full == Cut(Tag \o text, size)
       IN  err' = IF Contains(text, "%") THEN <<"?">> ELSE EndLine(full, size)
    /\ pc' = "echoed"
    /\ UNCHANGED <<role, tab, fd, broken, debug, size, level, msg, i, line>>

Echoed ==
    /\ pc = "echoed"
    /\ Return
    /\ UNCHANGED <<role, tab, fd, broken, debug, size>>

Next ==
    \/ LogInit
    \/ Daemon
    \/ Fork
    \/ OpenOther
    \/ CloseOther
    \/ \E l \in 0..LogLevel, f \in Formats : Log(l, f)
    \/ Format
    \/ FormatEnd
    \/ WriteOk
    \/ WriteFails
    \/ Echo
    \/ Echoed

Spec == Init /\ [][Next]_vars

-----------------------------------------------------------------------------
(* Properties. *)

\* mgx_vslprintf never writes behind last, whatever is cut: a number in its
\* padding or its digits, a minus sign, a fraction or a string; what the buffer
\* holds is the beginning of the text that the directives stand for, also when
\* integers wrap at the ends of their range and fractions carry.
FormatIsCutText ==
    pc = "format" => line = Cut(Header \o TextOfAll(SubSeq(msg, 1, i - 1)), size)

\* A line is the text, cut so that the newline and the zero byte behind it fit
\* in the buffer, and what stderr shows of it is the same text again.
LineIsText ==
    LET text == Header \o TextOfAll(msg) IN
    /\ pc \in {"write", "echo"} => line = Append(Cut(text, size - 2), "\n")
    /\ Len(line) + (IF pc = "format" THEN 0 ELSE 1) <= size
    /\ pc = "echoed" /\ ~Contains(text, "%") => err = Append(Cut(Tag \o Cut(text, size - 2), size - 2), "\n")

\* As long as no write has failed, the number in g_mgx_log.fd refers to the log
\* file (or the log is stderr), whatever is opened and closed beside it, and no
\* other number does: the file is not leaked when the log is rotated.
FdIsLog ==
    ~broken => \A n \in Number0 : (n = fd /\ fd # Stderr) <=> tab[n] = "file"
=============================================================================
