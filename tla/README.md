# Mgx: a TLA+ model of the server

Mgx is a network server framework: a master process forks workers; every worker
runs an epoll event loop, a pool of threads for the requests, one thread that
sends replies, one that recycles connections and, with heartbeats, one that
closes silent connections. This directory holds TLA+ modules of that machinery,
the TLC configurations that check them and TLAPS proofs for the modules whose
properties were worth having for every number of threads, workers or bytes.

Paths such as `net/mgx_socket.cpp` are relative to the repository's root.

## 1. The system

### Components

| component | code | state | operations |
|---|---|---|---|
| master process, signals | `process/mgx_process_cycle.cpp`, `signal/mgx_signal.cpp` | worker processes, pending signals, `g_mgx_reap`, `g_mgx_log_rotate` | fork workers, `sigsuspend`, handlers, `waitpid`, revive, reopen the log |
| thread pool | `misc/mgx_thread_pool.cpp`, `misc/mgx_thread.cpp` | message queue, its counter, the semaphore, `m_running_cnt`, `m_shutdown` | `create`, `insert_msg_to_queue_and_signal`, `th_func`, `destory_all` |
| connection pool, event dispatch | `net/mgx_socket_conn.cpp`, `net/mgx_socket.cpp`, `net/mgx_socket_accept.cpp` | free queue, recovery set, their counters, every `mgx_conn_t` (`fd`, `instance`, `m_cur_seq`) | accept, `get_conn`, dispatch, `close_conn`, `insert_recy_conn_queue`, the recycler |
| heartbeat timers | `net/mgx_socket_time.cpp` | `m_timer_queue` and its head time | add, expire, close, delete |
| TCP receiving side | `net/mgx_socket_request.cpp` | `recv_stat`, `hdr_buf`, `precv_buf`, `rest_recv_size`, `precv_mem_addr` | `_read_request_handler` and its two steps |
| send queue | `net/mgx_socket.cpp`, `net/mgx_socket_request.cpp` | `m_send_list`, its counter and semaphore, `psend_buf`, `rest_send_size`, `psend_mem_addr`, `throw_send_cnt` | `send_msg`, `send_msg_th_func`, `send_msg_handler` |
| TCP business logic | `bussiness/mgx_logic_socket.cpp`, `misc/mgx_crc32.cpp` | `last_ping_time` | dispatch by type; ping, register, login |
| HTTP mode | `http/mgx_http_socket.cpp` | a request being read, on the stack | read and parse a request, answer it |
| coroutines, cosocket | `misc/mgx_coroutine*.cpp`, `misc/mgx_cosocket.cpp`, `misc/mgx_io.cpp` | ready list, sleep tree, epoll registrations, the current coroutine | spawn, resume, yield, `msleep`, exit, accept, recv, send, connect, close |
| log | `app/mgx_log.cpp`, `app/mgx_printf.cpp` | the log descriptor, one per process; the line being built | open, format, write, echo |
| start-up, daemon | `app/mgx.cpp`, `process/mgx_daemon.cpp` | descriptors 0 to 2 | close, `/dev/null`, fork |
| MySQL wrapper | `misc/mgx_mysql.cpp`, `include/mgx_mysql.h` | per connection: `_state`, `_res`, `field_num` | connect, `excute_sql`, `display__res`, `query_table` |
| configuration, process title | `app/mgx_conf.cpp`, `app/mgx_setproctitle.cpp` | read once | start-up |
| Redis wrapper | `misc/mgx_redis.cpp`, `include/mgx_redis.h` | a client handle per connection | get, set |

### How they interact

* The event loop takes a connection object from the pool for every peer and
  registers its address, tagged with `instance` in the lowest bit, with epoll.
* What it has received becomes a buffer whose message header names the
  connection and its `m_cur_seq` at that time. The buffer goes to the thread pool.
* A pool thread handles it and pushes a reply, with the same header, on the send
  list. The send thread compares the header with the connection and sends. What
  the socket does not take is finished by the event loop after EPOLLOUT.
* Meanwhile the event loop (hang-up), the timer thread (silence) and the recycler
  close and reuse connection objects, while requests, replies and timer entries
  still point to them; `m_cur_seq` is all that tells old from new.
* An HTTP handler asks the database through the object of its connection before it
  answers. Handlers of the same connection share that object, without a lock.
* A coroutine runs until it switches back to the scheduler, having put itself into
  exactly one of ready list, sleep tree and epoll; those hold raw pointers.
* Processes share nothing but signals and the log file.

### What is hard here

Fields of `mgx_conn_t` are shared by four threads with no lock or with different
locks. Descriptor numbers are reused as soon as they are closed. Counters are
tested without the mutex that protects the containers they count. Signals do
not queue, interrupt `sem_wait`, and are delivered only inside `sigsuspend`.
TCP cuts the stream anywhere, and `send` takes a part. `PROJECT.json` lists the
hazards line by line, with the properties that cover each.

What makes each component correct: the pool hands every message to exactly one thread and
forgets none; the master collects every dead worker and answers no death twice; a
connection object is in one place and its descriptor is its own peer's; the packages
delivered are those of the stream, in any fragmentation; replies reach their peer whole
and in order; silent peers are recycled in time and talking ones are not; an HTTP request
is answered with its own file or body, and one thread at a time is in the database client;
a coroutine that can go on is resumed, once, and not much too late; what is logged is the
text, cut to the buffer, and goes to the log.

## 2. The modules

| module | models | composed with |
|---|---|---|
| `MgxHandoff` | what the pool promises: a FIFO whose elements are taken once and released once | abstract specification of `MgxThreadPool` |
| `MgxThreadPool` | the thread pool | refines `MgxHandoff` |
| `MgxMaster` | the master, its signal handlers, the workers seen from outside | |
| `MgxConnPool` | connection pool, epoll, event loop, recycler, timer thread | |
| `MgxPkgRecv` | the receive state machine of one connection | |
| `MgxSendQueue` | send list, send thread, EPOLLOUT handler, with closing and reuse underneath | |
| `MgxHeartbeat` | the timer queue with a clock, the monitor thread, the dispatch of packages and the PING handler | the objects and the closing order it leaves out are in `MgxConnPool` |
| `MgxMysql` | the database object of a connection, as several threads use it | part of `MgxHttp` |
| `MgxHttp` | HTTP mode: request reader, hand-over, query, answers | extends `MgxMysql`; the pool behind it is `MgxThreadPool` reduced to a set |
| `MgxCoroutine` | coroutines, their scheduler, sockets that suspend | |
| `MgxPrintf` | `mgx_vslprintf` as operators, and a reference for what a directive stands for | used by `MgxLog` |
| `MgxLog` | the line `mgx_log` builds, and the log descriptor from start-up to master and worker | extends `MgxPrintf` |
| `Mgx*_proofs` | theorems | |
| `MC*` | symmetry sets and constant functions for TLC | |

Variables carry the names of the code or a comment with them, and
`PROJECT.json`'s `map` gives the lines of every definition. Operators with a
suffix, as in `Pop_KeepsFront`, directly in front of the definition they vary,
are mutants: versions with a plausible mistake, which the property named with
them in `PROJECT.json` must reject.

### MgxThreadPool

`pc[t]` is a thread's place in `th_func`: `"wait"` before `sem_wait`, `"check"`
before the unlocked test of `m_msg_queue_size`, `"lock"` before the critical
section, `"popped"` and `"run"` around the start of the handler. The push and the post of
`insert_msg_to_queue_and_signal` are two steps. An interrupted `sem_wait`
(`SemWaitInterrupted`, at most `MaxEintr`) lets a thread through without a
token, because `th_func` ignores the result. `front()` on an empty queue is
undefined behaviour: the thread goes to `"undefined"` and stops. The handler is
opaque. A failing `pthread_create` leads, through `exit`, to the static
destructor (`CreateFails`).

### MgxMaster

A pending signal is one bit. The master is in `sigsuspend` (`"suspend"`), in a
handler (`"chld"`, `"usr1"`, `"usr1chld"` for SIGCHLD on top of SIGUSR1) or in
its loop (`"loop"`, `"loop2"`). Every `waitpid` is a step, so workers die inside
the handler's loop as well as between the loop's tests. A worker is `"init"`,
`"serving"`, `"stuck"` (its initialisation failed and it stays) or `"zombie"`.
`WorkerStops` is a SIGCHLD that no death causes (`SA_NOCLDSTOP` is not set). The
rotation is the date of the file the master writes to. The specification is
`MasterSpec`, with `MasterInit` and `MasterNext`, so that its proofs can share a module
with the pool's.

### MgxConnPool

The kernel is explicit: `fdtab` says which peer is behind a descriptor number,
`interest` what epoll hands back for it. `mpc` and `mc` are the event loop's place
and connection, `tpc` and `tc` the timer thread's, `it` the recycler's iterator.
`close`, `recv`, `epoll_wait` and each critical section are single steps, so a
descriptor can be reused between a `close` and what the closing thread does
next. `sess[c]` is history, the peer the object was taken for. `stamps` holds
the `<<connection, m_cur_seq, peer>>` of every message that ever left the
receiver, which is what requests and replies in flight carry. The timer queue
is a set, and an entry may expire at any time.

### MgxPkgRecv

A byte is its position in the stream, so a buffer shows where its contents come
from; `sizeAt` is the stream as the handler sees it, the `pkg_size` of a header
that starts at each position. `recv` returns any number of bytes up to what was
asked. Reuse keeps `hdr_buf` as it is.

### MgxSendQueue

A buffer is a unit 0, the internal message header, and the units `1..PkgSize`
of the package. `wire[c]` is what the peer receives, unit by unit. Every access
to a connection's send fields that the other thread can see is a step of its
own. `send` may take all, a part, nothing (EAGAIN) or fail. In the stale branch
the code deletes `*it` after `erase`: the next reply's buffer, or `*end()`, after
which the worker may crash at any time (`Crash`).

### MgxHeartbeat

`now` is what `time()` returns. `queue` is the multimap, `head` the cached
`m_timer_que_head_time`, which holds anything (`HeadGarbage`) until the first entry is
added; `fresh` is history, TRUE until the sleep that began with it and the walk after it
are over. `twice` is history too: the objects that were given to a peer while they were in
the recovery set. The monitor thread sleeps until `head` (`wake`; a sleep that starts
inside a second may end in the next), takes what is due and puts it back
(`WakeForTimers`), then walks its copy: sequence test, silence test, erase and recycle are
steps of their own. Pool threads hold a message in `job` and refresh `last_ping_time` and
reply in two steps. The event loop accepts, hangs up and resets meanwhile; a reset
(`close_conn`) leaves the timer queue alone. `Tick` waits for the monitor thread and the
event loop to finish what is due in the current second; a pool thread may be late by any
time. Growing of the pool, registration failures and descriptors are `MgxConnPool`'s.

### MgxHttp

A request is the symbols `line CR LF head CR LF CR LF body...`; a piece of any
length may arrive between any two `recv`s. `pc` is the handler's place in its
three readers, `line`, `head`, `body` and `rest` what it holds on its stack, which
`Return` drops. `ReadHeadCr` is the peek for the empty line, which needs both
bytes. The two exceptional ends are actions: `EmptyBody` (Content-Length 0, taken
for a failure) and `NoBody` (a POST without Content-Length, `strcpy` from null).
Answers append the contents as a C string. `Serve` prepares the answer and calls
`query_table`, `Database` is a step of that call, `Respond` sends the answer
afterwards. Assumed of the peer: a request line
with `HTTP/`, at least one header line, and a request that fits the 8 KB buffer;
assumed of the stack: the byte behind `buf[2]` in `http_read_request_head` is 0,
otherwise `strcmp` never matches. A hang-up inside the reader is
`MgxConnPool`'s `RecvFin`.

### MgxMysql

`calls` holds the calls of `query_table` that have not returned and their place:
inside `excute_sql`, or before `display__res`. A query that fails leaves the `_res` of
an earlier one and sets `field_num` to 0; `res.names` counts the column names
`mysql_fetch_field` can still return, after which it returns a null pointer that
`display__res` would follow (`InBounds`). A result that cannot be stored is replaced
by a `MYSQL_RES` nobody has initialised (`StoreFails`). Two threads in the client
library, or a display out of bounds, are undefined: the worker may crash
(`DatabaseCrash`) or go on.

### MgxCoroutine

`pc` is the place of `schedule()`, `cur` the running coroutine, `at[c]` the place where
`c` goes on after a switch. What a coroutine does between switches is any sequence of
the library's calls. `sleep` is the tree in the order of its keys, with the time
that is left; `Tick` is a unit of time that passes in `epoll_wait`. `sock` and `avail`
are the kernel's; peers act while the scheduler is in `epoll_wait` or between the
events of a batch. Assumed of the code above: a descriptor is used by one coroutine at
a time (two on one descriptor fail the assertion on `epoll_ctl`), and a coroutine
closes or passes on its descriptors before it returns. `connect` with a timeout sleeps
and then looks; without one it waits in epoll.

### MgxPrintf and MgxLog

A format is a sequence of directives with their arguments; a directive is applied to the
text written so far and the room there is (`Directive`), integers wrap at `IntBits` and
`LongBits`. `Fits` is what a conversion asks of its argument: `%*s` of no more characters
than there are, `%f` of a number whose integer part is an `int64_t` and of a `scale` that
does not wrap. Characters are a constant, `Char`. `TextOf` says without a buffer what a
directive stands for: digits by their places instead of repeated division, the rounded
fraction from the scaled number instead of a carry. `MgxLog` applies the directives one by
one, ends the line, writes and echoes it. Beside that goes the descriptor table:
`mgx_log_init`, `mgx_daemon`, `fork`, and the sockets of a worker, which take the lowest
free number.

## 3. The runs

| run | configuration | checks |
|---|---|---|
| `pool` | 3 threads, 3 messages, 1 interruption | `WokenFindsMessage`: a thread let through finds a message. `SingleOwner`: no buffer is queued, handled or freed twice. `AlertIsTruthful`. `HandoffSpec`: refinement of `MgxHandoff`. `EveryMessageHandled`: no lost wake-up |
| `master` | 2 workers, 4 pids, 1 stop, 1 failing fork, 1 change of date | `WorkersBounded`, `NoForgottenZombie`, `ZombiesReaped`, `SomeoneRevived`, `RotationHonoured` |
| `conn_safety` | 3 objects (2 pooled), 4 peers, 2 descriptors, no heartbeat | `PoolPartition`, `FdOwnership`, `ReadsOwnPeer`, `StampOwner` |
| `conn_heartbeat` | 2 objects (1 pooled), 2 peers, 2 descriptors, heartbeat | what the timer thread leaves intact: `CountersMatch`, `SeqAdvances`, `RecyReturned` |
| `recv_framing` | header 2, limit 4, streams of 6 bytes | `WritesInBounds`, `NoLeak`, `DeliveredWhole`, and `DeliveredIsParse` against a reference parser |
| `send` | 3 replies on 2 connections, 2 short sends, 1 close | `UnfinishedIsArmed`: a connection whose replies are passed over has EPOLLOUT armed. While sockets take what they are given: `NoLostBuffer`, `WireIsFifo`. While no send was short: `NoReplyLeft`, the send thread does not sleep over a reply |
| `heartbeat` | 2 objects, 2 accepts, 1 message at a time, period 1 s, 6 s, a first head time of 0 or 3 | `SilentIsRecycled`: a silent peer is recycled within four periods and a second, once the monitor thread has slept and looked for the first time. `AnsweredIsKept`: a peer whose PING was answered is not found silent for three periods. `EntriesAreCurrent`: no entry of a past peer in the queue while nothing was reset |
| `http` | 2 requests out of 8, 2 cuts inside requests | `DeliveredIsRequest`, `ResponseIsRight`: what is handed over and sent back belongs to a request of the peer and is exactly its body or file, unless the peer both cuts requests and does not wait for answers. `WholeIsAnswered`: a request that arrives whole is answered. `SqlIsSafe`: while the peer waits for its answers one thread at a time is in the database object, and `display__res` stays in bounds, also after failed queries |
| `coroutine` | 2 coroutines, 2 descriptors, delays 0, 1 and 3 with a default timeout of 2 | `OneHome`: a coroutine is in exactly one place of the scheduler. `EpollAssertsHold`. `BoundedLateness`: place i of the sleep tree is at most n - i + 1 timeouts late. `EveryoneResumed`: whoever can go on is resumed, unless its socket fails |
| `log` | 4-bit ints, 8-bit longs, buffers of 3, 5 and 8 characters, descriptors 0 to 4 | `FormatIsCutText`: the buffer holds the beginning of the text and nothing behind its end. `LineIsText`: newline and zero byte fit, the echo is the same text. `FdIsLog`: until a write fails, the log descriptor is the log and nothing else is |

Two runs show where the code and the repository's own words disagree:

| run | property | what happens |
|---|---|---|
| `master_revive` | `AllRevived` | two deaths behind one SIGCHLD are answered by one fork |
| `send_partial` | `WireIsPackages` | the rest of a short send is taken from the start of the buffer, internal header included |

### Bounds

Each bound is a constant used in a guard. *Pool*: three threads and as many
messages let a thread come back for a second message while another is between
the unlocked test and the pop, and a third is parked; one interruption suffices
for a thread without a token, since `WokenFindsMessage` is about runs without any
and liveness must survive one. *Master*: two workers give two deaths per signal;
four pids leave room for the worker of a stop and for zombies not yet collected,
so fork is never stopped by the model (the run checks deadlock). *Connections*: more
peers than objects and than descriptors make every object and every number be
reused; one object outside the pool makes it grow. *Receiver*: six bytes hold
three header-only packages, or one with a body and one without, a wrong size
anywhere and an incomplete tail. *Sender*: two replies on one connection and one
on another give order, passing over, and an innocent reply behind a stale one.
*Heartbeats*: with a period of one second, six seconds are more than the three
periods of silence, the period until the next look and the second of slack; two
accepts on two objects give two entries in the queue and the reuse of an object; a
head time of 3 before the first entry makes the first sleep last past entries that are
due (the theorem is for any head time). The
period is the constant `Wait` (the code forces at least 5 s). *HTTP*: a request
behind another one shows what the handler leaves in the socket; two cuts put
one into each of two requests, or both into one; the second request finds the result
set of the first. *Coroutines*: with two, one can spawn, starve or outlive the
other and each can hold a socket; delays of none, below and above the default timeout
make sleepers of equal and of different times, late and early ones. *Log*: the
smallest buffers cut every directive at every place; 4 and 8 bits have the smallest and
largest values, where negation wraps; 5 descriptor numbers leave a worker two of its own.

Deadlock checking is off where the system may stop: an idle pool or worker waits
for ever, and peers are bounded. `MgxMaster`, `MgxPkgRecv`,
`MgxCoroutine` and `MgxLog` keep it on.

### Fairness

* Pool: weak fairness of every thread (the kernel schedules it, a handler
  returns), of the post after a push, of the joins. None for interruptions, for
  the owner's pushes or for destruction.
* Master: weak fairness of its own steps; strong fairness of the two deliveries,
  since `sigsuspend` delivers all pending unblocked signals each time, in an order the
  code does not choose. None for deaths, stops, requests or the date.
* Connections: weak fairness of the recycler, a thread in a loop with a 200 ms
  sleep, and of time.
* Heartbeats: no fairness; that the monitor thread and the event loop do within
  a second what is due is part of `Tick`, since a bound on time needs one.
* HTTP: weak fairness of the event loop (epoll is level-triggered, so a socket
  with bytes is reported again) and of the pool threads; none of the peer.
* Coroutines: weak fairness of `schedule()`, which `main` calls in an endless loop, and
  of the running coroutine's next switch, since the library is cooperative; strong
  fairness of time, because signals may interrupt `epoll_wait` again and again but do
  not stop the clock. None of peers.
* Sender and log: safety only.

## 4. The proofs

Each module's constants carry named assumptions (finite non-empty sets, sizes that
are naturals, a header that fits `hdr_buf`); the runs evaluate them.

**`MgxProcess_proofs`**, the pool: for any finite set of threads and any set of messages.
`WokenFindsMessage` is not inductive: that a thread past the semaphore finds a
message depends on all the others that are past it. The strengthening is
`TokenAccount`: tokens of the semaphore, threads let through and not yet at the
pop, and a post the owner still owes add up to the length of the queue, as long
as no wait was interrupted. With it go `SizeIsLength`, `RunningCount`
(`m_running_cnt` is the number of threads in a handler) and `SingleOwner`.
Theorems: `TypeCorrect`, `WokenCorrect`, `SingleOwnerCorrect`, `AlertCorrect`,
and `ImplementsHandoff`, that every step is one of `MgxHandoff` or leaves its
variables alone.

The master, in the same module: for any number of workers and pids. `ForksPaid` balances
the workers alive, the flag `g_mgx_reap` and the SIGCHLD that is pending or being handled
against the configured number and the stops so far; that gives `WorkersCorrect`.
`ZombieCorrect` is inductive with the types (`MasterTypeCorrect`).

**`MgxPkgRecv_proofs`**, for every header size, limit, stream and fragmentation.
`pos - off` is where the package being received began. `HeaderPart` and
`BodyPart` say that the buffer up to `off` holds the run of the stream from
there, `BehindDelivered` that this is behind everything delivered. Theorems:
`TypeCorrect`, `InBoundsCorrect` (no `recv` writes outside its buffer, whatever
sizes are announced), `NoLeakCorrect`, `WholeCorrect`. `ParseCorrect` adds that nothing is
missing: `ParsePart` says that, up to any limit that is not before `Begin`, the reference
parse of the stream is what was delivered followed by the parse from `Begin`. A delivery
moves `Begin` over exactly one package of that parse.

**`MgxHttp_proofs`**, for any requests, any number of them, any files, any number of
columns and any way to cut the stream. The code keeps no position in the stream; `Pos` is
what was sent less what is in the socket. `SockPart` says that the socket holds the stream
behind `Pos`; `LinePart`, `HeadPart` and `BodyPart` say for each place of the handler how
far into its request `Pos` is and what it holds; `NewPart` and `DeliveredPart` that
requests are handed over once, in order and behind `Pos`; `PoolPart` that what the threads
work on was handed over and is not answered. `HeadPlace` has the case the code does not
mean: the peek for the empty line found one byte, and the handler reads the rest of the
request as header lines until the socket is empty. A peer that waits stops there, one
that pipelines does not, hence the condition of the properties (`Steady`). Theorems:
`DeliveredCorrect`, `ResponseCorrect`, and `SqlCorrect`, by `PeerPart`: while the peer
waits, no request begins to arrive before those in front of it are answered, so at most
one call of `query_table` is there.

**`MgxSendQueue_proofs`**, for any connections and replies and any number of short
sends, errors and closings. `UnfinishedIsArmed` (a connection whose replies are passed
over is armed for EPOLLOUT or being finished) is inductive once `EventIsClosed` is
added: the handler that epoll calls after `r_handler` has closed the connection finds it
closed, since only the event loop, which is in the handler, opens it again. Without
that the handler could be left with a connection that is new and not armed. Theorem:
`ArmedCorrect`. The other three properties rest on the types (`TypeCorrect`) and hold in
layers. `Smooth`: while no send was short nobody waits for EPOLLOUT, the event loop stays
out of the send fields, and the send thread takes every reply from the front of the list,
so it does not reach the wait over a reply without a post (`NoReplyLeftCorrect`).
`Clean`: while moreover no connection was closed, the listed buffers are live and listed
once, and at most one other is, that of the connection the send thread works on
(`NoLostBufferCorrect`). `Fifo` adds the order: the list is the end of what was pushed, the
reply being sent is the one before it, and the length of a wire is the packages of its
replies among those that have left the list (`WireCorrect`).

**`MgxConnPool_proofs`**, for any objects, peers, descriptor numbers and pool size.
`BaseInv` (types, the places of the threads, the recycler's iterator, the counters)
needs no condition and gives `TypeCorrect`, `CountersCorrect` and `SeqCorrect` with and
without heartbeats. `OwnInv` is for a configuration without heartbeats, as the four
properties of `conn_safety` are: with the timer thread they fail (section 5). `Held` says
that the connection the event loop works on is taken for a peer, `NewPeers`, `Accepted`
and `Assigned` where a peer is before, between and after `accept4`, `get_conn` and
`epoll_ctl`, `InterestServes` that epoll reports connections that serve, under their
present instance bit, `BatchServes` the same of the events that are not dispatched yet,
and that the event loop is not about to close one of those, `StampsOld` that
no message carries a sequence number of the future. Theorems: `PartitionCorrect`,
`OwnershipCorrect`, `ReadsCorrect`, `StampCorrect`.

**`MgxHeartbeat_proofs`**, for every period, any connections, messages and time. `Clock`
says that the queue is sorted, that size and head are kept beside it, that no entry is
further away than a period, nor is the head, stale or not, once it has been set
(`HeadNear`), and that after its first sleep the monitor thread does not sleep past a
second after any entry that is there or may be added (`WakesInTime`). `WatchOK` follows
one connection that serves: it has an entry near enough to its last PING, the monitor
thread is going to look at it in this walk, or a thread is about to add its entry or to
close it. That gives `SilentCorrect`.
`AnswersOK` orders the answered PING, `last_ping_time` and the `cur_time` of the walk
(`AnsweredCorrect`, an action property). `Current` ties the sequence number of each
entry, and what the threads hold, to the object's while nothing was reset
(`EntriesCorrect`). The attempt to prove `SilentIsRecycled` changed it: it was false for a
first head time beyond the old bounds, since the first *walk*, not the first sleep,
is what catches up; and it is false for an object that `close_conn` frees while the
monitor thread is about to recycle it (section 5), which `twice` now excludes.

**`MgxLog_proofs`**, the descriptor: for any number of descriptors. `FdIsLog` says nothing
after a failed write, but the rotation that follows must leave one log file; so the
invariant adds that at all times no other number than the log's refers to a file
(`NoOther`), that `mgx_daemon` finds the log above 0, 1 and 2 (`StdKept`) and that number 2
is never free (`ErrKept`). Theorems: `FdCorrect`, `StderrCorrect`.

The line, in the same module: for every format whose arguments `Fit`, every width of
integers and every buffer with room for the header or the tag, newline and zero byte.
`DigitsCorrect`: the remainders that `mgx_sprintf_num` divides out are the digits of the
number by their places, at most `TempSize` of them (`PlacesFacts`), so `temp[]` holds
them. `SprintfNum`: padding and digits put into a buffer that is cut at `last` are padding
and digits cut at `last`. `Rounding`: the carry of `%f` into the integer part gives the
rounded scaled number. `DirectiveCorrect`: with these, a directive applied to a text that
was cut is the text with its own added, cut. The invariant `TextInv` carries this over the
loop (`FormatIsCutText`), to the end of the line and to the echo (`LineKept`, `ErrText`).
Theorems: `FormatCorrect`, `LineCorrect`. The proof needs to know what the model had left
to the choice of arguments, and what the C code needs too: `TextAssumption` says that
header, tag and formats are made of characters and that the arguments fit. Without it the
theorem is false, as `%*s` with a length beyond its string shows.

**`MgxCoroutine_proofs`**, for any finite set of coroutines, any descriptors, delays and
default timeout. The invariant has one part for each place that holds a pointer:
`ReadyPart`, `SleepPart`, `EpollPart` and `EventPart` say that the list, the tree, the
registrations and the batch of events hold exactly the coroutines whose `m_status` says
so, each once; `SleepPart` adds that the one just woken is in front of the tree, which is
what `remove_first_sleep_rbtree` relies on; `RunningPart` and `ClosedPart` tie `m_cur_co`
and the descriptors to them. Theorems: `HomeCorrect`, `AssertsCorrect`. For
`LatenessCorrect`, `LatePart` says that the tree is sorted and bounds each sleeper by its
place and by where the scheduler is: after a round has woken the first one, or found
nobody due, place i is at most `WaitTimeout * (n - i)` late, and until the next round
at most what `epoll_wait` has used of its timeout is added. That the tree has at most n
entries, so that an insertion pushes nobody over the bound, comes from `SleepPart`.

**How recursive definitions are handled.** The library's induction theorems take an
operator as a parameter, which the installed provers cannot instantiate. The proofs use
instead that every non-empty set of naturals has a least element (well-foundedness, which
is a fact about sets) and apply it to the set of numbers for which a claim fails
(`LeastElement`, `LeastPosition`, `UpwardInduction`). That a recursive function satisfies
its equation, that is, that the `CHOOSE` behind it chooses something, is proved the same
way once for each form of recursion (`FoldExists`). For that the
functions are defined over an interval of the naturals, and `Power`, `Char` and
`PackagesFrom` replace `^`, strings and a recursion over sequences, of which the SMT
backend knows nothing.

**Only model-checked.** Liveness, since the prover has no fairness or ENABLED:
`EveryMessageHandled`, `ZombiesReaped`, `SomeoneRevived`, `RotationHonoured`,
`RecyReturned`, `WholeIsAnswered` and `EveryoneResumed`. Every invariant, every action
property and the refinement that a passing run checks have a theorem. The type
invariants of the proved modules are theorems or parts of the invariants; the runs
repeat only the receiver's. The invariants found for the proofs were checked with TLC on
the runs' instances first.

## 5. What is not modelled

* Tearing inside the timer queue: every operation on it is atomic, although
  `delete_from_timer_queue` does not lock.
* The recycler's walk over the `unordered_set` while `insert` may rehash it. The
  order of the walk is left open, the undefined behaviour is not.
* crc32 is a Boolean in `MgxHeartbeat`.
* HTTP header texts, mime types and the text of `404.html`; the texts of dates, paths
  and rows in the log.
* Parsing of the configuration and the process title: sequential code that runs once,
  before there is a second thread or process. `stoi` throws on a value that is not a
  number and ends the program there.
* Opening the listening sockets, and `conn_pool_destroy`, which is behind an endless loop.
* The calls of `Mgx_mysql` that the program does not make (`get_tag_id`,
  `get_one_request_of_float` and the like), and the Redis variant of the handler, which
  is two library calls.
* `src/mysql/inc`: 8300 lines of vendored declarations and error numbers of the MySQL
  client, which is two thirds of the repository's C and C++ lines. They declare a library
  and do nothing; its behaviour as far as the program depends on it is in `MgxMysql`.
* The assembly of `_switch`: that it saves and restores the registers is taken as given.
* A worker's death by SIGPIPE (`send` without `MSG_NOSIGNAL`): the master sees
  it as any other death.

Behaviour seen while modelling that no run states: an interrupted `sem_wait` lets two pool
threads pop for one message (`PopEmpty`); a stopped worker makes the master fork one more
(bounded by `WorkersBounded`); workers keep the log file of the day they were forked; with
heartbeats an event can pass the stale test after its descriptor was closed and reused;
connections made by the growing pool have no database handle; a reply can go to the next
peer when the connection is reused between the sequence test and `send`; the stale branch
deletes the wrong buffer; packages over `PKG_MAX_SIZE - 1000` bytes are refused.
`destory_all` joins threads that sleep in `sem_wait`, with its broadcast commented out and
nothing posted, and never returns. After a short send a reply can stay on the list:
`send_msg_handler` posts the semaphore before it clears `throw_send_cnt`, and the woken
thread passes the reply over and sleeps (`NoReplyLeft` without `partials = 0`). With
heartbeats the timer thread and the event loop can recycle one connection, which is then
in the pool twice (`PoolPartition` with `Heartbeat = TRUE`). A reset connection's timer
entry stays in the queue for ever. If the event loop resets a connection with `close_conn`
after the monitor thread found it silent and before it recycles it, the object is free and
in the recovery set at once; when it is returned from there while it serves its next peer,
`m_cur_seq` changes under that peer, whose timer entry no longer matches: its silence is
never noticed. An HTTP request that is cut by TCP is dropped without an answer, as is one
with Content-Length 0; a POST without Content-Length ends the worker; a file is cut at its
first NUL byte while Content-Length announces all of it. A peer that pipelines gets two
threads into one database object. A coroutine whose socket reports EPOLLERR is taken out
of epoll and never resumed, so a refused `connect` without timeout never returns.
`epoll_wait` waits its whole default timeout while somebody is ready, and after a sleeper
was late. `mgx_select` is used on any descriptor number, `FD_SET` only works below 1024.
After a failed write the log keeps the closed number, and a worker may write its log into
the connection that gets it. A logged line with a `%` in it is used as a format when it is
echoed. `mgx_daemon` leaves descriptor 0 free for the next socket.

## 6. Plan

Done so far: everything in section 2 is modelled and checked, and every safety property
of the passing runs is proved. Left, in this order:

1. `PoolPartition` and `StampOwner` with heartbeats, restricted to objects that only one
   thread has recycled.
2. A worker composed of receiver, pool and send queue: every whole request that
   gets a reply gets it on its own connection.
