------------------------------ MODULE MgxMaster ------------------------------
(***************************************************************************)
(* The master process (process/mgx_process_cycle.cpp with the handlers of  *)
(* signal/mgx_signal.cpp and mgx_log_init): it forks the workers, then     *)
(* sleeps in sigsuspend, the only place where its blocked signals are      *)
(* delivered, revives workers after SIGCHLD and reopens its log after      *)
(* SIGUSR1.  Standard signals do not queue: each is one pending bit.       *)
(***************************************************************************)
EXTENDS Naturals, FiniteSets

CONSTANTS Pid,              \* process ids the kernel may give to workers
          WorkerProcesses,  \* the configured number of workers
          MaxStop,          \* bound: SIGCHLDs not caused by a death
          MaxForkFail,      \* bound: failing calls of fork
          MaxDay            \* bound: changes of the date

ASSUME PidAssumption == IsFiniteSet(Pid)
ASSUME WorkerAssumption == WorkerProcesses \in Nat \ {0}
ASSUME BoundAssumption == MaxStop \in Nat /\ MaxForkFail \in Nat /\ MaxDay \in Nat

VARIABLES worker,           \* the state of every process id
          mpc,              \* where the master is
          started,          \* workers mgx_start_worker_process has forked or tried to
          chld, usr1,       \* SIGCHLD, SIGUSR1 pending for the master
          reap, rotate,     \* g_mgx_reap, g_mgx_log_rotate
          today,            \* the date
          masterLog,        \* the date of the log file the master writes to
          stops,            \* SIGCHLDs so far that no death caused
          forkFails         \* failures of fork so far

pending == <<chld, usr1>>
flags == <<reap, rotate>>
env == <<today, stops, forkFails>>
MasterVars ==
    <<worker, mpc, started, chld, usr1, reap, rotate, today, masterLog, stops, forkFails>>

Alive == {p \in Pid : worker[p] \in {"init", "serving", "stuck"}}

Zombie == {p \in Pid : worker[p] = "zombie"}

\* The SIGCHLD handler is running, by itself or on top of the SIGUSR1 handler.
InChld == mpc \in {"chld", "usr1chld"}

MasterTypeOK ==
    /\ worker \in [Pid -> {"none", "init", "serving", "stuck", "zombie"}]
    /\ mpc \in {"start", "suspend", "chld", "usr1", "usr1chld", "loop", "loop2"}
    /\ started \in 0..WorkerProcesses
    /\ chld \in BOOLEAN /\ usr1 \in BOOLEAN
    /\ reap \in BOOLEAN /\ rotate \in BOOLEAN
    /\ today \in 0..MaxDay
    /\ masterLog \in 0..MaxDay
    /\ stops \in 0..MaxStop
    /\ forkFails \in 0..MaxForkFail

MasterInit ==
    /\ worker = [p \in Pid |-> "none"]
    /\ mpc = "start"
    /\ started = 0
    /\ chld = FALSE /\ usr1 = FALSE
    /\ reap = FALSE /\ rotate = FALSE
    /\ today = 0
    /\ masterLog = 0
    /\ stops = 0
    /\ forkFails = 0

-----------------------------------------------------------------------------
\* mgx_spawn_process: when fork fails the error is logged and nothing else
\* happens.
SpawnProcess ==
    \/ \E p \in Pid :
          /\ worker[p] = "none"
          /\ worker' = [worker EXCEPT ![p] = "init"]
          /\ UNCHANGED forkFails
    \/ /\ forkFails < MaxForkFail
       /\ forkFails' = forkFails + 1
       /\ UNCHANGED worker

StartWorker ==
    /\ mpc = "start"
    /\ started < WorkerProcesses
    /\ SpawnProcess
    /\ started' = started + 1
    /\ UNCHANGED <<mpc, pending, flags, today, masterLog, stops>>

StartDone ==
    /\ mpc = "start"
    /\ started = WorkerProcesses
    /\ mpc' = "suspend"
    /\ UNCHANGED <<worker, started, pending, flags, env, masterLog>>

-----------------------------------------------------------------------------
(* Signal delivery inside sigsuspend.  A signal is blocked while its own   *)
(* handler runs, the other one is not; when the outermost handler returns, *)
(* both are blocked again and sigsuspend returns.                          *)

DeliverChld ==
    /\ chld
    /\ mpc \in {"suspend", "usr1"}
    /\ chld' = FALSE
    /\ mpc' = IF mpc = "suspend" THEN "chld" ELSE "usr1chld"
    /\ UNCHANGED <<worker, started, usr1, flags, env, masterLog>>

DeliverUsr1 ==
    /\ usr1
    /\ mpc \in {"suspend", "chld"}
    /\ usr1' = FALSE
    /\ rotate' = TRUE
    /\ mpc' = IF mpc = "suspend" THEN "usr1" ELSE mpc
    /\ UNCHANGED <<worker, started, chld, reap, env, masterLog>>

Usr1Returns ==
    /\ mpc = "usr1"
    /\ mpc' = "loop"
    /\ UNCHANGED <<worker, started, pending, flags, env, masterLog>>

\* One of the other handled signals: its handler changes nothing.
WakeByOther ==
    /\ mpc = "suspend"
    /\ mpc' = "loop"
    /\ UNCHANGED <<worker, started, pending, flags, env, masterLog>>

\* mgx_process_get_status: one waitpid(-1, &status, WNOHANG) of its loop.
WaitPid(p) ==
    /\ InChld
    /\ worker[p] = "zombie"
    /\ worker' = [worker EXCEPT ![p] = "none"]
    /\ UNCHANGED <<mpc, started, pending, flags, env, masterLog>>

\* Mutant: one waitpid per signal, no loop.
ChldReturns_NoLoop ==
    /\ InChld
    /\ reap' = TRUE
    /\ mpc' = IF mpc = "chld" THEN "loop" ELSE "usr1"
    /\ UNCHANGED <<worker, started, pending, rotate, env, masterLog>>

\* Mutant: as if only one of the two flags could be set.
ChldReturns_ElseIf ==
    /\ InChld
    /\ Zombie = {}
    /\ reap' = (reap \/ ~rotate)
    /\ mpc' = IF mpc = "chld" THEN "loop" ELSE "usr1"
    /\ UNCHANGED <<worker, started, pending, rotate, env, masterLog>>

\* waitpid finds no dead child: 0, or -1 with ECHILD when none is left.
ChldReturns ==
    /\ InChld
    /\ Zombie = {}
    /\ reap' = TRUE
    /\ mpc' = IF mpc = "chld" THEN "loop" ELSE "usr1"
    /\ UNCHANGED <<worker, started, pending, rotate, env, masterLog>>

-----------------------------------------------------------------------------
(* The loop of mgx_process_cycle after sigsuspend; signals are blocked. *)

\* Mutant: g_mgx_reap is not cleared.
LoopReap_KeepsFlag ==
    /\ mpc = "loop"
    /\ IF reap THEN SpawnProcess ELSE UNCHANGED <<worker, forkFails>>
    /\ mpc' = "loop2"
    /\ UNCHANGED <<started, pending, flags, today, masterLog, stops>>

\* Mutant: both flags are cleared before they are looked at.
LoopReap_ClearsBoth ==
    /\ mpc = "loop"
    /\ IF reap THEN SpawnProcess ELSE UNCHANGED <<worker, forkFails>>
    /\ reap' = FALSE
    /\ rotate' = FALSE
    /\ mpc' = "loop2"
    /\ UNCHANGED <<started, pending, today, masterLog, stops>>

LoopReap ==
    /\ mpc = "loop"
    /\ IF reap THEN SpawnProcess ELSE UNCHANGED <<worker, forkFails>>
    /\ reap' = FALSE
    /\ mpc' = "loop2"
    /\ UNCHANGED <<started, pending, rotate, today, masterLog, stops>>

\* mgx_log_init closes the log and opens the file of the current date.
LogInit == masterLog' = today

LoopRotate ==
    /\ mpc = "loop2"
    /\ rotate' = FALSE
    /\ IF rotate THEN LogInit ELSE UNCHANGED masterLog
    /\ mpc' = "suspend"
    /\ UNCHANGED <<worker, started, pending, reap, env>>

-----------------------------------------------------------------------------
(* The workers, seen from the master, and its environment. *)

WorkerReady(p) ==
    /\ worker[p] = "init"
    /\ worker' = [worker EXCEPT ![p] = "serving"]
    /\ UNCHANGED <<mpc, started, pending, flags, env, masterLog>>

\* exit(1) once the thread pool exists: destory_all waits for its threads for
\* ever (MgxThreadPool), so the process neither serves nor dies.
WorkerStuck(p) ==
    /\ worker[p] = "init"
    /\ worker' = [worker EXCEPT ![p] = "stuck"]
    /\ UNCHANGED <<mpc, started, pending, flags, env, masterLog>>

\* A crash, a kill, or exit(1) before the thread pool exists.
WorkerDies(p) ==
    /\ p \in Alive
    /\ worker' = [worker EXCEPT ![p] = "zombie"]
    /\ chld' = TRUE
    /\ UNCHANGED <<mpc, started, usr1, flags, env, masterLog>>

\* SIGCHLD is raised for a stopped or continued child as well, the action is
\* installed without SA_NOCLDSTOP.
WorkerStops(p) ==
    /\ p \in Alive
    /\ stops < MaxStop
    /\ stops' = stops + 1
    /\ chld' = TRUE
    /\ UNCHANGED <<worker, mpc, started, usr1, flags, today, forkFails, masterLog>>

\* kill.sh -USR1
RotateRequest ==
    /\ ~usr1
    /\ usr1' = TRUE
    /\ UNCHANGED <<worker, mpc, started, chld, flags, env, masterLog>>

NewDay ==
    /\ today < MaxDay
    /\ today' = today + 1
    /\ UNCHANGED <<worker, mpc, started, pending, flags, masterLog, stops, forkFails>>

MasterStep ==
    \/ StartWorker
    \/ StartDone
    \/ DeliverChld
    \/ DeliverUsr1
    \/ Usr1Returns
    \/ \E p \in Pid : WaitPid(p)
    \/ ChldReturns
    \/ LoopReap
    \/ LoopRotate

WorkerStep(p) ==
    \/ WorkerReady(p)
    \/ WorkerStuck(p)
    \/ WorkerDies(p)
    \/ WorkerStops(p)

MasterNext ==
    \/ MasterStep
    \/ WakeByOther
    \/ \E p \in Pid : WorkerStep(p)
    \/ RotateRequest
    \/ NewDay

MasterSpec == MasterInit /\ [][MasterNext]_MasterVars

\* The master is scheduled, in its handlers as well as outside, and sigsuspend
\* delivers what is pending.  Nothing is asked of the workers, of the date or
\* of whoever sends signals.
MasterFairSpec ==
    /\ MasterSpec
    /\ WF_MasterVars(StartWorker)
    /\ WF_MasterVars(StartDone)
    /\ SF_MasterVars(DeliverChld)
    /\ SF_MasterVars(DeliverUsr1)
    /\ WF_MasterVars(Usr1Returns)
    /\ WF_MasterVars(\E p \in Pid : WaitPid(p))
    /\ WF_MasterVars(ChldReturns)
    /\ WF_MasterVars(LoopReap)
    /\ WF_MasterVars(LoopRotate)

-----------------------------------------------------------------------------
(* Properties. *)

\* There are never more workers than configured, except for one more per
\* SIGCHLD that no death caused: no death is answered by two forks, whatever
\* deaths fall into the handler, its waitpid loop or the loop of the master.
WorkersBounded == Cardinality(Alive) <= WorkerProcesses + stops

\* A dead worker is not forgotten: as long as there is a zombie the handler
\* that collects it is running or will run, deaths during the handler included.
NoForgottenZombie == Zombie # {} => chld \/ InChld

\* Every dead worker is waited for.
ZombiesReaped == \A p \in Pid : worker[p] = "zombie" ~> worker[p] # "zombie"

\* "reviving the subprocess": the server does not stay without any worker, if
\* fork does not fail.
SomeoneRevived == (Alive = {} /\ forkFails = 0) ~> (Alive # {} \/ forkFails > 0)

\* A request for log rotation is carried out, also when its signal arrives
\* together with others.
RotationHonoured == usr1 ~> masterLog = today

\* The README's "reviving the subprocess": after deaths, the configured number
\* of workers is reached again.
AllRevived ==
    Cardinality(Alive) < WorkerProcesses ~> Cardinality(Alive) >= WorkerProcesses
=============================================================================
