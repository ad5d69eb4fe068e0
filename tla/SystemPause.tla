----------------------------- MODULE SystemPause -----------------------------
(***************************************************************************)
(* Pausing, resuming and stopping an emulation that runs on many host      *)
(* threads: the user interface asks (yuzu/bootmanager.h), the emulation    *)
(* thread runs System::Run, System::Pause and System::Shutdown             *)
(* (core/core.cpp), the timer thread stops at CoreTiming's pause event     *)
(* (core/core_timing.cpp), and the host thread of every core stops at two  *)
(* events used as barriers (core/cpu_manager.cpp).  All of them talk       *)
(* through flags and auto-reset events, without a common lock.             *)
(*                                                                         *)
(* A core executes either a guest thread (the idle thread counts as one:   *)
(* it takes up guest threads by itself) or the suspend thread, which gives *)
(* the core back to its host thread.  Multi-core emulation is modelled.    *)
(***************************************************************************)
EXTENDS Integers, FiniteSets

CONSTANTS
    NumCores,     \* Hardware::NUM_CPU_CORES
    MaxRequests   \* bound: times the user starts or pauses the emulation

ASSUME SystemPauseAssumption == NumCores \in Nat \ {0} /\ MaxRequests \in Nat

VARIABLES
    \* EmuThread
    ui, emu, requests, stop_run, running, running_wait, running_guard,
    \* CoreTiming
    timer, paused, paused_set, shutting_down, pause_event, event,
    \* KernelCore: the suspend threads are ready; the guest broke execution
    suspended, exception_exited,
    \* CpuManager
    pausing, scan, core, current, is_running, is_paused, initialized,
    enter_barrier, exit_barrier, paused_state, running_mode

uiVars == <<ui, requests, stop_run, running>>
waitVars == <<running_wait, running_guard>>
timerVars == <<timer, paused_set>>
pauseVars == <<paused, shutting_down, pause_event, event>>
kernelVars == <<suspended, exception_exited>>
coreVars == <<core, current, is_running, is_paused, initialized>>
barrierVars == <<enter_barrier, exit_barrier>>
managerVars == <<pausing, scan, paused_state, running_mode>>
vars == <<uiVars, waitVars, emu, timerVars, pauseVars, kernelVars, coreVars, barrierVars, managerVars>>

Cores == 1..NumCores

Init ==
    /\ ui = "idle" /\ requests = 0 /\ stop_run = FALSE /\ running = FALSE
    /\ running_wait = FALSE /\ running_guard = FALSE
    /\ emu = "load"
    /\ timer = "top" /\ paused_set = FALSE
    /\ paused = FALSE /\ shutting_down = FALSE /\ pause_event = FALSE /\ event = FALSE
    /\ suspended = FALSE /\ exception_exited = FALSE
    /\ core = [c \in Cores |-> "start"]
    /\ current = [c \in Cores |-> "guest"]
    /\ is_running = [c \in Cores |-> FALSE]
    /\ is_paused = [c \in Cores |-> FALSE]
    /\ initialized = [c \in Cores |-> FALSE]
    /\ enter_barrier = [c \in Cores |-> FALSE]
    /\ exit_barrier = [c \in Cores |-> FALSE]
    /\ pausing = FALSE /\ scan = 1 /\ paused_state = FALSE /\ running_mode = TRUE

-----------------------------------------------------------------------------
(* The user interface: EmuThread::SetRunning and RequestStop.              *)

Request ==
    /\ ui = "idle"
    /\ ~stop_run
    /\ requests < MaxRequests
    /\ requests' = requests + 1

SetRunning ==
    /\ Request
    /\ ~running
    /\ running' = TRUE
    /\ UNCHANGED <<ui, stop_run, waitVars, emu, timerVars, pauseVars, kernelVars, coreVars, barrierVars, managerVars>>

SetNotRunning ==
    /\ Request
    /\ running
    /\ running' = FALSE
    /\ ui' = "signal"
    /\ UNCHANGED <<stop_run, waitVars, emu, timerVars, pauseVars, kernelVars, coreVars, barrierVars, managerVars>>

RequestStop ==
    /\ ui = "idle"
    /\ ~stop_run
    /\ stop_run' = TRUE
    /\ ui' = "stop"
    /\ UNCHANGED <<requests, running, waitVars, emu, timerVars, pauseVars, kernelVars, coreVars, barrierVars, managerVars>>

\* RequestStop goes on with SetRunning(false).
StopSetNotRunning ==
    /\ ui = "stop"
    /\ running' = FALSE
    /\ ui' = "signal"
    /\ UNCHANGED <<requests, stop_run, waitVars, emu, timerVars, pauseVars, kernelVars, coreVars, barrierVars, managerVars>>

SignalRunningWait ==
    /\ ui = "signal"
    /\ running_wait' = TRUE
    /\ ui' = "spin"
    /\ UNCHANGED <<requests, stop_run, running, running_guard, emu, timerVars, pauseVars, kernelVars, coreVars, barrierVars, managerVars>>

EffectivelyPaused ==
    /\ ui = "spin"
    /\ ~running_guard
    /\ ui' = "idle"
    /\ UNCHANGED <<requests, stop_run, running, waitVars, emu, timerVars, pauseVars, kernelVars, coreVars, barrierVars, managerVars>>

UI == StopSetNotRunning \/ SignalRunningWait \/ EffectivelyPaused

-----------------------------------------------------------------------------
(* EmuThread::run.                                                         *)

\* The disk resources are loaded, or loading was stopped.
Loaded ==
    /\ emu = "load"
    /\ emu' = "top"
    /\ UNCHANGED <<uiVars, waitVars, timerVars, pauseVars, kernelVars, coreVars, barrierVars, managerVars>>

LoopTop ==
    /\ emu = "top"
    /\ emu' = IF stop_run THEN "shutdown" ELSE "check"
    /\ UNCHANGED <<uiVars, waitVars, timerVars, pauseVars, kernelVars, coreVars, barrierVars, managerVars>>

\* Not running: running_cv is awaited for either flag.
CheckRunning ==
    /\ emu = "check"
    /\ running \/ stop_run
    /\ emu' = IF running THEN "guard" ELSE "top"
    /\ UNCHANGED <<uiVars, waitVars, timerVars, pauseVars, kernelVars, coreVars, barrierVars, managerVars>>

SetRunningGuard ==
    /\ emu = "guard"
    /\ running_guard' = TRUE
    /\ emu' = "resume"
    /\ UNCHANGED <<uiVars, running_wait, timerVars, pauseVars, kernelVars, coreVars, barrierVars, managerVars>>

\* System::Run begins with KernelCore::Suspend(false), which leaves the suspend
\* threads ready once the guest has broken execution.
RunBegins ==
    /\ emu = "resume"
    /\ suspended' = exception_exited
    /\ pausing' = FALSE
    /\ emu' = "sync"
    /\ UNCHANGED <<uiVars, waitVars, timerVars, pauseVars, exception_exited, coreVars, barrierVars, scan, paused_state, running_mode>>

AwaitRunningWait ==
    /\ emu = "running"
    /\ running_wait
    /\ running_wait' = FALSE
    /\ pausing' = TRUE
    /\ emu' = "sync"
    /\ UNCHANGED <<uiVars, running_guard, timerVars, pauseVars, kernelVars, coreVars, barrierVars, scan, paused_state, running_mode>>

ClearRunningGuard ==
    /\ emu = "paused"
    /\ running_guard' = FALSE
    /\ emu' = "top"
    /\ UNCHANGED <<uiVars, running_wait, timerVars, pauseVars, kernelVars, coreVars, barrierVars, managerVars>>

-----------------------------------------------------------------------------
(* CoreTiming::SyncPause(pausing).                                         *)

AfterSync == IF pausing THEN "suspend" ELSE "unpause"

SyncPause ==
    /\ emu = "sync"
    /\ IF pausing = paused /\ paused_set = paused
       THEN emu' = AfterSync /\ UNCHANGED paused
       ELSE emu' = "sync_set" /\ paused' = pausing
    /\ UNCHANGED <<uiVars, waitVars, timerVars, shutting_down, pause_event, event, kernelVars, coreVars, barrierVars, managerVars>>

\* When resuming, the pause event is set twice.
SyncSetPauseEvent ==
    /\ emu \in {"sync_set", "sync_again"}
    /\ pause_event' = TRUE
    /\ emu' = IF emu = "sync_set" /\ ~pausing THEN "sync_again" ELSE "sync_event"
    /\ UNCHANGED <<uiVars, waitVars, timerVars, paused, shutting_down, event, kernelVars, coreVars, barrierVars, managerVars>>

\* Fault: the event the timer thread may wait for is not set.
FaultNoEvent ==
    /\ emu = "sync_event"
    /\ emu' = "sync_spin"
    /\ UNCHANGED <<uiVars, waitVars, timerVars, pauseVars, kernelVars, coreVars, barrierVars, managerVars>>

SyncSetEvent ==
    /\ emu = "sync_event"
    /\ event' = TRUE
    /\ emu' = "sync_spin"
    /\ UNCHANGED <<uiVars, waitVars, timerVars, paused, shutting_down, pause_event, kernelVars, coreVars, barrierVars, managerVars>>

\* Fault: the caller does not wait for the timer thread.
FaultNoSpin ==
    /\ emu = "sync_spin"
    /\ emu' = AfterSync
    /\ UNCHANGED <<uiVars, waitVars, timerVars, pauseVars, kernelVars, coreVars, barrierVars, managerVars>>

SyncReturns ==
    /\ emu = "sync_spin"
    /\ paused_set = pausing
    /\ emu' = AfterSync
    /\ UNCHANGED <<uiVars, waitVars, timerVars, pauseVars, kernelVars, coreVars, barrierVars, managerVars>>

-----------------------------------------------------------------------------
(* KernelCore::Suspend(true) and CpuManager::MultiCorePause(pausing).      *)

Suspend ==
    /\ emu = "suspend"
    /\ suspended' = TRUE
    /\ scan' = 1
    /\ emu' = "all_paused"
    /\ UNCHANGED <<uiVars, waitVars, timerVars, pauseVars, exception_exited, coreVars, barrierVars, pausing, paused_state, running_mode>>

Unpause ==
    /\ emu = "unpause"
    /\ scan' = 1
    /\ emu' = "all_stopped"
    /\ UNCHANGED <<uiVars, waitVars, timerVars, pauseVars, kernelVars, coreVars, barrierVars, pausing, paused_state, running_mode>>

\* Fault: the loop goes one core too far.
FaultScanPast(ok, next) ==
    /\ scan' = IF ok /\ scan <= NumCores THEN scan + 1 ELSE 1
    /\ emu' = IF ok /\ scan = NumCores THEN next ELSE emu

\* A loop over the cores reads or writes one flag at a time; `next' follows it.
\* A core that fails the test makes it start again.
ScanCores(ok, next) ==
    /\ scan' = IF ok /\ scan < NumCores THEN scan + 1 ELSE 1
    /\ emu' = IF ok /\ scan = NumCores THEN next ELSE emu

AllStopped ==
    /\ emu = "all_stopped"
    /\ ScanCores(~is_running[scan] /\ initialized[scan], "enter")
    /\ UNCHANGED <<uiVars, waitVars, timerVars, pauseVars, kernelVars, coreVars, barrierVars, pausing, paused_state, running_mode>>

\* What MultiCorePause(false) does once the cores may enter, and its end.
AfterEnter == IF paused_state THEN "all_paused" ELSE "unpaused"

\* Fault: the last core is not let in.
FaultSkipsLast ==
    /\ emu = "enter"
    /\ enter_barrier' = [enter_barrier EXCEPT ![scan] = @ \/ scan < NumCores]
    /\ ScanCores(TRUE, AfterEnter)
    /\ UNCHANGED <<uiVars, waitVars, timerVars, pauseVars, kernelVars, coreVars, exit_barrier, pausing, paused_state, running_mode>>

SetEnterBarriers ==
    /\ emu = "enter"
    /\ enter_barrier' = [enter_barrier EXCEPT ![scan] = TRUE]
    /\ ScanCores(TRUE, AfterEnter)
    /\ UNCHANGED <<uiVars, waitVars, timerVars, pauseVars, kernelVars, coreVars, exit_barrier, pausing, paused_state, running_mode>>

\* Fault: one paused core is enough.
FaultOneIsEnough ==
    /\ emu = "all_paused"
    /\ is_paused[scan] /\ initialized[scan]
    /\ emu' = IF pausing THEN "halted" ELSE "exit"
    /\ UNCHANGED <<scan, uiVars, waitVars, timerVars, pauseVars, kernelVars, coreVars, barrierVars, pausing, paused_state, running_mode>>

AllPaused ==
    /\ emu = "all_paused"
    /\ ScanCores(is_paused[scan] /\ initialized[scan], IF pausing THEN "halted" ELSE "exit")
    /\ UNCHANGED <<uiVars, waitVars, timerVars, pauseVars, kernelVars, coreVars, barrierVars, pausing, paused_state, running_mode>>

SetExitBarriers ==
    /\ emu = "exit"
    /\ exit_barrier' = [exit_barrier EXCEPT ![scan] = TRUE]
    /\ ScanCores(TRUE, "unpaused")
    /\ UNCHANGED <<uiVars, waitVars, timerVars, pauseVars, kernelVars, coreVars, enter_barrier, pausing, paused_state, running_mode>>

PauseEnds ==
    /\ emu \in {"halted", "unpaused"}
    /\ paused_state' = pausing
    /\ emu' = IF pausing THEN "paused" ELSE IF running_mode THEN "running" ELSE "join"
    /\ UNCHANGED <<uiVars, waitVars, timerVars, pauseVars, kernelVars, coreVars, barrierVars, pausing, scan, running_mode>>

-----------------------------------------------------------------------------
(* System::Shutdown: CpuManager::Shutdown, then CoreTiming::Shutdown.      *)

ShutdownCores ==
    /\ emu = "shutdown"
    /\ running_mode' = FALSE
    /\ pausing' = FALSE
    /\ emu' = "unpause"
    /\ UNCHANGED <<uiVars, waitVars, timerVars, pauseVars, kernelVars, coreVars, barrierVars, scan, paused_state>>

JoinCores ==
    /\ emu = "join"
    /\ \A c \in Cores : core[c] = "gone"
    /\ paused' = TRUE
    /\ shutting_down' = TRUE
    /\ emu' = "join_timer"
    /\ UNCHANGED <<uiVars, waitVars, timerVars, pause_event, event, kernelVars, coreVars, barrierVars, managerVars>>

JoinTimer ==
    \/ /\ emu = "join_timer"
       /\ pause_event' = TRUE
       /\ event' = TRUE
       /\ emu' = "joining"
       /\ UNCHANGED <<uiVars, waitVars, timerVars, paused, shutting_down, kernelVars, coreVars, barrierVars, managerVars>>
    \/ /\ emu = "joining"
       /\ timer = "gone"
       /\ emu' = "off"
       /\ UNCHANGED <<uiVars, waitVars, timerVars, pauseVars, kernelVars, coreVars, barrierVars, managerVars>>

Emu ==
    \/ Loaded \/ LoopTop \/ CheckRunning \/ SetRunningGuard \/ RunBegins
    \/ AwaitRunningWait \/ ClearRunningGuard
    \/ SyncPause \/ SyncSetPauseEvent \/ SyncSetEvent \/ SyncReturns
    \/ Suspend \/ Unpause \/ AllStopped \/ SetEnterBarriers \/ AllPaused
    \/ SetExitBarriers \/ PauseEnds
    \/ ShutdownCores \/ JoinCores \/ JoinTimer

-----------------------------------------------------------------------------
(* CoreTiming::ThreadLoop.                                                 *)

TimerGoto(l) == timer' = l

timerRest == <<uiVars, waitVars, emu, kernelVars, coreVars, barrierVars, managerVars>>

TimerTop ==
    /\ timer = "top"
    /\ TimerGoto(IF shutting_down THEN "gone" ELSE "inner")
    /\ UNCHANGED <<paused_set, pauseVars, timerRest>>

TimerCheck ==
    /\ timer = "inner"
    /\ TimerGoto(IF paused THEN "stop" ELSE "go")
    /\ UNCHANGED <<paused_set, pauseVars, timerRest>>

TimerGo ==
    /\ timer = "go"
    /\ paused_set' = FALSE
    /\ TimerGoto("advance")
    /\ UNCHANGED <<pauseVars, timerRest>>

\* Advance runs the callbacks that are due.  The next event is due already,
\* lies in the future, or there is none.
Advance ==
    /\ timer = "advance"
    /\ \E l \in {"inner", "waitfor", "wait"} : TimerGoto(l)
    /\ UNCHANGED <<paused_set, pauseVars, timerRest>>

TimerEvent ==
    /\ timer \in {"waitfor", "wait"}
    /\ event
    /\ event' = FALSE
    /\ TimerGoto("inner")
    /\ UNCHANGED <<paused_set, paused, shutting_down, pause_event, timerRest>>

TimerExpires ==
    /\ timer = "waitfor"
    /\ TimerGoto("inner")
    /\ UNCHANGED <<paused_set, pauseVars, timerRest>>

TimerStop ==
    /\ timer = "stop"
    /\ paused_set' = TRUE
    /\ TimerGoto("paused")
    /\ UNCHANGED <<pauseVars, timerRest>>

TimerPauseEvent ==
    /\ timer = "paused"
    /\ pause_event
    /\ pause_event' = FALSE
    /\ TimerGoto("top")
    /\ UNCHANGED <<paused_set, paused, shutting_down, event, timerRest>>

TimerThread ==
    \/ TimerTop \/ TimerCheck \/ TimerGo \/ Advance \/ TimerEvent \/ TimerExpires
    \/ TimerStop \/ TimerPauseEvent

-----------------------------------------------------------------------------
(* CpuManager::RunThread on the host thread of core c.                     *)

coreRest == <<uiVars, waitVars, emu, timerVars, paused, shutting_down, pause_event, kernelVars, managerVars>>

CoreGoto(c, l) == core' = [core EXCEPT ![c] = l]

CoreStarts(c) ==
    /\ core[c] = "start"
    /\ initialized' = [initialized EXCEPT ![c] = TRUE]
    /\ CoreGoto(c, "loop")
    /\ UNCHANGED <<current, is_running, is_paused, barrierVars, event, coreRest>>

CoreLoop(c) ==
    /\ core[c] = "loop"
    /\ IF running_mode
       THEN CoreGoto(c, "enter") /\ UNCHANGED initialized
       ELSE CoreGoto(c, "gone") /\ initialized' = [initialized EXCEPT ![c] = FALSE]
    /\ UNCHANGED <<current, is_running, is_paused, barrierVars, event, coreRest>>

CoreEnters(c) ==
    /\ core[c] = "enter"
    /\ enter_barrier[c]
    /\ enter_barrier' = [enter_barrier EXCEPT ![c] = FALSE]
    /\ CoreGoto(c, "entered")
    /\ UNCHANGED <<current, is_running, is_paused, initialized, exit_barrier, event, coreRest>>

\* YieldTo the fiber of the scheduler's current thread.
CoreYields(c) ==
    /\ core[c] = "entered"
    /\ is_running' = [is_running EXCEPT ![c] = TRUE]
    /\ CoreGoto(c, "run")
    /\ UNCHANGED <<current, is_paused, initialized, barrierVars, event, coreRest>>

\* The scheduler of the core switches: to the suspend thread, which yields to
\* the host thread at once and again each time it is resumed too early ...
CoreSuspends(c) ==
    /\ core[c] = "run"
    /\ suspended
    /\ current' = [current EXCEPT ![c] = "suspend"]
    /\ CoreGoto(c, "back")
    /\ UNCHANGED <<is_running, is_paused, initialized, barrierVars, event, coreRest>>

\* ... or from it to a guest thread.
CoreResumesGuest(c) ==
    /\ core[c] = "run"
    /\ ~suspended
    /\ current[c] = "suspend"
    /\ current' = [current EXCEPT ![c] = "guest"]
    /\ UNCHANGED <<core, is_running, is_paused, initialized, barrierVars, event, coreRest>>

ExecutesGuest(c) == core[c] = "run" /\ current[c] = "guest"

\* A guest thread makes a call that schedules a timing event.
GuestSchedulesEvent(c) ==
    /\ ExecutesGuest(c)
    /\ event' = TRUE
    /\ UNCHANGED <<coreVars, barrierVars, coreRest>>

\* svcBreak kills a guest thread: KernelCore::ExceptionalExit suspends all the
\* cores, for good.
ExceptionalExit(c) ==
    /\ ExecutesGuest(c)
    /\ exception_exited' = TRUE
    /\ suspended' = TRUE
    /\ UNCHANGED <<uiVars, waitVars, emu, timerVars, pauseVars, coreVars, barrierVars, managerVars>>

CoreNotRunning(c) ==
    /\ core[c] = "back"
    /\ is_running' = [is_running EXCEPT ![c] = FALSE]
    /\ CoreGoto(c, "stopped")
    /\ UNCHANGED <<current, is_paused, initialized, barrierVars, event, coreRest>>

CorePaused(c) ==
    /\ core[c] = "stopped"
    /\ is_paused' = [is_paused EXCEPT ![c] = TRUE]
    /\ CoreGoto(c, "exit")
    /\ UNCHANGED <<current, is_running, initialized, barrierVars, event, coreRest>>

CoreExits(c) ==
    /\ core[c] = "exit"
    /\ exit_barrier[c]
    /\ exit_barrier' = [exit_barrier EXCEPT ![c] = FALSE]
    /\ CoreGoto(c, "exited")
    /\ UNCHANGED <<current, is_running, is_paused, initialized, enter_barrier, event, coreRest>>

CoreNotPaused(c) ==
    /\ core[c] = "exited"
    /\ is_paused' = [is_paused EXCEPT ![c] = FALSE]
    /\ CoreGoto(c, "loop")
    /\ UNCHANGED <<current, is_running, initialized, barrierVars, event, coreRest>>

RunThread(c) ==
    \/ CoreStarts(c) \/ CoreLoop(c) \/ CoreEnters(c) \/ CoreYields(c)
    \/ CoreSuspends(c) \/ CoreResumesGuest(c)
    \/ CoreNotRunning(c) \/ CorePaused(c) \/ CoreExits(c) \/ CoreNotPaused(c)

-----------------------------------------------------------------------------

Next ==
    \/ SetRunning \/ SetNotRunning \/ RequestStop \/ UI
    \/ Emu
    \/ TimerThread
    \/ \E c \in Cores : RunThread(c) \/ GuestSchedulesEvent(c) \/ ExceptionalExit(c)

\* The host schedules all of its threads.  The user need not do anything, and a
\* pending suspension reaches a core because its guest code is interrupted.
Fairness ==
    /\ WF_vars(UI)
    /\ WF_vars(Emu)
    /\ WF_vars(TimerThread)
    /\ \A c \in Cores : WF_vars(RunThread(c))

Spec == Init /\ [][Next]_vars /\ Fairness

-----------------------------------------------------------------------------

\* Every variable has its type; the loops over the cores stay in range.
TypeOK ==
    /\ ui \in {"idle", "stop", "signal", "spin"}
    /\ emu \in {"load", "top", "check", "guard", "resume", "running", "paused", "sync",
                "sync_set", "sync_again", "sync_event", "sync_spin", "suspend", "unpause",
                "all_stopped", "enter", "all_paused", "exit", "halted", "unpaused",
                "shutdown", "join", "join_timer", "joining", "off"}
    /\ timer \in {"top", "inner", "go", "advance", "waitfor", "wait", "stop", "paused", "gone"}
    /\ core \in [Cores -> {"start", "loop", "enter", "entered", "run", "back", "stopped",
                           "exit", "exited", "gone"}]
    /\ current \in [Cores -> {"guest", "suspend"}]
    /\ requests \in 0..MaxRequests
    /\ scan \in Cores
    /\ {stop_run, running, running_wait, running_guard, paused, paused_set, shutting_down,
        pause_event, event, suspended, exception_exited, pausing, paused_state,
        running_mode} \subseteq BOOLEAN
    /\ {is_running, is_paused, initialized, enter_barrier, exit_barrier}
           \subseteq [Cores -> BOOLEAN]

\* System::Pause has returned, or System::Run was not called yet, and nobody
\* shuts the system down.
SystemPaused == emu \in {"load", "paused", "top", "check", "guard", "resume"}

\* The caller of SyncPause has written `paused' and has not returned.
Syncing == emu \in {"sync_set", "sync_again", "sync_event", "sync_spin"}

\* What the two flags of SyncPause tell: paused_set is stale only while a caller
\* waits for the timer thread, or once that thread has been told to end.
SyncInv ==
    /\ Syncing => paused = pausing
    /\ timer \in {"advance", "waitfor", "wait"} => ~paused_set
    /\ paused_set /\ (timer = "go" \/ ~paused) => Syncing /\ ~pausing
    /\ timer = "stop" /\ ~paused => paused_set
    /\ paused => Syncing \/ emu \in {"join_timer", "joining", "off"} \/ paused_set

\* What holds the timer thread: System::Pause since SyncPause(true) has returned,
\* then the paused system, System::Run until SyncPause(false) has written
\* `paused', and System::Shutdown while it lets the paused cores go.
TimerHeld ==
    \/ emu \in {"suspend", "halted"}
    \/ emu = "all_paused" /\ pausing
    \/ /\ paused_state
       /\ \/ emu \in {"paused", "top", "check", "guard", "resume", "sync", "shutdown"}
          \/ ~running_mode

\* Which branch of MultiCorePause the emulation thread is in, the calls that
\* begin in a running or in a stopping system, and the flag of the timer thread.
BranchInv ==
    /\ emu \in {"suspend", "halted", "paused"} => pausing
    /\ emu \in {"unpause", "all_stopped", "enter", "exit", "unpaused"} => ~pausing
    /\ emu \in {"load", "running"} \/ (emu = "sync" /\ pausing) => ~paused_state
    /\ ~running_mode =>
        \/ ~pausing /\ emu \in {"unpause", "all_stopped", "enter", "all_paused", "exit", "unpaused"}
        \/ ~paused_state /\ emu \in {"join", "join_timer", "joining", "off"}
    /\ emu = "paused" => paused_state
    /\ TimerHeld => paused

\* A core whose suspend thread is current, and stays so while it is ready; what
\* a host thread that has left the fiber of its core, or has raised is_paused,
\* says of the core; and the cores that the scan of MultiCorePause(true) has
\* passed.
HostInv ==
    /\ \A c \in Cores :
        /\ is_paused[c] => core[c] \in {"exit", "exited"}
        /\ core[c] \in {"back", "stopped", "exit", "exited"} => current[c] = "suspend"
    /\ exception_exited => suspended
    /\ emu = "all_paused" /\ pausing =>
        suspended /\ \A c \in Cores : c < scan => current[c] = "suspend"
    /\ emu \in {"halted", "paused"} =>
        suspended /\ \A c \in Cores : current[c] = "suspend"

\* A system that is paused was stopped by its suspend threads or never ran.
PausedInv ==
    SystemPaused =>
        \/ suspended /\ \A c \in Cores : current[c] = "suspend"
        \/ \A c \in Cores : /\ core[c] \in {"start", "loop", "enter", "gone"}
                             /\ ~enter_barrier[c]

\* The inductive invariant from which the two that follow are proved: the types,
\* and what the flags by which the threads talk to each other really say.
IInv == TypeOK /\ SyncInv /\ BranchInv /\ HostInv /\ PausedInv

\* No core executes guest code while the system is paused, however early the
\* scan of the flags ended (CpuManager::MultiCorePause).
NoGuestWhilePaused == SystemPaused => \A c \in Cores : ~ExecutesGuest(c)

\* No timing callback runs from the return of SyncPause(true) until the next
\* SyncPause(false), however long the system stays paused, and none while a
\* paused system's cores are let go by Shutdown (CoreTiming::SyncPause,
\* ThreadLoop).
NoCallbackWhilePaused == TimerHeld => timer \notin {"go", "advance"}

\* SyncPause never spins for ever: the timer thread notices, whatever it waits
\* for.
SyncPauseReturns == emu = "sync_spin" ~> emu # "sync_spin"

\* After System::Run every core executes guest code again, and none does once
\* the guest has broken execution (KernelCore::Suspend, ExceptionalExit), unless
\* the system is paused in the meantime.
CoresResume ==
    \A c \in Cores :
        emu = "running" ~> emu # "running" \/ (ExecutesGuest(c) <=> ~exception_exited)

\* bootmanager.h says of the spin in SetRunning(false) "Wait until effectively
\* paused": the user interface gets its thread back.
SetRunningReturns == ui = "spin" ~> ui = "idle"

=============================================================================
