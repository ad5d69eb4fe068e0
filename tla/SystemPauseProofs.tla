-------------------------- MODULE SystemPauseProofs --------------------------
(***************************************************************************)
(* Proofs about SystemPause, for every number of cores and requests.  The  *)
(* inductive invariant IInv says what the flags by which the threads talk  *)
(* mean; each of its parts is shown to be preserved in a lemma of its own, *)
(* with one step per action that the part can notice.                      *)
(***************************************************************************)
EXTENDS SystemPause, TLAPS

\* The variables of the user interface are of no concern to the other parts of
\* the invariant, and those of the cores of none to the timer thread.
LEMMA UIFrame ==
    ASSUME SetRunning \/ SetNotRunning \/ RequestStop \/ UI
    PROVE  UNCHANGED <<emu, timerVars, pauseVars, kernelVars, coreVars, barrierVars, managerVars>>
BY DEF SetRunning, SetNotRunning, RequestStop, UI, StopSetNotRunning,
       SignalRunningWait, EffectivelyPaused

LEMMA CoreFrame ==
    ASSUME NEW c \in Cores, RunThread(c) \/ GuestSchedulesEvent(c)
    PROVE  UNCHANGED <<uiVars, waitVars, emu, timerVars, paused, shutting_down, pause_event, kernelVars, managerVars>>
BY DEF RunThread, GuestSchedulesEvent, coreRest, CoreStarts, CoreLoop, CoreEnters,
   CoreYields, CoreSuspends, CoreResumesGuest, CoreNotRunning, CorePaused, CoreExits,
   CoreNotPaused

LEMMA ExceptionFrame ==
    ASSUME NEW c \in Cores, ExceptionalExit(c)
    PROVE  /\ UNCHANGED <<emu, timerVars, pauseVars, coreVars, barrierVars, managerVars>>
           /\ suspended' = TRUE
BY DEF ExceptionalExit

LEMMA TimerFrame ==
    ASSUME TimerThread
    PROVE  UNCHANGED <<uiVars, waitVars, emu, kernelVars, coreVars, barrierVars, managerVars, paused, shutting_down>>
BY DEF TimerThread, timerRest, pauseVars, TimerTop, TimerCheck, TimerGo, Advance,
   TimerEvent, TimerExpires, TimerStop, TimerPauseEvent

\* Every step of every thread keeps the types and the loops in range.
LEMMA TypeStep == TypeOK /\ [Next]_vars => TypeOK'
<1> SUFFICES ASSUME TypeOK, [Next]_vars PROVE TypeOK'
  OBVIOUS
<1> USE DEF TypeOK, uiVars, waitVars, timerVars, pauseVars, kernelVars, coreVars, barrierVars,
   managerVars
<1>0. 1 \in Cores
  BY SystemPauseAssumption DEF Cores
<1>a. CASE SetRunning \/ SetNotRunning \/ RequestStop \/ UI
  <2>SetRunning. CASE SetRunning
    BY <2>SetRunning, SystemPauseAssumption DEF SetRunning, Request
  <2>SetNotRunning. CASE SetNotRunning
    <3>1. requests' \in 0..MaxRequests
      BY <2>SetNotRunning, SystemPauseAssumption DEF SetNotRunning, Request
    <3> QED BY <2>SetNotRunning, <3>1 DEF SetNotRunning
  <2>RequestStop. CASE RequestStop
    BY <2>RequestStop DEF RequestStop
  <2>StopSetNotRunning. CASE StopSetNotRunning
    BY <2>StopSetNotRunning DEF StopSetNotRunning
  <2>SignalRunningWait. CASE SignalRunningWait
    BY <2>SignalRunningWait DEF SignalRunningWait
  <2>EffectivelyPaused. CASE EffectivelyPaused
    BY <2>EffectivelyPaused DEF EffectivelyPaused
  <2> QED BY <1>a, <2>SetRunning, <2>SetNotRunning, <2>RequestStop, <2>StopSetNotRunning,
     <2>SignalRunningWait, <2>EffectivelyPaused DEF UI
<1>b. CASE Emu
  <2>Loaded. CASE Loaded
    BY <2>Loaded, <1>0 DEF Loaded
  <2>LoopTop. CASE LoopTop
    BY <2>LoopTop, <1>0 DEF LoopTop
  <2>CheckRunning. CASE CheckRunning
    BY <2>CheckRunning, <1>0 DEF CheckRunning
  <2>SetRunningGuard. CASE SetRunningGuard
    BY <2>SetRunningGuard, <1>0 DEF SetRunningGuard
  <2>RunBegins. CASE RunBegins
    BY <2>RunBegins, <1>0 DEF RunBegins
  <2>AwaitRunningWait. CASE AwaitRunningWait
    BY <2>AwaitRunningWait, <1>0 DEF AwaitRunningWait
  <2>ClearRunningGuard. CASE ClearRunningGuard
    BY <2>ClearRunningGuard, <1>0 DEF ClearRunningGuard
  <2>SyncPause. CASE SyncPause
    BY <2>SyncPause, <1>0 DEF SyncPause, AfterSync
  <2>SyncSetPauseEvent. CASE SyncSetPauseEvent
    BY <2>SyncSetPauseEvent, <1>0 DEF SyncSetPauseEvent
  <2>SyncSetEvent. CASE SyncSetEvent
    BY <2>SyncSetEvent, <1>0 DEF SyncSetEvent
  <2>SyncReturns. CASE SyncReturns
    BY <2>SyncReturns, <1>0 DEF SyncReturns, AfterSync
  <2>Suspend. CASE Suspend
    BY <2>Suspend, <1>0 DEF Suspend
  <2>Unpause. CASE Unpause
    BY <2>Unpause, <1>0 DEF Unpause
  <2>AllStopped. CASE AllStopped
    BY <2>AllStopped, <1>0, SystemPauseAssumption DEF AllStopped, ScanCores, Cores
  <2>SetEnterBarriers. CASE SetEnterBarriers
    BY <2>SetEnterBarriers, <1>0, SystemPauseAssumption DEF SetEnterBarriers, ScanCores,
       AfterEnter, Cores
  <2>AllPaused. CASE AllPaused
    BY <2>AllPaused, <1>0, SystemPauseAssumption DEF AllPaused, ScanCores, Cores
  <2>SetExitBarriers. CASE SetExitBarriers
    BY <2>SetExitBarriers, <1>0, SystemPauseAssumption DEF SetExitBarriers, ScanCores, Cores
  <2>PauseEnds. CASE PauseEnds
    BY <2>PauseEnds, <1>0 DEF PauseEnds
  <2>ShutdownCores. CASE ShutdownCores
    BY <2>ShutdownCores, <1>0 DEF ShutdownCores
  <2>JoinCores. CASE JoinCores
    BY <2>JoinCores, <1>0 DEF JoinCores
  <2>JoinTimer. CASE JoinTimer
    BY <2>JoinTimer, <1>0 DEF JoinTimer
  <2> QED BY <1>b, <2>Loaded, <2>LoopTop, <2>CheckRunning, <2>SetRunningGuard, <2>RunBegins,
     <2>AwaitRunningWait, <2>ClearRunningGuard, <2>SyncPause, <2>SyncSetPauseEvent,
     <2>SyncSetEvent, <2>SyncReturns, <2>Suspend, <2>Unpause, <2>AllStopped,
     <2>SetEnterBarriers, <2>AllPaused, <2>SetExitBarriers, <2>PauseEnds, <2>ShutdownCores,
     <2>JoinCores, <2>JoinTimer DEF Emu
<1>c. CASE TimerThread
  BY <1>c DEF TimerThread, TimerGoto, timerRest, TimerTop, TimerCheck, TimerGo, Advance,
     TimerEvent, TimerExpires, TimerStop, TimerPauseEvent
<1>d. ASSUME NEW c \in Cores, RunThread(c) \/ GuestSchedulesEvent(c) PROVE TypeOK'
  <2>CoreStarts. CASE CoreStarts(c)
    BY <2>CoreStarts DEF CoreStarts, CoreGoto, coreRest
  <2>CoreLoop. CASE CoreLoop(c)
    <3>1. core' \in [Cores -> {"start", "loop", "enter", "entered", "run",
                         "back", "stopped", "exit", "exited", "gone"}]
      BY <2>CoreLoop DEF CoreLoop, CoreGoto
    <3>2. initialized' \in [Cores -> BOOLEAN]
      BY <2>CoreLoop, Zenon DEF CoreLoop
    <3> QED BY <2>CoreLoop, <3>1, <3>2 DEF CoreLoop, coreRest
  <2>CoreEnters. CASE CoreEnters(c)
    BY <2>CoreEnters DEF CoreEnters, CoreGoto, coreRest
  <2>CoreYields. CASE CoreYields(c)
    BY <2>CoreYields DEF CoreYields, CoreGoto, coreRest
  <2>CoreSuspends. CASE CoreSuspends(c)
    BY <2>CoreSuspends DEF CoreSuspends, CoreGoto, coreRest
  <2>CoreResumesGuest. CASE CoreResumesGuest(c)
    BY <2>CoreResumesGuest DEF CoreResumesGuest, CoreGoto, coreRest
  <2>CoreNotRunning. CASE CoreNotRunning(c)
    BY <2>CoreNotRunning DEF CoreNotRunning, CoreGoto, coreRest
  <2>CorePaused. CASE CorePaused(c)
    BY <2>CorePaused DEF CorePaused, CoreGoto, coreRest
  <2>CoreExits. CASE CoreExits(c)
    BY <2>CoreExits DEF CoreExits, CoreGoto, coreRest
  <2>CoreNotPaused. CASE CoreNotPaused(c)
    BY <2>CoreNotPaused DEF CoreNotPaused, CoreGoto, coreRest
  <2>GuestSchedulesEvent. CASE GuestSchedulesEvent(c)
    BY <2>GuestSchedulesEvent DEF GuestSchedulesEvent, coreRest
  <2> QED BY <1>d, <2>CoreStarts, <2>CoreLoop, <2>CoreEnters, <2>CoreYields,
     <2>CoreSuspends, <2>CoreResumesGuest, <2>CoreNotRunning, <2>CorePaused, <2>CoreExits,
     <2>CoreNotPaused, <2>GuestSchedulesEvent DEF RunThread
<1>f. ASSUME NEW c \in Cores, ExceptionalExit(c) PROVE TypeOK'
  BY <1>f DEF ExceptionalExit
<1>e. CASE UNCHANGED vars
  BY <1>e DEF vars
<1> QED BY <1>a, <1>b, <1>c, <1>d, <1>e, <1>f DEF Next

\* The flags of SyncPause: only the emulation and the timer thread touch them.
LEMMA SyncStep == IInv /\ [Next]_vars => SyncInv'
<1> SUFFICES ASSUME IInv, [Next]_vars PROVE SyncInv'
  OBVIOUS
<1> USE DEF IInv, SyncInv, Syncing, timerVars, pauseVars, managerVars
<1>a. CASE SetRunning \/ SetNotRunning \/ RequestStop \/ UI
  BY <1>a, UIFrame
<1>b. CASE Emu
  <2>Loaded. CASE Loaded
    BY <2>Loaded DEF TypeOK, BranchInv, Loaded
  <2>LoopTop. CASE LoopTop
    BY <2>LoopTop DEF TypeOK, BranchInv, LoopTop
  <2>CheckRunning. CASE CheckRunning
    BY <2>CheckRunning DEF TypeOK, BranchInv, CheckRunning
  <2>SetRunningGuard. CASE SetRunningGuard
    BY <2>SetRunningGuard DEF TypeOK, BranchInv, SetRunningGuard
  <2>RunBegins. CASE RunBegins
    BY <2>RunBegins DEF TypeOK, BranchInv, RunBegins
  <2>AwaitRunningWait. CASE AwaitRunningWait
    BY <2>AwaitRunningWait DEF TypeOK, BranchInv, AwaitRunningWait
  <2>ClearRunningGuard. CASE ClearRunningGuard
    BY <2>ClearRunningGuard DEF TypeOK, BranchInv, ClearRunningGuard
  <2>SyncPause. CASE SyncPause
    BY <2>SyncPause DEF TypeOK, BranchInv, SyncPause, AfterSync
  <2>SyncSetPauseEvent. CASE SyncSetPauseEvent
    BY <2>SyncSetPauseEvent DEF TypeOK, BranchInv, SyncSetPauseEvent
  <2>SyncSetEvent. CASE SyncSetEvent
    BY <2>SyncSetEvent DEF TypeOK, BranchInv, SyncSetEvent
  <2>SyncReturns. CASE SyncReturns
    BY <2>SyncReturns DEF TypeOK, BranchInv, SyncReturns, AfterSync
  <2>Suspend. CASE Suspend
    BY <2>Suspend DEF TypeOK, BranchInv, Suspend
  <2>Unpause. CASE Unpause
    BY <2>Unpause DEF TypeOK, BranchInv, Unpause
  <2>AllStopped. CASE AllStopped
    BY <2>AllStopped DEF TypeOK, BranchInv, AllStopped, ScanCores
  <2>SetEnterBarriers. CASE SetEnterBarriers
    BY <2>SetEnterBarriers DEF TypeOK, BranchInv, SetEnterBarriers, ScanCores, AfterEnter
  <2>AllPaused. CASE AllPaused
    BY <2>AllPaused DEF TypeOK, BranchInv, AllPaused, ScanCores
  <2>SetExitBarriers. CASE SetExitBarriers
    BY <2>SetExitBarriers DEF TypeOK, BranchInv, SetExitBarriers, ScanCores
  <2>PauseEnds. CASE PauseEnds
    BY <2>PauseEnds DEF TypeOK, BranchInv, PauseEnds
  <2>ShutdownCores. CASE ShutdownCores
    BY <2>ShutdownCores DEF TypeOK, BranchInv, ShutdownCores
  <2>JoinCores. CASE JoinCores
    BY <2>JoinCores DEF TypeOK, BranchInv, JoinCores
  <2>JoinTimer. CASE JoinTimer
    BY <2>JoinTimer DEF TypeOK, BranchInv, JoinTimer
  <2> QED BY <1>b, <2>Loaded, <2>LoopTop, <2>CheckRunning, <2>SetRunningGuard, <2>RunBegins,
     <2>AwaitRunningWait, <2>ClearRunningGuard, <2>SyncPause, <2>SyncSetPauseEvent,
     <2>SyncSetEvent, <2>SyncReturns, <2>Suspend, <2>Unpause, <2>AllStopped,
     <2>SetEnterBarriers, <2>AllPaused, <2>SetExitBarriers, <2>PauseEnds, <2>ShutdownCores,
     <2>JoinCores, <2>JoinTimer DEF Emu
<1>c. CASE TimerThread
  <2>TimerTop. CASE TimerTop
    BY <2>TimerTop DEF TypeOK, TimerTop, TimerGoto, timerRest
  <2>TimerCheck. CASE TimerCheck
    BY <2>TimerCheck DEF TypeOK, TimerCheck, TimerGoto, timerRest
  <2>TimerGo. CASE TimerGo
    BY <2>TimerGo DEF TypeOK, TimerGo, TimerGoto, timerRest
  <2>Advance. CASE Advance
    BY <2>Advance DEF TypeOK, Advance, TimerGoto, timerRest
  <2>TimerEvent. CASE TimerEvent
    BY <2>TimerEvent DEF TypeOK, TimerEvent, TimerGoto, timerRest
  <2>TimerExpires. CASE TimerExpires
    BY <2>TimerExpires DEF TypeOK, TimerExpires, TimerGoto, timerRest
  <2>TimerStop. CASE TimerStop
    BY <2>TimerStop DEF TypeOK, TimerStop, TimerGoto, timerRest
  <2>TimerPauseEvent. CASE TimerPauseEvent
    BY <2>TimerPauseEvent DEF TypeOK, TimerPauseEvent, TimerGoto, timerRest
  <2> QED BY <1>c, <2>TimerTop, <2>TimerCheck, <2>TimerGo, <2>Advance, <2>TimerEvent,
     <2>TimerExpires, <2>TimerStop, <2>TimerPauseEvent DEF TimerThread
<1>d. ASSUME NEW c \in Cores, RunThread(c) \/ GuestSchedulesEvent(c) PROVE SyncInv'
  BY <1>d, CoreFrame
<1>f. ASSUME NEW c \in Cores, ExceptionalExit(c) PROVE SyncInv'
  BY <1>f, ExceptionFrame
<1>e. CASE UNCHANGED vars
  BY <1>e DEF vars, uiVars, waitVars, timerVars, pauseVars, kernelVars, coreVars, barrierVars,
     managerVars
<1> QED BY <1>a, <1>b, <1>c, <1>d, <1>e, <1>f DEF Next

\* The branch of MultiCorePause, and the flag that goes with it.
LEMMA BranchStep == IInv /\ [Next]_vars => BranchInv'
<1> SUFFICES ASSUME IInv, [Next]_vars PROVE BranchInv'
  OBVIOUS
<1> USE DEF IInv, BranchInv, TimerHeld, pauseVars, managerVars
<1>a. CASE SetRunning \/ SetNotRunning \/ RequestStop \/ UI
  BY <1>a, UIFrame
<1>b. CASE Emu
  <2>Loaded. CASE Loaded
    BY <2>Loaded DEF TypeOK, SyncInv, Syncing, Loaded
  <2>LoopTop. CASE LoopTop
    BY <2>LoopTop DEF TypeOK, SyncInv, Syncing, LoopTop
  <2>CheckRunning. CASE CheckRunning
    BY <2>CheckRunning DEF TypeOK, SyncInv, Syncing, CheckRunning
  <2>SetRunningGuard. CASE SetRunningGuard
    BY <2>SetRunningGuard DEF TypeOK, SyncInv, Syncing, SetRunningGuard
  <2>RunBegins. CASE RunBegins
    BY <2>RunBegins DEF TypeOK, SyncInv, Syncing, RunBegins
  <2>AwaitRunningWait. CASE AwaitRunningWait
    BY <2>AwaitRunningWait DEF TypeOK, SyncInv, Syncing, AwaitRunningWait
  <2>ClearRunningGuard. CASE ClearRunningGuard
    BY <2>ClearRunningGuard DEF TypeOK, SyncInv, Syncing, ClearRunningGuard
  <2>SyncPause. CASE SyncPause
    BY <2>SyncPause DEF TypeOK, SyncInv, Syncing, SyncPause, AfterSync
  <2>SyncSetPauseEvent. CASE SyncSetPauseEvent
    BY <2>SyncSetPauseEvent DEF TypeOK, SyncInv, Syncing, SyncSetPauseEvent
  <2>SyncSetEvent. CASE SyncSetEvent
    BY <2>SyncSetEvent DEF TypeOK, SyncInv, Syncing, SyncSetEvent
  <2>SyncReturns. CASE SyncReturns
    BY <2>SyncReturns DEF TypeOK, SyncInv, Syncing, SyncReturns, AfterSync
  <2>Suspend. CASE Suspend
    BY <2>Suspend DEF TypeOK, SyncInv, Syncing, Suspend
  <2>Unpause. CASE Unpause
    BY <2>Unpause DEF TypeOK, SyncInv, Syncing, Unpause
  <2>AllStopped. CASE AllStopped
    BY <2>AllStopped DEF TypeOK, SyncInv, Syncing, AllStopped, ScanCores
  <2>SetEnterBarriers. CASE SetEnterBarriers
    BY <2>SetEnterBarriers DEF TypeOK, SyncInv, Syncing, SetEnterBarriers, ScanCores,
       AfterEnter
  <2>AllPaused. CASE AllPaused
    BY <2>AllPaused DEF TypeOK, SyncInv, Syncing, AllPaused, ScanCores
  <2>SetExitBarriers. CASE SetExitBarriers
    BY <2>SetExitBarriers DEF TypeOK, SyncInv, Syncing, SetExitBarriers, ScanCores
  <2>PauseEnds. CASE PauseEnds
    BY <2>PauseEnds DEF TypeOK, SyncInv, Syncing, PauseEnds
  <2>ShutdownCores. CASE ShutdownCores
    BY <2>ShutdownCores DEF TypeOK, SyncInv, Syncing, ShutdownCores
  <2>JoinCores. CASE JoinCores
    BY <2>JoinCores DEF TypeOK, SyncInv, Syncing, JoinCores
  <2>JoinTimer. CASE JoinTimer
    BY <2>JoinTimer DEF TypeOK, SyncInv, Syncing, JoinTimer
  <2> QED BY <1>b, <2>Loaded, <2>LoopTop, <2>CheckRunning, <2>SetRunningGuard, <2>RunBegins,
     <2>AwaitRunningWait, <2>ClearRunningGuard, <2>SyncPause, <2>SyncSetPauseEvent,
     <2>SyncSetEvent, <2>SyncReturns, <2>Suspend, <2>Unpause, <2>AllStopped,
     <2>SetEnterBarriers, <2>AllPaused, <2>SetExitBarriers, <2>PauseEnds, <2>ShutdownCores,
     <2>JoinCores, <2>JoinTimer DEF Emu
<1>c. CASE TimerThread
  BY <1>c, TimerFrame
<1>d. ASSUME NEW c \in Cores, RunThread(c) \/ GuestSchedulesEvent(c) PROVE BranchInv'
  BY <1>d, CoreFrame
<1>f. ASSUME NEW c \in Cores, ExceptionalExit(c) PROVE BranchInv'
  BY <1>f, ExceptionFrame
<1>e. CASE UNCHANGED vars
  BY <1>e DEF vars, uiVars, waitVars, timerVars, pauseVars, kernelVars, coreVars, barrierVars,
     managerVars
<1> QED BY <1>a, <1>b, <1>c, <1>d, <1>e, <1>f DEF Next

\* What a host thread that has left its fiber says of its core, and the scan.
LEMMA HostStep == IInv /\ [Next]_vars => HostInv'
<1> SUFFICES ASSUME IInv, [Next]_vars PROVE HostInv'
  OBVIOUS
<1> USE DEF IInv, HostInv,
       kernelVars, coreVars, barrierVars, managerVars
<1>a. CASE SetRunning \/ SetNotRunning \/ RequestStop \/ UI
  BY <1>a, UIFrame
<1>b. CASE Emu
  <2>Loaded. CASE Loaded
    BY <2>Loaded DEF TypeOK, BranchInv, Loaded
  <2>LoopTop. CASE LoopTop
    BY <2>LoopTop DEF TypeOK, BranchInv, LoopTop
  <2>CheckRunning. CASE CheckRunning
    BY <2>CheckRunning DEF TypeOK, BranchInv, CheckRunning
  <2>SetRunningGuard. CASE SetRunningGuard
    BY <2>SetRunningGuard DEF TypeOK, BranchInv, SetRunningGuard
  <2>RunBegins. CASE RunBegins
    BY <2>RunBegins DEF TypeOK, BranchInv, RunBegins
  <2>AwaitRunningWait. CASE AwaitRunningWait
    BY <2>AwaitRunningWait DEF TypeOK, BranchInv, AwaitRunningWait
  <2>ClearRunningGuard. CASE ClearRunningGuard
    BY <2>ClearRunningGuard DEF TypeOK, BranchInv, ClearRunningGuard
  <2>SyncPause. CASE SyncPause
    BY <2>SyncPause DEF TypeOK, BranchInv, SyncPause, AfterSync
  <2>SyncSetPauseEvent. CASE SyncSetPauseEvent
    BY <2>SyncSetPauseEvent DEF TypeOK, BranchInv, SyncSetPauseEvent
  <2>SyncSetEvent. CASE SyncSetEvent
    BY <2>SyncSetEvent DEF TypeOK, BranchInv, SyncSetEvent
  <2>SyncReturns. CASE SyncReturns
    BY <2>SyncReturns DEF TypeOK, BranchInv, SyncReturns, AfterSync
  <2>Suspend. CASE Suspend
    BY <2>Suspend, SystemPauseAssumption DEF TypeOK, BranchInv, Suspend, Cores
  <2>Unpause. CASE Unpause
    BY <2>Unpause, SystemPauseAssumption DEF TypeOK, BranchInv, Unpause, Cores
  <2>AllStopped. CASE AllStopped
    BY <2>AllStopped, SystemPauseAssumption DEF TypeOK, BranchInv, AllStopped, ScanCores,
       Cores
  <2>SetEnterBarriers. CASE SetEnterBarriers
    BY <2>SetEnterBarriers, SystemPauseAssumption DEF TypeOK, BranchInv, SetEnterBarriers,
       ScanCores, AfterEnter, Cores
  <2>AllPaused. CASE AllPaused
    BY <2>AllPaused, SystemPauseAssumption DEF TypeOK, BranchInv, AllPaused, ScanCores,
       Cores
  <2>SetExitBarriers. CASE SetExitBarriers
    BY <2>SetExitBarriers, SystemPauseAssumption DEF TypeOK, BranchInv, SetExitBarriers,
       ScanCores, Cores
  <2>PauseEnds. CASE PauseEnds
    BY <2>PauseEnds DEF TypeOK, BranchInv, PauseEnds
  <2>ShutdownCores. CASE ShutdownCores
    BY <2>ShutdownCores DEF TypeOK, BranchInv, ShutdownCores
  <2>JoinCores. CASE JoinCores
    BY <2>JoinCores DEF TypeOK, BranchInv, JoinCores
  <2>JoinTimer. CASE JoinTimer
    BY <2>JoinTimer DEF TypeOK, BranchInv, JoinTimer
  <2> QED BY <1>b, <2>Loaded, <2>LoopTop, <2>CheckRunning, <2>SetRunningGuard, <2>RunBegins,
     <2>AwaitRunningWait, <2>ClearRunningGuard, <2>SyncPause, <2>SyncSetPauseEvent,
     <2>SyncSetEvent, <2>SyncReturns, <2>Suspend, <2>Unpause, <2>AllStopped,
     <2>SetEnterBarriers, <2>AllPaused, <2>SetExitBarriers, <2>PauseEnds, <2>ShutdownCores,
     <2>JoinCores, <2>JoinTimer DEF Emu
<1>c. CASE TimerThread
  BY <1>c, TimerFrame
<1>d. ASSUME NEW c \in Cores, RunThread(c) \/ GuestSchedulesEvent(c) PROVE HostInv'
  <2>1. UNCHANGED <<emu, kernelVars, managerVars>>
    BY <1>d, CoreFrame
  <2>CoreStarts. CASE CoreStarts(c)
    BY <2>CoreStarts, <2>1 DEF TypeOK, CoreStarts, CoreGoto
  <2>CoreLoop. CASE CoreLoop(c)
    BY <2>CoreLoop, <2>1 DEF TypeOK, CoreLoop, CoreGoto
  <2>CoreEnters. CASE CoreEnters(c)
    BY <2>CoreEnters, <2>1 DEF TypeOK, CoreEnters, CoreGoto
  <2>CoreYields. CASE CoreYields(c)
    BY <2>CoreYields, <2>1 DEF TypeOK, CoreYields, CoreGoto
  <2>CoreSuspends. CASE CoreSuspends(c)
    BY <2>CoreSuspends, <2>1 DEF TypeOK, CoreSuspends, CoreGoto
  <2>CoreResumesGuest. CASE CoreResumesGuest(c)
    BY <2>CoreResumesGuest, <2>1 DEF TypeOK, CoreResumesGuest, CoreGoto
  <2>CoreNotRunning. CASE CoreNotRunning(c)
    BY <2>CoreNotRunning, <2>1 DEF TypeOK, CoreNotRunning, CoreGoto
  <2>CorePaused. CASE CorePaused(c)
    BY <2>CorePaused, <2>1 DEF TypeOK, CorePaused, CoreGoto
  <2>CoreExits. CASE CoreExits(c)
    BY <2>CoreExits, <2>1 DEF TypeOK, CoreExits, CoreGoto
  <2>CoreNotPaused. CASE CoreNotPaused(c)
    BY <2>CoreNotPaused, <2>1 DEF TypeOK, CoreNotPaused, CoreGoto
  <2>GuestSchedulesEvent. CASE GuestSchedulesEvent(c)
    BY <2>GuestSchedulesEvent, <2>1 DEF GuestSchedulesEvent
  <2> QED BY <1>d, <2>CoreStarts, <2>CoreLoop, <2>CoreEnters, <2>CoreYields,
     <2>CoreSuspends, <2>CoreResumesGuest, <2>CoreNotRunning, <2>CorePaused, <2>CoreExits,
     <2>CoreNotPaused, <2>GuestSchedulesEvent DEF RunThread
<1>f. ASSUME NEW c \in Cores, ExceptionalExit(c) PROVE HostInv'
  BY <1>f, ExceptionFrame
<1>e. CASE UNCHANGED vars
  BY <1>e DEF vars, uiVars, waitVars, timerVars, pauseVars, kernelVars, coreVars, barrierVars,
     managerVars
<1> QED BY <1>a, <1>b, <1>c, <1>d, <1>e, <1>f DEF Next

\* A paused system stays stopped until System::Run begins.
LEMMA PausedStep == IInv /\ [Next]_vars => PausedInv'
<1> SUFFICES ASSUME IInv, [Next]_vars PROVE PausedInv'
  OBVIOUS
<1> USE DEF IInv, PausedInv, SystemPaused,
       kernelVars, coreVars, barrierVars, managerVars
<1>a. CASE SetRunning \/ SetNotRunning \/ RequestStop \/ UI
  BY <1>a, UIFrame
<1>b. CASE Emu
  <2>Loaded. CASE Loaded
    BY <2>Loaded DEF TypeOK, BranchInv, Loaded
  <2>LoopTop. CASE LoopTop
    BY <2>LoopTop DEF TypeOK, BranchInv, LoopTop
  <2>CheckRunning. CASE CheckRunning
    BY <2>CheckRunning DEF TypeOK, BranchInv, CheckRunning
  <2>SetRunningGuard. CASE SetRunningGuard
    BY <2>SetRunningGuard DEF TypeOK, BranchInv, SetRunningGuard
  <2>RunBegins. CASE RunBegins
    BY <2>RunBegins DEF TypeOK, BranchInv, RunBegins
  <2>AwaitRunningWait. CASE AwaitRunningWait
    BY <2>AwaitRunningWait DEF TypeOK, BranchInv, AwaitRunningWait
  <2>ClearRunningGuard. CASE ClearRunningGuard
    BY <2>ClearRunningGuard DEF TypeOK, BranchInv, ClearRunningGuard
  <2>SyncPause. CASE SyncPause
    BY <2>SyncPause DEF TypeOK, BranchInv, SyncPause, AfterSync
  <2>SyncSetPauseEvent. CASE SyncSetPauseEvent
    BY <2>SyncSetPauseEvent DEF TypeOK, BranchInv, SyncSetPauseEvent
  <2>SyncSetEvent. CASE SyncSetEvent
    BY <2>SyncSetEvent DEF TypeOK, BranchInv, SyncSetEvent
  <2>SyncReturns. CASE SyncReturns
    BY <2>SyncReturns DEF TypeOK, BranchInv, SyncReturns, AfterSync
  <2>Suspend. CASE Suspend
    BY <2>Suspend, SystemPauseAssumption DEF TypeOK, BranchInv, Suspend, Cores
  <2>Unpause. CASE Unpause
    BY <2>Unpause, SystemPauseAssumption DEF TypeOK, BranchInv, Unpause, Cores
  <2>AllStopped. CASE AllStopped
    BY <2>AllStopped, SystemPauseAssumption DEF TypeOK, BranchInv, AllStopped, ScanCores,
       Cores
  <2>SetEnterBarriers. CASE SetEnterBarriers
    BY <2>SetEnterBarriers, SystemPauseAssumption DEF TypeOK, BranchInv, SetEnterBarriers,
       ScanCores, AfterEnter, Cores
  <2>AllPaused. CASE AllPaused
    BY <2>AllPaused, SystemPauseAssumption DEF TypeOK, BranchInv, AllPaused, ScanCores,
       Cores
  <2>SetExitBarriers. CASE SetExitBarriers
    BY <2>SetExitBarriers, SystemPauseAssumption DEF TypeOK, BranchInv, SetExitBarriers,
       ScanCores, Cores
  <2>PauseEnds. CASE PauseEnds
    BY <2>PauseEnds DEF TypeOK, BranchInv, PauseEnds, HostInv
  <2>ShutdownCores. CASE ShutdownCores
    BY <2>ShutdownCores DEF TypeOK, BranchInv, ShutdownCores
  <2>JoinCores. CASE JoinCores
    BY <2>JoinCores DEF TypeOK, BranchInv, JoinCores
  <2>JoinTimer. CASE JoinTimer
    BY <2>JoinTimer DEF TypeOK, BranchInv, JoinTimer
  <2> QED BY <1>b, <2>Loaded, <2>LoopTop, <2>CheckRunning, <2>SetRunningGuard, <2>RunBegins,
     <2>AwaitRunningWait, <2>ClearRunningGuard, <2>SyncPause, <2>SyncSetPauseEvent,
     <2>SyncSetEvent, <2>SyncReturns, <2>Suspend, <2>Unpause, <2>AllStopped,
     <2>SetEnterBarriers, <2>AllPaused, <2>SetExitBarriers, <2>PauseEnds, <2>ShutdownCores,
     <2>JoinCores, <2>JoinTimer DEF Emu
<1>c. CASE TimerThread
  BY <1>c, TimerFrame
<1>d. ASSUME NEW c \in Cores, RunThread(c) \/ GuestSchedulesEvent(c) PROVE PausedInv'
  <2>1. UNCHANGED <<emu, kernelVars, managerVars>>
    BY <1>d, CoreFrame
  <2>CoreStarts. CASE CoreStarts(c)
    BY <2>CoreStarts, <2>1 DEF TypeOK, CoreStarts, CoreGoto
  <2>CoreLoop. CASE CoreLoop(c)
    BY <2>CoreLoop, <2>1 DEF TypeOK, CoreLoop, CoreGoto
  <2>CoreEnters. CASE CoreEnters(c)
    BY <2>CoreEnters, <2>1 DEF TypeOK, CoreEnters, CoreGoto
  <2>CoreYields. CASE CoreYields(c)
    BY <2>CoreYields, <2>1 DEF TypeOK, CoreYields, CoreGoto
  <2>CoreSuspends. CASE CoreSuspends(c)
    BY <2>CoreSuspends, <2>1 DEF TypeOK, CoreSuspends, CoreGoto
  <2>CoreResumesGuest. CASE CoreResumesGuest(c)
    BY <2>CoreResumesGuest, <2>1 DEF TypeOK, CoreResumesGuest, CoreGoto
  <2>CoreNotRunning. CASE CoreNotRunning(c)
    BY <2>CoreNotRunning, <2>1 DEF TypeOK, CoreNotRunning, CoreGoto
  <2>CorePaused. CASE CorePaused(c)
    BY <2>CorePaused, <2>1 DEF TypeOK, CorePaused, CoreGoto
  <2>CoreExits. CASE CoreExits(c)
    BY <2>CoreExits, <2>1 DEF TypeOK, CoreExits, CoreGoto
  <2>CoreNotPaused. CASE CoreNotPaused(c)
    BY <2>CoreNotPaused, <2>1 DEF TypeOK, CoreNotPaused, CoreGoto
  <2>GuestSchedulesEvent. CASE GuestSchedulesEvent(c)
    BY <2>GuestSchedulesEvent, <2>1 DEF GuestSchedulesEvent
  <2> QED BY <1>d, <2>CoreStarts, <2>CoreLoop, <2>CoreEnters, <2>CoreYields,
     <2>CoreSuspends, <2>CoreResumesGuest, <2>CoreNotRunning, <2>CorePaused, <2>CoreExits,
     <2>CoreNotPaused, <2>GuestSchedulesEvent DEF RunThread
<1>f. ASSUME NEW c \in Cores, ExceptionalExit(c) PROVE PausedInv'
  BY <1>f, ExceptionFrame
<1>e. CASE UNCHANGED vars
  BY <1>e DEF vars, uiVars, waitVars, timerVars, pauseVars, kernelVars, coreVars, barrierVars,
     managerVars
<1> QED BY <1>a, <1>b, <1>c, <1>d, <1>e, <1>f DEF Next

\* What the flags say holds at the start and is kept by every step.
THEOREM Invariance == Spec => []IInv
<1>1. Init => IInv
  <2> SUFFICES ASSUME Init PROVE IInv
    OBVIOUS
  <2>1. requests \in 0..MaxRequests /\ scan \in Cores
    BY SystemPauseAssumption DEF Init, Cores
  <2>2. TypeOK
    BY <2>1 DEF Init, TypeOK
  <2>3. SyncInv /\ BranchInv
    BY DEF Init, SyncInv, Syncing, BranchInv, TimerHeld
  <2>4. HostInv /\ PausedInv
    BY DEF Init, HostInv, PausedInv, SystemPaused
  <2> QED BY <2>2, <2>3, <2>4 DEF IInv
<1>2. IInv /\ [Next]_vars => IInv'
  BY TypeStep, SyncStep, BranchStep, HostStep, PausedStep DEF IInv
<1> QED BY <1>1, <1>2, PTL DEF Spec

\* No core executes guest code while the system is paused: CpuManager's scan of
\* the is_paused flags, however it interleaves with the cores, is enough.
THEOREM PausedRunsNoGuest == Spec => []NoGuestWhilePaused
<1>1. IInv => NoGuestWhilePaused
  BY DEF IInv, PausedInv, NoGuestWhilePaused, ExecutesGuest
<1> QED BY Invariance, <1>1, PTL

\* Once SyncPause(true) has returned no timing callback runs until the next
\* SyncPause(false), the time in which the paused system rests included: the
\* flags need no lock.
THEOREM PausedRunsNoCallback == Spec => []NoCallbackWhilePaused
<1>1. IInv => NoCallbackWhilePaused
  BY DEF IInv, TypeOK, SyncInv, Syncing, BranchInv, TimerHeld, NoCallbackWhilePaused
<1> QED BY Invariance, <1>1, PTL
=============================================================================
