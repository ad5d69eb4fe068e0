---------------------------- MODULE CoreScheduler ----------------------------
(***************************************************************************)
(* How the emulated cores come to run the threads that the global          *)
(* scheduler selects for them: Kernel::Scheduler, the fibers it switches   *)
(* between, the interrupts of the cores and the loops of the CPU manager,  *)
(* with one host thread per core.  The selection itself is that of module  *)
(* GlobalScheduler, whose operators are used here.                         *)
(*                                                                         *)
(* An actor (a guest thread on its core, or a host thread) changes the     *)
(* state of a thread under the scheduler's lock.  Unlock selects, hands    *)
(* each core its selection, releases the lock and interrupts the cores     *)
(* that have to switch.  A core switches by going to its switch fiber,     *)
(* which takes the context_guard of the next thread and enters the fiber   *)
(* of that thread, possibly while another core is still on it.             *)
(*                                                                         *)
(* Steps.  A section under Scheduler::guard is one step: what it reads and *)
(* writes is written under that guard only, and what it releases before    *)
(* its end it does not take again.  YieldTo is one step for that reason    *)
(* too: it takes the guard of the fiber it goes to and gives back that of  *)
(* the one it leaves.  selected_thread is current_thread wherever it is    *)
(* read, and is left out.  The suspend threads are in module SystemPause.  *)
(*                                                                         *)
(* Operators named Fault... are deliberately wrong versions of the         *)
(* definition that follows them, used by no specification: see module      *)
(* Synchronization.                                                        *)
(***************************************************************************)
EXTENDS Integers, FiniteSets, SequencesExt

CONSTANTS
    Threads,               \* the guest threads
    NumCores,              \* Core::Hardware::NUM_CPU_CORES
    Urgency,               \* the priority of each thread
    Masks,                 \* the affinity mask of each thread
    MaxCoreMigration,      \* THREADPRIO_MAX_CORE_MIGRATION
    Host,                  \* a host thread: the timer thread
    MaxCalls,              \* bound: how often threads change state
    None                   \* nullptr

Cores == 0 .. NumCores - 1
Actors == Cores \cup {Host}

\* The fibers: one for each thread, and two for each core.
IdleFiber(c) == <<"idle", c>>
SwitchFiber(c) == <<"switch", c>>
Fibers == Threads \cup {IdleFiber(c) : c \in Cores}
                  \cup {SwitchFiber(c) : c \in Cores}

ASSUME CoreSchedulerAssumption ==
    /\ NumCores \in Nat \ {0}
    /\ Urgency \in [Threads -> Nat]
    /\ Masks \in [Threads -> (SUBSET Cores) \ {{}}]
    /\ MaxCalls \in Nat
    /\ None \notin Threads \cup Actors
    /\ Host \notin Cores
    /\ \A c \in Cores : {IdleFiber(c), SwitchFiber(c)} \cap Threads = {}

VARIABLES
    sched,          \* the queues of the global scheduler, see there
    status,         \* Thread::scheduling_state, the ThreadSchedStatus
    paused,         \* Thread::scheduling_state, ThreadPauseFlag
    lock,           \* GlobalScheduler::inner_lock: the actor that holds it
    top_threads,    \* the threads that SelectThreads hands out
    to_update,      \* the cores that SelectThreads still has to update
    selected_thread_set,        \* Scheduler, for each core
    current_thread,             \* Scheduler, for each core
    is_context_switch_pending,  \* Scheduler, for each core
    is_interrupted,   \* CPUInterruptHandler, for each core
    interrupt_event,  \* CPUInterruptHandler, for each core: the event is set
    context_guard,    \* Thread: the core that holds it
    fiber_guard,      \* Fiber::guard: is locked
    fiber,            \* the fiber that each core executes
    started,          \* the cores whose switch fiber has started
    pc,               \* where each actor is
    cores_pending_reschedule,   \* of each actor: the cores it has to
                                \* interrupt when it has left the lock
    calls             \* how often the threads have changed state

kernelVars == <<sched, status, paused, lock, top_threads, to_update>>
switchVars == <<selected_thread_set, current_thread,
                is_context_switch_pending>>
interruptVars == <<is_interrupted, interrupt_event>>
fiberVars == <<context_guard, fiber_guard, fiber, started>>
vars == <<kernelVars, switchVars, interruptVars, fiberVars, pc,
          cores_pending_reschedule, calls>>

\* The global scheduler, with threads that keep their masks and priorities.
Global == INSTANCE GlobalScheduler WITH
    Priorities <- {Urgency[t] : t \in Threads},
    PreemptionPriorities <- [c \in Cores |-> 0],
    FirstCores <- Cores, Requests <- {}, NewPriorities <- {},
    affinity_mask <- Masks, ideal_core <- [t \in Threads |-> -1],
    selected <- selected_thread_set, running <- current_thread

IsRunnable(t) == Global!IsRunnable(t)

\* Actor a goes on at the given place.
Goto(a, label) == pc' = [pc EXCEPT ![a] = label]

-----------------------------------------------------------------------------
(* Operations under the scheduler's lock *)

\* A guest thread in guest code, or the host thread, may call the kernel.
Caller(a) ==
    /\ calls < MaxCalls
    /\ lock = None
    /\ pc[a] = IF a = Host THEN "ready" ELSE "guest"

\* Lock: the operation takes place in the same step, Unlock follows.
EnterLock(a) ==
    /\ lock' = a
    /\ calls' = calls + 1
    /\ Goto(a, "select")
    /\ UNCHANGED <<top_threads, to_update, switchVars, interruptVars,
                   fiberVars, cores_pending_reschedule>>

\* SetSchedulingStatus, AddSchedulingFlag and RemoveSchedulingFlag.
SetSchedulingState(a, t, newStatus, newPaused) ==
    /\ status' = [status EXCEPT ![t] = newStatus]
    /\ paused' = [paused EXCEPT ![t] = newPaused]
    /\ sched' = Global!AdjustSchedulingOnStatus(t, IsRunnable(t),
                   newStatus = "Runnable" /\ ~newPaused)
    /\ EnterLock(a)

\* Start, ResumeFromWait and OnWakeUp
Resume(a, t) ==
    /\ Caller(a)
    /\ status[t] \in {"None", "Paused"}
    /\ SetSchedulingState(a, t, "Runnable", paused[t])

\* A thread waits, sleeps or exits.
Block(c) ==
    LET t == current_thread[c]
    IN /\ Caller(c)
       /\ status[t] = "Runnable"
       /\ \E new \in {"Paused", "Exited"} :
            SetSchedulingState(c, t, new, paused[t])

\* svcSetThreadActivity, for another thread than the caller.
SetThreadActivity(c, t) ==
    /\ Caller(c)
    /\ t # current_thread[c]
    /\ status[t] \in {"Runnable", "Paused"}
    /\ SetSchedulingState(c, t, status[t], ~paused[t])

\* svcSleepThread that yields in one of its three ways: the thread may lose
\* its core, and another one may come there.  A paused thread only gives it up.
Yield(c) ==
    LET t == current_thread[c]
    IN /\ Caller(c)
       /\ \E s \in IF IsRunnable(t) THEN Global!Yielded(sched, t) ELSE {sched} :
            sched' = s
       /\ EnterLock(c)
       /\ UNCHANGED <<status, paused>>

\* The selection is made, the last loop of SelectThreads begins.
BeginUpdate(a) ==
    /\ pc[a] = "select"
    /\ to_update' = Cores
    /\ Goto(a, "update")
    /\ UNCHANGED cores_pending_reschedule

\* SelectThreads, but for its last loop.
Select(a) ==
    LET r == Global!SelectThreads(sched)
    IN /\ BeginUpdate(a)
       /\ sched' = r.s
       /\ top_threads' = r.top
       /\ UNCHANGED <<status, paused, lock, switchVars, interruptVars,
                      fiberVars, calls>>

FirstOf(set) == CHOOSE c \in set : \A d \in set : c <= d

\* Fault: the bit of the next core is set.
FaultNextBit(a) ==
    LET c == FirstOf(to_update)
        pending == \/ is_context_switch_pending[c]
                   \/ top_threads[c] # current_thread[c]
    IN /\ pc[a] = "update" /\ to_update # {}
       /\ selected_thread_set' =
            [selected_thread_set EXCEPT ![c] = top_threads[c]]
       /\ is_context_switch_pending' =
            [is_context_switch_pending EXCEPT ![c] = pending]
       /\ cores_pending_reschedule' =
            [cores_pending_reschedule EXCEPT
               ![a] = IF pending THEN @ \cup {c + 1} ELSE @]
       /\ to_update' = to_update \ {c}
       /\ UNCHANGED <<sched, status, paused, lock, top_threads,
                      current_thread, interruptVars, fiberVars, pc, calls>>

\* The last loop of SelectThreads: update_thread hands a core its selection.
UpdateThread(a) ==
    LET c == FirstOf(to_update)
        pending == \/ is_context_switch_pending[c]
                   \/ top_threads[c] # current_thread[c]
    IN /\ pc[a] = "update" /\ to_update # {}
       /\ selected_thread_set' =
            [selected_thread_set EXCEPT ![c] = top_threads[c]]
       /\ is_context_switch_pending' =
            [is_context_switch_pending EXCEPT ![c] = pending]
       /\ cores_pending_reschedule' =
            [cores_pending_reschedule EXCEPT
               ![a] = IF pending THEN @ \cup {c} ELSE @]
       /\ to_update' = to_update \ {c}
       /\ UNCHANGED <<sched, status, paused, lock, top_threads,
                      current_thread, interruptVars, fiberVars, pc, calls>>

\* Fault: the comparison with the core of the caller is the wrong way round.
FaultOnlyItself(a) ==
    /\ pc[a] = "update" /\ to_update = {}
    /\ lock' = None
    /\ top_threads' = [c \in Cores |-> None]
    /\ cores_pending_reschedule' =
         [cores_pending_reschedule EXCEPT ![a] = @ \cap {a}]
    /\ Goto(a, "interrupt")
    /\ UNCHANGED <<sched, status, paused, to_update, switchVars,
                   interruptVars, fiberVars, calls>>

\* Unlock releases the lock.  EnableInterruptAndSchedule does not interrupt
\* the core that the calling guest thread runs on.
Unlock(a) ==
    /\ pc[a] = "update" /\ to_update = {}
    /\ lock' = None
    /\ top_threads' = [c \in Cores |-> None]
    /\ cores_pending_reschedule' =
         [cores_pending_reschedule EXCEPT ![a] = @ \ {a}]
    /\ Goto(a, "interrupt")
    /\ UNCHANGED <<sched, status, paused, to_update, switchVars,
                   interruptVars, fiberVars, calls>>

\* PhysicalCore::guard, which Interrupt holds between its two halves.
InterruptGuardHeld(c) ==
    \E a \in Actors :
      pc[a] = "flag" /\ FirstOf(cores_pending_reschedule[a]) = c

\* PhysicalCore::Interrupt, first half: the event is set.
SetEvent(a) ==
    LET c == FirstOf(cores_pending_reschedule[a])
    IN /\ pc[a] = "interrupt" /\ cores_pending_reschedule[a] # {}
       /\ ~InterruptGuardHeld(c)
       /\ interrupt_event' = [interrupt_event EXCEPT ![c] = TRUE]
       /\ Goto(a, "flag")
       /\ UNCHANGED <<kernelVars, switchVars, is_interrupted, fiberVars,
                      cores_pending_reschedule, calls>>

\* PhysicalCore::Interrupt, second half: the flag is set.
SetFlag(a) ==
    LET c == FirstOf(cores_pending_reschedule[a])
    IN /\ pc[a] = "flag"
       /\ is_interrupted' = [is_interrupted EXCEPT ![c] = TRUE]
       /\ cores_pending_reschedule' =
            [cores_pending_reschedule EXCEPT ![a] = @ \ {c}]
       /\ Goto(a, "interrupt")
       /\ UNCHANGED <<kernelVars, switchVars, interrupt_event, fiberVars,
                      calls>>

\* The end of EnableInterruptAndSchedule: a guest thread tries to switch.
Interrupted(a) ==
    /\ pc[a] = "interrupt" /\ cores_pending_reschedule[a] = {}
    /\ Goto(a, IF a = Host THEN "ready" ELSE "clear")
    /\ UNCHANGED <<kernelVars, switchVars, interruptVars, fiberVars,
                   cores_pending_reschedule, calls>>

-----------------------------------------------------------------------------
(* TryDoContextSwitch and SwitchContext, on the fiber of a thread *)

\* The guest loop of a core sees the interrupt.
GuestInterrupted(c) ==
    /\ pc[c] = "guest"
    /\ is_interrupted[c]
    /\ Goto(c, "clear")
    /\ UNCHANGED <<kernelVars, switchVars, interruptVars, fiberVars,
                   cores_pending_reschedule, calls>>

\* The idle loop: AwaitInterrupt.
IdleInterrupted(c) ==
    /\ pc[c] = "idle"
    /\ interrupt_event[c]
    /\ interrupt_event' = [interrupt_event EXCEPT ![c] = FALSE]
    /\ Goto(c, "clear")
    /\ UNCHANGED <<kernelVars, switchVars, is_interrupted, fiberVars,
                   cores_pending_reschedule, calls>>

\* TryDoContextSwitch first clears the interrupt.
ClearInterrupt(c) ==
    /\ pc[c] = "clear"
    /\ is_interrupted[c] => ~InterruptGuardHeld(c)
    /\ is_interrupted' = [is_interrupted EXCEPT ![c] = FALSE]
    /\ Goto(c, "try")
    /\ UNCHANGED <<kernelVars, switchVars, interrupt_event, fiberVars,
                   cores_pending_reschedule, calls>>

\* Where the loop of the CPU manager goes on.
Loop(c) == IF fiber[c] \in Threads THEN "guest" ELSE "idle"

\* TryDoContextSwitch then looks for a pending switch.
NoSwitch(c) ==
    /\ pc[c] = "try"
    /\ ~is_context_switch_pending[c]
    /\ Goto(c, Loop(c))
    /\ UNCHANGED <<kernelVars, switchVars, interruptVars, fiberVars,
                   cores_pending_reschedule, calls>>

\* SwitchContext takes the selection; unless it is the same thread, the
\* registers are saved and the context_guard of the thread is released.
SwitchContext(c) ==
    LET previous == current_thread[c]
        new == selected_thread_set[c]
    IN /\ pc[c] = "try"
       /\ is_context_switch_pending[c]
       /\ current_thread' = [current_thread EXCEPT ![c] = new]
       /\ is_context_switch_pending' =
            [is_context_switch_pending EXCEPT ![c] = FALSE]
       /\ context_guard' = [t \in Threads |->
                              IF t = previous /\ new # previous
                                THEN None ELSE context_guard[t]]
       /\ Goto(c, IF new = previous THEN Loop(c) ELSE "leave")
       /\ UNCHANGED <<kernelVars, selected_thread_set, interruptVars,
                      fiber_guard, fiber, started, cores_pending_reschedule,
                      calls>>

\* Fault: the guard of the fiber is not waited for.
FaultNoFiberGuard(c, to) ==
    /\ fiber_guard' = [fiber_guard EXCEPT ![fiber[c]] = FALSE, ![to] = TRUE]
    /\ fiber' = [fiber EXCEPT ![c] = to]

\* Fault: the guard of the fiber left behind stays locked.
FaultKeepsGuard(c, to) ==
    /\ ~fiber_guard[to]
    /\ fiber_guard' = [fiber_guard EXCEPT ![to] = TRUE]
    /\ fiber' = [fiber EXCEPT ![c] = to]

\* Fiber::YieldTo: waits for the guard of the fiber it goes to.
YieldTo(c, to) ==
    /\ ~fiber_guard[to]
    /\ fiber_guard' = [fiber_guard EXCEPT ![fiber[c]] = FALSE, ![to] = TRUE]
    /\ fiber' = [fiber EXCEPT ![c] = to]

\* SwitchContext goes to the switch fiber, which begins with OnSwitch the
\* first time and else is in the middle of SwitchToCurrent.
Leave(c) ==
    /\ pc[c] = "leave"
    /\ YieldTo(c, SwitchFiber(c))
    /\ started' = started \cup {c}
    /\ Goto(c, IF c \in started THEN "pending" ELSE "current")
    /\ UNCHANGED <<kernelVars, switchVars, interruptVars, context_guard,
                   cores_pending_reschedule, calls>>

-----------------------------------------------------------------------------
(* SwitchToCurrent, on the switch fiber *)

\* Fault: the selection is not read again.
FaultStaleSelection(c) ==
    /\ pc[c] = "current"
    /\ is_context_switch_pending' =
         [is_context_switch_pending EXCEPT ![c] = FALSE]
    /\ Goto(c, "pending")
    /\ UNCHANGED <<kernelVars, selected_thread_set, current_thread,
                   interruptVars, fiberVars, cores_pending_reschedule, calls>>

\* The section under the guard.
TakeSelection(c) ==
    /\ pc[c] = "current"
    /\ current_thread' =
         [current_thread EXCEPT ![c] = selected_thread_set[c]]
    /\ is_context_switch_pending' =
         [is_context_switch_pending EXCEPT ![c] = FALSE]
    /\ Goto(c, "pending")
    /\ UNCHANGED <<kernelVars, selected_thread_set, interruptVars, fiberVars,
                   cores_pending_reschedule, calls>>

\* The condition of the inner loop.
LookPending(c) ==
    /\ pc[c] = "pending"
    /\ Goto(c, CASE is_context_switch_pending[c] -> "current"
                 [] OTHER -> IF current_thread[c] = None THEN "enter"
                                                         ELSE "guard")
    /\ UNCHANGED <<kernelVars, switchVars, interruptVars, fiberVars,
                   cores_pending_reschedule, calls>>

\* context_guard.lock() of the thread to run.
LockContext(c) ==
    /\ pc[c] = "guard"
    /\ context_guard[current_thread[c]] = None
    /\ context_guard' = [context_guard EXCEPT ![current_thread[c]] = c]
    /\ Goto(c, "runnable")
    /\ UNCHANGED <<kernelVars, switchVars, interruptVars, fiber_guard, fiber,
                   started, cores_pending_reschedule, calls>>

\* One of the two checks that follow: a thread that fails it is let go.
CheckContext(c, label, passes, next) ==
    /\ pc[c] = label
    /\ context_guard' = [context_guard EXCEPT
                           ![current_thread[c]] = IF passes THEN @ ELSE None]
    /\ Goto(c, IF passes THEN next ELSE "current")
    /\ UNCHANGED <<kernelVars, switchVars, interruptVars, fiber_guard, fiber,
                   started, cores_pending_reschedule, calls>>

\* Fault: the thread is not checked.
FaultNotChecked(c) == CheckContext(c, "runnable", TRUE, "home")

CheckRunnable(c) ==
    CheckContext(c, "runnable", IsRunnable(current_thread[c]), "home")

CheckProcessor(c) ==
    CheckContext(c, "home", sched.processor[current_thread[c]] = c, "enter")

\* The switch fiber goes to that of the thread, or to the idle one.
Enter(c) ==
    /\ pc[c] = "enter"
    /\ YieldTo(c, IF current_thread[c] = None THEN IdleFiber(c)
                                              ELSE current_thread[c])
    /\ Goto(c, "step2")
    /\ UNCHANGED <<kernelVars, switchVars, interruptVars, context_guard,
                   started, cores_pending_reschedule, calls>>

\* SwitchContextStep2, where the fiber of a thread starts or goes on: the
\* registers are loaded, then it may have to switch at once.
SwitchContextStep2(c) ==
    /\ pc[c] = "step2"
    /\ Goto(c, "clear")
    /\ UNCHANGED <<kernelVars, switchVars, interruptVars, fiberVars,
                   cores_pending_reschedule, calls>>

-----------------------------------------------------------------------------

\* The threads exist and have not been started; the cores are in their idle
\* loops, which the CPU manager enters first.
Init ==
    /\ sched = [scheduled |-> [c \in Cores |-> <<>>],
                suggested |-> [c \in Cores |-> <<>>],
                processor |-> [t \in Threads |-> FirstOf(Masks[t])],
                priority |-> Urgency]
    /\ status = [t \in Threads |-> "None"]
    /\ paused = [t \in Threads |-> FALSE]
    /\ lock = None
    /\ top_threads = [c \in Cores |-> None]
    /\ to_update = {}
    /\ selected_thread_set = [c \in Cores |-> None]
    /\ current_thread = [c \in Cores |-> None]
    /\ is_context_switch_pending = [c \in Cores |-> FALSE]
    /\ is_interrupted = [c \in Cores |-> FALSE]
    /\ interrupt_event = [c \in Cores |-> FALSE]
    /\ context_guard = [t \in Threads |-> None]
    /\ fiber = [c \in Cores |-> IdleFiber(c)]
    /\ fiber_guard = [f \in Fibers |-> \E c \in Cores : f = IdleFiber(c)]
    /\ started = {}
    /\ pc = [a \in Actors |-> IF a = Host THEN "ready" ELSE "idle"]
    /\ cores_pending_reschedule = [a \in Actors |-> {}]
    /\ calls = 0

\* A guest thread calls the kernel, or the host does.
Call(a) ==
    \/ \E t \in Threads : Resume(a, t)
    \/ /\ a \in Cores
       /\ \/ Block(a) \/ Yield(a)
          \/ \E t \in Threads : SetThreadActivity(a, t)

\* What an actor does after a call, when the selection is made.
KernelStep(a) ==
    \/ UpdateThread(a) \/ Unlock(a)
    \/ SetEvent(a) \/ SetFlag(a) \/ Interrupted(a)

\* What a core does by itself.
CoreStep(c) ==
    \/ GuestInterrupted(c) \/ IdleInterrupted(c) \/ ClearInterrupt(c)
    \/ NoSwitch(c) \/ SwitchContext(c) \/ Leave(c)
    \/ TakeSelection(c) \/ LookPending(c) \/ LockContext(c)
    \/ CheckRunnable(c) \/ CheckProcessor(c) \/ Enter(c)
    \/ SwitchContextStep2(c)

Next ==
    \/ \E a \in Actors : Call(a) \/ Select(a) \/ KernelStep(a)
    \/ \E c \in Cores : CoreStep(c)

\* The next step of a host thread that is not in guest code, where the
\* selection may turn out as it likes.  It goes on to another place, or takes
\* one from the cores it has to update.
HostStep(a) ==
    BeginUpdate(a) \/ KernelStep(a) \/ (a \in Cores /\ CoreStep(a))

\* The host's threads keep running; guest threads need not call the kernel.
Fairness ==
    \A a \in Actors : WF_<<pc, to_update, cores_pending_reschedule>>(HostStep(a))

Spec == Init /\ [][Next]_vars /\ Fairness

-----------------------------------------------------------------------------
(* Properties *)

Places == {"ready", "guest", "idle", "select", "update", "interrupt", "flag",
           "clear", "try", "leave", "current", "pending", "guard", "runnable",
           "home", "enter", "step2"}

\* Types of the schedulers' state.
TypeOK ==
    /\ Global!TypeOK
    /\ lock \in Actors \cup {None}
    /\ top_threads \in [Cores -> Threads \cup {None}]
    /\ to_update \in SUBSET Cores
    /\ is_context_switch_pending \in [Cores -> BOOLEAN]
    /\ is_interrupted \in [Cores -> BOOLEAN]
    /\ interrupt_event \in [Cores -> BOOLEAN]
    /\ context_guard \in [Threads -> Cores \cup {None}]
    /\ fiber \in [Cores -> Fibers]
    /\ fiber_guard \in [Fibers -> BOOLEAN]
    /\ pc \in [Actors -> Places]
    /\ cores_pending_reschedule \in [Actors -> SUBSET Cores]

\* The places where a core is in the code of the thread of its fiber, and
\* those where it is on its switch fiber.
InThread(c) == pc[c] \in {"step2", "clear", "try", "guest", "select", "update",
                          "interrupt", "flag"}
InSwitch(c) == pc[c] \in {"current", "pending", "guard", "runnable", "home",
                          "enter"}

\* Kernel code asks the scheduler of its core for the thread that it runs
\* on: on every core the fiber is that of the current thread, no other core
\* is on it, and its context_guard, which keeps other cores away from its
\* registers, is held by this core.
RunsCurrentThread ==
    /\ \A c \in Cores : \A t \in Threads :
         fiber[c] = t /\ InThread(c) =>
           current_thread[c] = t /\ context_guard[t] = c
    /\ \A c, d \in Cores : fiber[c] = fiber[d] => c = d

\* No interrupt is lost: a core that executes guest code or sleeps although
\* a switch is pending has been interrupted, or will be.
NoLostInterrupt ==
    \A c \in Cores :
      is_context_switch_pending[c] =>
        /\ pc[c] = "guest" =>
             is_interrupted[c]
               \/ \E a \in Actors : c \in cores_pending_reschedule[a]
        /\ pc[c] = "idle" =>
             interrupt_event[c]
               \/ \E a \in Actors : c \in cores_pending_reschedule[a]

\* The core is in a loop of the CPU manager with no switch pending.
Settled(c) == pc[c] \in {"guest", "idle"} /\ ~is_context_switch_pending[c]

\* A core that has settled runs the thread that the global scheduler has
\* selected for it, or idles if there is none.
SettledRunsSelection ==
    \A c \in Cores :
      Settled(c) => /\ current_thread[c] = selected_thread_set[c]
                    /\ pc[c] = "guest" <=> current_thread[c] # None

\* Every core settles after every change: a thread that is paused or has
\* lost its core leaves it, and the thread selected next gets it.  The only
\* thing that may keep a core from it for ever is the context_guard of the
\* thread it meant to run before.
CoresSettleOrWait ==
    \A c \in Cores : []<>(Settled(c) \/ pc[c] = "guard")

\* "Thread must be runnable.": what SwitchContextStep2 asserts of the thread
\* it loads, though the scheduler's lock is not held since the thread was
\* checked, and none is held when the fiber goes on.
MustBeRunnable ==
    \A c \in Cores : \A t \in Threads :
      pc[c] = "step2" /\ current_thread[c] = t => status[t] = "Runnable"

-----------------------------------------------------------------------------
(* The inductive invariant *)

\* The queues agree with the threads.
KernelInv == Global!QueuesMatchThreads /\ Global!QueuesSorted

\* A core is on the fiber that its place in the code says.
FiberInv ==
    \A c \in Cores :
      /\ InSwitch(c) => fiber[c] = SwitchFiber(c)
      /\ InThread(c) \/ pc[c] = "idle" =>
           fiber[c] = IF current_thread[c] = None THEN IdleFiber(c)
                                                  ELSE current_thread[c]
      /\ pc[c] \in {"guest", "select", "update", "interrupt", "flag",
                    "guard", "runnable", "home"} => current_thread[c] # None
      /\ pc[c] = "idle" => current_thread[c] = None

\* The guard of a fiber is held while one core, and no other, is on it.
FiberGuardInv ==
    /\ \A f \in Fibers : fiber_guard[f] <=> \E c \in Cores : fiber[c] = f
    /\ \A c, d \in Cores : fiber[c] = fiber[d] => c = d

\* A core holds the context_guard of its thread from before it enters its
\* fiber until it is about to leave it.
ContextGuardInv ==
    \A c \in Cores : \A t \in Threads :
      context_guard[t] = c <=>
        /\ current_thread[c] = t
        /\ InThread(c) \/ pc[c] \in {"runnable", "home", "enter"}

\* A core with no switch pending has what was selected for it.
SelectionInv ==
    \A c \in Cores :
      ~is_context_switch_pending[c] => current_thread[c] = selected_thread_set[c]

\* No interrupt is lost, where one that is half done no longer counts for a
\* core that sleeps: that core may have had the event already.
InterruptInv ==
    \A c \in Cores :
      is_context_switch_pending[c] =>
        /\ pc[c] = "guest" =>
             is_interrupted[c]
               \/ \E a \in Actors : c \in cores_pending_reschedule[a]
        /\ pc[c] = "idle" =>
             interrupt_event[c]
               \/ \E a \in Actors :
                    /\ c \in cores_pending_reschedule[a]
                    /\ pc[a] = "flag" => FirstOf(cores_pending_reschedule[a]) # c

\* The thread that has been checked stays runnable but for its pause flag.
CheckedInv ==
    \A c \in Cores :
      pc[c] \in {"home", "enter", "step2"} /\ current_thread[c] # None =>
        status[current_thread[c]] = "Runnable"

\* Who selects holds the lock, and so what is selected stays on its core.
SelectingInv ==
    \A a \in Actors :
      /\ pc[a] \in {"select", "update"} => lock = a
      /\ pc[a] = "update" =>
           \A c \in to_update : \A t \in Threads :
             top_threads[c] = t => sched.processor[t] = c

\* The core is about to leave the thread: the core has, or is about to get,
\* another selection, and has to switch to it.
Leaving(c, t) ==
    \/ pc[c] \in {"select", "runnable", "home"}
    \/ pc[c] = "update" /\ c \in to_update
    \/ /\ pc[c] \in {"update", "interrupt", "flag", "clear", "try"}
       /\ is_context_switch_pending[c]
       /\ selected_thread_set[c] # t

\* A thread that has yielded its core and waits for another one leaves its
\* core before it calls the kernel again.
HomelessInv ==
    \A c \in Cores : \A t \in Threads :
      context_guard[t] = c /\ sched.processor[t] = -1 => Leaving(c, t)

IInv ==
    /\ TypeOK /\ KernelInv /\ FiberInv /\ FiberGuardInv /\ ContextGuardInv
    /\ SelectionInv /\ InterruptInv /\ CheckedInv
    /\ SelectingInv /\ HomelessInv
=============================================================================
