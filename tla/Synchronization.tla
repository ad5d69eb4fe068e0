--------------------------- MODULE Synchronization ---------------------------
(***************************************************************************)
(* Kernel::Synchronization: the WaitFor / SignalObject protocol of the HLE *)
(* kernel, with the synchronization objects it works on (readable events   *)
(* and threads), thread cancellation, Thread::Sleep, and the TimeManager   *)
(* and CoreTiming events that end a timed wait.                            *)
(*                                                                         *)
(* Guest threads run in parallel on the emulated cores.  A block of code   *)
(* under Kernel::SchedulerLock is one atomic step; code outside the lock   *)
(* is cut at every access to shared state.  A thread that gives itself a   *)
(* waiting status is taken off its core when it releases the lock and      *)
(* continues only once its status is Ready again.                          *)
(*                                                                         *)
(* Operators named Fault... are deliberately wrong versions of the         *)
(* definition that follows them.  No specification uses them: each shows,  *)
(* put in place of the right one, that a property notices such a mistake.  *)
(***************************************************************************)
EXTENDS Naturals, Sequences

CONSTANTS
    Threads,     \* guest threads
    Hosts,       \* host threads of the services, which signal and clear events
    Events,      \* readable events
    WaitLists,   \* the handle lists that threads pass to WaitSynchronization
    None         \* nullptr

Objects == Events \cup Threads
Actors == Threads \cup Hosts
Results == {"SUCCESS", "TIMEOUT", "CANCELED"}

ASSUME ConstantsAssumption ==
    /\ Threads \cap Hosts = {}
    /\ Threads \cap Events = {}
    /\ None \notin Objects \cup Results
    /\ WaitLists \subseteq Seq(Objects)

VARIABLES
    status,            \* Thread::status
    waiting_sync,      \* Thread::is_waiting_on_sync
    sync_cancelled,    \* Thread::is_sync_cancelled
    signaling_object,  \* Thread::signaling_object
    signaling_result,  \* Thread::signaling_result
    is_signaled,       \* ReadableEvent::is_signaled
    waiting_threads,   \* SynchronizationObject::waiting_threads
    event_queue,       \* CoreTiming::event_queue: how many events each thread has
    inflight,          \* thread of the event that Advance has popped, or None
    cancelled_events,  \* TimeManager::cancelled_events, per thread
    pc,                \* where each actor is in the code
    sync_objects,      \* local of WaitFor: the list of objects
    nano_seconds,      \* local of WaitFor and Sleep: the kind of timeout
    target,            \* local of ReadableEvent::Signal: the event
    ret                \* result a system call hands back to its caller

threadVars == <<status, waiting_sync, sync_cancelled, signaling_object,
                signaling_result>>
timerVars == <<event_queue, inflight, cancelled_events>>
localVars == <<sync_objects, nano_seconds, target, ret>>
vars == <<threadVars, is_signaled, waiting_threads, timerVars, pc, localVars>>

Statuses == {"Dormant", "Ready", "WaitSynch", "WaitSleep", "Dead"}
Timeouts == {"zero", "finite", "infinite"}

\* Where WaitFor and Sleep can be: blocked, clearing is_waiting_on_sync, in
\* the two steps of UnscheduleTimeEvent, and before the second locked block.
WaitPcs == {"waiting", "unschedule", "cancel", "collect"}
SleepPcs == {"sleeping", "sleepUnschedule", "sleepCancel"}
Pcs == {"user", "signalSet", "signalObject", "svcReturn"}
          \cup WaitPcs \cup SleepPcs

Elements(s) == {s[i] : i \in DOMAIN s}

\* ThreadSchedStatus::Paused: every waiting status maps to it (SetStatus).
Paused(t) == status[t] \in {"WaitSynch", "WaitSleep"}

\* The scheduler runs a guest thread only while it is runnable; the host
\* threads of services are not scheduled by the emulated kernel.
Runs(a) == a \in Threads => status[a] = "Ready"

At(a, label) == pc[a] = label /\ Runs(a)
Goto(a, label) == pc' = [pc EXCEPT ![a] = label]

IsSignaled(o) == IF o \in Events THEN is_signaled[o] ELSE status[o] = "Dead"

Init ==
    /\ \E main \in Threads :
         status = [t \in Threads |-> IF t = main THEN "Ready" ELSE "Dormant"]
    /\ waiting_sync = [t \in Threads |-> FALSE]
    /\ sync_cancelled = [t \in Threads |-> FALSE]
    /\ signaling_object = [t \in Threads |-> None]
    /\ signaling_result = [t \in Threads |-> "SUCCESS"]
    /\ is_signaled = [e \in Events |-> FALSE]
    /\ waiting_threads = [o \in Objects |-> {}]
    /\ event_queue = [t \in Threads |-> 0]
    /\ inflight = None
    /\ cancelled_events = [t \in Threads |-> FALSE]
    /\ pc = [a \in Actors |-> "user"]
    /\ sync_objects = [t \in Threads |-> <<>>]
    /\ nano_seconds = [t \in Threads |-> "zero"]
    /\ target = [a \in Actors |-> None]
    /\ ret = [t \in Threads |-> None]

-----------------------------------------------------------------------------
(* Time events *)

\* Fault: the cancelled_events entry is reset for untimed waits too.
FaultResetAlways(t, nanoseconds) ==
    /\ event_queue' = IF nanoseconds = "finite"
                        THEN [event_queue EXCEPT ![t] = @ + 1]
                        ELSE event_queue
    /\ cancelled_events' = [cancelled_events EXCEPT ![t] = FALSE]
    /\ UNCHANGED inflight

\* Fault: the entry of the previous timed wait is not reset.
FaultResetNever(t, nanoseconds) ==
    /\ event_queue' = IF nanoseconds = "finite"
                        THEN [event_queue EXCEPT ![t] = @ + 1]
                        ELSE event_queue
    /\ UNCHANGED <<cancelled_events, inflight>>

\* TimeManager::ScheduleTimeEvent, run by ~SchedulerLockAndSleep inside the
\* lock.  Without a positive timeout the handle is invalid: no event is
\* queued and the thread's own cancelled_events entry is left alone.
ScheduleTimeEvent(t, nanoseconds) ==
    /\ IF nanoseconds = "finite"
         THEN /\ event_queue' = [event_queue EXCEPT ![t] = @ + 1]
              /\ cancelled_events' = [cancelled_events EXCEPT ![t] = FALSE]
         ELSE UNCHANGED <<event_queue, cancelled_events>>
    /\ UNCHANGED inflight

\* CoreTiming::UnscheduleEvent removes every queued event of the thread.
UnscheduleEvent(t, from, to) ==
    /\ At(t, from)
    /\ event_queue' = [event_queue EXCEPT ![t] = 0]
    /\ Goto(t, to)
    /\ UNCHANGED <<threadVars, is_signaled, waiting_threads, inflight,
                   cancelled_events, localVars>>

\* The second statement of UnscheduleTimeEvent.  It takes no lock.
MarkCancelled(t, from, to) ==
    /\ At(t, from)
    /\ cancelled_events' = [cancelled_events EXCEPT ![t] = TRUE]
    /\ Goto(t, to)
    /\ UNCHANGED <<threadVars, is_signaled, waiting_threads, event_queue,
                   inflight, localVars>>

\* CoreTiming::Advance takes a due event off the queue and releases
\* basic_lock before it runs the callback.  advance_lock stays held, so one
\* callback is in flight at a time.
AdvancePop(t) ==
    /\ inflight = None
    /\ event_queue[t] > 0
    /\ event_queue' = [event_queue EXCEPT ![t] = @ - 1]
    /\ inflight' = t
    /\ UNCHANGED <<threadVars, is_signaled, waiting_threads,
                   cancelled_events, pc, localVars>>

\* Fault: the callback does not look at cancelled_events.
FaultWakeAlways ==
    /\ inflight # None
    /\ status' = [status EXCEPT ![inflight] = "Ready"]
    /\ inflight' = None
    /\ UNCHANGED <<waiting_sync, sync_cancelled, signaling_object,
                   signaling_result, is_signaled, waiting_threads,
                   event_queue, cancelled_events, pc, localVars>>

\* The TimeManager callback: skipped if the thread marked it cancelled, else
\* Thread::OnWakeUp, which makes the thread Ready whatever its status is.
TimeManagerCallback ==
    /\ inflight # None
    /\ status' = IF cancelled_events[inflight]
                   THEN status
                   ELSE [status EXCEPT ![inflight] = "Ready"]
    /\ inflight' = None
    /\ UNCHANGED <<waiting_sync, sync_cancelled, signaling_object,
                   signaling_result, is_signaled, waiting_threads,
                   event_queue, cancelled_events, pc, localVars>>

-----------------------------------------------------------------------------
(* Signalling *)

\* Fault: threads that another waker has already resumed are told again.
FaultWakeReady(o) == waiting_threads[o]

\* Waiters that SignalObject wakes: those still paused.
Woken(o) == {t \in waiting_threads[o] : Paused(t)}

\* The body of Synchronization::SignalObject for a signaled object, given
\* the status of every thread just before it: each paused waiter gets the
\* object as its result and is resumed, then the list is emptied.
WakeWaiters(o, before) ==
    /\ signaling_object' = [t \in Threads |->
            IF t \in Woken(o) THEN o ELSE signaling_object[t]]
    /\ signaling_result' = [t \in Threads |->
            IF t \in Woken(o) THEN "SUCCESS" ELSE signaling_result[t]]
    /\ status' = [t \in Threads |->
            IF t \in Woken(o) THEN "Ready" ELSE before[t]]
    /\ waiting_threads' = [waiting_threads EXCEPT ![o] = {}]

\* ReadableEvent::Signal reads is_signaled and returns if it is already set ...
SignalCheck(a, e) ==
    /\ At(a, "user")
    /\ ~is_signaled[e]
    /\ target' = [target EXCEPT ![a] = e]
    /\ Goto(a, "signalSet")
    /\ UNCHANGED <<threadVars, is_signaled, waiting_threads, timerVars,
                   sync_objects, nano_seconds, ret>>

\* Fault: the waiters are left to notice the flag themselves.
FaultNoSignalObject(a) ==
    /\ At(a, "signalSet")
    /\ is_signaled' = [is_signaled EXCEPT ![target[a]] = TRUE]
    /\ target' = [target EXCEPT ![a] = None]
    /\ Goto(a, "user")
    /\ UNCHANGED <<threadVars, waiting_threads, timerVars, sync_objects,
                   nano_seconds, ret>>

\* ... sets it, still without the lock ...
SignalSet(a) ==
    /\ At(a, "signalSet")
    /\ is_signaled' = [is_signaled EXCEPT ![target[a]] = TRUE]
    /\ Goto(a, "signalObject")
    /\ UNCHANGED <<threadVars, waiting_threads, timerVars, localVars>>

\* ... and calls SignalObject, which looks at the event again, locked.
SignalObject(a) ==
    /\ At(a, "signalObject")
    /\ IF IsSignaled(target[a])
         THEN WakeWaiters(target[a], status)
         ELSE UNCHANGED <<status, signaling_object, signaling_result,
                          waiting_threads>>
    /\ target' = [target EXCEPT ![a] = None]
    /\ Goto(a, "user")
    /\ UNCHANGED <<waiting_sync, sync_cancelled, is_signaled, timerVars,
                   sync_objects, nano_seconds, ret>>

\* ReadableEvent::Clear (svcClearEvent, or a service): no lock, no check.
ClearEvent(a, e) ==
    /\ At(a, "user")
    /\ is_signaled' = [is_signaled EXCEPT ![e] = FALSE]
    /\ UNCHANGED <<threadVars, waiting_threads, timerVars, pc, localVars>>

\* ReadableEvent::Reset (svcResetSignal): ERR_INVALID_STATE, and no change,
\* unless the event is signaled.
ResetSignal(t, e) ==
    /\ At(t, "user")
    /\ is_signaled[e]
    /\ is_signaled' = [is_signaled EXCEPT ![e] = FALSE]
    /\ UNCHANGED <<threadVars, waiting_threads, timerVars, pc, localVars>>

-----------------------------------------------------------------------------
(* Waiting *)

\* Fault: the result of the previous wait is kept.
FaultStaleResult(t, object, result) ==
    /\ signaling_object' = [signaling_object EXCEPT ![t] = object]
    /\ UNCHANGED signaling_result

\* Fault: only the first object of the list is looked at.
FaultFirstOnly(objs) == {i \in DOMAIN objs : i = 1 /\ IsSignaled(objs[i])}

\* What a waiting thread is told; WakeWaiters does the same for many.
SetSynchronizationResults(t, object, result) ==
    /\ signaling_object' = [signaling_object EXCEPT ![t] = object]
    /\ signaling_result' = [signaling_result EXCEPT ![t] = result]

\* AddWaitingThread and RemoveWaitingThread, for every object of a list.  A
\* list may name an object twice.
AddWaitingThread(t, objs) ==
    waiting_threads' = [o \in Objects |->
        IF o \in Elements(objs) THEN waiting_threads[o] \cup {t}
                                ELSE waiting_threads[o]]

RemoveWaitingThread(t, objs) ==
    waiting_threads' = [o \in Objects |->
        IF o \in Elements(objs) THEN waiting_threads[o] \ {t}
                                ELSE waiting_threads[o]]

Signaled(objs) == {i \in DOMAIN objs : IsSignaled(objs[i])}

Return(t, result) ==
    /\ ret' = [ret EXCEPT ![t] = result]
    /\ Goto(t, "svcReturn")

\* The first locked block of WaitFor, when it returns at once: an object is
\* signaled, or the timeout is zero, or a cancellation is outstanding.
WaitForReturnsAtOnce(t, objs, timeout) ==
    /\ \/ /\ Signaled(objs) # {}
          /\ Return(t, "SUCCESS")
          /\ UNCHANGED sync_cancelled
       \/ /\ Signaled(objs) = {}
          /\ timeout = "zero"
          /\ Return(t, "TIMEOUT")
          /\ UNCHANGED sync_cancelled
       \/ /\ Signaled(objs) = {}
          /\ timeout # "zero"
          /\ sync_cancelled[t]
          /\ Return(t, "CANCELED")
          /\ sync_cancelled' = [sync_cancelled EXCEPT ![t] = FALSE]
    /\ UNCHANGED <<status, waiting_sync, signaling_object, signaling_result,
                   waiting_threads, timerVars>>

\* The first locked block of WaitFor, when the thread has to wait.
WaitForBlocks(t, objs, timeout) ==
    /\ Signaled(objs) = {}
    /\ timeout # "zero"
    /\ ~sync_cancelled[t]
    /\ AddWaitingThread(t, objs)
    /\ SetSynchronizationResults(t, None, "TIMEOUT")
    /\ status' = [status EXCEPT ![t] = "WaitSynch"]
    /\ waiting_sync' = [waiting_sync EXCEPT ![t] = TRUE]
    /\ ScheduleTimeEvent(t, timeout)
    /\ Goto(t, "waiting")
    /\ UNCHANGED <<sync_cancelled, ret>>

WaitFor(t, objs, timeout) ==
    /\ At(t, "user")
    /\ sync_objects' = [sync_objects EXCEPT ![t] = objs]
    /\ nano_seconds' = [nano_seconds EXCEPT ![t] = timeout]
    /\ \/ WaitForReturnsAtOnce(t, objs, timeout)
       \/ WaitForBlocks(t, objs, timeout)
    /\ UNCHANGED <<is_signaled, target>>

\* The thread runs again and clears is_waiting_on_sync, outside the lock.
WaitForResume(t) ==
    /\ At(t, "waiting")
    /\ waiting_sync' = [waiting_sync EXCEPT ![t] = FALSE]
    /\ Goto(t, IF nano_seconds[t] = "finite" THEN "unschedule" ELSE "collect")
    /\ UNCHANGED <<status, sync_cancelled, signaling_object, signaling_result,
                   is_signaled, waiting_threads, timerVars, localVars>>

\* The second locked block of WaitFor: leave every waiting list and return
\* what the waker left, acquiring the signaling object.  Acquire only asserts.
WaitForCollect(t) ==
    /\ At(t, "collect")
    /\ RemoveWaitingThread(t, sync_objects[t])
    /\ Return(t, signaling_result[t])
    /\ UNCHANGED <<threadVars, is_signaled, timerVars, sync_objects,
                   nano_seconds, target>>

\* Thread::Sleep.
Sleep(t) ==
    /\ At(t, "user")
    /\ status' = [status EXCEPT ![t] = "WaitSleep"]
    /\ nano_seconds' = [nano_seconds EXCEPT ![t] = "finite"]
    /\ ScheduleTimeEvent(t, "finite")
    /\ Goto(t, "sleeping")
    /\ UNCHANGED <<waiting_sync, sync_cancelled, signaling_object,
                   signaling_result, is_signaled, waiting_threads,
                   sync_objects, target, ret>>

SleepResume(t) ==
    /\ At(t, "sleeping")
    /\ Goto(t, "sleepUnschedule")
    /\ UNCHANGED <<threadVars, is_signaled, waiting_threads, timerVars,
                   localVars>>

\* The call returns to the guest: its result is taken, its locals are gone.
SvcReturn(t) ==
    /\ At(t, "svcReturn")
    /\ ret' = [ret EXCEPT ![t] = None]
    /\ sync_objects' = [sync_objects EXCEPT ![t] = <<>>]
    /\ nano_seconds' = [nano_seconds EXCEPT ![t] = "zero"]
    /\ Goto(t, "user")
    /\ UNCHANGED <<threadVars, is_signaled, waiting_threads, timerVars,
                   target>>

-----------------------------------------------------------------------------
(* Threads *)

\* Thread::CancelWait (svcCancelSynchronization).
CancelWait(a, t) ==
    /\ At(a, "user")
    /\ IF ~Paused(t) \/ ~waiting_sync[t]
         THEN /\ sync_cancelled' = [sync_cancelled EXCEPT ![t] = TRUE]
              /\ UNCHANGED <<status, signaling_object, signaling_result>>
         ELSE /\ sync_cancelled' = [sync_cancelled EXCEPT ![t] = FALSE]
              /\ SetSynchronizationResults(t, None, "CANCELED")
              /\ status' = [status EXCEPT ![t] = "Ready"]
    /\ UNCHANGED <<waiting_sync, is_signaled, waiting_threads, timerVars, pc,
                   localVars>>

\* svcStartThread, which asserts that the thread is dormant.
StartThread(a, t) ==
    /\ At(a, "user")
    /\ status[t] = "Dormant"
    /\ status' = [status EXCEPT ![t] = "Ready"]
    /\ UNCHANGED <<waiting_sync, sync_cancelled, signaling_object,
                   signaling_result, is_signaled, waiting_threads, timerVars,
                   pc, localVars>>

\* svcExitThread: Thread::Stop makes the thread Dead and signals it as an
\* object in one locked block.
ExitThread(t) ==
    /\ At(t, "user")
    /\ WakeWaiters(t, [status EXCEPT ![t] = "Dead"])
    /\ UNCHANGED <<waiting_sync, sync_cancelled, is_signaled, timerVars, pc,
                   localVars>>

-----------------------------------------------------------------------------

ThreadStep(t) ==
    \/ \E objs \in WaitLists, timeout \in Timeouts : WaitFor(t, objs, timeout)
    \/ WaitForResume(t)
    \/ UnscheduleEvent(t, "unschedule", "cancel")
    \/ MarkCancelled(t, "cancel", "collect")
    \/ WaitForCollect(t)
    \/ Sleep(t)
    \/ SleepResume(t)
    \/ UnscheduleEvent(t, "sleepUnschedule", "sleepCancel")
    \/ MarkCancelled(t, "sleepCancel", "svcReturn")
    \/ SvcReturn(t)
    \/ \E u \in Threads : CancelWait(t, u) \/ StartThread(t, u)
    \/ \E e \in Events : ResetSignal(t, e)
    \/ ExitThread(t)

EventStep(a) ==
    \/ \E e \in Events : SignalCheck(a, e) \/ ClearEvent(a, e)
    \/ SignalSet(a)
    \/ SignalObject(a)

Next ==
    \/ \E t \in Threads : ThreadStep(t)
    \/ \E a \in Actors : EventStep(a)
    \/ \E t \in Threads : AdvancePop(t)
    \/ TimeManagerCallback

Spec == Init /\ [][Next]_vars

(***************************************************************************)
(* Fairness: a runnable thread that is inside a system call is eventually  *)
(* scheduled, a host thread that is inside Signal() goes on, the timer     *)
(* thread runs the callback it holds.  The event queue is ordered by       *)
(* deadline, so a queued event is not overtaken forever by later ones,     *)
(* although other events come in between: strong fairness per thread.      *)
(***************************************************************************)
Continue(t) ==
    \/ WaitForResume(t)
    \/ UnscheduleEvent(t, "unschedule", "cancel")
    \/ MarkCancelled(t, "cancel", "collect")
    \/ WaitForCollect(t)
    \/ SleepResume(t)
    \/ UnscheduleEvent(t, "sleepUnschedule", "sleepCancel")
    \/ MarkCancelled(t, "sleepCancel", "svcReturn")
    \/ SvcReturn(t)

Fairness ==
    /\ \A t \in Threads : WF_vars(Continue(t))
    /\ \A a \in Actors : WF_vars(SignalSet(a) \/ SignalObject(a))
    /\ \A t \in Threads : SF_vars(AdvancePop(t))
    /\ WF_vars(TimeManagerCallback)

FairSpec == Spec /\ Fairness

-----------------------------------------------------------------------------
(* Properties *)

\* Every variable keeps its type: among the rest, the callback in flight is
\* always one of a thread, and an actor in Signal has an event as its target.
TypeOK ==
    /\ status \in [Threads -> Statuses]
    /\ waiting_sync \in [Threads -> BOOLEAN]
    /\ sync_cancelled \in [Threads -> BOOLEAN]
    /\ signaling_object \in [Threads -> Objects \cup {None}]
    /\ signaling_result \in [Threads -> Results]
    /\ is_signaled \in [Events -> BOOLEAN]
    /\ waiting_threads \in [Objects -> SUBSET Threads]
    /\ event_queue \in [Threads -> Nat]
    /\ inflight \in Threads \cup {None}
    /\ cancelled_events \in [Threads -> BOOLEAN]
    /\ pc \in [Actors -> Pcs]
    /\ sync_objects \in [Threads -> Seq(Objects)]
    /\ nano_seconds \in [Threads -> Timeouts]
    /\ target \in [Actors -> Events \cup {None}]
    /\ ret \in [Threads -> Results \cup {None}]

\* A thread that is blocked in WaitFor is in the waiting list of every object
\* it waits for: no wake-up, cancellation or list clean-up of another thread
\* takes it off a list while it still sleeps (synchronization.cpp:75-77).
BlockedIsListed ==
    \A t \in Threads : status[t] = "WaitSynch" =>
        \A o \in Elements(sync_objects[t]) : t \in waiting_threads[o]

\* A waiting list holds only threads that are still inside the WaitFor call
\* that put them there: a woken thread leaves all its lists before its call
\* returns, so a later signal cannot reach a thread that waits for something
\* else (synchronization.cpp:97-99).
ListedIsWaiting ==
    \A o \in Objects : \A t \in waiting_threads[o] :
        pc[t] \in WaitPcs /\ o \in Elements(sync_objects[t])

\* No lost signal: while a thread is blocked on an object that is signaled,
\* some actor is about to run SignalObject on that object, although
\* ReadableEvent::Signal sets is_signaled before it takes the lock.
NoLostSignal ==
    \A t \in Threads : status[t] = "WaitSynch" =>
        \A o \in Elements(sync_objects[t]) : IsSignaled(o) =>
            \E a \in Actors : pc[a] = "signalObject" /\ target[a] = o

\* The object a waker left for a thread is one the thread waits for, the
\* assertion of synchronization.cpp:106, and goes with RESULT_SUCCESS.
SignalerIsAwaited ==
    \A t \in Threads : pc[t] \in WaitPcs =>
        /\ signaling_object[t] # None =>
              signaling_object[t] \in Elements(sync_objects[t])
        /\ signaling_object[t] # None <=> signaling_result[t] = "SUCCESS"

\* No thread sleeps in WaitFor with a cancellation outstanding: CancelWait
\* either ends the wait in progress or is found by the next one.
NoCancelWhileBlocked ==
    \A t \in Threads : status[t] = "WaitSynch" => ~sync_cancelled[t]

\* The queue holds at most one time event of a thread, and none once its
\* timed wait or sleep has been unscheduled (time_manager.cpp:45-51).
OneTimeEvent ==
    \A t \in Threads : event_queue[t] > 0 =>
        /\ event_queue[t] = 1
        /\ nano_seconds[t] = "finite"
        /\ pc[t] \in {"waiting", "unschedule", "sleeping", "sleepUnschedule"}

\* A callback that is not cancelled finds its thread in the global handle
\* table (time_manager.cpp:25-27): a thread cannot have exited while an
\* uncancelled event of its is in flight.
CallbackFindsThread ==
    inflight # None /\ ~cancelled_events[inflight] =>
        pc[inflight] \in WaitPcs \cup SleepPcs

\* A wait without timeout never reports a timeout, whatever time events of
\* earlier waits of the thread are still in flight.
ForeverNeverTimesOut ==
    \A t \in Threads :
        nano_seconds[t] = "infinite" => ret[t] # "TIMEOUT"

\* The first waker decides: once a blocked thread has been made ready, no
\* later signal, cancellation or time event changes the result it collects
\* ("it might be awoken more than once before actually resuming",
\* thread.cpp:90-92).
FirstWakeWins ==
    [][\A t \in Threads :
          pc[t] \in WaitPcs /\ status[t] = "Ready" =>
              /\ signaling_object'[t] = signaling_object[t]
              /\ signaling_result'[t] = signaling_result[t]]_vars

\* A dead thread is never run again, although OnWakeUp makes its thread
\* Ready whatever its status is.
DeadStaysDead ==
    [][\A t \in Threads : status[t] = "Dead" => status'[t] = "Dead"]_vars

\* A timed wait ends, and so does a sleep.
TimedWaitEnds ==
    \A t \in Threads :
        (Paused(t) /\ nano_seconds[t] = "finite") ~> pc[t] = "svcReturn"

\* A thread blocked on a signaled object is woken, unless the object is
\* cleared first.
SignalWakes ==
    \A t \in Threads, e \in Events :
        (status[t] = "WaitSynch" /\ e \in Elements(sync_objects[t])
            /\ is_signaled[e])
        ~> (status[t] = "Ready" \/ ~is_signaled[e])

-----------------------------------------------------------------------------
(* The inductive invariant behind the safety properties. *)

\* Which status, flag, local and target each place in the code goes with.
ControlInv ==
    /\ \A t \in Threads :
         /\ status[t] = "WaitSynch" => pc[t] = "waiting"
         /\ status[t] = "WaitSleep" => pc[t] = "sleeping"
         /\ status[t] \in {"Dormant", "Dead"} => pc[t] = "user"
         /\ waiting_sync[t] <=> pc[t] = "waiting"
         /\ ret[t] # None => pc[t] = "svcReturn"
         /\ pc[t] \in {"unschedule", "cancel"} \cup SleepPcs =>
                nano_seconds[t] = "finite"
    /\ \A a \in Actors :
         pc[a] \in {"signalSet", "signalObject"} => target[a] \in Events
    /\ \A a \in Hosts : pc[a] \in {"user", "signalSet", "signalObject"}

\* A blocked thread still has the result WaitFor gave it.
BlockedResult ==
    \A t \in Threads : status[t] = "WaitSynch" =>
        signaling_object[t] = None /\ signaling_result[t] = "TIMEOUT"

\* A callback that will wake its thread belongs to a timed wait or sleep
\* that has not been marked cancelled.
LiveCallback ==
    inflight # None /\ ~cancelled_events[inflight] =>
        /\ nano_seconds[inflight] = "finite"
        /\ pc[inflight] \in (WaitPcs \cup SleepPcs) \ {"collect"}

\* A thread made ready in a wait without timeout was signaled or cancelled.
ForeverResult ==
    \A t \in Threads :
        /\ pc[t] \in WaitPcs
        /\ status[t] = "Ready"
        /\ nano_seconds[t] = "infinite"
        => signaling_result[t] # "TIMEOUT"

\* All of it: TLC checks it on the instances, the proofs show that every
\* step preserves it.
IInv ==
    /\ TypeOK
    /\ ControlInv
    /\ BlockedResult
    /\ BlockedIsListed
    /\ ListedIsWaiting
    /\ NoLostSignal
    /\ SignalerIsAwaited
    /\ NoCancelWhileBlocked
    /\ OneTimeEvent
    /\ LiveCallback
    /\ ForeverResult
    /\ ForeverNeverTimesOut

-----------------------------------------------------------------------------
(* A statement of the source that the code does not keep. *)

\* ScheduleTimeEvent: "Schedule a time event on `timetask` thread that will
\* expire in 'nanoseconds'" (time_manager.h:32): a time event does not end a
\* timed wait whose own event is still in the queue, not yet due.
TimeoutAfterExpiry ==
    [][\A t \in Threads :
          inflight = t /\ inflight' = None /\ Paused(t) /\ event_queue[t] > 0
              => status'[t] = status[t]]_vars

=============================================================================
