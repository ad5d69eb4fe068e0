------------------------------- MODULE NvEvents -------------------------------
(***************************************************************************)
(* Waiting for the GPU: a guest thread asks the nvdrv service, over IPC,   *)
(* to be told when a syncpoint reaches a threshold.  The service runs on   *)
(* the timer thread, as do the interrupts of the GPU and the timeouts of   *)
(* waits; a guest thread that the service has put to sleep repeats its     *)
(* request on its own core when it wakes up; the GPU counts on its own     *)
(* thread.  One syncpoint is modelled: they do not interact.               *)
(*                                                                         *)
(* Each guest thread uses one NvEvent, its own.  Its states Free and       *)
(* Registered are not told apart, they are treated alike.  The GPU is      *)
(* asynchronous (IsAsync): the synchronous one signals every event at once.*)
(* A sequence of thresholds grows, so that no counter wraps: see the       *)
(* README for what a wrap does.                                            *)
(*                                                                         *)
(* Steps.  A section under GPU::sync_mutex is one step.  What follows on   *)
(* the timer thread is another one where a thread beside it can tell.      *)
(*                                                                         *)
(* Operators named Fault... are deliberately wrong versions of the         *)
(* definition that follows them, used by no specification: see module      *)
(* Synchronization.                                                        *)
(***************************************************************************)
EXTENDS Naturals, FiniteSets

CONSTANTS
    Guests,       \* guest threads, and the NvEvent of each
    MaxValue,     \* bound: how far the GPU counts
    None          \* no value

Values == 1 .. MaxValue

ASSUME NvEventsAssumption == MaxValue \in Nat \ {0} /\ None \notin 0 .. MaxValue

VARIABLES
    syncpoint,        \* GPU::syncpoints of the syncpoint
    interrupts,       \* GPU::syncpt_interrupts: the values registered
    incremented,      \* the GPU has counted and still has to look there
    messages,         \* the values of the GPUInterrupt events scheduled
    waiting,          \* EventInterface::status is Waiting, for each event
    assigned_value,   \* EventInterface, for each event
    is_signaled,      \* ReadableEvent of each NvEvent
    pc,               \* where each guest thread is: "run", "ipc" (WaitIPC),
                      \* "asleep" (WaitHLEEvent) or "awake" (before the
                      \* HLE callback)
    request,          \* the request of each guest thread under way
    timer,            \* what the timer thread is doing: see Timers
    asked,            \* auxiliary: the threshold an event was last asked for,
                      \* None since it was cancelled
    withdrawn         \* auxiliary: the values cancelled and not registered since

gpuVars == <<syncpoint, interrupts, incremented>>
eventVars == <<waiting, assigned_value, is_signaled>>
auxVars == <<asked, withdrawn>>
vars == <<gpuVars, messages, eventVars, pc, request, timer, auxVars>>

\* The requests: to wait for a value, asynchronously or not, to look whether
\* it is reached (a wait with timeout zero), and to cancel the wait.
Requests == [op : {"wait", "wait_async", "poll"}, value : Values]
              \cup [op : {"cancel"}, value : {None}]
NoRequest == [op |-> "none", value |-> None]

\* The timer thread is idle, about to put a guest thread to sleep, or in
\* SignalSyncpt with a value and the events it still has to look at.
Idle == [at |-> "idle"]
Timers == {Idle} \cup [at : {"sleep"}, guest : Guests]
                 \cup [at : {"signal"}, value : Values, events : SUBSET Guests]

-----------------------------------------------------------------------------
(* The GPU *)

\* IncrementSyncPoint counts before it takes sync_mutex.
Increment ==
    /\ ~incremented
    /\ syncpoint < MaxValue
    /\ syncpoint' = syncpoint + 1
    /\ incremented' = TRUE
    /\ UNCHANGED <<interrupts, messages, eventVars, pc, request, timer,
                   auxVars>>

\* Fault: the comparison is strict.
FaultStrict ==
    LET reached == {v \in interrupts : syncpoint > v}
    IN /\ incremented
       /\ incremented' = FALSE
       /\ interrupts' = interrupts \ reached
       /\ messages' = messages \cup reached
       /\ UNCHANGED <<syncpoint, eventVars, pc, request, timer, auxVars>>

\* IncrementSyncPoint under sync_mutex: the values reached trigger interrupts
\* of the CPU.
TriggerInterrupts ==
    LET reached == {v \in interrupts : syncpoint >= v}
    IN /\ incremented
       /\ incremented' = FALSE
       /\ interrupts' = interrupts \ reached
       /\ messages' = messages \cup reached
       /\ UNCHANGED <<syncpoint, eventVars, pc, request, timer, auxVars>>

-----------------------------------------------------------------------------
(* nvhost_ctrl *)

\* ReadableEvent::Signal: wakes the guest thread that sleeps on the event.
Signal(g, state) ==
    /\ is_signaled' = [is_signaled EXCEPT ![g] = TRUE]
    /\ pc' = IF ~is_signaled[g] /\ state[g] = "asleep"
               THEN [state EXCEPT ![g] = "awake"] ELSE state

\* Fault: the event is not cleared.
FaultNotCleared(g) == UNCHANGED is_signaled

\* ReadableEvent::Clear
Clear(g) == is_signaled' = [is_signaled EXCEPT ![g] = FALSE]

\* Fault: the interrupt is registered for the next value.
FaultNextValue(v) == interrupts' = interrupts \cup {v + 1}

\* GPU::RegisterSyncptInterrupt: a value is registered once.
RegisterSyncptInterrupt(v) == interrupts' = interrupts \cup {v}

\* IocCtrlEventWait under sync_mutex, when the value is reached or is not.
\* Afterwards the guest threads are in state, but for one that is woken.
EventReached(g, v, state) ==
    /\ syncpoint >= v
    /\ Signal(g, state)
    /\ asked' = [asked EXCEPT ![g] = v]
    /\ UNCHANGED <<interrupts, waiting, assigned_value, withdrawn>>

EventTimedOut(g, v, state) ==
    /\ syncpoint < v
    /\ request[g].op = "poll"
    /\ pc' = state
    /\ UNCHANGED <<interrupts, eventVars, auxVars>>

EventWaits(g, v, state) ==
    /\ syncpoint < v
    /\ request[g].op # "poll"
    /\ waiting' = [waiting EXCEPT ![g] = TRUE]
    /\ assigned_value' = [assigned_value EXCEPT ![g] = v]
    /\ Clear(g)
    /\ RegisterSyncptInterrupt(v)
    /\ pc' = state
    /\ asked' = [asked EXCEPT ![g] = v]
    /\ withdrawn' = withdrawn \ {v}

IocCtrlEventWait(g, state) ==
    LET v == request[g].value
    IN /\ \/ EventReached(g, v, state)
          \/ EventTimedOut(g, v, state)
          \/ EventWaits(g, v, state)
       /\ UNCHANGED <<syncpoint, incremented>>

\* LiberateEvent
LiberateEvent(g) ==
    /\ waiting' = [waiting EXCEPT ![g] = FALSE]
    /\ assigned_value' = [assigned_value EXCEPT ![g] = None]

\* CompleteSyncRequest resumes the thread, unless it has to sleep.
Resumed(g) == [pc EXCEPT ![g] = "run"]
Answered(g) == request' = [request EXCEPT ![g] = NoRequest]

\* IoctlBase with one of the waits.  The first call of a synchronous one that
\* has to wait sets must_delay.
HandleWait(g) ==
    LET must_delay == request[g].op = "wait" /\ syncpoint < request[g].value
    IN /\ pc[g] = "ipc" /\ timer = Idle
       /\ request[g].op # "cancel"
       /\ IocCtrlEventWait(g, IF must_delay THEN pc ELSE Resumed(g))
       /\ IF must_delay THEN /\ timer' = [at |-> "sleep", guest |-> g]
                             /\ UNCHANGED request
                        ELSE Answered(g) /\ UNCHANGED timer
       /\ UNCHANGED messages

\* SleepClientThread clears the event and puts the guest thread to sleep.
SleepClientThread ==
    /\ timer.at = "sleep"
    /\ Clear(timer.guest)
    /\ pc' = [pc EXCEPT ![timer.guest] = "asleep"]
    /\ timer' = Idle
    /\ UNCHANGED <<gpuVars, messages, waiting, assigned_value, request,
                   auxVars>>

\* IocCtrlEventSignal: CancelSyncptInterrupt finds the value only if it has
\* not been reached.
HandleCancel(g) ==
    /\ pc[g] = "ipc" /\ timer = Idle
    /\ request[g].op = "cancel"
    /\ IF waiting[g] /\ assigned_value[g] \in interrupts
         THEN /\ interrupts' = interrupts \ {assigned_value[g]}
              /\ withdrawn' = withdrawn \cup {assigned_value[g]}
              /\ asked' = [asked EXCEPT ![g] = None]
              /\ LiberateEvent(g)
              /\ Signal(g, Resumed(g))
         ELSE /\ pc' = Resumed(g)
              /\ UNCHANGED <<interrupts, eventVars, auxVars>>
    /\ Answered(g)
    /\ UNCHANGED <<syncpoint, incremented, messages, timer>>

-----------------------------------------------------------------------------
(* The timer thread *)

\* The callback of the GPUInterrupt event calls SignalSyncpt.
BeginSignalSyncpt(v) ==
    /\ timer = Idle
    /\ v \in messages
    /\ messages' = messages \ {v}
    /\ timer' = [at |-> "signal", value |-> v, events |-> Guests]
    /\ UNCHANGED <<gpuVars, eventVars, pc, request, auxVars>>

\* Fault: the loop ends at the first event it finds.
FaultFirstOnly(g) ==
    LET left == timer.events \ {g}
    IN /\ timer.at = "signal"
       /\ g \in timer.events
       /\ IF assigned_value[g] = timer.value
            THEN LiberateEvent(g) /\ Signal(g, pc)
            ELSE UNCHANGED <<eventVars, pc>>
       /\ timer' = IF left = {} \/ assigned_value[g] = timer.value
                 THEN Idle ELSE [timer EXCEPT !.events = left]
       /\ UNCHANGED <<gpuVars, messages, request, auxVars>>

\* Fault: the event is not signaled.
FaultNoSignal(g) ==
    LET left == timer.events \ {g}
    IN /\ timer.at = "signal"
       /\ g \in timer.events
       /\ IF assigned_value[g] = timer.value
            THEN LiberateEvent(g) /\ UNCHANGED <<is_signaled, pc>>
            ELSE UNCHANGED <<eventVars, pc>>
       /\ timer' = IF left = {} THEN Idle ELSE [timer EXCEPT !.events = left]
       /\ UNCHANGED <<gpuVars, messages, request, auxVars>>

\* One round of the loop of SignalSyncpt.
SignalSyncpt(g) ==
    LET left == timer.events \ {g}
    IN /\ timer.at = "signal"
       /\ g \in timer.events
       /\ IF assigned_value[g] = timer.value
            THEN LiberateEvent(g) /\ Signal(g, pc)
            ELSE UNCHANGED <<eventVars, pc>>
       /\ timer' = IF left = {} THEN Idle ELSE [timer EXCEPT !.events = left]
       /\ UNCHANGED <<gpuVars, messages, request, auxVars>>

\* The callback of the time manager: the sleep of a guest thread is over.
Timeout(g) ==
    /\ timer = Idle
    /\ pc[g] = "asleep"
    /\ pc' = [pc EXCEPT ![g] = "awake"]
    /\ UNCHANGED <<gpuVars, messages, eventVars, request, timer, auxVars>>

-----------------------------------------------------------------------------
(* Guest threads *)

\* svcSendSyncRequest: the thread waits for the answer.
SendSyncRequest(g, r) ==
    /\ pc[g] = "run"
    /\ request' = [request EXCEPT ![g] = r]
    /\ pc' = [pc EXCEPT ![g] = "ipc"]
    /\ UNCHANGED <<gpuVars, messages, eventVars, timer, auxVars>>

\* The HLE callback, on the core of the guest thread: the wait is repeated,
\* and this time not delayed.
InvokeHLECallback(g) ==
    /\ pc[g] = "awake"
    /\ IocCtrlEventWait(g, Resumed(g))
    /\ Answered(g)
    /\ UNCHANGED <<messages, timer>>

Init ==
    /\ syncpoint = 0
    /\ interrupts = {}
    /\ incremented = FALSE
    /\ messages = {}
    /\ waiting = [g \in Guests |-> FALSE]
    /\ assigned_value = [g \in Guests |-> None]
    /\ is_signaled = [g \in Guests |-> FALSE]
    /\ pc = [g \in Guests |-> "run"]
    /\ request = [g \in Guests |-> NoRequest]
    /\ timer = Idle
    /\ asked = [g \in Guests |-> None]
    /\ withdrawn = {}

TimerStep ==
    \/ SleepClientThread
    \/ \E v \in Values : BeginSignalSyncpt(v)
    \/ \E g \in Guests : HandleWait(g) \/ HandleCancel(g) \/ SignalSyncpt(g)

Next ==
    \/ Increment \/ TriggerInterrupts
    \/ TimerStep
    \/ \E g \in Guests :
         \/ Timeout(g) \/ InvokeHLECallback(g)
         \/ \E r \in Requests : SendSyncRequest(g, r)

\* The timer thread is fair to its events, which are handled in the order of
\* their times; what the GPU has begun it ends; threads that can run do.
Fairness ==
    /\ WF_vars(TriggerInterrupts)
    /\ WF_vars(SleepClientThread)
    /\ \A v \in Values : SF_vars(BeginSignalSyncpt(v))
    /\ \A g \in Guests : /\ WF_vars(SignalSyncpt(g))
                         /\ WF_vars(InvokeHLECallback(g))

Spec == Init /\ [][Next]_vars /\ Fairness

-----------------------------------------------------------------------------
(* Properties *)

\* Types of the state.
TypeOK ==
    /\ syncpoint \in 0 .. MaxValue
    /\ interrupts \subseteq Values
    /\ incremented \in BOOLEAN
    /\ messages \subseteq Values
    /\ waiting \in [Guests -> BOOLEAN]
    /\ assigned_value \in [Guests -> Values \cup {None}]
    /\ is_signaled \in [Guests -> BOOLEAN]
    /\ pc \in [Guests -> {"run", "ipc", "asleep", "awake"}]
    /\ request \in [Guests -> Requests \cup {NoRequest}]
    /\ timer \in Timers
    /\ asked \in [Guests -> Values \cup {None}]
    /\ withdrawn \subseteq Values

\* The value v has triggered, or can still trigger, a signal to the event.
OnItsWay(g, v) ==
    \/ v \in interrupts \cup messages
    \/ timer.at = "signal" /\ timer.value = v /\ g \in timer.events

\* No event waits in vain: as long as it is Waiting, the interrupt for its
\* value is registered, or on its way through the timer thread, although the
\* GPU counts outside the mutex and values are registered only once.  The
\* exception is a value that two events wait for: when one is cancelled, the
\* interrupt of both is withdrawn, until an event waits for the value again.
WaitingIsServed ==
    \A g \in Guests :
      waiting[g] => OnItsWay(g, assigned_value[g])
                      \/ assigned_value[g] \in withdrawn

\* An interrupt that is registered is not overdue: the GPU still has to look
\* at the values it has reached.
NoOverdueInterrupt ==
    \A v \in interrupts : syncpoint >= v => incremented

\* A signaled event means that the syncpoint has reached the value that the
\* event was last asked for, or that the wait was cancelled: the signal of
\* an earlier wait never ends a later one.
SignalMeansReached ==
    \A g \in Guests :
      is_signaled[g] => asked[g] = None \/ syncpoint >= asked[g]

\* A thread that the service has put to sleep until the syncpoint reaches a
\* value wakes up without its timeout, unless the value was withdrawn and
\* not registered again.
SleeperWakes ==
    \A g \in Guests :
      (pc[g] = "asleep" /\ syncpoint >= request[g].value) ~>
        (pc[g] # "asleep" \/ request[g].value \in withdrawn)

-----------------------------------------------------------------------------
(* The inductive invariant behind the safety properties. *)

\* A thread that has not got its answer has a request, a thread that the
\* service puts to sleep one to wait.
RequestUnderWay ==
    /\ \A g \in Guests :
         /\ pc[g] # "run" => request[g] \in Requests
         /\ pc[g] \in {"asleep", "awake"} => request[g].op # "cancel"
    /\ timer.at = "sleep" => /\ pc[timer.guest] = "ipc"
                             /\ request[timer.guest].op # "cancel"

\* An interrupt on its way to the timer thread, or under way there, is for a
\* value that the syncpoint has reached.
SentIsReached ==
    /\ \A v \in messages : v <= syncpoint
    /\ timer.at = "signal" => timer.value <= syncpoint

\* An event has a value as long as it is Waiting; it was last asked for that
\* value, unless it has since been asked for one that is reached already.
AssignedIsAsked ==
    \A g \in Guests :
      /\ waiting[g] <=> assigned_value[g] # None
      /\ waiting[g] => /\ asked[g] # None
                       /\ asked[g] = assigned_value[g] \/ asked[g] <= syncpoint

\* All of it: TLC checks it on the instance, the proofs show that every step
\* preserves it.
IInv ==
    /\ TypeOK
    /\ RequestUnderWay
    /\ SentIsReached
    /\ AssignedIsAsked
    /\ WaitingIsServed
    /\ NoOverdueInterrupt
    /\ SignalMeansReached
===============================================================================
