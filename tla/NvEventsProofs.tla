---------------------------- MODULE NvEventsProofs ----------------------------
(***************************************************************************)
(* Proofs about NvEvents: for any set of guest threads and any bound on    *)
(* the counter, no event waits in vain, no interrupt is overdue and no     *)
(* event carries the signal of an earlier wait.                            *)
(***************************************************************************)
EXTENDS NvEvents, TLAPS

PCs == {"run", "ipc", "asleep", "awake"}

\* The values are numbers that None is not.
LEMMA ValueFacts ==
  /\ Values \subseteq 0 .. MaxValue
  /\ \A v \in Values : v \in Nat /\ v # None
  /\ None \notin 0 .. MaxValue
  /\ MaxValue \in Nat
  BY NvEventsAssumption DEF Values

\* The initial states satisfy the invariant.
LEMMA InitEstablishes == Init => IInv
  <1> SUFFICES ASSUME Init PROVE IInv
    OBVIOUS
  <1> USE ValueFacts
  <1>1. TypeOK
    <2>1. timer \in Timers
      BY DEF Init, Timers
    <2>2. syncpoint \in 0 .. MaxValue
      BY DEF Init
    <2>3. /\ assigned_value \in [Guests -> Values \cup {None}]
          /\ asked \in [Guests -> Values \cup {None}]
          /\ request \in [Guests -> Requests \cup {NoRequest}]
          /\ pc \in [Guests -> PCs]
      BY DEF Init, PCs
    <2>4. waiting \in [Guests -> BOOLEAN] /\ is_signaled \in [Guests -> BOOLEAN]
      BY Zenon DEF Init
    <2> QED
      BY <2>1, <2>2, <2>3, <2>4 DEF Init, TypeOK, PCs
  <1>2. RequestUnderWay /\ SentIsReached
    BY DEF Init, RequestUnderWay, SentIsReached, Idle
  <1>3. AssignedIsAsked /\ WaitingIsServed
    BY DEF Init, AssignedIsAsked, WaitingIsServed
  <1>4. NoOverdueInterrupt /\ SignalMeansReached
    BY DEF Init, NoOverdueInterrupt, SignalMeansReached
  <1> QED
    BY <1>1, <1>2, <1>3, <1>4 DEF IInv

\* The GPU counts: whatever is reached now has not been looked at yet.
LEMMA IncrementPreserves == IInv /\ Increment => IInv'
  <1> SUFFICES ASSUME IInv, Increment PROVE IInv'
    OBVIOUS
  <1> USE ValueFacts DEF IInv, Increment, eventVars, auxVars
  <1>1. TypeOK'
    BY DEF TypeOK
  <1>0. syncpoint \in Nat /\ syncpoint' = syncpoint + 1
    BY DEF TypeOK
  <1>2. RequestUnderWay'
    BY DEF RequestUnderWay
  <1>3. SentIsReached'
    <2>0. timer.at = "signal" => timer.value \in Values
      BY DEF TypeOK, Timers, Idle
    <2>1. timer.at = "signal" => timer.value \in Nat
      BY <2>0
    <2>2. \A v \in messages : v \in Nat
      BY DEF TypeOK
    <2> QED
      BY <1>0, <2>1, <2>2 DEF SentIsReached
  <1>4. AssignedIsAsked' /\ SignalMeansReached'
    <2>1. \A g \in Guests : asked[g] \in Nat \/ asked[g] = None
      BY DEF TypeOK
    <2> QED
      BY <1>0, <2>1 DEF AssignedIsAsked, SignalMeansReached
  <1>5. WaitingIsServed' /\ NoOverdueInterrupt'
    BY DEF WaitingIsServed, OnItsWay, NoOverdueInterrupt
  <1> QED
    BY <1>1, <1>2, <1>3, <1>4, <1>5

\* The values reached move from the registered interrupts to the messages.
LEMMA TriggerPreserves == IInv /\ TriggerInterrupts => IInv'
  <1> SUFFICES ASSUME IInv, TriggerInterrupts PROVE IInv'
    OBVIOUS
  <1> USE ValueFacts DEF IInv, TriggerInterrupts, eventVars, auxVars
  <1>1. TypeOK'
    BY DEF TypeOK
  <1>2. RequestUnderWay' /\ SentIsReached'
    BY DEF RequestUnderWay, SentIsReached, TypeOK
  <1>3. AssignedIsAsked' /\ WaitingIsServed'
    BY DEF AssignedIsAsked, WaitingIsServed, OnItsWay, TypeOK
  <1>4. NoOverdueInterrupt' /\ SignalMeansReached'
    BY DEF NoOverdueInterrupt, SignalMeansReached, TypeOK
  <1> QED
    BY <1>1, <1>2, <1>3, <1>4

\* IocCtrlEventWait, in the first call and in the repeated one, keeps what the
\* invariant says of values and events.  The three cases are its three returns.
LEMMA EventWaitPreserves ==
  ASSUME IInv, NEW g \in Guests, NEW state \in [Guests -> PCs],
         request[g].value \in Values,
         IocCtrlEventWait(g, state),
         messages' = messages,
         timer.at = "signal" => timer' = timer,
         timer.at # "signal" => timer'.at # "signal"
  PROVE  /\ syncpoint' \in 0 .. MaxValue
         /\ interrupts' \subseteq Values
         /\ incremented' \in BOOLEAN
         /\ messages' \subseteq Values
         /\ waiting' \in [Guests -> BOOLEAN]
         /\ assigned_value' \in [Guests -> Values \cup {None}]
         /\ is_signaled' \in [Guests -> BOOLEAN]
         /\ asked' \in [Guests -> Values \cup {None}]
         /\ withdrawn' \subseteq Values
         /\ pc' = state \/ (state[g] = "asleep"
                              /\ pc' = [state EXCEPT ![g] = "awake"])
         /\ SentIsReached' /\ AssignedIsAsked' /\ WaitingIsServed'
         /\ NoOverdueInterrupt' /\ SignalMeansReached'
  <1> DEFINE v == request[g].value
  <1> USE ValueFacts DEF IInv, IocCtrlEventWait
  <1>1. SentIsReached'
    BY DEF SentIsReached
  <1>2. CASE EventReached(g, v, state)
    <2> USE <1>2 DEF EventReached, Signal
    <2>1. AssignedIsAsked' /\ WaitingIsServed'
      BY DEF AssignedIsAsked, WaitingIsServed, OnItsWay, TypeOK
    <2>2. NoOverdueInterrupt' /\ SignalMeansReached'
      BY DEF NoOverdueInterrupt, SignalMeansReached, TypeOK
    <2> QED
      BY <1>1, <2>1, <2>2 DEF TypeOK, PCs
  <1>3. CASE EventTimedOut(g, v, state)
    <2> USE <1>3 DEF EventTimedOut, eventVars, auxVars
    <2>1. AssignedIsAsked' /\ WaitingIsServed'
      BY DEF AssignedIsAsked, WaitingIsServed, OnItsWay, TypeOK
    <2>2. NoOverdueInterrupt' /\ SignalMeansReached'
      BY DEF NoOverdueInterrupt, SignalMeansReached, TypeOK
    <2> QED
      BY <1>1, <2>1, <2>2 DEF TypeOK
  <1>4. CASE EventWaits(g, v, state)
    <2> USE <1>4 DEF EventWaits, Clear, RegisterSyncptInterrupt
    <2>1. AssignedIsAsked' /\ WaitingIsServed'
      BY DEF AssignedIsAsked, WaitingIsServed, OnItsWay, TypeOK
    <2>2. NoOverdueInterrupt' /\ SignalMeansReached'
      BY DEF NoOverdueInterrupt, SignalMeansReached, TypeOK
    <2> QED
      BY <1>1, <2>1, <2>2 DEF TypeOK
  <1> QED
    BY <1>2, <1>3, <1>4

\* A request to wait carries a value.
LEMMA WaitHasValue ==
  ASSUME NEW r \in Requests, r.op # "cancel"
  PROVE  r.value \in Values
  BY DEF Requests

\* The first call of IoctlBase with a wait answers it or delays it.
LEMMA HandleWaitPreserves ==
  ASSUME IInv, NEW g \in Guests, HandleWait(g)
  PROVE  IInv'
  <1> DEFINE state == IF request[g].op = "wait" /\ syncpoint < request[g].value
                        THEN pc ELSE Resumed(g)
  <1> USE ValueFacts DEF IInv, HandleWait
  <1>1. request[g].value \in Values
    BY WaitHasValue DEF RequestUnderWay, TypeOK
  <1>2. state \in [Guests -> PCs] /\ state[g] # "asleep"
    BY DEF Resumed, PCs, TypeOK
  <1>3. timer = Idle /\ (timer' = timer \/ timer' = [at |-> "sleep", guest |-> g])
    OBVIOUS
  <1>4. timer.at # "signal" /\ timer'.at # "signal" /\ timer' \in Timers
    BY <1>3 DEF Timers, Idle
  <1>5. IocCtrlEventWait(g, state) /\ messages' = messages
    OBVIOUS
  <1> HIDE DEF state
  <1>6. /\ pc' = state
        /\ SentIsReached' /\ AssignedIsAsked' /\ WaitingIsServed'
        /\ NoOverdueInterrupt' /\ SignalMeansReached'
    BY <1>1, <1>2, <1>4, <1>5, EventWaitPreserves
  <1>7. request' \in [Guests -> Requests \cup {NoRequest}]
    BY DEF Answered, TypeOK
  <1>8. TypeOK'
    BY <1>1, <1>2, <1>4, <1>5, <1>6, <1>7, EventWaitPreserves DEF TypeOK, PCs
  <1>9. RequestUnderWay'
    BY <1>3, <1>6 DEF RequestUnderWay, TypeOK, state, Resumed, Answered, Idle
  <1> QED
    BY <1>6, <1>8, <1>9

\* The thread is put to sleep: its event is cleared once more.
LEMMA SleepPreserves == IInv /\ SleepClientThread => IInv'
  <1> SUFFICES ASSUME IInv, SleepClientThread PROVE IInv'
    OBVIOUS
  <1> USE ValueFacts DEF IInv, SleepClientThread, gpuVars, auxVars, Clear
  <1>1. timer.guest \in Guests /\ timer' \in Timers
    BY DEF TypeOK, Timers, Idle
  <1>2. TypeOK'
    BY <1>1 DEF TypeOK
  <1>3. RequestUnderWay'
    BY <1>1 DEF RequestUnderWay, TypeOK, Idle
  <1>4. SentIsReached'
    BY DEF SentIsReached, Idle
  <1>5. AssignedIsAsked' /\ WaitingIsServed'
    BY DEF AssignedIsAsked, WaitingIsServed, OnItsWay, TypeOK
  <1>6. NoOverdueInterrupt' /\ SignalMeansReached'
    BY <1>1 DEF NoOverdueInterrupt, SignalMeansReached, TypeOK
  <1> QED
    BY <1>2, <1>3, <1>4, <1>5, <1>6

\* A cancelled event is signaled and waits no longer; its value is withdrawn.
LEMMA HandleCancelPreserves ==
  ASSUME IInv, NEW g \in Guests, HandleCancel(g)
  PROVE  IInv'
  <1> USE ValueFacts DEF IInv, HandleCancel, Answered
  <1>1. request' \in [Guests -> Requests \cup {NoRequest}]
    BY DEF TypeOK
  <1>2. pc' = Resumed(g)
    BY DEF Signal, Resumed, TypeOK
  <1>3. RequestUnderWay'
    BY <1>2 DEF RequestUnderWay, TypeOK, Resumed, Idle
  <1>4. SentIsReached'
    BY DEF SentIsReached
  <1>5. CASE waiting[g] /\ assigned_value[g] \in interrupts
    <2> USE <1>5 DEF LiberateEvent, Signal
    <2>1. TypeOK'
      <3>1. pc' \in [Guests -> PCs]
        BY <1>2 DEF TypeOK, Resumed, PCs
      <3>0. interrupts \subseteq Values /\ withdrawn \subseteq Values
        BY DEF TypeOK
      <3>2. interrupts' \subseteq Values /\ withdrawn' \subseteq Values
        BY <3>0
      <3>3. /\ assigned_value' \in [Guests -> Values \cup {None}]
            /\ asked' \in [Guests -> Values \cup {None}]
        BY DEF TypeOK
      <3>4. waiting' \in [Guests -> BOOLEAN] /\ is_signaled' \in [Guests -> BOOLEAN]
        BY DEF TypeOK
      <3> QED
        BY <1>1, <3>1, <3>2, <3>3, <3>4 DEF TypeOK, PCs
    <2>2. AssignedIsAsked' /\ WaitingIsServed'
      BY DEF AssignedIsAsked, WaitingIsServed, OnItsWay, TypeOK
    <2>3. NoOverdueInterrupt' /\ SignalMeansReached'
      BY DEF NoOverdueInterrupt, SignalMeansReached, TypeOK
    <2> QED
      BY <1>3, <1>4, <2>1, <2>2, <2>3
  <1>6. CASE ~(waiting[g] /\ assigned_value[g] \in interrupts)
    <2> USE <1>6 DEF eventVars, auxVars
    <2>1. TypeOK'
      BY <1>1, <1>2 DEF TypeOK, Resumed
    <2>2. AssignedIsAsked' /\ WaitingIsServed'
      BY DEF AssignedIsAsked, WaitingIsServed, OnItsWay
    <2>3. NoOverdueInterrupt' /\ SignalMeansReached'
      BY DEF NoOverdueInterrupt, SignalMeansReached
    <2> QED
      BY <1>3, <1>4, <2>1, <2>2, <2>3
  <1> QED
    BY <1>5, <1>6

\* The callback of the interrupt takes a message; its value is reached.
LEMMA BeginPreserves ==
  ASSUME IInv, NEW v \in Values, BeginSignalSyncpt(v)
  PROVE  IInv'
  <1> USE ValueFacts DEF IInv, BeginSignalSyncpt, gpuVars, eventVars, auxVars
  <1>1. timer' \in Timers
    BY DEF Timers
  <1>2. TypeOK'
    BY <1>1 DEF TypeOK
  <1>3. RequestUnderWay' /\ SentIsReached'
    BY DEF RequestUnderWay, SentIsReached
  <1>4. AssignedIsAsked' /\ NoOverdueInterrupt' /\ SignalMeansReached'
    BY DEF AssignedIsAsked, NoOverdueInterrupt, SignalMeansReached
  <1>5. WaitingIsServed'
    BY DEF WaitingIsServed, OnItsWay, Idle
  <1> QED
    BY <1>2, <1>3, <1>4, <1>5

\* One round of SignalSyncpt: the event that it signals was asked for the
\* value, or for one that is reached as well.
LEMMA SignalSyncptPreserves ==
  ASSUME IInv, NEW g \in Guests, SignalSyncpt(g)
  PROVE  IInv'
  <1> DEFINE left == timer.events \ {g}
  <1> USE ValueFacts DEF IInv, SignalSyncpt, gpuVars, auxVars
  <1>1. /\ timer.value \in Values /\ timer.events \subseteq Guests
        /\ timer = [at |-> "signal", value |-> timer.value,
                    events |-> timer.events]
    BY DEF TypeOK, Timers, Idle
  <1>2. timer' = IF left = {} THEN Idle
                 ELSE [at |-> "signal", value |-> timer.value, events |-> left]
    BY <1>1
  <1>3. timer' \in Timers
    BY <1>1, <1>2 DEF Timers
  <1>4. /\ timer'.at # "sleep"
        /\ timer'.at = "signal" => timer'.value = timer.value
                                     /\ timer'.events = left
        /\ timer'.at # "signal" => left = {}
    BY <1>2 DEF Idle
  <1>5. SentIsReached'
    BY <1>4 DEF SentIsReached
  <1>6. NoOverdueInterrupt'
    BY DEF NoOverdueInterrupt
  <1>7. CASE assigned_value[g] = timer.value
    <2> USE <1>7 DEF LiberateEvent, Signal
    <2>1. TypeOK'
      BY <1>3 DEF TypeOK
    <2>2. RequestUnderWay'
      BY <1>4 DEF RequestUnderWay, TypeOK
    <2>3. AssignedIsAsked'
      BY DEF AssignedIsAsked, TypeOK
    <2>4. WaitingIsServed'
      BY <1>4 DEF WaitingIsServed, OnItsWay, TypeOK
    <2>5. SignalMeansReached'
      <3>1. waiting[g] /\ timer.value <= syncpoint
        BY <1>1 DEF AssignedIsAsked, SentIsReached
      <3>2. asked[g] \in Values /\ asked[g] <= syncpoint
        BY <3>1 DEF AssignedIsAsked, TypeOK
      <3> QED
        BY <3>2 DEF SignalMeansReached, TypeOK
    <2> QED
      BY <1>5, <1>6, <2>1, <2>2, <2>3, <2>4, <2>5
  <1>8. CASE assigned_value[g] # timer.value
    <2> USE <1>8 DEF eventVars
    <2>1. TypeOK'
      BY <1>3 DEF TypeOK
    <2>2. RequestUnderWay'
      BY <1>4 DEF RequestUnderWay
    <2>3. AssignedIsAsked' /\ SignalMeansReached'
      BY DEF AssignedIsAsked, SignalMeansReached
    <2>4. WaitingIsServed'
      BY <1>4 DEF WaitingIsServed, OnItsWay
    <2> QED
      BY <1>5, <1>6, <2>1, <2>2, <2>3, <2>4
  <1> QED
    BY <1>7, <1>8

\* A sleep that times out only moves the thread.
LEMMA TimeoutPreserves ==
  ASSUME IInv, NEW g \in Guests, Timeout(g)
  PROVE  IInv'
  <1> USE DEF IInv, Timeout, gpuVars, eventVars, auxVars
  <1>1. TypeOK' /\ RequestUnderWay'
    BY DEF TypeOK, RequestUnderWay, Idle
  <1>2. SentIsReached' /\ AssignedIsAsked' /\ WaitingIsServed'
    BY DEF SentIsReached, AssignedIsAsked, WaitingIsServed, OnItsWay
  <1>3. NoOverdueInterrupt' /\ SignalMeansReached'
    BY DEF NoOverdueInterrupt, SignalMeansReached
  <1> QED
    BY <1>1, <1>2, <1>3

\* So does a request that is sent.
LEMMA SendPreserves ==
  ASSUME IInv, NEW g \in Guests, NEW r \in Requests, SendSyncRequest(g, r)
  PROVE  IInv'
  <1> USE DEF IInv, SendSyncRequest, gpuVars, eventVars, auxVars
  <1>1. TypeOK'
    BY DEF TypeOK
  <1>2. RequestUnderWay'
    BY DEF RequestUnderWay, TypeOK
  <1>3. SentIsReached' /\ AssignedIsAsked' /\ WaitingIsServed'
    BY DEF SentIsReached, AssignedIsAsked, WaitingIsServed, OnItsWay
  <1>4. NoOverdueInterrupt' /\ SignalMeansReached'
    BY DEF NoOverdueInterrupt, SignalMeansReached
  <1> QED
    BY <1>1, <1>2, <1>3, <1>4

\* The repeated wait, on the core of the guest thread, beside the timer thread.
LEMMA CallbackPreserves ==
  ASSUME IInv, NEW g \in Guests, InvokeHLECallback(g)
  PROVE  IInv'
  <1> USE ValueFacts DEF IInv, InvokeHLECallback
  <1>1. request[g].value \in Values
    BY WaitHasValue DEF RequestUnderWay, TypeOK
  <1>2. Resumed(g) \in [Guests -> PCs] /\ Resumed(g)[g] # "asleep"
    BY DEF Resumed, PCs, TypeOK
  <1>3. timer' = timer /\ messages' = messages /\ IocCtrlEventWait(g, Resumed(g))
    OBVIOUS
  <1>4. /\ pc' = Resumed(g)
        /\ SentIsReached' /\ AssignedIsAsked' /\ WaitingIsServed'
        /\ NoOverdueInterrupt' /\ SignalMeansReached'
    BY <1>1, <1>2, <1>3, EventWaitPreserves
  <1>5. request' \in [Guests -> Requests \cup {NoRequest}]
    BY DEF Answered, TypeOK
  <1>6. TypeOK'
    BY <1>1, <1>2, <1>3, <1>4, <1>5, EventWaitPreserves DEF TypeOK, PCs
  <1>7. RequestUnderWay'
    BY <1>3, <1>4 DEF RequestUnderWay, TypeOK, Resumed, Answered
  <1> QED
    BY <1>4, <1>6, <1>7

\* Every step of the specification preserves the invariant.
LEMMA NextPreserves == IInv /\ [Next]_vars => IInv'
  <1> SUFFICES ASSUME IInv, [Next]_vars PROVE IInv'
    OBVIOUS
  <1>1. CASE Increment
    BY <1>1, IncrementPreserves
  <1>2. CASE TriggerInterrupts
    BY <1>2, TriggerPreserves
  <1>3. CASE SleepClientThread
    BY <1>3, SleepPreserves
  <1>4. ASSUME NEW v \in Values, BeginSignalSyncpt(v) PROVE IInv'
    BY <1>4, BeginPreserves
  <1>5. ASSUME NEW g \in Guests,
               HandleWait(g) \/ HandleCancel(g) \/ SignalSyncpt(g)
        PROVE  IInv'
    BY <1>5, HandleWaitPreserves, HandleCancelPreserves, SignalSyncptPreserves
  <1>6. ASSUME NEW g \in Guests, Timeout(g) \/ InvokeHLECallback(g)
        PROVE  IInv'
    BY <1>6, TimeoutPreserves, CallbackPreserves
  <1>7. ASSUME NEW g \in Guests, NEW r \in Requests, SendSyncRequest(g, r)
        PROVE  IInv'
    BY <1>7, SendPreserves
  <1>8. CASE UNCHANGED vars
    BY <1>8 DEF vars, gpuVars, eventVars, auxVars, IInv, TypeOK,
        RequestUnderWay, SentIsReached, AssignedIsAsked, WaitingIsServed,
        OnItsWay, NoOverdueInterrupt, SignalMeansReached
  <1> QED
    BY <1>1, <1>2, <1>3, <1>4, <1>5, <1>6, <1>7, <1>8 DEF Next, TimerStep

\* The invariant holds in every behaviour: what nvhost_ctrl, the GPU and the
\* timer thread know of a wait agrees at every step.
THEOREM Invariance == Spec => []IInv
  <1>1. Init => IInv
    BY InitEstablishes
  <1>2. IInv /\ [Next]_vars => IInv'
    BY NextPreserves
  <1> QED
    BY <1>1, <1>2, PTL DEF Spec

\* No event that IocCtrlEventWait has made Waiting waits in vain, with any
\* number of events and of values.
THEOREM WaitingIsServedTheorem == Spec => []WaitingIsServed
  <1>1. IInv => WaitingIsServed
    BY DEF IInv
  <1> QED
    BY <1>1, Invariance, PTL

\* IncrementSyncPoint misses no interrupt that IocCtrlEventWait registers while
\* it counts outside the mutex.
THEOREM NoOverdueInterruptTheorem == Spec => []NoOverdueInterrupt
  <1>1. IInv => NoOverdueInterrupt
    BY DEF IInv
  <1> QED
    BY <1>1, Invariance, PTL

\* The signal of an earlier wait, delivered late by SignalSyncpt, never ends a
\* later wait before its value is reached.
THEOREM SignalMeansReachedTheorem == Spec => []SignalMeansReached
  <1>1. IInv => SignalMeansReached
    BY DEF IInv
  <1> QED
    BY <1>1, Invariance, PTL
===============================================================================
