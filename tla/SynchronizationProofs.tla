------------------------ MODULE SynchronizationProofs ------------------------
(* Proofs about Synchronization, for every set of threads, hosts, events and *)
(* wait lists.                                                               *)
EXTENDS Synchronization, TLAPS

\* The initial states satisfy the inductive invariant.
LEMMA InitIInv == Init => IInv
  <1> SUFFICES ASSUME Init PROVE IInv
    OBVIOUS
  <1> USE ConstantsAssumption DEF Init
  <1>1. TypeOK
    BY DEF TypeOK, Statuses, Results, Pcs, Timeouts, Actors
  <1>2. ControlInv /\ BlockedResult
    BY DEF ControlInv, BlockedResult, SleepPcs, Actors
  <1>3. BlockedIsListed /\ ListedIsWaiting /\ NoLostSignal
    BY DEF BlockedIsListed, ListedIsWaiting, NoLostSignal
  <1>4. SignalerIsAwaited /\ NoCancelWhileBlocked /\ OneTimeEvent
    BY DEF SignalerIsAwaited, NoCancelWhileBlocked, OneTimeEvent, WaitPcs,
           Actors
  <1>5. LiveCallback /\ ForeverResult /\ ForeverNeverTimesOut
    BY DEF LiveCallback, ForeverResult, ForeverNeverTimesOut
  <1> QED
    BY <1>1, <1>2, <1>3, <1>4, <1>5 DEF IInv

-----------------------------------------------------------------------------
(* One lemma per operation: it preserves the invariant. *)

\* TimeManager and CoreTiming: popping a due event.
LEMMA AdvancePopInv ==
    ASSUME IInv, NEW u \in Threads, AdvancePop(u)
    PROVE  IInv'
  <1> USE ConstantsAssumption DEF IInv, AdvancePop, threadVars, localVars
  <1>1. TypeOK'
    BY DEF TypeOK
  <1>2. ControlInv' /\ BlockedResult' /\ BlockedIsListed' /\ ListedIsWaiting'
    BY DEF ControlInv, BlockedResult, BlockedIsListed, ListedIsWaiting
  <1>3. NoLostSignal' /\ SignalerIsAwaited' /\ NoCancelWhileBlocked'
    BY DEF NoLostSignal, SignalerIsAwaited, NoCancelWhileBlocked, IsSignaled
  <1>4. OneTimeEvent'
    BY DEF OneTimeEvent, TypeOK
  <1>5. LiveCallback'
    BY DEF LiveCallback, OneTimeEvent, TypeOK, WaitPcs, SleepPcs
  <1>6. ForeverResult' /\ ForeverNeverTimesOut'
    BY DEF ForeverResult, ForeverNeverTimesOut
  <1> QED
    BY <1>1, <1>2, <1>3, <1>4, <1>5, <1>6

\* The TimeManager callback, with Thread::OnWakeUp.
LEMMA TimeManagerCallbackInv ==
    ASSUME IInv, TimeManagerCallback
    PROVE  IInv'
  <1> USE ConstantsAssumption DEF IInv, TimeManagerCallback, localVars
  <1>0. inflight \in Threads
    BY DEF TypeOK
  <1>1. TypeOK'
    BY <1>0 DEF TypeOK, Statuses
  <1>2. ControlInv'
    BY <1>0 DEF ControlInv, LiveCallback, TypeOK, WaitPcs, SleepPcs
  <1>3. BlockedResult' /\ BlockedIsListed' /\ ListedIsWaiting'
    BY <1>0 DEF BlockedResult, BlockedIsListed, ListedIsWaiting, TypeOK
  <1>4. NoLostSignal'
    <2>1. \A o \in Objects : IsSignaled(o)' => IsSignaled(o)
      BY <1>0 DEF IsSignaled, TypeOK, Objects
    <2>2. \A t \in Threads : Elements(sync_objects[t]) \subseteq Objects
      BY DEF TypeOK, Elements
    <2> QED
      BY <1>0, <2>1, <2>2 DEF NoLostSignal, TypeOK
  <1>5. SignalerIsAwaited' /\ NoCancelWhileBlocked' /\ OneTimeEvent'
    BY <1>0 DEF SignalerIsAwaited, NoCancelWhileBlocked, OneTimeEvent, TypeOK
  <1>6. LiveCallback'
    BY DEF LiveCallback
  <1>7. ForeverResult'
    BY <1>0 DEF ForeverResult, LiveCallback, TypeOK
  <1>8. ForeverNeverTimesOut'
    BY DEF ForeverNeverTimesOut
  <1> QED
    BY <1>1, <1>2, <1>3, <1>4, <1>5, <1>6, <1>7, <1>8

\* CoreTiming::UnscheduleEvent, from a timed wait or from a sleep.
LEMMA UnscheduleEventInv ==
    ASSUME IInv, NEW u \in Threads, NEW from, NEW to,
           UnscheduleEvent(u, from, to),
           \/ from = "unschedule" /\ to = "cancel"
           \/ from = "sleepUnschedule" /\ to = "sleepCancel"
    PROVE  IInv'
  <1> USE ConstantsAssumption
      DEF IInv, UnscheduleEvent, At, Goto, threadVars, localVars
  <1>1. TypeOK'
    BY DEF TypeOK, Pcs, WaitPcs, SleepPcs
  <1>2. ControlInv'
    BY DEF ControlInv, TypeOK, SleepPcs, Actors
  <1>3. BlockedResult' /\ BlockedIsListed' /\ ListedIsWaiting'
    BY DEF BlockedResult, BlockedIsListed, ListedIsWaiting, TypeOK, WaitPcs,
           Actors
  <1>4. NoLostSignal'
    BY ZenonT(30) DEF NoLostSignal, TypeOK, IsSignaled, Actors
  <1>5. SignalerIsAwaited' /\ NoCancelWhileBlocked'
    BY DEF SignalerIsAwaited, NoCancelWhileBlocked, TypeOK, WaitPcs, Actors
  <1>6. OneTimeEvent'
    BY DEF OneTimeEvent, TypeOK, Actors
  <1>7. LiveCallback'
    BY DEF LiveCallback, TypeOK, WaitPcs, SleepPcs, Actors
  <1>8. ForeverResult' /\ ForeverNeverTimesOut'
    BY DEF ForeverResult, ForeverNeverTimesOut, TypeOK, WaitPcs, Actors
  <1> QED
    BY <1>1, <1>2, <1>3, <1>4, <1>5, <1>6, <1>7, <1>8

\* The unlocked second statement of TimeManager::UnscheduleTimeEvent.
LEMMA MarkCancelledInv ==
    ASSUME IInv, NEW u \in Threads, NEW from, NEW to,
           MarkCancelled(u, from, to),
           \/ from = "cancel" /\ to = "collect"
           \/ from = "sleepCancel" /\ to = "svcReturn"
    PROVE  IInv'
  <1> USE ConstantsAssumption
      DEF IInv, MarkCancelled, At, Goto, threadVars, localVars
  <1>1. TypeOK'
    BY DEF TypeOK, Pcs, WaitPcs, SleepPcs
  <1>2. ControlInv'
    BY DEF ControlInv, TypeOK, SleepPcs, Actors
  <1>3. BlockedResult' /\ BlockedIsListed' /\ ListedIsWaiting'
    BY DEF BlockedResult, BlockedIsListed, ListedIsWaiting, TypeOK, WaitPcs,
           Actors
  <1>4. NoLostSignal'
    BY DEF NoLostSignal, TypeOK, IsSignaled, Actors
  <1>5. SignalerIsAwaited' /\ NoCancelWhileBlocked'
    BY DEF SignalerIsAwaited, NoCancelWhileBlocked, TypeOK, WaitPcs, Actors
  <1>6. OneTimeEvent'
    BY DEF OneTimeEvent, TypeOK, Actors
  <1>7. LiveCallback'
    BY DEF LiveCallback, TypeOK, WaitPcs, SleepPcs, Actors
  <1>8. ForeverResult' /\ ForeverNeverTimesOut'
    BY DEF ForeverResult, ForeverNeverTimesOut, TypeOK, WaitPcs, Actors
  <1> QED
    BY <1>1, <1>2, <1>3, <1>4, <1>5, <1>6, <1>7, <1>8

\* The three steps of ReadableEvent::Signal.  SignalCheck and SignalSet only
\* prepare the SignalObject that NoLostSignal counts on.
LEMMA SignalCheckInv ==
    ASSUME IInv, NEW a \in Actors, NEW e \in Events, SignalCheck(a, e)
    PROVE  IInv'
  <1> USE ConstantsAssumption
      DEF IInv, SignalCheck, At, Goto, threadVars, timerVars
  <1>1. TypeOK'
    BY DEF TypeOK, Pcs
  <1>2. ControlInv'
    BY DEF ControlInv, TypeOK, SleepPcs, Actors, Runs
  <1>3. BlockedResult' /\ BlockedIsListed' /\ ListedIsWaiting'
    BY DEF BlockedResult, BlockedIsListed, ListedIsWaiting, TypeOK, WaitPcs,
           Actors
  <1>4. NoLostSignal'
    BY DEF NoLostSignal, TypeOK, IsSignaled, Actors
  <1>5. SignalerIsAwaited' /\ NoCancelWhileBlocked'
    BY DEF SignalerIsAwaited, NoCancelWhileBlocked, TypeOK, WaitPcs, Actors
  <1>6. OneTimeEvent'
    BY DEF OneTimeEvent, TypeOK, Actors
  <1>7. LiveCallback'
    BY DEF LiveCallback, TypeOK, WaitPcs, SleepPcs, Actors
  <1>8. ForeverResult' /\ ForeverNeverTimesOut'
    BY DEF ForeverResult, ForeverNeverTimesOut, TypeOK, WaitPcs, Actors
  <1> QED
    BY <1>1, <1>2, <1>3, <1>4, <1>5, <1>6, <1>7, <1>8

LEMMA SignalSetInv ==
    ASSUME IInv, NEW a \in Actors, SignalSet(a)
    PROVE  IInv'
  <1> USE ConstantsAssumption
      DEF IInv, SignalSet, At, Goto, threadVars, timerVars, localVars
  <1>0. target[a] \in Events
    BY DEF ControlInv
  <1>1. TypeOK'
    BY <1>0 DEF TypeOK, Pcs
  <1>2. ControlInv'
    BY <1>0 DEF ControlInv, TypeOK, SleepPcs, Actors, Runs
  <1>3. BlockedResult' /\ BlockedIsListed' /\ ListedIsWaiting'
    BY DEF BlockedResult, BlockedIsListed, ListedIsWaiting, TypeOK, WaitPcs,
           Actors
  <1>4. NoLostSignal'
    BY <1>0 DEF NoLostSignal, TypeOK, IsSignaled, Actors
  <1>5. SignalerIsAwaited' /\ NoCancelWhileBlocked'
    BY DEF SignalerIsAwaited, NoCancelWhileBlocked, TypeOK, WaitPcs, Actors
  <1>6. OneTimeEvent'
    BY DEF OneTimeEvent, TypeOK, Actors
  <1>7. LiveCallback'
    BY DEF LiveCallback, TypeOK, WaitPcs, SleepPcs, Actors
  <1>8. ForeverResult' /\ ForeverNeverTimesOut'
    BY DEF ForeverResult, ForeverNeverTimesOut, TypeOK, WaitPcs, Actors
  <1> QED
    BY <1>1, <1>2, <1>3, <1>4, <1>5, <1>6, <1>7, <1>8

\* What WakeWaiters does to each thread and to each list.
WakeFacts(o, before) ==
    /\ status' \in [Threads -> Statuses]
    /\ signaling_object' \in [Threads -> Objects \cup {None}]
    /\ signaling_result' \in [Threads -> Results]
    /\ waiting_threads' \in [Objects -> SUBSET Threads]
    /\ \A t \in Threads : t \in Woken(o) =>
         /\ status'[t] = "Ready"
         /\ signaling_object'[t] = o
         /\ signaling_result'[t] = "SUCCESS"
    /\ \A t \in Threads : t \notin Woken(o) =>
         /\ status'[t] = before[t]
         /\ signaling_object'[t] = signaling_object[t]
         /\ signaling_result'[t] = signaling_result[t]
    /\ \A p \in Objects :
         waiting_threads'[p] = IF p = o THEN {} ELSE waiting_threads[p]

\* WakeWaiters, read thread by thread and object by object.
LEMMA WakeWaitersFacts ==
    ASSUME TypeOK, NEW o \in Objects, NEW before \in [Threads -> Statuses],
           WakeWaiters(o, before)
    PROVE  WakeFacts(o, before)
  <1> USE DEF WakeWaiters, WakeFacts
  <1>1. status' \in [Threads -> Statuses]
    BY DEF Statuses
  <1>2. signaling_object' \in [Threads -> Objects \cup {None}]
    BY DEF TypeOK
  <1>3. signaling_result' \in [Threads -> Results]
    BY DEF TypeOK, Results
  <1>4. waiting_threads' \in [Objects -> SUBSET Threads]
    BY DEF TypeOK
  <1>5. \A p \in Objects : waiting_threads'[p] =
                IF p = o THEN {} ELSE waiting_threads[p]
    BY DEF TypeOK
  <1> QED
    BY <1>1, <1>2, <1>3, <1>4, <1>5

\* Every thread blocked on a signaled object is in Woken, because it is in
\* the object's list: after SignalObject none is left.
LEMMA SignalObjectInv ==
    ASSUME IInv, NEW a \in Actors, SignalObject(a)
    PROVE  IInv'
  <1> DEFINE e == target[a]
  <1> USE ConstantsAssumption
      DEF IInv, SignalObject, At, Goto, timerVars
  <1>0. e \in Events /\ e \in Objects
    BY DEF ControlInv, Objects
  <1>1. CASE ~IsSignaled(e)
    <2> USE <1>1
    <2>1. TypeOK'
      BY DEF TypeOK, Pcs
    <2>2. ControlInv'
      BY DEF ControlInv, TypeOK, SleepPcs, Actors, Runs
    <2>3. BlockedResult' /\ BlockedIsListed' /\ ListedIsWaiting'
      BY DEF BlockedResult, BlockedIsListed, ListedIsWaiting, TypeOK, WaitPcs,
             Actors
    <2>4. NoLostSignal'
      <3>1. \A o : IsSignaled(o)' = IsSignaled(o)
        BY DEF IsSignaled
      <3> QED
        BY <1>0, <3>1 DEF NoLostSignal, TypeOK
    <2>5. SignalerIsAwaited' /\ NoCancelWhileBlocked'
      BY DEF SignalerIsAwaited, NoCancelWhileBlocked, TypeOK, WaitPcs, Actors
    <2>6. OneTimeEvent'
      BY DEF OneTimeEvent, TypeOK, Actors
    <2>7. LiveCallback'
      BY DEF LiveCallback, TypeOK, WaitPcs, SleepPcs, Actors
    <2>8. ForeverResult' /\ ForeverNeverTimesOut'
      BY DEF ForeverResult, ForeverNeverTimesOut, TypeOK, WaitPcs, Actors
    <2> QED
      BY <2>1, <2>2, <2>3, <2>4, <2>5, <2>6, <2>7, <2>8
  <1>2. CASE IsSignaled(e)
    <2>0. WakeFacts(e, status)
      BY <1>0, <1>2, WakeWaitersFacts DEF TypeOK
    <2> HIDE DEF e
    <2> USE <1>0, <2>0 DEF WakeFacts
    <2>1. TypeOK'
      BY DEF TypeOK, Pcs
    <2>2. ControlInv'
      BY DEF ControlInv, TypeOK, SleepPcs, Actors, Runs, Woken, Paused
    <2>3. BlockedResult'
      BY DEF BlockedResult
    <2>4. BlockedIsListed'
      <3> SUFFICES ASSUME NEW t \in Threads, status'[t] = "WaitSynch",
                          NEW o \in Elements(sync_objects[t])
                   PROVE  t \in waiting_threads'[o]
        BY DEF BlockedIsListed
      <3>1. status[t] = "WaitSynch" /\ t \notin waiting_threads[e]
        BY DEF Woken, Paused
      <3>2. o \in Objects
        BY DEF TypeOK, Elements
      <3> QED
        BY <3>1, <3>2 DEF BlockedIsListed
    <2>5. ListedIsWaiting'
      BY DEF ListedIsWaiting, TypeOK, WaitPcs, Actors
    <2>6. NoLostSignal'
      <3> SUFFICES ASSUME NEW t \in Threads, status'[t] = "WaitSynch",
                          NEW o \in Elements(sync_objects[t]), IsSignaled(o)'
                   PROVE  \E b \in Actors : pc'[b] = "signalObject" /\ target'[b] = o
        BY DEF NoLostSignal
      <3>1. status[t] = "WaitSynch" /\ t \notin waiting_threads[e]
        BY DEF Woken, Paused
      <3>2. o # e
        BY <3>1 DEF BlockedIsListed
      <3>3. o \in Objects
        BY DEF TypeOK, Elements
      <3>4. IsSignaled(o)
        BY <3>3 DEF IsSignaled, Objects
      <3>5. PICK b \in Actors : pc[b] = "signalObject" /\ target[b] = o
        BY <3>1, <3>4 DEF NoLostSignal
      <3> QED
        BY <3>2, <3>5 DEF TypeOK, e
    <2>7. SignalerIsAwaited'
      <3> SUFFICES ASSUME NEW t \in Threads, pc'[t] \in WaitPcs
                   PROVE  /\ signaling_object'[t] # None =>
                                signaling_object'[t] \in Elements(sync_objects[t])
                          /\ signaling_object'[t] # None <=>
                                signaling_result'[t] = "SUCCESS"
        BY DEF SignalerIsAwaited
      <3>1. pc[t] \in WaitPcs
        BY DEF TypeOK, WaitPcs, Actors
      <3>2. CASE t \in Woken(e)
        BY <3>2 DEF Woken, ListedIsWaiting
      <3>3. CASE t \notin Woken(e)
        BY <3>1, <3>3 DEF SignalerIsAwaited
      <3> QED
        BY <3>2, <3>3
    <2>8. NoCancelWhileBlocked'
      BY DEF NoCancelWhileBlocked
    <2>9. OneTimeEvent'
      BY DEF OneTimeEvent, TypeOK, Actors
    <2>10. LiveCallback'
      BY DEF LiveCallback, TypeOK, WaitPcs, SleepPcs, Actors
    <2>11. ForeverResult'
      BY ZenonT(30) DEF ForeverResult, TypeOK, WaitPcs, Actors
    <2>12. ForeverNeverTimesOut'
      BY DEF ForeverNeverTimesOut
    <2> QED
      BY <2>1, <2>2, <2>3, <2>4, <2>5, <2>6, <2>7, <2>8, <2>9, <2>10, <2>11,
         <2>12
  <1> QED
    BY <1>1, <1>2

\* ReadableEvent::Clear and Reset take the signaled state away, which can only
\* weaken what NoLostSignal asks for.
LEMMA ClearInv ==
    ASSUME IInv, NEW e \in Events,
           is_signaled' = [is_signaled EXCEPT ![e] = FALSE],
           UNCHANGED <<threadVars, waiting_threads, timerVars, pc, localVars>>
    PROVE  IInv'
  <1> USE ConstantsAssumption DEF IInv, threadVars, timerVars, localVars
  <1>1. TypeOK'
    BY DEF TypeOK
  <1>2. ControlInv' /\ BlockedResult' /\ BlockedIsListed' /\ ListedIsWaiting'
    BY DEF ControlInv, BlockedResult, BlockedIsListed, ListedIsWaiting
  <1>3. NoLostSignal'
    BY DEF NoLostSignal, IsSignaled, TypeOK
  <1>4. SignalerIsAwaited' /\ NoCancelWhileBlocked' /\ OneTimeEvent'
    BY DEF SignalerIsAwaited, NoCancelWhileBlocked, OneTimeEvent
  <1>5. LiveCallback' /\ ForeverResult' /\ ForeverNeverTimesOut'
    BY DEF LiveCallback, ForeverResult, ForeverNeverTimesOut
  <1> QED
    BY <1>1, <1>2, <1>3, <1>4, <1>5

\* WaitFor when it returns at once leaves every wait alone.
LEMMA WaitForReturnsAtOnceInv ==
    ASSUME IInv, NEW u \in Threads, NEW objs \in WaitLists,
           NEW timeout \in Timeouts, WaitFor(u, objs, timeout),
           WaitForReturnsAtOnce(u, objs, timeout)
    PROVE  IInv'
  <1> USE ConstantsAssumption
      DEF IInv, At, Return, Goto, timerVars
  <1>0. /\ pc[u] = "user" /\ status[u] = "Ready"
        /\ sync_objects' = [sync_objects EXCEPT ![u] = objs]
        /\ nano_seconds' = [nano_seconds EXCEPT ![u] = timeout]
        /\ pc' = [pc EXCEPT ![u] = "svcReturn"]
        /\ \/ UNCHANGED sync_cancelled
           \/ sync_cancelled' = [sync_cancelled EXCEPT ![u] = FALSE]
        /\ UNCHANGED <<is_signaled, target, status, waiting_sync,
                       signaling_object, signaling_result, waiting_threads,
                       event_queue, inflight, cancelled_events>>
    BY DEF WaitFor, WaitForReturnsAtOnce, Runs, Results
  <1>r. PICK r \in Results : /\ ret' = [ret EXCEPT ![u] = r]
                             /\ r = "TIMEOUT" => timeout = "zero"
    BY DEF WaitFor, WaitForReturnsAtOnce, Results
  <1>1. TypeOK'
    <2>1. sync_cancelled' \in [Threads -> BOOLEAN]
      BY <1>0 DEF TypeOK
    <2>2. pc' \in [Actors -> Pcs]
      BY <1>0 DEF TypeOK, Pcs
    <2>3. /\ sync_objects' \in [Threads -> Seq(Objects)]
          /\ nano_seconds' \in [Threads -> Timeouts]
          /\ ret' \in [Threads -> Results \cup {None}]
      BY <1>0, <1>r DEF TypeOK
    <2> QED
      BY <1>0, <2>1, <2>2, <2>3 DEF TypeOK
  <1>2. ControlInv'
    BY <1>0, <1>r DEF ControlInv, TypeOK, SleepPcs, Actors
  <1>3. BlockedResult' /\ BlockedIsListed' /\ ListedIsWaiting'
    BY <1>0 DEF BlockedResult, BlockedIsListed, ListedIsWaiting, TypeOK,
                WaitPcs, Actors
  <1>4. NoLostSignal'
    BY <1>0, ZenonT(30) DEF NoLostSignal, TypeOK, IsSignaled, Actors
  <1>5. SignalerIsAwaited' /\ NoCancelWhileBlocked'
    BY <1>0, ZenonT(30) DEF SignalerIsAwaited, NoCancelWhileBlocked, TypeOK, WaitPcs, Actors
  <1>6. OneTimeEvent'
    BY <1>0 DEF OneTimeEvent, TypeOK, Actors
  <1>7. LiveCallback'
    BY <1>0 DEF LiveCallback, TypeOK, WaitPcs, SleepPcs, Actors
  <1>8. ForeverResult'
    BY <1>0 DEF ForeverResult, TypeOK, WaitPcs, Actors
  <1>9. ForeverNeverTimesOut'
    BY <1>0, <1>r DEF ForeverNeverTimesOut, TypeOK
  <1> QED
    BY <1>1, <1>2, <1>3, <1>4, <1>5, <1>6, <1>7, <1>8, <1>9

\* WaitFor when it blocks: no object of the list is signaled, so nobody owes
\* the new waiter a wake-up; an event of an earlier wait still in flight is
\* revived only if this wait is timed as well.
LEMMA WaitForBlocksInv ==
    ASSUME IInv, NEW u \in Threads, NEW objs \in WaitLists,
           NEW timeout \in Timeouts, WaitFor(u, objs, timeout),
           WaitForBlocks(u, objs, timeout)
    PROVE  IInv'
  <1> USE ConstantsAssumption DEF IInv
  <1>0. /\ pc[u] = "user" /\ status[u] = "Ready"
        /\ sync_objects' = [sync_objects EXCEPT ![u] = objs]
        /\ nano_seconds' = [nano_seconds EXCEPT ![u] = timeout]
        /\ pc' = [pc EXCEPT ![u] = "waiting"]
        /\ status' = [status EXCEPT ![u] = "WaitSynch"]
        /\ waiting_sync' = [waiting_sync EXCEPT ![u] = TRUE]
        /\ signaling_object' = [signaling_object EXCEPT ![u] = None]
        /\ signaling_result' = [signaling_result EXCEPT ![u] = "TIMEOUT"]
        /\ waiting_threads' = [o \in Objects |->
                IF o \in Elements(objs) THEN waiting_threads[o] \cup {u}
                                        ELSE waiting_threads[o]]
        /\ ~sync_cancelled[u]
        /\ \A o \in Elements(objs) : ~IsSignaled(o)
        /\ UNCHANGED <<is_signaled, target, sync_cancelled, ret, inflight>>
    BY DEF WaitFor, WaitForBlocks, AddWaitingThread,
           SetSynchronizationResults, ScheduleTimeEvent, At, Goto, Runs,
           Elements, Signaled
  <1>1. IF timeout = "finite"
          THEN /\ event_queue' = [event_queue EXCEPT ![u] = @ + 1]
               /\ cancelled_events' = [cancelled_events EXCEPT ![u] = FALSE]
          ELSE UNCHANGED <<event_queue, cancelled_events>>
    BY DEF WaitForBlocks, AddWaitingThread,
           SetSynchronizationResults, ScheduleTimeEvent
  <1>2. TypeOK'
    <2>1. waiting_threads' \in [Objects -> SUBSET Threads]
      BY <1>0 DEF TypeOK
    <2>2. /\ event_queue' \in [Threads -> Nat]
          /\ cancelled_events' \in [Threads -> BOOLEAN]
      <3>1. CASE timeout = "finite"
        <4>1. event_queue[u] + 1 \in Nat
          BY DEF TypeOK
        <4>2. /\ event_queue' = [event_queue EXCEPT ![u] = event_queue[u] + 1]
              /\ cancelled_events' = [cancelled_events EXCEPT ![u] = FALSE]
          BY <1>1, <3>1
        <4> QED
          BY <4>1, <4>2 DEF TypeOK
      <3>2. CASE timeout # "finite"
        BY <1>1, <3>2 DEF TypeOK
      <3> QED
        BY <3>1, <3>2
    <2>3. /\ sync_objects' \in [Threads -> Seq(Objects)]
          /\ nano_seconds' \in [Threads -> Timeouts]
          /\ pc' \in [Actors -> Pcs]
      BY <1>0 DEF TypeOK, Pcs, WaitPcs
    <2>4. /\ status' \in [Threads -> Statuses]
          /\ waiting_sync' \in [Threads -> BOOLEAN]
          /\ signaling_object' \in [Threads -> Objects \cup {None}]
          /\ signaling_result' \in [Threads -> Results]
      BY <1>0 DEF TypeOK, Statuses, Results
    <2> QED
      BY <1>0, <2>1, <2>2, <2>3, <2>4 DEF TypeOK
  <1>3. ControlInv'
    BY <1>0 DEF ControlInv, TypeOK, SleepPcs, Actors
  <1>4. BlockedResult' /\ NoCancelWhileBlocked'
    BY <1>0 DEF BlockedResult, NoCancelWhileBlocked, TypeOK
  <1>5. BlockedIsListed' /\ ListedIsWaiting'
    <2>1. \A t \in Threads : Elements(sync_objects'[t]) \subseteq Objects
      BY <1>2 DEF TypeOK, Elements
    <2>2. BlockedIsListed'
      BY <1>0, <2>1 DEF BlockedIsListed, TypeOK
    <2>3. ListedIsWaiting'
      BY <1>0 DEF ListedIsWaiting, TypeOK, WaitPcs, Actors
    <2> QED
      BY <2>2, <2>3
  <1>6. NoLostSignal'
    <2>1. \A o \in Objects : IsSignaled(o)' => IsSignaled(o)
      BY <1>0 DEF IsSignaled, TypeOK, Objects
    <2>2. \A t \in Threads : Elements(sync_objects'[t]) \subseteq Objects
      BY <1>2 DEF TypeOK, Elements
    <2>3. \A a \in Actors : pc[a] = "signalObject" => pc'[a] = "signalObject"
      BY <1>0 DEF TypeOK
    <2> QED
      BY <1>0, <2>1, <2>2, <2>3 DEF NoLostSignal, TypeOK
  <1>7. SignalerIsAwaited'
    BY <1>0 DEF SignalerIsAwaited, TypeOK, WaitPcs, Actors
  <1>8. OneTimeEvent'
    BY <1>0, <1>1 DEF OneTimeEvent, TypeOK, Actors
  <1>9. LiveCallback'
    BY <1>0, <1>1 DEF LiveCallback, TypeOK, WaitPcs, SleepPcs, Actors
  <1>10. ForeverResult'
    BY <1>0 DEF ForeverResult, TypeOK, WaitPcs, Actors
  <1>11. ForeverNeverTimesOut'
    <2>1. ret[u] = None
      BY <1>0 DEF ControlInv
    <2>2. None # "TIMEOUT"
      BY DEF Results
    <2> QED
      BY <1>0, <2>1, <2>2 DEF ForeverNeverTimesOut, TypeOK
  <1> QED
    BY <1>2, <1>3, <1>4, <1>5, <1>6, <1>7, <1>8, <1>9, <1>10,
       <1>11

\* The woken thread clears is_waiting_on_sync outside the lock.
LEMMA WaitForResumeInv ==
    ASSUME IInv, NEW u \in Threads, WaitForResume(u)
    PROVE  IInv'
  <1> USE ConstantsAssumption
      DEF IInv, WaitForResume, At, Goto, timerVars, localVars
  <1>0. status[u] = "Ready" /\ pc[u] = "waiting"
    BY DEF Runs
  <1>1. TypeOK'
    BY DEF TypeOK, Pcs, WaitPcs
  <1>2. ControlInv'
    BY <1>0 DEF ControlInv, TypeOK, SleepPcs, Actors
  <1>3. BlockedResult' /\ BlockedIsListed' /\ ListedIsWaiting'
    BY DEF BlockedResult, BlockedIsListed, ListedIsWaiting, TypeOK, WaitPcs,
           Actors
  <1>4. NoLostSignal'
    BY DEF NoLostSignal, TypeOK, IsSignaled, Actors
  <1>5. SignalerIsAwaited' /\ NoCancelWhileBlocked'
    BY DEF SignalerIsAwaited, NoCancelWhileBlocked, TypeOK, WaitPcs, Actors
  <1>6. OneTimeEvent'
    BY DEF OneTimeEvent, TypeOK, Actors
  <1>7. LiveCallback'
    BY DEF LiveCallback, TypeOK, WaitPcs, SleepPcs, Actors
  <1>8. ForeverResult' /\ ForeverNeverTimesOut'
    BY DEF ForeverResult, ForeverNeverTimesOut, TypeOK, WaitPcs, Actors
  <1> QED
    BY <1>1, <1>2, <1>3, <1>4, <1>5, <1>6, <1>7, <1>8

\* The second locked block of WaitFor takes the thread off all its lists.
LEMMA WaitForCollectInv ==
    ASSUME IInv, NEW u \in Threads, WaitForCollect(u)
    PROVE  IInv'
  <1> USE ConstantsAssumption
      DEF IInv, WaitForCollect, RemoveWaitingThread, At, Return, Goto, threadVars, timerVars
  <1>0. status[u] = "Ready" /\ pc[u] = "collect"
    BY DEF Runs
  <1>1. TypeOK'
    BY DEF TypeOK, Pcs
  <1>2. ControlInv'
    BY <1>0 DEF ControlInv, TypeOK, SleepPcs, Actors
  <1>3. BlockedResult' /\ NoCancelWhileBlocked'
    BY DEF BlockedResult, NoCancelWhileBlocked
  <1>4. BlockedIsListed'
    <2>1. \A t \in Threads : Elements(sync_objects[t]) \subseteq Objects
      BY DEF TypeOK, Elements
    <2> QED
      BY <1>0, <2>1 DEF BlockedIsListed, TypeOK
  <1>5. ListedIsWaiting'
    <2> SUFFICES ASSUME NEW o \in Objects, NEW t \in waiting_threads'[o]
                 PROVE  pc'[t] \in WaitPcs /\ o \in Elements(sync_objects'[t])
      BY DEF ListedIsWaiting
    <2>1. t \in waiting_threads[o] /\ t \in Threads
      BY DEF TypeOK
    <2>2. t # u
      BY <2>1 DEF ListedIsWaiting
    <2> QED
      BY <2>1, <2>2 DEF ListedIsWaiting, TypeOK, Actors
  <1>6. NoLostSignal'
    BY DEF NoLostSignal, TypeOK, IsSignaled, Actors
  <1>7. SignalerIsAwaited'
    BY DEF SignalerIsAwaited, TypeOK, WaitPcs, Actors
  <1>8. OneTimeEvent'
    BY DEF OneTimeEvent, TypeOK, Actors
  <1>9. LiveCallback'
    BY DEF LiveCallback, TypeOK, WaitPcs, SleepPcs, Actors
  <1>10. ForeverResult' /\ ForeverNeverTimesOut'
    BY <1>0 DEF ForeverResult, ForeverNeverTimesOut, TypeOK, WaitPcs, Actors
  <1> QED
    BY <1>1, <1>2, <1>3, <1>4, <1>5, <1>6, <1>7, <1>8, <1>9, <1>10

\* Thread::Sleep starts a timed wait that is on no list.
LEMMA SleepInv ==
    ASSUME IInv, NEW u \in Threads, Sleep(u)
    PROVE  IInv'
  <1> USE ConstantsAssumption
      DEF IInv, Sleep, At, Goto, ScheduleTimeEvent
  <1>0. status[u] = "Ready" /\ pc[u] = "user"
    BY DEF Runs
  <1>1. TypeOK'
    <2>1. event_queue[u] + 1 \in Nat
      BY DEF TypeOK
    <2>2. event_queue' = [event_queue EXCEPT ![u] = event_queue[u] + 1]
      OBVIOUS
    <2>3. event_queue' \in [Threads -> Nat]
      BY <2>1, <2>2 DEF TypeOK
    <2>4. /\ status' \in [Threads -> Statuses]
          /\ nano_seconds' \in [Threads -> Timeouts]
          /\ cancelled_events' \in [Threads -> BOOLEAN]
          /\ pc' \in [Actors -> Pcs]
      BY DEF TypeOK, Pcs, SleepPcs, Statuses, Timeouts
    <2> QED
      BY <2>3, <2>4 DEF TypeOK
  <1>2. ControlInv'
    BY <1>0 DEF ControlInv, TypeOK, SleepPcs, Actors
  <1>3. BlockedResult' /\ NoCancelWhileBlocked' /\ BlockedIsListed'
    BY DEF BlockedResult, NoCancelWhileBlocked, BlockedIsListed, TypeOK
  <1>4. ListedIsWaiting'
    BY <1>0 DEF ListedIsWaiting, TypeOK, WaitPcs, Actors
  <1>5. NoLostSignal'
    <2>1. \A o \in Objects : IsSignaled(o)' => IsSignaled(o)
      BY <1>0 DEF IsSignaled, TypeOK, Objects
    <2>2. \A t \in Threads : Elements(sync_objects[t]) \subseteq Objects
      BY DEF TypeOK, Elements
    <2>3. \A a \in Actors : pc[a] = "signalObject" => pc'[a] = "signalObject"
      BY <1>0 DEF TypeOK
    <2> QED
      BY <1>0, <2>1, <2>2, <2>3 DEF NoLostSignal, TypeOK
  <1>6. SignalerIsAwaited'
    BY DEF SignalerIsAwaited, TypeOK, WaitPcs, Actors
  <1>7. OneTimeEvent'
    BY <1>0 DEF OneTimeEvent, TypeOK, Actors
  <1>8. LiveCallback'
    BY DEF LiveCallback, TypeOK, WaitPcs, SleepPcs, Actors
  <1>9. ForeverResult' /\ ForeverNeverTimesOut'
    BY <1>0 DEF ForeverResult, ForeverNeverTimesOut, TypeOK, WaitPcs, Actors
  <1> QED
    BY <1>1, <1>2, <1>3, <1>4, <1>5, <1>6, <1>7, <1>8, <1>9

LEMMA SleepResumeInv ==
    ASSUME IInv, NEW u \in Threads, SleepResume(u)
    PROVE  IInv'
  <1> USE ConstantsAssumption
      DEF IInv, SleepResume, At, Goto, threadVars, timerVars, localVars
  <1>0. status[u] = "Ready" /\ pc[u] = "sleeping"
    BY DEF Runs
  <1>1. TypeOK'
    BY DEF TypeOK, Pcs, SleepPcs
  <1>2. ControlInv'
    BY <1>0 DEF ControlInv, TypeOK, SleepPcs, Actors
  <1>3. BlockedResult' /\ BlockedIsListed' /\ NoCancelWhileBlocked'
    BY DEF BlockedResult, BlockedIsListed, NoCancelWhileBlocked
  <1>4. ListedIsWaiting' /\ SignalerIsAwaited'
    BY DEF ListedIsWaiting, SignalerIsAwaited, TypeOK, WaitPcs, Actors
  <1>5. NoLostSignal'
    BY DEF NoLostSignal, TypeOK, IsSignaled, Actors
  <1>6. OneTimeEvent'
    BY DEF OneTimeEvent, TypeOK, Actors
  <1>7. LiveCallback'
    BY DEF LiveCallback, TypeOK, WaitPcs, SleepPcs, Actors
  <1>8. ForeverResult' /\ ForeverNeverTimesOut'
    BY DEF ForeverResult, ForeverNeverTimesOut, TypeOK, WaitPcs, Actors
  <1> QED
    BY <1>1, <1>2, <1>3, <1>4, <1>5, <1>6, <1>7, <1>8

LEMMA SvcReturnInv ==
    ASSUME IInv, NEW u \in Threads, SvcReturn(u)
    PROVE  IInv'
  <1> USE ConstantsAssumption
      DEF IInv, SvcReturn, At, Goto, threadVars, timerVars
  <1>0. status[u] = "Ready" /\ pc[u] = "svcReturn"
    BY DEF Runs
  <1>1. TypeOK'
    <2>1. /\ ret' \in [Threads -> Results \cup {None}]
          /\ nano_seconds' \in [Threads -> Timeouts]
          /\ pc' \in [Actors -> Pcs]
      BY DEF TypeOK, Pcs, Timeouts
    <2>2. sync_objects' \in [Threads -> Seq(Objects)]
      <3>1. <<>> \in Seq(Objects)
        OBVIOUS
      <3> QED
        BY <3>1 DEF TypeOK
    <2> QED
      BY <2>1, <2>2 DEF TypeOK
  <1>2. ControlInv'
    BY <1>0 DEF ControlInv, TypeOK, SleepPcs, Actors
  <1>3. BlockedResult' /\ BlockedIsListed' /\ NoCancelWhileBlocked'
    BY <1>0 DEF BlockedResult, BlockedIsListed, NoCancelWhileBlocked, TypeOK
  <1>4. ListedIsWaiting' /\ SignalerIsAwaited'
    BY <1>0 DEF ListedIsWaiting, SignalerIsAwaited, TypeOK, WaitPcs, Actors
  <1>5. NoLostSignal'
    BY <1>0, ZenonT(30) DEF NoLostSignal, TypeOK, IsSignaled, Actors
  <1>6. OneTimeEvent'
    BY <1>0 DEF OneTimeEvent, TypeOK, Actors
  <1>7. LiveCallback'
    BY <1>0 DEF LiveCallback, TypeOK, WaitPcs, SleepPcs, Actors
  <1>8. ForeverResult' /\ ForeverNeverTimesOut'
    BY <1>0 DEF ForeverResult, ForeverNeverTimesOut, TypeOK, WaitPcs, Actors
  <1> QED
    BY <1>1, <1>2, <1>3, <1>4, <1>5, <1>6, <1>7, <1>8

\* Thread::CancelWait: it ends a wait only if the thread is still blocked.
LEMMA CancelWaitInv ==
    ASSUME IInv, NEW a \in Threads, NEW u \in Threads, CancelWait(a, u)
    PROVE  IInv'
  <1> USE ConstantsAssumption
      DEF IInv, CancelWait, SetSynchronizationResults, Paused, timerVars, localVars
  <1>1. CASE ~Paused(u) \/ ~waiting_sync[u]
    <2> USE <1>1
    <2>1. TypeOK'
      BY DEF TypeOK
    <2>2. ControlInv' /\ BlockedResult' /\ BlockedIsListed' /\ ListedIsWaiting'
      BY DEF ControlInv, BlockedResult, BlockedIsListed, ListedIsWaiting
    <2>3. NoLostSignal' /\ SignalerIsAwaited' /\ OneTimeEvent'
      BY DEF NoLostSignal, SignalerIsAwaited, OneTimeEvent, IsSignaled
    <2>4. NoCancelWhileBlocked'
      BY DEF NoCancelWhileBlocked, ControlInv, TypeOK
    <2>5. LiveCallback' /\ ForeverResult' /\ ForeverNeverTimesOut'
      BY DEF LiveCallback, ForeverResult, ForeverNeverTimesOut
    <2> QED
      BY <2>1, <2>2, <2>3, <2>4, <2>5
  <1>2. CASE Paused(u) /\ waiting_sync[u]
    <2>0. /\ pc[u] = "waiting" /\ status[u] = "WaitSynch"
          /\ sync_cancelled' = [sync_cancelled EXCEPT ![u] = FALSE]
          /\ signaling_object' = [signaling_object EXCEPT ![u] = None]
          /\ signaling_result' = [signaling_result EXCEPT ![u] = "CANCELED"]
          /\ status' = [status EXCEPT ![u] = "Ready"]
          /\ UNCHANGED <<waiting_sync, is_signaled, waiting_threads,
                         event_queue, inflight, cancelled_events, pc,
                         sync_objects, nano_seconds, target, ret>>
      BY <1>2 DEF ControlInv
    <2> USE <2>0
    <2>1. TypeOK'
      BY DEF TypeOK, Statuses, Results
    <2>2. ControlInv'
      BY DEF ControlInv, TypeOK
    <2>3. BlockedResult' /\ BlockedIsListed' /\ ListedIsWaiting'
      BY DEF BlockedResult, BlockedIsListed, ListedIsWaiting, TypeOK
    <2>4. NoLostSignal'
      <3>1. \A o \in Objects : IsSignaled(o)' => IsSignaled(o)
        BY DEF IsSignaled, TypeOK, Objects
      <3>2. \A t \in Threads : Elements(sync_objects[t]) \subseteq Objects
        BY DEF TypeOK, Elements
      <3> QED
        BY <3>1, <3>2 DEF NoLostSignal, TypeOK
    <2>5. SignalerIsAwaited'
      BY DEF SignalerIsAwaited, TypeOK
    <2>6. NoCancelWhileBlocked'
      BY DEF NoCancelWhileBlocked, TypeOK
    <2>7. OneTimeEvent' /\ LiveCallback' /\ ForeverNeverTimesOut'
      BY DEF OneTimeEvent, LiveCallback, ForeverNeverTimesOut
    <2>8. ForeverResult'
      BY DEF ForeverResult, TypeOK
    <2> QED
      BY <2>1, <2>2, <2>3, <2>4, <2>5, <2>6, <2>7, <2>8
  <1> QED
    BY <1>1, <1>2

LEMMA StartThreadInv ==
    ASSUME IInv, NEW a \in Threads, NEW u \in Threads, StartThread(a, u)
    PROVE  IInv'
  <1> USE ConstantsAssumption DEF IInv, StartThread, timerVars, localVars
  <1>0. pc[u] = "user"
    BY DEF ControlInv
  <1>1. TypeOK'
    BY DEF TypeOK, Statuses
  <1>2. ControlInv'
    BY <1>0 DEF ControlInv, TypeOK
  <1>3. BlockedResult' /\ BlockedIsListed' /\ NoCancelWhileBlocked'
    BY DEF BlockedResult, BlockedIsListed, NoCancelWhileBlocked, TypeOK
  <1>4. NoLostSignal'
    BY DEF NoLostSignal, IsSignaled, TypeOK
  <1>5. ListedIsWaiting' /\ SignalerIsAwaited' /\ OneTimeEvent'
    BY DEF ListedIsWaiting, SignalerIsAwaited, OneTimeEvent
  <1>6. LiveCallback' /\ ForeverNeverTimesOut'
    BY DEF LiveCallback, ForeverNeverTimesOut
  <1>7. ForeverResult'
    BY <1>0 DEF ForeverResult, TypeOK, WaitPcs
  <1> QED
    BY <1>1, <1>2, <1>3, <1>4, <1>5, <1>6, <1>7

\* svcExitThread: the thread dies and wakes everyone who waits for it, so a
\* dead thread has no blocked waiter.
LEMMA ExitThreadInv ==
    ASSUME IInv, NEW u \in Threads, ExitThread(u)
    PROVE  IInv'
  <1> DEFINE before == [status EXCEPT ![u] = "Dead"]
  <1> USE ConstantsAssumption DEF IInv
  <1>0. /\ pc[u] = "user" /\ status[u] = "Ready" /\ u \in Objects
        /\ WakeWaiters(u, before)
        /\ UNCHANGED <<waiting_sync, sync_cancelled, is_signaled, event_queue,
                       inflight, cancelled_events, pc, sync_objects,
                       nano_seconds, target, ret>>
    BY DEF ExitThread, At, Runs, timerVars, localVars, Objects
  <1>1. before \in [Threads -> Statuses]
    BY DEF TypeOK, Statuses
  <1>2. WakeFacts(u, before)
    BY <1>0, <1>1, WakeWaitersFacts
  <1>3. \A t \in Threads : before[t] = IF t = u THEN "Dead" ELSE status[t]
    BY DEF TypeOK
  <1> HIDE DEF before
  <1> USE <1>0, <1>2, <1>3 DEF WakeFacts
  <1>4. TypeOK'
    BY DEF TypeOK
  <1>5. ControlInv'
    BY DEF ControlInv, Woken, Paused
  <1>6. BlockedResult' /\ NoCancelWhileBlocked'
    BY DEF BlockedResult, NoCancelWhileBlocked
  <1>7. \A t \in Threads : status'[t] = "WaitSynch" =>
            status[t] = "WaitSynch" /\ t \notin waiting_threads[u]
    BY DEF Woken, Paused
  <1>8. \A t \in Threads : Elements(sync_objects[t]) \subseteq Objects
    BY DEF TypeOK, Elements
  <1>9. BlockedIsListed'
    BY <1>7, <1>8 DEF BlockedIsListed
  <1>10. ListedIsWaiting'
    BY DEF ListedIsWaiting
  <1>11. NoLostSignal'
    <2> SUFFICES ASSUME NEW t \in Threads, status'[t] = "WaitSynch",
                        NEW o \in Elements(sync_objects[t]), IsSignaled(o)'
                 PROVE  \E b \in Actors : pc[b] = "signalObject" /\ target[b] = o
      BY DEF NoLostSignal
    <2>1. o # u /\ o \in Objects
      BY <1>7, <1>8 DEF BlockedIsListed
    <2>2. IsSignaled(o)
      BY <2>1 DEF IsSignaled, Objects
    <2> QED
      BY <1>7, <2>2 DEF NoLostSignal
  <1>12. SignalerIsAwaited'
    <2> SUFFICES ASSUME NEW t \in Threads, pc[t] \in WaitPcs
                 PROVE  /\ signaling_object'[t] # None =>
                              signaling_object'[t] \in Elements(sync_objects[t])
                        /\ signaling_object'[t] # None <=>
                              signaling_result'[t] = "SUCCESS"
      BY DEF SignalerIsAwaited
    <2>1. CASE t \in Woken(u)
      BY <2>1 DEF Woken, ListedIsWaiting
    <2>2. CASE t \notin Woken(u)
      BY <2>2 DEF SignalerIsAwaited
    <2> QED
      BY <2>1, <2>2
  <1>13. OneTimeEvent' /\ LiveCallback' /\ ForeverNeverTimesOut'
    BY DEF OneTimeEvent, LiveCallback, ForeverNeverTimesOut
  <1>14. ForeverResult'
    BY DEF ForeverResult, Woken, Paused
  <1> QED
    BY <1>4, <1>5, <1>6, <1>9, <1>10, <1>11, <1>12, <1>13, <1>14

-----------------------------------------------------------------------------

\* Every step of the system preserves the inductive invariant.
LEMMA NextIInv == IInv /\ [Next]_vars => IInv'
  <1> SUFFICES ASSUME IInv, [Next]_vars PROVE IInv'
    OBVIOUS
  <1>1. CASE UNCHANGED vars
    BY <1>1 DEF vars, threadVars, timerVars, localVars, IInv, TypeOK,
        ControlInv, BlockedResult, BlockedIsListed, ListedIsWaiting,
        NoLostSignal, IsSignaled, SignalerIsAwaited, NoCancelWhileBlocked,
        OneTimeEvent, LiveCallback, ForeverResult, ForeverNeverTimesOut
  <1>2. ASSUME NEW t \in Threads, ThreadStep(t) PROVE IInv'
    <2>1. ASSUME NEW objs \in WaitLists, NEW timeout \in Timeouts,
                 WaitFor(t, objs, timeout)
          PROVE  IInv'
      <3>1. CASE WaitForReturnsAtOnce(t, objs, timeout)
        BY <2>1, <3>1, WaitForReturnsAtOnceInv
      <3>2. CASE WaitForBlocks(t, objs, timeout)
        BY <2>1, <3>2, WaitForBlocksInv
      <3> QED
        BY <2>1, <3>1, <3>2 DEF WaitFor
    <2>2. CASE WaitForResume(t)
      BY <2>2, WaitForResumeInv
    <2>3. CASE UnscheduleEvent(t, "unschedule", "cancel")
      BY <2>3, UnscheduleEventInv
    <2>4. CASE MarkCancelled(t, "cancel", "collect")
      BY <2>4, MarkCancelledInv
    <2>5. CASE WaitForCollect(t)
      BY <2>5, WaitForCollectInv
    <2>6. CASE Sleep(t)
      BY <2>6, SleepInv
    <2>7. CASE SleepResume(t)
      BY <2>7, SleepResumeInv
    <2>8. CASE UnscheduleEvent(t, "sleepUnschedule", "sleepCancel")
      BY <2>8, UnscheduleEventInv
    <2>9. CASE MarkCancelled(t, "sleepCancel", "svcReturn")
      BY <2>9, MarkCancelledInv
    <2>10. CASE SvcReturn(t)
      BY <2>10, SvcReturnInv
    <2>11. ASSUME NEW u \in Threads, CancelWait(t, u) PROVE IInv'
      BY <2>11, CancelWaitInv
    <2>12. ASSUME NEW u \in Threads, StartThread(t, u) PROVE IInv'
      BY <2>12, StartThreadInv
    <2>13. ASSUME NEW e \in Events, ResetSignal(t, e) PROVE IInv'
      BY <2>13, ClearInv DEF ResetSignal
    <2>14. CASE ExitThread(t)
      BY <2>14, ExitThreadInv
    <2> QED
      BY <1>2, <2>1, <2>2, <2>3, <2>4, <2>5, <2>6, <2>7, <2>8, <2>9, <2>10,
         <2>11, <2>12, <2>13, <2>14 DEF ThreadStep
  <1>3. ASSUME NEW a \in Actors, EventStep(a) PROVE IInv'
    <2>1. ASSUME NEW e \in Events, SignalCheck(a, e) PROVE IInv'
      BY <2>1, SignalCheckInv
    <2>2. ASSUME NEW e \in Events, ClearEvent(a, e) PROVE IInv'
      BY <2>2, ClearInv DEF ClearEvent
    <2>3. CASE SignalSet(a)
      BY <2>3, SignalSetInv
    <2>4. CASE SignalObject(a)
      BY <2>4, SignalObjectInv
    <2> QED
      BY <1>3, <2>1, <2>2, <2>3, <2>4 DEF EventStep
  <1>4. ASSUME NEW t \in Threads, AdvancePop(t) PROVE IInv'
    BY <1>4, AdvancePopInv
  <1>5. CASE TimeManagerCallback
    BY <1>5, TimeManagerCallbackInv
  <1> QED
    BY <1>1, <1>2, <1>3, <1>4, <1>5 DEF Next

\* The inductive invariant holds in every reachable state.
THEOREM Invariance == Spec => []IInv
  BY InitIInv, NextIInv, PTL DEF Spec

\* Every variable of the protocol keeps its type.
THEOREM TypeCorrect == Spec => []TypeOK
  <1>1. IInv => TypeOK
    BY DEF IInv
  <1> QED
    BY <1>1, Invariance, PTL

\* A blocked thread is on the waiting list of every object it waits for, and
\* a waiting list holds only threads inside the wait that put them there.
THEOREM ListsCorrect == Spec => [](BlockedIsListed /\ ListedIsWaiting)
  <1>1. IInv => BlockedIsListed /\ ListedIsWaiting
    BY DEF IInv
  <1> QED
    BY <1>1, Invariance, PTL

\* No thread stays blocked on a signaled object unless a SignalObject call for
\* it is on its way, for any number of threads, services and events.
THEOREM NoLostSignalTheorem == Spec => []NoLostSignal
  <1>1. IInv => NoLostSignal
    BY DEF IInv
  <1> QED
    BY <1>1, Invariance, PTL

\* The assertion of WaitFor that the signaling object is one of its objects.
THEOREM SignalerIsAwaitedTheorem == Spec => []SignalerIsAwaited
  <1>1. IInv => SignalerIsAwaited
    BY DEF IInv
  <1> QED
    BY <1>1, Invariance, PTL

\* No thread is blocked in WaitFor with a cancellation outstanding.
THEOREM NoCancelWhileBlockedTheorem == Spec => []NoCancelWhileBlocked
  <1>1. IInv => NoCancelWhileBlocked
    BY DEF IInv
  <1> QED
    BY <1>1, Invariance, PTL

\* A wait without timeout never reports a timeout.
THEOREM ForeverNeverTimesOutTheorem == Spec => []ForeverNeverTimesOut
  <1>1. IInv => ForeverNeverTimesOut
    BY DEF IInv
  <1> QED
    BY <1>1, Invariance, PTL

\* At most one time event per thread is queued, and an uncancelled callback
\* finds its thread inside the wait it belongs to, hence alive.
THEOREM TimeEventsCorrect == Spec => [](OneTimeEvent /\ CallbackFindsThread)
  <1>1. IInv => OneTimeEvent /\ CallbackFindsThread
    BY DEF IInv, LiveCallback, CallbackFindsThread
  <1> QED
    BY <1>1, Invariance, PTL

\* The result the first waker left for a thread is the one it collects.
THEOREM FirstWakeWinsTheorem == Spec => FirstWakeWins
  <1> DEFINE A == \A t \in Threads :
          pc[t] \in WaitPcs /\ status[t] = "Ready" =>
              /\ signaling_object'[t] = signaling_object[t]
              /\ signaling_result'[t] = signaling_result[t]
  <1>1. IInv /\ [Next]_vars => [A]_vars
    <2> SUFFICES ASSUME IInv, Next, NEW t \in Threads,
                        pc[t] \in WaitPcs, status[t] = "Ready"
                 PROVE  /\ signaling_object'[t] = signaling_object[t]
                        /\ signaling_result'[t] = signaling_result[t]
      OBVIOUS
    <2> USE DEF IInv
    <2>1. ASSUME NEW u \in Threads, ThreadStep(u)
          PROVE  /\ signaling_object'[t] = signaling_object[t]
                 /\ signaling_result'[t] = signaling_result[t]
      <3>1. ASSUME NEW objs \in WaitLists, NEW timeout \in Timeouts,
                   WaitFor(u, objs, timeout)
            PROVE  /\ signaling_object'[t] = signaling_object[t]
                   /\ signaling_result'[t] = signaling_result[t]
        BY <3>1 DEF WaitFor, WaitForReturnsAtOnce, WaitForBlocks,
               SetSynchronizationResults, At, WaitPcs,
                    TypeOK
      <3>2. ASSUME NEW v \in Threads, CancelWait(u, v)
            PROVE  /\ signaling_object'[t] = signaling_object[t]
                   /\ signaling_result'[t] = signaling_result[t]
        BY <3>2 DEF CancelWait, SetSynchronizationResults, Paused, TypeOK
      <3>3. CASE ExitThread(u)
        BY <3>3 DEF ExitThread, WakeWaiters, Woken, Paused
      <3>4. CASE UNCHANGED <<signaling_object, signaling_result>>
        BY <3>4
      <3> QED
        BY <2>1, <3>1, <3>2, <3>3, <3>4
           DEF ThreadStep, WaitForResume, UnscheduleEvent, MarkCancelled,
               WaitForCollect, Sleep, SleepResume, SvcReturn, StartThread,
               ResetSignal, threadVars
    <2>2. ASSUME NEW a \in Actors, EventStep(a)
          PROVE  /\ signaling_object'[t] = signaling_object[t]
                 /\ signaling_result'[t] = signaling_result[t]
      BY <2>2 DEF EventStep, SignalCheck, SignalSet, SignalObject, ClearEvent,
                  WakeWaiters, Woken, Paused, threadVars
    <2>3. ASSUME NEW u \in Threads, AdvancePop(u)
          PROVE  /\ signaling_object'[t] = signaling_object[t]
                 /\ signaling_result'[t] = signaling_result[t]
      BY <2>3 DEF AdvancePop, threadVars
    <2>4. CASE TimeManagerCallback
      BY <2>4 DEF TimeManagerCallback
    <2> QED
      BY <2>1, <2>2, <2>3, <2>4 DEF Next
  <1> QED
    BY <1>1, Invariance, PTL DEF Spec, FirstWakeWins

\* No time event brings a dead thread back.
THEOREM DeadStaysDeadTheorem == Spec => DeadStaysDead
  <1> DEFINE A == \A t \in Threads : status[t] = "Dead" => status'[t] = "Dead"
  <1>1. IInv /\ [Next]_vars => [A]_vars
    <2> SUFFICES ASSUME IInv, Next, NEW t \in Threads, status[t] = "Dead"
                 PROVE  status'[t] = "Dead"
      OBVIOUS
    <2>0. pc[t] = "user"
      BY DEF IInv, ControlInv
    <2>1. ASSUME NEW u \in Threads, ThreadStep(u) PROVE status'[t] = "Dead"
      <3> USE DEF IInv, TypeOK, At, Runs
      <3>1. ASSUME NEW objs \in WaitLists, NEW timeout \in Timeouts,
                   WaitFor(u, objs, timeout)
            PROVE  status'[t] = "Dead"
        BY <3>1 DEF WaitFor, WaitForReturnsAtOnce, WaitForBlocks
      <3>2. ASSUME NEW v \in Threads, CancelWait(u, v) \/ StartThread(u, v)
            PROVE  status'[t] = "Dead"
        BY <3>2 DEF CancelWait, StartThread, Paused
      <3>3. CASE ExitThread(u)
        BY <3>3 DEF ExitThread, WakeWaiters, Woken, Paused
      <3>4. CASE Sleep(u)
        BY <3>4 DEF Sleep
      <3>5. CASE UNCHANGED status
        BY <3>5
      <3> QED
        BY <2>1, <3>1, <3>2, <3>3, <3>4, <3>5
           DEF ThreadStep, WaitForResume, UnscheduleEvent, MarkCancelled,
               WaitForCollect, SleepResume, SvcReturn, ResetSignal, threadVars
    <2>2. ASSUME NEW a \in Actors, EventStep(a) PROVE status'[t] = "Dead"
      BY <2>2 DEF EventStep, SignalCheck, SignalSet, SignalObject, ClearEvent,
                  WakeWaiters, Woken, Paused, threadVars
    <2>3. ASSUME NEW u \in Threads, AdvancePop(u) PROVE status'[t] = "Dead"
      BY <2>3 DEF AdvancePop, threadVars
    <2>4. CASE TimeManagerCallback
      BY <2>0, <2>4 DEF TimeManagerCallback, IInv, TypeOK, LiveCallback,
                        WaitPcs, SleepPcs
    <2> QED
      BY <2>1, <2>2, <2>3, <2>4 DEF Next
  <1> QED
    BY <1>1, Invariance, PTL DEF Spec, DeadStaysDead

=============================================================================
