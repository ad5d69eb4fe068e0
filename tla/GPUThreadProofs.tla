--------------------------- MODULE GPUThreadProofs ---------------------------
(***************************************************************************)
(* Proofs about GPUThread: its safety for any number of cores, calls and   *)
(* accuracy levels, and that it implements the safety part of CommandFifo. *)
(***************************************************************************)
EXTENDS GPUThread, TLAPS

\* The threads are different threads.
LEMMA Distinct ==
    /\ GPU \in Threads /\ Main \in Threads /\ Timer \in Threads /\ VSync \in Threads
    /\ GPU # Main /\ None \notin Threads
    /\ Timer \in Producers /\ VSync \in Producers
    /\ \A p \in Producers : p \in Threads /\ p # GPU /\ p # Main
    /\ \A t \in Threads : t \in Producers \/ t = GPU \/ t = Main
BY GPUThreadAssumption DEF Threads, Producers

\* What is left of a sequence when its head is taken.
LEMMA HeadTail ==
    ASSUME NEW S, NEW s \in Seq(S), s # <<>>
    PROVE  /\ Len(s) \in Nat \ {0} /\ Head(s) \in S /\ Head(s) = s[1]
           /\ Tail(s) \in Seq(S) /\ Len(Tail(s)) = Len(s) - 1
           /\ DOMAIN s = 1..Len(s) /\ DOMAIN Tail(s) = 1..(Len(s) - 1)
           /\ \A i \in 1..(Len(s) - 1) : Tail(s)[i] = s[i + 1]
           /\ \A i \in 1..Len(s) : s[i] \in S
OBVIOUS

\* What a sequence becomes when an element is appended.
LEMMA Appended ==
    ASSUME NEW S, NEW s \in Seq(S), NEW e \in S
    PROVE  /\ Append(s, e) \in Seq(S) /\ Len(s) \in Nat /\ Len(Append(s, e)) = Len(s) + 1
           /\ DOMAIN s = 1..Len(s) /\ DOMAIN Append(s, e) = 1..(Len(s) + 1)
           /\ \A i \in 1..Len(s) : Append(s, e)[i] = s[i] /\ s[i] \in S
           /\ Append(s, e)[Len(s) + 1] = e
OBVIOUS


\* ++state.last_fence, read and written without a lock, concerns no other part.
LEMMA PushReadStep == ASSUME NEW t \in Threads, IInv, PushRead(t) PROVE IInv'
<1> USE Distinct, GPUThreadAssumption DEF IInv, PushRead, Goto,
       callVars, fenceVars, queueVars, flushVars
<1>1. TypeOK'
  BY SMTT(20) DEF TypeOK, PushSteps, GPUSteps, MainSteps, Kinds
<1>2. PcInv'
  BY <1>1 DEF TypeOK, PcInv, Kinds, PushSteps, GPUSteps, MainSteps
<1>3. QueueInv'
  BY <1>1 DEF TypeOK, PcInv, QueueInv
<1>4. ItemInv'
  BY <1>1 DEF TypeOK, PcInv, ItemInv, Containers, PushSteps, GPUSteps, MainSteps
<1>5. FlushInv'
  BY <1>1 DEF TypeOK, PcInv, FlushInv
<1>6. NoLostWakeup'
  BY <1>1 DEF TypeOK, PcInv, QueueInv, NoLostWakeup, PushSteps, GPUSteps, MainSteps
<1> QED BY <1>1, <1>2, <1>3, <1>4, <1>5, <1>6

\* The racing write of last_fence.
LEMMA PushWriteStep == ASSUME NEW t \in Threads, IInv, PushWrite(t) PROVE IInv'
<1> USE Distinct, GPUThreadAssumption DEF IInv, PushWrite, Goto,
       callVars, fenceVars, queueVars, flushVars
<1>1. TypeOK'
  BY DEF TypeOK, PushSteps, GPUSteps, MainSteps, Kinds
<1>2. PcInv'
  BY <1>1 DEF TypeOK, PcInv, Kinds, PushSteps, GPUSteps, MainSteps
<1>3. QueueInv'
  BY <1>1 DEF TypeOK, PcInv, QueueInv
<1>4. ItemInv'
  BY <1>1 DEF TypeOK, PcInv, ItemInv, Containers, PushSteps, GPUSteps, MainSteps
<1>5. FlushInv'
  BY <1>1 DEF TypeOK, PcInv, FlushInv
<1>6. NoLostWakeup'
  BY <1>1 DEF TypeOK, PcInv, QueueInv, NoLostWakeup, PushSteps, GPUSteps, MainSteps
<1> QED BY <1>1, <1>2, <1>3, <1>4, <1>5, <1>6

\* An element is linked under write_lock: for a moment it is not counted.
LEMMA QueueLinkStep == ASSUME NEW t \in Threads, IInv, QueueLink(t) PROVE IInv'
<1> USE Distinct, GPUThreadAssumption DEF IInv, QueueLink, Goto, Container, Containers,
       callVars, fenceVars, queueVars, flushVars
<1>1. TypeOK'
  <2>1. cmd[t] \in Kinds
    BY DEF PcInv, PushSteps
  <2>2. queue' \in Seq(Containers)
    BY <2>1 DEF TypeOK
  <2> QED BY <2>2 DEF TypeOK, PushSteps
<1>2. PcInv'
  BY <1>1 DEF TypeOK, PcInv, Kinds, PushSteps, GPUSteps, MainSteps
<1>3. QueueInv'
  <2>1. Len(queue') = Len(queue) + 1
    BY DEF TypeOK
  <2>2. \A u \in Threads : pc[u] \notin {"size", "fence", "notify"}
    BY DEF QueueInv
  <2>3. Len(queue) = size
    BY <2>2 DEF QueueInv
  <2>4. \E u \in Threads : pc'[u] = "size"
    BY DEF TypeOK
  <2>5. \A u \in Threads : write_lock' = u <=> pc'[u] \in {"size", "fence", "notify"}
    BY <2>2 DEF TypeOK
  <2>6. cv_mutex' <=> pc'[GPU] = "block"
    BY DEF TypeOK, QueueInv
  <2> QED BY <2>1, <2>3, <2>4, <2>5, <2>6 DEF QueueInv
<1>4. ItemInv'
  BY <1>1 DEF TypeOK, PcInv, ItemInv, Containers, PushSteps, GPUSteps, MainSteps
<1>5. FlushInv'
  BY <1>1 DEF TypeOK, PcInv, FlushInv
<1>6. NoLostWakeup'
  BY <1>1 DEF TypeOK, PcInv, QueueInv, NoLostWakeup, PushSteps, GPUSteps, MainSteps
<1> QED BY <1>1, <1>2, <1>3, <1>4, <1>5, <1>6

\* It is counted; an empty queue sends its producer to the mutex.
LEMMA QueueSizeStep == ASSUME NEW t \in Threads, IInv, QueueSize(t) PROVE IInv'
<1> USE Distinct, GPUThreadAssumption DEF IInv, QueueSize, Goto,
       callVars, fenceVars, queueVars, flushVars
<1>1. TypeOK'
  BY SMTT(20) DEF TypeOK, PushSteps, GPUSteps, MainSteps, Kinds
<1>2. PcInv'
  BY <1>1 DEF TypeOK, PcInv, Kinds, PushSteps, GPUSteps, MainSteps
<1>3. QueueInv'
  BY <1>1 DEF TypeOK, PcInv, QueueInv
<1>4. ItemInv'
  BY <1>1 DEF TypeOK, PcInv, ItemInv, Containers, PushSteps, GPUSteps, MainSteps
<1>5. FlushInv'
  BY <1>1 DEF TypeOK, PcInv, FlushInv
<1>6. NoLostWakeup'
  BY <1>1 DEF TypeOK, PcInv, QueueInv, NoLostWakeup, PushSteps, GPUSteps, MainSteps
<1> QED BY <1>1, <1>2, <1>3, <1>4, <1>5, <1>6

\* The producer gets the mutex only when the GPU thread is not about to wait.
LEMMA QueueFenceStep == ASSUME NEW t \in Threads, IInv, QueueFence(t) PROVE IInv'
<1> USE Distinct, GPUThreadAssumption DEF IInv, QueueFence, Goto,
       callVars, fenceVars, queueVars, flushVars
<1>1. TypeOK'
  BY DEF TypeOK, PushSteps, GPUSteps, MainSteps, Kinds
<1>2. PcInv'
  BY <1>1 DEF TypeOK, PcInv, Kinds, PushSteps, GPUSteps, MainSteps
<1>3. QueueInv'
  BY <1>1 DEF TypeOK, PcInv, QueueInv
<1>4. ItemInv'
  BY <1>1 DEF TypeOK, PcInv, ItemInv, Containers, PushSteps, GPUSteps, MainSteps
<1>5. FlushInv'
  BY <1>1 DEF TypeOK, PcInv, FlushInv
<1>6. NoLostWakeup'
  BY <1>1 DEF TypeOK, PcInv, QueueInv, NoLostWakeup, PushSteps, GPUSteps, MainSteps
<1> QED BY <1>1, <1>2, <1>3, <1>4, <1>5, <1>6

\* The notification wakes the GPU thread and ends the push.
LEMMA QueueNotifyStep == ASSUME NEW t \in Threads, IInv, QueueNotify(t) PROVE IInv'
<1> USE Distinct, GPUThreadAssumption DEF IInv, QueueNotify, AfterPush,
       callVars, fenceVars, queueVars, flushVars
<1>1. TypeOK'
  BY DEF TypeOK, PushSteps, GPUSteps, MainSteps, Kinds
<1>2. PcInv'
  <2>1. pc'[GPU] \in PushSteps \cup GPUSteps
    BY DEF TypeOK, PcInv, GPUSteps
  <2>2. pc'[Main] \in PushSteps \cup MainSteps \cup {"gone"}
    BY DEF TypeOK, PcInv, MainSteps
  <2>3. \A p \in Producers : pc'[p] \in PushSteps \cup {"idle", "spin"}
    BY DEF TypeOK, PcInv
  <2>4. ASSUME NEW u \in Threads, pc'[u] \in PushSteps PROVE cmd'[u] \in Kinds
    BY <2>4 DEF TypeOK, PcInv, PushSteps
  <2> QED BY <2>1, <2>2, <2>3, <2>4 DEF PcInv
<1>3. QueueInv'
  BY <1>1 DEF TypeOK, PcInv, QueueInv
<1>4. ItemInv'
  BY <1>1 DEF TypeOK, PcInv, ItemInv, Containers, PushSteps, GPUSteps, MainSteps
<1>5. FlushInv'
  BY <1>1 DEF TypeOK, PcInv, FlushInv
<1>6. NoLostWakeup'
  BY <1>1 DEF TypeOK, PcInv, QueueInv, NoLostWakeup, PushSteps, GPUSteps, MainSteps
<1> QED BY <1>1, <1>2, <1>3, <1>4, <1>5, <1>6

\* SubmitList begins a push.
LEMMA SubmitListStep == ASSUME IInv, SubmitList PROVE IInv'
<1> USE Distinct, GPUThreadAssumption DEF IInv, SubmitList, Calls, BeginPush, Goto,
       callVars, fenceVars, queueVars, flushVars
<1>1. TypeOK'
  BY DEF TypeOK, PushSteps, GPUSteps, MainSteps, Kinds
<1>2. PcInv'
  BY <1>1 DEF TypeOK, PcInv, Kinds, PushSteps, GPUSteps, MainSteps
<1>3. QueueInv'
  BY <1>1 DEF TypeOK, PcInv, QueueInv
<1>4. ItemInv'
  BY <1>1 DEF TypeOK, PcInv, ItemInv, Containers, PushSteps, GPUSteps, MainSteps
<1>5. FlushInv'
  BY <1>1 DEF TypeOK, PcInv, FlushInv
<1>6. NoLostWakeup'
  BY <1>1 DEF TypeOK, PcInv, QueueInv, NoLostWakeup, PushSteps, GPUSteps, MainSteps
<1> QED BY <1>1, <1>2, <1>3, <1>4, <1>5, <1>6

\* So does SwapBuffers,
LEMMA SwapBuffersStep == ASSUME IInv, SwapBuffers PROVE IInv'
<1> USE Distinct, GPUThreadAssumption DEF IInv, SwapBuffers, Calls, BeginPush, Goto,
       callVars, fenceVars, queueVars, flushVars
<1>1. TypeOK'
  BY DEF TypeOK, PushSteps, GPUSteps, MainSteps, Kinds
<1>2. PcInv'
  BY <1>1 DEF TypeOK, PcInv, Kinds, PushSteps, GPUSteps, MainSteps
<1>3. QueueInv'
  BY <1>1 DEF TypeOK, PcInv, QueueInv
<1>4. ItemInv'
  BY <1>1 DEF TypeOK, PcInv, ItemInv, Containers, PushSteps, GPUSteps, MainSteps
<1>5. FlushInv'
  BY <1>1 DEF TypeOK, PcInv, FlushInv
<1>6. NoLostWakeup'
  BY <1>1 DEF TypeOK, PcInv, QueueInv, NoLostWakeup, PushSteps, GPUSteps, MainSteps
<1> QED BY <1>1, <1>2, <1>3, <1>4, <1>5, <1>6

\* and a flush at the lowest accuracy.
LEMMA FlushRegionQueuedStep == ASSUME NEW p \in Cores \cup {Timer}, IInv, FlushRegionQueued(p) PROVE IInv'
<1> p \in Producers
  BY DEF Producers
<1> USE Distinct, GPUThreadAssumption DEF IInv, FlushRegionQueued, Calls, BeginPush, Goto,
       callVars, fenceVars, queueVars, flushVars
<1>1. TypeOK'
  BY SMTT(20) DEF TypeOK, PushSteps, GPUSteps, MainSteps, Kinds
<1>2. PcInv'
  BY <1>1 DEF TypeOK, PcInv, Kinds, PushSteps, GPUSteps, MainSteps
<1>3. QueueInv'
  BY <1>1 DEF TypeOK, PcInv, QueueInv
<1>4. ItemInv'
  BY <1>1 DEF TypeOK, PcInv, ItemInv, Containers, PushSteps, GPUSteps, MainSteps
<1>5. FlushInv'
  BY <1>1 DEF TypeOK, PcInv, FlushInv
<1>6. NoLostWakeup'
  BY <1>1 DEF TypeOK, PcInv, QueueInv, NoLostWakeup, PushSteps, GPUSteps, MainSteps
<1> QED BY <1>1, <1>2, <1>3, <1>4, <1>5, <1>6

\* A flush that is skipped does nothing.
LEMMA FlushRegionSkippedStep == ASSUME NEW p \in Cores \cup {Timer}, IInv, FlushRegionSkipped(p) PROVE IInv'
<1> p \in Producers
  BY DEF Producers
<1> USE Distinct, GPUThreadAssumption DEF IInv, FlushRegionSkipped, Calls,
       callVars, fenceVars, queueVars, flushVars
<1>1. TypeOK'
  BY DEF TypeOK, PushSteps, GPUSteps, MainSteps, Kinds
<1>2. PcInv'
  BY <1>1 DEF TypeOK, PcInv, Kinds, PushSteps, GPUSteps, MainSteps
<1>3. QueueInv'
  BY <1>1 DEF TypeOK, PcInv, QueueInv
<1>4. ItemInv'
  BY <1>1 DEF TypeOK, PcInv, ItemInv, Containers, PushSteps, GPUSteps, MainSteps
<1>5. FlushInv'
  BY <1>1 DEF TypeOK, PcInv, FlushInv
<1>6. NoLostWakeup'
  BY <1>1 DEF TypeOK, PcInv, QueueInv, NoLostWakeup, PushSteps, GPUSteps, MainSteps
<1> QED BY <1>1, <1>2, <1>3, <1>4, <1>5, <1>6

\* A flush that is waited for gets a fence above all those before it.
LEMMA FlushRegionWaitsStep == ASSUME NEW p \in Cores \cup {Timer}, IInv, FlushRegionWaits(p) PROVE IInv'
<1> p \in Producers
  BY DEF Producers
<1> USE Distinct, GPUThreadAssumption DEF IInv, FlushRegionWaits, Calls, RequestFlush, BeginPush, Goto,
       callVars, fenceVars, queueVars, flushVars
<1>1. TypeOK'
  BY SMTT(20) DEF TypeOK, PushSteps, GPUSteps, MainSteps, Kinds
<1>2. PcInv'
  BY <1>1, SMTT(20) DEF TypeOK, PcInv, Kinds, PushSteps, GPUSteps, MainSteps
<1>3. QueueInv'
  BY <1>1 DEF TypeOK, PcInv, QueueInv
<1>4. ItemInv'
  BY <1>1 DEF TypeOK, PcInv, ItemInv, Containers, PushSteps, GPUSteps, MainSteps
<1>5. FlushInv'
  <2> DEFINE n == Len(flush_requests)
  <2>1. /\ n \in Nat /\ Len(flush_requests') = n + 1
        /\ \A i \in 1..n : flush_requests'[i] = flush_requests[i] /\ flush_requests[i] \in Nat
        /\ flush_requests'[n + 1] = last_flush_fence + 1
        /\ DOMAIN flush_requests = 1..n /\ DOMAIN flush_requests' = 1..(n + 1)
    <3>1. /\ last_flush_fence + 1 \in Nat /\ flush_requests \in Seq(Nat)
          /\ flush_requests' = Append(flush_requests, last_flush_fence + 1)
      BY DEF TypeOK
    <3> HIDE DEF FlushRegionWaits, RequestFlush, IInv
    <3> QED BY <3>1, Appended
  <2>2. pc'[GPU] = pc[GPU] /\ flush'[GPU] = flush[GPU]
    BY DEF TypeOK
  <2>3. /\ last_flush_fence \in Nat /\ current_flush_fence \in Nat /\ flush[GPU] \in Nat
        /\ last_flush_fence' = last_flush_fence + 1
        /\ current_flush_fence' = current_flush_fence
    BY DEF TypeOK
  <2> HIDE DEF n, FlushRegionWaits, RequestFlush
  <2> QED BY <2>1, <2>2, <2>3, SMTT(20) DEF FlushInv
<1>6. NoLostWakeup'
  BY <1>1, SMTT(20) DEF TypeOK, PcInv, QueueInv, NoLostWakeup, PushSteps, GPUSteps, MainSteps
<1> QED BY <1>1, <1>2, <1>3, <1>4, <1>5, <1>6

\* The core goes on.
LEMMA FlushRegionReturnsStep == ASSUME NEW p \in Cores \cup {Timer}, IInv, FlushRegionReturns(p) PROVE IInv'
<1> p \in Producers
  BY DEF Producers
<1> USE Distinct, GPUThreadAssumption DEF IInv, FlushRegionReturns, Goto,
       callVars, fenceVars, queueVars, flushVars
<1>1. TypeOK'
  BY DEF TypeOK, PushSteps, GPUSteps, MainSteps, Kinds
<1>2. PcInv'
  BY <1>1 DEF TypeOK, PcInv, Kinds, PushSteps, GPUSteps, MainSteps
<1>3. QueueInv'
  BY <1>1 DEF TypeOK, PcInv, QueueInv
<1>4. ItemInv'
  BY <1>1 DEF TypeOK, PcInv, ItemInv, Containers, PushSteps, GPUSteps, MainSteps
<1>5. FlushInv'
  BY <1>1 DEF TypeOK, PcInv, FlushInv
<1>6. NoLostWakeup'
  BY <1>1 DEF TypeOK, PcInv, QueueInv, NoLostWakeup, PushSteps, GPUSteps, MainSteps
<1> QED BY <1>1, <1>2, <1>3, <1>4, <1>5, <1>6

\* The spin of RunThread before its first command.
LEMMA FirstCommandStep == ASSUME IInv, FirstCommand PROVE IInv'
<1> USE Distinct, GPUThreadAssumption DEF IInv, FirstCommand, Goto,
       callVars, fenceVars, queueVars, flushVars
<1>1. TypeOK'
  BY DEF TypeOK, PushSteps, GPUSteps, MainSteps, Kinds
<1>2. PcInv'
  BY <1>1 DEF TypeOK, PcInv, Kinds, PushSteps, GPUSteps, MainSteps
<1>3. QueueInv'
  BY <1>1 DEF TypeOK, PcInv, QueueInv
<1>4. ItemInv'
  BY <1>1 DEF TypeOK, PcInv, ItemInv, Containers, PushSteps, GPUSteps, MainSteps
<1>5. FlushInv'
  BY <1>1 DEF TypeOK, PcInv, FlushInv
<1>6. NoLostWakeup'
  BY <1>1 DEF TypeOK, PcInv, QueueInv, NoLostWakeup, PushSteps, GPUSteps, MainSteps
<1> QED BY <1>1, <1>2, <1>3, <1>4, <1>5, <1>6

\* A counted element is linked, so the pop finds it.
LEMMA PopWaitStep == ASSUME IInv, PopWait PROVE IInv'
<1> USE Distinct, GPUThreadAssumption DEF IInv, PopWait, Goto, Containers, DefaultContainer, Container,
       callVars, fenceVars, queueVars, flushVars
<1>1. TypeOK'
  <2>1. queue # <<>>
    BY DEF TypeOK, QueueInv
  <2>2. item' \in Containers /\ queue' \in Seq(Containers) /\ Len(queue') = Len(queue) - 1
    BY <2>1, HeadTail DEF TypeOK
  <2> HIDE DEF Containers
  <2> QED BY <2>2 DEF TypeOK, GPUSteps
<1>2. PcInv'
  BY <1>1 DEF TypeOK, PcInv, Kinds, PushSteps, GPUSteps, MainSteps
<1>3. QueueInv'
  <2>1. queue # <<>>
    BY DEF TypeOK, QueueInv
  <2>2. Len(queue') = Len(queue) - 1 /\ Len(queue) \in Nat
    BY <2>1, HeadTail DEF TypeOK
  <2>3. (\E t \in Threads : pc'[t] = "size") <=> \E t \in Threads : pc[t] = "size"
    BY DEF TypeOK
  <2>4. \A t \in Threads : write_lock' = t <=> pc'[t] \in {"size", "fence", "notify"}
    BY DEF TypeOK, QueueInv
  <2>5. cv_mutex' <=> pc'[GPU] = "block"
    BY DEF TypeOK, QueueInv
  <2>6. Len(queue) = (IF \E t \in Threads : pc[t] = "size" THEN size + 1 ELSE size)
    BY DEF QueueInv
  <2>7. size' = size - 1 /\ size \in Nat
    BY DEF TypeOK
  <2> HIDE DEF PopWait
  <2> QED BY <2>2, <2>3, <2>4, <2>5, <2>6, <2>7 DEF QueueInv
<1>4. ItemInv'
  <2>1. queue # <<>>
    BY DEF TypeOK, QueueInv
  <2>2. item' \in Containers
    BY <2>1, HeadTail DEF TypeOK
  <2>3. item' # None
    BY <2>2
  <2> QED BY <2>3 DEF TypeOK, ItemInv, PushSteps
<1>5. FlushInv'
  BY <1>1 DEF TypeOK, PcInv, FlushInv
<1>6. NoLostWakeup'
  BY <1>1 DEF TypeOK, PcInv, QueueInv, NoLostWakeup, PushSteps, GPUSteps, MainSteps
<1> QED BY <1>1, <1>2, <1>3, <1>4, <1>5, <1>6

\* An empty queue sends the GPU thread to the mutex.
LEMMA PopEmptyStep == ASSUME IInv, PopEmpty PROVE IInv'
<1> USE Distinct, GPUThreadAssumption DEF IInv, PopEmpty, Goto,
       callVars, fenceVars, queueVars, flushVars
<1>1. TypeOK'
  BY DEF TypeOK, PushSteps, GPUSteps, MainSteps, Kinds
<1>2. PcInv'
  BY <1>1 DEF TypeOK, PcInv, Kinds, PushSteps, GPUSteps, MainSteps
<1>3. QueueInv'
  BY <1>1 DEF TypeOK, PcInv, QueueInv
<1>4. ItemInv'
  BY <1>1 DEF TypeOK, PcInv, ItemInv, Containers, PushSteps, GPUSteps, MainSteps
<1>5. FlushInv'
  BY <1>1 DEF TypeOK, PcInv, FlushInv
<1>6. NoLostWakeup'
  BY <1>1 DEF TypeOK, PcInv, QueueInv, NoLostWakeup, PushSteps, GPUSteps, MainSteps
<1> QED BY <1>1, <1>2, <1>3, <1>4, <1>5, <1>6

\* It keeps the mutex only if the queue is still empty.
LEMMA WaitCheckStep == ASSUME IInv, WaitCheck PROVE IInv'
<1> USE Distinct, GPUThreadAssumption DEF IInv, WaitCheck, Goto,
       callVars, fenceVars, queueVars, flushVars
<1>1. TypeOK'
  BY DEF TypeOK, PushSteps, GPUSteps, MainSteps, Kinds
<1>2. PcInv'
  BY <1>1 DEF TypeOK, PcInv, Kinds, PushSteps, GPUSteps, MainSteps
<1>3. QueueInv'
  BY <1>1 DEF TypeOK, PcInv, QueueInv
<1>4. ItemInv'
  BY <1>1 DEF TypeOK, PcInv, ItemInv, Containers, PushSteps, GPUSteps, MainSteps
<1>5. FlushInv'
  BY <1>1 DEF TypeOK, PcInv, FlushInv
<1>6. NoLostWakeup'
  BY <1>1 DEF TypeOK, PcInv, QueueInv, NoLostWakeup, PushSteps, GPUSteps, MainSteps
<1> QED BY <1>1, <1>2, <1>3, <1>4, <1>5, <1>6

\* It waits.
LEMMA WaitBlockStep == ASSUME IInv, WaitBlock PROVE IInv'
<1> USE Distinct, GPUThreadAssumption DEF IInv, WaitBlock, Goto,
       callVars, fenceVars, queueVars, flushVars
<1>1. TypeOK'
  BY DEF TypeOK, PushSteps, GPUSteps, MainSteps, Kinds
<1>2. PcInv'
  BY <1>1 DEF TypeOK, PcInv, Kinds, PushSteps, GPUSteps, MainSteps
<1>3. QueueInv'
  BY <1>1 DEF TypeOK, PcInv, QueueInv
<1>4. ItemInv'
  BY <1>1 DEF TypeOK, PcInv, ItemInv, Containers, PushSteps, GPUSteps, MainSteps
<1>5. FlushInv'
  BY <1>1 DEF TypeOK, PcInv, FlushInv
<1>6. NoLostWakeup'
  BY <1>1 DEF TypeOK, PcInv, QueueInv, NoLostWakeup, PushSteps, GPUSteps, MainSteps
<1> QED BY <1>1, <1>2, <1>3, <1>4, <1>5, <1>6

\* It may wake by itself.
LEMMA SpuriousWakeStep == ASSUME IInv, SpuriousWake PROVE IInv'
<1> USE Distinct, GPUThreadAssumption DEF IInv, SpuriousWake, Goto,
       callVars, fenceVars, queueVars, flushVars
<1>1. TypeOK'
  BY DEF TypeOK, PushSteps, GPUSteps, MainSteps, Kinds
<1>2. PcInv'
  BY <1>1 DEF TypeOK, PcInv, Kinds, PushSteps, GPUSteps, MainSteps
<1>3. QueueInv'
  BY <1>1 DEF TypeOK, PcInv, QueueInv
<1>4. ItemInv'
  BY <1>1 DEF TypeOK, PcInv, ItemInv, Containers, PushSteps, GPUSteps, MainSteps
<1>5. FlushInv'
  BY <1>1 DEF TypeOK, PcInv, FlushInv
<1>6. NoLostWakeup'
  BY <1>1 DEF TypeOK, PcInv, QueueInv, NoLostWakeup, PushSteps, GPUSteps, MainSteps
<1> QED BY <1>1, <1>2, <1>3, <1>4, <1>5, <1>6

\* A command list pushes its end from the GPU thread.
LEMMA RunSubmitListStep == ASSUME IInv, RunSubmitList PROVE IInv'
<1> USE Distinct, GPUThreadAssumption DEF IInv, RunSubmitList, BeginPush, Goto,
       callVars, fenceVars, queueVars, flushVars
<1>1. TypeOK'
  BY DEF TypeOK, PushSteps, GPUSteps, MainSteps, Kinds
<1>2. PcInv'
  <2>1. /\ pc'[GPU] \in PushSteps \cup GPUSteps
        /\ pc'[GPU] \in PushSteps => cmd'[GPU] \in Kinds
    BY DEF TypeOK, PushSteps, GPUSteps, Kinds
  <2>2. \A t \in Threads : t # GPU => pc'[t] = pc[t] /\ cmd'[t] = cmd[t]
    BY DEF TypeOK
  <2> QED BY <2>1, <2>2 DEF PcInv
<1>3. QueueInv'
  <2>1. \A t \in Threads : pc'[t] = pc[t] \/
                              (t = GPU /\ pc[t] \in {"run", "tick"} /\ pc'[t] \in {"read", "tick", "store"})
    BY DEF TypeOK
  <2>2. UNCHANGED <<queueVars, cv_mutex>>
    OBVIOUS
  <2> HIDE DEF RunSubmitList
  <2> QED BY <2>1, <2>2 DEF QueueInv
<1>4. ItemInv'
  BY <1>1 DEF TypeOK, PcInv, ItemInv, Containers, PushSteps, GPUSteps, MainSteps
<1>5. FlushInv'
  BY <1>1 DEF TypeOK, PcInv, FlushInv
<1>6. NoLostWakeup'
  BY <1>1 DEF TypeOK, PcInv, QueueInv, NoLostWakeup, PushSteps, GPUSteps, MainSteps
<1> QED BY <1>1, <1>2, <1>3, <1>4, <1>5, <1>6

\* Of the other commands only EndProcessing leaves the loop.
LEMMA RunOtherStep == ASSUME IInv, RunOther PROVE IInv'
<1> USE Distinct, GPUThreadAssumption DEF IInv, RunOther, Goto,
       callVars, fenceVars, queueVars, flushVars
<1>1. TypeOK'
  BY DEF TypeOK, PushSteps, GPUSteps, MainSteps, Kinds
<1>2. PcInv'
  <2>1. pc'[GPU] \in {"tick", "ended", "store"}
    BY DEF TypeOK
  <2>2. \A t \in Threads : t # GPU => pc'[t] = pc[t]
    BY DEF TypeOK
  <2>3. cmd' = cmd
    OBVIOUS
  <2> HIDE DEF RunOther
  <2> QED BY <2>1, <2>2, <2>3 DEF PcInv, PushSteps, GPUSteps
<1>3. QueueInv'
  BY <1>1 DEF TypeOK, PcInv, QueueInv
<1>4. ItemInv'
  BY <1>1, SMTT(20) DEF TypeOK, PcInv, ItemInv, Containers, PushSteps, GPUSteps, MainSteps
<1>5. FlushInv'
  BY <1>1 DEF TypeOK, PcInv, FlushInv
<1>6. NoLostWakeup'
  BY <1>1 DEF TypeOK, PcInv, QueueInv, NoLostWakeup, PushSteps, GPUSteps, MainSteps
<1> QED BY <1>1, <1>2, <1>3, <1>4, <1>5, <1>6

\* The oldest request is above those served, and below those left.
LEMMA TickTakeStep == ASSUME IInv, TickTake PROVE IInv'
<1> USE Distinct, GPUThreadAssumption DEF IInv, TickTake, Goto,
       callVars, fenceVars, queueVars, flushVars
<1>1. TypeOK'
  <2>1. Head(flush_requests) \in Nat /\ Tail(flush_requests) \in Seq(Nat)
    BY HeadTail DEF TypeOK
  <2> QED BY <2>1 DEF TypeOK, GPUSteps
<1>2. PcInv'
  BY <1>1, SMTT(20) DEF TypeOK, PcInv, Kinds, PushSteps, GPUSteps, MainSteps
<1>3. QueueInv'
  BY <1>1 DEF TypeOK, PcInv, QueueInv
<1>4. ItemInv'
  BY <1>1 DEF TypeOK, PcInv, ItemInv, Containers, PushSteps, GPUSteps, MainSteps
<1>5. FlushInv'
  <2> DEFINE n == Len(flush_requests)
  <2>1. /\ n \in Nat \ {0} /\ Head(flush_requests) = flush_requests[1]
        /\ DOMAIN flush_requests = 1..n /\ DOMAIN flush_requests' = 1..(n - 1)
        /\ \A i \in 1..(n - 1) : flush_requests'[i] = flush_requests[i + 1]
        /\ \A i \in 1..n : flush_requests[i] \in Nat
    BY HeadTail DEF TypeOK
  <2>2. pc'[GPU] = "flush" /\ flush'[GPU] = Head(flush_requests)
    BY DEF TypeOK
  <2>3. /\ last_flush_fence \in Nat /\ current_flush_fence \in Nat
        /\ UNCHANGED <<last_flush_fence, current_flush_fence>>
    BY DEF TypeOK
  <2>4. \A i, j \in 1..n : i < j => flush_requests[i] < flush_requests[j]
    BY <2>1 DEF FlushInv
  <2>5. \A i \in 1..n : /\ current_flush_fence < flush_requests[i]
                        /\ flush_requests[i] <= last_flush_fence
    BY <2>1 DEF FlushInv
  <2>6. current_flush_fence <= last_flush_fence
    BY DEF FlushInv
  <2> HIDE DEF n, TickTake
  <2>7. \A i \in DOMAIN flush_requests' :
          /\ i \in 1..(n - 1) /\ i + 1 \in 1..n /\ 1 \in 1..n /\ 1 < i + 1
          /\ flush_requests'[i] = flush_requests[i + 1]
    BY <2>1
  <2>8. \A i \in DOMAIN flush_requests' : flush_requests[1] < flush_requests'[i]
    BY <2>4, <2>7
  <2>9. \A i, j \in DOMAIN flush_requests' : i < j => flush_requests'[i] < flush_requests'[j]
    BY <2>1, <2>4, <2>7
  <2> QED BY <2>1, <2>2, <2>3, <2>5, <2>6, <2>7, <2>8, <2>9 DEF FlushInv
<1>6. NoLostWakeup'
  BY <1>1 DEF TypeOK, PcInv, QueueInv, NoLostWakeup, PushSteps, GPUSteps, MainSteps
<1> QED BY <1>1, <1>2, <1>3, <1>4, <1>5, <1>6

\* It has been served.
LEMMA TickServeStep == ASSUME IInv, TickServe PROVE IInv'
<1> USE Distinct, GPUThreadAssumption DEF IInv, TickServe, Goto,
       callVars, fenceVars, queueVars, flushVars
<1>1. TypeOK'
  BY DEF TypeOK, PushSteps, GPUSteps, MainSteps, Kinds
<1>2. PcInv'
  BY <1>1 DEF TypeOK, PcInv, Kinds, PushSteps, GPUSteps, MainSteps
<1>3. QueueInv'
  BY <1>1 DEF TypeOK, PcInv, QueueInv
<1>4. ItemInv'
  BY <1>1 DEF TypeOK, PcInv, ItemInv, Containers, PushSteps, GPUSteps, MainSteps
<1>5. FlushInv'
  BY <1>1 DEF TypeOK, PcInv, FlushInv
<1>6. NoLostWakeup'
  BY <1>1 DEF TypeOK, PcInv, QueueInv, NoLostWakeup, PushSteps, GPUSteps, MainSteps
<1> QED BY <1>1, <1>2, <1>3, <1>4, <1>5, <1>6

\* No request is left.
LEMMA TickDoneStep == ASSUME IInv, TickDone PROVE IInv'
<1> USE Distinct, GPUThreadAssumption DEF IInv, TickDone, BeginPush, Goto,
       callVars, fenceVars, queueVars, flushVars
<1>1. TypeOK'
  BY DEF TypeOK, PushSteps, GPUSteps, MainSteps, Kinds
<1>2. PcInv'
  <2>1. /\ pc'[GPU] \in PushSteps \cup GPUSteps
        /\ pc'[GPU] \in PushSteps => cmd'[GPU] \in Kinds
    BY DEF TypeOK, PushSteps, GPUSteps, Kinds
  <2>2. \A t \in Threads : t # GPU => pc'[t] = pc[t] /\ cmd'[t] = cmd[t]
    BY DEF TypeOK
  <2> QED BY <2>1, <2>2 DEF PcInv
<1>3. QueueInv'
  <2>1. \A t \in Threads : pc'[t] = pc[t] \/
                              (t = GPU /\ pc[t] \in {"run", "tick"} /\ pc'[t] \in {"read", "tick", "store"})
    BY DEF TypeOK
  <2>2. UNCHANGED <<queueVars, cv_mutex>>
    OBVIOUS
  <2> HIDE DEF TickDone
  <2> QED BY <2>1, <2>2 DEF QueueInv
<1>4. ItemInv'
  BY <1>1 DEF TypeOK, PcInv, ItemInv, Containers, PushSteps, GPUSteps, MainSteps
<1>5. FlushInv'
  BY <1>1 DEF TypeOK, PcInv, FlushInv
<1>6. NoLostWakeup'
  BY <1>1 DEF TypeOK, PcInv, QueueInv, NoLostWakeup, PushSteps, GPUSteps, MainSteps
<1> QED BY <1>1, <1>2, <1>3, <1>4, <1>5, <1>6

\* The command is done.
LEMMA SignalFenceStep == ASSUME IInv, SignalFence PROVE IInv'
<1> USE Distinct, GPUThreadAssumption DEF IInv, SignalFence, Goto, Containers,
       callVars, fenceVars, queueVars, flushVars
<1>1. TypeOK'
  <2>1. item \in Containers
    BY DEF TypeOK, ItemInv
  <2> QED BY <2>1 DEF TypeOK, GPUSteps
<1>2. PcInv'
  BY <1>1 DEF TypeOK, PcInv, Kinds, PushSteps, GPUSteps, MainSteps
<1>3. QueueInv'
  BY <1>1 DEF TypeOK, PcInv, QueueInv
<1>4. ItemInv'
  BY <1>1 DEF TypeOK, PcInv, ItemInv, Containers, PushSteps, GPUSteps, MainSteps
<1>5. FlushInv'
  BY <1>1 DEF TypeOK, PcInv, FlushInv
<1>6. NoLostWakeup'
  BY <1>1 DEF TypeOK, PcInv, QueueInv, NoLostWakeup, PushSteps, GPUSteps, MainSteps
<1> QED BY <1>1, <1>2, <1>3, <1>4, <1>5, <1>6

\* Main goes on when the GPU is idle,
LEMMA WaitIdleStep == ASSUME IInv, WaitIdle PROVE IInv'
<1> USE Distinct, GPUThreadAssumption DEF IInv, WaitIdle, Goto,
       callVars, fenceVars, queueVars, flushVars
<1>1. TypeOK'
  BY DEF TypeOK, PushSteps, GPUSteps, MainSteps, Kinds
<1>2. PcInv'
  BY <1>1 DEF TypeOK, PcInv, Kinds, PushSteps, GPUSteps, MainSteps
<1>3. QueueInv'
  BY <1>1 DEF TypeOK, PcInv, QueueInv
<1>4. ItemInv'
  BY <1>1 DEF TypeOK, PcInv, ItemInv, Containers, PushSteps, GPUSteps, MainSteps
<1>5. FlushInv'
  BY <1>1 DEF TypeOK, PcInv, FlushInv
<1>6. NoLostWakeup'
  BY <1>1 DEF TypeOK, PcInv, QueueInv, NoLostWakeup, PushSteps, GPUSteps, MainSteps
<1> QED BY <1>1, <1>2, <1>3, <1>4, <1>5, <1>6

\* pushes the last command
LEMMA EndProcessingStep == ASSUME IInv, EndProcessing PROVE IInv'
<1> USE Distinct, GPUThreadAssumption DEF IInv, EndProcessing, BeginPush, Goto,
       callVars, fenceVars, queueVars, flushVars
<1>1. TypeOK'
  BY DEF TypeOK, PushSteps, GPUSteps, MainSteps, Kinds
<1>2. PcInv'
  BY <1>1 DEF TypeOK, PcInv, Kinds, PushSteps, GPUSteps, MainSteps
<1>3. QueueInv'
  BY <1>1, SMTT(20) DEF TypeOK, PcInv, QueueInv
<1>4. ItemInv'
  BY <1>1 DEF TypeOK, PcInv, ItemInv, Containers, PushSteps, GPUSteps, MainSteps
<1>5. FlushInv'
  BY <1>1 DEF TypeOK, PcInv, FlushInv
<1>6. NoLostWakeup'
  BY <1>1 DEF TypeOK, PcInv, QueueInv, NoLostWakeup, PushSteps, GPUSteps, MainSteps
<1> QED BY <1>1, <1>2, <1>3, <1>4, <1>5, <1>6

\* and joins the GPU thread.
LEMMA JoinStep == ASSUME IInv, Join PROVE IInv'
<1> USE Distinct, GPUThreadAssumption DEF IInv, Join, Goto,
       callVars, fenceVars, queueVars, flushVars
<1>1. TypeOK'
  BY DEF TypeOK, PushSteps, GPUSteps, MainSteps, Kinds
<1>2. PcInv'
  BY <1>1 DEF TypeOK, PcInv, Kinds, PushSteps, GPUSteps, MainSteps
<1>3. QueueInv'
  BY <1>1 DEF TypeOK, PcInv, QueueInv
<1>4. ItemInv'
  BY <1>1 DEF TypeOK, PcInv, ItemInv, Containers, PushSteps, GPUSteps, MainSteps
<1>5. FlushInv'
  BY <1>1 DEF TypeOK, PcInv, FlushInv
<1>6. NoLostWakeup'
  BY <1>1 DEF TypeOK, PcInv, QueueInv, NoLostWakeup, PushSteps, GPUSteps, MainSteps
<1> QED BY <1>1, <1>2, <1>3, <1>4, <1>5, <1>6

\* Every step of Next is one of the actions above.
LEMMA NextIsAction ==
    ASSUME Next
    PROVE  \/ \E t \in Threads : PushCommand(t)
           \/ \E p \in Cores \cup {Timer} : FlushRegion(p)
           \/ SubmitList \/ SwapBuffers \/ SpuriousWake
           \/ WaitIdle \/ EndProcessing \/ Join
           \/ FirstCommand \/ PopWait \/ PopEmpty \/ WaitCheck \/ WaitBlock
           \/ RunSubmitList \/ RunOther \/ TickTake \/ TickServe \/ TickDone \/ SignalFence
BY Distinct DEF Next, RunThread

\* The types, the queue, the command in hand and the order of the flushes.
THEOREM Invariance == Spec => []IInv
<1>1. Init => IInv
  <2> SUFFICES ASSUME Init PROVE IInv
    OBVIOUS
  <2>0. pc \in [Threads -> {"first", "waitidle", "idle"}]
    BY DEF Init
  <2>1. TypeOK
    <3>1. pc \in [Threads -> {"idle", "spin", "gone"} \cup PushSteps \cup GPUSteps \cup MainSteps]
      BY <2>0 DEF GPUSteps, MainSteps
    <3>2. queue \in Seq(Containers) /\ flush_requests \in Seq(Nat) /\ calls \in 0..MaxCalls
      BY GPUThreadAssumption DEF Init
    <3> QED BY <3>1, <3>2 DEF Init, TypeOK
  <2>2. /\ pc[GPU] = "first" /\ pc[Main] = "waitidle"
        /\ \A p \in Producers : pc[p] = "idle"
    BY Distinct DEF Init
  <2>3. PcInv
    BY <2>2, Distinct DEF PcInv, PushSteps, GPUSteps, MainSteps
  <2>4. QueueInv
    BY <2>2, Distinct DEF Init, QueueInv
  <2>5. ItemInv /\ FlushInv /\ NoLostWakeup
    BY <2>2 DEF Init, ItemInv, FlushInv, NoLostWakeup, PushSteps
  <2> QED BY <2>1, <2>3, <2>4, <2>5 DEF IInv
<1>2. IInv /\ [Next]_vars => IInv'
  <2> SUFFICES ASSUME IInv, [Next]_vars PROVE IInv'
    OBVIOUS
  <2>1. ASSUME NEW t \in Threads, PushCommand(t) PROVE IInv'
    BY <2>1, PushReadStep, PushWriteStep, QueueLinkStep, QueueSizeStep, QueueFenceStep,
       QueueNotifyStep DEF PushCommand
  <2>2. ASSUME NEW p \in Cores \cup {Timer}, FlushRegion(p) PROVE IInv'
    BY <2>2, FlushRegionQueuedStep, FlushRegionSkippedStep, FlushRegionWaitsStep,
       FlushRegionReturnsStep DEF FlushRegion
  <2>3. CASE SubmitList \/ SwapBuffers \/ SpuriousWake \/ WaitIdle \/ EndProcessing \/ Join
    BY <2>3, SubmitListStep, SwapBuffersStep, SpuriousWakeStep, WaitIdleStep,
       EndProcessingStep, JoinStep
  <2>4. CASE \/ FirstCommand \/ PopWait \/ PopEmpty \/ WaitCheck \/ WaitBlock
             \/ RunSubmitList \/ RunOther \/ TickTake \/ TickServe \/ TickDone \/ SignalFence
    BY <2>4, FirstCommandStep, PopWaitStep, PopEmptyStep, WaitCheckStep, WaitBlockStep,
       RunSubmitListStep, RunOtherStep, TickTakeStep, TickServeStep, TickDoneStep,
       SignalFenceStep
  <2>5. CASE UNCHANGED vars
    BY <2>5 DEF vars, callVars, fenceVars, queueVars, flushVars, IInv, TypeOK, PcInv,
       QueueInv, ItemInv, FlushInv, NoLostWakeup
  <2> QED BY <2>1, <2>2, <2>3, <2>4, <2>5, NextIsAction
<1> QED BY <1>1, <1>2, PTL DEF Spec

\* PopWait never sleeps through a command: the lock and unlock of cv_mutex in
\* Push is enough of a fence between the size and the notification.
THEOREM WakeupIsNeverLost == Spec => []NoLostWakeup
<1>1. IInv => NoLostWakeup
  BY DEF IInv
<1> QED BY Invariance, <1>1, PTL

\* FlushRegion returns to a core only when its own region has been flushed.
THEOREM CoreWaitsForItsFlush == Spec => []FlushBeforeReturn
<1>1. IInv => FlushBeforeReturn
  <2> SUFFICES ASSUME IInv, NEW p \in Producers, pc[p] = "spin", flush[p] <= current_flush_fence
               PROVE  /\ \A i \in DOMAIN flush_requests : flush_requests[i] # flush[p]
                      /\ ~(pc[GPU] = "flush" /\ flush[GPU] = flush[p])
    BY DEF FlushBeforeReturn
  <2>1. /\ flush[p] \in Nat /\ flush[GPU] \in Nat /\ current_flush_fence \in Nat
    BY Distinct DEF IInv, TypeOK
  <2> QED BY <2>1 DEF IInv, FlushInv
<1> QED BY Invariance, <1>1, PTL

\* What the abstract queue sees of the steps of GPUThread that do not touch the
\* queue and neither take up nor finish a command.
LEMMA FifoStutters ==
    ASSUME UNCHANGED <<queue, item>>, pc[GPU] # "ended", pc'[GPU] # "ended"
    PROVE  UNCHANGED Fifo!vars
BY DEF Fifo!vars

\* The producers link a command: the only step of PushCommand that is seen.
LEMMA PushIsFifo ==
    ASSUME NEW t \in Threads, IInv, PushCommand(t)
    PROVE  [Fifo!Next]_Fifo!vars
<1> USE Distinct DEF IInv, TypeOK
<1>1. CASE QueueLink(t)
  <2>1. cmd[t] \in Kinds
    BY <1>1 DEF QueueLink, PcInv, PushSteps
  <2>2. Container(cmd[t], fence[t]) \in Containers
    BY <2>1 DEF Container, Containers
  <2>3. /\ queue' = Append(queue, Container(cmd[t], fence[t]))
        /\ item' = item /\ (pc'[GPU] = "ended" <=> pc[GPU] = "ended")
    BY <1>1 DEF QueueLink, Goto
  <2>4. /\ Len(queue') = Len(queue) + 1
        /\ queue'[Len(queue')] = Container(cmd[t], fence[t])
    BY <2>2, <2>3, Appended
  <2>5. Fifo!Accept
    BY <2>2, <2>3, <2>4 DEF Fifo!Accept
  <2> QED BY <2>5 DEF Fifo!Next
<1>2. CASE ~QueueLink(t)
  <2>1. UNCHANGED <<queue, item>>
    BY <1>2 DEF PushCommand, PushRead, PushWrite, QueueSize, QueueFence, QueueNotify,
       queueVars
  <2>2. pc'[GPU] = "ended" <=> pc[GPU] = "ended"
    BY <1>2 DEF PushCommand, PushRead, PushWrite, QueueSize, QueueFence, QueueNotify,
       Goto
  <2> QED BY <2>1, <2>2 DEF Fifo!vars
<1> QED BY <1>1, <1>2

\* RunThread takes up the oldest command, and finishes it before the next.
LEMMA RunIsFifo ==
    ASSUME IInv, PopWait \/ RunOther \/ SignalFence
    PROVE  [Fifo!Next]_Fifo!vars
<1> USE Distinct, GPUThreadAssumption DEF IInv, TypeOK
<1>1. CASE PopWait
  <2>1. queue # <<>> /\ item = None
    BY <1>1 DEF PopWait, QueueInv, ItemInv
  <2>2. queue' = Tail(queue) /\ item' = Head(queue) /\ pc[GPU] = "pop" /\ pc'[GPU] = "run"
    BY <1>1, <2>1 DEF PopWait, Goto
  <2>3. Fifo!Begin
    BY <2>1, <2>2 DEF Fifo!Begin
  <2> QED BY <2>3 DEF Fifo!Next
<1>2. CASE RunOther
  <2>1. pc[GPU] = "run" /\ item # None /\ item \in Containers
    BY <1>2 DEF RunOther, ItemInv
  <2>2. UNCHANGED <<queue, item>>
    BY <1>2 DEF RunOther, queueVars
  <2>3. CASE item.kind = "EndProcessing"
    <3>1. pc'[GPU] = "ended"
      BY <1>2, <2>3 DEF RunOther, Goto
    <3>2. item \in [kind : {"EndProcessing"}, fence : Nat]
      BY <2>1, <2>3 DEF Containers
    <3>3. Fifo!Finish
      BY <2>1, <2>2, <3>1, <3>2 DEF Fifo!Finish
    <3> QED BY <3>3 DEF Fifo!Next
  <2>4. CASE item.kind # "EndProcessing"
    <3>1. pc'[GPU] # "ended"
      BY <1>2, <2>4 DEF RunOther, Goto
    <3> QED BY <2>1, <2>2, <3>1, FifoStutters
  <2> QED BY <2>3, <2>4
<1>3. CASE SignalFence
  <2>1. pc[GPU] = "store" /\ item # None /\ item.kind # "EndProcessing"
    BY <1>3 DEF SignalFence, ItemInv
  <2>2. item \notin [kind : {"EndProcessing"}, fence : Nat]
    BY <2>1
  <2>3. queue' = queue /\ item' = None /\ pc'[GPU] = "pop"
    BY <1>3 DEF SignalFence, Goto, queueVars
  <2>4. Fifo!Finish
    BY <2>1, <2>2, <2>3 DEF Fifo!Finish
  <2> QED BY <2>4 DEF Fifo!Next
<1> QED BY <1>1, <1>2, <1>3

\* No other step is seen at all.
LEMMA RestIsHidden ==
    ASSUME IInv,
           \/ \E p \in Cores \cup {Timer} : FlushRegion(p)
           \/ SubmitList \/ SwapBuffers \/ SpuriousWake \/ WaitIdle \/ EndProcessing \/ Join
           \/ FirstCommand \/ PopEmpty \/ WaitCheck \/ WaitBlock
           \/ RunSubmitList \/ TickTake \/ TickServe \/ TickDone
    PROVE  UNCHANGED Fifo!vars
<1> USE Distinct, GPUThreadAssumption
<1>1. UNCHANGED <<queue, item>>
  BY DEF FlushRegion, FlushRegionQueued, FlushRegionSkipped, FlushRegionWaits,
     FlushRegionReturns,
     SubmitList, SwapBuffers, SpuriousWake, WaitIdle, EndProcessing, Join, FirstCommand, PopEmpty,
     WaitCheck, WaitBlock, RunSubmitList, TickTake, TickServe, TickDone, queueVars
<1>2. pc'[GPU] = "ended" <=> pc[GPU] = "ended"
  <2>1. ASSUME NEW p \in Cores \cup {Timer}, FlushRegion(p) PROVE pc'[GPU] = pc[GPU]
    BY <2>1 DEF IInv, TypeOK, FlushRegion, FlushRegionQueued, FlushRegionSkipped,
       FlushRegionWaits, FlushRegionReturns, BeginPush, Goto, Producers
  <2>2. CASE SubmitList \/ SwapBuffers \/ WaitIdle \/ EndProcessing \/ Join
    BY <2>2 DEF IInv, TypeOK, SubmitList, SwapBuffers, WaitIdle, EndProcessing, Join,
       BeginPush, Goto
  <2>3. CASE \/ SpuriousWake \/ FirstCommand \/ PopEmpty \/ WaitCheck \/ WaitBlock
             \/ RunSubmitList \/ TickTake \/ TickServe \/ TickDone
    BY <2>3 DEF IInv, TypeOK, SpuriousWake, FirstCommand, PopEmpty, WaitCheck,
       WaitBlock,
       RunSubmitList, TickTake, TickServe, TickDone, BeginPush, Goto
  <2> QED BY <2>1, <2>2, <2>3
<1> QED BY <1>1, <1>2 DEF Fifo!vars

\* The queue of linked elements with its separate count, the producers that race
\* for it and the GPU thread that pops it implement one queue of commands: each
\* is executed once, alone and in order, and nothing after EndProcessing.
THEOREM ImplementsFifoSafety == Spec => Fifo!Safety
<1>1. Init => Fifo!Init
  BY Distinct DEF Init, Fifo!Init
<1>2. IInv /\ [Next]_vars => [Fifo!Next]_Fifo!vars
  <2> SUFFICES ASSUME IInv, [Next]_vars PROVE [Fifo!Next]_Fifo!vars
    OBVIOUS
  <2>1. CASE UNCHANGED vars
    BY <2>1 DEF vars, queueVars, Fifo!vars
  <2> QED BY <2>1, NextIsAction, PushIsFifo, RunIsFifo, RestIsHidden
<1> QED BY <1>1, <1>2, Invariance, PTL DEF Spec, Fifo!Safety
=============================================================================
