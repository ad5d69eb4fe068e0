------------------------------ MODULE GPUThread ------------------------------
(***************************************************************************)
(* The host thread that executes GPU commands (video_core/gpu_thread.cpp)  *)
(* and the multiple-producer queue that feeds it                           *)
(* (common/threadsafe_queue.h), step by step: the fence that PushCommand   *)
(* takes before the queue's lock, the element linked before the size is    *)
(* raised, the mutex that is locked and released as a fence before the     *)
(* notification, and the flushes that a CPU core requests and spins for.   *)
(*                                                                         *)
(* What a command draws is left out; of a command only its kind and its    *)
(* fence are kept.                                                         *)
(***************************************************************************)
EXTENDS Integers, Sequences, FiniteSets

CONSTANTS
    Timer,       \* the timer thread, on which services handle requests
    VSync,       \* the thread that composes the display
    Cores,       \* the host threads of the CPU cores
    GPU,         \* the GPU thread
    Main,        \* the thread that shuts the system down
    MaxCalls,    \* bound: calls made by all of them together
    Levels,      \* the accuracy settings to choose from
    None

VARIABLES
    pc,                   \* what each thread does next
    calls,                \* calls the producers have made
    cmd,                  \* kind of the command a thread is pushing
    fence,                \* the fence a thread took for it
    flush,                \* the flush a thread waits for, or works on
    last_fence,           \* SynchState::last_fence
    signaled_fence,       \* SynchState::signaled_fence
    queue,                \* the linked elements, oldest first
    size,                 \* SPSCQueue::size
    write_lock,           \* MPSCQueue::write_lock: its holder or None
    cv_mutex,             \* SPSCQueue::cv_mutex is held by the GPU thread
    item,                 \* `next' of RunThread
    flush_requests,       \* GPU::flush_requests, by fence
    last_flush_fence,     \* GPU::last_flush_fence
    current_flush_fence,  \* GPU::current_flush_fence
    level                 \* Settings: GPU accuracy

queueVars == <<queue, size, write_lock>>
fenceVars == <<last_fence, signaled_fence>>
flushVars == <<flush_requests, last_flush_fence, current_flush_fence>>
callVars == <<calls, cmd, fence, flush>>
vars == <<pc, callVars, fenceVars, queueVars, cv_mutex, item, flushVars, level>>

Producers == Cores \cup {Timer, VSync}
Threads == Producers \cup {GPU, Main}

Kinds == {"SubmitList", "SwapBuffers", "FlushRegion", "GPUTick",
          "OnCommandListEnd", "EndProcessing"}

\* CommandDataContainer; fences are far from the 2^64 at which they wrap.
Container(k, n) == [kind |-> k, fence |-> n]
Containers == [kind : Kinds, fence : Nat]

ASSUME GPUThreadAssumption ==
    /\ Timer \notin Cores /\ VSync \notin Cores \cup {Timer}
    /\ GPU \notin Cores \cup {Timer, VSync}
    /\ Main \notin Cores \cup {Timer, VSync, GPU}
    /\ None \notin Cores \cup {Timer, VSync, GPU, Main}
    /\ None \notin Containers
    /\ MaxCalls \in Nat
    /\ Levels \subseteq {"Normal", "High", "Extreme"}

\* A default-constructed container holds the first alternative of the variant.
DefaultContainer == Container("EndProcessing", 0)

PushSteps == {"read", "write", "push", "size", "fence", "notify"}
GPUSteps == {"first", "pop", "lock", "block", "wait",
             "run", "tick", "flush", "store", "ended"}
MainSteps == {"waitidle", "stop", "join"}

Goto(t, l) == pc' = [pc EXCEPT ![t] = l]

Init ==
    /\ pc = [t \in Threads |-> CASE t = GPU -> "first"
                               [] t = Main -> "waitidle"
                               [] OTHER -> "idle"]
    /\ calls = 0
    /\ cmd = [t \in Threads |-> None]
    /\ fence = [t \in Threads |-> 0]
    /\ flush = [t \in Threads |-> 0]
    /\ last_fence = 0
    /\ signaled_fence = 0
    /\ queue = <<>>
    /\ size = 0
    /\ write_lock = None
    /\ cv_mutex = FALSE
    /\ item = None
    /\ flush_requests = <<>>
    /\ last_flush_fence = 0
    /\ current_flush_fence = 0
    /\ level \in Levels

-----------------------------------------------------------------------------
(* PushCommand and the queue's Push.                                       *)

BeginPush(t, kind) ==
    /\ cmd' = [cmd EXCEPT ![t] = kind]
    /\ Goto(t, "read")

\* Where a thread goes on when PushCommand returns.
AfterPush(t) ==
    IF t = GPU THEN "store"
    ELSE IF t = Main THEN "join"
    ELSE IF cmd[t] = "GPUTick" THEN "spin" ELSE "idle"

\* ++state.last_fence reads and writes a plain integer without a lock.
PushRead(t) ==
    /\ pc[t] = "read"
    /\ fence' = [fence EXCEPT ![t] = last_fence + 1]
    /\ Goto(t, "write")
    /\ UNCHANGED <<calls, cmd, flush, fenceVars, queueVars, cv_mutex, item, flushVars, level>>

PushWrite(t) ==
    /\ pc[t] = "write"
    /\ last_fence' = fence[t]
    /\ Goto(t, "push")
    /\ UNCHANGED <<callVars, signaled_fence, queueVars, cv_mutex, item, flushVars, level>>

\* Under write_lock the element is written and linked ...
QueueLink(t) ==
    /\ pc[t] = "push"
    /\ write_lock = None
    /\ write_lock' = t
    /\ queue' = Append(queue, Container(cmd[t], fence[t]))
    /\ Goto(t, "size")
    /\ UNCHANGED <<callVars, fenceVars, size, cv_mutex, item, flushVars, level>>

\* Fault: the producer notifies without the mutex as a fence.
FaultNoFence(t) ==
    /\ pc[t] = "size"
    /\ size' = size + 1
    /\ Goto(t, "notify")
    /\ UNCHANGED <<callVars, fenceVars, queue, write_lock, cv_mutex, item, flushVars, level>>

\* ... then counted ...
QueueSize(t) ==
    /\ pc[t] = "size"
    /\ size' = size + 1
    /\ Goto(t, IF size = 0 THEN "fence" ELSE "notify")
    /\ UNCHANGED <<callVars, fenceVars, queue, write_lock, cv_mutex, item, flushVars, level>>

\* ... and cv_mutex is locked and released when the queue was empty.
QueueFence(t) ==
    /\ pc[t] = "fence"
    /\ ~cv_mutex
    /\ Goto(t, "notify")
    /\ UNCHANGED <<callVars, fenceVars, queueVars, cv_mutex, item, flushVars, level>>

QueueNotify(t) ==
    /\ pc[t] = "notify"
    /\ pc' = [pc EXCEPT ![t] = AfterPush(t),
                        ![GPU] = IF t = GPU THEN "store"
                                 ELSE IF @ = "wait" THEN "lock" ELSE @]
    /\ write_lock' = None
    /\ cmd' = [cmd EXCEPT ![t] = None]
    /\ fence' = [fence EXCEPT ![t] = 0]
    /\ UNCHANGED <<calls, flush, fenceVars, queue, size, cv_mutex, item, flushVars, level>>

PushCommand(t) ==
    \/ PushRead(t)
    \/ PushWrite(t)
    \/ QueueLink(t)
    \/ QueueSize(t)
    \/ QueueFence(t)
    \/ QueueNotify(t)

-----------------------------------------------------------------------------
(* The calls of the producers.  Services have stopped once Main pushes its *)
(* last command.                                                           *)

Calls(p) ==
    /\ pc[p] = "idle"
    /\ pc[Main] \in {"waitidle", "stop"}
    /\ calls < MaxCalls
    /\ calls' = calls + 1

SubmitList ==
    /\ Calls(Timer)
    /\ BeginPush(Timer, "SubmitList")
    /\ UNCHANGED <<fence, flush, fenceVars, queueVars, cv_mutex, item, flushVars, level>>

SwapBuffers ==
    /\ Calls(VSync)
    /\ BeginPush(VSync, "SwapBuffers")
    /\ UNCHANGED <<fence, flush, fenceVars, queueVars, cv_mutex, item, flushVars, level>>

\* At the lowest accuracy the flush is only queued.
FlushRegionQueued(p) ==
    /\ Calls(p)
    /\ level = "Normal"
    /\ BeginPush(p, "FlushRegion")
    /\ UNCHANGED <<fence, flush, fenceVars, queueVars, cv_mutex, item, flushVars, level>>

\* At the middle one, and when the rasterizer says there is no need, nothing
\* happens.
FlushRegionSkipped(p) ==
    /\ Calls(p)
    /\ level # "Normal"
    /\ UNCHANGED <<pc, cmd, fence, flush, fenceVars, queueVars, cv_mutex, item, flushVars, level>>

\* RequestFlush, under flush_request_mutex.
RequestFlush(p) ==
    /\ last_flush_fence' = last_flush_fence + 1
    /\ flush_requests' = Append(flush_requests, last_flush_fence + 1)
    /\ flush' = [flush EXCEPT ![p] = last_flush_fence + 1]
    /\ UNCHANGED current_flush_fence

\* Fault: the caller spins without a tick in the queue.
FaultNoTick(p) ==
    /\ Calls(p)
    /\ level = "Extreme"
    /\ RequestFlush(p)
    /\ Goto(p, "spin")
    /\ UNCHANGED <<cmd, fence, fenceVars, queueVars, cv_mutex, item, level>>

\* At the highest one the caller requests a flush, pushes a tick and spins.
FlushRegionWaits(p) ==
    /\ Calls(p)
    /\ level = "Extreme"
    /\ RequestFlush(p)
    /\ BeginPush(p, "GPUTick")
    /\ UNCHANGED <<fence, fenceVars, queueVars, cv_mutex, item, level>>

FlushRegionReturns(p) ==
    /\ pc[p] = "spin"
    /\ flush[p] <= current_flush_fence
    /\ flush' = [flush EXCEPT ![p] = 0]
    /\ Goto(p, "idle")
    /\ UNCHANGED <<calls, cmd, fence, fenceVars, queueVars, cv_mutex, item, flushVars, level>>

-----------------------------------------------------------------------------
(* RunThread.                                                              *)

\* while (state.queue.Empty());
FirstCommand ==
    /\ pc[GPU] = "first"
    /\ size > 0
    /\ Goto(GPU, "pop")
    /\ UNCHANGED <<callVars, fenceVars, queueVars, cv_mutex, item, flushVars, level>>

\* Fault: the element is popped without a look at the size.
FaultPopUnchecked ==
    /\ pc[GPU] = "pop"
    /\ size' = size - 1
    /\ item' = IF queue = <<>> THEN DefaultContainer ELSE Head(queue)
    /\ queue' = IF queue = <<>> THEN queue ELSE Tail(queue)
    /\ Goto(GPU, "run")
    /\ UNCHANGED <<callVars, fenceVars, write_lock, cv_mutex, flushVars, level>>

\* Fault: the last element stays at the front of the queue.
FaultKeepLast ==
    /\ pc[GPU] = "pop"
    /\ size > 0
    /\ size' = size - 1
    /\ item' = IF queue = <<>> THEN DefaultContainer ELSE Head(queue)
    /\ queue' = IF Len(queue) < 2 THEN queue ELSE Tail(queue)
    /\ Goto(GPU, "run")
    /\ UNCHANGED <<callVars, fenceVars, write_lock, cv_mutex, flushVars, level>>

\* PopWait looks at the size without the mutex and pops the oldest element.  Of
\* an element that is counted but not linked it would read the default value.
PopWait ==
    /\ pc[GPU] = "pop"
    /\ size > 0
    /\ size' = size - 1
    /\ item' = IF queue = <<>> THEN DefaultContainer ELSE Head(queue)
    /\ queue' = IF queue = <<>> THEN queue ELSE Tail(queue)
    /\ Goto(GPU, "run")
    /\ UNCHANGED <<callVars, fenceVars, write_lock, cv_mutex, flushVars, level>>

\* If it was zero, PopWait locks cv_mutex ...
PopEmpty ==
    /\ pc[GPU] = "pop"
    /\ size = 0
    /\ Goto(GPU, "lock")
    /\ UNCHANGED <<callVars, fenceVars, queueVars, cv_mutex, item, flushVars, level>>

\* ... and looks again in the predicate of cv.wait.
WaitCheck ==
    /\ pc[GPU] = "lock"
    /\ cv_mutex' = (size = 0)
    /\ Goto(GPU, IF size = 0 THEN "block" ELSE "pop")
    /\ UNCHANGED <<callVars, fenceVars, queueVars, item, flushVars, level>>

\* Releasing the mutex and starting to wait are one step.
WaitBlock ==
    /\ pc[GPU] = "block"
    /\ cv_mutex' = FALSE
    /\ Goto(GPU, "wait")
    /\ UNCHANGED <<callVars, fenceVars, queueVars, item, flushVars, level>>

\* A condition variable may wake without a notification.
SpuriousWake ==
    /\ pc[GPU] = "wait"
    /\ Goto(GPU, "lock")
    /\ UNCHANGED <<callVars, fenceVars, queueVars, cv_mutex, item, flushVars, level>>

\* DispatchCalls ends by pushing OnCommandListEnd from this very thread; a draw
\* on the way ticks the pending requests.
RunSubmitList ==
    /\ pc[GPU] = "run"
    /\ item.kind = "SubmitList"
    /\ \/ Goto(GPU, "tick") /\ UNCHANGED cmd
       \/ BeginPush(GPU, "OnCommandListEnd")
    /\ UNCHANGED <<calls, fence, flush, fenceVars, queueVars, cv_mutex, item, flushVars, level>>

RunOther ==
    /\ pc[GPU] = "run"
    /\ item.kind # "SubmitList"
    /\ Goto(GPU, CASE item.kind = "GPUTick" -> "tick"
                   [] item.kind = "EndProcessing" -> "ended"
                   [] OTHER -> "store")
    /\ UNCHANGED <<callVars, fenceVars, queueVars, cv_mutex, item, flushVars, level>>

\* Fault: the fence is signaled before the region has been flushed.
FaultFlushedEarly ==
    /\ pc[GPU] = "tick"
    /\ flush_requests # <<>>
    /\ flush' = [flush EXCEPT ![GPU] = Head(flush_requests)]
    /\ current_flush_fence' = Head(flush_requests)
    /\ flush_requests' = Tail(flush_requests)
    /\ Goto(GPU, "flush")
    /\ UNCHANGED <<calls, cmd, fence, fenceVars, queueVars, cv_mutex, item,
                   last_flush_fence, level>>

\* TickWork takes a request with the mutex held and serves it without.
TickTake ==
    /\ pc[GPU] = "tick"
    /\ flush_requests # <<>>
    /\ flush' = [flush EXCEPT ![GPU] = Head(flush_requests)]
    /\ flush_requests' = Tail(flush_requests)
    /\ Goto(GPU, "flush")
    /\ UNCHANGED <<calls, cmd, fence, fenceVars, queueVars, cv_mutex, item,
                   last_flush_fence, current_flush_fence, level>>

\* The region has been flushed.
TickServe ==
    /\ pc[GPU] = "flush"
    /\ current_flush_fence' = flush[GPU]
    /\ flush' = [flush EXCEPT ![GPU] = 0]
    /\ Goto(GPU, "tick")
    /\ UNCHANGED <<calls, cmd, fence, fenceVars, queueVars, cv_mutex, item,
                   flush_requests, last_flush_fence, level>>

TickDone ==
    /\ pc[GPU] = "tick"
    /\ flush_requests = <<>>
    /\ IF item.kind = "SubmitList"
       THEN BeginPush(GPU, "OnCommandListEnd")
       ELSE Goto(GPU, "store") /\ UNCHANGED cmd
    /\ UNCHANGED <<calls, fence, flush, fenceVars, queueVars, cv_mutex, item, flushVars, level>>

SignalFence ==
    /\ pc[GPU] = "store"
    /\ signaled_fence' = item.fence
    /\ item' = None
    /\ Goto(GPU, "pop")
    /\ UNCHANGED <<callVars, last_fence, queueVars, cv_mutex, flushVars, level>>

RunThread ==
    \/ FirstCommand \/ PopWait \/ PopEmpty \/ WaitCheck \/ WaitBlock
    \/ RunSubmitList \/ RunOther
    \/ TickTake \/ TickServe \/ TickDone
    \/ SignalFence
    \/ PushCommand(GPU)

-----------------------------------------------------------------------------
(* Shutdown: wait until the GPU is idle, stop the services and with them   *)
(* the producers, then end the GPU thread and join it.                     *)

\* WaitIdle spins without effect, so Main may as well spin from the start.
WaitIdle ==
    /\ pc[Main] = "waitidle"
    /\ last_fence <= signaled_fence
    /\ Goto(Main, "stop")
    /\ UNCHANGED <<callVars, fenceVars, queueVars, cv_mutex, item, flushVars, level>>

EndProcessing ==
    /\ pc[Main] = "stop"
    /\ \A p \in Producers : pc[p] = "idle"
    /\ BeginPush(Main, "EndProcessing")
    /\ UNCHANGED <<calls, fence, flush, fenceVars, queueVars, cv_mutex, item, flushVars, level>>

Join ==
    /\ pc[Main] = "join"
    /\ pc[GPU] = "ended"
    /\ Goto(Main, "gone")
    /\ UNCHANGED <<callVars, fenceVars, queueVars, cv_mutex, item, flushVars, level>>

-----------------------------------------------------------------------------

\* Guest memory is read by the cores and by the services of the timer thread.
FlushRegion(p) ==
    \/ FlushRegionQueued(p)
    \/ FlushRegionSkipped(p)
    \/ FlushRegionWaits(p)
    \/ FlushRegionReturns(p)

Next ==
    \/ SubmitList
    \/ SwapBuffers
    \/ \E p \in Cores \cup {Timer} : FlushRegion(p)
    \/ \E p \in Producers : PushCommand(p)
    \/ RunThread
    \/ SpuriousWake
    \/ WaitIdle \/ EndProcessing \/ PushCommand(Main) \/ Join

\* The host schedules its threads: a call that has begun goes on and the GPU
\* thread keeps running.  Nobody has to make another call or shut down, and a
\* condition variable need not wake by itself.
Fairness ==
    /\ \A p \in Producers : WF_vars(PushCommand(p))
    /\ \A p \in Cores \cup {Timer} : WF_vars(FlushRegionReturns(p))
    /\ WF_vars(PushCommand(Main))
    /\ WF_vars(RunThread)

Spec == Init /\ [][Next]_vars /\ Fairness

-----------------------------------------------------------------------------

\* Every variable has its type.
TypeOK ==
    /\ pc \in [Threads -> {"idle", "spin", "gone"} \cup PushSteps \cup GPUSteps \cup MainSteps]
    /\ calls \in 0..MaxCalls
    /\ cmd \in [Threads -> Kinds \cup {None}]
    /\ fence \in [Threads -> Nat] /\ flush \in [Threads -> Nat]
    /\ last_fence \in Nat /\ signaled_fence \in Nat
    /\ queue \in Seq(Containers)
    /\ size \in Nat
    /\ write_lock \in Threads \cup {None}
    /\ cv_mutex \in BOOLEAN
    /\ item \in Containers \cup {None}
    /\ flush_requests \in Seq(Nat)
    /\ last_flush_fence \in Nat /\ current_flush_fence \in Nat
    /\ level \in Levels

\* Where each thread can be, and what it pushes there.
PcInv ==
    /\ pc[GPU] \in PushSteps \cup GPUSteps
    /\ pc[Main] \in PushSteps \cup MainSteps \cup {"gone"}
    /\ \A p \in Producers : pc[p] \in PushSteps \cup {"idle", "spin"}
    /\ \A t \in Threads : pc[t] \in PushSteps => cmd[t] \in Kinds

\* The locks, and the size, which counts the elements that are linked except the
\* one whose producer has not got so far.
QueueInv ==
    /\ \A t \in Threads : write_lock = t <=> pc[t] \in {"size", "fence", "notify"}
    /\ cv_mutex <=> pc[GPU] = "block"
    /\ Len(queue) = IF \E t \in Threads : pc[t] = "size" THEN size + 1 ELSE size

\* What the GPU thread has in its hands.
ItemInv ==
    /\ item = None <=> pc[GPU] \in {"first", "pop", "lock", "block", "wait"}
    /\ pc[GPU] \in PushSteps \cup {"tick", "flush", "store"} => item.kind # "EndProcessing"

\* Flushes are requested, taken and served in the order of their fences.
FlushInv ==
    /\ current_flush_fence <= last_flush_fence
    /\ \A i \in DOMAIN flush_requests :
        /\ current_flush_fence < flush_requests[i]
        /\ flush_requests[i] <= last_flush_fence
        /\ pc[GPU] = "flush" => flush[GPU] < flush_requests[i]
        /\ \A j \in DOMAIN flush_requests : i < j => flush_requests[i] < flush_requests[j]
    /\ pc[GPU] = "flush" =>
        current_flush_fence < flush[GPU] /\ flush[GPU] <= last_flush_fence

\* No wake-up is lost between the lockless size and the condition variable:
\* when the GPU thread waits, or is past the predicate and about to wait, and
\* an element has been counted, its producer has still to notify, and cannot
\* do so before the wait has begun (threadsafe_queue.h, the comment "Acquire
\* the mutex and then immediately release it as a fence").
NoLostWakeup ==
    pc[GPU] \in {"block", "wait"} /\ size > 0 =>
        \E t \in Threads :
            /\ write_lock = t
            /\ pc[t] = "fence" \/ (pc[t] = "notify" /\ pc[GPU] = "wait")

\* The inductive invariant from which the safety of this module is proved: the
\* types, the locks and the count of the queue, the command in hand, the order of
\* the flushes, and the wake-up that is never lost.
IInv == TypeOK /\ PcInv /\ QueueInv /\ ItemInv /\ FlushInv /\ NoLostWakeup

\* A core that spins for its flush is released only when the GPU thread has
\* flushed that very region, whatever other flushes were requested and served
\* around it (GPU::RequestFlush, GPU::TickWork).
FlushBeforeReturn ==
    \A p \in Producers :
        /\ pc[p] = "spin"
        /\ flush[p] <= current_flush_fence
        => /\ \A i \in DOMAIN flush_requests : flush_requests[i] # flush[p]
           /\ ~(pc[GPU] = "flush" /\ flush[GPU] = flush[p])

\* The queue and RunThread implement the abstract order of commands.
Fifo == INSTANCE CommandFifo WITH
    Commands <- Containers,
    EndCommands <- [kind : {"EndProcessing"}, fence : Nat],
    Nothing <- None,
    pending <- queue,
    current <- IF pc[GPU] = "ended" THEN None ELSE item,
    stopped <- pc[GPU] = "ended"

\* Commands are executed in the order in which they were linked, none is lost,
\* duplicated or made up, and each is executed in the end (MPSCQueue::Push and
\* PopWait, RunThread).
ImplementsFifo == Fifo!Spec

\* A core that waits for a flush goes on: the tick it pushed, or an earlier one,
\* serves its request (ThreadManager::FlushRegion).
FlushReturns == \A p \in Producers : pc[p] = "spin" ~> pc[p] = "idle"
=============================================================================
