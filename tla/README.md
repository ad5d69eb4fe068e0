# Formal models of the yuzu emulator's core

The repository is an emulator of a game console. Its own core, and the part
where mistakes are hard to find by testing, is the machinery that runs a guest
system on many host threads: the *HLE kernel* under `src/core/hle/kernel`, the
CPU manager and the timer thread that drive it, the thread of the GPU, and the
services between them. This directory holds TLA+ models of that machinery, TLC
configurations for small instances, and TLAPS proofs. Paths below are relative
to the repository's `src/`.

## Inventory

| Component | State | Operations | Interaction |
|---|---|---|---|
| Synchronization objects (`synchronization*.cpp`, `readable_event.cpp`) | `is_signaled`, waiting lists | `WaitFor`, `SignalObject`, `Signal`, `Clear`, `Reset` | called by guest system calls and by services on host threads; resumes threads |
| Threads (`thread.cpp`) | status, signaling object and result, cancellation flags, mutex waiters, priorities, core and mask | `Start`, `Stop`, `Sleep`, `CancelWait`, `ResumeFromWait`, `OnWakeUp`, `SetPriority`, `SetActivity`, `SetCoreAndAffinityMask`, yields | every status change goes to the global scheduler |
| Time manager, CoreTiming | event queue, `cancelled_events`, pause flags and events | schedule, unschedule, cancel; `Advance` pops an event and runs its callback with the queue unlocked; `SyncPause` | callbacks wake threads, run services and deliver interrupts |
| Mutexes, condition variables (`mutex.cpp`, `process.cpp`, `svc.cpp`) | mutex word in guest memory, `lock_owner`, `wait_mutex_threads`, condition variable lists | `TryAcquire`, `Release`, `WaitProcessWideKeyAtomic`, `SignalProcessWideKey`, priority inheritance | the word is shared with guest code |
| Address arbiter | word in guest memory, list per address | three kinds of wait, three kinds of signal | the word is shared with guest code, also while the kernel holds its lock |
| Global scheduler (`scheduler.cpp`, `multi_level_queue.h`) | scheduled and suggested queue per core, selected thread per core | `SelectThreads`, load balancing, yields, preemption, adjustment to status, priority and mask | runs at every release of the lock, hands each core its selection, interrupts it |
| Per-core scheduler, fibers, interrupts | selection, current thread, pending switch, `context_guard`, fiber guards, interrupt flag and event | `TryDoContextSwitch`, `SwitchContext`, `SwitchToCurrent`, `YieldTo`, `Interrupt` | follows the selection outside the scheduler lock |
| CPU manager, `System`, frontend's `EmuThread` | `is_running`, `is_paused`, two barriers per core, `running_guard` | pause, resume, stop | spins and events between the user interface, the emulation thread, the timer thread and the cores |
| GPU thread, `MPSCQueue` | queue, size, fences, flush requests | push, pop or wait, flush, `WaitIdle`, shutdown | fed by cores, services and the display |
| Syncpoints and nvdrv events | syncpoint, registered interrupts, state and value per event | count, register, cancel, wait, poll, signal | GPU thread, timer thread and guest threads through IPC |
| IPC, handle tables, resource limits, memory | sessions, handles, reservations, blocks | requests and replies, create and close, map and unmap | |
| Other services, audio, file systems, loaders, input | | | users of the above |

What is hard: signals race with waits because `Signal` sets its flag outside
the lock; wake-ups from several objects, a timer and a cancellation race with
one another; a popped time event outlives the wait it was for; the mutex word
and the arbiter's word are changed by guest code without the kernel; priority
inheritance recurses through sorted lists; load balancing moves threads while
threads are being selected; a core switches in a dozen steps while its
selection changes; pausing talks through flags that are read one at a time; a
queue counts its elements without the mutex of its condition variable; the GPU
counts before it takes the mutex under which waits register. `PROJECT.json`
lists these hazards by line.

What makes each component correct: no wake-up is lost and none hits the wrong
wait; a wait reports the result of its first waker; the owner in a mutex word
and the kernel's lists describe the same situation; a thread runs at the
priority its waiters give it; the queues of the scheduler hold exactly the
runnable threads, and a core is not left idle without need; a fiber is on one
core and a core ends up with what was selected for it; nothing runs while the
system is paused, and everything resumes; commands to the GPU are executed in
order; an event for the GPU is signaled when its value is reached, not before.

## Modules

All modules share some conventions. A block under `SchedulerLock` is one
step; code outside the lock is cut at every access to shared state. A thread
that gives itself a waiting status stops after the block and continues only
when its status is `Ready`. Assertions only log (`common/assert.h`), so the
program goes on after them, as do the models. Handles are the objects
themselves, and arguments that the validation at the head of a system call
refuses are not passed. Operators named `Fault...` are deliberately wrong
variants of the definition after them; no specification uses them. Each shows,
put in place of the right one, that some property notices that mistake.

**`Synchronization`** — `WaitFor`, `SignalObject`, events, threads as objects,
`Sleep`, `CancelWait`, exit, and the time events of `TimeManager` and
`CoreTiming`. `ReadableEvent::Signal` is three steps (test, set, locked
`SignalObject`); `WaitFor` is a locked block, then the unlocked clearing of
`is_waiting_on_sync`, the two halves of `UnscheduleTimeEvent`, and the second
locked block; `Advance` is two steps, the pop and the callback. Time is
abstract: a queued event may expire at any moment. Actors are guest threads
and host threads of services. `StartThread` is called on dormant threads only,
as `svc.cpp` asserts. The pausing of threads is left out here, and
`IsPendingTermination`, whose flag nothing sets.

**`SynchronizationProofs`** — its inductive invariant and theorems.

**`Mutex`** — kernel mutexes, condition variables and priority inheritance.
The nested calls of the code (`Unlock` → `TransferMutexOwnership` →
`RemoveMutexWaiter` → `UpdatePriority` → ...) are functions on one record with
the kernel's state. `UpdateChain` bounds the recursion of `UpdatePriority` by
the number of threads, which the proofs show never ends a walk early;
`UpdateLink` is one call of it. The guest's lock and unlock sequences (compare-and-swap,
flag, system call, look again) are not in the repository; they are modelled
from how `mutex.cpp` interprets the word, and marked external. Chains may form
cycles when the guest deadlocks. A holder in a mutex word is always a thread
that exists, so `TryAcquire` does not return `ERR_INVALID_HANDLE`
(`mutex.cpp:102`).

**`MutexProofs`** — its inductive invariant and theorems.

**`AddressArbiter`** — the three waits and three signals. The exclusive
read/write loops compare again on retry and are atomic;
`WaitForAddressIfLessThan` reads twice, and is cut between the reads with the
lock held, because guest stores do not respect that lock. Words range over
`MinWord..MaxWord`, far from the limits of the 32-bit type; operations that
would leave the range are not taken.

**`GlobalScheduler`** — queues and selection for any number of cores. A
multi-level queue is the sequence its iterators follow, each entry with its
level. All functions of the class are functions on a record of queues, cores
and priorities; each action ends in `SelectThreads`, as each release of the
lock does. (`is_reselection_pending` is set by the first status change and
never reset, so selection is unconditional.) `last_running_ticks` only matters
by comparison and is chosen freely. `running` is what the cores execute: it
follows the selection in two steps, `SwitchOut` and `SwitchIn`; so paused or
migrated threads still enter the kernel.

**`CoreScheduler`** — what `SwitchOut` and `SwitchIn` abstract, in full, and
composed with the selection: it instantiates `GlobalScheduler` and uses its
operators for the queues and for `SelectThreads`. An actor (a guest thread on
its core, or a host thread) changes a thread under the scheduler's lock; the
selection is handed to the cores one by one, each under that core's guard; the
lock is released; the cores are interrupted, each in two halves (event, then
flag, under the guard of the physical core). A core leaves guest code or its
idle loop, clears the interrupt, tests for a pending switch, releases the
`context_guard`, yields to its switch fiber, takes its selection, takes the
`context_guard` of the thread, checks it, and yields to its fiber, which may
begin with another switch. A fiber has a guard, held by the core on it. A
thread yields in any of the three ways of `svcSleepThread`; the last of them
leaves it without a core while its fiber is still on one, until that core
switches.

**`SystemPause`** — the user interface (`SetRunning`, `RequestStop`), the
emulation thread (`EmuThread::run` with `System::Run`, `Pause` and
`Shutdown`), the timer thread's loop and the host thread of each core.
`Common::Event` is an auto-reset flag. The loops of `MultiCorePause` read or
set one core at a time; a core that fails the test makes the scan start again,
which is what the code's loop amounts to. Which thread a core runs is reduced
to guest or suspend thread. `svcBreak` on any core may end in
`KernelCore::ExceptionalExit`: the suspend threads become ready, and
`exception_exited` keeps them so when `System::Run` calls `Suspend(false)`.

**`GPUThread`** — `ThreadManager` and its queue. `PushCommand` is: read and
write of `last_fence` (a plain integer, outside any lock), then under
`write_lock` link, count, fence, notify. `PopWait` is: look at the size, lock,
look again, wait. `RunThread` executes commands; a submitted list pushes
`OnCommandListEnd` from the GPU thread itself and may tick; a tick takes flush
requests with the mutex and serves them without. `Main` waits until the GPU is
idle, stops the producers and ends the thread, as `System::Shutdown` does. The
condition variable may wake spuriously.

**`CommandFifo`** — the abstract specification of that queue and thread:
commands are accepted, begun and finished one at a time in their order, every
accepted one is executed unless the end comes first, and nothing after the
end. `GPUThread!Fifo` is the refinement mapping: the linked elements are
pending, the command in `RunThread` is current.

**`NvEvents`** — how a guest thread waits for the GPU: a request over IPC,
handled on the timer thread by `nvhost_ctrl`; if the value is not reached the
event is armed and the interrupt registered, both under `sync_mutex`; a
synchronous wait then puts the client to sleep on the event (`must_delay`,
`SleepClientThread`), and on waking it repeats the request on its own core.
The GPU counts, then looks at the registered values under the mutex; the
interrupt is an event of the timer thread, which walks over the nvdrv events.
One syncpoint is modelled, as they do not interact; an event belongs to one
guest thread; `Free` and `Registered` are not told apart, for the code treats
them alike. The variables `asked` and `withdrawn` are auxiliary; a
value is `withdrawn` from its cancellation until an event waits for it again.

**`NvEventsProofs`** — its inductive invariant and theorems.

**`SystemPauseProofs`, `GPUThreadProofs`, `AddressArbiterProofs`,
`GlobalSchedulerProofs`, `CoreSchedulerProofs`** — the theorems about those
modules.

`MC...` modules define the instances.

## Runs

| Run | Instance | Checks |
|---|---|---|
| `synchronization` | 2 threads, 1 event, every wait on the event and on a thread, possibly itself; fairness | inductive invariant (lists, results, time events), no lost signal, first waker wins, the dead stay dead, timed waits end, signals wake |
| `sync_early_timeout` | 2 threads, 1 host, 1 event | a time-out only after the wait's own event: violated |
| `mutex` | 3 threads, 1 mutex, 1 condition variable, 2 priorities | inductive invariant (words, lists, flags, calls), mutual exclusion, no orphaned mutex, waiters served |
| `mutex_inheritance` | 3 threads, 2 mutexes, 3 priorities | exact priorities along chains and cycles of owners |
| `arbiter` | 3 threads, 2 addresses used differently, words 0..1, all types | inductive invariant (lists, results, the two reads), results of waiters that were picked, no lost wake-up where signals wake all |
| `scheduler` | 2 threads, 2 cores, all masks, priorities 1, 2, 3 | inductive invariant, queues against threads and masks, selection |
| `scheduler_balance` | 3 threads, 3 cores, bound or free threads | no core idle in vain |
| `core_scheduler` | 2 threads, 2 cores, a host, 4 calls; fairness | inductive invariant, one core per fiber, no lost interrupt, settled cores run the selection, "Thread must be runnable.", cores settle |
| `pause` | 2 cores, 3 requests and a stop at any moment; fairness | inductive invariant, no guest code and no callback while paused, `SyncPause` returns, cores resume unless the guest broke execution |
| `set_running_returns` | 1 core, 5 requests; fairness | `SetRunning(false)` returns: violated |
| `gpu_thread` | 3 producers, 2 calls, 2 accuracy levels, shutdown; fairness | inductive invariant, no lost wake-up, flush before return, flushes return, refinement of `CommandFifo` with its liveness |
| `nv_events` | 2 guests, values 1, 2; fairness | inductive invariant, waiting events are served, no overdue interrupt, a signal means reached, sleepers wake |

Why these bounds: a race of the wait protocol needs a waiter, a second waker
and the timer; the two threads are waiter and waker in turn, hosts and other
lists are covered by the proofs. An inheritance chain with a middle needs three
threads and two mutexes; a misplaced queue entry needs one thread and two
levels, and the selection's second and third steps need a core with two
threads beside an idle one, which three threads on three cores give twice
over. In `scheduler` priority 1 is too urgent for migration and 2 is the
preempted one on the first core; `scheduler_balance` has no urgent threads, so
nothing excuses an idle core there. In `core_scheduler` two calls start the
threads and two more block, pause, wake or migrate one while it is being
switched to; both threads may run on both cores, so one can be selected for
the core that the other is just leaving. In `pause` three requests are start,
pause, start; the finding needs two more. In `gpu_thread` two commands from
outside and the ones they cause are enough for an empty, a filling and a
non-empty queue with two producers at once; fences and the queue are
unbounded in the model and bounded by the calls. In `arbiter` the addresses
have the two kinds of use: on one, threads wait for equality and every signal
wakes all, on the other words are decremented and signals may wake one thread
only. `NoLostWakeup` is about the first kind; a wider range of words shows why:
a decrement changes a word that others wait on and signals nobody. In
`nv_events` both guests may wait for the same value, and the second value
separates a late signal from an early one.

Deadlock is not checked where all guest threads may legitimately be blocked
for ever or have exited (`synchronization`, mutexes, condition variables,
arbiter), or where the system ends (`gpu_thread`, `pause`, `core_scheduler`
with its bound on calls). Symmetry between threads is used in safety runs
only.

**Fairness.** `Synchronization`: a runnable thread inside a system call is
eventually scheduled and a host thread inside `Signal` goes on (weak); the
timer thread runs the callback it holds (weak), and since the queue is ordered
by deadline, an event cannot be overtaken for ever although others come between
(strong, per thread). `GPUThread`, `SystemPause`, `CoreScheduler`: every host
thread keeps running, that is weak fairness of each thread's own steps; a
mutex that is free again and again is not assumed to be granted. In
`CoreScheduler` this is fairness of `HostStep`, which leaves open how the
selection turns out: that a thread comes out of `SelectThreads` is assumed,
not what it selects. `NvEvents`:
the same, and strong fairness of the delivery of each interrupt, for the timer
thread handles its events in the order of their times. Guest code and the user
are under no obligation: nothing makes a thread start a call, a guest thread
stop, or anybody shut the system down.

### What the violated runs show

`sync_early_timeout`: `Advance` pops an event and runs its callback unlocked.
If the thread was woken in between and is in its next timed wait, scheduling
that wait has cleared the mark that cancelled the old event, and the old
callback ends the new wait early.

`set_running_returns`: after a resume a core clears `is_paused` only when it
has passed its exit barrier, and nobody waits for that. A pause that follows
at once reads the old flag and returns although the core goes on to run. The
emulation thread then believes in a pause that the core has not made; the next
resume and pause wait for flags that nobody changes, `running_guard` stays set,
and the user interface spins in `SetRunning(false)`, below the comment "Wait
until effectively paused".

### What the models also contain

These behaviours are in the models and were seen in traces of TLC; no run
states a property about them.

* `ReadableEvent::Acquire` asserts that the event is signaled; it may have been
  cleared between the wake-up and the second locked block of `WaitFor`.
* A `Signal` whose flag is cleared before it takes the lock wakes nobody, so
  "waking up all its waiting threads" (`synchronization.h:31`) holds only for
  signals that are not withdrawn; that is how `SignalWakes` states it.
* `WaitForAddressIfLessThan` compares one read of the word and decrements
  another, so it may decrement a word that is not less than its argument.
* A core waits for the `context_guard` of the thread it was to run, although
  that thread has meanwhile been moved and runs on another core; it does not
  look at its selection before the guard is free. `CoresSettleOrWait` has this
  as its only exception.
* `++state.last_fence` is not atomic and precedes the queue's lock. Two
  commands may get one fence, or be queued against the order of their fences:
  `WaitIdle` then returns while a command is pending, or compares with a fence
  that is never signaled last and does not return. Execution order and flushes
  do not depend on fences, as `ImplementsFifo` and `FlushBeforeReturn` show.
* An emulation that is stopped before it ever ran: `Shutdown` lets the cores
  in to have their host threads end, they enter guest code, and nothing pauses
  them, so that joining them does not end.
* A value is registered once for all events that wait for it. Cancelling one
  ("It is believed from RE to cancel the GPU Event", `nvhost_ctrl.cpp:161`)
  withdraws the interrupt of the others, which are left to their timeouts; it
  is the exception in `WaitingIsServed` and `SleeperWakes`.

A syncpoint wraps after 2^32 counts. `IocCtrlEventWait` compares by signed
difference and tolerates that, `IncrementSyncPoint` compares unsigned values:
an interrupt for a small value beyond the wrap triggers at the next count, too
early. `NvEvents` bounds the count and does not reach this.

## Proofs

`SynchronizationProofs` proves, for every set of threads, hosts and events and
all wait lists (assumption `ConstantsAssumption`: the sets are disjoint and
`None` is in none of them), `Spec => []IInv` and from it all safety properties
and both action properties of the run `synchronization`.

The properties are not inductive alone. `NoLostSignal` needs to know that a
blocked thread is at `waiting` with its list (`ControlInv`) and in the lists of
all its objects (`BlockedIsListed`), for `SignalObject` empties the list of the
object; that in turn needs `ListedIsWaiting`, which ties list entries to the
current call. `FirstWakeWins` and `SignalerIsAwaited` need that a blocked thread
still has the result it was given when it fell asleep (`BlockedResult`). The
time properties rest on `LiveCallback`: a callback in flight that is not
cancelled belongs to a timed call of its thread that has not reached its second
block. That is exactly what survives the race with a popped event: it allows a
wait to end early (the finding) but not a wait without timeout to time out
(`ForeverResult`), nor a thread that has exited to be woken. The proof has one
lemma per action, each split by conjunct of `IInv`.

`NvEventsProofs` proves `Spec => []IInv` and the three safety properties of
`nv_events` for every set of guest threads and every bound on the count
(assumption `NvEventsAssumption`: the bound is positive and `None` is no
value). `WaitingIsServed` survives the delivery of an interrupt because the
walk over the events keeps those it has not visited (`OnItsWay`), and the
registration of a value because registering and arming are one section under
the mutex. `NoOverdueInterrupt` is where that mutex matters: a value is
registered only if it is not reached, and the GPU that has counted since still
has to look. `SignalMeansReached` needs that an interrupt on its way is for a
value that was reached (`SentIsReached`) and that an event is armed for the
value it was last asked for, or has since been asked for a reached one
(`AssignedIsAsked`); `RequestUnderWay` gives the repeated request of a woken
thread its value. There is one lemma per action; the wait handled by the
service and the one repeated by the guest thread share one.

`SystemPauseProofs` proves `Spec => []IInv` and the two safety properties of
`pause` for every number of cores and of requests (`SystemPauseAssumption`).
`NoGuestWhilePaused` says what the flags mean when it matters: `SyncInv` ties
`paused`, `paused_set` and the position of the timer thread to the half of
`SyncPause` that is under way, `BranchInv` the emulation thread to the branch
of `MultiCorePause` it is in, and `HostInv` says that a core that has raised
`is_paused` has its suspend thread current, which stays so while `Suspend`
lasts. The stale `is_paused` of the finding is compatible with all of it: it
misleads the emulation thread's waiting, not the cores, since the pause has
made the suspend threads ready before it reads the flags. For
`NoCallbackWhilePaused` the time between the two calls of `SyncPause` has to be
named: `TimerHeld` is the rest of `System::Pause`, the paused system with the
emulation thread anywhere in its loop, `System::Run` up to its `SyncPause`, and
`Shutdown` of a paused system. `BranchInv` says that `paused` holds throughout,
and that the calls which begin in a running system find `paused_state` false.
A guest that breaks execution changes nothing of this (`ExceptionFrame`), since
it only adds to what `Suspend` asks for. `PausedInv` has the
second case that a proof attempt brought to light: a system may count as
paused because it never ran, with the cores before their enter barriers.

`GPUThreadProofs` proves `Spec => []IInv`, `NoLostWakeup`, `FlushBeforeReturn`
and `Spec => Fifo!Safety`, the safety half of the refinement of `CommandFifo`,
for every set of producers, number of calls and accuracy level, with fences
and queues of any size (`GPUThreadAssumption`: the threads are distinct, and
`None` is neither a thread nor a command). `QueueInv` counts: the size is the
number of linked elements except the one between link and count, and there is
at most one since the lock is held. With it the consumer, which looks at the
size only, never takes the element of an empty queue. `NoLostWakeup` is
inductive with it, because the producer's lock-and-release of `cv_mutex` cannot
happen between the consumer's look and its wait. `FlushInv` keeps requested,
taken and served flushes in the order of their fences, so that a core whose
fence is passed by `current_flush_fence` has its own request behind it. The
refinement goes action by action: linking is `Accept`, popping `Begin`,
signalling the fence `Finish`, everything else a stutter.

`AddressArbiterProofs` proves `Spec => []IInv`, `PickedReportsSuccess` and
`NoLostWakeup` for every set of threads and addresses, any range of words, any
wait types and targets of signals per address (`ArbiterAssumption`). `ListInv`
ties list membership, `waiting_for_arbitration` and the address of the call
together, and needs that insertion by priority and removal keep the lists free
of duplicates and lose no other thread; these are the lemmas on `InsertThread`
and `RemoveThread`. `DecrementInv` carries `NoLostWakeup` over the two reads of
`WaitForAddressIfLessThan`: a store may come between them, its signal may not.
The attempt at the proof corrected the property: a decrement is a store
without a signal, so an address on which words are waited for by equality and
decremented too is excluded by `WakesAll`.

`GlobalSchedulerProofs` proves `Spec => []IInv`, `QueuesMatchThreads`,
`SelectedIsFront` and `NoIdleInVain` for every set of threads, number of cores, set of priorities
and of requests (`SchedulerAssumption`). The lemmas go from the queue upwards:
`add` and `remove` keep a queue sorted and every other thread in it
(`AddFacts`, `RemoveFacts`); placing and displacing a thread keep the others
(`PlaceFacts`, `DisplaceFacts`); a move to a core of the mask, or to none, keeps
the agreement of all queues with all threads and changes the fronts as
`SelectThreads` expects (`TransferFacts`); so do its rounds, from which the
result of its loop follows through the first round that would not
(`SelectThreadsMatch`), and likewise those of `PreemptThreads`. `UnlockInv` is
the common end of all actions: whatever an operation did, if its queues match
the threads as they are then, the invariant holds after the selection. That a
thread which yields has a core is not evident, since
`YieldThreadAndWaitForLoadBalancing` leaves its caller without one: it holds
because such a thread no longer executes (`RunningHasCore`). `NoIdleInVain` is
about what the loop of `SelectThreads` has achieved for the cores it has
passed. A round that leaves its core idle has looked at every thread that could
run there, and each is alone on its core, or some core has a top thread too
urgent to leave it (`OwnRoundExcused`). The later rounds keep this: they take no thread
from a core that has only one, and a thread too urgent for migration stays the
top thread of some core (`LaterRoundExcused`).

`CoreSchedulerProofs` proves `Spec => []IInv` and the four safety properties of
`core_scheduler` for every set of threads, masks, priorities and number of
cores and calls (`CoreSchedulerAssumption`: the fibers are distinct, and so are
the host, the cores and `None`). The queues come from the lemmas of
`GlobalSchedulerProofs`, instantiated as `CoreScheduler` instantiates the
module; the lemmas named `Same...` say that the operators of the two instances
are the same, and `AdjustKernel`, `YieldKernel` and `SelectKernel` carry the
facts over. The rest of the invariant is about the cores. `RunsCurrentThread`
follows from where a core is in the code: `FiberInv` gives its fiber and
`ContextGuardInv` the guard it holds, both ways round, so that no second core
can have the same thread between `LockContext` and `SwitchContext`. This is
also why `MustBeRunnable` holds without the scheduler's lock: only a thread
itself gives up the status `Runnable`, it does so as the current thread of a
core in guest code, and that core would have its guard (`CheckedInv`); its pause
flag may change, which is why the assertion speaks of the status only.
That a thread which yields has a core needs an invariant of its own, as
`YieldThreadAndWaitForLoadBalancing` takes it away: `HomelessInv` says that a
core on the fiber of such a thread has another selection, or is about to get
one, and switches before the thread calls the kernel again; `SelectingInv`,
that what was selected stays on its core while the selection is handed out,
which is the assertion of `scheduler.cpp:134`.
`NoLostInterrupt` is not inductive for a core that sleeps. Between the two
halves of an interrupt the core may take the event, find nothing to switch and
sleep again; if a switch then becomes pending, the half that is left would not
wake it. `InterruptInv` therefore does not count an interrupt that is half done:
whoever made the switch pending still has the core in its own set.

`MutexProofs` proves `Spec => []IInv`, `HeldIsOwned`, `OwnerKnows`,
`WaitersAreServed`, `BlockedIsListed` and `PriorityInherited` for any threads
(finitely many), mutexes, condition variables, priorities and signal targets
(`MutexAssumption`). The kernel's nested calls are functions on one record, so
the lemmas are about kernel states. `Sound` says that the lists agree with
`lock_owner` and the condition variable addresses, `Moves` that a call changes
the owner of one thread and keeps everything else except priorities and the
order of lists. `UpdatePriority` keeps all of that: one link of the chain does
if the calls for the next link do (`UpdateLinkFacts`), and a shortest chain
that did not would have a shorter one before it. With that, `AddMutexWaiter`
and `RemoveMutexWaiter` do what their names say; the assertions at their
beginning (`thread.cpp:324`, `thread.cpp:341`) are hypotheses of these lemmas
and are discharged wherever the code calls them. The loops of
`TransferMutexOwnership` and `SignalProcessWideKey` follow by the first round
that would fail. `Good` is the invariant of a kernel state with the threads'
positions; `UnlockGood` and `SignalOneGood` are the two hand-offs. `CallInv` is
the strengthening: a thread with an owner or in the list of a condition
variable is in the call that put it there, about the same mutex, and a wait for
a condition variable that still has either has not been told that it succeeded.
So an expired wait that a signal has given the mutex reports success, and one
that reports a timeout is in no position to own it.

`PriorityInherited` is about where the recursion of `UpdatePriority` arrives,
and cycles of owners keep that recursion from being well-founded. Its proof is
by a measure of its own. A call for a thread t whose priority changes calls
`UpdatePriority` for the owner of t up to three times: after t has left the
owner's list, after it has been inserted again, and at the end. The first call
lets only threads fall that ran where t did, the second raises only threads
less urgent than t now is, and the third finds its thread settled and changes
nothing. So the number of threads at the old priority decreases along a chain
that falls, and the number of threads less urgent than the new priority along
one that rises (`Enough`, `ChainSettles`). Both are at most the number of
threads, so if all threads but one are settled, `UpdatePriority` for that one
settles them all (`UpdatePrioritySettles`); and the bound of `UpdateChain` is
reached only by calls that find their thread settled already, where the code
returns too, so that the model loses no step of the code's recursion. The lemmas named
`...Settles` carry this through every operation that changes a nominal priority
or an owner, up to `NextSettles`.

TLC checks all inductive invariants on the instances as well. What `First`
returns for a non-empty set of positions is derived from the well-foundedness
of the naturals (`WFMin`), the only induction over data that the provers can
use: as a fact about a given set, not as a scheme.

Every invariant and every action property that a run expects to hold is also a
theorem. Only model-checked: the liveness properties (`TimedWaitEnds`,
`SignalWakes`, `CoresSettleOrWait`, `SyncPauseReturns`, `CoresResume`,
`FlushReturns`, `SleeperWakes`), and with them the fairness half of the
refinement; liveness under fairness is out of the prover's reach.

## Not modelled, and the plan

* Single-core emulation (`Unload`, `Reload`, the rotation of cores on one host
  thread): no two cores run at a time, so the races modelled here do not occur.
* nvflinger's buffer queue: `NVFlinger::Lock()` returns a lock that its callers
  drop, so composer and services use the same standard containers without
  exclusion. That is undefined behaviour, and a model of its outcomes would be
  an invention. The wait of `DequeueBuffer` has the shape of `NvEvents`, but
  with signaller and sleeper on different threads.
* Shader translation, rasterisation, audio processing, CPU emulation, file
  systems, loaders, cryptography, input drivers, most services, the windows of
  the frontends, vendored code: data-heavy or sequential code, or device I/O;
  `PROJECT.json` gives the reason for each.
* 32-bit wrap of syncpoints and of the arbiter's words.

What could follow, in this order: `HandleTable` and process termination, where
callbacks meet closed handles; the memory block manager against a map from pages to states;
the release of buffers in audio streams.
