--------------------------- MODULE GlobalScheduler ---------------------------
(***************************************************************************)
(* Kernel::GlobalScheduler: which thread each emulated core is to run.     *)
(* Every core has a queue of the threads scheduled on it and a queue of    *)
(* the threads suggested to it: those that may run there but are placed    *)
(* elsewhere.  Threads change status, priority and affinity, they yield,   *)
(* and a timer preempts them.  All of it happens under the scheduler lock, *)
(* and releasing the lock selects the threads again, so each operation is  *)
(* one step that ends in SelectThreads.                                    *)
(*                                                                         *)
(* is_reselection_pending is set by the first status change and is never   *)
(* reset, hence SelectThreads always selects.                              *)
(*                                                                         *)
(* The selection reaches a core late: running[core] is the thread that     *)
(* executes there, which may by now be paused or placed on another core.   *)
(*                                                                         *)
(* Operators named Fault... are deliberately wrong versions of the         *)
(* definition that follows them, used by no specification: see module      *)
(* Synchronization.                                                        *)
(***************************************************************************)
EXTENDS Integers, FiniteSets, SequencesExt

CONSTANTS
    Threads,
    NumCores,              \* Core::Hardware::NUM_CPU_CORES
    Priorities,            \* the lower the number, the more urgent
    MaxCoreMigration,      \* THREADPRIO_MAX_CORE_MIGRATION, min_regular_priority
    PreemptionPriorities,  \* preemption_priorities
    FirstCores,            \* the cores that threads are created on
    Requests,              \* the arguments of svcSetThreadCoreMask
    NewPriorities,         \* the priorities that threads change to
    None                   \* nullptr

Cores == 0 .. NumCores - 1
NoCore == -1               \* processor_id of a thread that gave up its core
DontCare == -1             \* THREADPROCESSORID_DONT_CARE
DontUpdate == -3           \* THREADPROCESSORID_DONT_UPDATE

ASSUME SchedulerAssumption ==
    /\ NumCores \in Nat \ {0}
    /\ Priorities \subseteq Nat
    /\ PreemptionPriorities \in [Cores -> Nat]
    /\ FirstCores \subseteq Cores
    /\ Requests \subseteq [core : Cores \cup {DontCare, DontUpdate},
                           mask : (SUBSET Cores) \ {{}}]
    /\ NewPriorities \subseteq Priorities
    /\ None \notin Threads

VARIABLES
    sched,     \* the queues, and what they depend on: the fields
               \*   scheduled  scheduled_queue, for each core
               \*   suggested  suggested_queue, for each core
               \*   processor  Thread::processor_id
               \*   priority   Thread::current_priority
    affinity_mask,  \* Thread::affinity_mask
    ideal_core,     \* Thread::ideal_core
    status,         \* Thread::scheduling_state, the ThreadSchedStatus
    paused,         \* Thread::scheduling_state, ThreadPauseFlag
    selected,       \* Scheduler::selected_thread_set of each core
    running         \* the thread whose fiber runs on each core

vars == <<sched, affinity_mask, ideal_core, status, paused, selected, running>>

Statuses == {"None", "Runnable", "Paused", "Exited"}

\* Thread::IsRunnable: the status is Runnable and no flag is set.
IsRunnable(t) == status[t] = "Runnable" /\ ~paused[t]

-----------------------------------------------------------------------------
(* Common::MultiLevelQueue, as the sequence that its iterators follow: the *)
(* entries of the most urgent level first, each with the level it is in.   *)

Entry(t, p) == [thread |-> t, level |-> p]
Entries == [thread : Threads, level : Priorities]

First(positions) == CHOOSE i \in positions : \A j \in positions : i <= j

\* Fault: a new entry goes behind all levels.
FaultAtEnd(queue, t, p, send_back) == Append(queue, Entry(t, p))

\* add: behind the threads of its level, or before them.
add(queue, t, p, send_back) ==
    LET behind == {i \in DOMAIN queue : \/ queue[i].level > p
                                        \/ queue[i].level = p /\ ~send_back}
    IN InsertAt(queue,
                IF behind = {} THEN Len(queue) + 1 ELSE First(behind),
                Entry(t, p))

\* remove: the first occurrence in the level, if there is one.
remove(queue, t, p) ==
    LET found == {i \in DOMAIN queue : queue[i] = Entry(t, p)}
    IN IF found = {} THEN queue ELSE RemoveAt(queue, First(found))

front(queue) == IF queue = <<>> THEN None ELSE queue[1].thread

\* The first thread of a level that is not empty.
frontOf(queue, p) ==
    queue[First({i \in DOMAIN queue : queue[i].level = p})].thread

\* yield: the first thread of the level becomes its last.
yield(queue, p) ==
    IF \E i \in DOMAIN queue : queue[i].level = p
      THEN LET t == frontOf(queue, p) IN add(remove(queue, t, p), t, p, TRUE)
      ELSE queue

\* The loops over the suggestions: the first thread that wins, unless one
\* that stops the loop comes before it or is the same.
FirstWinner(queue, stops, wins) ==
    LET ends == {i \in DOMAIN queue : queue[i].thread \in stops \cup wins}
        first == queue[First(ends)].thread
    IN IF ends = {} \/ first \in stops THEN None ELSE first

-----------------------------------------------------------------------------
(* Placing threads *)

\* Schedule on the cores of on (one or none) and Suggest to those of to.
Place(s, t, on, to, send_back) ==
    [s EXCEPT !.scheduled = [c \in Cores |->
                               IF c \in on
                                 THEN add(@[c], t, s.priority[t], send_back)
                                 ELSE @[c]],
              !.suggested = [c \in Cores |->
                               IF c \in to
                                 THEN add(@[c], t, s.priority[t], TRUE)
                                 ELSE @[c]]]

\* Unschedule and Unsuggest, from the level of the given priority.
Displace(s, t, on, to, p) ==
    [s EXCEPT !.scheduled = [c \in Cores |->
                               IF c \in on THEN remove(@[c], t, p) ELSE @[c]],
              !.suggested = [c \in Cores |->
                               IF c \in to THEN remove(@[c], t, p) ELSE @[c]]]

\* The core that a thread is placed on, as a set.
HomeCore(s, t) == {s.processor[t]} \cap Cores

\* TransferToCore: to NoCore the thread only leaves its core.
TransferToCore(s, destination, t) ==
    LET source == HomeCore(s, t)
        moved == [s EXCEPT !.processor[t] = destination]
        target == HomeCore(moved, t)
    IN IF s.processor[t] = destination THEN s
       ELSE Place(Displace(moved, t, source, target, s.priority[t]),
                  t, target, source, TRUE)

\* The front of the queue of the core that a thread is placed on.
RivalOf(s, t) ==
    IF s.processor[t] \in Cores THEN front(s.scheduled[s.processor[t]])
                                ELSE None

\* A thread this urgent at the front of a core stops migration from it.
TooUrgent(s, t) == t # None /\ s.priority[t] < MaxCoreMigration

-----------------------------------------------------------------------------
(* SelectThreads *)

\* The state of SelectThreads: the queues, and top_threads.
FirstTops(s) == [s |-> s, top |-> [c \in Cores |-> front(s.scheduled[c])]]

\* top_threads of the core that a thread is placed on.
TopOf(r, t) ==
    IF r.s.processor[t] \in Cores THEN r.top[r.s.processor[t]] ELSE None

\* Step 2: the first suggested thread that its own core does not run, unless
\* that core runs a thread too urgent for migration.
SpareThread(r, c) ==
    FirstWinner(r.s.suggested[c],
                {t \in Threads : /\ TopOf(r, t) # t
                                 /\ TooUrgent(r.s, TopOf(r, t))},
                {t \in Threads : TopOf(r, t) # t})

\* Fault: step 3 is left out.
FaultNoDonor(r, c) == None

\* Step 3: the first thread that its own core runs, among those step 2 went
\* past, if that core has another one to run.
DonatedThread(r, c) ==
    FirstWinner(r.s.suggested[c],
                {t \in Threads : TopOf(r, t) # t},
                {t \in Threads : \E d \in HomeCore(r.s, t) :
                                   Len(r.s.scheduled[d]) > 1})

\* Fault: the donor's own core still takes it for its top thread.
FaultDonorStays(r, c) ==
    LET t == IF SpareThread(r, c) # None THEN SpareThread(r, c)
                                         ELSE DonatedThread(r, c)
    IN IF r.top[c] # None \/ t = None THEN r
       ELSE [s |-> TransferToCore(r.s, c, t), top |-> [r.top EXCEPT ![c] = t]]

\* One round of the loop over the idle cores.
FillIdleCore(r, c) ==
    LET spare == SpareThread(r, c)
        donor == DonatedThread(r, c)
        from == r.s.processor[donor]
        next == r.s.scheduled[from][2].thread
    IN CASE r.top[c] # None -> r
         [] r.top[c] = None /\ spare # None ->
              [s |-> TransferToCore(r.s, c, spare),
               top |-> [r.top EXCEPT ![c] = spare]]
         [] r.top[c] = None /\ spare = None /\ donor # None ->
              [s |-> TransferToCore(r.s, c, donor),
               top |-> [r.top EXCEPT ![c] = donor, ![from] = next]]
         [] OTHER -> r

\* The loop goes over the cores in ascending order: what each round leaves.
SelectRounds(s) ==
    LET after[n \in 0 .. NumCores] ==
          IF n = 0 THEN FirstTops(s) ELSE FillIdleCore(after[n - 1], n - 1)
    IN after

SelectThreads(s) == SelectRounds(s)[NumCores]

\* Unlock, when the operation of actor has left the queues in s.  An actor
\* that is a guest thread tries to switch context before it goes on: it
\* leaves its core if that is to run another thread.
Unlock(actor, s) ==
    LET r == SelectThreads(s)
    IN /\ sched' = r.s
       /\ selected' = r.top
       /\ running' = [c \in Cores |->
                        IF running[c] = actor /\ r.top[c] # actor
                          THEN None ELSE running[c]]

-----------------------------------------------------------------------------
(* Status, priority and affinity of a thread *)

\* AdjustSchedulingOnStatus
AdjustSchedulingOnStatus(t, was, is) ==
    LET home == HomeCore(sched, t)
        others == affinity_mask[t] \ home
    IN CASE was /\ ~is -> Displace(sched, t, home, others, sched.priority[t])
         [] ~was /\ is -> Place(sched, t, home, others, TRUE)
         [] OTHER -> sched

\* SetSchedulingStatus, AddSchedulingFlag and RemoveSchedulingFlag.
SetSchedulingState(actor, t, newStatus, newPaused) ==
    /\ status' = [status EXCEPT ![t] = newStatus]
    /\ paused' = [paused EXCEPT ![t] = newPaused]
    /\ Unlock(actor, AdjustSchedulingOnStatus(t, IsRunnable(t),
                        newStatus = "Runnable" /\ ~newPaused))
    /\ UNCHANGED <<affinity_mask, ideal_core>>

\* The threads that execute guest code, and None for the host's threads.
Guests == {running[c] : c \in Cores} \ {None}
Actors == Guests \cup {None}

\* Thread::Start.  The main thread of a process is started by the host.
Start(actor, t) ==
    /\ status[t] = "None"
    /\ SetSchedulingState(actor, t, "Runnable", paused[t])

\* A thread waits, or sleeps: SetStatus with one of the waiting statuses.
Block(t) ==
    /\ status[t] = "Runnable"
    /\ SetSchedulingState(t, t, "Paused", paused[t])

\* ResumeFromWait and OnWakeUp
Resume(actor, t) ==
    /\ status[t] = "Paused"
    /\ SetSchedulingState(actor, t, "Runnable", paused[t])

\* Stop: a thread exits, or its process does while it waits.
Stop(actor, t) ==
    /\ IF actor = t THEN status[t] = "Runnable" ELSE status[t] = "Paused"
    /\ SetSchedulingState(actor, t, "Exited", paused[t])

\* Thread::SetActivity: pausing a paused thread, or the opposite, is refused.
SetActivity(actor, t) ==
    /\ status[t] \in {"Runnable", "Paused"}
    /\ SetSchedulingState(actor, t, status[t], ~paused[t])

\* svcSetThreadActivity is refused for the calling thread.
SetThreadActivity(actor, t) == actor # t /\ SetActivity(actor, t)

\* Fault: the entries are looked for at the new priority.
FaultNewLevel(actor, t, p) ==
    LET home == HomeCore(sched, t)
        others == affinity_mask[t] \ home
        changed == [sched EXCEPT !.priority[t] = p]
    IN /\ p # sched.priority[t]
       /\ Unlock(actor,
            IF IsRunnable(t)
              THEN Place(Displace(changed, t, home, others, p),
                         t, home, others, TRUE)
              ELSE changed)
       /\ UNCHANGED <<affinity_mask, ideal_core, status, paused>>

\* SetCurrentPriority with AdjustSchedulingOnPriority: a thread that changes
\* its own priority goes to the front of its level.
SetCurrentPriority(actor, t, p) ==
    LET home == HomeCore(sched, t)
        others == affinity_mask[t] \ home
        changed == [sched EXCEPT !.priority[t] = p]
        out == Displace(changed, t, home, others, sched.priority[t])
    IN /\ p # sched.priority[t]
       /\ Unlock(actor,
            IF IsRunnable(t) THEN Place(out, t, home, others, actor # t)
                             ELSE changed)
       /\ UNCHANGED <<affinity_mask, ideal_core, status, paused>>

HighestSetCore(mask) == CHOOSE c \in mask : \A d \in mask : d <= c

\* The core of a thread whose mask changes: its own if the mask allows it,
\* else the ideal one, else the highest.
CoreInMask(t, core, mask) ==
    IF sched.processor[t] \in mask \cup {NoCore} THEN sched.processor[t]
    ELSE IF core \in Cores THEN core ELSE HighestSetCore(mask)

\* Thread::SetCoreAndAffinityMask with AdjustSchedulingOnAffinity.
SetCoreAndAffinityMask(actor, t, core, mask) ==
    LET newCore == IF core = DontUpdate THEN ideal_core[t] ELSE core
        old == affinity_mask[t]
        changed == [sched EXCEPT !.processor[t] = CoreInMask(t, newCore, mask)]
        from == HomeCore(sched, t)
        to == HomeCore(changed, t)
        moved == Place(Displace(changed, t, old \cap from, old \ from,
                                sched.priority[t]),
                       t, mask \cap to, mask \ to, TRUE)
    IN /\ core = DontUpdate => newCore \in mask
       /\ affinity_mask' = [affinity_mask EXCEPT ![t] = mask]
       /\ ideal_core' = [ideal_core EXCEPT ![t] = newCore]
       /\ Unlock(actor, CASE mask = old -> sched
                          [] mask # old /\ ~IsRunnable(t) -> changed
                          [] OTHER -> moved)
       /\ UNCHANGED <<status, paused>>

\* svcSetThreadCoreMask: a core that is given must be in the mask.
SetThreadCoreMask(actor, t, core, mask) ==
    /\ core \in Cores => core \in mask
    /\ SetCoreAndAffinityMask(actor, t, core, mask)

-----------------------------------------------------------------------------
(* Yielding and preemption.  The number of ticks at which each thread last *)
(* ran is an input: any order of the threads is possible.                  *)

LastRunningTicks == [Threads -> 1 .. Cardinality(Threads)]

\* YieldThread
YieldThread(s, t) ==
    [s EXCEPT !.scheduled[s.processor[t]] =
                add(remove(@, t, s.priority[t]), t, s.priority[t], TRUE)]

\* YieldThreadAndBalanceLoad: a suggested thread that has waited longer than
\* the next thread of this core is brought here.
YieldThreadAndBalanceLoad(s, t, ticks) ==
    LET core == s.processor[t]
        y == YieldThread(s, t)
        next == frontOf(y.scheduled[core], s.priority[t])
        winner == FirstWinner(y.suggested[core],
                    {},
                    {u \in Threads :
                      /\ RivalOf(y, u) # u
                      /\ ~TooUrgent(y, RivalOf(y, u))
                      /\ \/ ticks[next] >= ticks[u]
                         \/ s.priority[next] < s.priority[u]
                      /\ s.priority[u] <= s.priority[t]})
    IN IF winner = None THEN y ELSE TransferToCore(y, core, winner)

\* YieldThreadAndWaitForLoadBalancing: the thread leaves its core, and if the
\* core has no other thread, a suggested one is brought here.
YieldThreadAndWaitForLoadBalancing(s, t) ==
    LET core == s.processor[t]
        y == TransferToCore(s, NoCore, t)
        behind == {u \in Threads :
                     y.processor[u] # NoCore /\ RivalOf(y, u) # u}
        winner == FirstWinner(y.suggested[core],
                    {u \in behind : TooUrgent(y, RivalOf(y, u))},
                    behind)
    IN IF y.scheduled[core] # <<>> \/ winner = None THEN y
       ELSE TransferToCore(y, core, winner)

\* What the three ways to yield of svcSleepThread may lead to.
Yielded(s, t) ==
    {YieldThread(s, t), YieldThreadAndWaitForLoadBalancing(s, t)}
      \cup {YieldThreadAndBalanceLoad(s, t, ticks) : ticks \in LastRunningTicks}

\* One round of the loop of PreemptThreads.
PreemptCore(s, c, ticks) ==
    LET p == PreemptionPriorities[c]
        y == [s EXCEPT !.scheduled[c] = yield(@, p)]
        current == front(y.scheduled[c])
        \* the suggested thread, among those of eligible, that takes the
        \* place of the thread cur
        winnerOver(q, cur, eligible) ==
            FirstWinner(q.suggested[c],
              {u \in eligible : TooUrgent(q, RivalOf(q, u))},
              {u \in eligible : RivalOf(q, u) # u /\ ticks[cur] >= ticks[u]})
        winner == winnerOver(y, current,
                             {u \in Threads : s.priority[u] = p})
        z == IF winner = None THEN y ELSE TransferToCore(y, c, winner)
        first == IF winner # None /\ s.priority[winner] <= s.priority[current]
                   THEN winner ELSE current
        second == winnerOver(z, first,
                             {u \in Threads : s.priority[u] >= p})
    IN CASE current = None -> y
         [] current # None /\ s.priority[first] <= p -> z
         [] OTHER -> IF second = None THEN z ELSE TransferToCore(z, c, second)

\* PreemptThreads goes over the cores: what each round leaves.
PreemptRounds(s, ticks) ==
    LET after[n \in 0 .. NumCores] ==
          IF n = 0 THEN s ELSE PreemptCore(after[n - 1], n - 1, ticks)
    IN after

PreemptThreads(s, ticks) == PreemptRounds(s, ticks)[NumCores]

\* svcSleepThread with one of its three special values.  A thread that was
\* paused while it runs only gives up its core.
Yield(t) ==
    /\ \E s \in IF IsRunnable(t) THEN Yielded(sched, t) ELSE {sched} :
         Unlock(t, s)
    /\ UNCHANGED <<affinity_mask, ideal_core, status, paused>>

\* The preemption event, every 10 ms.
Preempt ==
    /\ \E s \in {PreemptThreads(sched, ticks) : ticks \in LastRunningTicks} :
         Unlock(None, s)
    /\ UNCHANGED <<affinity_mask, ideal_core, status, paused>>

-----------------------------------------------------------------------------
(* The cores follow the selection *)

\* SwitchContext after an interrupt: the thread leaves the core and releases
\* its context_guard.
SwitchOut(c) ==
    /\ running[c] \notin {None, selected[c]}
    /\ running' = [running EXCEPT ![c] = None]
    /\ UNCHANGED <<sched, affinity_mask, ideal_core, status, paused, selected>>

\* SwitchToCurrent: the core takes the context_guard of the selected thread.
SwitchIn(c) ==
    LET t == selected[c]
    IN /\ running[c] = None /\ t # None
       /\ t \notin Guests
       /\ IsRunnable(t) /\ sched.processor[t] = c
       /\ running' = [running EXCEPT ![c] = t]
       /\ UNCHANGED <<sched, affinity_mask, ideal_core, status, paused,
                      selected>>

\* Thread::Create: the affinity mask is the core given to svcCreateThread.
Init ==
    \E core \in [Threads -> FirstCores], priority \in [Threads -> Priorities] :
      /\ sched = [scheduled |-> [c \in Cores |-> <<>>],
                  suggested |-> [c \in Cores |-> <<>>],
                  processor |-> core,
                  priority |-> priority]
      /\ affinity_mask = [t \in Threads |-> {core[t]}]
      /\ ideal_core = core
      /\ status = [t \in Threads |-> "None"]
      /\ paused = [t \in Threads |-> FALSE]
      /\ selected = [c \in Cores |-> None]
      /\ running = [c \in Cores |-> None]

Next ==
    \/ \E a \in Actors, t \in Threads :
         Start(a, t) \/ Resume(a, t)
    \/ \E a \in Guests, t \in Threads :
         \/ Stop(a, t) \/ SetThreadActivity(a, t)
         \/ \E p \in NewPriorities : SetCurrentPriority(a, t, p)
         \/ \E request \in Requests :
              SetThreadCoreMask(a, t, request.core, request.mask)
    \/ \E t \in Guests : Block(t) \/ Yield(t)
    \/ Preempt
    \/ \E c \in Cores : SwitchOut(c) \/ SwitchIn(c)

Spec == Init /\ [][Next]_vars

-----------------------------------------------------------------------------
(* Properties *)

\* The states of the queues.
Queues == [scheduled : [Cores -> Seq(Entries)],
           suggested : [Cores -> Seq(Entries)],
           processor : [Threads -> Cores \cup {NoCore}],
           priority : [Threads -> Priorities]]

\* Types of the scheduler's state.
TypeOK ==
    /\ sched \in Queues
    /\ affinity_mask \in [Threads -> (SUBSET Cores) \ {{}}]
    /\ ideal_core \in [Threads -> Cores \cup {DontCare}]
    /\ status \in [Threads -> Statuses]
    /\ paused \in [Threads -> BOOLEAN]
    /\ selected \in [Cores -> Threads \cup {None}]
    /\ running \in [Cores -> Threads \cup {None}]

\* A queue has a thread once, at level p, or has it not.
Lists(queue, t, p) ==
    \E i \in DOMAIN queue :
        /\ queue[i] = Entry(t, p)
        /\ \A j \in DOMAIN queue : queue[j].thread = t => j = i
Lacks(queue, t) == \A i \in DOMAIN queue : queue[i].thread # t

Sorted(queue) ==
    \A i, j \in DOMAIN queue : i < j => queue[i].level <= queue[j].level

\* The queues of s agree with a thread that has the given mask and is runnable
\* or not.
MatchesThread(s, t, mask, is) ==
    /\ s.processor[t] \in mask \cup {NoCore}
    /\ \A c \in Cores :
        /\ IF is /\ c = s.processor[t]
             THEN Lists(s.scheduled[c], t, s.priority[t])
             ELSE Lacks(s.scheduled[c], t)
        /\ IF is /\ c \in mask \ {s.processor[t]}
             THEN Lists(s.suggested[c], t, s.priority[t])
             ELSE Lacks(s.suggested[c], t)

\* The queues agree with the threads: a runnable thread is once, at its
\* priority, in the queue of its core, which is one of its affinity mask, and
\* in the suggestions of every other core of the mask, and nowhere else,
\* however the mask changes and load balancing moves it; other threads are
\* in no queue.
\* Entries that a call looks for at the wrong level or core stay for ever,
\* and the core would run a waiting thread.
QueuesMatchThreads ==
    \A t \in Threads :
        MatchesThread(sched, t, affinity_mask[t], IsRunnable(t))

\* The queues are sorted: the front of a core is the most urgent thread there.
QueuesSorted ==
    \A c \in Cores : Sorted(sched.scheduled[c]) /\ Sorted(sched.suggested[c])

\* What SelectThreads asserts, and more: every core is to run the front of
\* its own queue, also after threads have migrated during the selection.
SelectedIsFront ==
    \A c \in Cores :
      /\ selected[c] = front(sched.scheduled[c])
      /\ selected[c] # None => /\ sched.processor[selected[c]] = c
                               /\ IsRunnable(selected[c])

\* A thread that gave up its core no longer executes, hence a thread that
\* yields has a core.
RunningHasCore ==
    \A c \in Cores : running[c] # None => sched.processor[running[c]] # NoCore

\* Load balancing leaves no core idle in vain: every thread that could run
\* on an idle core is running on its own and has no other thread behind it.
\* Only threads too urgent for core migration excuse an idle core.
NoIdleInVain ==
    \A c \in Cores :
      selected[c] = None =>
        \/ \E d \in Cores : TooUrgent(sched, selected[d])
        \/ \A t \in Threads :
             IsRunnable(t) /\ c \in affinity_mask[t] =>
               /\ sched.processor[t] # NoCore
               /\ selected[sched.processor[t]] = t
               /\ Len(sched.scheduled[sched.processor[t]]) = 1

\* The inductive invariant: all of the above.
IInv ==
    /\ TypeOK /\ QueuesMatchThreads /\ QueuesSorted
    /\ SelectedIsFront /\ RunningHasCore /\ NoIdleInVain
=============================================================================
