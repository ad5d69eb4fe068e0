------------------------- MODULE CoreSchedulerProofs -------------------------
(***************************************************************************)
(* Proofs about CoreScheduler, for any threads, masks and priorities and   *)
(* any number of cores and calls: a fiber is on one core at a time, with   *)
(* the context guard of its thread, no interrupt is lost, a settled core   *)
(* runs its selection, and the thread a core loads is runnable.            *)
(***************************************************************************)
EXTENDS CoreScheduler, TLAPS

\* The theorems of the global scheduler, for the instance that CoreScheduler
\* is composed with.
GP == INSTANCE GlobalSchedulerProofs WITH
    Priorities <- {Urgency[t] : t \in Threads},
    PreemptionPriorities <- [c \in Cores |-> 0],
    FirstCores <- Cores, Requests <- {}, NewPriorities <- {},
    affinity_mask <- Masks, ideal_core <- [t \in Threads |-> -1],
    selected <- selected_thread_set, running <- current_thread

-----------------------------------------------------------------------------
(* The global scheduler *)

\* The assumption of GlobalScheduler holds of this instance.
LEMMA GlobalAssumption == GP!SchedulerAssumption
<1>1. /\ NumCores \in Nat \ {0} /\ Urgency \in [Threads -> Nat] /\ None \notin Threads
  BY CoreSchedulerAssumption
<1>2. {Urgency[t] : t \in Threads} \subseteq Nat
  BY <1>1
<1> QED BY <1>1, <1>2 DEF Cores, GP!Cores

\* Both instances are the same.
LEMMA SameCores == Global!Cores = Cores /\ GP!Cores = Cores /\ Global!NoCore = -1 /\ GP!NoCore = -1
BY DEF Global!Cores, GP!Cores, Cores, Global!NoCore, GP!NoCore

LEMMA SameQueues == Global!Queues = GP!Queues
BY DEF Global!Queues, GP!Queues, Global!Entries, GP!Entries, Global!Cores, GP!Cores,
       Global!NoCore, GP!NoCore

LEMMA SameMatches ==
    ASSUME NEW s, NEW t, NEW mask, NEW is
    PROVE  Global!MatchesThread(s, t, mask, is) <=> GP!MatchesThread(s, t, mask, is)
BY DEF Global!MatchesThread, GP!MatchesThread, Global!Lists, GP!Lists, Global!Lacks, GP!Lacks,
       Global!Entry, GP!Entry, Global!Cores, GP!Cores, Global!NoCore, GP!NoCore

LEMMA SameSorted ==
    ASSUME NEW q PROVE Global!Sorted(q) <=> GP!Sorted(q)
BY DEF Global!Sorted, GP!Sorted

LEMMA SameAdd ==
    ASSUME NEW q, NEW t, NEW p, NEW b
    PROVE  Global!add(q, t, p, b) = GP!add(q, t, p, b)
BY DEF Global!add, GP!add, Global!InsertAt, GP!InsertAt,
       Global!First, GP!First, Global!Entry, GP!Entry

LEMMA SameRemove ==
    ASSUME NEW q, NEW t, NEW p
    PROVE  Global!remove(q, t, p) = GP!remove(q, t, p)
BY DEF Global!remove, GP!remove, Global!RemoveAt, GP!RemoveAt,
       Global!First, GP!First, Global!Entry, GP!Entry

LEMMA SameFirstWinner ==
    ASSUME NEW q, NEW stops, NEW wins
    PROVE  Global!FirstWinner(q, stops, wins) = GP!FirstWinner(q, stops, wins)
BY DEF Global!FirstWinner, GP!FirstWinner, Global!First, GP!First

LEMMA SamePlace ==
    ASSUME NEW s, NEW t, NEW on, NEW to, NEW back
    PROVE  Global!Place(s, t, on, to, back) = GP!Place(s, t, on, to, back)
BY SameAdd DEF Global!Place, GP!Place, Global!Cores, GP!Cores

LEMMA SameDisplace ==
    ASSUME NEW s, NEW t, NEW on, NEW to, NEW p
    PROVE  Global!Displace(s, t, on, to, p) = GP!Displace(s, t, on, to, p)
BY SameRemove DEF Global!Displace, GP!Displace, Global!Cores, GP!Cores

LEMMA SameHome ==
    ASSUME NEW s, NEW t
    PROVE  Global!HomeCore(s, t) = GP!HomeCore(s, t)
BY DEF Global!HomeCore, GP!HomeCore, Global!Cores, GP!Cores

LEMMA SameTransfer ==
    ASSUME NEW s, NEW c, NEW t
    PROVE  Global!TransferToCore(s, c, t) = GP!TransferToCore(s, c, t)
BY SamePlace, SameDisplace, SameHome DEF Global!TransferToCore, GP!TransferToCore

LEMMA SameTop ==
    ASSUME NEW r, NEW t
    PROVE  Global!TopOf(r, t) = GP!TopOf(r, t)
BY DEF Global!TopOf, GP!TopOf, Global!Cores, GP!Cores

LEMMA SameUrgent ==
    ASSUME NEW r, NEW t
    PROVE  Global!TooUrgent(r, t) <=> GP!TooUrgent(r, t)
BY DEF Global!TooUrgent, GP!TooUrgent

LEMMA SameSpare ==
    ASSUME NEW r, NEW c
    PROVE  Global!SpareThread(r, c) = GP!SpareThread(r, c)
BY SameFirstWinner, SameTop, SameUrgent DEF Global!SpareThread, GP!SpareThread

LEMMA SameDonor ==
    ASSUME NEW r, NEW c
    PROVE  Global!DonatedThread(r, c) = GP!DonatedThread(r, c)
BY SameFirstWinner, SameTop, SameHome DEF Global!DonatedThread, GP!DonatedThread

LEMMA SameFill ==
    ASSUME NEW r, NEW c
    PROVE  Global!FillIdleCore(r, c) = GP!FillIdleCore(r, c)
BY SameSpare, SameDonor, SameTransfer DEF Global!FillIdleCore, GP!FillIdleCore

LEMMA SameFirstTops ==
    ASSUME NEW s
    PROVE  Global!FirstTops(s) = GP!FirstTops(s)
BY DEF Global!FirstTops, GP!FirstTops, Global!front, GP!front, Global!Cores, GP!Cores

LEMMA SameAdjust ==
    ASSUME NEW t, NEW was, NEW is
    PROVE  Global!AdjustSchedulingOnStatus(t, was, is) = GP!AdjustSchedulingOnStatus(t, was, is)
BY SamePlace, SameDisplace, SameHome
   DEF Global!AdjustSchedulingOnStatus, GP!AdjustSchedulingOnStatus

LEMMA SameYield ==
    ASSUME NEW s, NEW t
    PROVE  Global!YieldThread(s, t) = GP!YieldThread(s, t)
BY SameAdd, SameRemove DEF Global!YieldThread, GP!YieldThread

LEMMA SameRival ==
    ASSUME NEW s, NEW t
    PROVE  Global!RivalOf(s, t) = GP!RivalOf(s, t)
BY DEF Global!RivalOf, GP!RivalOf, Global!front, GP!front, Global!Cores, GP!Cores

LEMMA SameFrontOf ==
    ASSUME NEW q, NEW p
    PROVE  Global!frontOf(q, p) = GP!frontOf(q, p)
BY DEF Global!frontOf, GP!frontOf, Global!First, GP!First

LEMMA SameBalance ==
    ASSUME NEW s, NEW t, NEW ticks
    PROVE  Global!YieldThreadAndBalanceLoad(s, t, ticks)
             = GP!YieldThreadAndBalanceLoad(s, t, ticks)
BY SameYield, SameFrontOf, SameFirstWinner, SameRival, SameUrgent, SameTransfer
   DEF Global!YieldThreadAndBalanceLoad, GP!YieldThreadAndBalanceLoad

LEMMA SameWait ==
    ASSUME NEW s, NEW t
    PROVE  Global!YieldThreadAndWaitForLoadBalancing(s, t)
             = GP!YieldThreadAndWaitForLoadBalancing(s, t)
BY SameTransfer, SameFirstWinner, SameRival, SameUrgent
   DEF Global!YieldThreadAndWaitForLoadBalancing, GP!YieldThreadAndWaitForLoadBalancing,
       Global!NoCore, GP!NoCore

LEMMA SameYielded ==
    ASSUME NEW s, NEW t
    PROVE  Global!Yielded(s, t) = GP!Yielded(s, t)
<1>1. Global!LastRunningTicks = GP!LastRunningTicks
  BY DEF Global!LastRunningTicks, GP!LastRunningTicks, Global!Cardinality, GP!Cardinality
<1> QED BY <1>1, SameYield, SameBalance, SameWait DEF Global!Yielded, GP!Yielded

\* The rounds of the selection solve the same equation, hence are the same.
LEMMA SameSelect ==
    ASSUME NEW s
    PROVE  Global!SelectThreads(s) = GP!SelectThreads(s)
<1> DEFINE F(f) == [n \in 0..NumCores |->
                      IF n = 0 THEN Global!FirstTops(s) ELSE Global!FillIdleCore(f[n - 1], n - 1)]
           G(f) == [n \in 0..NumCores |->
                      IF n = 0 THEN GP!FirstTops(s) ELSE GP!FillIdleCore(f[n - 1], n - 1)]
<1>1. Global!SelectRounds(s) = CHOOSE f : f = F(f)
  BY DEF Global!SelectRounds
<1>2. GP!SelectRounds(s) = CHOOSE f : f = G(f)
  BY DEF GP!SelectRounds
<1>3. ASSUME NEW f PROVE F(f) = G(f)
  BY SameFill, SameFirstTops
<1> HIDE DEF F, G
<1>4. Global!SelectRounds(s) = GP!SelectRounds(s)
  BY <1>1, <1>2, <1>3, Zenon
<1> QED BY <1>4 DEF Global!SelectThreads, GP!SelectThreads

-----------------------------------------------------------------------------
(* Constants and types *)

\* What is assumed of the constants.
LEMMA ConstantFacts ==
    /\ NumCores \in Nat \ {0} /\ Cores \subseteq Nat /\ Cores \subseteq Actors
    /\ None \notin Threads /\ None \notin Cores /\ Host \notin Cores /\ None # Host
    /\ Masks \in [Threads -> SUBSET Cores] /\ \A t \in Threads : Masks[t] # {}
BY CoreSchedulerAssumption DEF Actors, Cores

\* The fibers are all different.
LEMMA FiberFacts ==
    /\ \A c \in Cores : /\ IdleFiber(c) \in Fibers /\ SwitchFiber(c) \in Fibers
                        /\ IdleFiber(c) \notin Threads /\ SwitchFiber(c) \notin Threads
    /\ Threads \subseteq Fibers
    /\ \A c, d \in Cores : /\ IdleFiber(c) # SwitchFiber(d)
                           /\ IdleFiber(c) = IdleFiber(d) => c = d
<1>1. \A c \in Cores : IdleFiber(c) \notin Threads /\ SwitchFiber(c) \notin Threads
  BY CoreSchedulerAssumption, Zenon
<1>2. \A c, d \in Cores : /\ IdleFiber(c) # SwitchFiber(d)
                          /\ IdleFiber(c) = IdleFiber(d) => c = d
  BY DEF IdleFiber, SwitchFiber
<1> QED BY <1>1, <1>2 DEF Fibers

\* The types, with those of the global scheduler spelled out.
Types ==
    /\ status \in [Threads -> {"None", "Runnable", "Paused", "Exited"}]
    /\ paused \in [Threads -> BOOLEAN]
    /\ selected_thread_set \in [Cores -> Threads \cup {None}]
    /\ current_thread \in [Cores -> Threads \cup {None}]
    /\ lock \in Actors \cup {None}
    /\ top_threads \in [Cores -> Threads \cup {None}]
    /\ to_update \in SUBSET Cores
    /\ is_context_switch_pending \in [Cores -> BOOLEAN]
    /\ is_interrupted \in [Cores -> BOOLEAN]
    /\ interrupt_event \in [Cores -> BOOLEAN]
    /\ context_guard \in [Threads -> Cores \cup {None}]
    /\ fiber \in [Cores -> Fibers]
    /\ fiber_guard \in [Fibers -> BOOLEAN]
    /\ pc \in [Actors -> Places]
    /\ cores_pending_reschedule \in [Actors -> SUBSET Cores]

\* TypeOK, taken apart.
LEMMA TypeFacts ==
    /\ TypeOK <=> sched \in Global!Queues /\ Types
    /\ TypeOK' <=> sched' \in Global!Queues /\ Types'
<1>1. /\ Masks \in [Threads -> (SUBSET Cores) \ {{}}]
      /\ [t \in Threads |-> -1] \in [Threads -> Cores \cup {-1}]
  BY CoreSchedulerAssumption
<1> QED BY <1>1, SameCores DEF TypeOK, Types, Global!TypeOK, Global!Statuses, Global!DontCare

\* FirstOf is the least element.
LEMMA FirstOfFacts ==
    ASSUME NEW set \in SUBSET Cores, set # {} PROVE FirstOf(set) \in set
<1>1. set \subseteq Nat
  BY ConstantFacts
<1>2. GP!First(set) \in set
  BY <1>1, GlobalAssumption, GP!FirstFacts
<1> QED BY <1>2 DEF FirstOf, GP!First

-----------------------------------------------------------------------------
(* The queues *)

\* The queues of s match threads that are runnable as R says.
Fits(s, R) == GP!Match(s, Masks, R)

\* No thread but t loses its core.
KeepCores(t) ==
    \A u \in Threads \ {t} : sched.processor[u] # -1 => sched'.processor[u] # -1

\* Which threads are runnable.
Runnables == [t \in Threads |-> status[t] = "Runnable" /\ ~paused[t]]

\* Queues that fit have their type.
LEMMA FitsQueues ==
    ASSUME NEW s, NEW R, Fits(s, R) PROVE s \in Global!Queues
BY SameQueues DEF Fits, GP!Match, GP!Sound

\* The invariant says that the queues fit the threads as they are.
LEMMA InvFits ==
    ASSUME sched \in Global!Queues, KernelInv PROVE Fits(sched, Runnables)
<1>1. GP!Sound(sched)
  BY SameQueues, SameCores, SameSorted DEF GP!Sound, KernelInv, Global!QueuesSorted
<1>2. ASSUME NEW t \in Threads PROVE GP!MatchesThread(sched, t, Masks[t], Runnables[t])
  <2>1. Global!MatchesThread(sched, t, Masks[t], Global!IsRunnable(t))
    BY DEF KernelInv, Global!QueuesMatchThreads
  <2>2. Runnables[t] <=> Global!IsRunnable(t)
    BY DEF Runnables, Global!IsRunnable
  <2>3. GP!MatchesThread(sched, t, Masks[t], Global!IsRunnable(t))
    BY <2>1, SameMatches
  <2> QED BY <2>2, <2>3 DEF GP!MatchesThread
<1> QED BY <1>1, <1>2 DEF Fits, GP!Match, KernelInv

\* And the converse, for the next state.
LEMMA FitsInv ==
    ASSUME NEW R, Fits(sched', R),
           \A t \in Threads : R[t] <=> status'[t] = "Runnable" /\ ~paused'[t]
    PROVE  sched' \in Global!Queues /\ KernelInv'
<1>1. Global!QueuesSorted'
  BY SameCores, SameSorted DEF GP!Sound, Fits, GP!Match, Global!QueuesSorted
<1>2. ASSUME NEW t \in Threads
      PROVE  Global!MatchesThread(sched', t, Masks[t], Global!IsRunnable(t)')
  <2>1. GP!MatchesThread(sched', t, Masks[t], R[t])
    BY DEF Fits, GP!Match
  <2>2. R[t] <=> Global!IsRunnable(t)'
    BY DEF Global!IsRunnable
  <2>3. Global!MatchesThread(sched', t, Masks[t], R[t])
    BY <2>1, SameMatches
  <2> QED BY <2>2, <2>3 DEF Global!MatchesThread
<1>3. Global!QueuesMatchThreads'
  BY <1>2 DEF Global!QueuesMatchThreads
<1> QED BY <1>1, <1>3, FitsQueues DEF KernelInv, Fits

\* A step that leaves the queues and the threads alone.
LEMMA SameKernel ==
    ASSUME sched \in Global!Queues, KernelInv, UNCHANGED <<sched, status, paused>>
    PROVE  sched' \in Global!Queues /\ KernelInv'
<1>1. Fits(sched', Runnables)
  BY InvFits
<1>2. \A t \in Threads : Runnables[t] <=> status'[t] = "Runnable" /\ ~paused'[t]
  BY DEF Runnables
<1> HIDE DEF Runnables
<1> QED BY <1>1, <1>2, FitsInv

\* A thread changes its status or its pause flag.
LEMMA AdjustKernel ==
    ASSUME sched \in Global!Queues, Types, KernelInv, NEW t \in Threads,
           NEW st, NEW pa \in BOOLEAN,
           status' = [status EXCEPT ![t] = st], paused' = [paused EXCEPT ![t] = pa],
           sched' = Global!AdjustSchedulingOnStatus(t, IsRunnable(t), st = "Runnable" /\ ~pa)
    PROVE  sched' \in Global!Queues /\ KernelInv' /\ sched'.processor = sched.processor
<1> DEFINE was == IsRunnable(t)
           is == st = "Runnable" /\ ~pa
           R == Runnables
           Q == [u \in Threads |-> status'[u] = "Runnable" /\ ~paused'[u]]
<1>0. status'[t] = st /\ paused'[t] = pa
      /\ \A u \in Threads \ {t} : status'[u] = status[u] /\ paused'[u] = paused[u]
  BY DEF Types
<1>1. sched' = GP!AdjustSchedulingOnStatus(t, was, is)
  <2> HIDE DEF was, is
  <2>1. sched' = Global!AdjustSchedulingOnStatus(t, was, is)
    BY DEF was, is
  <2> QED BY <2>1, SameAdjust
<1>2. (R[t] <=> was) /\ (Q[t] <=> is)
  BY <1>0 DEF Runnables, IsRunnable, Global!IsRunnable
<1>3. GP!SameElse(R, Q, t)
  BY <1>0 DEF Runnables, GP!SameElse
<1>4. \A u \in Threads : Q[u] <=> status'[u] = "Runnable" /\ ~paused'[u]
  OBVIOUS
<1>5. Fits(sched, R) /\ GP!Match(sched, Masks, R) /\ Masks \in [Threads -> SUBSET GP!Cores]
  BY InvFits, ConstantFacts, SameCores DEF Fits
<1> HIDE DEF was, is, R, Q
<1>6. /\ GP!Match(GP!AdjustSchedulingOnStatus(t, was, is), Masks, Q)
      /\ GP!AdjustSchedulingOnStatus(t, was, is).processor = sched.processor
  BY <1>2, <1>3, <1>5, GlobalAssumption, GP!AdjustMatch
<1>7. Fits(sched', Q)
  BY <1>1, <1>5, <1>6 DEF Fits
<1> QED BY <1>1, <1>4, <1>6, <1>7, FitsInv

\* A runnable thread yields.
LEMMA YieldKernel ==
    ASSUME sched \in Global!Queues, KernelInv, NEW t \in Threads, IsRunnable(t),
           sched.processor[t] # -1, sched' \in Global!Yielded(sched, t),
           UNCHANGED <<status, paused>>
    PROVE  sched' \in Global!Queues /\ KernelInv' /\ KeepCores(t)
<1>1. GP!Match(sched, Masks, Runnables) /\ Masks \in [Threads -> SUBSET GP!Cores]
  BY InvFits, ConstantFacts, SameCores DEF Fits
<1>2. sched.processor[t] \in GP!Cores /\ Runnables[t]
  BY SameCores DEF Runnables, IsRunnable, Global!IsRunnable, Global!Queues
<1>3. \A u \in Threads : Runnables[u] <=> status'[u] = "Runnable" /\ ~paused'[u]
  BY DEF Runnables
<1> HIDE DEF Runnables
<1>4. sched' \in GP!Yielded(sched, t)
  BY SameYielded
<1>5. GP!Follows(sched, sched', Masks, Runnables, t)
  BY <1>1, <1>2, <1>4, GlobalAssumption, GP!YieldedMatch
<1>6. Fits(sched', Runnables)
  BY <1>5 DEF Fits, GP!Follows
<1>7. KeepCores(t)
  BY <1>5, SameCores DEF KeepCores, GP!Follows
<1> QED BY <1>3, <1>6, <1>7, FitsInv

\* SelectThreads moves threads and selects one or none for each core.
LEMMA SelectKernel ==
    ASSUME sched \in Global!Queues, KernelInv, UNCHANGED <<status, paused>>,
           sched' = Global!SelectThreads(sched).s
    PROVE  /\ sched' \in Global!Queues /\ KernelInv' /\ KeepCores(None)
           /\ Global!SelectThreads(sched).top \in [Cores -> Threads \cup {None}]
           /\ \A c \in Cores : \A t \in Threads :
                Global!SelectThreads(sched).top[c] = t => sched'.processor[t] = c
<1> DEFINE r == GP!SelectThreads(sched)
<1>1. Fits(sched, Runnables) /\ GP!Match(sched, Masks, Runnables)
      /\ Masks \in [Threads -> SUBSET GP!Cores]
  BY InvFits, ConstantFacts, SameCores DEF Fits
<1>2. \A u \in Threads : Runnables[u] <=> status'[u] = "Runnable" /\ ~paused'[u]
  BY DEF Runnables
<1> HIDE DEF Runnables
<1>3. GP!TopsMatch(sched, r, Masks, Runnables)
  BY <1>1, GlobalAssumption, GP!SelectThreadsMatch
<1>4. Global!SelectThreads(sched) = r
  BY SameSelect
<1> HIDE DEF r
<1>5. /\ GP!Match(r.s, Masks, Runnables) /\ r.top \in [Cores -> Threads \cup {None}]
      /\ \A t \in Threads : sched.processor[t] # -1 => r.s.processor[t] # -1
  BY <1>3, SameCores DEF GP!TopsMatch
<1>6. Fits(sched', Runnables)
  BY <1>1, <1>4, <1>5 DEF Fits
<1>7. KeepCores(None)
  BY <1>4, <1>5 DEF KeepCores
<1>8. ASSUME NEW c \in Cores, NEW t \in Threads, r.top[c] = t PROVE r.s.processor[t] = c
  BY <1>3, <1>8, ConstantFacts, SameCores, GlobalAssumption, GP!TopsAtHome
<1> QED BY <1>2, <1>4, <1>5, <1>6, <1>7, <1>8, FitsInv

-----------------------------------------------------------------------------
(* The steps *)

\* What the invariant says of the cores alone, and of the cores and the queues.
Rest ==
    /\ Types /\ FiberInv /\ FiberGuardInv /\ ContextGuardInv
    /\ SelectionInv /\ InterruptInv /\ CheckedInv

Homes == SelectingInv /\ HomelessInv

\* The actor has interrupted the cores.
LEMMA InterruptedInv ==
    ASSUME Rest, NEW a \in Actors, Interrupted(a) PROVE Rest'
<1> USE ConstantFacts, FiberFacts
        DEF Rest, Interrupted, Goto, kernelVars, switchVars, interruptVars, fiberVars
<1>1. Types'
  BY DEF Types, Places
<1>2. FiberInv'
  BY DEF Types, FiberInv, InThread, InSwitch
<1>3. FiberGuardInv'
  BY DEF Types, FiberInv, FiberGuardInv
<1>4. ContextGuardInv'
  BY DEF Types, FiberInv, ContextGuardInv, InThread
<1>5. SelectionInv'
  BY DEF Types, SelectionInv
<1>6. InterruptInv'
  BY DEF Types, InterruptInv
<1>7. CheckedInv'
  BY DEF Types, FiberInv, ContextGuardInv, CheckedInv, InThread
<1> QED BY ONLY <1>1, <1>2, <1>3, <1>4, <1>5, <1>6, <1>7 DEF Rest

\* A core leaves the guest code.
LEMMA GuestInterruptedInv ==
    ASSUME Rest, NEW c \in Cores, GuestInterrupted(c) PROVE Rest'
<1> USE ConstantFacts, FiberFacts
        DEF Rest, GuestInterrupted, Goto, kernelVars, switchVars, interruptVars, fiberVars
<1>1. Types'
  BY DEF Types, Places
<1>2. FiberInv'
  BY DEF Types, FiberInv, InThread, InSwitch
<1>3. FiberGuardInv'
  BY DEF Types, FiberInv, FiberGuardInv
<1>4. ContextGuardInv'
  BY DEF Types, FiberInv, ContextGuardInv, InThread
<1>5. SelectionInv'
  BY DEF Types, SelectionInv
<1>6. InterruptInv'
  BY DEF Types, InterruptInv
<1>7. CheckedInv'
  BY DEF Types, FiberInv, ContextGuardInv, CheckedInv, InThread
<1> QED BY ONLY <1>1, <1>2, <1>3, <1>4, <1>5, <1>6, <1>7 DEF Rest

\* A core wakes up: it takes the event, and is no longer among those that wait.
LEMMA IdleInterruptedInv ==
    ASSUME Rest, NEW c \in Cores, IdleInterrupted(c) PROVE Rest'
<1> USE ConstantFacts, FiberFacts
        DEF Rest, IdleInterrupted, Goto, kernelVars, switchVars, interruptVars, fiberVars
<1>1. Types'
  BY DEF Types, Places
<1>2. FiberInv'
  BY DEF Types, FiberInv, InThread, InSwitch
<1>3. FiberGuardInv'
  BY DEF Types, FiberInv, FiberGuardInv
<1>4. ContextGuardInv'
  BY DEF Types, FiberInv, ContextGuardInv, InThread
<1>5. SelectionInv'
  BY DEF Types, SelectionInv
<1>6. InterruptInv'
  BY DEF Types, InterruptInv
<1>7. CheckedInv'
  BY DEF Types, FiberInv, ContextGuardInv, CheckedInv, InThread
<1> QED BY ONLY <1>1, <1>2, <1>3, <1>4, <1>5, <1>6, <1>7 DEF Rest

\* A core clears its interrupt, and looks for a pending switch afterwards.
LEMMA ClearInterruptInv ==
    ASSUME Rest, NEW c \in Cores, ClearInterrupt(c) PROVE Rest'
<1> USE ConstantFacts, FiberFacts
        DEF Rest, ClearInterrupt, Goto, kernelVars, switchVars, interruptVars, fiberVars
<1>1. Types'
  BY DEF Types, Places
<1>2. FiberInv'
  BY DEF Types, FiberInv, InThread, InSwitch
<1>3. FiberGuardInv'
  BY DEF Types, FiberInv, FiberGuardInv
<1>4. ContextGuardInv'
  BY DEF Types, FiberInv, ContextGuardInv, InThread
<1>5. SelectionInv'
  BY DEF Types, SelectionInv
<1>6. InterruptInv'
  BY DEF Types, InterruptInv
<1>7. CheckedInv'
  BY DEF Types, FiberInv, ContextGuardInv, CheckedInv, InThread
<1> QED BY ONLY <1>1, <1>2, <1>3, <1>4, <1>5, <1>6, <1>7 DEF Rest

\* A core that goes back to its loop has no switch pending.
LEMMA NoSwitchInv ==
    ASSUME Rest, NEW c \in Cores, NoSwitch(c) PROVE Rest'
<1> USE ConstantFacts, FiberFacts
        DEF Rest, NoSwitch, Goto, Loop, kernelVars, switchVars, interruptVars, fiberVars
<1>1. Types'
  BY DEF Types, Places
<1>2. FiberInv'
  BY DEF Types, FiberInv, InThread, InSwitch
<1>3. FiberGuardInv'
  BY DEF Types, FiberInv, FiberGuardInv
<1>4. ContextGuardInv'
  BY DEF Types, FiberInv, ContextGuardInv, InThread
<1>5. SelectionInv'
  BY DEF Types, SelectionInv
<1>6. InterruptInv'
  BY DEF Types, InterruptInv
<1>7. CheckedInv'
  BY DEF Types, FiberInv, ContextGuardInv, CheckedInv, InThread
<1> QED BY ONLY <1>1, <1>2, <1>3, <1>4, <1>5, <1>6, <1>7 DEF Rest

\* A core takes its selection and lets go of the thread it was on.
LEMMA SwitchContextInv ==
    ASSUME Rest, NEW c \in Cores, SwitchContext(c) PROVE Rest'
<1> USE ConstantFacts, FiberFacts
        DEF Rest, SwitchContext, Goto, Loop, kernelVars, switchVars, interruptVars, fiberVars
<1>1. Types'
  BY DEF Types, Places
<1>2. FiberInv'
  BY DEF Types, FiberInv, InThread, InSwitch
<1>3. FiberGuardInv'
  BY DEF Types, FiberInv, FiberGuardInv
<1>4. ContextGuardInv'
  BY DEF Types, FiberInv, ContextGuardInv, InThread
<1>5. SelectionInv'
  BY DEF Types, SelectionInv
<1>6. InterruptInv'
  BY DEF Types, InterruptInv
<1>7. CheckedInv'
  BY DEF Types, FiberInv, ContextGuardInv, CheckedInv, InThread
<1> QED BY ONLY <1>1, <1>2, <1>3, <1>4, <1>5, <1>6, <1>7 DEF Rest

\* A core enters its switch fiber: the fiber of the thread is free for others.
LEMMA LeaveInv ==
    ASSUME Rest, NEW c \in Cores, Leave(c) PROVE Rest'
<1> USE ConstantFacts, FiberFacts
        DEF Rest, Leave, Goto, YieldTo, kernelVars, switchVars, interruptVars, fiberVars
<1>1. Types'
  BY DEF Types, Places
<1>2. FiberInv'
  BY DEF Types, FiberInv, InThread, InSwitch
<1>3. FiberGuardInv'
  BY DEF Types, FiberInv, FiberGuardInv
<1>4. ContextGuardInv'
  BY DEF Types, FiberInv, ContextGuardInv, InThread
<1>5. SelectionInv'
  BY DEF Types, SelectionInv
<1>6. InterruptInv'
  BY DEF Types, InterruptInv
<1>7. CheckedInv'
  BY DEF Types, FiberInv, ContextGuardInv, CheckedInv, InThread
<1> QED BY ONLY <1>1, <1>2, <1>3, <1>4, <1>5, <1>6, <1>7 DEF Rest

\* The selection is read again.
LEMMA TakeSelectionInv ==
    ASSUME Rest, NEW c \in Cores, TakeSelection(c) PROVE Rest'
<1> USE ConstantFacts, FiberFacts
        DEF Rest, TakeSelection, Goto, kernelVars, switchVars, interruptVars, fiberVars
<1>1. Types'
  BY DEF Types, Places
<1>2. FiberInv'
  BY DEF Types, FiberInv, InThread, InSwitch
<1>3. FiberGuardInv'
  BY DEF Types, FiberInv, FiberGuardInv
<1>4. ContextGuardInv'
  BY DEF Types, FiberInv, ContextGuardInv, InThread
<1>5. SelectionInv'
  BY DEF Types, SelectionInv
<1>6. InterruptInv'
  BY DEF Types, InterruptInv
<1>7. CheckedInv'
  BY DEF Types, FiberInv, ContextGuardInv, CheckedInv, InThread
<1> QED BY ONLY <1>1, <1>2, <1>3, <1>4, <1>5, <1>6, <1>7 DEF Rest

\* The condition of the inner loop.
LEMMA LookPendingInv ==
    ASSUME Rest, NEW c \in Cores, LookPending(c) PROVE Rest'
<1> USE ConstantFacts, FiberFacts
        DEF Rest, LookPending, Goto, kernelVars, switchVars, interruptVars, fiberVars
<1>1. Types'
  BY DEF Types, Places
<1>2. FiberInv'
  BY DEF Types, FiberInv, InThread, InSwitch
<1>3. FiberGuardInv'
  BY DEF Types, FiberInv, FiberGuardInv
<1>4. ContextGuardInv'
  BY DEF Types, FiberInv, ContextGuardInv, InThread
<1>5. SelectionInv'
  BY DEF Types, SelectionInv
<1>6. InterruptInv'
  BY DEF Types, InterruptInv
<1>7. CheckedInv'
  BY DEF Types, FiberInv, ContextGuardInv, CheckedInv, InThread
<1> QED BY ONLY <1>1, <1>2, <1>3, <1>4, <1>5, <1>6, <1>7 DEF Rest

\* A core takes the context_guard of a thread that no core has.
LEMMA LockContextInv ==
    ASSUME Rest, NEW c \in Cores, LockContext(c) PROVE Rest'
<1> USE ConstantFacts, FiberFacts
        DEF Rest, LockContext, Goto, kernelVars, switchVars, interruptVars, fiberVars
<1>1. Types'
  BY DEF Types, Places
<1>2. FiberInv'
  BY DEF Types, FiberInv, InThread, InSwitch
<1>3. FiberGuardInv'
  BY DEF Types, FiberInv, FiberGuardInv
<1>4. ContextGuardInv'
  BY DEF Types, FiberInv, ContextGuardInv, InThread
<1>5. SelectionInv'
  BY DEF Types, SelectionInv
<1>6. InterruptInv'
  BY DEF Types, InterruptInv
<1>7. CheckedInv'
  BY DEF Types, FiberInv, ContextGuardInv, CheckedInv, InThread
<1> QED BY ONLY <1>1, <1>2, <1>3, <1>4, <1>5, <1>6, <1>7 DEF Rest

\* The thread is checked under its context_guard.
LEMMA CheckRunnableInv ==
    ASSUME Rest, NEW c \in Cores, CheckRunnable(c) PROVE Rest'
<1> USE ConstantFacts, FiberFacts
        DEF Rest, CheckRunnable, CheckContext, Goto, kernelVars, switchVars, interruptVars, fiberVars
<1>1. Types'
  BY DEF Types, Places
<1>2. FiberInv'
  BY DEF Types, FiberInv, InThread, InSwitch
<1>3. FiberGuardInv'
  BY DEF Types, FiberInv, FiberGuardInv
<1>4. ContextGuardInv'
  BY DEF Types, FiberInv, ContextGuardInv, InThread
<1>5. SelectionInv'
  BY DEF Types, SelectionInv
<1>6. InterruptInv'
  BY DEF Types, InterruptInv
<1>7. CheckedInv'
  BY DEF Types, FiberInv, ContextGuardInv, CheckedInv, InThread, IsRunnable, Global!IsRunnable
<1> QED BY ONLY <1>1, <1>2, <1>3, <1>4, <1>5, <1>6, <1>7 DEF Rest

\* The second check.
LEMMA CheckProcessorInv ==
    ASSUME Rest, NEW c \in Cores, CheckProcessor(c) PROVE Rest'
<1> USE ConstantFacts, FiberFacts
        DEF Rest, CheckProcessor, CheckContext, Goto, kernelVars, switchVars, interruptVars, fiberVars
<1>1. Types'
  BY DEF Types, Places
<1>2. FiberInv'
  BY DEF Types, FiberInv, InThread, InSwitch
<1>3. FiberGuardInv'
  BY DEF Types, FiberInv, FiberGuardInv
<1>4. ContextGuardInv'
  BY DEF Types, FiberInv, ContextGuardInv, InThread
<1>5. SelectionInv'
  BY DEF Types, SelectionInv
<1>6. InterruptInv'
  BY DEF Types, InterruptInv
<1>7. CheckedInv'
  BY DEF Types, FiberInv, ContextGuardInv, CheckedInv, InThread
<1> QED BY ONLY <1>1, <1>2, <1>3, <1>4, <1>5, <1>6, <1>7 DEF Rest

\* A core enters the fiber of its thread, once the core that was on it has left.
LEMMA EnterInv ==
    ASSUME Rest, NEW c \in Cores, Enter(c) PROVE Rest'
<1> USE ConstantFacts, FiberFacts
        DEF Rest, Enter, Goto, YieldTo, kernelVars, switchVars, interruptVars, fiberVars
<1>1. Types'
  BY DEF Types, Places
<1>2. FiberInv'
  BY DEF Types, FiberInv, InThread, InSwitch
<1>3. FiberGuardInv'
  BY DEF Types, FiberInv, FiberGuardInv
<1>4. ContextGuardInv'
  BY DEF Types, FiberInv, ContextGuardInv, InThread
<1>5. SelectionInv'
  BY DEF Types, SelectionInv
<1>6. InterruptInv'
  BY DEF Types, InterruptInv
<1>7. CheckedInv'
  BY DEF Types, FiberInv, ContextGuardInv, CheckedInv, InThread
<1> QED BY ONLY <1>1, <1>2, <1>3, <1>4, <1>5, <1>6, <1>7 DEF Rest

\* The fiber goes on.
LEMMA SwitchContextStep2Inv ==
    ASSUME Rest, NEW c \in Cores, SwitchContextStep2(c) PROVE Rest'
<1> USE ConstantFacts, FiberFacts
        DEF Rest, SwitchContextStep2, Goto, kernelVars, switchVars, interruptVars, fiberVars
<1>1. Types'
  BY DEF Types, Places
<1>2. FiberInv'
  BY DEF Types, FiberInv, InThread, InSwitch
<1>3. FiberGuardInv'
  BY DEF Types, FiberInv, FiberGuardInv
<1>4. ContextGuardInv'
  BY DEF Types, FiberInv, ContextGuardInv, InThread
<1>5. SelectionInv'
  BY DEF Types, SelectionInv
<1>6. InterruptInv'
  BY DEF Types, InterruptInv
<1>7. CheckedInv'
  BY DEF Types, FiberInv, ContextGuardInv, CheckedInv, InThread
<1> QED BY ONLY <1>1, <1>2, <1>3, <1>4, <1>5, <1>6, <1>7 DEF Rest

\* The first half of an interrupt wakes the core if it sleeps.
LEMMA SetEventInv ==
    ASSUME Rest, NEW a \in Actors, SetEvent(a) PROVE Rest'
<1> USE ConstantFacts, FiberFacts
        DEF Rest, SetEvent, Goto, kernelVars, switchVars, interruptVars, fiberVars
<1>1. Types'
  BY DEF Types, Places
<1>2. FiberInv'
  BY DEF Types, FiberInv, InThread, InSwitch
<1>3. FiberGuardInv'
  BY DEF Types, FiberInv, FiberGuardInv
<1>4. ContextGuardInv'
  BY DEF Types, FiberInv, ContextGuardInv, InThread
<1>5. SelectionInv'
  BY DEF Types, SelectionInv
<1>6. InterruptInv'
  BY DEF Types, InterruptInv
<1>7. CheckedInv'
  BY DEF Types, FiberInv, ContextGuardInv, CheckedInv, InThread
<1> QED BY ONLY <1>1, <1>2, <1>3, <1>4, <1>5, <1>6, <1>7 DEF Rest

\* The second half makes it leave the guest code.
LEMMA SetFlagInv ==
    ASSUME Rest, NEW a \in Actors, SetFlag(a) PROVE Rest'
<1> USE ConstantFacts, FiberFacts
        DEF Rest, SetFlag, Goto, kernelVars, switchVars, interruptVars, fiberVars
<1>1. Types'
  BY DEF Types, Places
<1>2. FiberInv'
  BY DEF Types, FiberInv, InThread, InSwitch
<1>3. FiberGuardInv'
  BY DEF Types, FiberInv, FiberGuardInv
<1>4. ContextGuardInv'
  BY DEF Types, FiberInv, ContextGuardInv, InThread
<1>5. SelectionInv'
  BY DEF Types, SelectionInv
<1>6. InterruptInv'
  BY DEF Types, InterruptInv
<1>7. CheckedInv'
  BY DEF Types, FiberInv, ContextGuardInv, CheckedInv, InThread
<1> QED BY ONLY <1>1, <1>2, <1>3, <1>4, <1>5, <1>6, <1>7 DEF Rest

\* A caller does not interrupt its own core, which is not in a loop.
LEMMA UnlockInv ==
    ASSUME Rest, NEW a \in Actors, Unlock(a) PROVE Rest'
<1> USE ConstantFacts, FiberFacts
        DEF Rest, Unlock, Goto, switchVars, interruptVars, fiberVars
<1>1. Types'
  BY DEF Types, Places
<1>2. FiberInv'
  BY DEF Types, FiberInv, InThread, InSwitch
<1>3. FiberGuardInv'
  BY DEF Types, FiberInv, FiberGuardInv
<1>4. ContextGuardInv'
  BY DEF Types, FiberInv, ContextGuardInv, InThread
<1>5. SelectionInv'
  BY DEF Types, SelectionInv
<1>6. InterruptInv'
  BY DEF Types, InterruptInv
<1>7. CheckedInv'
  BY DEF Types, FiberInv, ContextGuardInv, CheckedInv, InThread
<1> QED BY ONLY <1>1, <1>2, <1>3, <1>4, <1>5, <1>6, <1>7 DEF Rest

\* A core that is given another thread will be interrupted.
LEMMA UpdateThreadInv ==
    ASSUME Rest, NEW a \in Actors, UpdateThread(a) PROVE Rest'
<1> USE ConstantFacts, FiberFacts
        DEF Rest, UpdateThread, interruptVars, fiberVars
<1>0. FirstOf(to_update) \in Cores
  BY FirstOfFacts DEF Types
<1>1. Types'
  BY <1>0 DEF Types, Places
<1>2. FiberInv'
  BY DEF Types, FiberInv, InThread, InSwitch
<1>3. FiberGuardInv'
  BY DEF Types, FiberInv, FiberGuardInv
<1>4. ContextGuardInv'
  BY DEF Types, FiberInv, ContextGuardInv, InThread
<1>5. SelectionInv'
  BY DEF Types, SelectionInv
<1>6. InterruptInv'
  BY DEF Types, InterruptInv
<1>7. CheckedInv'
  BY DEF Types, FiberInv, ContextGuardInv, CheckedInv, InThread
<1> QED BY ONLY <1>1, <1>2, <1>3, <1>4, <1>5, <1>6, <1>7 DEF Rest

\* A call: no thread but the one that calls stops being runnable.
LEMMA EnterLockInv ==
    ASSUME Rest, NEW a \in Actors, Caller(a), EnterLock(a),
           status' \in [Threads -> {"None", "Runnable", "Paused", "Exited"}],
           paused' \in [Threads -> BOOLEAN],
           \A t \in Threads : status[t] = "Runnable" =>
             status'[t] = "Runnable" \/ (a \in Cores /\ t = current_thread[a])
    PROVE  Rest'
<1> USE ConstantFacts, FiberFacts
        DEF Rest, Caller, EnterLock, Goto, switchVars, interruptVars, fiberVars
<1>1. Types'
  BY DEF Types, Places
<1>2. FiberInv'
  BY DEF Types, FiberInv, InThread, InSwitch
<1>3. FiberGuardInv'
  BY DEF Types, FiberGuardInv
<1>4. ContextGuardInv'
  BY DEF Types, ContextGuardInv, InThread
<1>5. SelectionInv'
  BY DEF SelectionInv
<1>6. InterruptInv'
  BY DEF Types, InterruptInv
<1>7. CheckedInv'
  BY DEF Types, ContextGuardInv, CheckedInv, InThread
<1> QED BY ONLY <1>1, <1>2, <1>3, <1>4, <1>5, <1>6, <1>7 DEF Rest

\* A call: the thread that calls may lose its core, no other one does.
LEMMA EnterLockHomes ==
    ASSUME Rest, Homes, NEW a \in Actors, Caller(a), EnterLock(a), NEW t,
           KeepCores(t), t \in Threads => a \in Cores /\ t = current_thread[a]
    PROVE  Homes'
<1> USE ConstantFacts
        DEF Rest, Homes, Leaving, Caller, EnterLock, Goto, switchVars, interruptVars, fiberVars
<1>1. SelectingInv'
  BY DEF Types, Actors, SelectingInv
<1>2. HomelessInv'
  <2> SUFFICES ASSUME NEW c \in Cores, NEW u \in Threads,
                      context_guard[u] = c, sched'.processor[u] = -1, c # a
               PROVE  Leaving(c, u)'
    BY DEF Types, HomelessInv
  <2>1. u # t
    <3> SUFFICES ASSUME u = t PROVE FALSE
      OBVIOUS
    <3>1. a \in Cores /\ current_thread[a] = u /\ pc[a] = "guest"
      OBVIOUS
    <3>2. context_guard[u] = a
      BY <3>1 DEF ContextGuardInv, InThread
    <3> QED BY <3>2
  <2>2. sched.processor[u] = -1
    BY <2>1 DEF KeepCores
  <2> QED BY <2>2 DEF Types, HomelessInv
<1> QED BY <1>1, <1>2

\* The selection gives threads a core, and takes none away.
LEMMA SelectHomes ==
    ASSUME Rest, Homes, NEW a \in Actors, Select(a), KeepCores(None),
           \A c \in Cores : \A t \in Threads :
             top_threads'[c] = t => sched'.processor[t] = c
    PROVE  Homes'
<1> USE ConstantFacts
        DEF Rest, Homes, Leaving, Select, BeginUpdate, Goto, switchVars, fiberVars
<1>1. SelectingInv'
  BY DEF Types, SelectingInv
<1>2. HomelessInv'
  <2> SUFFICES ASSUME NEW c \in Cores, NEW u \in Threads,
                      context_guard[u] = c, sched.processor[u] = -1
               PROVE  Leaving(c, u)'
    BY DEF Types, HomelessInv, KeepCores
  <2>1. CASE c = a
    BY <2>1 DEF Types
  <2>2. CASE c # a
    BY <2>2 DEF Types, HomelessInv, SelectingInv
  <2> QED BY <2>1, <2>2
<1> QED BY <1>1, <1>2

\* A core whose thread has lost it gets another selection.
LEMMA UpdateThreadHomes ==
    ASSUME Rest, Homes, NEW a \in Actors, UpdateThread(a) PROVE Homes'
<1> USE ConstantFacts DEF Rest, Homes, Leaving, UpdateThread, fiberVars
<1>0. FirstOf(to_update) \in to_update /\ to_update \subseteq Cores
  BY FirstOfFacts DEF Types
<1>1. SelectingInv'
  BY DEF Types, SelectingInv
<1>2. HomelessInv'
  <2> SUFFICES ASSUME NEW c \in Cores, NEW u \in Threads,
                      context_guard[u] = c, sched.processor[u] = -1
               PROVE  Leaving(c, u)'
    BY DEF HomelessInv
  <2>1. CASE c = FirstOf(to_update)
    <3>1. top_threads[c] # u
      BY <1>0, <2>1 DEF SelectingInv
    <3>2. current_thread[c] = u
      BY DEF ContextGuardInv
    <3>3. is_context_switch_pending'[c] /\ selected_thread_set'[c] # u
      BY <2>1, <3>1, <3>2 DEF Types
    <3> QED BY <3>3 DEF HomelessInv
  <2>2. CASE c # FirstOf(to_update)
    BY <2>2 DEF Types, HomelessInv
  <2> QED BY <2>1, <2>2
<1> QED BY <1>1, <1>2

\* The calls end, and cores are interrupted.
LEMMA KernelHomes ==
    ASSUME Rest, Homes, NEW a \in Actors,
           Unlock(a) \/ SetEvent(a) \/ SetFlag(a) \/ Interrupted(a)
    PROVE  Homes'
<1> USE ConstantFacts
        DEF Rest, Homes, Leaving, Goto, kernelVars, switchVars, fiberVars
<1>1. CASE Unlock(a)
  BY <1>1 DEF Types, SelectingInv, HomelessInv, Unlock
<1>2. CASE SetEvent(a)
  BY <1>2 DEF Types, SelectingInv, HomelessInv, SetEvent
<1>3. CASE SetFlag(a)
  BY <1>3 DEF Types, SelectingInv, HomelessInv, SetFlag
<1>4. CASE Interrupted(a)
  BY <1>4 DEF Types, SelectingInv, HomelessInv, Interrupted
<1> QED BY <1>1, <1>2, <1>3, <1>4

\* A core switches: it goes past its check of the processor, or back to guest
\* code, only with a thread that has a core.
LEMMA CoreHomes ==
    ASSUME Rest, Homes, NEW c \in Cores, CoreStep(c) PROVE Homes'
<1> USE ConstantFacts
        DEF Rest, Homes, Leaving, Goto, kernelVars, switchVars, fiberVars
<1>1. SelectingInv'
  <2>1. UNCHANGED <<sched, lock, top_threads, to_update>>
        /\ \E l \in Places \ {"select", "update"} : pc' = [pc EXCEPT ![c] = l]
    BY DEF CoreStep, GuestInterrupted, IdleInterrupted, ClearInterrupt, NoSwitch,
       SwitchContext, Leave, TakeSelection, LookPending, LockContext, CheckRunnable,
       CheckProcessor, CheckContext, Enter, SwitchContextStep2, Loop, Places
  <2> QED BY <2>1 DEF Types, SelectingInv
<1>2. CASE GuestInterrupted(c)
  BY <1>1, <1>2 DEF Types, HomelessInv, GuestInterrupted
<1>3. CASE IdleInterrupted(c)
  BY <1>1, <1>3 DEF Types, HomelessInv, IdleInterrupted
<1>4. CASE ClearInterrupt(c)
  BY <1>1, <1>4 DEF Types, HomelessInv, ClearInterrupt
<1>5. CASE NoSwitch(c)
  BY <1>1, <1>5 DEF Types, HomelessInv, NoSwitch
<1>6. CASE SwitchContext(c)
  BY <1>1, <1>6 DEF Types, HomelessInv, ContextGuardInv, InThread, SwitchContext
<1>7. CASE Leave(c)
  BY <1>1, <1>7 DEF Types, HomelessInv, Leave
<1>8. CASE TakeSelection(c)
  BY <1>1, <1>8 DEF Types, HomelessInv, TakeSelection
<1>9. CASE LookPending(c)
  BY <1>1, <1>9 DEF Types, HomelessInv, LookPending
<1>10. CASE LockContext(c)
  BY <1>1, <1>10 DEF Types, FiberInv, HomelessInv, LockContext
<1>11. CASE CheckRunnable(c)
  BY <1>1, <1>11 DEF Types, FiberInv, ContextGuardInv, HomelessInv, CheckRunnable, CheckContext
<1>12. CASE CheckProcessor(c)
  BY <1>1, <1>12 DEF Types, FiberInv, ContextGuardInv, HomelessInv, CheckProcessor, CheckContext
<1>13. CASE Enter(c)
  BY <1>1, <1>13 DEF Types, HomelessInv, Enter
<1>14. CASE SwitchContextStep2(c)
  BY <1>1, <1>14 DEF Types, HomelessInv, SwitchContextStep2
<1> QED BY <1>2, <1>3, <1>4, <1>5, <1>6, <1>7, <1>8, <1>9, <1>10, <1>11, <1>12, <1>13, <1>14
        DEF CoreStep

\* The parts of the invariant.
LEMMA InvParts ==
    /\ IInv <=> sched \in Global!Queues /\ KernelInv /\ Rest /\ Homes
    /\ IInv' <=> sched' \in Global!Queues /\ KernelInv' /\ Rest' /\ Homes'
BY TypeFacts DEF IInv, Rest, Homes

\* A change of status or pause flag.
LEMMA SetSchedulingStateInv ==
    ASSUME IInv, NEW a \in Actors, Caller(a), NEW t \in Threads,
           NEW st \in {"None", "Runnable", "Paused", "Exited"}, NEW pa \in BOOLEAN,
           status[t] = "Runnable" => st = "Runnable" \/ (a \in Cores /\ t = current_thread[a]),
           SetSchedulingState(a, t, st, pa)
    PROVE  IInv'
<1>0. Rest /\ Homes /\ Types /\ sched \in Global!Queues /\ KernelInv
  BY InvParts DEF Rest
<1>1. /\ status' = [status EXCEPT ![t] = st] /\ paused' = [paused EXCEPT ![t] = pa]
      /\ sched' = Global!AdjustSchedulingOnStatus(t, IsRunnable(t), st = "Runnable" /\ ~pa)
      /\ EnterLock(a)
  BY DEF SetSchedulingState
<1>2. sched' \in Global!Queues /\ KernelInv' /\ sched'.processor = sched.processor
  BY <1>0, <1>1, AdjustKernel
<1>3. /\ status' \in [Threads -> {"None", "Runnable", "Paused", "Exited"}]
      /\ paused' \in [Threads -> BOOLEAN]
      /\ \A u \in Threads : status[u] = "Runnable" =>
           status'[u] = "Runnable" \/ (a \in Cores /\ u = current_thread[a])
  BY <1>0, <1>1 DEF Types
<1>4. Rest'
  BY <1>0, <1>1, <1>3, EnterLockInv
<1>5. Homes'
  <2>1. KeepCores(None) /\ None \notin Threads
    BY <1>2, ConstantFacts DEF KeepCores
  <2> QED BY <1>0, <1>1, <2>1, EnterLockHomes
<1> QED BY <1>2, <1>4, <1>5, InvParts

\* The thread that calls is the current one of its core, and has a core.
LEMMA CallerFacts ==
    ASSUME Rest, Homes, NEW c \in Cores, Caller(c)
    PROVE  current_thread[c] \in Threads /\ sched.processor[current_thread[c]] # -1
<1>1. pc[c] = "guest" /\ current_thread[c] \in Threads
  BY ConstantFacts DEF Rest, Types, FiberInv, Caller
<1>2. context_guard[current_thread[c]] = c
  BY <1>1 DEF Rest, ContextGuardInv, InThread
<1> QED BY <1>1, <1>2 DEF Homes, HomelessInv, Leaving

\* The calls into the kernel.
LEMMA CallInv ==
    ASSUME IInv, NEW a \in Actors, Call(a) PROVE IInv'
<1>0. Rest /\ Homes /\ Types /\ sched \in Global!Queues /\ KernelInv
  BY InvParts DEF Rest
<1>1. ASSUME NEW t \in Threads, Resume(a, t) PROVE IInv'
  <2>1. paused[t] \in BOOLEAN
    BY <1>0 DEF Types
  <2> QED BY <1>1, <2>1, SetSchedulingStateInv DEF Resume
<1>2. ASSUME a \in Cores, Block(a) PROVE IInv'
  <2>1. Caller(a)
    BY <1>2 DEF Block
  <2>2. current_thread[a] \in Threads
    BY <1>0, <1>2, <2>1, CallerFacts
  <2>3. paused[current_thread[a]] \in BOOLEAN
    BY <1>0, <2>2 DEF Types
  <2>4. PICK new \in {"Paused", "Exited"} :
          SetSchedulingState(a, current_thread[a], new, paused[current_thread[a]])
    BY <1>2 DEF Block
  <2> QED BY <1>2, <2>1, <2>2, <2>3, <2>4, SetSchedulingStateInv
<1>3. ASSUME a \in Cores, NEW t \in Threads, SetThreadActivity(a, t) PROVE IInv'
  <2>1. (~paused[t]) \in BOOLEAN /\ status[t] \in {"None", "Runnable", "Paused", "Exited"}
    BY <1>0 DEF Types
  <2> QED BY <1>3, <2>1, SetSchedulingStateInv DEF SetThreadActivity
<1>4. ASSUME a \in Cores, Yield(a) PROVE IInv'
  <2>1. Caller(a) /\ EnterLock(a) /\ UNCHANGED <<status, paused>>
    BY <1>4 DEF Yield
  <2>2. current_thread[a] \in Threads /\ sched.processor[current_thread[a]] # -1
    BY <1>0, <1>4, <2>1, CallerFacts
  <2>3. sched' \in Global!Queues /\ KernelInv' /\ KeepCores(current_thread[a])
    <3>1. CASE IsRunnable(current_thread[a])
      <4>1. sched' \in Global!Yielded(sched, current_thread[a])
        BY <1>4, <3>1 DEF Yield
      <4> QED BY <1>0, <2>1, <2>2, <3>1, <4>1, YieldKernel
    <3>2. CASE ~IsRunnable(current_thread[a])
      <4>1. sched' = sched
        BY <1>4, <3>2 DEF Yield
      <4>2. sched' \in Global!Queues /\ KernelInv'
        BY <1>0, <2>1, <4>1, SameKernel
      <4> QED BY <4>1, <4>2 DEF KeepCores
    <3> QED BY <3>1, <3>2
  <2>4. Rest'
    <3>1. /\ status' \in [Threads -> {"None", "Runnable", "Paused", "Exited"}]
          /\ paused' \in [Threads -> BOOLEAN]
          /\ \A t \in Threads : status[t] = "Runnable" => status'[t] = "Runnable"
      BY <1>0, <2>1 DEF Types
    <3> QED BY <1>0, <2>1, <3>1, EnterLockInv
  <2>5. Homes'
    BY <1>0, <1>4, <2>1, <2>3, EnterLockHomes
  <2> QED BY <2>3, <2>4, <2>5, InvParts
<1> QED BY <1>1, <1>2, <1>3, <1>4 DEF Call

\* The selection does not touch the cores yet.
LEMMA SelectInv ==
    ASSUME IInv, NEW a \in Actors, Select(a) PROVE IInv'
<1>0. Rest /\ Homes /\ sched \in Global!Queues /\ KernelInv
  BY InvParts
<1>1. /\ sched' = Global!SelectThreads(sched).s /\ top_threads' = Global!SelectThreads(sched).top
      /\ UNCHANGED <<status, paused>>
  BY DEF Select
<1>2. /\ sched' \in Global!Queues /\ KernelInv' /\ KeepCores(None)
      /\ top_threads' \in [Cores -> Threads \cup {None}]
      /\ \A c \in Cores : \A t \in Threads :
           top_threads'[c] = t => sched'.processor[t] = c
  BY <1>0, <1>1, SelectKernel
<1>3. Rest'
  <2> USE <1>0, <1>2, ConstantFacts, FiberFacts
          DEF Rest, Select, BeginUpdate, Goto, switchVars, interruptVars, fiberVars
  <2>1. Types'
    BY DEF Types, Places
  <2>2. FiberInv'
    BY DEF Types, FiberInv, InThread, InSwitch
  <2>3. FiberGuardInv'
    BY DEF Types, FiberGuardInv
  <2>4. ContextGuardInv'
    BY DEF Types, ContextGuardInv, InThread
  <2>5. SelectionInv'
    BY DEF SelectionInv
  <2>6. InterruptInv'
    BY DEF Types, InterruptInv
  <2>7. CheckedInv'
    BY DEF Types, CheckedInv
  <2> QED BY ONLY <2>1, <2>2, <2>3, <2>4, <2>5, <2>6, <2>7 DEF Rest
<1>4. Homes'
  BY <1>0, <1>2, SelectHomes
<1> QED BY <1>2, <1>3, <1>4, InvParts

-----------------------------------------------------------------------------
(* The theorems *)

\* The invariant holds at first.
LEMMA InitInv == Init => IInv
<1> SUFFICES ASSUME Init PROVE IInv
  OBVIOUS
<1>1. \A t \in Threads : FirstOf(Masks[t]) \in Masks[t] /\ Masks[t] \subseteq Cores
  BY ConstantFacts, FirstOfFacts
<1>2. Urgency \in [Threads -> {Urgency[t] : t \in Threads}]
  BY CoreSchedulerAssumption
<1>3. sched \in Global!Queues
  <2>1. [c \in Cores |-> <<>>] \in [Cores -> Seq(Global!Entries)]
    OBVIOUS
  <2>2. [t \in Threads |-> FirstOf(Masks[t])] \in [Threads -> Cores \cup {-1}]
    BY <1>1
  <2> QED BY <1>2, <2>1, <2>2, SameCores DEF Init, Global!Queues
<1>4. KernelInv
  <2>1. ASSUME NEW c \in Cores
        PROVE  sched.scheduled[c] = <<>> /\ sched.suggested[c] = <<>>
    BY DEF Init
  <2>2. ASSUME NEW t \in Threads
        PROVE  /\ sched.processor[t] \in Masks[t] /\ sched.processor[t] # -1
               /\ ~Global!IsRunnable(t)
    BY <1>1, ConstantFacts DEF Init, Global!IsRunnable
  <2>3. Global!QueuesSorted
    BY <2>1, SameCores DEF Global!QueuesSorted, Global!Sorted
  <2>4. Global!QueuesMatchThreads
    BY <2>1, <2>2, SameCores
       DEF Global!QueuesMatchThreads, Global!MatchesThread, Global!Lacks
  <2> QED BY <2>2, <2>3, <2>4 DEF KernelInv
<1>5. Rest
  <2> USE ConstantFacts, FiberFacts DEF Init
  <2>1. Types
    BY DEF Types, Places
  <2>2. FiberInv
    BY DEF FiberInv, InThread, InSwitch
  <2>3. FiberGuardInv
    BY DEF FiberGuardInv
  <2>4. ContextGuardInv
    BY DEF ContextGuardInv
  <2>5. SelectionInv /\ InterruptInv /\ CheckedInv
    BY DEF SelectionInv, InterruptInv, CheckedInv
  <2> QED BY ONLY <2>1, <2>2, <2>3, <2>4, <2>5 DEF Rest
<1>6. Homes
  BY ConstantFacts DEF Init, Homes, SelectingInv, HomelessInv
<1> QED BY <1>3, <1>4, <1>5, <1>6, InvParts

\* Every step keeps it.
LEMMA NextInv == IInv /\ [Next]_vars => IInv'
<1> SUFFICES ASSUME IInv, [Next]_vars PROVE IInv'
  OBVIOUS
<1>0. Rest /\ Homes /\ sched \in Global!Queues /\ KernelInv
  BY InvParts
<1> SUFFICES ASSUME ~(\E a \in Actors : Call(a) \/ Select(a)) PROVE IInv'
  BY CallInv, SelectInv
<1>1. UNCHANGED <<sched, status, paused>> /\ Rest' /\ Homes'
  <2>1. ASSUME NEW a \in Actors, UpdateThread(a)
        PROVE  UNCHANGED <<sched, status, paused>> /\ Rest' /\ Homes'
    BY <1>0, <2>1, UpdateThreadInv, UpdateThreadHomes DEF UpdateThread
  <2>2. ASSUME NEW a \in Actors, Unlock(a)
        PROVE  UNCHANGED <<sched, status, paused>> /\ Rest' /\ Homes'
    BY <1>0, <2>2, UnlockInv, KernelHomes DEF Unlock
  <2>3. ASSUME NEW a \in Actors, SetEvent(a) \/ SetFlag(a) \/ Interrupted(a)
        PROVE  UNCHANGED kernelVars /\ Rest' /\ Homes'
    <3>1. Rest' /\ Homes'
      BY <1>0, <2>3, SetEventInv, SetFlagInv, InterruptedInv, KernelHomes
    <3> QED BY <2>3, <3>1 DEF SetEvent, SetFlag, Interrupted
  <2>4. ASSUME NEW c \in Cores, CoreStep(c)
        PROVE  UNCHANGED kernelVars /\ Rest' /\ Homes'
    <3>1. Rest'
      BY <1>0, <2>4, GuestInterruptedInv, IdleInterruptedInv, ClearInterruptInv,
         NoSwitchInv, SwitchContextInv, LeaveInv, TakeSelectionInv, LookPendingInv,
         LockContextInv, CheckRunnableInv, CheckProcessorInv, EnterInv,
         SwitchContextStep2Inv DEF CoreStep
    <3>2. UNCHANGED kernelVars
      BY <2>4 DEF CoreStep, GuestInterrupted, IdleInterrupted, ClearInterrupt, NoSwitch,
         SwitchContext, Leave, TakeSelection, LookPending, LockContext, CheckRunnable,
         CheckProcessor, CheckContext, Enter, SwitchContextStep2
    <3>3. Homes'
      BY <1>0, <2>4, CoreHomes
    <3> QED BY <3>1, <3>2, <3>3
  <2>5. CASE UNCHANGED vars
    <3> USE <1>0, <2>5 DEF Rest, vars, kernelVars, switchVars, interruptVars, fiberVars
    <3>1. Types'
      BY DEF Types
    <3>2. FiberInv' /\ FiberGuardInv'
      BY DEF FiberInv, FiberGuardInv, InThread, InSwitch
    <3>3. ContextGuardInv' /\ SelectionInv'
      BY DEF ContextGuardInv, SelectionInv, InThread
    <3>4. InterruptInv' /\ CheckedInv'
      BY DEF InterruptInv, CheckedInv
    <3>5. UNCHANGED <<sched, status, paused>>
      OBVIOUS
    <3>6. Homes'
      BY DEF Homes, SelectingInv, HomelessInv, Leaving
    <3> QED BY ONLY <3>1, <3>2, <3>3, <3>4, <3>5, <3>6 DEF Rest
  <2> QED BY <2>1, <2>2, <2>3, <2>4, <2>5 DEF Next, KernelStep, kernelVars
<1>2. sched' \in Global!Queues /\ KernelInv'
  BY <1>0, <1>1, SameKernel
<1> QED BY <1>1, <1>2, InvParts

\* The inductive invariant holds.
THEOREM Invariance == Spec => []IInv
<1>1. Init => IInv
  BY InitInv
<1>2. IInv /\ [Next]_vars => IInv'
  BY NextInv
<1> QED BY <1>1, <1>2, PTL DEF Spec

\* Kernel code runs on the fiber of the thread that the scheduler of its core
\* calls current, on one core only and with the guard of its registers, however
\* threads move between the cores while these switch.
THEOREM FibersRunCurrentThreads == Spec => []RunsCurrentThread
<1>1. IInv => RunsCurrentThread
  BY ConstantFacts, FiberFacts
     DEF IInv, FiberInv, FiberGuardInv, ContextGuardInv, InThread, RunsCurrentThread
<1> QED BY <1>1, Invariance, PTL

\* A pending switch always has an interrupt that is set or on its way.
THEOREM InterruptsArrive == Spec => []NoLostInterrupt
<1>1. IInv => NoLostInterrupt
  BY DEF IInv, InterruptInv, NoLostInterrupt
<1> QED BY <1>1, Invariance, PTL

\* A core that has no switch pending runs its selection, or idles without one.
THEOREM SettledCoresRunSelection == Spec => []SettledRunsSelection
<1>1. IInv => SettledRunsSelection
  BY DEF IInv, SelectionInv, FiberInv, Settled, SettledRunsSelection
<1> QED BY <1>1, Invariance, PTL

\* The assertion of SwitchContextStep2 never fails.
THEOREM LoadedThreadRunnable == Spec => []MustBeRunnable
<1>1. IInv => MustBeRunnable
  BY ConstantFacts DEF IInv, CheckedInv, MustBeRunnable
<1> QED BY <1>1, Invariance, PTL
=============================================================================
