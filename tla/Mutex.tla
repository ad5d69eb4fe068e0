-------------------------------- MODULE Mutex --------------------------------
(***************************************************************************)
(* Kernel::Mutex (ArbitrateLock / ArbitrateUnlock), the process-wide key   *)
(* condition variables (WaitProcessWideKeyAtomic / SignalProcessWideKey)   *)
(* and priority inheritance between the threads that wait for a mutex.     *)
(*                                                                         *)
(* A mutex is a word of guest memory: the handle of its owner and a flag   *)
(* that tells the owner to unlock through the kernel.  The guest's user    *)
(* space code reads and writes the word as well; its protocol is not part  *)
(* of the repository and is modelled from what the kernel code expects.    *)
(*                                                                         *)
(* A block under SchedulerLock is one step.  Timed waits are ended by a    *)
(* time event at any moment of the wait, which is what the TimeManager     *)
(* protocol of module Synchronization allows.                              *)
(*                                                                         *)
(* Operators named Fault... are deliberately wrong versions of the         *)
(* definition that follows them, used by no specification: see module      *)
(* Synchronization.                                                        *)
(***************************************************************************)
EXTENDS Integers, FiniteSets, SequencesExt

CONSTANTS
    Threads,
    Mutexes,      \* addresses of mutex words
    CondVars,     \* addresses of condition variables
    Priorities,   \* thread priorities; a lower number is more urgent
    Targets,      \* arguments of SignalProcessWideKey: how many to wake
    None

ASSUME MutexAssumption ==
    /\ IsFiniteSet(Threads)
    /\ Priorities \subseteq Nat
    /\ Targets \subseteq Int
    /\ None \notin Threads \cup Mutexes \cup CondVars

\* The kernel's state is one record, so that the nested calls of the code are
\* functions from kernel state to kernel state.
VARIABLES
    k,        \* the kernel objects, see Kernel
    pc,       \* where each thread is
    addr,     \* local: the mutex a call is about
    holder,   \* local of ArbitrateLock: the owner the guest has read
    timed,    \* local of WaitProcessWideKeyAtomic: it has a timeout
    held      \* the mutexes each guest thread believes it holds

vars == <<k, pc, addr, holder, timed, held>>

Free == [owner |-> None, waiters |-> FALSE]
Words == {Free} \cup [owner : Threads, waiters : BOOLEAN]

Kernel ==
    [word     : [Mutexes -> Words],               \* guest memory
     status   : [Threads -> {"Ready", "WaitMutex", "WaitCondVar"}],
     result   : [Threads -> {"SUCCESS", "TIMEOUT"}],  \* signaling_result
     nominal  : [Threads -> Priorities],          \* nominal_priority
     priority : [Threads -> Priorities],          \* current_priority
     owner    : [Threads -> Threads \cup {None}], \* lock_owner
     waiting  : [Threads -> Seq(Threads)],        \* wait_mutex_threads
     address  : [Threads -> Mutexes \cup {None}], \* mutex_wait_address
     condvar  : [Threads -> CondVars \cup {None}],\* condvar_wait_address
     conds    : [CondVars -> Seq(Threads)]]       \* Process::cond_var_threads

Pcs == {"user", "arbLock", "mutexWait", "recheck", "arbUnlock", "condWait",
        "condReturn"}

-----------------------------------------------------------------------------
(* Priority inheritance *)

\* The first of some positions in a list, for std::find_if.
First(positions) == CHOOSE i \in positions : \A j \in positions : i <= j

\* Both ordered lists of the kernel insert in front of the first entry that is
\* less urgent than t, or at the end.
InsertByPriority(list, t, priority) ==
    LET later == {i \in DOMAIN list : priority[list[i]] > priority[t]}
    IN InsertAt(list, IF later = {} THEN Len(list) + 1 ELSE First(later), t)

RemoveThread(list, t) ==
    LET found == {i \in DOMAIN list : list[i] = t}
    IN IF found = {} THEN list ELSE RemoveAt(list, First(found))

\* Process::InsertConditionVariableThread and RemoveConditionVariableThread.
InsertConditionVariableThread(s, t) ==
    LET c == s.condvar[t]
    IN [s EXCEPT !.conds[c] = InsertByPriority(@, t, s.priority)]

RemoveConditionVariableThread(s, t) ==
    [s EXCEPT !.conds[s.condvar[t]] = RemoveThread(@, t)]

\* Thread::AddMutexWaiter and RemoveMutexWaiter without their final call of
\* UpdatePriority on the owner.
LinkWaiter(s, o, t) ==
    [s EXCEPT !.waiting[o] = InsertByPriority(@, t, s.priority),
              !.owner[t] = o]

UnlinkWaiter(s, o, t) ==
    [s EXCEPT !.waiting[o] = RemoveThread(@, t), !.owner[t] = None]

\* The priority t should run at: its own or its first waiter's.
Inherited(s, t) ==
    IF s.waiting[t] # <<>> /\ s.priority[Head(s.waiting[t])] < s.nominal[t]
      THEN s.priority[Head(s.waiting[t])]
      ELSE s.nominal[t]

\* SetCurrentPriority, which moves a thread that is blocked on a condition
\* variable to its new place in the list.
SetCurrentPriority(s, t, p) ==
    IF s.status[t] = "WaitCondVar"
      THEN InsertConditionVariableThread(
               [RemoveConditionVariableThread(s, t) EXCEPT !.priority[t] = p], t)
      ELSE [s EXCEPT !.priority[t] = p]

\* Thread::UpdatePriority: the owner is updated when the thread leaves its
\* list, when it comes back, and once more.  up is what the call does for the
\* next link of the chain of lock owners.
UpdateLink(up, s, t) ==
    LET o == s.owner[t]
        set == SetCurrentPriority(s, t, Inherited(s, t))
        Up(r) == up[<<r, o>>]
    IN IF Inherited(s, t) = s.priority[t] THEN s
       ELSE IF o = None THEN set
       ELSE Up(Up(LinkWaiter(Up(UnlinkWaiter(set, o, t)), o, t)))

\* The chain has at most one link per thread.
UpdateChain[n \in 0 .. Cardinality(Threads)] ==
    IF n = 0
      THEN [x \in Kernel \X Threads |-> x[1]]
      ELSE [x \in Kernel \X Threads |->
              UpdateLink(UpdateChain[n - 1], x[1], x[2])]

UpdatePriority(s, t) == UpdateChain[Cardinality(Threads)][<<s, t>>]

AddMutexWaiter(s, o, t) ==
    IF s.owner[t] = o THEN s ELSE UpdatePriority(LinkWaiter(s, o, t), o)

\* Fault: the owner keeps the priority it inherited from the thread.
FaultKeepPriority(s, o, t) == UnlinkWaiter(s, o, t)

RemoveMutexWaiter(s, o, t) == UpdatePriority(UnlinkWaiter(s, o, t), o)

\* "auto* owner = GetLockOwner(); if (owner != nullptr) owner->Remove...".
LeaveOwner(s, t) ==
    IF s.owner[t] = None THEN s ELSE RemoveMutexWaiter(s, s.owner[t], t)

-----------------------------------------------------------------------------
(* Mutex *)

\* The positions of the waiters for the mutex at address m in the list of its
\* owner o.
MutexWaiters(s, o, m) ==
    {i \in DOMAIN s.waiting[o] : s.address[s.waiting[o][i]] = m}

\* The first of the most urgent ones.
HighestPriorityWaiter(s, o, m) ==
    LET list == s.waiting[o]
        ws == MutexWaiters(s, o, m)
    IN list[First({i \in ws : \A j \in ws :
                     s.priority[list[i]] <= s.priority[list[j]]})]

\* The loop over the list of the old owner: what each round leaves.
TransferRounds(s, m, o, new) ==
    LET list == s.waiting[o]
        move(r, t) == AddMutexWaiter(RemoveMutexWaiter(r, o, t), new, t)
        after[n \in 0 .. Len(list)] ==
          IF n = 0 THEN s
          ELSE IF s.address[list[n]] # m THEN after[n - 1]
          ELSE move(after[n - 1], list[n])
    IN after

\* TransferMutexOwnership: the remaining waiters follow the mutex.
TransferMutexOwnership(s, m, o, new) ==
    LET removed == RemoveMutexWaiter(s, o, new)
    IN TransferRounds(removed, m, o, new)[Len(removed.waiting[o])]

\* Thread::ResumeFromWait: a thread that is Ready already stays so.
Resume(s, t) == [s EXCEPT !.status[t] = "Ready"]

\* Fault: the flag is set only for three or more waiters.
FaultFlagTooLate(s, o, m) ==
    LET ws == MutexWaiters(s, o, m)
        new == HighestPriorityWaiter(s, o, m)
        moved == TransferMutexOwnership(s, m, o, new)
    IN IF ws = {}
         THEN [s EXCEPT !.word[m] = Free]
         ELSE [Resume(moved, new) EXCEPT
                  !.result[new] = "SUCCESS",
                  !.word[m] = [owner |-> new, waiters |-> Cardinality(ws) >= 3]]

\* Fault: the new owner is not told that its wait succeeded.
FaultNotTold(s, o, m) ==
    LET ws == MutexWaiters(s, o, m)
        new == HighestPriorityWaiter(s, o, m)
        moved == TransferMutexOwnership(s, m, o, new)
    IN IF ws = {}
         THEN [s EXCEPT !.word[m] = Free]
         ELSE [Resume(moved, new) EXCEPT
                  !.word[m] = [owner |-> new, waiters |-> Cardinality(ws) >= 2]]

Unlock(s, o, m) ==
    LET ws == MutexWaiters(s, o, m)
        new == HighestPriorityWaiter(s, o, m)
        moved == TransferMutexOwnership(s, m, o, new)
    IN IF ws = {}
         THEN [s EXCEPT !.word[m] = Free]
         ELSE [Resume(moved, new) EXCEPT
                  !.result[new] = "SUCCESS",
                  !.owner[new] = None,
                  !.word[m] = [owner |-> new, waiters |-> Cardinality(ws) >= 2]]

-----------------------------------------------------------------------------

Init ==
    /\ \E p \in [Threads -> Priorities] :
         k = [word     |-> [m \in Mutexes |-> Free],
              status   |-> [t \in Threads |-> "Ready"],
              result   |-> [t \in Threads |-> "SUCCESS"],
              nominal  |-> p,
              priority |-> p,
              owner    |-> [t \in Threads |-> None],
              waiting  |-> [t \in Threads |-> <<>>],
              address  |-> [t \in Threads |-> None],
              condvar  |-> [t \in Threads |-> None],
              conds    |-> [c \in CondVars |-> <<>>]]
    /\ pc = [t \in Threads |-> "user"]
    /\ addr = [t \in Threads |-> None]
    /\ holder = [t \in Threads |-> None]
    /\ timed = [t \in Threads |-> FALSE]
    /\ held = [t \in Threads |-> {}]

At(t, label) == pc[t] = label /\ k.status[t] = "Ready"
Goto(t, label) == pc' = [pc EXCEPT ![t] = label]

\* A call returns: its locals are gone.
Leave(t) ==
    /\ Goto(t, "user")
    /\ addr' = [addr EXCEPT ![t] = None]
    /\ holder' = [holder EXCEPT ![t] = None]
    /\ timed' = [timed EXCEPT ![t] = FALSE]

\* Guest code (external): take a free mutex with a compare-and-swap ...
GuestLock(t, m) ==
    /\ At(t, "user")
    /\ m \notin held[t]
    /\ k.word[m] = Free
    /\ k' = [k EXCEPT !.word[m].owner = t]
    /\ held' = [held EXCEPT ![t] = @ \cup {m}]
    /\ UNCHANGED <<pc, addr, holder, timed>>

\* ... or flag a taken one and ask the kernel to wait for its owner.
GuestLockContended(t, m) ==
    /\ At(t, "user")
    /\ m \notin held[t]
    /\ k.word[m].owner # None
    /\ k' = [k EXCEPT !.word[m].waiters = TRUE]
    /\ addr' = [addr EXCEPT ![t] = m]
    /\ holder' = [holder EXCEPT ![t] = k.word[m].owner]
    /\ Goto(t, "arbLock")
    /\ UNCHANGED <<timed, held>>

\* Mutex::TryAcquire, first block.  If the word is no longer the one the
\* guest has seen, the call succeeds at once and the guest looks again.
TryAcquire(t) ==
    /\ At(t, "arbLock")
    /\ LET m == addr[t]
           o == holder[t]
           s == [k EXCEPT !.result[t] = "SUCCESS"]
       IN \/ /\ k.word[m] # [owner |-> o, waiters |-> TRUE]
             /\ k' = s
             /\ Goto(t, "recheck")
          \/ /\ k.word[m] = [owner |-> o, waiters |-> TRUE]
             /\ k' = AddMutexWaiter([s EXCEPT !.address[t] = m,
                                              !.status[t] = "WaitMutex"], o, t)
             /\ Goto(t, "mutexWait")
    /\ UNCHANGED <<addr, holder, timed, held>>

\* Second block of TryAcquire, once the thread has been resumed.
TryAcquireResume(t) ==
    /\ At(t, "mutexWait")
    /\ k' = LeaveOwner(k, t)
    /\ Goto(t, "recheck")
    /\ UNCHANGED <<addr, holder, timed, held>>

\* Guest code (external): the lock is taken if the word says so, else the
\* guest starts over.
GuestRecheck(t) ==
    /\ At(t, "recheck")
    /\ held' = IF k.word[addr[t]].owner = t
                 THEN [held EXCEPT ![t] = @ \cup {addr[t]}]
                 ELSE held
    /\ Leave(t)
    /\ UNCHANGED k

\* Guest code (external): clear an unflagged word, else call the kernel.
GuestUnlock(t, m) ==
    /\ At(t, "user")
    /\ m \in held[t]
    /\ held' = [held EXCEPT ![t] = @ \ {m}]
    /\ IF k.word[m].waiters
         THEN /\ addr' = [addr EXCEPT ![t] = m]
              /\ Goto(t, "arbUnlock")
              /\ UNCHANGED k
         ELSE /\ k' = [k EXCEPT !.word[m] = Free]
              /\ UNCHANGED <<pc, addr>>
    /\ UNCHANGED <<holder, timed>>

\* Mutex::Release (svcArbitrateUnlock).
Release(t) ==
    /\ At(t, "arbUnlock")
    /\ k' = Unlock(k, t, addr[t])
    /\ Leave(t)
    /\ UNCHANGED held

-----------------------------------------------------------------------------
(* Condition variables *)

\* WaitProcessWideKeyAtomic, first block: the mutex is released; with a zero
\* timeout the call then returns, else the thread joins the list.
WaitProcessWideKeyAtomic(t, m, c, timeout) ==
    /\ At(t, "user")
    /\ m \in held[t]
    /\ held' = [held EXCEPT ![t] = @ \ {m}]
    /\ LET released == Unlock([k EXCEPT !.result[t] = "TIMEOUT"], t, m)
       IN IF timeout = "zero"
            THEN k' = released /\ UNCHANGED <<pc, addr, timed>>
            ELSE /\ k' = InsertConditionVariableThread(
                           [released EXCEPT !.condvar[t] = c,
                                            !.address[t] = m,
                                            !.status[t] = "WaitCondVar"], t)
                 /\ addr' = [addr EXCEPT ![t] = m]
                 /\ timed' = [timed EXCEPT ![t] = timeout = "finite"]
                 /\ Goto(t, "condWait")
    /\ UNCHANGED holder

\* Thread::OnWakeUp from the time event of the wait.
TimeEvent(t) ==
    /\ pc[t] = "condWait" /\ timed[t]
    /\ k.status[t] # "Ready"
    /\ k' = Resume(k, t)
    /\ UNCHANGED <<pc, addr, holder, timed, held>>

\* Second block of WaitProcessWideKeyAtomic: leave both lists.
WaitProcessWideKeyResume(t) ==
    /\ At(t, "condWait")
    /\ k' = RemoveConditionVariableThread(LeaveOwner(k, t), t)
    /\ Goto(t, "condReturn")
    /\ UNCHANGED <<addr, holder, timed, held>>

\* The result is read after the lock is released.  The guest holds the mutex
\* again if the call succeeded, and has to lock it anew after a timeout.
WaitProcessWideKeyReturn(t) ==
    /\ At(t, "condReturn")
    /\ held' = IF k.result[t] = "SUCCESS"
                 THEN [held EXCEPT ![t] = @ \cup {addr[t]}]
                 ELSE held
    /\ Leave(t)
    /\ UNCHANGED k

\* Fault: the word is taken for the thread, whoever owns it.
FaultSteal(s, t) ==
    LET m == s.address[t]
        listed == RemoveConditionVariableThread(s, t)
    IN [Resume(listed, t) EXCEPT !.word[m].owner = t, !.result[t] = "SUCCESS"]

\* Fault: a thread that finds the mutex taken leaves the condition variable
\* without waiting for the owner.
FaultDropped(s, t) ==
    LET m == s.address[t]
        listed == RemoveConditionVariableThread(s, t)
    IN IF s.word[m] = Free
         THEN [Resume(listed, t) EXCEPT !.word[m].owner = t,
                                        !.result[t] = "SUCCESS"]
         ELSE [listed EXCEPT !.word[m].waiters = TRUE]

\* What SignalProcessWideKey does for one thread of the list: give it the
\* mutex if that is free, else make it wait for the owner.
SignalOne(s, t) ==
    LET m == s.address[t]
        word == s.word[m]
        listed == RemoveConditionVariableThread(s, t)
        acquired == LeaveOwner([listed EXCEPT !.word[m].owner = t], t)
        blocked == [listed EXCEPT
                       !.word[m].waiters = TRUE,
                       !.status[t] = IF @ = "WaitCondVar" THEN "WaitMutex" ELSE @]
    IN IF word = Free
         THEN [Resume(acquired, t) EXCEPT !.owner[t] = None,
                                          !.result[t] = "SUCCESS"]
         ELSE AddMutexWaiter(blocked, word.owner, t)

\* The loop over the threads of list: what each round leaves.
SignalRounds(s, list) ==
    LET after[n \in 0 .. Len(list)] ==
          IF n = 0 THEN s ELSE SignalOne(after[n - 1], list[n])
    IN after

\* At most `target' threads from the front of the list, or all of them.
SignalProcessWideKey(t, c, target) ==
    /\ At(t, "user")
    /\ LET list == k.conds[c]
           last == IF target > 0 /\ target < Len(list) THEN target ELSE Len(list)
       IN k' = SignalRounds(k, list)[last]
    /\ UNCHANGED <<pc, addr, holder, timed, held>>

\* Thread::SetPriority (svcSetThreadPriority).
SetPriority(t, u, p) ==
    /\ At(t, "user")
    /\ p # k.nominal[u]
    /\ k' = UpdatePriority([k EXCEPT !.nominal[u] = p], u)
    /\ UNCHANGED <<pc, addr, holder, timed, held>>

Timeouts == {"zero", "finite", "infinite"}

MutexStep(t) ==
    \/ \E m \in Mutexes :
         GuestLock(t, m) \/ GuestLockContended(t, m) \/ GuestUnlock(t, m)
    \/ TryAcquire(t)
    \/ TryAcquireResume(t)
    \/ GuestRecheck(t)
    \/ Release(t)

CondVarStep(t) ==
    \/ \E m \in Mutexes, c \in CondVars, timeout \in Timeouts :
         WaitProcessWideKeyAtomic(t, m, c, timeout)
    \/ TimeEvent(t)
    \/ WaitProcessWideKeyResume(t)
    \/ WaitProcessWideKeyReturn(t)
    \/ \E c \in CondVars, target \in Targets : SignalProcessWideKey(t, c, target)

Next ==
    \E t \in Threads :
        \/ MutexStep(t)
        \/ CondVarStep(t)
        \/ \E u \in Threads, p \in Priorities : SetPriority(t, u, p)

Spec == Init /\ [][Next]_vars

-----------------------------------------------------------------------------
(* Properties *)

\* Types; a mutex word is free or has an owner: the waiter flag never stays
\* behind alone, which no compare-and-swap of the guest would accept.
TypeOK ==
    /\ k \in Kernel
    /\ pc \in [Threads -> Pcs]
    /\ addr \in [Threads -> Mutexes \cup {None}]
    /\ holder \in [Threads -> Threads \cup {None}]
    /\ timed \in [Threads -> BOOLEAN]
    /\ held \in [Threads -> SUBSET Mutexes]

\* Mutual exclusion: a thread that believes it holds a mutex is its owner in
\* the mutex word, whatever hand-offs, time events and signals have happened.
HeldIsOwned ==
    \A t \in Threads : \A m \in held[t] : k.word[m].owner = t

\* No orphaned mutex: the owner in the word knows that it owns the mutex, or is
\* in a call about that mutex which is going to tell it.  In particular a wait
\* that reports a timeout does not leave its thread the owner.
OwnerKnows ==
    \A m \in Mutexes : LET t == k.word[m].owner IN
        t # None =>
            \/ m \in held[t]
            \/ /\ addr[t] = m
               /\ \/ pc[t] \in {"arbUnlock", "mutexWait", "recheck"}
                  \/ pc[t] \in {"condWait", "condReturn"}
                       /\ k.result[t] = "SUCCESS"

\* "List of threads that are waiting for a mutex that is held by this thread"
\* (thread.h:630): every waiter waits for a mutex the thread owns, whose word
\* is flagged, so that its unlock reaches the kernel and finds the waiter.
WaitersAreServed ==
    \A o \in Threads : \A t \in ToSet(k.waiting[o]) :
        k.word[k.address[t]] = [owner |-> o, waiters |-> TRUE]

\* A thread blocked on a mutex or a condition variable is in exactly the list
\* its waker will look at.
BlockedIsListed ==
    \A t \in Threads :
        /\ k.status[t] = "WaitMutex" => k.owner[t] # None
        /\ k.status[t] = "WaitCondVar" =>
              k.owner[t] = None /\ Contains(k.conds[k.condvar[t]], t)

\* Priority inheritance (Thread::UpdatePriority): every thread runs at the more
\* urgent of its own priority and that of its most urgent waiter, which has
\* inherited from its own waiters in the same way, after any sequence of
\* hand-offs, timeouts and priority changes; its waiters are in order.
PriorityInherited ==
    \A o \in Threads :
        /\ k.priority[o] = Inherited(k, o)
        /\ \A i, j \in DOMAIN k.waiting[o] :
             i < j => k.priority[k.waiting[o][i]] <= k.priority[k.waiting[o][j]]

-----------------------------------------------------------------------------
(* The inductive invariant *)

\* The lists hold each thread once: a thread is in the list of its lock owner,
\* and a thread that is blocked on a condition variable is in the list of that.
ListInv ==
    /\ \A o \in Threads :
         /\ IsInjective(k.waiting[o])
         /\ ToSet(k.waiting[o]) = {t \in Threads : k.owner[t] = o}
    /\ \A c \in CondVars :
         /\ IsInjective(k.conds[c])
         /\ \A t \in ToSet(k.conds[c]) : k.condvar[t] = c
    /\ \A t \in Threads :
         k.status[t] = "WaitCondVar" =>
           k.condvar[t] \in CondVars /\ t \in ToSet(k.conds[k.condvar[t]])

\* The thread is in the list of some condition variable.
Listed(t) == \E c \in CondVars : t \in ToSet(k.conds[c])

\* What the call that a thread is in says of its place in the lists and of the
\* mutex it is about.
CallInv ==
    \A t \in Threads :
      /\ pc[t] # "user" => addr[t] \in Mutexes \ held[t]
      /\ k.owner[t] # None =>
           /\ pc[t] \in {"mutexWait", "condWait"} /\ k.address[t] = addr[t]
           /\ ~Listed(t)
           /\ pc[t] = "condWait" => k.result[t] = "TIMEOUT"
      /\ Listed(t) =>
           /\ pc[t] = "condWait" /\ k.address[t] = addr[t]
           /\ k.result[t] = "TIMEOUT"
      /\ k.status[t] = "WaitMutex" => k.owner[t] # None
      /\ pc[t] = "arbUnlock" => k.word[addr[t]].owner = t
      /\ pc[t] \in {"condWait", "condReturn"} /\ k.result[t] = "SUCCESS" =>
           k.word[addr[t]].owner = t

IInv ==
    /\ TypeOK /\ ListInv /\ CallInv
    /\ HeldIsOwned /\ OwnerKnows /\ WaitersAreServed /\ BlockedIsListed
=============================================================================
