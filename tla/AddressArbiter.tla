--------------------------- MODULE AddressArbiter ---------------------------
(***************************************************************************)
(* Kernel::AddressArbiter: threads wait for a word of guest memory to      *)
(* change (svcWaitForAddress) and are woken by svcSignalToAddress.  The    *)
(* word is written by guest code on other cores at any moment, also while  *)
(* the kernel holds the scheduler lock.                                    *)
(*                                                                         *)
(* A locked block is one step, except that WaitForAddressIfLessThan reads  *)
(* the word twice: it is cut between the two, with the lock held.  The     *)
(* exclusive read/write loops of the signal operations compare again when  *)
(* they retry, so they are atomic.                                         *)
(*                                                                         *)
(* Operators named Fault... are deliberately wrong versions of the         *)
(* definition that follows them, used by no specification: see module      *)
(* Synchronization.                                                        *)
(***************************************************************************)
EXTENDS Integers, FiniteSets, SequencesExt

CONSTANTS
    Threads,
    Addresses,
    TypesOf,      \* for each address, the arbitration types the guest uses on it
    MinWord,      \* bounds of the words: far from the limits of an s32, whose
    MaxWord,      \* overflow is not modelled
    Priorities,
    TargetsOf,    \* the arguments num_to_wake used with each address
    None

Types == {"WaitIfLessThan", "DecrementAndWaitIfLessThan", "WaitIfEqual"}
Words == MinWord .. MaxWord
Timeouts == {"zero", "finite", "infinite"}

ASSUME ArbiterAssumption ==
    /\ TypesOf \in [Addresses -> SUBSET Types]
    /\ MinWord \in Int /\ MaxWord \in Int /\ MinWord < MaxWord
    /\ Priorities \subseteq Nat
    /\ TargetsOf \in [Addresses -> SUBSET Int]
    /\ None \notin Threads \cup Addresses

VARIABLES
    word,                     \* guest memory
    arb_threads,              \* AddressArbiter::arb_threads
    status,                   \* Thread::status
    waiting_for_arbitration,  \* Thread::waiting_for_arbitration
    signaling_result,         \* Thread::signaling_result
    priority,                 \* Thread::current_priority
    lock,                     \* holder of the scheduler lock between two steps
    pc,                       \* where each thread is
    call                      \* arguments of the call it is in

vars == <<word, arb_threads, status, waiting_for_arbitration,
          signaling_result, priority, lock, pc, call>>

NoCall == [address |-> None, type |-> "WaitIfEqual", value |-> 0,
           timeout |-> "zero"]
Calls == {NoCall} \cup [address : Addresses, type : Types, value : Words \cup {0},
                        timeout : Timeouts]

Init ==
    /\ word \in [Addresses -> Words]
    /\ arb_threads = [a \in Addresses |-> <<>>]
    /\ status = [t \in Threads |-> "Ready"]
    /\ waiting_for_arbitration = [t \in Threads |-> FALSE]
    /\ signaling_result = [t \in Threads |-> "SUCCESS"]
    /\ priority \in [Threads -> Priorities]
    /\ lock = None
    /\ pc = [t \in Threads |-> "user"]
    /\ call = [t \in Threads |-> NoCall]

Runs(t, label) == pc[t] = label /\ status[t] = "Ready"
Goto(t, label) == pc' = [pc EXCEPT ![t] = label]
SetCall(t, c) == call' = [call EXCEPT ![t] = c]

-----------------------------------------------------------------------------
(* Waiting *)

\* The first of some positions in a list, for std::find_if.
First(positions) == CHOOSE i \in positions : \A j \in positions : i <= j

\* InsertThread: in front of the first thread that is not more urgent.
InsertThread(list, t) ==
    LET later == {i \in DOMAIN list : priority[list[i]] >= priority[t]}
    IN InsertAt(list, IF later = {} THEN Len(list) + 1 ELSE First(later), t)

RemoveThread(list, t) ==
    LET found == {i \in DOMAIN list : list[i] = t}
    IN IF found = {} THEN list ELSE RemoveAt(list, First(found))

\* The thread joins the list and gives up its core and the lock.
Block(t, a) ==
    /\ arb_threads' = [arb_threads EXCEPT ![a] = InsertThread(@, t)]
    /\ status' = [status EXCEPT ![t] = "WaitArb"]
    /\ waiting_for_arbitration' = [waiting_for_arbitration EXCEPT ![t] = TRUE]
    /\ lock' = None
    /\ Goto(t, "blocked")

\* Fault: the word is not compared.
FaultNotCompared(t, a, value, timeout) ==
    /\ Runs(t, "user") /\ lock = None
    /\ timeout # "zero"
    /\ signaling_result' = [signaling_result EXCEPT ![t] = "TIMEOUT"]
    /\ SetCall(t, [address |-> a, type |-> "WaitIfEqual", value |-> value,
                   timeout |-> timeout])
    /\ Block(t, a)
    /\ UNCHANGED <<word, priority>>

\* WaitForAddressIfEqual.  With another value, or a zero timeout, the call
\* returns and nothing has changed.
WaitForAddressIfEqual(t, a, value, timeout) ==
    /\ Runs(t, "user") /\ lock = None
    /\ word[a] = value
    /\ timeout # "zero"
    /\ signaling_result' = [signaling_result EXCEPT ![t] = "TIMEOUT"]
    /\ SetCall(t, [address |-> a, type |-> "WaitIfEqual", value |-> value,
                   timeout |-> timeout])
    /\ Block(t, a)
    /\ UNCHANGED <<word, priority>>

\* WaitForAddressIfLessThan up to the comparison ...
WaitForAddressIfLessThan(t, a, type, value, timeout) ==
    /\ Runs(t, "user") /\ lock = None
    /\ word[a] < value
    /\ signaling_result' = [signaling_result EXCEPT ![t] = "TIMEOUT"]
    /\ SetCall(t, [address |-> a, type |-> type, value |-> value,
                   timeout |-> timeout])
    /\ lock' = t
    /\ Goto(t, "decrement")
    /\ UNCHANGED <<word, arb_threads, status, waiting_for_arbitration,
                   priority>>

\* Fault: the return for a zero timeout keeps the lock.
FaultKeepLock(t) ==
    /\ Runs(t, "decrement")
    /\ IF call[t].timeout = "zero"
         THEN /\ Goto(t, "user")
              /\ SetCall(t, NoCall)
              /\ UNCHANGED <<arb_threads, status, waiting_for_arbitration, lock>>
         ELSE Block(t, call[t].address) /\ UNCHANGED call
    /\ UNCHANGED <<word, signaling_result, priority>>

\* ... and from the second read of the word, which is not compared again.
Decrement(t) ==
    /\ Runs(t, "decrement")
    /\ LET a == call[t].address
           new == IF call[t].type = "DecrementAndWaitIfLessThan"
                    THEN word[a] - 1 ELSE word[a]
       IN /\ new \in Words
          /\ word' = [word EXCEPT ![a] = new]
          /\ IF call[t].timeout = "zero"
               THEN /\ lock' = None
                    /\ Goto(t, "user")
                    /\ SetCall(t, NoCall)
                    /\ UNCHANGED <<arb_threads, status,
                                   waiting_for_arbitration>>
               ELSE Block(t, a) /\ UNCHANGED call
    /\ UNCHANGED <<signaling_result, priority>>

\* The time event of a timed wait: Thread::OnWakeUp, under the lock.
TimeEvent(t) ==
    /\ lock = None
    /\ pc[t] = "blocked" /\ call[t].timeout = "finite"
    /\ status[t] = "WaitArb"
    /\ status' = [status EXCEPT ![t] = "Ready"]
    /\ UNCHANGED <<word, arb_threads, waiting_for_arbitration,
                   signaling_result, priority, lock, pc, call>>

\* The second locked block of both waits: a thread that no signal has taken
\* off the list leaves it by itself.
StopWaiting(t) ==
    /\ Runs(t, "blocked") /\ lock = None
    /\ arb_threads' = [arb_threads EXCEPT ![call[t].address] =
            IF waiting_for_arbitration[t] THEN RemoveThread(@, t) ELSE @]
    /\ waiting_for_arbitration' = [waiting_for_arbitration EXCEPT ![t] = FALSE]
    /\ Goto(t, "return")
    /\ UNCHANGED <<word, status, signaling_result, priority, lock, call>>

\* The call returns GetSignalingResult(), read outside the lock.
Return(t) ==
    /\ Runs(t, "return")
    /\ Goto(t, "user")
    /\ SetCall(t, NoCall)
    /\ UNCHANGED <<word, arb_threads, status, waiting_for_arbitration,
                   signaling_result, priority, lock>>

-----------------------------------------------------------------------------
(* Signalling *)

\* How many of the threads in a list a signal wakes.
NumToWake(n, list) == IF n > 0 /\ n < Len(list) THEN n ELSE Len(list)

\* Fault: threads whose time event has come first are only taken off the list.
FaultNotTold(a, n) ==
    LET last == NumToWake(n, arb_threads[a])
        woken == ToSet(SubSeq(arb_threads[a], 1, last))
    IN /\ arb_threads' = [arb_threads EXCEPT ![a] = SubSeq(@, last + 1, Len(@))]
       /\ signaling_result' = [t \in Threads |->
              IF t \in woken /\ status[t] = "WaitArb"
                THEN "SUCCESS" ELSE signaling_result[t]]
       /\ waiting_for_arbitration' = [t \in Threads |->
              waiting_for_arbitration[t] /\ t \notin woken]
       /\ status' = [t \in Threads |->
              IF t \in woken THEN "Ready" ELSE status[t]]

\* WakeThreads: the first threads of the list are told, taken off and resumed.
WakeThreads(a, n) ==
    LET last == NumToWake(n, arb_threads[a])
        woken == ToSet(SubSeq(arb_threads[a], 1, last))
    IN /\ arb_threads' = [arb_threads EXCEPT ![a] = SubSeq(@, last + 1, Len(@))]
       /\ signaling_result' = [t \in Threads |->
              IF t \in woken THEN "SUCCESS" ELSE signaling_result[t]]
       /\ waiting_for_arbitration' = [t \in Threads |->
              waiting_for_arbitration[t] /\ t \notin woken]
       /\ status' = [t \in Threads |->
              IF t \in woken THEN "Ready" ELSE status[t]]

\* SignalToAddressOnly, by itself or after a store of the guest.
SignalToAddressOnly(t, a, n) ==
    /\ lock = None
    /\ \/ Runs(t, "user")
       \/ Runs(t, "stored") /\ call[t].address = a
    /\ WakeThreads(a, n)
    /\ Goto(t, "user")
    /\ SetCall(t, NoCall)
    /\ UNCHANGED <<word, priority, lock>>

\* IncrementAndSignalToAddressIfEqual; otherwise ERR_INVALID_STATE.
IncrementAndSignal(t, a, value, n) ==
    /\ Runs(t, "user") /\ lock = None
    /\ word[a] = value
    /\ value + 1 \in Words
    /\ word' = [word EXCEPT ![a] = value + 1]
    /\ WakeThreads(a, n)
    /\ UNCHANGED <<priority, lock, pc, call>>

\* The new value of ModifyByWaitingCountAndSignalToAddressIfEqual.
Modified(value, n, waiting) ==
    IF waiting = 0 THEN value + 1
    ELSE IF n <= 0 \/ waiting <= n THEN value - 1
    ELSE value

ModifyByWaitingCountAndSignal(t, a, value, n) ==
    /\ Runs(t, "user") /\ lock = None
    /\ word[a] = value
    /\ LET new == Modified(value, n, Len(arb_threads[a]))
       IN new \in Words /\ word' = [word EXCEPT ![a] = new]
    /\ WakeThreads(a, n)
    /\ UNCHANGED <<priority, lock, pc, call>>

\* Guest code (external): store a value, without the lock, and signal next.
GuestStore(t, a, value) ==
    /\ Runs(t, "user")
    /\ word' = [word EXCEPT ![a] = value]
    /\ SetCall(t, [NoCall EXCEPT !.address = a])
    /\ Goto(t, "stored")
    /\ UNCHANGED <<arb_threads, status, waiting_for_arbitration,
                   signaling_result, priority, lock>>

\* Thread::SetCurrentPriority: the list of an arbiter is not sorted again.
SetCurrentPriority(t, p) ==
    /\ lock = None
    /\ p # priority[t]
    /\ priority' = [priority EXCEPT ![t] = p]
    /\ UNCHANGED <<word, arb_threads, status, waiting_for_arbitration,
                   signaling_result, lock, pc, call>>

WaitForAddress(t, a, type, value, timeout) ==
    \/ /\ type = "WaitIfEqual"
       /\ WaitForAddressIfEqual(t, a, value, timeout)
    \/ /\ type # "WaitIfEqual"
       /\ WaitForAddressIfLessThan(t, a, type, value, timeout)

SignalToAddress(t, a, value, n) ==
    \/ SignalToAddressOnly(t, a, n)
    \/ IncrementAndSignal(t, a, value, n)
    \/ ModifyByWaitingCountAndSignal(t, a, value, n)

Next ==
    \E t \in Threads :
        \/ \E a \in Addresses : \E type \in TypesOf[a], value \in Words,
              timeout \in Timeouts : WaitForAddress(t, a, type, value, timeout)
        \/ Decrement(t)
        \/ TimeEvent(t)
        \/ StopWaiting(t)
        \/ Return(t)
        \/ \E a \in Addresses : \E value \in Words, n \in TargetsOf[a] :
              SignalToAddress(t, a, value, n)
        \/ \E a \in Addresses, value \in Words : GuestStore(t, a, value)
        \/ \E p \in Priorities : SetCurrentPriority(t, p)

Spec == Init /\ [][Next]_vars

-----------------------------------------------------------------------------
(* Properties *)

\* Types, and the lock: it is held across two steps only between the two reads
\* of WaitForAddressIfLessThan, every way out of which releases it.
TypeOK ==
    /\ word \in [Addresses -> Words]
    /\ arb_threads \in [Addresses -> Seq(Threads)]
    /\ status \in [Threads -> {"Ready", "WaitArb"}]
    /\ waiting_for_arbitration \in [Threads -> BOOLEAN]
    /\ signaling_result \in [Threads -> {"SUCCESS", "TIMEOUT"}]
    /\ priority \in [Threads -> Priorities]
    /\ lock \in Threads \cup {None}
    /\ pc \in [Threads -> {"user", "decrement", "blocked", "return", "stored"}]
    /\ call \in [Threads -> Calls]
    /\ \A t \in Threads : lock = t <=> pc[t] = "decrement"

\* No signal is lost on a thread that has timed out: a wait that a signal has
\* picked reports success although its time event came first, and a wait that
\* reports a timeout has used up no signal (address_arbiter.cpp:35-40).
PickedReportsSuccess ==
    \A t \in Threads : pc[t] = "blocked" =>
        (waiting_for_arbitration[t] <=> signaling_result[t] = "TIMEOUT")

\* What a blocked thread waits for, or one that is about to block, still holds.
Justified(t) ==
    IF call[t].type = "WaitIfEqual"
      THEN word[call[t].address] = call[t].value
      ELSE word[call[t].address] < call[t].value

\* A guest thread has stored a word and has still to signal its address.
SignalIsDue(a) == \E u \in Threads : pc[u] = "stored" /\ call[u].address = a

\* The guest's side of the bargain on an address: every signal wakes all, that
\* is, num_to_wake is never positive, and where threads wait for a word to stay
\* equal none decrements it without a signal.
WakesAll(t) ==
    /\ \A n \in TargetsOf[call[t].address] : n <= 0
    /\ call[t].type = "WaitIfEqual" =>
           "DecrementAndWaitIfLessThan" \notin TypesOf[call[t].address]

\* No lost wake-up on such an address: a thread stays blocked on a word that no
\* longer justifies it only until the guest thread that stored the new value has
\* made its signal.
NoLostWakeup ==
    \A t \in Threads :
        status[t] = "WaitArb" /\ WakesAll(t) /\ ~Justified(t)
        => SignalIsDue(call[t].address)

\* The arguments of the call a thread is in.
CallInv ==
    \A t \in Threads :
        /\ pc[t] \in {"decrement", "blocked", "stored"} => call[t].address \in Addresses
        /\ pc[t] = "decrement" =>
            /\ call[t].type \in TypesOf[call[t].address] \ {"WaitIfEqual"}
            /\ signaling_result[t] = "TIMEOUT"

\* The lists: a thread is in one, once, exactly as long as it waits for a signal.
ListInv ==
    /\ \A t \in Threads :
        /\ status[t] = "WaitArb" => pc[t] = "blocked" /\ waiting_for_arbitration[t]
        /\ waiting_for_arbitration[t] => pc[t] = "blocked"
    /\ \A a \in Addresses :
        /\ IsInjective(arb_threads[a])
        /\ \A t \in Threads : t \in ToSet(arb_threads[a]) <=>
               waiting_for_arbitration[t] /\ call[t].address = a

\* Between its two reads of the word WaitForAddressIfLessThan can be overtaken by
\* a store, but not by the signal that follows it.
DecrementInv ==
    \A t \in Threads :
        pc[t] = "decrement" => Justified(t) \/ SignalIsDue(call[t].address)

\* The inductive invariant: the types and the lock, the calls, the lists, and
\* the two properties.
IInv == /\ TypeOK /\ CallInv /\ ListInv /\ DecrementInv
        /\ PickedReportsSuccess /\ NoLostWakeup
=============================================================================
