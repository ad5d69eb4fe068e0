-------------------------- MODULE MCAddressArbiter --------------------------
(* Instances of AddressArbiter for TLC. *)
EXTENDS AddressArbiter

One == CHOOSE a \in Addresses : TRUE

\* On one address words are waited for without being changed, on the others
\* also decremented.
TypesByUse == [a \in Addresses |->
    IF a = One THEN {"WaitIfEqual", "WaitIfLessThan"}
               ELSE {"WaitIfLessThan", "DecrementAndWaitIfLessThan"}]

\* On that one every signal wakes all waiters, on the others one or all.
OneWakesAll == [a \in Addresses |-> IF a = One THEN {0} ELSE {0, 1}]

Symmetry == Permutations(Threads)
=============================================================================
