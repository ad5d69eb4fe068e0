-------------------------- MODULE MCGlobalScheduler --------------------------
(* Instances of GlobalScheduler for TLC. *)
EXTENDS GlobalScheduler

AllRequests == [core : Cores \cup {DontCare, DontUpdate},
                mask : (SUBSET Cores) \ {{}}]

\* A thread is bound to the first core or may run on all of them.
WideOrBound == {[core |-> 0, mask |-> {0}], [core |-> DontCare, mask |-> Cores]}

\* The code preempts less urgent threads on the last core than on the others.
PreemptSecond == [c \in Cores |-> IF c = NumCores - 1 THEN 3 ELSE 2]

Symmetry == Permutations(Threads)
=============================================================================
