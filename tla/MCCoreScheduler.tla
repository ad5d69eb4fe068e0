--------------------------- MODULE MCCoreScheduler ---------------------------
(* Instances of CoreScheduler for TLC. *)
EXTENDS CoreScheduler

CONSTANTS t1, t2

\* One thread is more urgent than the other.
SecondMoreUrgent == [t \in Threads |-> IF t = t1 THEN 3 ELSE 2]

AllCores == [t \in Threads |-> Cores]
=============================================================================
