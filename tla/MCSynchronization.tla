------------------------- MODULE MCSynchronization -------------------------
(* Instances of Synchronization for TLC. *)
EXTENDS Synchronization

\* A wait for an event or the end of one of the threads, which may be the
\* waiting thread itself.
EventOrThread == {<<e, CHOOSE t \in Threads : TRUE>> : e \in Events}

\* A wait for one event.
OneEventLists == {<<e>> : e \in Events}
=============================================================================
