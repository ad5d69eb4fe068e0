------------------------------- MODULE MCMutex -------------------------------
(* Instances of Mutex for TLC. *)
EXTENDS Mutex

\* One thread, or (target <= 0) all of them.
OneOrAll == {1, -1}

Symmetry == Permutations(Threads)
=============================================================================
