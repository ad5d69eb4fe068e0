\* One mutex and one condition variable, contended by three threads.
SPECIFICATION Spec
CONSTANTS
    Threads = {t1, t2, t3}
    Mutexes = {m1}
    CondVars = {c1}
    Priorities = {1, 2}
    Targets <- OneOrAll
    None = None
SYMMETRY Symmetry
INVARIANTS
    HeldIsOwned
    OwnerKnows
    WaitersAreServed
    IInv
CHECK_DEADLOCK FALSE
