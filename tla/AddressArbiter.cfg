\* Two addresses, waited for in every way by three threads; every signal to one
\* of them wakes all of its waiters.
SPECIFICATION Spec
CONSTANTS
    Threads = {t1, t2, t3}
    Addresses = {a1, a2}
    TypesOf <- TypesByUse
    MinWord = 0
    MaxWord = 1
    Priorities = {1, 2}
    TargetsOf <- OneWakesAll
    None = None
SYMMETRY Symmetry
INVARIANTS
    IInv
    PickedReportsSuccess
    NoLostWakeup
CHECK_DEADLOCK FALSE
