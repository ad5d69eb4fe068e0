\* Chains and cycles of three threads over two mutexes.
SPECIFICATION Spec
CONSTANTS
    Threads = {t1, t2, t3}
    Mutexes = {m1, m2}
    CondVars = {}
    Priorities = {1, 2, 3}
    Targets <- OneOrAll
    None = None
SYMMETRY Symmetry
INVARIANTS
    PriorityInherited
CHECK_DEADLOCK FALSE
