\* Three threads share three cores: load balancing and preemption.
SPECIFICATION Spec
CONSTANTS
    Threads = {t1, t2, t3}
    NumCores = 3
    Priorities = {2, 3}
    MaxCoreMigration = 2
    PreemptionPriorities <- PreemptSecond
    FirstCores = {0}
    Requests <- WideOrBound
    NewPriorities = {}
    None = None
SYMMETRY Symmetry
INVARIANTS
    NoIdleInVain
