\* Two threads on two cores, with every mask and changes of priority.
SPECIFICATION Spec
CONSTANTS
    Threads = {t1, t2}
    NumCores = 2
    Priorities = {1, 2, 3}
    MaxCoreMigration = 2
    PreemptionPriorities <- PreemptSecond
    FirstCores = {0, 1}
    Requests <- AllRequests
    NewPriorities = {1, 3}
    None = None
SYMMETRY Symmetry
INVARIANTS
    IInv
    SelectedIsFront
    QueuesMatchThreads
