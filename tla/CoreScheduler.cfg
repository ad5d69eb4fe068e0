\* Two threads that may run on both cores, one of them more urgent; a host
\* thread starts and wakes them.
SPECIFICATION Spec
CONSTANTS
    t1 = t1
    t2 = t2
    Threads = {t1, t2}
    NumCores = 2
    Urgency <- SecondMoreUrgent
    Masks <- AllCores
    MaxCoreMigration = 2
    Host = Host
    MaxCalls = 4
    None = None
INVARIANTS
    IInv
    RunsCurrentThread
    NoLostInterrupt
    SettledRunsSelection
    MustBeRunnable
PROPERTIES
    CoresSettleOrWait
CHECK_DEADLOCK FALSE
