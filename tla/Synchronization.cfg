\* Two threads and one event; every thread waits for the event or the end of
\* the first thread, which thus waits for itself.
SPECIFICATION FairSpec
CONSTANTS
    Threads = {t1, t2}
    Hosts = {}
    Events = {e1}
    None = None
    WaitLists <- EventOrThread
INVARIANTS
    NoLostSignal
    ForeverNeverTimesOut
    IInv
PROPERTIES
    FirstWakeWins
    DeadStaysDead
    TimedWaitEnds
    SignalWakes
CHECK_DEADLOCK FALSE
