SPECIFICATION Spec
CONSTANTS
    Threads = {t1, t2}
    Hosts = {h1}
    Events = {e1}
    None = None
    WaitLists <- OneEventLists
PROPERTY TimeoutAfterExpiry
