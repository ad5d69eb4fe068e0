\* Three producers that make two calls between them, with the lowest and the
\* highest accuracy (the middle one only skips flushes, as the highest may).
SPECIFICATION Spec
CONSTANTS
    Timer = Timer
    VSync = VSync
    Cores = {c1}
    GPU = GPU
    Main = Main
    None = None
    MaxCalls = 2
    Levels <- BothLevels
INVARIANTS
    IInv
    NoLostWakeup
    FlushBeforeReturn
PROPERTIES
    ImplementsFifo
    FlushReturns
CHECK_DEADLOCK FALSE
