\* What the user interface waits for when it pauses the emulation.
SPECIFICATION Spec
CONSTANTS
    NumCores = 1
    MaxRequests = 5
PROPERTY SetRunningReturns
CHECK_DEADLOCK FALSE
