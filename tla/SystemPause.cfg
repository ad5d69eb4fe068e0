\* Two cores; the user starts, pauses and resumes, and may stop at any moment.
SPECIFICATION Spec
CONSTANTS
    NumCores = 2
    MaxRequests = 3
INVARIANTS
    IInv
    NoGuestWhilePaused
    NoCallbackWhilePaused
PROPERTIES
    SyncPauseReturns
    CoresResume
CHECK_DEADLOCK FALSE
