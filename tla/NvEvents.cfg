\* Two guest threads that wait for the same values.
SPECIFICATION Spec
CONSTANTS
    Guests = {g1, g2}
    MaxValue = 2
    None = None
INVARIANTS
    IInv
    WaitingIsServed
    NoOverdueInterrupt
    SignalMeansReached
PROPERTIES
    SleeperWakes
