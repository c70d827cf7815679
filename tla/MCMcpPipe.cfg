CONSTANTS
    MaxCycles = 2
    MaxSignals = 2
    MaxEvents = 3
SPECIFICATION FairSpec
INVARIANTS
    IInv
    OneServer
PROPERTIES
    BreakIsNoticed
    StopReturns
CHECK_DEADLOCK FALSE
