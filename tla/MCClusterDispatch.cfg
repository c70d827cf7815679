SPECIFICATION FairSpec
CONSTANTS
    Targets = {robot1, robot2}
    Self = robot1
    robot1 = robot1
    robot2 = robot2
    Retry = 2
    ReadyRetry = 1
    MaxDup = 1
    MaxCalls = 2
INVARIANTS
    IInv
PROPERTIES
    KeepsContract
    CallReturns
CHECK_DEADLOCK FALSE
