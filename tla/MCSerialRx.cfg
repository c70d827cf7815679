SPECIFICATION FairSpec
CONSTANTS
    Callers = {c1, c2}
    Cmds = {authorize, connection_check}
    Push = Push
    NoCmd = NoCmd
    MaxOwed = 2
INVARIANTS
    NoLostWakeup
    HandedOutOnce
    IInv
PROPERTIES
    CallReturns
    KeepsContract
