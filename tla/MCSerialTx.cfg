SPECIFICATION FairSpec
CONSTANTS
    NoThread = NoThread
    Senders = {s1, s2}
    Lens <- MCLens
    Margin = 1
    TtyBuffer = 3
INVARIANTS
    PacedLine
    SleepCoversOneFrame
    IInv
PROPERTIES
    LineFreed
    SendReturns
