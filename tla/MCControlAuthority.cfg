SPECIFICATION FairSpec
CONSTANTS
    Senders <- MCSenders
    BoardModes <- MCModes
    DropLimit = 0
    MaxAttempts = 2
    CheckAttempts = 1
    NoFrame = NoFrame
INVARIANTS
    IInv
    CountedMisses
PROPERTIES
    AuthorityLostForCause
    BelievedLossNoticed
    OwnControlSeen
    ObtainReturns
