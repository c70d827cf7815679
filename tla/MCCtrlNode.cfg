SPECIFICATION FairSpec
CONSTANTS
    Fields <- MCFields
    Messages <- MCMessages
    Default <- MCDefault
    QueueDepth = 1
    MaxPublished = 3
INVARIANTS
    AtMostOneLateFrame
    RepeatsLastAccepted
    IInv
PROPERTIES
    LatestWins
