SPECIFICATION FairSpec
CONSTANTS
    StopRepeat = 3
    MaxLost = 2
INVARIANTS
    IInv
    StillWhenIdle
PROPERTIES
    MotionEnds
