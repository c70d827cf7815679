SPECIFICATION Spec
CONSTANTS
    StopRepeat = 3
    MaxLost = 0
INVARIANTS
    AlwaysStopsAfterwards
