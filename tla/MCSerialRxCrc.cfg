SPECIFICATION Spec
CONSTANTS
    Callers = {c1}
    Cmds = {authorize}
    Push = Push
    NoCmd = NoCmd
    MaxOwed = 1
INVARIANTS
    PushesAreSound
