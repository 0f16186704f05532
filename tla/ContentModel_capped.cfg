SPECIFICATION ContentSpec
CONSTANTS
    Inputs <- PastTheCap
    CountCap = 254
    MaxMatchStates = 4096
CHECK_DEADLOCK FALSE
INVARIANT
    WalkDecides
