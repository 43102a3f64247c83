SPECIFICATION Spec
CONSTANTS
    WordBytes = 4
    NBytes = 2
    MaxBytes = 2
    Room = 5
    PrintLen = 2
    LineBound = 8
    MaxFaults = 1
    MaxLosses = 0
    MaxResets = 0
INVARIANT RunsOnlyVerified
CHECK_DEADLOCK FALSE
