SPECIFICATION FairSpec
CONSTANTS
    WordBytes = 4
    NBytes = 17
    MaxBytes = 18
    Room = 18
    PrintLen = 2
    LineBound = 12
    MaxFaults = 1
    MaxLosses = 1
    MaxResets = 1
INVARIANTS
    DoneMeansLoaded
    NoSelfOverwrite
    NoFalseAlarm
PROPERTIES
    QuietLine
    BootCompletes
    UnixTerminates
CHECK_DEADLOCK FALSE
