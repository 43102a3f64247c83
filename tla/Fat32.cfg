SPECIFICATION Spec
CONSTANTS
    NClusters = 4
    UnitsPerCluster = 2
    Layouts <- MCLayouts
    Names <- MCNames
    Root = 2
    HeapUnits = 90
    MaxCalls = 3
INVARIANTS
    ResultsHold
    WalksAgree
    FailuresExplained
PROPERTY CallEnds
CHECK_DEADLOCK FALSE
