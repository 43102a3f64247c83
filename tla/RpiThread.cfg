SPECIFICATION FairSpec
CONSTANTS
    Elem = {b1, b2, b3, b4, b5}
    NULL = NULL
    MaxTid = 4
INVARIANTS
    TypeOK
    QueuesSound
    OneHome
    ContextMatches
PROPERTIES ImplementsRoundRobin EveryThreadRuns
CHECK_DEADLOCK FALSE
