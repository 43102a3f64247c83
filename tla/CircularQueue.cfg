SPECIFICATION FairSpec
CONSTANTS
    N = 4
    WordSize = 16
    Value = {0, 1}
    Zero = 0
    PushSizes = {1, 2}
    PopSizes = {1, 2}
    TrySizes = {1, 2}
    MaxPush = 7
INVARIANTS
    TypeOK
    FifoOrder
    PushNeverPanics
    TryNeverWaits
    SlotExclusion
    StaleIsSafe
PROPERTIES ImplementsFifo EverythingDelivered
CHECK_DEADLOCK FALSE
