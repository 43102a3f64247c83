SPECIFICATION PeekSpec
CONSTANTS
    N = 4
    WordSize = 16
    Value = {0, 1}
    Zero = 0
    PushSizes = {1, 2}
    PopSizes = {1}
    TrySizes = {2}
    PeekSizes = {1, 3}
    MaxPush = 6
INVARIANTS
    PeekSeesFront
PROPERTY PeekFailsStop
CHECK_DEADLOCK FALSE
