SPECIFICATION FairSpec
CONSTANTS
    Node = {a, b, c}
    Addressee = {a, b}
    FifoSlots = 2
    Attempts = 1
    QueueRoom = 2
    MaxSend = 2
INVARIANTS
    NothingLost
    InOrder
    AckMeansTaken
    IdleListens
PROPERTY SendEnds
CHECK_DEADLOCK FALSE
