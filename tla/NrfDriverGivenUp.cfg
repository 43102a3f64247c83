SPECIFICATION FairSpec
CONSTANTS
    Node = {a, b}
    Addressee = {b}
    FifoSlots = 1
    Attempts = 1
    QueueRoom = 1
    MaxSend = 1
PROPERTY GivenUpPanics
CHECK_DEADLOCK FALSE
