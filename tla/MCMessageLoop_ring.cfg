SPECIFICATION FairSpec
CONSTANTS
    Clients = {c1, c2}
    Sources = {s1}
    bufferSize = 3
    MaxMessages = 5
    None = None
    Can <- CanPush
    c1 = c1
    c2 = c2
INVARIANTS InOrder NoLostWakeup
PROPERTIES PushEnds
CHECK_DEADLOCK FALSE
