SPECIFICATION FairSpec
CONSTANTS
    Clients = {c1, c2}
    Sources = {s1}
    bufferSize = 2
    MaxMessages = 3
    None = None
    Can <- CanPush
    c1 = c1
    c2 = c2
PROPERTIES PushReturns
CHECK_DEADLOCK FALSE
