SPECIFICATION FairSpec
CONSTANTS
    Clients = {c1, c2}
    Sources = {s1}
    bufferSize = 3
    MaxMessages = 3
    None = None
    Can <- CanAll
    c1 = c1
    c2 = c2
INVARIANTS InOrder NoLostWakeup ActionsNoticed RemovedForGood RemovalFound
PROPERTIES RemovalEnds PushEnds
CHECK_DEADLOCK FALSE
