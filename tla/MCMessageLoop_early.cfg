SPECIFICATION Spec
CONSTANTS
    Clients = {c1, c2}
    Sources = {s1}
    bufferSize = 2
    MaxMessages = 1
    None = None
    Can <- CanOwn
    c1 = c1
    c2 = c2
INVARIANTS RemovalComplete
CHECK_DEADLOCK FALSE
