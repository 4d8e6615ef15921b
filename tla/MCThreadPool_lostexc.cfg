SPECIFICATION Spec
CONSTANTS
    Clients = {c1}
    Creator = c1
    Workers = {w1}
    HasParent = FALSE
    maxParentJobs = 0
    QueueSize = 1
    Jobs = {j1}
    Spawns <- NoSpawns
    Throws = {j1}
    NoJob = NoJob
    j1 = j1
    j2 = j2
    j3 = j3
INVARIANT ExceptionRethrown
CHECK_DEADLOCK FALSE
