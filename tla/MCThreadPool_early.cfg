SPECIFICATION Spec
CONSTANTS
    Clients = {c1}
    Creator = c1
    Workers = {w1}
    HasParent = FALSE
    maxParentJobs = 0
    QueueSize = 2
    Jobs = {j1, j2}
    Spawns <- OneSpawn
    Throws = {}
    NoJob = NoJob
    j1 = j1
    j2 = j2
    j3 = j3
INVARIANT WaitedForAll
CHECK_DEADLOCK FALSE
