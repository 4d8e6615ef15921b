SPECIFICATION FairSpec
CONSTANTS
    Clients = {c1}
    Creator = c1
    Workers = {w1}
    HasParent = TRUE
    maxParentJobs = 1
    QueueSize = 1
    Jobs = {j1, j2}
    Spawns <- NoSpawns
    Throws = {}
    NoJob = NoJob
    j1 = j1
    j2 = j2
    j3 = j3
PROPERTY JobEventuallyRun
CHECK_DEADLOCK FALSE
