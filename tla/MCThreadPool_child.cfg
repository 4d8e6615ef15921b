SPECIFICATION Spec
CONSTANTS
    Clients = {c1}
    Creator = c1
    Workers = {w1, w2}
    HasParent = TRUE
    maxParentJobs = 1
    QueueSize = 1
    Jobs = {j1, j2, j3}
    Spawns <- OneSpawn
    Throws = {j3}
    NoJob = NoJob
    j1 = j1
    j2 = j2
    j3 = j3
INVARIANTS OccupancyRespected
CHECK_DEADLOCK FALSE
