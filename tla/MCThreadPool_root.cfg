SPECIFICATION FairSpec
CONSTANTS
    Clients = {c1}
    Creator = c1
    Workers = {w1}
    HasParent = FALSE
    maxParentJobs = 0
    QueueSize = 1
    Jobs = {j1, j2, j3}
    Spawns <- NoSpawns
    Throws = {j2, j3}
    NoJob = NoJob
    j1 = j1
    j2 = j2
    j3 = j3
INVARIANTS JobInOnePlace CountersExact NoOrphanedJobs ThrowRecorded
PROPERTIES JobEventuallyRun DestroyEnds
CHECK_DEADLOCK FALSE
