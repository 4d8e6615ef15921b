CONSTANTS
  t1 = t1
  t2 = t2
  t3 = t3
  t4 = t4
  NoThread = NoThread
  Threads = {t1, t2, t3, t4}
  Work = {}
  Quarter = 2
  StartEpoch = 2
  Horizon = 3
  MaxNest = 1
  SpeculativeThreshold = 2
  RunDefers = {TRUE}
  Can <- CanWrite
SPECIFICATION FairSpec
PROPERTY ExclusiveProgress
CHECK_DEADLOCK FALSE
