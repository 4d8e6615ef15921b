CONSTANTS
  t1 = t1
  t2 = t2
  t3 = t3
  t4 = t4
  NoThread = NoThread
  Threads = {t1, t2}
  Work = {}
  Quarter = 2
  StartEpoch = 6
  Horizon = 4
  MaxNest = 2
  SpeculativeThreshold = 2
  RunDefers = {FALSE}
  Can <- CanGuard
SPECIFICATION Spec
INVARIANT GuardsExclude
CHECK_DEADLOCK FALSE
