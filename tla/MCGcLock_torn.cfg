CONSTANTS
  t1 = t1
  t2 = t2
  t3 = t3
  t4 = t4
  NoThread = NoThread
  Threads = {t1, t2, t3}
  Work = {w1, w2}
  Quarter = 2
  StartEpoch = 0
  Horizon = 3
  MaxNest = 1
  SpeculativeThreshold = 2
  RunDefers = {TRUE}
  Can <- CanDefer
SPECIFICATION Spec
INVARIANT DeferredOutlivesReaders
SYMMETRY ThreadSymmetry
