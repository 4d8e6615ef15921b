SPECIFICATION Spec
CONSTANTS
  Requests = {r1, r2, r3}
  MaxTime = 2
  Fails = TRUE
  None = None
INVARIANTS CalledBackOnce NoneForgotten TimerNotLate QueueServed OnlyKnownHangs
CHECK_DEADLOCK FALSE
