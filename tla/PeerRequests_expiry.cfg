SPECIFICATION FairSpec
CONSTANTS
  Requests = {r1, r2}
  MaxTime = 2
  Fails = FALSE
  None = None
PROPERTY EveryRequestEnds
CHECK_DEADLOCK FALSE
