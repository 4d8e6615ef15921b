SPECIFICATION Spec
CONSTANTS
  c1 = c1
  c2 = c2
  Clients = {c1, c2}
  Tasks = {t1, t2}
  Keys = {k1}
  Addrs = {a1, a2, a3, a4, a5, a6}
  Can <- CanCancel
  MustBeNew = {TRUE}
  MaxCalls = 2
  None = None
INVARIANT CancelWaitsForThread
CHECK_DEADLOCK FALSE
