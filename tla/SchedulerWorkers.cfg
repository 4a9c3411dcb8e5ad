SPECIFICATION FairSpec
CONSTANTS
  w1 = w1
  w2 = w2
  u1 = u1
  c1 = c1
  c2 = c2
  p1 = p1
  p2 = p2
  Caller = caller
  AnyThread = any
  None = none
  Worker = {w1, w2}
  UseCaller = FALSE
  UserFiber = {}
  Callback = {c1, c2}
  Pool = {p1, p2}
  MaxYield = 1
  MaxStart = 2
  MainFuncCallsCb = TRUE
  PinAnywhere = FALSE
INVARIANTS Counters NoneDropped Ownership
PROPERTIES StopReturns
