SPECIFICATION Spec
CONSTANTS
  w1 = w1
  w2 = w2
  u1 = u1
  c1 = c1
  c2 = c2
  p1 = p1
  p2 = p2
  Caller = caller
  AnyThread = any
  None = none
  Worker = {w1}
  UseCaller = FALSE
  UserFiber = {u1}
  Callback = {}
  Pool = {}
  MaxYield = 1
  MaxStart = 1
  MainFuncCallsCb = FALSE
  PinAnywhere = FALSE
INVARIANTS EndedMeansRan
