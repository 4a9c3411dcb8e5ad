CONSTANTS
  t1 = t1
  t2 = t2
  t3 = t3
  v1 = v1
  v2 = v2
  l1 = l1
  l2 = l2
  l3 = l3
  x1 = x1
  x2 = x2
  None = None
  Thread <- ThreeThreads
  Var <- TwoVars
  Listener <- ThreeListeners
  Value <- TwoValues
  MaxStore = 3

SPECIFICATION Spec

INVARIANTS KeepsListeners HeardIsValue
PROPERTY TellingKeepsListenersStep

SYMMETRY Alike

CHECK_DEADLOCK FALSE
