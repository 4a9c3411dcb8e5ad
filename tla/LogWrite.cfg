CONSTANTS
  t1 = t1
  t2 = t2
  c = c
  f = f
  End = End
  Thread <- TwoThreads
  Console <- OneConsole
  File <- OneFile
  Level <- TwoLevels
  Window = 2
  MaxClock = 4

SPECIFICATION Spec

INVARIANTS VisitsEach DroppedOnlyInFault FreshFile

SYMMETRY Alike

CHECK_DEADLOCK FALSE
