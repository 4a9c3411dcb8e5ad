CONSTANTS
  c = c
  d = d
  o1 = o1
  o2 = o2
  o3 = o3
  o4 = o4
  p = p
  Null = Null
  Pool = Pool
  Main = c
  Caller <- TwoCallers
  Object <- FiveObjects
  Own <- OneOwn
  ThreadCount = 2

SPECIFICATION FairSpec

INVARIANTS HandedOver ReleasedOnce BrokenWhy
PROPERTIES CallsReturn

CHECK_DEADLOCK FALSE
