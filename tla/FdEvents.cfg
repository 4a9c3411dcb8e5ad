SPECIFICATION FairSpec
CONSTANTS
  u1 = u1
  u2 = u2
  p1 = p1
  p2 = p2
  READ = READ
  WRITE = WRITE
  Nil = nil
  Hup = HUP
  Source <- ThreeSources
  Hangs = {40}
  User = {u1, u2}
  Poller = {p1}
  InitialSize = 32
  MaxContext = 2
  MaxAdd = 2
INVARIANTS Agreement PendingCounts InContainer
PROPERTIES Woken ImplementsEventWait FailsOnlyStaleStep
CHECK_DEADLOCK FALSE
