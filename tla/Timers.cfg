SPECIFICATION FairSpec
CONSTANTS
  u1 = u1
  u2 = u2
  p1 = p1
  p2 = p2
  Timer = {1, 2}
  User = {u1, u2}
  Poller = {p1, p2}
  Period = {1, 2}
  MaxTimeout = 3
  MaxTime = 2
  MaxCall = 3
INVARIANTS TypeOK InSet OnceOrCancelled Watched
PROPERTIES Expires
CHECK_DEADLOCK FALSE
