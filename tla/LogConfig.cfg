SPECIFICATION FairSpec
CONSTANTS
  t1 = t1
  t2 = t2
  t3 = t3
  a = a
  b = b
  info = info
  warn = warn
  file = file
  stdout = stdout
  NotSet = notset
  None = none
  Thread = {t1, t2, t3}
  Name = {a, b}
  Level = {info, warn}
  Info = info
  Output = {file, stdout}
  Stdout = {stdout}
  Daemon = TRUE
  Input <- SomeInput
  MaxCall = 4
INVARIANTS TypeOK Whole AppliedUnlessOverlap
PROPERTIES EveryCallReturns
CHECK_DEADLOCK FALSE
