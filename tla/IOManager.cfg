\* For w1 anybody schedules tasks, whether it runs, has left, or is not of the
\* crew.  To leave one behind takes four uses of the bound: the program's task,
\* two yields of it while the threads leave one by one, and a task for the
\* thread that has left.
SPECIFICATION FairSpec
CONSTANTS
  w1 = w1
  w2 = w2
  Caller = caller
  AnyThread = any
  Crews <- SomeCrews
  Foreign <- OneWorker
  MaxPost = 2
  MaxYield = 2
  MaxEvent = 1
  MaxTimer = 1
  MaxUse = 4
INVARIANTS TypeOK OnlyUnheardWait StopLeavesOnlyLate
PROPERTY StopReturns
