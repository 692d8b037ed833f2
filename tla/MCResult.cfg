SPECIFICATION RFairSpec
CONSTANTS
  t1 = t1
  t2 = t2
  w1 = w1
  x1 = x1
  Tasks <- TwoTasks
  Nesting <- TwoTasks
  Results <- TwoTasks
  Waiters <- OneWaiter
  Readers <- OneReader
  Configs <- SlotConfig
  Root = Root
  NoTask = NoTask
INVARIANTS
  ReadersAndWaitersAgree
  ResolvedByJoin
PROPERTIES
  RunningResultArrives
CHECK_DEADLOCK FALSE
