SPECIFICATION RFairSpec
CONSTANTS
  t1 = t1
  t2 = t2
  w1 = w1
  x1 = x1
  Tasks <- OneTask
  Nesting <- OneTask
  Results <- OneTask
  Waiters <- OneWaiter
  Readers <- OneReader
  Configs <- FreeConfig
  Root = Root
  NoTask = NoTask
PROPERTIES
  WaitEndsWithTask
CHECK_DEADLOCK FALSE
