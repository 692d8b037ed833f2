SPECIFICATION FairSpec
CONSTANTS
  t1 = t1
  t2 = t2
  t3 = t3
  w1 = w1
  w2 = w2
  Tasks <- TwoTasks
  Nesting <- Nested
  Waiters <- TwoWaiters
  Configs <- WaitConfigs
  Root = Root
  NoTask = NoTask
INVARIANTS
  WaitersAgree
PROPERTIES
  Drains
