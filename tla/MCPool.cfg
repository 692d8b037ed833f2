SPECIFICATION FairSpec
CONSTANTS
  t1 = t1
  t2 = t2
  w1 = w1
  w2 = w2
  c1 = c1
  c2 = c2
  Tasks <- TwoTasks
  Workers <- TwoWorkers
  Crews <- OneOrTwo
  Closers <- TwoClosers
  Sizes <- SmallQueues
  Outside = Outside
  NoTask = NoTask
INVARIANTS
  SubmissionsKept
  IInv
  Reports
PROPERTIES
  ImplementsTaskGroup
  CloseCompletes
CHECK_DEADLOCK FALSE
