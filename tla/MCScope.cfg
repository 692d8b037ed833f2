SPECIFICATION Spec
CONSTANTS
  t1 = t1
  t2 = t2
  t3 = t3
  w1 = w1
  w2 = w2
  Tasks <- ThreeTasks
  Nesting <- Nested
  Waiters <- OneWaiter
  Configs <- MixedConfigs
  Root = Root
  NoTask = NoTask
SYMMETRY Symmetry
INVARIANTS
  StructuredJoin
  BoundedExecution
  NoSilentFailure
  BlameIsOriginal
  Accounting
  NoSpuriousFailure
  IInv
PROPERTIES
  NothingAfterJoin
  ImplementsTaskGroup
