SPECIFICATION FairSpec
CONSTANTS
  kernel_main = kernel_main
  task1 = task1
  task2 = task2
  task3 = task3
  zero = zero
  other = other
  deadbeef = deadbeef
  Null = Null
  Tasks <- MCThreeTasks
  init_task = kernel_main
  Zero = zero
  Marker = deadbeef
  RaxVals <- MCRaxVals
  UserDepth = 2
  StackDepth = 5
  MaxNested = 2
CHECK_DEADLOCK FALSE
CONSTRAINT NestingsOnly
INVARIANTS
  TypeOK
  ContextsAreOwn
  CpuIsCurrent
  FramesPerNesting
  RingInv
  OneRunning
PROPERTIES
  PreemptionTransparent
  EveryTaskRuns
