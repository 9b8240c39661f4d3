SPECIFICATION Spec
CONSTANTS
  kernel_main = kernel_main
  task1 = task1
  task2 = task2
  task3 = task3
  zero = zero
  other = other
  deadbeef = deadbeef
  Null = Null
  Tasks <- MCThreeTasks
  init_task = kernel_main
  Zero = zero
  Marker = deadbeef
  RaxVals <- MCRaxVals
  UserDepth = 1
  StackDepth = 3
  MaxNested = 1
INVARIANTS
  FrameSurvives
