SPECIFICATION Spec
CONSTANTS
  Madt <- MCMadt
  Bsp = 0
  Dead <- MCAbsent
  TscLow <- MCTsc
  StackTop = 40
  StackRoom = 8
  StackUse = 8
  BootUse = 12
CHECK_DEADLOCK FALSE
INVARIANTS
  ApsWaitForLoader
  RunningCounts
PROPERTIES
  KernelRuns
