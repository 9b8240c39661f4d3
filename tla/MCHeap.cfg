SPECIFICATION Spec
CONSTANTS
  kernel_main = kernel_main
  other_task = other_task
  Callers <- OneCaller
  Sizes <- SmallSizes
  HEADER = 8
  ROUND_NUM = 2
  PAGE_SIZE = 32
  pages = 10
  WORD = 65536
  Budget = 48
CHECK_DEADLOCK FALSE
INVARIANTS
  Tiling
  ObjectsDisjoint
