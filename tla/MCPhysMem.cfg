SPECIFICATION Spec
CONSTANTS
  MemoryMaps <- SmallMachines
  LoadedEnds <- KernelOnly
  PAGE_SIZE = 2
  FirstMegabyte = 8
  SecondMegabyte = 16
CHECK_DEADLOCK FALSE
INVARIANTS
  NoFrameHeldTwice
  BitmapExact
  HeldIsRam
