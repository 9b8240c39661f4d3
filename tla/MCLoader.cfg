SPECIFICATION Spec
CONSTANTS
  Radix = 3
  IdentityDirs = 3
  FileStart = 6
  LoaderEnd = 5
  HeaderSegs = 3
  Top = 2
  Machines <- GoodMachines
CHECK_DEADLOCK FALSE
INVARIANTS
  SegmentsInPlace
  ModulesInPlace
  TagsOfThisPass
  NoWildWalk
PROPERTIES
  BootEnds
