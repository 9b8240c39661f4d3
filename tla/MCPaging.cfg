SPECIFICATION Spec
CONSTANTS
  ENTRIES = 3
  Frames <- MCFrames
  cr3 = 0
  BootTables <- MCBootTables
  BootFree <- MCBootFree
  HEAP_BASE = 76
  MapPages <- MCMapPages
  UnmapPages <- MCUnmap
  CachedPages <- KernelPages
  MapsInHuge = FALSE
  Requests = 2
CHECK_DEADLOCK FALSE
INVARIANTS
  TablesExclusive
PROPERTIES
  TranslationRefines
  MapTakesEffect
