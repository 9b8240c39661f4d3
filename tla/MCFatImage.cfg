SPECIFICATION Spec
CONSTANTS
  spc = 1
  SectorBytes = 2
  SectorSlots = 4
  LastCluster = 20
  Spare = 3
  Lower <- MCLower
  UpperOf <- MCUpperOf
  SlotBytes = 4
  LfnChars = 2
  ShortChars = 1
  Names <- MCNames
  DirNames <- MCDirNames
  Sizes <- MCSizes
  LoaderDir <- MCLoaderDir
  LoaderName <- MCLoaderName
  LoaderSize = 3
  RpiName <- MCRpiName
  RpiSize = 3
  MaxOps = 3
  HardCases <- MCNone
CHECK_DEADLOCK FALSE
INVARIANTS
  FilesReadBack
  ChainsDisjoint
  FreeCountExact
  LoaderInOnePiece
