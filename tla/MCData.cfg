SPECIFICATION Spec
CONSTANTS
  Also = {}
INVARIANTS
  ConsoleShowsTail
  NumbersPrinted
  InflateInverse
  MapsTranslated
  ModesFit
  ImageBootable
  DescriptorsDecode
CHECK_DEADLOCK FALSE
