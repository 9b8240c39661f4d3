SPECIFICATION FairSpec
CONSTANTS
  FirmwareBase = 8
  FirmwareLint0 <- MCLint0
  FirstPeriodLong = TRUE
INVARIANTS
  NoUnclaimedInterrupt
PROPERTIES
  TimerKeepsTicking
