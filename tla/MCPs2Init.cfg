SPECIFICATION FairSpec
CONSTANTS
  BootConfigs <- TwoPorts
  SecondPort = TRUE
  Lateness <- PromptOrLate
  MaxKeys = 1
  Present = TRUE
  LeftOver = {0, 28}
CHECK_DEADLOCK FALSE
INVARIANTS
  TestsInTurn
  TrueMeansTested
PROPERTIES
  SetUpReturns
