SPECIFICATION FairSpec
CONSTANTS
  Capacity = 1
  MaxOutput = 1
  Worlds <- Detached
PROPERTIES TimedOutReturns
CHECK_DEADLOCK FALSE
