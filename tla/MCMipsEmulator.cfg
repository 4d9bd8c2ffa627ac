SPECIFICATION FairSpec
CONSTANTS
  Memory <- MCMemory
  Code <- MCCode
  Sentinel = 9
  Intercept = TRUE
  Values <- MCValues
  Targets <- MCTargets
  Starts <- MCStarts
  MaxSteps = 4
  MaxRuns = 2
PROPERTIES ImplementsPipeline Returns
CHECK_DEADLOCK FALSE
