SPECIFICATION FairSpec
CONSTANTS
  NumTargets = 3
  NumThreads = 0
  HardwareConcurrency = {0, 3}
  StopOnFirstDivergence = TRUE
INVARIANTS EvaluatedOnce NothingSkippedBeforeFirst
PROPERTIES ImplementsSpec Terminates
CHECK_DEADLOCK FALSE
