SPECIFICATION FairSpec
CONSTANTS
  f0 = f0
  f1 = f1
  NoFlags = NoFlags
  NoEntry = NoEntry
  Failed = Failed
  N = 4
  Extractable = {1, 2, 4}
  NumThreads = 2
  Flags <- MCFlags
  Recipes <- MCRecipes
  DefaultFlags = f0
  Options <- MCOptions
  CheckpointEvery = 1
  Stores <- MCStores
  Tables <- MCTables
  MaxCrashes = 1
INVARIANTS ScheduleIndependent Settled
PROPERTIES KeepsExact Terminates
CHECK_DEADLOCK FALSE
