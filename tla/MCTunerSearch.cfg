SPECIFICATION FairSpec
CONSTANTS
  s1 = s1
  s2 = s2
  f0 = f0
  f1 = f1
  Steps <- MCSteps
  BaseFlags = f0
  ExploredFlags <- MCExplored
  CachedFlags = {}
  Presets <- MCPresets
  Emit <- MCEmit
  ExploreFlags = TRUE
  ExploreMutations = TRUE
  VerifyWithFuzzer = TRUE
  MaxRounds = 2
  MaxPolishRounds = 1
  MaxRunnersUp = 1
  ExactScore = 3
  NearMiss = 1
  Structure <- MCStructure
INVARIANTS RecipeReproduces EntryWasMeasured WinnerIsBest
PROPERTIES Terminates
CHECK_DEADLOCK FALSE
