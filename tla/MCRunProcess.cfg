SPECIFICATION FairSpec
CONSTANTS
  Capacity = 1
  MaxOutput = 2
  Worlds <- Attended
INVARIANTS OutputComplete LaunchReported TimeoutKillsGroup NothingLeaks
PROPERTIES Returns
CHECK_DEADLOCK FALSE
