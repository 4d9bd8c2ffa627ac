SPECIFICATION FairTreeSpec
CONSTANTS
  N = 4
  Cfgs <- AllGraphs
  Jumps <- LaterBlocks
  Branches <- InnerBlocks
INVARIANTS DominatesEveryPath FrontierOfJoins LoopsAreNatural
PROPERTIES PassesEnd
CHECK_DEADLOCK FALSE
