CONSTANTS
  NumNodes = 2
  Depth <- Pair
  Planners <- NoPlanner
  Orchestrated <- SecondHasChildren
  MaxSteps = 1
  Retries <- NoRetry
  MaxCheckpoints = 3
  MaxResumes = 1
  MaxFailures = 1
SPECIFICATION FairSpec
PROPERTIES GateJustified TaskSettles
CHECK_DEADLOCK FALSE
