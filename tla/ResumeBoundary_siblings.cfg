CONSTANTS
  NumNodes = 2
  Depth <- Pair
  Planners <- NoPlanner
  Orchestrated <- NoChildren
  MaxSteps = 1
  Retries <- NoRetry
  MaxCheckpoints = 20
  MaxResumes = 1
  MaxFailures = 0
SPECIFICATION Spec
PROPERTIES ExactBoundary
CHECK_DEADLOCK FALSE
