CONSTANTS
  NumNodes = 2
  Depth <- Chain
  Planners <- FirstPlans
  Orchestrated <- NoChildren
  MaxSteps = 1
  Retries <- RetryFirst
  MaxCheckpoints = 3
  MaxResumes = 2
  MaxFailures = 0
SPECIFICATION Spec
INVARIANT TypeOK
PROPERTIES ExactBoundary CommittedWorkStays SealedTaskIsInert
CHECK_DEADLOCK FALSE
