SPECIFICATION FairSpec
CONSTANTS
  p1 = p1
  p2 = p2
  n1 = n1
  n2 = n2
  Procs <- MCProcs
  Nodes <- MCNodes
  Graphs <- MCGraphs
  Keys <- MCKeys
  Calls <- MCCalls
  QueueCap = 1
  MaxBytes = 3
  Wrap = 8
  MaxCalls = 3
  MaxFailures = 1
INVARIANTS TypeOK MirrorFollows DeleteCompletes BookkeepingExact
PROPERTY CallsEnd
CHECK_DEADLOCK FALSE
