SPECIFICATION FairSpec
CONSTANTS
  p1 = p1
  p2 = p2
  n1 = n1
  n2 = n2
  Procs <- MCProcs
  Nodes <- MCNodes
  Graphs <- MCGraphs
  Keys <- MCKeys
  Calls <- MCDropCalls
  QueueCap = 1
  MaxBytes = 0
  Wrap = 8
  MaxCalls = 2
  MaxFailures = 0
PROPERTY DropNeverDeadlocks
CHECK_DEADLOCK FALSE
