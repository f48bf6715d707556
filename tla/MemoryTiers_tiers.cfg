SPECIFICATION Spec
CONSTANTS
  p1 = p1
  p2 = p2
  n1 = n1
  n2 = n2
  Procs <- MCProcs
  Nodes <- MCNodes
  MaxDocs = 3
  MaxCalls = 4
  MaxFailures = 1
  MaxRestarts = 1
SYMMETRY MCSymmetry
INVARIANTS TypeOK NothingLost InvalidMeansOlder
PROPERTY ReloadRepairs
CHECK_DEADLOCK FALSE
