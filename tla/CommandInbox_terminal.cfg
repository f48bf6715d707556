SPECIFICATION Spec
CONSTANTS
  t1 = t1
  t2 = t2
  u1 = u1
  u2 = u2
  Tasks <- MCTasks
  Users <- MCUsers
  Kinds <- MCKinds
  Capacity = 1
  MaxCommands = 2
  MaxCycles = 2
INVARIANTS TypeOK ExactlyOnce ClosedInboxEmpty
PROPERTIES SuccessIsInformed LatestTargetDelivered
SYMMETRY MCSymmetry
CHECK_DEADLOCK FALSE
