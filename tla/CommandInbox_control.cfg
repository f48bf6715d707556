SPECIFICATION FairSpec
CONSTANTS
  t1 = t1
  t2 = t2
  u1 = u1
  u2 = u2
  Tasks <- MCOneTask
  Users <- MCUsers
  Kinds <- MCControls
  Capacity = 2
  MaxCommands = 3
  MaxCycles = 2
PROPERTY CommandsTakeEffect
CHECK_DEADLOCK FALSE
