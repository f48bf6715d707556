SPECIFICATION FairSpec
CONSTANTS
  t1 = t1
  t2 = t2
  s1 = s1
  s2 = s2
  Tasks <- MCTasks
  Slots <- MCSlots
  NoTask = NoTask
  MaxCrashes = 1
  MaxFailures = 1
INVARIANTS TypeOK NoTaskLost RedoneOnlyAfterCrash
PROPERTY EveryTaskSettles
CHECK_DEADLOCK FALSE
