SPECIFICATION Spec
CONSTANTS
  i1 = i1
  i2 = i2
  c1 = c1
  c2 = c2
  Iris <- MCIris
  Checkpointers <- MCCheckpointers
  Absent = Absent
  Damaged = Damaged
  MaxAttempts = 3
  MaxFrozen = 2
  MaxIoErrors = 2
  MaxFaults = 2
  MaxDamage = 1
  MaxCheckpoints = 3
SYMMETRY MCSymmetry
INVARIANTS TypeOK Recoverable ViewFaithful RestartAgrees
CHECK_DEADLOCK FALSE
