SPECIFICATION FairSpec
CONSTANTS
  Plans <- MCPlans
  Findings = {1, 2}
  MaxCycles = 3
  MaxRepairs = 1
  MaxRechecks = 1
  MaxReplans = 1
  MaxCommands = 1
INVARIANTS TypeOK AcceptanceEarned StopIsFinal EvidenceGapSpares
PROPERTY TaskEnds
