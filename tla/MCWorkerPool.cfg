SPECIFICATION FairSpec
CONSTANTS
  TargetCount = 4
  MaxWorkers = 3
INVARIANTS
  ClaimedOnce
PROPERTIES
  Deterministic
  Answered
