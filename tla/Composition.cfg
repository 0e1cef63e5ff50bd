SPECIFICATION Spec
CONSTANTS
  Jobs = {j1, j2}
  Attempts = {a1, a2}
  NoJob = NoJob
  NoRun = NoRun
  COOLDOWN = 1
  PENDING_LEASE = 1
  RUNNING_LEASE = 2
  AI_TIMEOUT = 1
  LastRequest = 1
  MaxTime = 3
SYMMETRY Symmetry
INVARIANTS
  GateHoldsTheProcessingJob
  FailedMeansRefunded
  OneRunEdits
PROPERTIES
  EditsAreSpaced
  SettledIsFinal
  LeaseIsHonoured
  ImplementsLifecycle
CONSTRAINT CompeteOrRetry
CHECK_DEADLOCK FALSE
