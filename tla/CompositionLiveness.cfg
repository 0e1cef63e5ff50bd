SPECIFICATION EnteredFairSpec
CONSTANTS
  Jobs = {j1, j2}
  Attempts = {a1}
  NoJob = NoJob
  NoRun = NoRun
  COOLDOWN = 1
  PENDING_LEASE = 1
  RUNNING_LEASE = 2
  AI_TIMEOUT = 1
  LastRequest = 1
  MaxTime = 3
PROPERTIES
  EveryJobSettles
  ImplementsFairLifecycle
CONSTRAINT OneCallEach
CHECK_DEADLOCK FALSE
