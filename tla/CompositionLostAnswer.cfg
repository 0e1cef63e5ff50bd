SPECIFICATION Spec
CONSTANTS
  Jobs = {j1}
  Attempts = {a1}
  NoJob = NoJob
  NoRun = NoRun
  COOLDOWN = 1
  PENDING_LEASE = 1
  RUNNING_LEASE = 2
  AI_TIMEOUT = 1
  LastRequest = 1
  MaxTime = 3
PROPERTIES
  ResultIsNeverRefunded
CHECK_DEADLOCK FALSE
