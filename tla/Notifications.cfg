SPECIFICATION FairSpec
CONSTANTS
  Jobs = {j1}
  Browsers = {b1}
  Dispatchers = {d1, d2}
  None = None
  CLAIM_LEASE = 2
  RETRY_DELAY = 1
  MAX_ATTEMPTS = 3
  LIFETIME = 6
  LastRegistration = 0
  MaxId = 2
  MaxTime = 6
INVARIANTS
  EachAttemptOnce
  OverlapsAreLate
  SentMeansAccepted
  EndpointsAreErased
PROPERTIES
  OverIsOver
  EveryRegistrationEnds
CHECK_DEADLOCK FALSE
