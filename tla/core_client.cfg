\* Safety and liveness of the retry loop with its breaker.
SPECIFICATION FairSpec
CONSTANTS
  THRESHOLD = 5
  COOLDOWN = 4
  MAX_RETRIES = 2
INVARIANTS
  TypeOK
  ClosedIffUnderThreshold
  AdmissionRespected
PROPERTIES
  ImplementsCall
  RecoversAfterOutage
  ProbesKeepComing
