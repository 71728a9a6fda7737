\* The settings of config.py and DEPLOY.md; a tick is 5 seconds.
SPECIFICATION FairSpec
CONSTANTS
  Messages = {m1, m2}
  None = None
  THRESHOLD = 5
  COOLDOWN = 6
  MAX_ATTEMPTS = 3
  BATCH = 10
  LAMBDA_TIMEOUT = 6
  VISIBILITY = 12
  MaxReceive = 3
  MaxOutage = 19
INVARIANTS
  TypeOK
  RejectedComesBackLater
  OneFailureAfterOutage
  ShortOutageKillsNothing
PROPERTY OutageIsOvercome
