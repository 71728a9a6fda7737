\* Two messages, two losses, a log that may fail at any call.
SPECIFICATION FairSpec
CONSTANTS
  Events = {e1, e2}
  Payloads <- MCPayloads
  NoEvent = NoEvent
  PREFETCH = 2
  MaxLosses = 2
  EVENT_LOG_BACKEND = "sqlite"
  LogFails = TRUE
  IndexLags = FALSE
INVARIANTS
  TypeOK
  LogTellsOwnStory
  DoneAndNoLoop
PROPERTY NothingSticks
CHECK_DEADLOCK FALSE
