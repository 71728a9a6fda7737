\* Every message leaves the queue, whatever fails.
SPECIFICATION FairSpec
CONSTANTS
  m1 = m1  m2 = m2  m3 = m3  q1 = q1  q2 = q2  w1 = w1  w2 = w2  NoMsg = NoMsg
  Msgs = {m1, m2}
  Bodies <- MCPoison
  Quests = {q1}
  UnitOf <- MCOneLesson
  Workers = {w1}
  LEADERBOARD_ENABLED = FALSE
  BatchSize = 2
  MaxReceive = 2
  MaxAttempts = 1
  WriteAttempts = 1
  Faults = {"crash", "core"}
  EVENT_LOG_BACKEND = "sqlite"
  LogFails = TRUE
  IndexLags = FALSE
PROPERTIES
  EventuallySettled
  PoisonIsKept
CHECK_DEADLOCK FALSE
