\* One record whose envelope does not decode, in a batch with others.
SPECIFICATION Spec
CONSTANTS
  m1 = m1  m2 = m2  m3 = m3  q1 = q1  q2 = q2  w1 = w1  w2 = w2  NoMsg = NoMsg
  Msgs = {m1, m2}
  Bodies <- MCWithBroken
  Quests = {q1, q2}
  UnitOf <- MCMixed
  Workers = {w1}
  LEADERBOARD_ENABLED = FALSE
  BatchSize = 2
  MaxReceive = 2
  MaxAttempts = 1
  WriteAttempts = 1
  Faults = {}
  EVENT_LOG_BACKEND = ""
  LogFails = FALSE
  IndexLags = FALSE
PROPERTY PeersAutoDelete
CHECK_DEADLOCK FALSE
