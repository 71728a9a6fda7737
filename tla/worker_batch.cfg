\* Batches of every kind of body, with the DynamoDB event log,
\* whose index lags and whose calls may fail.
SPECIFICATION Spec
CONSTANTS
  m1 = m1  m2 = m2  m3 = m3  q1 = q1  q2 = q2  w1 = w1  w2 = w2  NoMsg = NoMsg
  Msgs = {m1, m2}
  Bodies <- MCEveryKind
  Quests = {q1, q2}
  UnitOf <- MCMixed
  Workers = {w1}
  LEADERBOARD_ENABLED = TRUE
  BatchSize = 2
  MaxReceive = 2
  MaxAttempts = 1
  WriteAttempts = 1
  Faults = {"core"}
  EVENT_LOG_BACKEND = "dynamodb"
  LogFails = TRUE
  IndexLags = TRUE
SYMMETRY MCSymmetry
INVARIANT LogNeverOverstates
PROPERTY PeersAutoDelete
CHECK_DEADLOCK FALSE
