\* One message, every effect may fail half way, two containers may have it at once.
SPECIFICATION Spec
CONSTANTS
  m1 = m1  m2 = m2  m3 = m3  q1 = q1  q2 = q2  w1 = w1  w2 = w2  NoMsg = NoMsg
  Msgs = {m1}
  Bodies <- MCFanout
  Quests = {q1, q2}
  UnitOf <- MCBothXp
  Workers = {w1, w2}
  LEADERBOARD_ENABLED = TRUE
  BatchSize = 1
  MaxReceive = 3
  MaxAttempts = 2
  WriteAttempts = 1
  Faults = {"crash", "core", "dynamo", "duplicate"}
  EVENT_LOG_BACKEND = "sqlite"
  LogFails = FALSE
  IndexLags = FALSE
INVARIANTS
  TypeOK
  AckedMeansApplied
  DamageBounded
  FanoutFollowsCredit
  LogNeverOverstates
  RowsAreClosed
PROPERTY KeepsContract
CHECK_DEADLOCK FALSE
