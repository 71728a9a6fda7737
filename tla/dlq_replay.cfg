\* Four messages, three of which the filter keeps, one more than a run may move;
\* interruptions.
SPECIFICATION FairSpec
CONSTANTS
  m1 = m1  m2 = m2  m3 = m3  m4 = m4  None = None
  Msgs = {m1, m2, m3, m4}
  Asked = {m1, m2, m3}
  Readable = {m1, m2, m3, m4}
  MaxMessages = 2
  ReceiveBatch = 2
  SendAttempts = 2
  MaxRuns = 2
INVARIANTS
  TypeOK
  NothingIsLost
  OnlyGrantedMove
  SentOncePerRun
  AllPreviewedMoved
PROPERTY RunsEnd
CHECK_DEADLOCK FALSE
