\* Bodies as production stores them, in which the filter finds nothing.
SPECIFICATION FairSpec
CONSTANTS
  m1 = m1  m2 = m2  m3 = m3  m4 = m4  None = None
  Msgs = {m1, m2}
  Asked = {m1}
  Readable = {}
  MaxMessages = 3
  ReceiveBatch = 2
  SendAttempts = 1
  MaxRuns = 1
PROPERTY OperatorSeesPreview
CHECK_DEADLOCK FALSE
