\* A queue that is full when the connection is replaced.
SPECIFICATION Spec
CONSTANTS
  Topics = {t1}
  Callers = {a1}
  Froms <- LatestOrLast
  SendBuf = 1
  MaxCalls = 2
  MaxEvents = 1
  MaxFaults = 1
  MaxDrops = 0
  Closes = FALSE
  None = None
PROPERTIES Recovers
CHECK_DEADLOCK FALSE
