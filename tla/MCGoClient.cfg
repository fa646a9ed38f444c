\* One caller of two calls, a fault of the connection and a drop or failed read
\* at any moment, a queue that holds everything.
SPECIFICATION Spec
CONSTANTS
  Topics = {t1}
  Callers = {a1}
  Froms <- LastOne
  SendBuf = 6
  MaxCalls = 2
  MaxEvents = 3
  MaxFaults = 1
  MaxDrops = 1
  Closes = TRUE
  None = None
INVARIANTS CallbacksServed PendingExact
PROPERTIES ResumesExactly Recovers CloseEnds
CHECK_DEADLOCK FALSE
