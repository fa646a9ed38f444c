\* Subscriptions of two topics on one connection that may break, or time out, at any moment.
SPECIFICATION WSSpec
CONSTANTS
  Topics = {t1, t2}
  Reduced = {}
  Subs = {s1, s2}
  Publishers = {p1, c1}
  Conns = {c1}
  Froms <- Resume
  StoreErrors = {}
  Ops = {"subscribe", "unsubscribe", "break", "timeout"}
  Buf = 1
  OutBuf = 1
  MaxRequests = 2
  DefaultTTL = 1
  MaxEvents = 1
  None = None
PROPERTIES BrokenConnsCleanUp
CHECK_DEADLOCK FALSE
