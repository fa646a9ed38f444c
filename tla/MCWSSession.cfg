\* One publisher, one connection with one subscription, queues that fit everything but the hub's.
SPECIFICATION WSSpec
CONSTANTS
  Topics = {t1}
  Reduced = {}
  Subs = {s1}
  Publishers = {p1, c1}
  Conns = {c1}
  Froms <- AllFroms
  StoreErrors = {}
  Ops = {"subscribe"}
  Buf = 1
  OutBuf = 2
  MaxRequests = 1
  DefaultTTL = 1
  MaxEvents = 5
  None = None
PROPERTIES ImplementsEventStream EventuallyDelivered
CHECK_DEADLOCK FALSE
