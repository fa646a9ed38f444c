\* Every request in any order: refused, failed and repeated subscriptions, unsubscribes, publishes.
SPECIFICATION WSSpec
CONSTANTS
  Topics = {t1}
  Reduced = {t1}
  Subs = {s1, s2}
  Publishers = {p1, c1}
  Conns = {c1}
  Froms <- Resume
  StoreErrors = {"append", "setstate", "read"}
  Ops = {"subscribe", "unsubscribe", "publish", "get_state", "ping", "unknown"}
  Buf = 1
  OutBuf = 2
  MaxRequests = 3
  DefaultTTL = 1
  MaxEvents = 2
  None = None
INVARIANTS AckIsFence StaleAreDuplicates MapIsExact
SYMMETRY Symmetry
CHECK_DEADLOCK FALSE
