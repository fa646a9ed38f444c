\* A client of one topic, one publisher of two events.
SPECIFICATION PollSpec
CONSTANTS
  t1 = t1
  t2 = t2
  Topics = {t1}
  Reduced = {}
  Subs = {s1, s2}
  Publishers = {p1}
  Froms <- LatestOnly
  StoreErrors = {}
  Buf = 2
  DefaultTTL = 0
  MaxEvents = 2
  Pollers = {q1}
  TopicLists <- OneOnly
  MergedCap = 1
  MaxAsked = 2
  None = None
INVARIANTS NeverSkips
CHECK_DEADLOCK FALSE
