\* A client that polls one topic twice or two topics once, one publisher, failing reads.
SPECIFICATION PollSpec
CONSTANTS
  t1 = t1
  t2 = t2
  Topics = {t1, t2}
  Reduced = {}
  Subs = {s1, s2}
  Publishers = {p1}
  Froms <- LatestOnly
  StoreErrors = {"read"}
  Buf = 1
  DefaultTTL = 0
  MaxEvents = 2
  Pollers = {q1}
  TopicLists <- OneOrBoth
  MergedCap = 1
  MaxAsked = 2
  None = None
INVARIANTS SkipsAccounted ResponsesInOrder
PROPERTIES PollsEnd
CHECK_DEADLOCK FALSE
