\* A sweeping archiver under two publishers of two topics; TTL 1, instants 1 to 4.
SPECIFICATION ArchSpec
CONSTANTS
  Topics = {t1, t2}
  Reduced = {t1}
  Subs = {}
  Publishers = {p1, p2}
  Froms <- LatestOnly
  StoreErrors = {"append"}
  Buf = 1
  DefaultTTL = 1
  ArchiverTTL = 2
  MaxEvents = 2
  MaxClock = 4
  None = None
INVARIANTS StateIsFoldUnlessRaced
PROPERTIES PublishReturns FreshLostOnlyByRace AgedTopicsExpire
CHECK_DEADLOCK FALSE
