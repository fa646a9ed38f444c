\* Two publishers of up to three events, one subscription with a one-slot channel, failing store calls.
SPECIFICATION BrokerSpec
CONSTANTS
  Topics = {t1, t2}
  Reduced = {t1}
  Subs = {s1}
  Publishers = {p1, p2}
  Froms <- MCFroms
  StoreErrors = {"append", "upsertmeta", "read"}
  Buf = 1
  DefaultTTL = 1
  MaxEvents = 3
  None = None
INVARIANTS StateIsFold FramesCarryOwnState LiveInOrder NothingMissed FenceSeparates
SYMMETRY Symmetry
CHECK_DEADLOCK FALSE
