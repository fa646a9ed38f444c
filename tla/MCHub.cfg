\* Two publishers without a common lock, two subscriptions, one-slot channels.
SPECIFICATION Spec
CONSTANTS
  Topics = {t1}
  Subs = {s1, s2}
  Publishers = {p1, p2}
  Buf = 1
  None = None
  MaxCalls = 3
INVARIANTS RegistryExact OffersConserved
PROPERTIES QuietAfterClose PublishNeverBlocks
CHECK_DEADLOCK FALSE
