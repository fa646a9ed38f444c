\* Two handlers, up to three attempts to deliver, one fault or crash, one expiry.
SPECIFICATION Spec
CONSTANTS
  Topics = {1, 2}
  Handlers = {h1, h2}
  Deliveries <- MCDeliveries
  MaxTries = 3
  MaxFaults = 1
  MaxSweeps = 1
  None = None
INVARIANTS AcceptedIsStored PrefixStored SeqsIncrease ReturnedSeqLeadsBack KeysTogether StateIsFoldUnlessHit
SYMMETRY Symmetry
CHECK_DEADLOCK FALSE
