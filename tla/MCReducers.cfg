SPECIFICATION Spec
CONSTANTS
  Nil = Nil
  Inputs <- MCInputs
  Depth <- MCDepth
  Clock <- MCClock
  LogCap = 2
  Bits = 6
  Mantissa = 3
  Second = 4
  MinTime <- YearZero
  MaxTime = 60
INVARIANTS PRSnapshot BuildSnapshot JobSnapshot DeploySnapshot ChatSnapshot FieldSnapshot TimeSnapshot
CHECK_DEADLOCK FALSE
