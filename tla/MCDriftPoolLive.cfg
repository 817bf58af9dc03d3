SPECIFICATION FairSpec
CONSTANTS
  Requests = {r1, r2, r3}
  Meters = {m1}
  None = None
  Capacity = 1
  DriftStep = 2
  DriftCap = 3
  MaxRounds = 1
CHECK_DEADLOCK FALSE
PROPERTIES
  EveryCallReturns
