SPECIFICATION Spec
CONSTANTS
  Requests = {r1}
  Meters = {m1}
  None = None
  Capacity = 1
  DriftStep = 5
  DriftCap = 500000
  MaxRounds = 120
CHECK_DEADLOCK FALSE
INVARIANTS
  DriftWithin500PpbPerCycle
