SPECIFICATION Spec
CONSTANTS
  Requests = {r1, r2}
  Meters = {m1}
  None = None
  Capacity = 1
  DriftStep = 5
  DriftCap = 500000
  MaxRounds = 2
CHECK_DEADLOCK FALSE
INVARIANTS
  RecalibrationSticks
