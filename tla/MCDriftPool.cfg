SPECIFICATION Spec
CONSTANTS
  Requests = {r1, r2, r3}
  Meters = {m1, m2}
  None = None
  Capacity = 1
  DriftStep = 2
  DriftCap = 3
  MaxRounds = 2
SYMMETRY MCSymmetry
CHECK_DEADLOCK FALSE
INVARIANTS
  TypeOK
  FallbackOnlyWhenDown
  DriftIsAgedOncePerRound
  OneRawReadingPerMeter
  MetricsCoverAnsweredReadings
PROPERTIES
  ServiceSpec
