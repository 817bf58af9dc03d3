SPECIFICATION Spec
CONSTANTS
  m1 = m1
  m2 = m2
  m3 = m3
  Meters <- MCMeters
  Indices <- MCIndices
  Bits = {1, 2, 3}
  KeyLimit = 2
CHECK_DEADLOCK FALSE
INVARIANTS
  TypeOK
  RetiredKeysAreDead
  MeterNotStranded
  CrlMatchesStatus
PROPERTIES
  RevocationIsFinal
