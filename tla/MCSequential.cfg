SPECIFICATION MCSpec
CONSTANTS
  Meters = {m1, m2}
  Kinds <- MCKinds
  History = 1
  FitSize = 2
  MaxSpan = 3
  SortLimit = 0
  Month <- MCMonth
  MaxClock = 2
  MaxReadings = 4
  Contracts = {k1, k2}
  PageSize = 2
  MaxLedgers = 3
  MaxEvents = 2
  Connections = {d1, d2}
  Capacity = 1
  MaxDatagrams = 2
  MaxEstimate = 4
  MaxTests = 4
SYMMETRY Symmetry
CHECK_DEADLOCK FALSE
INVARIANTS
  AllTypesOK
  ResultIsLeast
  OldReadingsOnlyOutOfOrder
  UnsoundOnlyByBadReading
  RefusalNeedsBadReading
  OneContractMissesNothing
  OnlyOthersOvertake
  NoGapWhileConsumed
