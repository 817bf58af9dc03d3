SPECIFICATION Spec
CONSTANTS
  Calls = {c1, c2, c3, c4}
  Ids = {t1, t2}
CHECK_DEADLOCK FALSE
INVARIANTS
  TypeOK
  NotFoundIsTrue
  OnlyOldestIsDecided
PROPERTIES
  TableSpec
