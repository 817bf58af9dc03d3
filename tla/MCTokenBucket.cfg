SPECIFICATION FairSpec
CONSTANTS
  Calls = {c1, c2, c3, c4}
  MaxTokens = 4
  Counts = {1, 2, 5}
CHECK_DEADLOCK FALSE
INVARIANTS
  TypeOK
  NothingGrantedTwice
PROPERTIES
  BucketSpec
  EveryCallReturns
