SPECIFICATION Spec
CONSTANTS
  Calls = {c1, c2, c3}
  Keys = {swap, pay}
  Margins = {10}
  Rounds = 3
  Capacity = 1
  Results <- MCResults
CHECK_DEADLOCK FALSE
INVARIANTS
  TypeOK
  CacheHoldsFinalResults
  LastRoundHasLeeway
