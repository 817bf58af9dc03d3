SPECIFICATION FairSpec
CONSTANTS
  Calls = {c1, c2, c3, c4}
  Resources = {water, power}
  None = None
CHECK_DEADLOCK FALSE
INVARIANTS
  TypeOK
  MutualExclusion
  NoLostDeduction
  NoLostHandOver
PROPERTIES
  EveryCallEnters
