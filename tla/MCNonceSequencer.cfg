SPECIFICATION Spec
CONSTANTS
  Calls = {c1, c2, c3, c4}
  NoCall = NoCall
  NonceLimit = 4
CHECK_DEADLOCK FALSE
INVARIANTS
  TypeOK
  AcceptedInOrder
  RefusedOnlyIfOvertaken
PROPERTIES
  RefusalIsFinal
