SPECIFICATION Spec
CONSTANTS
  Jobs = {1, 2}
  None = None
  Rough = {1}
  Patient = TRUE
  MaxFaults = 1
INVARIANTS
  TypeOK
  DoneOnce
PROPERTIES
  EventuallyTold
  StaleOnlyFromPoll
  RunEnds
CHECK_DEADLOCK FALSE
