SPECIFICATION Spec
CONSTANTS
  a1 = a1
  a2 = a2
  Apis = {a1, a2}
  MAX = 3
  WINDOW = 4
  SECOND = 1
  Skew <- MCSkew
  MaxSkew = 1
  MaxClock = 10
  MaxInFlight = 1
  MaxFaults = 1
  MaxRegress = 3
  None = None
INVARIANTS
  TypeOK
  RateBounded
  ExpiryHarmless
  RetryAfterSuffices
CHECK_DEADLOCK FALSE
