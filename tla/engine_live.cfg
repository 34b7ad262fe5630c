SPECIFICATION FairSpec
CONSTANTS
  Jobs = {j1}
  Workers = {w1, w2, w3}
  Ids = {w1, w2, w3}
  WorkerId <- OwnId
  Passes = {p1}
  None = None
  Outcomes <- MCTwoOutcomes
  MAX_RETRIES = 1
  MAX_QUEUE_DEPTH = 1
  Restarts = FALSE
  StallsPossible = FALSE
  DrainOutlivesHeartbeat = TRUE
  Budget <- MCBudget
  NCrash = 2
  NPg = 0
  NRedis = 0
  NSignal = 0
  NApi = 0
  NDog = 1
  NLink = 0
PROPERTIES
  EventuallySettled
  MarkersCleared
CHECK_DEADLOCK FALSE
