SPECIFICATION Spec
CONSTANTS
  Jobs = {j1}
  Workers = {w1, w2}
  Ids = {w1, w2}
  WorkerId <- OwnId
  Passes = {p1}
  None = None
  Outcomes <- MCTwoOutcomes
  MAX_RETRIES = 1
  MAX_QUEUE_DEPTH = 2
  Restarts = TRUE
  StallsPossible = FALSE
  DrainOutlivesHeartbeat = TRUE
  Budget <- MCBudget
  NCrash = 0
  NPg = 0
  NRedis = 0
  NSignal = 1
  NApi = 0
  NDog = 0
  NLink = 0
SYMMETRY Symmetry
INVARIANT NothingDropped
CHECK_DEADLOCK FALSE
