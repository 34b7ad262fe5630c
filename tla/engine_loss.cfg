SPECIFICATION Spec
CONSTANTS
  Jobs = {j1}
  Workers = {w1, w2}
  Ids = {w1, w2}
  WorkerId <- OwnId
  Passes = {p1}
  None = None
  Outcomes <- MCTwoOutcomes
  MAX_RETRIES = 1
  MAX_QUEUE_DEPTH = 2
  Restarts = FALSE
  StallsPossible = FALSE
  DrainOutlivesHeartbeat = FALSE
  Budget <- MCBudget
  NCrash = 1
  NPg = 1
  NRedis = 0
  NSignal = 1
  NApi = 1
  NDog = 1
  NLink = 1
SYMMETRY Symmetry
INVARIANTS
  DoneBacked
  JobsHaveRows
PROPERTY LostOnlyInWindows
CHECK_DEADLOCK FALSE
