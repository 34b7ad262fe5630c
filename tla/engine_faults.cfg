SPECIFICATION Spec
CONSTANTS
  Jobs = {j1}
  Workers = {w1, w2}
  Ids = {shared}
  WorkerId <- SharedId
  Passes = {p1}
  None = None
  Outcomes <- MCTwoOutcomes
  MAX_RETRIES = 1
  MAX_QUEUE_DEPTH = 2
  Restarts = FALSE
  StallsPossible = TRUE
  DrainOutlivesHeartbeat = TRUE
  Budget <- MCBudget
  NCrash = 0
  NPg = 0
  NRedis = 1
  NSignal = 0
  NApi = 0
  NDog = 0
  NLink = 1
SYMMETRY Symmetry
INVARIANTS
  DoneBacked
  OneTicket
  GivenUpOnce
CHECK_DEADLOCK FALSE
