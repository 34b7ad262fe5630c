SPECIFICATION Spec
CONSTANTS
  Jobs = {j1, j2}
  Workers = {w1, w2}
  Ids = {w1, w2}
  WorkerId <- OwnId
  Passes = {p1}
  None = None
  Outcomes <- MCTwoOutcomes
  MAX_RETRIES = 1
  MAX_QUEUE_DEPTH = 1
  Restarts = TRUE
  StallsPossible = FALSE
  DrainOutlivesHeartbeat = TRUE
  Budget <- MCBudget
  NCrash = 2
  NPg = 0
  NRedis = 0
  NSignal = 0
  NApi = 0
  NDog = 0
  NLink = 0
SYMMETRY Symmetry
INVARIANTS
  TypeOK
  OnePlace
  WorkIsMarked
  CachedIsFinal
  RetriesBounded
  StoresAgree
PROPERTY ImplementsService
CHECK_DEADLOCK FALSE
