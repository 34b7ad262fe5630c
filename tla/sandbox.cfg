SPECIFICATION Spec
CONSTANTS
  e1 = e1
  e2 = e2
  Execs = {e1, e2}
  Path <- OnePath
  Compiles = {e1}
  HEADER = 3
  MAX_FRAME = 16
  CompileFrames <- MCCompileFrames
  RunTexts <- MCRunTexts
  MaxFaults = 1
INVARIANTS
  TypeOK
  KillMeansTimeout
  ResultHonest
  UndefinedOnlyIfShared
  CleanedUp
  LiveIsRecord
  LogsSplit
PROPERTIES
  ExecutionEnds
CHECK_DEADLOCK FALSE
