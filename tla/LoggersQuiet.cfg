CONSTANTS
  Threads = {t1, t2}
  Handler = h
  Levels = {1}
  NULL = NULL
  MaxCalls = 2
  MaxInits <- MCMaxInits
SPECIFICATION Spec
CHECK_DEADLOCK FALSE
INVARIANT RecordedInFile
