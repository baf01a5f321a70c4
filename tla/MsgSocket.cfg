CONSTANTS
  s1 = s1
  s2 = s2
  Calls = {c1, c2}
  Servers <- MCServers
  Backlog = 1
  MaxFds <- MCMaxFds
  NULL = NULL
SPECIFICATION Spec
CHECK_DEADLOCK FALSE
INVARIANTS
  TypeOK
  HandledOnce
  SentIsHandled
  EmptyOnlyFromKilled
  RestartSucceeds
PROPERTY BacklogServed
