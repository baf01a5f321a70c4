CONSTANTS
  Senders = {s1}
  Receivers = {r1}
  Processes <- MCProcesses
  Texts = {"quit", "start"}
  Capacity = 2
  MaxQueues = 2
  MaxSent = 2
SPECIFICATION Spec
CHECK_DEADLOCK FALSE
INVARIANT CreateTellsSuccess
