CONSTANTS
  Senders = {s1}
  Receivers = {r1}
  bridge = bridge
  Processes <- MCProcesses
  Texts <- MCTexts
  Commands <- MCCommands
  Capacity = 2
  MaxQueues = 2
  MaxSent = 2
  MaxWritten = 3
SPECIFICATION BridgeSpec
CHECK_DEADLOCK FALSE
INVARIANTS
  PortSetUpFirst
  UnaskedOnlyWithoutQueue
  CommandsInOrder
