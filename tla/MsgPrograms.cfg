\* Two receivers compete for the messages.
CONSTANTS
  Senders = {s1}
  Receivers = {r1, r2}
  Processes <- MCProcesses
  Texts = {"quit", "start"}
  Capacity = 2
  MaxQueues = 2
  MaxSent = 3
SPECIFICATION Spec
CHECK_DEADLOCK FALSE
INVARIANTS
  MailboxInv
  QuitLeavesOnlyLater
PROPERTIES
  ImplementsMailbox
  SendReturns
  AttendedIsTaken
