CONSTANTS
  Tokens = {"t"}
  MaxPieces = 2
  MaxRuns = 2
SPECIFICATION Spec
CHECK_DEADLOCK FALSE
INVARIANTS
  TokenWholeUnlessEarly
  TokenKept
  MarkedWhenShort
PROPERTY EndsWhenAnswered
