CONSTANTS
  increment = increment
  decrement = decrement
  Producers = {increment}
  Consumers = {decrement}
  Items = {i1, i2, i3, i4}
  NULL = NULL
  Garbage = {0, 7}
  MaxQueued = 2
SPECIFICATION DemoSpec
CHECK_DEADLOCK FALSE
INVARIANTS
  NeverBlocksHoldingMutex
  ItemUsable
  NoMissedSignal
  ListBounded
PROPERTY EveryNodeFreed
