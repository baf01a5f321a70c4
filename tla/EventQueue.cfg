\* One thread that adds and two that get: getters compete for the nodes.
CONSTANTS
  Producers = {p1}
  Consumers = {c1, c2}
  Items = {i1, i2}
  NULL = NULL
  Garbage = {7}
SPECIFICATION Spec
SYMMETRY MCSymmetry
INVARIANTS
  CountMatchesList
  NoLostWakeup
  SingleOwner
  QueueInv
PROPERTY ImplementsFifo
