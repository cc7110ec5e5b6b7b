CONSTANTS
  Keys = {1, 2, 3}
  Owners = {w1, w2}
  NoOwner = NoOwner
  NoTask = NoTask
  Evicting = FALSE
  MaxTime = 2
  NeedsOf <- ChainNeeds
  Leases = {1}
  MaxSeq = 1
  MaxCalls = 6
  Faults = TRUE
SYMMETRY WorkerSymmetry
SPECIFICATION WalkSpec
PROPERTIES NoDoomedGrant
CHECK_DEADLOCK FALSE
