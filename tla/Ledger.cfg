CONSTANTS
  Keys = {1, 2}
  Owners = {w1, w2}
  NoOwner = NoOwner
  NoTask = NoTask
  Evicting = FALSE
  MaxTime = 2
  NeedsOf <- PairNeeds
  Leases = {1}
  MaxSeq = 2
  MaxCalls = 5
  Faults = TRUE
SYMMETRY WorkerSymmetry
SPECIFICATION Spec
INVARIANTS BlockersAreBad
PROPERTIES
  TokensAreFresh
  OnlyLatestOwnerFinishes
  ImplementsLifecycle
CHECK_DEADLOCK FALSE
