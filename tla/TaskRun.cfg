CONSTANTS
  Keys = {1, 2}
  Owners = {w1, w2}
  NoOwner = NoOwner
  NoTask = NoTask
  Evicting = FALSE
  MaxTime = 2
  NeedsOf <- SelfNeeds
  Leases = {1}
  MaxSeq = 2
  MaxCalls = 100
  MaxRuns = 3
  Faults = FALSE
SPECIFICATION FairRunSpec
INVARIANTS FailureReachesDependents ExclusiveWork OneRunSucceeds
PROPERTIES RunsEnd
CHECK_DEADLOCK FALSE
