CONSTANTS
  Keys = {1, 2, 3}
  Owners = {w1}
  NoOwner = NoOwner
  NoTask = NoTask
  Evicting = TRUE
  MaxTime = 2
  MaxEntries = 2
  EvictScanBudget = 2
  MaxFence = 2
  Processes = {p1, p2}
  MaxWrites = 2
SPECIFICATION ColdSpec
INVARIANTS MigratesOnce TokensSurviveRestart
PROPERTIES NoLostUpdate ImplementsStore
CHECK_DEADLOCK FALSE
