CONSTANTS
  MaxConcurrentTools = 3
  Loops <- LoopsRun
  Factors = {100, 200}
  MaxIterations = 3
SPECIFICATION FairSpec
INVARIANTS
  RequestsWellFormed
  BudgetSettled
  TriggersSeen
PROPERTIES
  RanCallsTraced
  RunsEnd
CHECK_DEADLOCK FALSE
