CONSTANTS
  Definitions <- Graphs
  Statuses = {0, 1, 2, 3, 4}
  Initial = 0
  NoCheckpoint = NoCheckpoint
  MaxRuns = 2
SPECIFICATION FairSpec
INVARIANTS
  CheckpointIsFinal
  NoFailureSwallowed
  StallsOnlyOnPanels
  MatrixCoversWalk
PROPERTIES RunsEnd
CHECK_DEADLOCK FALSE
