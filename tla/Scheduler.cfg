CONSTANTS
  Ids = {a, b}
  Schedules <- SmallSchedules
  NoEntry = NoEntry
  MaxTime = 3
  MaxAdds = 3
  MaxRuns = 2
SPECIFICATION FairSpec
INVARIANTS NothingMissed NoJobOutlivesRun
PROPERTIES FiresOncePerInstant DueJobFires
CHECK_DEADLOCK FALSE
