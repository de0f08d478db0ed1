\* Two tasks, a clock that stops before TimePoint::max().
CONSTANTS
  MaxTasks = 2
  Periods = {1, 2}
  Watchdogs = {0, 1}
  Limits = {0, 1, 2}
  Skews = {0, 1}
  TimeMax = 5
  Horizon = 4
SPECIFICATION FairSpec
INVARIANTS TypeOK NoDrift
PROPERTIES OkLeavesNothing NoHiddenMiss CatchesUp
