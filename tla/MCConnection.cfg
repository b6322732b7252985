CONSTANTS
  Day = 3
  Schedules <- FewSchedules
  Requests = {r1}
  MaxFailures = 1
  MaxDrops = 2
  MaxRefreshes = 2
  MaxRestarts = 1
  MaxPuts = 2
SPECIFICATION LinkFairSpec
INVARIANTS SlotsAreWindows
PROPERTIES ForcedGoesOffline ComesBack
CHECK_DEADLOCK FALSE
