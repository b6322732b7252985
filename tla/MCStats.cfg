SPECIFICATION Spec
CONSTANTS
  Null = Null
  MergeGap = 1
  ShownGap = 0
  Recent = 2
  Hour = 2
  HoursPerDay = 2
  DaysPerWeek = 3
  NightHours = 1
  Evening = 1
  Early = 0
  SleepGap = 2
  SleepNights = 1
  StreakDays = 4
  TrendDays = 2
  HeatDays = 4
  TrendWeek = 1
  Kinds <- MCKinds
  Zones <- MCZones
  Start = 18
  PageSize = 1
  MonthDays = 4
  MaxRows = 4
  MaxTime = 6
  MaxWatch = 1
INVARIANTS BlocksFaithful SectionsFaithful LocalClock DaysAreExact DaysListed
CHECK_DEADLOCK FALSE
