SPECIFICATION Spec
CONSTANTS
  SecsPerMinute = 2
  LastMinute = 3
  LastHour = 1
  LastDay = 3
  LastMonth = 2
  FirstYear = 1
  LastYear = 2
  DaysInWeek = 3
  DaysIn <- MCDaysIn
  kMaxDepth = 50
  EndOfEpoch = 1000
  Zones <- MCZones
  Schedules <- MCSchedules
  NoMatch = NoMatch
  Throws = Throws
  FetchError = FetchError
  StartTime = 20
  MaxTime = 150
  MaxGap = 3
INVARIANTS FindsFirstMatch NodesAreRecentEvents
PROPERTIES NodesComeOnce
CHECK_DEADLOCK FALSE
