SPECIFICATION CronSpec
CONSTANTS
  MinutesPerHour = 3
  HoursPerDay = 2
  DaysPerWeek = 3
  DaysPerMonth = 3
  Zones <- MCZones
  Expressions <- MCTexts
  Star = Star
  Nothing = Nothing
  Window = 3
  Lookahead = 24
  Horizon = 16
INVARIANTS OncePerWallMinute NothingIsLost PromiseIsKept
CHECK_DEADLOCK FALSE
