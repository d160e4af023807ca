SPECIFICATION FairSpec
CONSTANTS
  Schedules = {1}
  Horizon = 2
  Fires <- EveryMinute
  MaxSchedules = 1
  QueueSize = 1
  LruSize = 3
  CatchupWindow = 1
  SentTimeout = 1
  ReclaimAge = 0
  DeadThreshold = 2
  RespawnLimit = 1
  MaxCrashes = 0
  MaxErrors = 0
  NoTrigger = NoTrigger
PROPERTY FailedRunIsRetried
