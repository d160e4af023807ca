SPECIFICATION Spec
CONSTANTS
  Schedules = {1, 2}
  Horizon = 1
  Fires <- FirstMinuteOnly
  MaxSchedules = 2
  QueueSize = 1
  LruSize = 3
  CatchupWindow = 1
  SentTimeout = 0
  ReclaimAge = 0
  DeadThreshold = 2
  RespawnLimit = 1
  MaxCrashes = 1
  MaxErrors = 2
  NoTrigger = NoTrigger
INVARIANTS  DeliveredOncePerLife
PROPERTY LifecycleSpec
