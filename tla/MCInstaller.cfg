SPECIFICATION Spec
CONSTANTS
  plain = plain
  tooled = tooled
  broken = broken
  Absent = Absent
  Versions <- MCVersions
  WithTools <- MCWithTools
  Valid <- MCValid
  MaxChanges = 1
  MaxCalls = 3
  MaxFaults = 1
  MaxLives = 2
INVARIANTS   CacheIsExact
 
CHECK_DEADLOCK FALSE
