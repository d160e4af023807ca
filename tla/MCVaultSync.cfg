SPECIFICATION FairSpec
CONSTANTS
  n1 = n1
  s1 = s1
  m1 = m1
  Tick = Tick
  Free = Free
  Writer = Writer
  Notes <- TwoNotes
  Denied <- OneDenied
  Manuals <- OneManual
  MinInterval = 2
  StaleAge = 1
  Milestones <- Every2
  MaxClock = 2
  MaxWrites = 2
  MaxFaults = 1
  MaxFailures = 3
  MaxCrashes = 1
 
PROPERTIES BackupSpec AcceptedAreSpaced RunFinishes
CHECK_DEADLOCK FALSE
