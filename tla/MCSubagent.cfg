SPECIFICATION FairSpec
CONSTANTS
  a1 = a1
  Agents <- OneAgent
  MaxRequests = 2
  MaxAttempts = 2
  MaxCrashes = 1
  MaxErrors = 1
  MaxRepeats = 1
  NoAgent = NoAgent
INVARIANTS OneRowPerAgent StartedIsOfThisLife
PROPERTIES LifecycleSpec RequestIsSettled
CHECK_DEADLOCK FALSE
