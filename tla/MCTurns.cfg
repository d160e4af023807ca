SPECIFICATION FairSpec
CONSTANTS
  m1 = m1
  m2 = m2
  v1 = v1
  Messages <- ThreeMessages
  Mixes <- SomeMixes
  MaxStops = 1
  MaxCrashes = 1
INVARIANTS HistoryIsCurrent UserRowSurvives UploadIsSettled
PROPERTIES StopDrains SerialSpec TurnEnds
CHECK_DEADLOCK FALSE
