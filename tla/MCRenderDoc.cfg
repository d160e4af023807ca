SPECIFICATION FairSpec
CONSTANTS
  r1 = r1
  r2 = r2
  r3 = r3
  report = report
  table = table
  Renders <- MCRenders
  Names <- MCNames
  NameOf <- MCNameOf
  Slots = 1
  MaxTurns = 1
  MaxFaults = 1
  MaxLives = 2
 
PROPERTIES  Reaped
CHECK_DEADLOCK FALSE
