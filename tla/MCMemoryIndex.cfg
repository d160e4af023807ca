SPECIFICATION Spec
CONSTANTS
  n1 = n1
  n2 = n2
  w1 = w1
  w2 = w2
  Starter = Starter
  NoOne = NoOne
  Notes <- MCNotes
  Workers <- MCWorkers
  MaxCalls = 3
  MaxEdits = 2
  MaxFaults = 1
  MaxCrashes = 1
SYMMETRY Alike
INVARIANTS RowsFollowFiles ProbeIsExact
CHECK_DEADLOCK FALSE
