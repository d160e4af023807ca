SPECIFICATION ConnectionSpec
CONSTANTS
  Appends = {a1}
  Turns = {t1}
  Marks = {k1}
  Starts = {s1, s2}
  Loop = Loop
  MaxTicks = 3
  MaxCancels = 1
  MaxCrashes = 1
INVARIANTS ReturnedIsDurable MinuteIsWhole MinuteFiresOnce
CHECK_DEADLOCK FALSE
