SPECIFICATION Spec
CONSTANTS
  Interval = 4
  Word = 16
  Settings <- MCSettings
  Stall = 6
  MaxTime = 18
  MaxClock = 40
CHECK_DEADLOCK FALSE
INVARIANTS
  CheckedInTime
PROPERTIES
  ChecksSpaced
