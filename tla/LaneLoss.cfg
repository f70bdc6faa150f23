SPECIFICATION GuardFairSpec
CONSTANTS
  Setters = {s1, s2}
  Watchdog = 2
  Absent = absent
  MaxEpoch = 1
  MaxQueued = 2
  MaxRenewal = 1
  MaxTime = 2
PROPERTY LaneLossFailsClosed
CHECK_DEADLOCK FALSE
