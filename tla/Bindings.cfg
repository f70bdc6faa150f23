SPECIFICATION BindingsSpec
CONSTANTS
  Controllers = {vivido, other, bridge}
  Bridged = {bridge}
  Leases = {l1, l2}
  Attempts = 3
  None = none
  MaxSecrets = 2
  Setters = {s1, s2}
  Watchdog = 2
  Absent = absent
  MaxEpoch = 2
  MaxQueued = 2
  MaxRenewal = 2
  MaxTime = 3
  Binders = {b1, b2}
  Limits = {1, 2}
  Length = 2
  SourceLengths = {1, 2, 3}
  MaxDropEpoch = 2
  MaxTransfers = 2
INVARIANTS
  GrantBindsItsSecret
  ActiveLeaseAccounted
  RevokedIsGone
  NewestGrantOnly
  DropGrantNarrows
  FinishedIsWhole
PROPERTIES
  CallsReturn
  ExpiredNeverRearmed
  LaneLossDisarms
CHECK_DEADLOCK FALSE
