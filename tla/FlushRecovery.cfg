SPECIFICATION Spec
CONSTANTS
  Senders = {s1}
  Controllers = {k1}
  MaxChannels = 1
  MaxGeneration = 1
  MaxId = 2
  MaxEpoch = 1
  MaxRecovery = 0
  MaxRevision = 3
  Activities = {"create", "open", "flush", "send"}
INVARIANT FlushHonoured
CHECK_DEADLOCK FALSE
