SPECIFICATION Spec
CONSTANTS
  Senders = {s1}
  Controllers = {k1, k2}
  MaxChannels = 2
  MaxGeneration = 2
  MaxId = 1
  MaxEpoch = 1
  MaxRecovery = 0
  MaxRevision = 4
  Activities = {"create", "query", "advance", "open", "flush", "destroy", "lose",
                "close", "send"}
SYMMETRY ThreadSymmetry
INVARIANTS
  LiveChannelIsCurrent
  LossNeverBackward
CHECK_DEADLOCK FALSE
