SPECIFICATION Spec
CONSTANTS
  Senders = {s1, s2}
  Controllers = {k1}
  MaxChannels = 1
  MaxGeneration = 1
  MaxId = 3
  MaxEpoch = 1
  MaxRecovery = 1
  MaxRevision = 2
  Activities = {"create", "open", "query", "send", "delta", "recovery", "eos", "close"}
SYMMETRY ThreadSymmetry
INVARIANTS
  TypeOK
  DeltaFollowsRecovery
  RequestedEpochHonoured
  WireInOrder
CHECK_DEADLOCK FALSE
