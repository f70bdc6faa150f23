SPECIFICATION Spec
CONSTANTS
  Senders = {s1, s2}
  Waiters = {w1}
  Closers = {c1}
  Sizes = {1, 2}
  WindowBytes = 3
  WindowRecords = 2
  MaxSends = 3
  ForwardRoom = 1
  ReverseRoom = 1
INVARIANTS
  WindowRespected
  ReusableMeansFreed
  NoStrandedFlow
PROPERTY
  CreditSpec
CHECK_DEADLOCK FALSE
