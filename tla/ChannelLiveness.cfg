SPECIFICATION FairSpec
CONSTANTS
  Senders = {s1, s2}
  Waiters = {w1}
  Closers = {c1}
  Sizes = {1, 2}
  WindowBytes = 2
  WindowRecords = 2
  MaxSends = 2
  ForwardRoom = 1
  ReverseRoom = 1
PROPERTIES
  EverySendReturns
  EveryWaitReturns
  AbortWakesWaiters
  PlayReaches
CHECK_DEADLOCK FALSE
