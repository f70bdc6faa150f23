SPECIFICATION FairSpec
CONSTANTS
  Callers = {c1}
  Control = control
  Lanes = {l1}
  None = none
  MaxEvents = 1
  MaxRequests = 1
PROPERTIES
  EveryRequestReturns
  CloseFreesLaneCallers
CHECK_DEADLOCK FALSE
