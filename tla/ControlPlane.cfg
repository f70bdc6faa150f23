SPECIFICATION Spec
CONSTANTS
  Callers = {c1, c2}
  Control = control
  Lanes = {l1}
  None = none
  MaxEvents = 2
  MaxRequests = 1
INVARIANTS
  NoCallerForgotten
  DrainedStaysEmpty
  LossReportedLast
  NoLaneOutlivesSession
SYMMETRY Symmetry
CHECK_DEADLOCK FALSE
