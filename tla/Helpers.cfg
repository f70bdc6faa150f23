SPECIFICATION Spec
CONSTANTS
  Encoders = {e1, e2}
  Workers = {w1, w2}
  Capacity = 2
  MaxFrames = 4
  MaxGeneration = 2
  Configured = 43
  Step = 5
  Minimum = 8
  Rates = {0, 7, 20}
  Waits = {0, 2, 9}
  Geometries = {g1, g2}
  Parameters = {p1, p2}
  MaxRevision = 5
  MaxTargets = 1
  MaxShows = 3
  MaxReplaces = 1
  MaxResumes = 1
  MaxMedia = 1
  PyThreads = {loop, w1, w2, w3}
  Loop = loop
  Handles = {h1, h2}
  None = none
INVARIANTS
  NoLostWakeup
  SenderContinues
  PaneLeavesNothing
  SceneInStep
  SlotsNameLiveTracks
  OneIncarnation
  ReportedIsShown
  HandleInStep
  RequestsUseOpenHandles
PROPERTIES
  DeliveredKeepsTarget
  IdleLinkRecovers
CHECK_DEADLOCK FALSE
