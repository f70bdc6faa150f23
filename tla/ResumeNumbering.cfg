SPECIFICATION DesktopSpec
CONSTANTS
  MaxTargets = 0
  MaxReplaces = 0
  MaxResumes = 1
  MaxMedia = 1
INVARIANT IdsContinue
CHECK_DEADLOCK FALSE
