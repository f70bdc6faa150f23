SPECIFICATION PythonFairSpec
CONSTANTS
  PyThreads = {loop, w1, w2}
  Loop = loop
  Handles = {h1}
  None = none
PROPERTY LoopKeepsRunning
CHECK_DEADLOCK FALSE
