\* Is a Run over whose Agent is gone, or was told to go, whoever holds its output?
SPECIFICATION FairSpec
CONSTANTS
  Follower = {f1}
  Buffer = 2
  MaxLines = 1
  MaxLost = 0
CHECK_DEADLOCK FALSE
PROPERTIES
  ExitedEnds
  CancelledIsOver
