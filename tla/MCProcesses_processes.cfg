\* Is what Owl's processes said seen once and whole, and is what was stopped gone?
SPECIFICATION PartsSpec
CONSTANTS
  Follower = {f1}
  Buffer = 2
  MaxLines = 3
  MaxLost = 1
  MaxCommands = 2
  Run = {1, 2}
  Stream = {1, 2}
  MaxShown = 1
INVARIANTS
  HeardOnceAndWhole
  StoppedMeansStopped
PROPERTIES
  NobodyIsHeldUp
CHECK_DEADLOCK FALSE
