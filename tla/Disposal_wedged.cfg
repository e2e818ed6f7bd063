\* Can a drop that was cut short be asked for again?
SPECIFICATION Spec
CONSTANTS
  Job = {j1}
  Decider = {d1}
  MaxHands = 0
  MaxFaults = 1
INVARIANT
  DropFindsItsBranch
CHECK_DEADLOCK FALSE
