\* Is what a report calls abandoned really left behind?
SPECIFICATION Spec
CONSTANTS
  Job = {j1}
  Decider = {d1}
  MaxHands = 0
  MaxFaults = 0
INVARIANT
  NoFalseAlarm
CHECK_DEADLOCK FALSE
