SPECIFICATION Spec
CONSTANTS
  r1 = r1
  r2 = r2
  Run = {r1, r2}
  MaxAsks = 0
  MaxTurns = 1
  MayStop = FALSE
PROPERTIES ByHandLeftAlone
CHECK_DEADLOCK FALSE
