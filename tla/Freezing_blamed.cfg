SPECIFICATION Spec
CONSTANTS
  r1 = r1
  r2 = r2
  Run = {r2}
  MaxAsks = 1
  MaxTurns = 0
  MayStop = FALSE
PROPERTIES FrozenIsNotBlamed
CHECK_DEADLOCK FALSE
