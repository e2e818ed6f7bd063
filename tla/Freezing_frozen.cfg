SPECIFICATION FairSpec
CONSTANTS
  r1 = r1
  r2 = r2
  Run = {r2}
  MaxAsks = 2
  MaxTurns = 2
  MayStop = TRUE
INVARIANTS TypeOK FrozenHasWindow RecordIsTrue HearsTheStop
PROPERTIES UserPauseStands NothingStaysStuck
CHECK_DEADLOCK FALSE
