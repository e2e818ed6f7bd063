\* Is what the services told their users so, and does no step take what is not its own?
SPECIFICATION PartsSpec
CONSTANTS
  Caller = {u1, u2}
  MaxCalls = 4
  MaxFaults = 2
  MaxStarts = 3
  MaxDeaths = 2
  Job = {1, 2}
  Name = {"a", "b"}
  Op = {1, 2}
  MaxAdds = 3
  MaxRefused = 1
  MaxEdits = 2
  TTL = 3
  MaxText = 1
  Starts = {1, 2}
  Editors = {1}
  MaxUsersWrites = 2
  MaxCrashes = 1
  Walker = {1, 2}
  MaxMoves = 1
  MaxStops = 1
  MaxRuns = 2
  MaxReports = 1
INVARIANTS
  ToldIsTrue
  NamesHold
PROPERTIES
  TakesOnlyItsOwn
  AsItWasSet
CHECK_DEADLOCK FALSE
