SPECIFICATION Spec
CONSTANTS
  j1 = j1
  j2 = j2
  j3 = j3
  p1 = p1
  p2 = p2
  a1 = a1
  a2 = a2
  NoJob = NoJob
  NoAccount = NoAccount
  Job = {j1, j2}
  Project = {p1, p2}
  ProjectOf <- TwoProjects
  Account = {a1}
  MaxRuns = 3
  MaxAttempts = 2
  MaxParallel = 1
  MaxPerProject = 1
  MaxPerAccount = 0
  Throttled = {}
  Unstartable = {}
  Removable = {p1}
  Planned = {j1}
  Grants = {2}
  MaxGranted = 3
  MaxStops = 2
  MaxFaults = 0
  MaxEdits = 0
INVARIANTS TypeOK OneRunPerJob AttemptsAccounted NothingStranded ReviewIsEarned
PROPERTIES DecisionsStand KeepsLifecycle
CHECK_DEADLOCK FALSE
