SPECIFICATION FairSpec
CONSTANTS
  j1 = j1
  j2 = j2
  j3 = j3
  p1 = p1
  p2 = p2
  a1 = a1
  a2 = a2
  NoJob = NoJob
  NoAccount = NoAccount
  Job = {j1, j2}
  Project = {p1}
  ProjectOf <- OneProject
  Account = {a1}
  MaxRuns = 2
  MaxAttempts = 2
  MaxParallel = 1
  MaxPerProject = 1
  MaxPerAccount = 0
  Throttled = {}
  Unstartable = {j1}
  Removable = {}
  Planned = {}
  Grants = {1}
  MaxGranted = 1
  MaxStops = 0
  MaxFaults = 0
  MaxEdits = 0
PROPERTIES PendingIsServed
CHECK_DEADLOCK FALSE
