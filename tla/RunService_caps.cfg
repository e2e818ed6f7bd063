SPECIFICATION Spec
CONSTANTS
  j1 = j1
  j2 = j2
  j3 = j3
  p1 = p1
  p2 = p2
  a1 = a1
  a2 = a2
  NoJob = NoJob
  NoAccount = NoAccount
  Job = {j1, j2, j3}
  Project = {p1, p2}
  ProjectOf <- ThreeJobs
  Account = {a1, a2}
  MaxRuns = 3
  MaxAttempts = 2
  MaxParallel = 2
  MaxPerProject = 1
  MaxPerAccount = 1
  Throttled = {a2}
  Unstartable = {}
  Removable = {}
  Planned = {}
  Grants = {1}
  MaxGranted = 1
  MaxStops = 0
  MaxFaults = 0
  MaxEdits = 0
INVARIANTS WithinCaps WithinAccountCaps QueueIsWhole
PROPERTIES KeepsOrder
CHECK_DEADLOCK FALSE
