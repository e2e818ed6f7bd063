\* One Job, one call at a time: does anything in use or uncommitted go, and does
\* what was begun finish?
SPECIFICATION FairSpec
CONSTANTS
  Job = {j1}
  Decider = {d1}
  MaxHands = 1
  MaxFaults = 2
INVARIANTS AcceptedKeepsBranch
PROPERTIES WorkIsKept DisposalEnds
CHECK_DEADLOCK FALSE
