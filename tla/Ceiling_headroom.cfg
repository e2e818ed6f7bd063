\* Is an Account kept under its ceiling, and is what it held back taken up again?
SPECIFICATION FairSpec
CONSTANTS
  work = work
  j1 = j1
  j2 = j2
  Account = {work}
  Job = {j1, j2}
  AccountOf <- MCAccountOf
  Five = {five_hour}
  Weekly = {opus, sonnet}
  Ceilings <- MCCeilings
  Percent = {0, 2}
  MaxAhead = 2
  MaxWindows = 2
  Every = 1
  MaxHold = 2
  MaxReports = 2
  MaxTurns = 1
INVARIANT KeptUnder
PROPERTY HeldBackResumes
CHECK_DEADLOCK FALSE
