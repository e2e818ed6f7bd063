\* Is a start's worktree what it should be, in its branch and in its Skills, and
\* is a review earned?
SPECIFICATION PartsSpec
CONSTANTS
  MaxRuns = 2
  MaxMoves = 1
  MaxHands = 1
  MaxFaults = 2
  Skill = {s1}
  Ref = {main, v1}
  Default = main
  Caller = {u1}
  MaxCommands = 1
  MaxPlacements = 2
  MaxUpsets = 1
INVARIANTS
  ReviewIsJudged
PROPERTIES
  WorktreeIsKept
  SkillsAsDeclared
CHECK_DEADLOCK FALSE
