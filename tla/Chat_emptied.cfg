\* Does every request start with what the user said?
SPECIFICATION Spec
CONSTANTS
  Conversation = {c1}
  Exchange = {e1, e2}
  Command = {status}
  Permitted = {status}
  Size = {1, 3}
  MaxHistory = 2
  MaxTurns = 1
  MaxFaults = 0
  MaxLinks = 0
  MaxRestarts = 0
INVARIANTS
  StartsWithTheUser
CHECK_DEADLOCK FALSE
