\* Does every request reach the provider with one turn to a role?
SPECIFICATION Spec
CONSTANTS
  Conversation = {c1}
  Exchange = {e1, e2}
  Command = {status}
  Permitted = {status}
  Size = {1}
  MaxHistory = 4
  MaxTurns = 2
  MaxFaults = 0
  MaxLinks = 0
  MaxRestarts = 0
INVARIANTS
  OneTurnToARole
CHECK_DEADLOCK FALSE
