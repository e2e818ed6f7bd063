\* Does nothing run unasked, is the user answered, and is what was seen kept?
SPECIFICATION Spec
CONSTANTS
  Conversation = {c1, c2}
  Exchange = {e1, e2}
  Command = {status, push}
  Permitted = {status}
  Size = {1, 3}
  MaxHistory = 2
  MaxTurns = 2
  MaxFaults = 1
  MaxLinks = 1
  MaxRestarts = 1
INVARIANTS ExchangeIsSound
PROPERTIES SeenIsKept
CHECK_DEADLOCK FALSE
