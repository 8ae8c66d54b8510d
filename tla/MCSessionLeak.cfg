SPECIFICATION Safety
CONSTANTS
  Conn = {c1, c2}
  None = None
  MaxBuffered = 1
  MaxTasks = 3
INVARIANT
  NoReleasedClient
CHECK_DEADLOCK FALSE
