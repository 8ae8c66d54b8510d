SPECIFICATION Spec
CONSTANTS
  Conn = {c1, c2}
  None = None
  MaxBuffered = 1
  MaxTasks = 3
INVARIANTS
  RefsCounted
  NoDeletedPlayer
  OnePlayer
  NoStaleAutosend
PROPERTIES
  NoTakeover
  RemovedAreDeleted
CHECK_DEADLOCK FALSE
