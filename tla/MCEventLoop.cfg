SPECIFICATION Spec
CONSTANTS
  Task = {t1, t2}
  Event = {e1, e2}
  NoTask = NoTask
  ShutdownTask = ShutdownTask
  MaxEventId = 2
  Delay = {1, 2}
  Lifetime = {1}
  MaxTime = 2
INVARIANTS
  EventAccounting
  
  FifoOrder
PROPERTIES
  EverythingRuns
  ImplementsTimers
