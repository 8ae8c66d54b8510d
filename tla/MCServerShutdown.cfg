SPECIFICATION Spec
CONSTANTS
  Sigint = Sigint
  Login = Login
  GameShutdown = GameShutdown
  Task = {Sigint, Login, GameShutdown, q1, q2}
  Query = {q1, q2}
  CallbackQuery = {q1}
  Event = {e1}
  NoTask = NoTask
  ShutdownTask = ShutdownTask
  MaxEventId = 1
  MaxTime = 2
INVARIANTS
  QueryAccounting
  NoEventAfterGameShutdown
  CleanExit
PROPERTIES
  DispatcherTerminates
