SPECIFICATION Spec
CONSTANTS
  Sigint = Sigint
  Login = Login
  GameShutdown = GameShutdown
  Task = {Sigint, Login, GameShutdown, q1}
  Query = {q1}
  CallbackQuery = {q1}
  Event = {e1}
  NoTask = NoTask
  ShutdownTask = ShutdownTask
  MaxEventId = 1
  MaxTime = 2
PROPERTY ServerTerminates
