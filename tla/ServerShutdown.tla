--------------------------- MODULE ServerShutdown ---------------------------
(***************************************************************************)
(* How the server stops: otserv.cpp's main thread, which runs the network   *)
(* and then joins the three others, the dispatcher, which executes          *)
(* setGameState(GAME_STATE_SHUTDOWN) and Game::shutdown, the scheduler and  *)
(* the database thread.                                                     *)
(*                                                                          *)
(* The tasks are: Sigint, what a signal posts; Login, what the first        *)
(* message of a client posts; GameShutdown, which setGameState posts; and   *)
(* the callbacks of the queries.  The scheduler has events of the game      *)
(* world (Spawn::checkSpawn, Raids::checkRaids), which are bound to objects *)
(* that Game::shutdown clears.                                              *)
(*                                                                          *)
(* The two long functions of the dispatcher are cut where another thread    *)
(* can see them: step is the next part of the function being executed.      *)
(***************************************************************************)
EXTENDS DatabaseTasks

CONSTANTS
  Sigint, Login, GameShutdown,   \* see above
  MaxTime                        \* bound of the model: the clock stops here

ASSUME ShutdownAssumption ==
  /\ {Sigint, Login, GameShutdown} \cup Query = Task
  /\ Cardinality({Sigint, Login, GameShutdown}) = 3
  /\ {Sigint, Login, GameShutdown} \cap Query = {}
  /\ MaxTime \in Nat

VARIABLES
  gameState,      \* Game::gameState
  online,         \* Game::players is not empty
  step,           \* where the dispatcher is in the task it executes
  received,       \* a message of the network thread, read and not yet posted
  seen,           \* history: messages that came
  mainPc,         \* where main is
  serviceStopped  \* ServiceManager::stop was called

gameVars == <<gameState, online, step, received, seen, mainPc, serviceStopped>>

vars == <<dispatcherVars, schedulerVars, dbVars, now, gameVars>>

Step == {"Start", "Save", "SaveAgain", "Post", "StopScheduler", "StopDb",
         "StopDispatcher", "TerminateScheduler", "ClearScheduler",
         "TerminateDb", "FlushDb", "NotifyDb", "TerminateDispatcher",
         "StopService", "Finish"}

MainPc == {"Run", "JoinScheduler", "JoinDb", "JoinDispatcher", "Returned"}

Init ==
  /\ DispatcherInit
  /\ SchedulerInit
  /\ DbInit
  /\ now = 1
  /\ gameState = "NORMAL"
  /\ online \in BOOLEAN
  /\ step = "Start"
  /\ received = NoTask
  /\ seen = {}
  /\ mainPc = "Run"
  /\ serviceStopped = FALSE

TypeOK ==
  /\ DispatcherTypeOK /\ SchedulerTypeOK /\ DbTypeOK
  /\ now \in Nat
  /\ gameState \in {"NORMAL", "SHUTDOWN"}
  /\ online \in BOOLEAN
  /\ step \in Step
  /\ received \in Task \cup {NoTask}
  /\ seen \subseteq Task
  /\ mainPc \in MainPc
  /\ serviceStopped \in BOOLEAN

-----------------------------------------------------------------------------
(* The main thread in io_service.run: a signal, or the first message of a   *)
(* client.  The game state is tested when the message is read and the task  *)
(* is posted later (ProtocolGame::onRecvFirstMessage).                      *)
Receive(t) ==
  /\ mainPc = "Run"
  /\ received = NoTask
  /\ t \notin seen
  /\ t = Login => gameState # "SHUTDOWN"
  /\ received' = t
  /\ seen' = seen \cup {t}
  /\ UNCHANGED <<dispatcherVars, schedulerVars, dbVars, now, gameState, online,
                 step, mainPc, serviceStopped>>

PostReceived ==
  /\ received # NoTask
  /\ AddTask(TaskRecord(received, Never), FALSE)
  /\ received' = NoTask
  /\ UNCHANGED <<schedulerVars, dbVars, now, gameState, online, step, seen,
                 mainPc, serviceStopped>>

(* ServiceManager::die: io_service.run returns.                             *)
ServiceDies ==
  /\ mainPc = "Run"
  /\ serviceStopped
  /\ received = NoTask
  /\ mainPc' = "JoinScheduler"
  /\ UNCHANGED <<dispatcherVars, schedulerVars, dbVars, now, gameState, online,
                 step, received, seen, serviceStopped>>

Join ==
  /\ \/ mainPc = "JoinScheduler" /\ schedulerPc = "Done" /\ mainPc' = "JoinDb"
     \/ mainPc = "JoinDb" /\ dbPc = "Done" /\ mainPc' = "JoinDispatcher"
     \/ mainPc = "JoinDispatcher" /\ dispatcherPc = "Done" /\ mainPc' = "Returned"
  /\ UNCHANGED <<dispatcherVars, schedulerVars, dbVars, now, gameState, online,
                 step, received, seen, serviceStopped>>

-----------------------------------------------------------------------------
Executing(t, s) ==
  /\ dispatcherPc = "Execute"
  /\ current.task = t
  /\ step = s

GoTo(s) == step' = s

(* The function returns and its task is deleted.                            *)
Finish ==
  /\ DispatcherExecute
  /\ step' = "Start"

(* Any other task: an event of the world, which may run a query; the        *)
(* callback of a query; a login, which does not test for GAME_STATE_SHUTDOWN *)
(* (ProtocolGame::login); the dispatcher's own terminating task.            *)
ExecuteOther ==
  /\ dispatcherPc = "Execute"
  /\ current.task \notin {Sigint, GameShutdown}
  /\ Finish
  /\ online' = (online \/ current.task = Login)
  /\ \/ /\ current.task \in Event \cup {Login}
        /\ \E q \in Query \ accepted : DbAddTask(q)
     \/ UNCHANGED dbVars
  /\ UNCHANGED <<schedulerVars, now, gameState, received, seen, mainPc,
                 serviceStopped>>

(* setGameState(GAME_STATE_SHUTDOWN), which does nothing the second time.   *)
KickAll ==
  /\ Executing(Sigint, "Start")
  /\ IF gameState = "SHUTDOWN"
     THEN /\ GoTo("Finish")
          /\ UNCHANGED <<gameState, online>>
     ELSE /\ gameState' = "SHUTDOWN"
          /\ online' = FALSE
          /\ GoTo("Save")
  /\ UNCHANGED <<dispatcherVars, schedulerVars, dbVars, now, received, seen,
                 mainPc, serviceStopped>>

(* saveGameState saves the players and the map itself, and flushes.  It is  *)
(* called by setGameState, by Game::shutdown and, as far as the flush goes, *)
(* by DatabaseTasks::shutdown.                                              *)
InFlush ==
  \/ Executing(Sigint, "Save")
  \/ Executing(GameShutdown, "SaveAgain")
  \/ Executing(GameShutdown, "FlushDb")

Flush ==
  /\ InFlush
  /\ \/ (FlushTake \/ FlushRun) /\ UNCHANGED step
     \/ /\ FlushDone
        /\ GoTo(CASE step = "Save" -> "Post"
                  [] step = "SaveAgain" -> "TerminateScheduler"
                  [] OTHER -> "NotifyDb")
        /\ UNCHANGED <<dispatcherVars, dbVars>>
  /\ UNCHANGED <<schedulerVars, now, gameState, online, received, seen, mainPc,
                 serviceStopped>>

(* Mutant: the dispatcher is stopped before the shutdown task is posted.    *)
SetShutdownStateMutOrder ==
  /\ \/ /\ Executing(Sigint, "Post")
        /\ DispatcherStop
        /\ GoTo("StopScheduler")
        /\ UNCHANGED <<schedulerVars, dbVars>>
     \/ /\ Executing(Sigint, "StopScheduler")
        /\ SchedulerStop
        /\ GoTo("StopDb")
        /\ UNCHANGED <<dispatcherVars, dbVars>>
     \/ /\ Executing(Sigint, "StopDb")
        /\ DbStop
        /\ GoTo("StopDispatcher")
        /\ UNCHANGED <<dispatcherVars, schedulerVars>>
     \/ /\ Executing(Sigint, "StopDispatcher")
        /\ AddTask(TaskRecord(GameShutdown, Never), FALSE)
        /\ GoTo("Finish")
        /\ UNCHANGED <<schedulerVars, dbVars>>
  /\ UNCHANGED <<now, gameState, online, received, seen, mainPc, serviceStopped>>

(* Mutant: the dispatcher is not stopped.                                   *)
SetShutdownStateMutNoStop ==
  /\ \/ /\ Executing(Sigint, "Post")
        /\ AddTask(TaskRecord(GameShutdown, Never), FALSE)
        /\ GoTo("StopScheduler")
        /\ UNCHANGED <<schedulerVars, dbVars>>
     \/ /\ Executing(Sigint, "StopScheduler")
        /\ SchedulerStop
        /\ GoTo("StopDb")
        /\ UNCHANGED <<dispatcherVars, dbVars>>
     \/ /\ Executing(Sigint, "StopDb")
        /\ DbStop
        /\ GoTo("Finish")
        /\ UNCHANGED <<dispatcherVars, schedulerVars>>
  /\ UNCHANGED <<now, gameState, online, received, seen, mainPc, serviceStopped>>

(* The end of setGameState: the shutdown task goes to the end of the list,  *)
(* then the three threads stop accepting work, one after the other.         *)
SetShutdownState ==
  /\ \/ /\ Executing(Sigint, "Post")
        /\ AddTask(TaskRecord(GameShutdown, Never), FALSE)
        /\ GoTo("StopScheduler")
        /\ UNCHANGED <<schedulerVars, dbVars>>
     \/ /\ Executing(Sigint, "StopScheduler")
        /\ SchedulerStop
        /\ GoTo("StopDb")
        /\ UNCHANGED <<dispatcherVars, dbVars>>
     \/ /\ Executing(Sigint, "StopDb")
        /\ DbStop
        /\ GoTo("StopDispatcher")
        /\ UNCHANGED <<dispatcherVars, schedulerVars>>
     \/ /\ Executing(Sigint, "StopDispatcher")
        /\ DispatcherStop
        /\ GoTo("Finish")
        /\ UNCHANGED <<schedulerVars, dbVars>>
  /\ UNCHANGED <<now, gameState, online, received, seen, mainPc, serviceStopped>>

(* Game::shutdown.  It starts by saving the game.                           *)
BeginGameShutdown ==
  /\ Executing(GameShutdown, "Start")
  /\ GoTo("SaveAgain")
  /\ UNCHANGED <<dispatcherVars, schedulerVars, dbVars, now, gameState, online,
                 received, seen, mainPc, serviceStopped>>

(* Then the three shutdown functions in the order of the code, and          *)
(* ServiceManager::stop.                                                    *)
StopThreads ==
  /\ \/ /\ Executing(GameShutdown, "TerminateScheduler")
        /\ SchedulerSetTerminated
        /\ GoTo("ClearScheduler")
        /\ UNCHANGED <<dispatcherVars, dbVars, serviceStopped>>
     \/ /\ Executing(GameShutdown, "ClearScheduler")
        /\ SchedulerClear
        /\ GoTo("TerminateDb")
        /\ UNCHANGED <<dispatcherVars, dbVars, serviceStopped>>
     \/ /\ Executing(GameShutdown, "TerminateDb")
        /\ DbSetTerminated
        /\ GoTo("FlushDb")
        /\ UNCHANGED <<dispatcherVars, schedulerVars, serviceStopped>>
     \/ /\ Executing(GameShutdown, "NotifyDb")
        /\ DbShutdownNotify
        /\ GoTo("TerminateDispatcher")
        /\ UNCHANGED <<dispatcherVars, schedulerVars, serviceStopped>>
     \/ /\ Executing(GameShutdown, "TerminateDispatcher")
        /\ DispatcherShutdown
        /\ GoTo("StopService")
        /\ UNCHANGED <<schedulerVars, dbVars, serviceStopped>>
     \/ /\ Executing(GameShutdown, "StopService")
        /\ serviceStopped' = TRUE
        /\ GoTo("Finish")
        /\ UNCHANGED <<dispatcherVars, schedulerVars, dbVars>>
  /\ UNCHANGED <<now, gameState, online, received, seen, mainPc>>

FinishLong ==
  /\ \/ Executing(Sigint, "Finish")
     \/ Executing(GameShutdown, "Finish")
  /\ Finish
  /\ UNCHANGED <<schedulerVars, dbVars, now, gameState, online, received, seen,
                 mainPc, serviceStopped>>

-----------------------------------------------------------------------------
(* The steps of the threads that do not depend on what a task does.         *)
DispatcherLoop ==
  /\ DispatcherWait \/ DispatcherTake \/ DispatcherExit
  /\ UNCHANGED <<schedulerVars, dbVars, now, gameVars>>

DispatcherAwakes ==
  /\ DispatcherSpuriousWake \/ NotifyDispatcher
  /\ UNCHANGED <<schedulerVars, dbVars, now, gameVars>>

SchedulerLoop ==
  /\ SchedulerCheck \/ SchedulerLock \/ SchedulerWoken \/ SchedulerTimeout
  /\ UNCHANGED <<dispatcherVars, dbVars, now, gameVars>>

SchedulerPosts ==
  /\ SchedulerHandover
  /\ UNCHANGED <<dbVars, now, gameVars>>

SchedulerNotified ==
  /\ NotifyScheduler
  /\ UNCHANGED <<dispatcherVars, dbVars, now, gameVars>>

DbLoop ==
  /\ DbCheck \/ DbWait \/ DbWoken \/ DbTake \/ DbRun
  /\ UNCHANGED <<schedulerVars, now, gameVars>>

DbNotified ==
  /\ NotifyDb
  /\ UNCHANGED <<schedulerVars, now, gameVars>>

(* The world schedules its events while the server runs.                    *)
ScheduleEvent(e) ==
  /\ eventId[e] = 0 /\ lastEventId < MaxEventId
  /\ mainPc = "Run" /\ gameState = "NORMAL"
  /\ now < MaxTime
  /\ AddEvent(e, 1)
  /\ UNCHANGED <<dispatcherVars, dbVars, now, gameVars>>

Tick ==
  /\ now < MaxTime
  /\ now' = now + 1
  /\ UNCHANGED <<dispatcherVars, schedulerVars, dbVars, gameVars>>

(* main returned: the process ends.                                         *)
Exited == mainPc = "Returned" /\ UNCHANGED vars

SpuriousWake ==
  /\ \/ SchedulerSpuriousWake /\ UNCHANGED <<dispatcherVars, dbVars>>
     \/ DbSpuriousWake /\ UNCHANGED schedulerVars
  /\ UNCHANGED <<now, gameVars>>

DispatcherTask ==
  \/ ExecuteOther
  \/ KickAll
  \/ Flush
  \/ SetShutdownState
  \/ BeginGameShutdown
  \/ StopThreads
  \/ FinishLong

Next ==
  \/ \E t \in {Sigint, Login} : Receive(t)
  \/ PostReceived
  \/ ServiceDies
  \/ Join
  \/ DispatcherTask
  \/ DispatcherLoop
  \/ DispatcherAwakes
  \/ SchedulerLoop
  \/ SchedulerPosts
  \/ SchedulerNotified
  \/ DbLoop
  \/ DbNotified
  \/ SpuriousWake
  \/ \E e \in Event : ScheduleEvent(e)
  \/ Tick
  \/ Exited

(* Every thread keeps running, and a notify_one that is due is made.  No    *)
(* message needs to come, and no thread wakes up without a notification.    *)
Fairness ==
  /\ WF_vars(PostReceived)
  /\ WF_vars(ServiceDies)
  /\ WF_vars(Join)
  /\ WF_vars(DispatcherTask)
  /\ WF_vars(DispatcherLoop)
  /\ WF_vars(NotifyDispatcher /\ UNCHANGED <<schedulerVars, dbVars, now, gameVars>>)
  /\ WF_vars(SchedulerLoop)
  /\ WF_vars(SchedulerPosts)
  /\ WF_vars(SchedulerNotified)
  /\ WF_vars(DbLoop)
  /\ WF_vars(DbNotified)
  /\ WF_vars(Tick)

Spec == Init /\ [][Next]_vars /\ Fairness

-----------------------------------------------------------------------------
InDispatcher(t) ==
  current.task = t \/ \E i \in DOMAIN taskList : taskList[i].task = t

(* A query that addTask accepted is in one place, whichever of the two      *)
(* threads runs it, and runs once.  Its callback is called after it ran and *)
(* not twice, and gets lost only in a shutdown (databasetasks.cpp).         *)
QueryPlaces(q) ==
  Cardinality({i \in DOMAIN dbTasks : dbTasks[i] = q})
    + (IF dbCurrent = q THEN 1 ELSE 0)
    + (IF flushCurrent = q THEN 1 ELSE 0)
    + ranQuery[q]

QueryAccounting ==
  /\ TypeOK
  /\ \A q \in Query :
       /\ QueryPlaces(q) = IF q \in accepted THEN 1 ELSE 0
       /\ q \in CallbackQuery /\ ranQuery[q] = 1 =>
            InDispatcher(q) \/ executed[q] = 1 \/ q \in dropped
       /\ executed[q] <= ranQuery[q]
       /\ q \in dropped => gameState = "SHUTDOWN"

(* When Game::shutdown begins, no event of the game world can still be      *)
(* called: it clears the objects that the events are bound to (game.cpp:    *)
(* Game::shutdown; spawn.cpp and raids.cpp bind events to this).            *)
GameShutdownStarted == current.task = GameShutdown \/ executed[GameShutdown] > 0

NoEventAfterGameShutdown ==
  GameShutdownStarted => \A e \in Event : ~InDispatcher(e)

(* When main returns, nothing runs that could use the objects it destroys,  *)
(* and no query that was accepted is left behind (otserv.cpp: main).        *)
CleanExit ==
  mainPc = "Returned" =>
    /\ dispatcherPc = "Done" /\ schedulerPc = "Done" /\ dbPc = "Done"
    /\ received = NoTask /\ flushCurrent = NoTask
    /\ \A q \in accepted : ranQuery[q] = 1

(* The signal ends the dispatcher, through the two functions, the flushes   *)
(* and the terminating task (signals.cpp: sigintHandler).                   *)
DispatcherTerminates == Sigint \in seen ~> dispatcherPc = "Done"

(* "case SIGINT: //Shuts the server down" (signals.cpp).                    *)
ServerTerminates == Sigint \in seen ~> mainPc = "Returned"

(* "kick all players that are still online" (game.cpp: setGameState).       *)
NobodyLeftOnline == mainPc = "Returned" => ~online

=============================================================================
