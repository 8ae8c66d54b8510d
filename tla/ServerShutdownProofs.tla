------------------------ MODULE ServerShutdownProofs -------------------------
(***************************************************************************)
(* Theorems about ServerShutdown, for every set of queries and events and   *)
(* every bound of the clock and of the identifiers.                         *)
(*                                                                          *)
(* None of the three safety invariants is inductive.  That no event is left *)
(* when Game::shutdown begins rests on the order of the list (events go to  *)
(* its front, GameShutdown to its end) and on the dispatcher having stopped *)
(* to accept tasks before it takes GameShutdown; that a callback is called  *)
(* once rests on the query having run once, which rests on its being in one *)
(* of the places from where the two threads take it; that nothing is left   *)
(* behind at the exit rests on the order of DatabaseTasks::shutdown, its    *)
(* flush and ServiceManager::stop.                                          *)
(***************************************************************************)
EXTENDS ServerShutdown, FiniteSetTheorems, TLAPS

(* The parts of setGameState and of Game::shutdown, in their order.         *)
StoppingSteps == {"StopScheduler", "StopDb", "StopDispatcher"}

SetStateSteps == {"Save", "Post"} \cup StoppingSteps

FlushedSteps == {"NotifyDb", "TerminateDispatcher", "StopService", "Finish"}

ShutdownSteps ==
  {"Start", "SaveAgain", "TerminateScheduler", "ClearScheduler", "TerminateDb",
   "FlushDb"} \cup FlushedSteps

(* step is a part of the function being executed, and a query is in the     *)
(* hands of flush only while that function saves.                           *)
StepOK ==
  /\ dispatcherPc # "Execute" => current = TaskRecord(NoTask, Never)
  /\ current.task = Sigint => step \in {"Start", "Finish"} \cup SetStateSteps
  /\ current.task = GameShutdown => step \in ShutdownSteps
  /\ current.task \notin {Sigint, GameShutdown} => step = "Start"
  /\ flushCurrent # NoTask => InFlush

(* The database thread holds a query exactly while it runs it.              *)
DbThreadOK == dbPc = "Run" <=> dbCurrent # NoTask

(* The scheduler's thread holds an event when it is about to post one.      *)
HandoverOK == schedulerPc = "Handover" => handover \in EventRecords

(* No task of this composition has an expiration.                           *)
NothingExpires ==
  /\ \A i \in DOMAIN taskList : taskList[i].expiration = Never
  /\ current.expiration = Never

(* Main joins the threads in its order, after the services were stopped.    *)
MainOK ==
  /\ received \in {NoTask, Sigint, Login}
  /\ mainPc # "Run" => received = NoTask /\ serviceStopped
  /\ mainPc \in {"JoinDb", "JoinDispatcher", "Returned"} => schedulerPc = "Done"
  /\ mainPc \in {"JoinDispatcher", "Returned"} => dbPc = "Done"
  /\ mainPc = "Returned" => dispatcherPc = "Done"

(* An accepted query is in one place.                                       *)
Queued(q) == \E i \in DOMAIN dbTasks : dbTasks[i] = q

QueryOnce(q) ==
  /\ \A i, j \in DOMAIN dbTasks : dbTasks[i] = q /\ dbTasks[j] = q => i = j
  /\ Queued(q) => dbCurrent # q /\ flushCurrent # q
  /\ dbCurrent = q => flushCurrent # q
  /\ Queued(q) \/ dbCurrent = q \/ flushCurrent = q => ranQuery[q] = 0
  /\ ranQuery[q] \in {0, 1}
  /\ q \in accepted <=>
       Queued(q) \/ dbCurrent = q \/ flushCurrent = q \/ ranQuery[q] = 1

QueriesOnce == \A q \in Query : QueryOnce(q)

(* A task is listed, and not twice.                                         *)
Once(t) ==
  \A i, j \in DOMAIN taskList :
    taskList[i].task = t /\ taskList[j].task = t => i = j

Listed(t) == \E i \in DOMAIN taskList : taskList[i].task = t

(* The callback of a query that ran is in one place of the dispatcher.      *)
CallbackOnce(q) ==
  /\ Once(q)
  /\ current.task = q => ~Listed(q)
  /\ InDispatcher(q) => executed[q] = 0 /\ ranQuery[q] = 1
  /\ executed[q] \in {0, 1}
  /\ executed[q] = 1 => ranQuery[q] = 1
  /\ q \in CallbackQuery /\ ranQuery[q] = 1 =>
       InDispatcher(q) \/ executed[q] = 1 \/ q \in dropped
  /\ q \in dropped => gameState = "SHUTDOWN"

CallbacksOnce == \A q \in Query : CallbackOnce(q)

(* Until the signal is handled nothing of the shutdown has happened.        *)
NormalOK ==
  gameState = "NORMAL" =>
    /\ dispatcherState = "RUNNING"
    /\ ~InDispatcher(GameShutdown) /\ ~InDispatcher(ShutdownTask)
    /\ executed[GameShutdown] = 0
    /\ ~serviceStopped
    /\ step = "Start"

(* setGameState does its work before Game::shutdown begins.                 *)
SetStateFirst ==
  current.task = Sigint /\ step \in SetStateSteps =>
    executed[GameShutdown] = 0 /\ ~serviceStopped

(* Once posted, GameShutdown waits for the dispatcher to be stopped.        *)
StoppedFirst ==
  /\ InDispatcher(GameShutdown) /\ dispatcherState = "RUNNING" =>
       current.task = Sigint /\ step \in StoppingSteps
  /\ executed[GameShutdown] > 0 => dispatcherState # "RUNNING"

(* No event stands behind GameShutdown.                                     *)
EventsFirst ==
  \A i, j \in DOMAIN taskList :
    i < j /\ taskList[i].task = GameShutdown => taskList[j].task \notin Event

(* The list of the database thread is empty for good after the last flush.  *)
DbEmptied ==
  /\ current.task = GameShutdown /\ step \in {"FlushDb"} \cup FlushedSteps =>
       dbState = "TERMINATED"
  /\ current.task = GameShutdown /\ step \in FlushedSteps => dbTasks = <<>>
  /\ serviceStopped => dbState = "TERMINATED" /\ dbTasks = <<>>

IInv ==
  /\ TypeOK
  /\ StepOK
  /\ DbThreadOK
  /\ HandoverOK
  /\ NothingExpires
  /\ MainOK
  /\ QueriesOnce
  /\ CallbacksOnce
  /\ NormalOK
  /\ SetStateFirst
  /\ StoppedFirst
  /\ EventsFirst
  /\ NoEventAfterGameShutdown
  /\ DbEmptied

-----------------------------------------------------------------------------
(* The three tasks of the shutdown are told apart, from one another and     *)
(* from queries, events, "no task" and the terminating task.                *)
LEMMA Distinct ==
  /\ {Sigint, Login, GameShutdown} \subseteq Task
  /\ Query \subseteq Task
  /\ {Sigint, Login, GameShutdown} \cap Query = {}
  /\ Task \cap Event = {}
  /\ NoTask \notin Task \cup Event
  /\ ShutdownTask \notin Task \cup Event
  /\ ShutdownTask # NoTask
  /\ Sigint # Login /\ Sigint # GameShutdown /\ Login # GameShutdown
<1>1. ASSUME NEW a, NEW b PROVE Cardinality({a, b}) # 3
  <2>1. IsFiniteSet({a}) /\ Cardinality({a}) = 1
    BY FS_Singleton
  <2>2. {a, b} = {a} \cup {b}
    OBVIOUS
  <2> QED
    BY <2>1, <2>2, FS_AddElement
<1>2. {Sigint, Login, GameShutdown} # {Login, GameShutdown}
  BY <1>1, ShutdownAssumption
<1>3. {Sigint, Login, GameShutdown} # {Sigint, Login}
  BY <1>1, ShutdownAssumption
<1>4. {Sigint, Login, GameShutdown} # {Sigint, GameShutdown}
  BY <1>1, ShutdownAssumption
<1>5. Sigint # Login /\ Sigint # GameShutdown /\ Login # GameShutdown
  BY <1>2, <1>3, <1>4
<1> QED
  BY <1>5, ShutdownAssumption, TaskAssumption, QueryAssumption

(* The record of a task that does not expire.                               *)
LEMMA RecordOf ==
  ASSUME NEW t
  PROVE  /\ TaskRecord(t, Never).task = t
         /\ TaskRecord(t, Never).expiration = Never
         /\ t \in Task \cup Event \cup {NoTask, ShutdownTask} =>
              TaskRecord(t, Never) \in TaskRecords
BY DEF TaskRecord, TaskRecords, Never

-----------------------------------------------------------------------------
(* The initial states satisfy the invariant.                                *)
LEMMA InitIInv == Init => IInv
<1> SUFFICES ASSUME Init PROVE IInv
  OBVIOUS
<1> USE Distinct, MaxEventIdAssumption
        DEF Init, DispatcherInit, SchedulerInit, DbInit
<1>1. TypeOK
  <2>1. DispatcherTypeOK
    <3>1. current \in TaskRecords
      BY RecordOf
    <3>2. executed \in [Task \cup Event -> Nat]
      OBVIOUS
    <3>3. taskList \in Seq(TaskRecords)
      OBVIOUS
    <3> QED
      BY <3>1, <3>2, <3>3 DEF DispatcherTypeOK, ThreadState, DispatcherPc
  <2>2. SchedulerTypeOK
    <3>1. /\ eventId \in [Event -> 0..MaxEventId]
          /\ due \in [Event -> Nat]
      OBVIOUS
    <3>2. lastEventId \in 0..MaxEventId /\ wakeAt \in Nat
      OBVIOUS
    <3>3. schedulerState \in ThreadState /\ schedulerPc \in SchedulerPc
      BY DEF ThreadState, SchedulerPc
    <3> QED
      BY <3>1, <3>2, <3>3 DEF SchedulerTypeOK
  <2>3. DbTypeOK
    <3>1. dbTasks \in Seq(Query)
      OBVIOUS
    <3>2. ranQuery \in [Query -> Nat]
      OBVIOUS
    <3> QED
      BY <3>1, <3>2 DEF DbTypeOK, ThreadState, DbPc
  <2> QED
    BY <2>1, <2>2, <2>3 DEF TypeOK, Step, MainPc
<1>2. current.task = NoTask /\ current.expiration = Never
  BY RecordOf
<1>3. \A t : t # NoTask => ~InDispatcher(t)
  BY <1>2 DEF InDispatcher
<1>4. StepOK /\ DbThreadOK /\ HandoverOK /\ NothingExpires /\ MainOK
  BY <1>2 DEF StepOK, DbThreadOK, HandoverOK, NothingExpires, MainOK
<1>5. QueriesOnce
  BY DEF QueriesOnce, QueryOnce, Queued
<1>6. CallbacksOnce
  <2>1. \A q \in Query : executed[q] = 0 /\ ranQuery[q] = 0
    OBVIOUS
  <2> QED
    BY <1>2, <1>3, <2>1 DEF CallbacksOnce, CallbackOnce, Once, Listed
<1>7. executed[GameShutdown] = 0
  OBVIOUS
<1>8. NormalOK /\ SetStateFirst /\ StoppedFirst /\ EventsFirst
  BY <1>2, <1>3, <1>7 DEF NormalOK, SetStateFirst, StoppedFirst, EventsFirst
<1>9. NoEventAfterGameShutdown /\ DbEmptied
  BY <1>2, <1>7 DEF NoEventAfterGameShutdown, GameShutdownStarted, DbEmptied
<1> QED
  BY <1>1, <1>4, <1>5, <1>6, <1>8, <1>9 DEF IInv

-----------------------------------------------------------------------------
(* The kinds of steps, by what they do to the dispatcher and to the state   *)
(* of the shutdown.                                                         *)
Kept == UNCHANGED <<gameState, serviceStopped, ranQuery>>

(* Nothing of it changes, except that the dispatcher waits, wakes or ends.  *)
Still ==
  /\ \/ UNCHANGED dispatcherVars
     \/ DispatcherWait \/ DispatcherSpuriousWake \/ NotifyDispatcher
     \/ DispatcherExit
  /\ Kept /\ UNCHANGED step

(* The function being executed goes on.                                     *)
Advances ==
  /\ UNCHANGED <<dispatcherVars, gameState, ranQuery>>
  /\ \/ /\ current.task = Sigint
        /\ UNCHANGED serviceStopped
        /\ \/ step = "Start" /\ gameState = "SHUTDOWN" /\ step' = "Finish"
           \/ step = "Save" /\ step' = "Post"
           \/ step = "StopScheduler" /\ step' = "StopDb"
           \/ step = "StopDb" /\ step' = "StopDispatcher"
     \/ /\ current.task = GameShutdown
        /\ IF step = "StopService" THEN serviceStopped' = TRUE
                                   ELSE UNCHANGED serviceStopped

(* setGameState kicks the players.                                          *)
Kicks ==
  /\ current.task = Sigint /\ step = "Start" /\ gameState = "NORMAL"
  /\ step' = "Save" /\ gameState' = "SHUTDOWN"
  /\ UNCHANGED <<dispatcherVars, serviceStopped, ranQuery>>

(* A task is added: by the network, by the scheduler, by setGameState, by   *)
(* a thread that ran a query.                                               *)
AddsMessage ==
  /\ \E t \in {Sigint, Login} : AddTask(TaskRecord(t, Never), FALSE)
  /\ Kept /\ UNCHANGED step

AddsEvent ==
  /\ \E e \in Event : AddTask(TaskRecord(e, Never), TRUE)
  /\ Kept /\ UNCHANGED step

AddsShutdown ==
  /\ current.task = Sigint /\ step = "Post" /\ step' = "StopScheduler"
  /\ AddTask(TaskRecord(GameShutdown, Never), FALSE)
  /\ Kept

RunsQuery ==
  /\ \E q \in Query : ranQuery[q] = 0 /\ RunTask(q)
  /\ UNCHANGED <<gameState, serviceStopped, step>>

(* Dispatcher::shutdown                                                     *)
AddsLast ==
  /\ current.task = GameShutdown
  /\ DispatcherShutdown
  /\ Kept

(* Dispatcher::stop                                                         *)
Stops ==
  /\ current.task = Sigint /\ step = "StopDispatcher" /\ step' = "Finish"
  /\ DispatcherStop
  /\ Kept

Takes == DispatcherTake /\ Kept /\ UNCHANGED step

Ends ==
  /\ current.task \in {Sigint, GameShutdown} => step = "Finish"
  /\ DispatcherExecute
  /\ Kept
  /\ step' = "Start"

Kinds ==
  \/ Still \/ Advances \/ Kicks
  \/ AddsMessage \/ AddsEvent \/ AddsShutdown \/ RunsQuery \/ AddsLast
  \/ Stops \/ Takes \/ Ends

(* Every step is of one of these kinds.                                     *)
LEMMA StepKinds ==
  ASSUME IInv, [Next]_vars
  PROVE  Kinds
<1> USE Distinct DEF gameVars, dispatcherVars, Kept
<1>1. CASE \E t \in {Sigint, Login} : Receive(t)
  BY <1>1 DEF Receive, Still, Kinds, dbVars
<1>2. CASE PostReceived
  <2>1. received \in {Sigint, Login}
    BY <1>2 DEF PostReceived, IInv, MainOK
  <2>2. AddsMessage
    BY <1>2, <2>1 DEF PostReceived, AddsMessage, dbVars
  <2> QED
    BY <2>2 DEF Kinds
<1>3. CASE ServiceDies \/ Join
  BY <1>3 DEF ServiceDies, Join, Still, Kinds, dbVars
<1>4. CASE ExecuteOther
  <2>1. /\ DispatcherExecute /\ step' = "Start"
        /\ UNCHANGED <<gameState, serviceStopped>>
        /\ current.task \notin {Sigint, GameShutdown}
    BY <1>4 DEF ExecuteOther, Finish
  <2>2. UNCHANGED ranQuery
    BY <1>4 DEF ExecuteOther, DbAddTask, dbVars
  <2> QED
    BY <2>1, <2>2 DEF Ends, Kinds
<1>5. CASE KickAll
  <2>1. gameState \in {"NORMAL", "SHUTDOWN"}
    BY DEF IInv, TypeOK
  <2>2. Kicks \/ Advances
    BY <1>5, <2>1 DEF KickAll, Executing, GoTo, Kicks, Advances, dbVars
  <2> QED
    BY <2>2 DEF Kinds
<1>6. CASE Flush
  <2>1. CASE FlushTake /\ UNCHANGED step
    BY <1>6, <2>1 DEF Flush, FlushTake, Still, Kinds
  <2>2. CASE FlushRun /\ UNCHANGED step
    <3>1. flushCurrent \in Query /\ ranQuery[flushCurrent] = 0
      BY <2>2 DEF FlushRun, IInv, TypeOK, DbTypeOK, QueriesOnce, QueryOnce
    <3>2. RunsQuery
      BY <1>6, <2>2, <3>1 DEF Flush, FlushRun, RunsQuery
    <3> QED
      BY <3>2 DEF Kinds
  <2>3. CASE /\ FlushDone
             /\ GoTo(CASE step = "Save" -> "Post"
                       [] step = "SaveAgain" -> "TerminateScheduler"
                       [] OTHER -> "NotifyDb")
             /\ UNCHANGED <<dispatcherVars, dbVars>>
    <3>1. Advances
      BY <1>6, <2>3 DEF Flush, InFlush, Executing, GoTo, Advances, dbVars
    <3> QED
      BY <3>1 DEF Kinds
  <2> QED
    BY <1>6, <2>1, <2>2, <2>3 DEF Flush
<1>7. CASE SetShutdownState
  <2>1. Advances \/ AddsShutdown \/ Stops
    BY <1>7 DEF SetShutdownState, Executing, GoTo, Advances, AddsShutdown,
                Stops, dbVars, DbStop
  <2> QED
    BY <2>1 DEF Kinds
<1>8. CASE BeginGameShutdown
  BY <1>8 DEF BeginGameShutdown, Executing, GoTo, Advances, Kinds, dbVars
<1>9. CASE StopThreads
  <2>1. Advances \/ AddsLast
    BY <1>9 DEF StopThreads, Executing, GoTo, Advances, AddsLast, dbVars,
                DbSetTerminated, DbShutdownNotify
  <2> QED
    BY <2>1 DEF Kinds
<1>10. CASE FinishLong
  BY <1>10 DEF FinishLong, Finish, Executing, Ends, Kinds, dbVars
<1>11. CASE DispatcherLoop \/ DispatcherAwakes
  <2>1. Still \/ Takes
    BY <1>11 DEF DispatcherLoop, DispatcherAwakes, DispatcherWait,
                 DispatcherExit, DispatcherSpuriousWake, NotifyDispatcher,
                 Still, Takes, dbVars
  <2> QED
    BY <2>1 DEF Kinds
<1>12. CASE SchedulerLoop \/ SchedulerNotified \/ SpuriousWake
  BY <1>12 DEF SchedulerLoop, SchedulerNotified, SpuriousWake, dbVars,
               DbSpuriousWake, Still, Kinds
<1>13. CASE SchedulerPosts
  <2>1. handover.task \in Event
    BY <1>13 DEF SchedulerPosts, SchedulerHandover, IInv, HandoverOK,
                 EventRecords
  <2>2. AddsEvent
    BY <1>13, <2>1 DEF SchedulerPosts, SchedulerHandover, AddsEvent, dbVars
  <2> QED
    BY <2>2 DEF Kinds
<1>14. CASE DbLoop
  <2>1. CASE DbRun
    <3>1. dbCurrent \in Query /\ ranQuery[dbCurrent] = 0
      BY <2>1 DEF DbRun, IInv, TypeOK, DbTypeOK, DbThreadOK, QueriesOnce,
                  QueryOnce
    <3>2. RunsQuery
      BY <1>14, <2>1, <3>1 DEF DbLoop, DbRun, RunsQuery
    <3> QED
      BY <3>2 DEF Kinds
  <2>2. CASE DbCheck \/ DbWait \/ DbWoken \/ DbTake
    BY <1>14, <2>2 DEF DbLoop, DbCheck, DbWait, DbWoken, DbTake, Still, Kinds
  <2> QED
    BY <1>14, <2>1, <2>2 DEF DbLoop
<1>15. CASE DbNotified
  BY <1>15 DEF DbNotified, NotifyDb, Still, Kinds
<1>16. CASE (\E e \in Event : ScheduleEvent(e)) \/ Tick \/ Exited
             \/ UNCHANGED vars
  BY <1>16 DEF ScheduleEvent, Tick, Exited, vars, Still, Kinds, dbVars
<1> QED
  BY <1>1, <1>2, <1>3, <1>4, <1>5, <1>6, <1>7, <1>8, <1>9, <1>10, <1>11,
     <1>12, <1>13, <1>14, <1>15, <1>16 DEF Next, DispatcherTask

-----------------------------------------------------------------------------
(* Types.  addTask first, which every thread calls.                         *)
LEMMA AddTaskTypes ==
  ASSUME DispatcherTypeOK,
         NEW t \in Task \cup Event,
         NEW front \in BOOLEAN,
         AddTask(TaskRecord(t, Never), front)
  PROVE  DispatcherTypeOK'
<1>1. PICK r : r = TaskRecord(t, Never) /\ r \in TaskRecords /\ r.task = t
  BY RecordOf
<1>2. taskList' \in Seq(TaskRecords)
  <2>1. Append(taskList, r) \in Seq(TaskRecords)
    BY <1>1 DEF DispatcherTypeOK
  <2>2. <<r>> \o taskList \in Seq(TaskRecords)
    BY <1>1 DEF DispatcherTypeOK
  <2> QED
    BY <1>1, <2>1, <2>2 DEF AddTask, DispatcherTypeOK
<1>3. dropped' \subseteq Task \cup Event
  BY <1>1 DEF AddTask, DispatcherTypeOK
<1> QED
  BY <1>2, <1>3 DEF AddTask, DispatcherTypeOK

(* The dispatcher's variables.                                              *)
LEMMA DispatcherTypes ==
  ASSUME IInv, [Next]_vars
  PROVE  DispatcherTypeOK'
<1> USE Distinct
<1>1. DispatcherTypeOK
  BY DEF IInv, TypeOK
<1>2. CASE UNCHANGED dispatcherVars
  BY <1>1, <1>2 DEF dispatcherVars, DispatcherTypeOK
<1>3. CASE AddsMessage \/ AddsEvent \/ AddsShutdown
  <2>1. PICK t \in Task \cup Event, front \in BOOLEAN :
                AddTask(TaskRecord(t, Never), front)
    BY <1>3 DEF AddsMessage, AddsEvent, AddsShutdown
  <2> QED
    BY <1>1, <2>1, AddTaskTypes
<1>4. CASE RunsQuery
  <2>1. PICK q \in Query : RunTask(q)
    BY <1>4 DEF RunsQuery
  <2>2. CASE q \in CallbackQuery
    <3>1. AddTask(TaskRecord(q, Never), FALSE) /\ q \in Task \cup Event
      BY <2>1, <2>2 DEF RunTask
    <3> QED
      BY <1>1, <3>1, AddTaskTypes
  <2> QED
    BY <1>2, <2>1, <2>2 DEF RunTask
<1>5. CASE AddsLast
  <2>1. TaskRecord(ShutdownTask, Never) \in TaskRecords
    BY RecordOf
  <2> QED
    BY <1>1, <1>5, <2>1 DEF AddsLast, DispatcherShutdown, DispatcherTypeOK
<1>6. CASE Stops
  BY <1>1, <1>6 DEF Stops, DispatcherStop, DispatcherTypeOK, ThreadState
<1>7. CASE Takes
  <2>1. Head(taskList) \in TaskRecords /\ Tail(taskList) \in Seq(TaskRecords)
    BY <1>1, <1>7 DEF Takes, DispatcherTake, DispatcherTypeOK
  <2> QED
    BY <1>1, <1>7, <2>1
       DEF Takes, DispatcherTake, DispatcherTypeOK, DispatcherPc
<1>8. CASE Ends
  <2>1. TaskRecord(NoTask, Never) \in TaskRecords
    BY RecordOf
  <2>2. executed' \in [Task \cup Event -> Nat]
    BY <1>1, <1>8 DEF Ends, DispatcherExecute, DispatcherTypeOK
  <2>3. ~HasExpired(current)
    BY DEF HasExpired, IInv, NothingExpires
  <2> QED
    BY <1>1, <1>8, <2>1, <2>2, <2>3
       DEF Ends, DispatcherExecute, DispatcherTypeOK, DispatcherPc, ThreadState
<1>9. CASE Still \/ Advances \/ Kicks
  BY <1>1, <1>2, <1>9
     DEF Still, Advances, Kicks, DispatcherWait, DispatcherExit,
         DispatcherSpuriousWake, NotifyDispatcher, DispatcherTypeOK,
         DispatcherPc
<1> QED
  BY <1>3, <1>4, <1>5, <1>6, <1>7, <1>8, <1>9, StepKinds DEF Kinds

(* The scheduler's variables.                                               *)
LEMMA AddEventTypes ==
  ASSUME SchedulerTypeOK, now \in Nat, NEW e \in Event, AddEvent(e, 1)
  PROVE  SchedulerTypeOK'
<1> DEFINE r == [task |-> e, id |-> NextEventId, expiration |-> now + 1]
<1>1. NextEventId \in 1..MaxEventId
  BY MaxEventIdAssumption DEF NextEventId, SchedulerTypeOK
<1>2. r \in EventRecords
  BY <1>1 DEF EventRecords
<1>3. now + 1 \in Nat
  OBVIOUS
<1> HIDE DEF r
<1>4. CASE schedulerState = "RUNNING"
  <2>1. /\ eventList' = eventList \cup {r}
        /\ schedulerSignal' = (schedulerSignal \/ IsTop(r, eventList \cup {r}))
    BY <1>4 DEF AddEvent, r
  <2>2. eventList' \subseteq EventRecords /\ schedulerSignal' \in BOOLEAN
    BY <2>1, <1>2 DEF SchedulerTypeOK, IsTop
  <2>3. /\ lastEventId' \in 0..MaxEventId
        /\ eventIds' \subseteq 1..MaxEventId
        /\ eventId' \in [Event -> 0..MaxEventId]
        /\ due' \in [Event -> Nat]
    <3>1. /\ lastEventId' = NextEventId
          /\ eventIds' = eventIds \cup {NextEventId}
          /\ eventId' = [eventId EXCEPT ![e] = NextEventId]
          /\ due' = [due EXCEPT ![e] = now + 1]
      BY <1>4 DEF AddEvent
    <3>2. lastEventId' \in 0..MaxEventId /\ eventIds' \subseteq 1..MaxEventId
      BY <1>1, <3>1 DEF SchedulerTypeOK
    <3>3. NextEventId \in 0..MaxEventId
      BY <1>1
    <3> QED
      BY <1>3, <3>1, <3>2, <3>3 DEF SchedulerTypeOK
  <2> QED
    BY <2>2, <2>3 DEF AddEvent, SchedulerTypeOK
<1> QED
  BY <1>4 DEF AddEvent, SchedulerTypeOK

(* The rest of the scheduler's steps.                                       *)
LEMMA SchedulerTypes ==
  ASSUME IInv, [Next]_vars
  PROVE  SchedulerTypeOK'
<1>1. SchedulerTypeOK /\ now \in Nat
  BY DEF IInv, TypeOK
<1>2. CASE UNCHANGED schedulerVars
  BY <1>1, <1>2 DEF schedulerVars, SchedulerTypeOK
<1>3. CASE SchedulerLoop
  <2>1. CASE SchedulerCheck \/ SchedulerWoken
    <3>1. /\ schedulerPc' \in SchedulerPc
          /\ wakeAt' \in Nat
          /\ UNCHANGED <<eventList, eventIds, lastEventId, schedulerState,
                         handover, schedulerSignal, eventId, due, cancelled>>
      BY <1>1, <2>1
         DEF SchedulerCheck, SchedulerWoken, SchedulerTypeOK, SchedulerPc
    <3> QED
      BY <1>1, <3>1 DEF SchedulerTypeOK
  <2>2. CASE SchedulerLock
    <3>1. wakeAt' \in Nat
      BY <1>1, <2>2 DEF SchedulerLock, SchedulerTypeOK, EventRecords, IsTop
    <3> QED
      BY <1>1, <2>2, <3>1 DEF SchedulerLock, SchedulerTypeOK, SchedulerPc
  <2>3. CASE SchedulerTimeout
    <3>1. /\ handover' \in EventRecords \cup {NoEvent}
          /\ eventList' \subseteq EventRecords
          /\ eventIds' \subseteq 1..MaxEventId
          /\ schedulerPc' \in SchedulerPc
      BY <1>1, <2>3
         DEF SchedulerTimeout, SchedulerTypeOK, IsTop, SchedulerPc
    <3> QED
      BY <1>1, <2>3, <3>1 DEF SchedulerTimeout, SchedulerTypeOK
  <2> QED
    BY <1>3, <2>1, <2>2, <2>3 DEF SchedulerLoop
<1>4. CASE SchedulerNotified \/ SpuriousWake
  <2>1. UNCHANGED schedulerVars \/ NotifyScheduler \/ SchedulerSpuriousWake
    BY <1>4 DEF SchedulerNotified, SpuriousWake
  <2> QED
    BY <1>1, <1>2, <2>1 DEF NotifyScheduler, SchedulerSpuriousWake,
                            WakeScheduler, SchedulerTypeOK, SchedulerPc
<1>5. CASE SchedulerPosts
  BY <1>1, <1>5
     DEF SchedulerPosts, SchedulerHandover, SchedulerTypeOK, SchedulerPc
<1>6. CASE \E e \in Event : ScheduleEvent(e)
  BY <1>1, <1>6, AddEventTypes DEF ScheduleEvent
<1>7. CASE SetShutdownState
  BY <1>1, <1>2, <1>7
     DEF SetShutdownState, SchedulerStop, SchedulerTypeOK, ThreadState
<1>8. CASE StopThreads
  BY <1>1, <1>2, <1>8
     DEF StopThreads, SchedulerSetTerminated, SchedulerClear, SchedulerTypeOK,
         ThreadState
<1>9. CASE \/ \E t \in {Sigint, Login} : Receive(t)
           \/ PostReceived \/ ServiceDies \/ Join
           \/ ExecuteOther \/ KickAll \/ Flush \/ BeginGameShutdown
           \/ FinishLong \/ DispatcherLoop \/ DispatcherAwakes
           \/ DbLoop \/ DbNotified \/ Tick \/ Exited \/ UNCHANGED vars
  BY <1>2, <1>9
     DEF Receive, PostReceived, ServiceDies, Join, ExecuteOther, KickAll, Flush,
         BeginGameShutdown, FinishLong, DispatcherLoop, DispatcherAwakes,
         DbLoop, DbNotified, Tick, Exited, vars
<1> QED
  BY <1>3, <1>4, <1>5, <1>6, <1>7, <1>8, <1>9 DEF Next, DispatcherTask

-----------------------------------------------------------------------------
(* What a step does to the database thread's variables.                     *)
DbKinds ==
  \/ UNCHANGED dbVars
  \/ \E q \in Query \ accepted : DbAddTask(q)
  \/ FlushTake \/ FlushRun
  \/ DbCheck \/ DbWait \/ DbSpuriousWake \/ DbWoken \/ DbTake \/ DbRun
  \/ NotifyDb
  \/ DbStop \/ DbSetTerminated \/ DbShutdownNotify

(* Every step is of one of these kinds.                                     *)
LEMMA DbStepKinds ==
  ASSUME [Next]_vars
  PROVE  DbKinds
<1>1. CASE ExecuteOther
  BY <1>1 DEF ExecuteOther, DbKinds
<1>2. CASE Flush
  BY <1>2 DEF Flush, DbKinds
<1>3. CASE SetShutdownState \/ StopThreads
  BY <1>3 DEF SetShutdownState, StopThreads, DbKinds
<1>4. CASE DbLoop \/ DbNotified \/ SpuriousWake
  <2>1. \/ DbCheck \/ DbWait \/ DbSpuriousWake \/ DbWoken \/ DbTake \/ DbRun
        \/ NotifyDb \/ UNCHANGED dbVars
    BY <1>4 DEF DbLoop, DbNotified, SpuriousWake
  <2> QED
    BY <2>1 DEF DbKinds
<1>5. CASE \/ \E t \in {Sigint, Login} : Receive(t)
           \/ PostReceived \/ ServiceDies \/ Join \/ KickAll
           \/ BeginGameShutdown \/ FinishLong \/ DispatcherLoop
           \/ DispatcherAwakes \/ SchedulerLoop \/ SchedulerPosts
           \/ SchedulerNotified \/ Tick \/ Exited \/ UNCHANGED vars
           \/ \E e \in Event : ScheduleEvent(e)
  <2>1. UNCHANGED dbVars
    BY <1>5
       DEF Receive, PostReceived, ServiceDies, Join, KickAll,
           BeginGameShutdown, FinishLong, DispatcherLoop, DispatcherAwakes,
           SchedulerLoop, SchedulerPosts, SchedulerNotified, Tick, Exited,
           vars, ScheduleEvent
  <2> QED
    BY <2>1 DEF DbKinds
<1> QED
  BY <1>1, <1>2, <1>3, <1>4, <1>5 DEF Next, DispatcherTask

(* The database thread's variables.                                         *)
LEMMA DbTypes ==
  ASSUME IInv, [Next]_vars
  PROVE  DbTypeOK'
<1>1. DbTypeOK
  BY DEF IInv, TypeOK
<1>2. CASE UNCHANGED dbVars
  BY <1>1, <1>2 DEF dbVars, DbTypeOK
<1>3. CASE \E q \in Query \ accepted : DbAddTask(q)
  <2>1. PICK q \in Query : DbAddTask(q)
    BY <1>3
  <2>2. Append(dbTasks, q) \in Seq(Query)
    BY <1>1 DEF DbTypeOK
  <2>3. /\ dbTasks' \in Seq(Query)
        /\ dbSignal' \in BOOLEAN
        /\ accepted' \subseteq Query
    BY <1>1, <2>1, <2>2 DEF DbAddTask, DbTypeOK
  <2> QED
    BY <1>1, <2>1, <2>3 DEF DbAddTask, DbTypeOK
<1>4. CASE FlushTake \/ DbTake
  <2>1. dbTasks # <<>> => Head(dbTasks) \in Query /\ Tail(dbTasks) \in Seq(Query)
    BY <1>1 DEF DbTypeOK
  <2> QED
    BY <1>1, <1>4, <2>1 DEF FlushTake, DbTake, DbTypeOK, DbPc
<1>5. CASE FlushRun \/ DbRun
  <2>1. PICK q \in Query : RunTask(q)
    BY <1>1, <1>5 DEF FlushRun, DbRun, DbTypeOK, DbThreadOK, IInv
  <2>2. ranQuery' \in [Query -> Nat]
    BY <1>1, <2>1 DEF RunTask, DbTypeOK
  <2> QED
    BY <1>1, <1>5, <2>2 DEF FlushRun, DbRun, DbTypeOK, DbPc
<1>6. CASE DbCheck \/ DbWait \/ DbSpuriousWake \/ DbWoken \/ NotifyDb
  BY <1>1, <1>6
     DEF DbCheck, DbWait, DbSpuriousWake, DbWoken, NotifyDb, DbTypeOK, DbPc
<1>7. CASE DbStop \/ DbSetTerminated \/ DbShutdownNotify
  BY <1>1, <1>7
     DEF DbStop, DbSetTerminated, DbShutdownNotify, DbTypeOK, ThreadState
<1> QED
  BY <1>2, <1>3, <1>4, <1>5, <1>6, <1>7, DbStepKinds DEF DbKinds

(* The database thread holds a query exactly while it runs it.              *)
LEMMA DbThreadKept ==
  ASSUME IInv, [Next]_vars
  PROVE  DbThreadOK'
<1>1. DbThreadOK /\ DbTypeOK
  BY DEF IInv, TypeOK
<1>2. CASE UNCHANGED dbVars
  BY <1>1, <1>2 DEF dbVars, DbThreadOK
<1>3. CASE DbTake
  <2>1. Head(dbTasks) \in Query
    BY <1>1, <1>3 DEF DbTake, DbTypeOK
  <2>2. Head(dbTasks) # NoTask
    BY <2>1, Distinct
  <2> QED
    BY <1>3, <2>2 DEF DbTake, DbThreadOK
<1>4. CASE \E q \in Query \ accepted : DbAddTask(q)
  BY <1>1, <1>4 DEF DbAddTask, DbThreadOK
<1>5. CASE \/ FlushTake \/ FlushRun
           \/ DbCheck \/ DbWait \/ DbSpuriousWake \/ DbWoken \/ DbRun
           \/ NotifyDb
           \/ DbStop \/ DbSetTerminated \/ DbShutdownNotify
  BY <1>1, <1>5
     DEF FlushTake, FlushRun, DbCheck, DbWait, DbSpuriousWake, DbWoken, DbRun,
         NotifyDb, DbStop, DbSetTerminated, DbShutdownNotify, DbThreadOK
<1> QED
  BY <1>2, <1>3, <1>4, <1>5, DbStepKinds DEF DbKinds

(* The scheduler's thread holds an event when it is about to post one.      *)
LEMMA HandoverKept ==
  ASSUME IInv, [Next]_vars
  PROVE  HandoverOK'
<1>1. HandoverOK /\ SchedulerTypeOK
  BY DEF IInv, TypeOK
<1>2. CASE SchedulerLoop
  <2>1. CASE SchedulerTimeout
    BY <1>1, <2>1
       DEF SchedulerTimeout, HandoverOK, SchedulerTypeOK, IsTop
  <2>2. CASE SchedulerCheck \/ SchedulerLock \/ SchedulerWoken
    BY <2>2 DEF SchedulerCheck, SchedulerLock, SchedulerWoken, HandoverOK
  <2> QED
    BY <1>2, <2>1, <2>2 DEF SchedulerLoop
<1>3. CASE SchedulerNotified \/ SpuriousWake
  BY <1>1, <1>3
     DEF SchedulerNotified, SpuriousWake, NotifyScheduler,
         SchedulerSpuriousWake, WakeScheduler, HandoverOK, schedulerVars
<1>4. CASE SchedulerPosts
  BY <1>4 DEF SchedulerPosts, SchedulerHandover, HandoverOK
<1>5. CASE \/ \E e \in Event : ScheduleEvent(e)
           \/ SetShutdownState \/ StopThreads
  BY <1>1, <1>5
     DEF ScheduleEvent, AddEvent, SetShutdownState, SchedulerStop, StopThreads,
         SchedulerSetTerminated, SchedulerClear, HandoverOK, schedulerVars
<1>6. CASE \/ \E t \in {Sigint, Login} : Receive(t)
           \/ PostReceived \/ ServiceDies \/ Join
           \/ ExecuteOther \/ KickAll \/ Flush \/ BeginGameShutdown
           \/ FinishLong \/ DispatcherLoop \/ DispatcherAwakes
           \/ DbLoop \/ DbNotified \/ Tick \/ Exited \/ UNCHANGED vars
  <2>1. UNCHANGED schedulerVars
    BY <1>6
       DEF Receive, PostReceived, ServiceDies, Join, ExecuteOther, KickAll,
           Flush, BeginGameShutdown, FinishLong, DispatcherLoop,
           DispatcherAwakes, DbLoop, DbNotified, Tick, Exited, vars
  <2> QED
    BY <1>1, <2>1 DEF HandoverOK, schedulerVars
<1> QED
  BY <1>2, <1>3, <1>4, <1>5, <1>6 DEF Next, DispatcherTask

(* The variables of the composition.                                        *)
LEMMA GameTypes ==
  ASSUME IInv, [Next]_vars
  PROVE  /\ now' \in Nat
         /\ gameState' \in {"NORMAL", "SHUTDOWN"}
         /\ online' \in BOOLEAN
         /\ step' \in Step
         /\ received' \in Task \cup {NoTask}
         /\ seen' \subseteq Task
         /\ mainPc' \in MainPc
         /\ serviceStopped' \in BOOLEAN
<1> USE DEF gameVars
<1>1. /\ now \in Nat
      /\ gameState \in {"NORMAL", "SHUTDOWN"}
      /\ online \in BOOLEAN
      /\ step \in Step
      /\ received \in Task \cup {NoTask}
      /\ seen \subseteq Task
      /\ mainPc \in MainPc
      /\ serviceStopped \in BOOLEAN
  BY DEF IInv, TypeOK
<1>2. CASE UNCHANGED <<now, gameVars>>
  BY <1>1, <1>2
<1>3. CASE \E t \in {Sigint, Login} : Receive(t)
  BY <1>1, <1>3, Distinct DEF Receive
<1>4. CASE PostReceived \/ ServiceDies \/ Join
  BY <1>1, <1>4 DEF PostReceived, ServiceDies, Join, MainPc
<1>5. CASE ExecuteOther
  BY <1>1, <1>5 DEF ExecuteOther, Finish, Step
<1>6. CASE KickAll
  BY <1>1, <1>6 DEF KickAll, GoTo, Step
<1>7. CASE Flush
  <2>1. step' \in Step
    BY <1>1, <1>7 DEF Flush, GoTo, Step
  <2> QED
    BY <1>1, <1>7, <2>1 DEF Flush
<1>8. CASE SetShutdownState
  <2>1. step' \in Step
    BY <1>8 DEF SetShutdownState, GoTo, Step
  <2> QED
    BY <1>1, <1>8, <2>1 DEF SetShutdownState
<1>9. CASE BeginGameShutdown \/ FinishLong
  BY <1>1, <1>9 DEF BeginGameShutdown, FinishLong, Finish, GoTo, Step
<1>10. CASE StopThreads
  <2>1. step' \in Step
    BY <1>10 DEF StopThreads, GoTo, Step
  <2>2. serviceStopped' \in BOOLEAN
    BY <1>1, <1>10 DEF StopThreads
  <2> QED
    BY <1>1, <1>10, <2>1, <2>2 DEF StopThreads
<1>11. CASE \/ DispatcherLoop \/ DispatcherAwakes \/ SchedulerLoop
            \/ SchedulerPosts \/ SchedulerNotified \/ DbLoop \/ DbNotified
            \/ SpuriousWake \/ Exited \/ UNCHANGED vars
            \/ \E e \in Event : ScheduleEvent(e)
  <2>1. UNCHANGED <<now, gameVars>>
    BY <1>11
       DEF DispatcherLoop, DispatcherAwakes, SchedulerLoop, SchedulerPosts,
           SchedulerNotified, DbLoop, DbNotified, SpuriousWake, Exited, vars,
           ScheduleEvent
  <2> QED
    BY <1>2, <2>1
<1>12. CASE Tick
  BY <1>1, <1>12 DEF Tick
<1> QED
  BY <1>3, <1>4, <1>5, <1>6, <1>7, <1>8, <1>9, <1>10, <1>11, <1>12
     DEF Next, DispatcherTask

(* Together.                                                                *)
LEMMA TypesKept ==
  ASSUME IInv, [Next]_vars
  PROVE  TypeOK'
<1>1. DispatcherTypeOK'
  BY DispatcherTypes
<1>2. SchedulerTypeOK'
  BY SchedulerTypes
<1>3. DbTypeOK'
  BY DbTypes
<1> QED
  BY <1>1, <1>2, <1>3, GameTypes DEF TypeOK

-----------------------------------------------------------------------------
(* step stays a part of the function being executed.                        *)
LEMMA StepKept ==
  ASSUME IInv, [Next]_vars
  PROVE  StepOK'
<1> USE Distinct DEF gameVars, dispatcherVars, dbVars
<1>1. /\ StepOK
      /\ flushCurrent \in Query \cup {NoTask}
  BY DEF IInv, TypeOK, DbTypeOK
<1>2. ASSUME UNCHANGED <<dispatcherPc, current, step, flushCurrent>>
      PROVE  StepOK'
  BY <1>1, <1>2 DEF StepOK, InFlush, Executing
<1>3. CASE DispatcherLoop
  <2>1. CASE DispatcherTake
    <3>1. current = TaskRecord(NoTask, Never) /\ dispatcherPc = "Loop"
      BY <1>1, <2>1 DEF StepOK, DispatcherTake
    <3>2. current.task = NoTask
      BY <3>1, RecordOf
    <3>3. step = "Start" /\ flushCurrent = NoTask
      BY <1>1, <3>1, <3>2 DEF StepOK, InFlush, Executing
    <3> QED
      BY <1>3, <2>1, <3>3
         DEF DispatcherLoop, DispatcherTake, StepOK, ShutdownSteps
  <2>2. CASE DispatcherWait \/ DispatcherExit
    BY <1>1, <1>3, <2>2
       DEF DispatcherLoop, DispatcherWait, DispatcherExit, StepOK, InFlush,
           Executing
  <2> QED
    BY <1>3, <2>1, <2>2 DEF DispatcherLoop
<1>4. CASE DispatcherAwakes
  BY <1>1, <1>4
     DEF DispatcherAwakes, DispatcherSpuriousWake, NotifyDispatcher, StepOK,
         InFlush, Executing
<1>5. CASE ExecuteOther \/ FinishLong
  <2>1. /\ dispatcherPc' = "Loop" /\ step' = "Start"
        /\ current' = TaskRecord(NoTask, Never)
    BY <1>5 DEF ExecuteOther, FinishLong, Finish, DispatcherExecute
  <2>2. flushCurrent' = flushCurrent
    BY <1>5 DEF ExecuteOther, FinishLong, DbAddTask
  <2>3. flushCurrent = NoTask
    BY <1>1, <1>5
       DEF ExecuteOther, FinishLong, StepOK, InFlush, Executing
  <2>4. current'.task = NoTask
    BY <2>1, RecordOf
  <2> QED
    BY <2>1, <2>2, <2>3, <2>4 DEF StepOK
<1>6. CASE KickAll
  <2>1. current.task = Sigint /\ dispatcherPc = "Execute" /\ step = "Start"
        /\ step' \in {"Save", "Finish"}
        /\ UNCHANGED <<current, dispatcherPc, flushCurrent>>
    BY <1>6 DEF KickAll, Executing, GoTo
  <2>2. flushCurrent = NoTask
    BY <1>1, <2>1 DEF StepOK, InFlush, Executing
  <2> QED
    BY <2>1, <2>2 DEF StepOK, SetStateSteps
<1>7. CASE Flush
  <2>1. CASE FlushTake \/ FlushRun
    <3>1. UNCHANGED <<dispatcherPc, current, step>>
      BY <1>7, <2>1
         DEF Flush, FlushTake, FlushRun, FlushDone, RunTask, AddTask
    <3>2. InFlush
      BY <1>7 DEF Flush
    <3> QED
      BY <1>1, <3>1, <3>2 DEF StepOK, InFlush, Executing
  <2>2. CASE FlushDone /\ UNCHANGED <<dispatcherVars, dbVars>>
             /\ GoTo(CASE step = "Save" -> "Post"
                       [] step = "SaveAgain" -> "TerminateScheduler"
                       [] OTHER -> "NotifyDb")
    <3>1. InFlush /\ flushCurrent = NoTask
      BY <1>7, <2>2 DEF Flush, FlushDone
    <3>2. \/ current.task = Sigint /\ step' = "Post"
          \/ current.task = GameShutdown
             /\ step' \in {"TerminateScheduler", "NotifyDb"}
      BY <2>2, <3>1 DEF InFlush, Executing, GoTo
    <3> QED
      BY <2>2, <3>1, <3>2, <1>1
         DEF StepOK, InFlush, Executing, SetStateSteps, ShutdownSteps,
             FlushedSteps
  <2> QED
    BY <1>7, <2>1, <2>2 DEF Flush
<1>8. CASE SetShutdownState
  <2>1. /\ current.task = Sigint /\ dispatcherPc = "Execute"
        /\ step \in {"Post"} \cup StoppingSteps
        /\ step' \in {"Finish"} \cup StoppingSteps
    BY <1>8 DEF SetShutdownState, Executing, GoTo, StoppingSteps
  <2>2. UNCHANGED <<current, dispatcherPc, flushCurrent>>
    BY <1>8
       DEF SetShutdownState, AddTask, DispatcherStop, DbStop
  <2>3. flushCurrent = NoTask
    BY <1>1, <2>1 DEF StepOK, InFlush, Executing, StoppingSteps
  <2> QED
    BY <2>1, <2>2, <2>3 DEF StepOK, SetStateSteps
<1>9. CASE BeginGameShutdown
  <2>1. /\ current.task = GameShutdown /\ dispatcherPc = "Execute"
        /\ step = "Start" /\ step' = "SaveAgain"
        /\ UNCHANGED <<current, dispatcherPc, flushCurrent>>
    BY <1>9 DEF BeginGameShutdown, Executing, GoTo
  <2>2. flushCurrent = NoTask
    BY <1>1, <2>1 DEF StepOK, InFlush, Executing
  <2> QED
    BY <2>1, <2>2 DEF StepOK, ShutdownSteps
<1>10. CASE StopThreads
  <2>1. /\ current.task = GameShutdown /\ dispatcherPc = "Execute"
        /\ step \in {"TerminateScheduler", "ClearScheduler", "TerminateDb",
                     "NotifyDb", "TerminateDispatcher", "StopService"}
        /\ step' \in {"ClearScheduler", "TerminateDb", "FlushDb",
                      "TerminateDispatcher", "StopService", "Finish"}
    BY <1>10 DEF StopThreads, Executing, GoTo
  <2>2. UNCHANGED <<current, dispatcherPc, flushCurrent>>
    BY <1>10
       DEF StopThreads, DispatcherShutdown, DbSetTerminated, DbShutdownNotify
  <2>3. flushCurrent = NoTask
    BY <1>1, <2>1 DEF StepOK, InFlush, Executing
  <2> QED
    BY <2>1, <2>2, <2>3 DEF StepOK, ShutdownSteps, FlushedSteps
<1>11. CASE DbLoop \/ DbNotified \/ SpuriousWake
  <2>1. UNCHANGED <<dispatcherPc, current, step, flushCurrent>>
    BY <1>11
       DEF DbLoop, DbNotified, SpuriousWake, NotifyDb, DbSpuriousWake, DbCheck,
           DbWait, DbWoken, DbTake, DbRun, RunTask, AddTask
  <2> QED
    BY <1>2, <2>1
<1>12. CASE PostReceived \/ SchedulerPosts
  <2>1. UNCHANGED <<dispatcherPc, current, step, flushCurrent>>
    BY <1>12 DEF PostReceived, SchedulerPosts, SchedulerHandover, AddTask
  <2> QED
    BY <1>2, <2>1
<1>13. CASE \/ \E t \in {Sigint, Login} : Receive(t)
            \/ ServiceDies \/ Join \/ SchedulerLoop \/ SchedulerNotified
            \/ Tick \/ Exited \/ UNCHANGED vars
            \/ \E e \in Event : ScheduleEvent(e)
  <2>1. UNCHANGED <<dispatcherPc, current, step, flushCurrent>>
    BY <1>13
       DEF Receive, ServiceDies, Join, SchedulerLoop, SchedulerNotified, Tick,
           Exited, vars, ScheduleEvent
  <2> QED
    BY <1>2, <2>1
<1> QED
  BY <1>3, <1>4, <1>5, <1>6, <1>7, <1>8, <1>9, <1>10, <1>11, <1>12, <1>13
     DEF Next, DispatcherTask

-----------------------------------------------------------------------------
(* Main joins the threads in its order, after the services were stopped: a  *)
(* thread that ended stays ended, and so do the services.                   *)
LEMMA EndedStaysEnded ==
  ASSUME IInv, [Next]_vars
  PROVE  /\ schedulerPc = "Done" => schedulerPc' = "Done"
         /\ dbPc = "Done" => dbPc' = "Done"
         /\ dispatcherPc = "Done" => dispatcherPc' = "Done"
         /\ serviceStopped => serviceStopped'
<1>1. dbPc = "Done" => dbPc' = "Done"
  BY DbStepKinds
     DEF DbKinds, dbVars, DbAddTask, FlushTake, FlushRun, DbCheck, DbWait,
         DbSpuriousWake, DbWoken, DbTake, DbRun, NotifyDb, DbStop,
         DbSetTerminated, DbShutdownNotify
<1>2. dispatcherPc = "Done" => dispatcherPc' = "Done"
  BY StepKinds
     DEF Kinds, Still, Advances, Kicks, AddsMessage, AddsEvent, AddsShutdown,
         RunsQuery, AddsLast, Stops, Takes, Ends, dispatcherVars,
         DispatcherWait, DispatcherSpuriousWake, NotifyDispatcher,
         DispatcherExit, AddTask, RunTask, DispatcherShutdown, DispatcherStop,
         DispatcherTake, DispatcherExecute
<1>3. serviceStopped \in BOOLEAN
  BY DEF IInv, TypeOK
<1>4. serviceStopped => serviceStopped'
  BY StepKinds, <1>3
     DEF Kinds, Still, Advances, Kicks, AddsMessage, AddsEvent, AddsShutdown,
         RunsQuery, AddsLast, Stops, Takes, Ends, Kept
<1>5. schedulerPc = "Done" => schedulerPc' = "Done"
  <2>1. CASE SchedulerLoop \/ SchedulerPosts
    BY <2>1 DEF SchedulerLoop, SchedulerCheck, SchedulerLock, SchedulerWoken,
                SchedulerTimeout, SchedulerPosts, SchedulerHandover
  <2>2. CASE SchedulerNotified \/ SpuriousWake
    BY <2>2 DEF SchedulerNotified, SpuriousWake, NotifyScheduler,
                SchedulerSpuriousWake, WakeScheduler, schedulerVars
  <2>3. CASE \/ \E e \in Event : ScheduleEvent(e)
             \/ SetShutdownState \/ StopThreads
    BY <2>3 DEF ScheduleEvent, AddEvent, SetShutdownState, SchedulerStop,
                StopThreads, SchedulerSetTerminated, SchedulerClear,
                schedulerVars
  <2>4. CASE \/ \E t \in {Sigint, Login} : Receive(t)
             \/ PostReceived \/ ServiceDies \/ Join
             \/ ExecuteOther \/ KickAll \/ Flush \/ BeginGameShutdown
             \/ FinishLong \/ DispatcherLoop \/ DispatcherAwakes
             \/ DbLoop \/ DbNotified \/ Tick \/ Exited \/ UNCHANGED vars
    BY <2>4
       DEF Receive, PostReceived, ServiceDies, Join, ExecuteOther, KickAll,
           Flush, BeginGameShutdown, FinishLong, DispatcherLoop,
           DispatcherAwakes, DbLoop, DbNotified, Tick, Exited, vars,
           schedulerVars
  <2> QED
    BY <2>1, <2>2, <2>3, <2>4 DEF Next, DispatcherTask
<1> QED
  BY <1>1, <1>2, <1>4, <1>5

(* So does the order of main's joins.                                       *)
LEMMA MainKept ==
  ASSUME IInv, [Next]_vars
  PROVE  MainOK'
<1> USE EndedStaysEnded DEF gameVars
<1>1. MainOK
  BY DEF IInv
<1>2. CASE \E t \in {Sigint, Login} : Receive(t)
  BY <1>1, <1>2 DEF MainOK, Receive
<1>3. CASE PostReceived
  BY <1>1, <1>3 DEF MainOK, PostReceived
<1>4. CASE ServiceDies
  BY <1>1, <1>4 DEF MainOK, ServiceDies
<1>5. CASE Join
  BY <1>1, <1>5 DEF MainOK, Join
<1>6. CASE UNCHANGED <<received, mainPc>>
  BY <1>1, <1>6 DEF MainOK
<1>7. CASE DispatcherTask
  BY <1>6, <1>7
     DEF DispatcherTask, ExecuteOther, KickAll, Flush, SetShutdownState,
         BeginGameShutdown, StopThreads, FinishLong
<1>8. CASE \/ DispatcherLoop \/ DispatcherAwakes \/ SchedulerLoop
           \/ SchedulerPosts \/ SchedulerNotified \/ DbLoop \/ DbNotified
           \/ SpuriousWake \/ Tick \/ Exited \/ UNCHANGED vars
           \/ \E e \in Event : ScheduleEvent(e)
  BY <1>6, <1>8
     DEF DispatcherLoop, DispatcherAwakes, SchedulerLoop, SchedulerPosts,
         SchedulerNotified, DbLoop, DbNotified, SpuriousWake, Tick, Exited,
         vars, ScheduleEvent
<1> QED
  BY <1>2, <1>3, <1>4, <1>5, <1>7, <1>8 DEF Next

-----------------------------------------------------------------------------
(* What a kind of step does to the places of a task in the dispatcher.  A   *)
(* task at the end: the others stay where they are.                         *)
LEMMA AfterAppend ==
  ASSUME DispatcherTypeOK, NEW t,
         t \in Task \cup Event \cup {NoTask, ShutdownTask},
         taskList' = Append(taskList, TaskRecord(t, Never)),
         current' = current
  PROVE  /\ DOMAIN taskList' = 1..Len(taskList) + 1
         /\ DOMAIN taskList = 1..Len(taskList)
         /\ Len(taskList) \in Nat
         /\ \A i \in 1..Len(taskList) : taskList'[i] = taskList[i]
         /\ taskList'[Len(taskList) + 1] = TaskRecord(t, Never)
         /\ taskList'[Len(taskList) + 1].task = t
         /\ \A u : InDispatcher(u)' <=> InDispatcher(u) \/ u = t
<1>1. PICK r : r = TaskRecord(t, Never) /\ r \in TaskRecords /\ r.task = t
  BY RecordOf
<1>2. taskList \in Seq(TaskRecords)
  BY DEF DispatcherTypeOK
<1>3. /\ DOMAIN taskList' = 1..Len(taskList) + 1
      /\ DOMAIN taskList = 1..Len(taskList)
      /\ Len(taskList) \in Nat
      /\ \A i \in 1..Len(taskList) : taskList'[i] = taskList[i]
      /\ taskList'[Len(taskList) + 1] = r
  BY <1>1, <1>2
<1>4. \A i \in 1..Len(taskList) + 1 :
        i \in 1..Len(taskList) \/ i = Len(taskList) + 1
  BY <1>3
<1>5. ASSUME NEW u
      PROVE  InDispatcher(u)' <=> InDispatcher(u) \/ u = t
  <2>1. InDispatcher(u)' <=>
          current.task = u \/ \E i \in 1..Len(taskList) + 1 : taskList'[i].task = u
    BY <1>3 DEF InDispatcher
  <2>2. InDispatcher(u) <=>
          current.task = u \/ \E i \in 1..Len(taskList) : taskList[i].task = u
    BY <1>3 DEF InDispatcher
  <2>3. 1..Len(taskList) \subseteq 1..Len(taskList) + 1
        /\ Len(taskList) + 1 \in 1..Len(taskList) + 1
    BY <1>3
  <2> QED
    BY <1>1, <1>3, <1>4, <2>1, <2>2, <2>3
<1> QED
  BY <1>1, <1>3, <1>5

(* A task at the front: the others move one place back.                     *)
LEMMA AfterPush ==
  ASSUME DispatcherTypeOK, NEW t,
         t \in Task \cup Event \cup {NoTask, ShutdownTask},
         taskList' = <<TaskRecord(t, Never)>> \o taskList,
         current' = current
  PROVE  /\ DOMAIN taskList' = 1..Len(taskList) + 1
         /\ DOMAIN taskList = 1..Len(taskList)
         /\ Len(taskList) \in Nat
         /\ \A i \in 2..Len(taskList) + 1 : taskList'[i] = taskList[i - 1]
         /\ taskList'[1] = TaskRecord(t, Never)
         /\ taskList'[1].task = t
         /\ \A u : InDispatcher(u)' <=> InDispatcher(u) \/ u = t
<1>1. PICK r : r = TaskRecord(t, Never) /\ r \in TaskRecords /\ r.task = t
  BY RecordOf
<1>2. taskList \in Seq(TaskRecords)
  BY DEF DispatcherTypeOK
<1>3. /\ DOMAIN taskList' = 1..Len(taskList) + 1
      /\ DOMAIN taskList = 1..Len(taskList)
      /\ Len(taskList) \in Nat
      /\ \A i \in 2..Len(taskList) + 1 : taskList'[i] = taskList[i - 1]
      /\ taskList'[1] = r
  BY <1>1, <1>2
<1>4. ASSUME NEW u
      PROVE  InDispatcher(u)' <=> InDispatcher(u) \/ u = t
  <2>1. InDispatcher(u)' <=>
          current.task = u \/ \E i \in 1..Len(taskList) + 1 : taskList'[i].task = u
    BY <1>3 DEF InDispatcher
  <2>2. InDispatcher(u) <=>
          current.task = u \/ \E i \in 1..Len(taskList) : taskList[i].task = u
    BY <1>3 DEF InDispatcher
  <2>3. ASSUME NEW i \in 1..Len(taskList) + 1
        PROVE  i = 1 \/ (i \in 2..Len(taskList) + 1 /\ i - 1 \in 1..Len(taskList))
    BY <1>3
  <2>4. ASSUME NEW i \in 1..Len(taskList)
        PROVE  i + 1 \in 2..Len(taskList) + 1 /\ i + 1 \in 1..Len(taskList) + 1
               /\ (i + 1) - 1 = i
    BY <1>3
  <2>5. 1 \in 1..Len(taskList) + 1
    BY <1>3
  <2>6. ASSUME NEW i \in 1..Len(taskList)
        PROVE  \E j \in 1..Len(taskList) + 1 : taskList'[j] = taskList[i]
    BY <1>3, <2>4
  <2> QED
    BY <1>1, <1>3, <2>1, <2>2, <2>3, <2>5, <2>6
<1> QED
  BY <1>1, <1>3, <1>4

(* Taking the first task: the places of the tasks do not change, the others *)
(* move one place forward.                                                  *)
LEMMA AfterTake ==
  ASSUME IInv, DispatcherTake
  PROVE  /\ DOMAIN taskList' = 1..Len(taskList) - 1
         /\ DOMAIN taskList = 1..Len(taskList)
         /\ Len(taskList) \in Nat \ {0}
         /\ \A i \in 1..Len(taskList) - 1 : taskList'[i] = taskList[i + 1]
         /\ current' = taskList[1]
         /\ current.task = NoTask
         /\ \A u : u # NoTask => (InDispatcher(u)' <=> InDispatcher(u))
<1>1. taskList \in Seq(TaskRecords) /\ taskList # <<>>
  BY DEF IInv, TypeOK, DispatcherTypeOK, DispatcherTake
<1>2. /\ DOMAIN taskList' = 1..Len(taskList) - 1
      /\ DOMAIN taskList = 1..Len(taskList)
      /\ Len(taskList) \in Nat \ {0}
      /\ \A i \in 1..Len(taskList) - 1 : taskList'[i] = taskList[i + 1]
      /\ current' = taskList[1]
  BY <1>1 DEF DispatcherTake
<1>3. current.task = NoTask
  BY RecordOf DEF IInv, StepOK, DispatcherTake
<1>4. ASSUME NEW u, u # NoTask
      PROVE  InDispatcher(u)' <=> InDispatcher(u)
  <2>1. InDispatcher(u)' <=>
          taskList[1].task = u
          \/ \E i \in 1..Len(taskList) - 1 : taskList[i + 1].task = u
    BY <1>2 DEF InDispatcher
  <2>2. InDispatcher(u) <=> \E i \in 1..Len(taskList) : taskList[i].task = u
    BY <1>2, <1>3, <1>4 DEF InDispatcher
  <2>3. ASSUME NEW i \in 1..Len(taskList)
        PROVE  i = 1 \/ (i - 1 \in 1..Len(taskList) - 1 /\ (i - 1) + 1 = i)
    BY <1>2
  <2>4. ASSUME NEW i \in 1..Len(taskList) - 1
        PROVE  i + 1 \in 1..Len(taskList)
    BY <1>2
  <2>5. 1 \in 1..Len(taskList)
    BY <1>2
  <2> QED
    BY <2>1, <2>2, <2>3, <2>4, <2>5
<1> QED
  BY <1>2, <1>3, <1>4

(* The task is called and forgotten: nothing expires in this composition.   *)
LEMMA AfterExecute ==
  ASSUME IInv, DispatcherExecute
  PROVE  /\ UNCHANGED <<taskList, dropped>>
         /\ current'.task = NoTask
         /\ current'.expiration = Never
         /\ \A u : u # NoTask => (InDispatcher(u)' <=> Listed(u))
         /\ \A t \in Task \cup Event :
              executed'[t] = executed[t] + (IF t = current.task THEN 1 ELSE 0)
         /\ dispatcherState' = IF current.task = ShutdownTask
                               THEN "TERMINATED" ELSE dispatcherState
<1>1. ~HasExpired(current)
  BY DEF HasExpired, IInv, NothingExpires
<1>2. /\ current'.task = NoTask /\ current'.expiration = Never
      /\ UNCHANGED <<taskList, dropped>>
  BY <1>1, RecordOf DEF DispatcherExecute
<1>3. \A u : u # NoTask => (InDispatcher(u)' <=> Listed(u))
  BY <1>2 DEF InDispatcher, Listed
<1>4. ASSUME NEW t \in Task \cup Event
      PROVE  executed'[t] = executed[t] + (IF t = current.task THEN 1 ELSE 0)
  <2>1. executed[t] \in Nat
    BY DEF IInv, TypeOK, DispatcherTypeOK
  <2> QED
    BY <1>1, <2>1 DEF DispatcherExecute
<1> QED
  BY <1>1, <1>2, <1>3, <1>4 DEF DispatcherExecute

(* A task that stood once in the list still does when another is added, at  *)
(* the end or at the front, or when the first is taken.                     *)
LEMMA AppendOnce ==
  ASSUME DispatcherTypeOK, NEW t,
         t \in Task \cup Event \cup {NoTask, ShutdownTask},
         taskList' = Append(taskList, TaskRecord(t, Never)),
         current' = current
  PROVE  /\ \A u : Listed(u)' => Listed(u) \/ u = t
         /\ \A u : Once(u) /\ (u = t => ~Listed(u)) => Once(u)'
<1>1. /\ DOMAIN taskList' = 1..Len(taskList) + 1
      /\ DOMAIN taskList = 1..Len(taskList)
      /\ Len(taskList) \in Nat
      /\ \A i \in 1..Len(taskList) : taskList'[i] = taskList[i]
      /\ taskList'[Len(taskList) + 1].task = t
  BY AfterAppend
<1>2. \A i \in DOMAIN taskList' : i \in DOMAIN taskList \/ i = Len(taskList) + 1
  BY <1>1
<1>3. \A u : Listed(u)' => Listed(u) \/ u = t
  BY <1>1, <1>2 DEF Listed
<1>4. ASSUME NEW u, Once(u), u = t => ~Listed(u)
      PROVE  Once(u)'
  <2> SUFFICES ASSUME NEW i \in DOMAIN taskList', NEW j \in DOMAIN taskList',
                      taskList'[i].task = u, taskList'[j].task = u
               PROVE  i = j
    BY DEF Once
  <2>1. u # t => i \in DOMAIN taskList /\ j \in DOMAIN taskList
    BY <1>1, <1>2
  <2>2. u = t => i = Len(taskList) + 1 /\ j = Len(taskList) + 1
    BY <1>1, <1>2, <1>4 DEF Listed
  <2> QED
    BY <1>1, <1>4, <2>1, <2>2 DEF Once
<1> QED
  BY <1>3, <1>4

(* The same for a task at the front.                                        *)
LEMMA PushOnce ==
  ASSUME DispatcherTypeOK, NEW t,
         t \in Task \cup Event \cup {NoTask, ShutdownTask},
         taskList' = <<TaskRecord(t, Never)>> \o taskList,
         current' = current
  PROVE  /\ \A u : Listed(u)' => Listed(u) \/ u = t
         /\ \A u : Once(u) /\ (u = t => ~Listed(u)) => Once(u)'
<1>1. /\ DOMAIN taskList' = 1..Len(taskList) + 1
      /\ DOMAIN taskList = 1..Len(taskList)
      /\ Len(taskList) \in Nat
      /\ \A i \in 2..Len(taskList) + 1 : taskList'[i] = taskList[i - 1]
      /\ taskList'[1].task = t
  BY AfterPush
<1>2. \A i \in DOMAIN taskList' :
        i = 1 \/ (i - 1 \in DOMAIN taskList /\ taskList'[i] = taskList[i - 1])
  BY <1>1
<1>3. \A u : Listed(u)' => Listed(u) \/ u = t
  BY <1>1, <1>2 DEF Listed
<1>4. ASSUME NEW u, Once(u), u = t => ~Listed(u)
      PROVE  Once(u)'
  <2> SUFFICES ASSUME NEW i \in DOMAIN taskList', NEW j \in DOMAIN taskList',
                      taskList'[i].task = u, taskList'[j].task = u
               PROVE  i = j
    BY DEF Once
  <2>1. u # t => /\ i - 1 \in DOMAIN taskList /\ j - 1 \in DOMAIN taskList
                 /\ taskList[i - 1].task = u /\ taskList[j - 1].task = u
    BY <1>1, <1>2
  <2>2. u = t => i = 1 /\ j = 1
    BY <1>1, <1>2, <1>4 DEF Listed
  <2>3. u # t => i - 1 = j - 1
    BY <1>4, <2>1 DEF Once
  <2>4. i \in Int /\ j \in Int
    BY <1>1
  <2> QED
    BY <2>2, <2>3, <2>4
<1> QED
  BY <1>3, <1>4

(* And for the first task being taken, which is then listed no more.        *)
LEMMA TakeOnce ==
  ASSUME IInv, DispatcherTake, NEW u, Once(u)
  PROVE  Once(u)' /\ (current'.task = u => ~Listed(u)')
<1>1. /\ DOMAIN taskList' = 1..Len(taskList) - 1
      /\ DOMAIN taskList = 1..Len(taskList)
      /\ Len(taskList) \in Nat \ {0}
      /\ \A i \in 1..Len(taskList) - 1 : taskList'[i] = taskList[i + 1]
      /\ current' = taskList[1]
  BY AfterTake
<1>2. \A i \in DOMAIN taskList' :
        /\ i \in Int /\ i + 1 # 1
        /\ i + 1 \in DOMAIN taskList
        /\ taskList'[i] = taskList[i + 1]
  BY <1>1
<1>3. 1 \in DOMAIN taskList
  BY <1>1
<1>4. ASSUME NEW i \in DOMAIN taskList', NEW j \in DOMAIN taskList',
             taskList'[i].task = u, taskList'[j].task = u
      PROVE  i = j
  <2>1. i + 1 = j + 1
    BY <1>2, <1>4 DEF Once
  <2> QED
    BY <1>2, <2>1
<1>5. ASSUME current'.task = u, NEW i \in DOMAIN taskList', taskList'[i].task = u
      PROVE  FALSE
  BY <1>1, <1>2, <1>3, <1>5 DEF Once
<1> QED
  BY <1>4, <1>5 DEF Once, Listed

(* A step that leaves the list and the current task alone.                  *)
LEMMA SameTasks ==
  ASSUME UNCHANGED <<taskList, current>>
  PROVE  \A u : /\ InDispatcher(u)' <=> InDispatcher(u)
                /\ Once(u)' <=> Once(u)
                /\ Listed(u)' <=> Listed(u)
BY DEF InDispatcher, Once, Listed

(* addTask: the task is in the list or it was deleted, and then the         *)
(* dispatcher was not running; no other task comes or goes.                 *)
LEMMA AfterAdd ==
  ASSUME IInv,
         NEW t \in Task \cup Event,
         NEW front \in BOOLEAN,
         AddTask(TaskRecord(t, Never), front)
  PROVE  /\ UNCHANGED <<dispatcherState, current, executed>>
         /\ \A u : InDispatcher(u)' => InDispatcher(u) \/ u = t
         /\ \A u : InDispatcher(u) => InDispatcher(u)'
         /\ InDispatcher(t)' \/ t \in dropped'
         /\ \A u : u \in dropped' =>
              u \in dropped \/ (u = t /\ dispatcherState # "RUNNING")
         /\ dropped \subseteq dropped'
         /\ \A u : Listed(u)' => Listed(u) \/ u = t
         /\ \A u : Once(u) /\ (u = t => ~Listed(u)) => Once(u)'
         /\ NothingExpires'
<1>1. DispatcherTypeOK /\ NothingExpires
  BY DEF IInv, TypeOK
<1>2. UNCHANGED <<dispatcherState, current, executed>>
  BY DEF AddTask
<1>3. TaskRecord(t, Never).task = t /\ TaskRecord(t, Never).expiration = Never
  BY RecordOf
<1>4. CASE dispatcherState # "RUNNING"
  <2>1. UNCHANGED <<taskList, current>> /\ dropped' = dropped \cup {t}
    BY <1>3, <1>4 DEF AddTask
  <2>2. NothingExpires'
    BY <1>1, <2>1 DEF NothingExpires
  <2> QED
    BY <1>2, <1>4, <2>1, <2>2, SameTasks
<1>5. CASE dispatcherState = "RUNNING" /\ ~front
  <2>1. taskList' = Append(taskList, TaskRecord(t, Never))
        /\ UNCHANGED <<current, dropped>>
    BY <1>5 DEF AddTask
  <2>2. /\ DOMAIN taskList' = 1..Len(taskList) + 1
        /\ DOMAIN taskList = 1..Len(taskList)
        /\ Len(taskList) \in Nat
        /\ \A i \in 1..Len(taskList) : taskList'[i] = taskList[i]
        /\ taskList'[Len(taskList) + 1] = TaskRecord(t, Never)
        /\ \A u : InDispatcher(u)' <=> InDispatcher(u) \/ u = t
    BY <1>1, <2>1, AfterAppend
  <2>3. \A i \in DOMAIN taskList' :
          i \in DOMAIN taskList \/ i = Len(taskList) + 1
    BY <2>2
  <2>4. NothingExpires'
    BY <1>1, <1>3, <2>1, <2>2, <2>3 DEF NothingExpires
  <2> QED
    BY <1>1, <1>2, <1>5, <2>1, <2>2, <2>4, AppendOnce
<1>6. CASE dispatcherState = "RUNNING" /\ front
  <2>1. taskList' = <<TaskRecord(t, Never)>> \o taskList
        /\ UNCHANGED <<current, dropped>>
    BY <1>6 DEF AddTask
  <2>2. /\ DOMAIN taskList' = 1..Len(taskList) + 1
        /\ DOMAIN taskList = 1..Len(taskList)
        /\ Len(taskList) \in Nat
        /\ \A i \in 2..Len(taskList) + 1 : taskList'[i] = taskList[i - 1]
        /\ taskList'[1] = TaskRecord(t, Never)
        /\ \A u : InDispatcher(u)' <=> InDispatcher(u) \/ u = t
    BY <1>1, <2>1, AfterPush
  <2>3. \A i \in DOMAIN taskList' :
          i = 1 \/ (/\ i - 1 \in DOMAIN taskList
                    /\ taskList'[i] = taskList[i - 1])
    BY <2>2
  <2>4. NothingExpires'
    BY <1>1, <1>3, <2>1, <2>2, <2>3 DEF NothingExpires
  <2> QED
    BY <1>1, <1>2, <1>6, <2>1, <2>2, <2>4, PushOnce
<1> QED
  BY <1>4, <1>5, <1>6

(* A thread that runs a query adds its callback, if it has one.             *)
LEMMA AfterRun ==
  ASSUME IInv, NEW q \in Query, RunTask(q)
  PROVE  /\ \/ UNCHANGED dispatcherVars
            \/ AddTask(TaskRecord(q, Never), FALSE) /\ q \in Task \cup Event
         /\ q \notin {GameShutdown, ShutdownTask, NoTask} /\ q \notin Event
BY Distinct DEF RunTask

-----------------------------------------------------------------------------
(* No task has an expiration.                                               *)
LEMMA NothingExpiresKept ==
  ASSUME IInv, [Next]_vars
  PROVE  NothingExpires'
<1> USE Distinct
<1>1. NothingExpires /\ DispatcherTypeOK
  BY DEF IInv, TypeOK
<1>2. CASE UNCHANGED <<taskList, current>>
  BY <1>1, <1>2 DEF NothingExpires
<1>3. CASE AddsMessage \/ AddsEvent \/ AddsShutdown
  <2>1. PICK t \in Task \cup Event, front \in BOOLEAN :
                AddTask(TaskRecord(t, Never), front)
    BY <1>3 DEF AddsMessage, AddsEvent, AddsShutdown
  <2> QED
    BY <2>1, AfterAdd
<1>4. CASE RunsQuery
  <2>1. PICK q \in Query : RunTask(q)
    BY <1>4 DEF RunsQuery
  <2>2. \/ UNCHANGED dispatcherVars
        \/ AddTask(TaskRecord(q, Never), FALSE) /\ q \in Task \cup Event
    BY <2>1, AfterRun
  <2> QED
    BY <1>2, <2>2, AfterAdd DEF dispatcherVars
<1>5. CASE AddsLast
  <2>1. taskList' = Append(taskList, TaskRecord(ShutdownTask, Never))
        /\ current' = current
    BY <1>5 DEF AddsLast, DispatcherShutdown
  <2>2. /\ DOMAIN taskList' = 1..Len(taskList) + 1
        /\ DOMAIN taskList = 1..Len(taskList)
        /\ Len(taskList) \in Nat
        /\ \A i \in 1..Len(taskList) : taskList'[i] = taskList[i]
        /\ taskList'[Len(taskList) + 1] = TaskRecord(ShutdownTask, Never)
    BY <1>1, <2>1, AfterAppend
  <2>3. TaskRecord(ShutdownTask, Never).expiration = Never
    BY RecordOf
  <2>4. \A i \in DOMAIN taskList' :
          i \in DOMAIN taskList \/ i = Len(taskList) + 1
    BY <2>2
  <2> QED
    BY <1>1, <2>1, <2>2, <2>3, <2>4 DEF NothingExpires
<1>6. CASE Takes
  <2>1. /\ DOMAIN taskList' = 1..Len(taskList) - 1
        /\ DOMAIN taskList = 1..Len(taskList)
        /\ Len(taskList) \in Nat \ {0}
        /\ \A i \in 1..Len(taskList) - 1 : taskList'[i] = taskList[i + 1]
        /\ current' = taskList[1]
    BY <1>6, AfterTake DEF Takes
  <2>2. \A i \in DOMAIN taskList' : i + 1 \in DOMAIN taskList
    BY <2>1
  <2>3. 1 \in DOMAIN taskList
    BY <2>1
  <2> QED
    BY <1>1, <2>1, <2>2, <2>3 DEF NothingExpires
<1>7. CASE Ends
  <2>1. UNCHANGED taskList /\ current'.expiration = Never
    BY <1>7, AfterExecute DEF Ends
  <2> QED
    BY <1>1, <2>1 DEF NothingExpires
<1>8. CASE Still \/ Advances \/ Kicks \/ Stops
  BY <1>2, <1>8
     DEF Still, Advances, Kicks, Stops, dispatcherVars, DispatcherWait,
         DispatcherSpuriousWake, NotifyDispatcher, DispatcherExit,
         DispatcherStop
<1> QED
  BY <1>3, <1>4, <1>5, <1>6, <1>7, <1>8, StepKinds DEF Kinds

-----------------------------------------------------------------------------
(* The order of the shutdown: until the signal nothing of it has happened,  *)
(* setGameState ends before Game::shutdown begins, and by then the          *)
(* dispatcher accepts no task.                                              *)
LEMMA OrderKept ==
  ASSUME IInv, [Next]_vars
  PROVE  NormalOK' /\ SetStateFirst' /\ StoppedFirst'
<1> USE Distinct
<1>1. /\ NormalOK /\ SetStateFirst /\ StoppedFirst
      /\ gameState \in {"NORMAL", "SHUTDOWN"}
      /\ GameShutdown \in Task \cup Event
  BY DEF IInv, TypeOK
<1>2. current.task = GameShutdown => /\ gameState = "SHUTDOWN"
                                     /\ dispatcherState # "RUNNING"
  BY <1>1 DEF NormalOK, StoppedFirst, InDispatcher
<1>3. step # "Start" => gameState = "SHUTDOWN"
  BY <1>1 DEF NormalOK
<1>4. ASSUME /\ UNCHANGED <<dispatcherState, current, executed, step, gameState,
                            serviceStopped>>
             /\ InDispatcher(GameShutdown)' => InDispatcher(GameShutdown)
             /\ InDispatcher(ShutdownTask)' => InDispatcher(ShutdownTask)
      PROVE  NormalOK' /\ SetStateFirst' /\ StoppedFirst'
  BY <1>1, <1>4 DEF NormalOK, SetStateFirst, StoppedFirst
<1>5. CASE Still
  <2>1. UNCHANGED <<taskList, dispatcherState, current, executed, step,
                    gameState, serviceStopped>>
    BY <1>5 DEF Still, Kept, dispatcherVars, DispatcherWait,
                DispatcherSpuriousWake, NotifyDispatcher, DispatcherExit
  <2> QED
    BY <1>4, <2>1, SameTasks
<1>6. CASE Advances
  <2>1. UNCHANGED <<taskList, dispatcherState, current, executed, gameState>>
    BY <1>6 DEF Advances, dispatcherVars
  <2>2. gameState' = "SHUTDOWN"
    BY <1>2, <1>3, <1>6 DEF Advances
  <2>3. SetStateFirst'
    BY <1>1, <1>6, <2>1 DEF Advances, SetStateFirst, SetStateSteps,
                            StoppingSteps
  <2>4. StoppedFirst'
    BY <1>1, <1>2, <1>6, <2>1, SameTasks
       DEF Advances, StoppedFirst, StoppingSteps
  <2> QED
    BY <2>2, <2>3, <2>4 DEF NormalOK
<1>7. CASE Kicks
  <2>1. UNCHANGED <<taskList, dispatcherState, current, executed,
                    serviceStopped>>
    BY <1>7 DEF Kicks, dispatcherVars
  <2>2. /\ executed[GameShutdown] = 0 /\ ~serviceStopped
        /\ ~InDispatcher(GameShutdown)
    BY <1>1, <1>7 DEF Kicks, NormalOK
  <2> QED
    BY <1>7, <2>1, <2>2, SameTasks
       DEF Kicks, NormalOK, SetStateFirst, StoppedFirst
<1>8. ASSUME NEW t \in Task \cup Event, NEW front \in BOOLEAN,
             AddTask(TaskRecord(t, Never), front), t # GameShutdown,
             UNCHANGED <<step, gameState, serviceStopped>>
      PROVE  NormalOK' /\ SetStateFirst' /\ StoppedFirst'
  <2>1. /\ UNCHANGED <<dispatcherState, current, executed>>
        /\ \A u : InDispatcher(u)' => InDispatcher(u) \/ u = t
    BY <1>8, AfterAdd
  <2> QED
    BY <1>4, <1>8, <2>1
<1>9. CASE AddsMessage \/ AddsEvent
  <2>1. PICK t \in Task \cup Event, front \in BOOLEAN :
                AddTask(TaskRecord(t, Never), front) /\ t # GameShutdown
    BY <1>9 DEF AddsMessage, AddsEvent
  <2> QED
    BY <1>8, <1>9, <2>1 DEF AddsMessage, AddsEvent, Kept
<1>10. CASE RunsQuery
  <2>1. PICK q \in Query : RunTask(q)
    BY <1>10 DEF RunsQuery
  <2>2. /\ \/ UNCHANGED dispatcherVars
           \/ AddTask(TaskRecord(q, Never), FALSE) /\ q \in Task \cup Event
        /\ q # GameShutdown
    BY <2>1, AfterRun
  <2> QED
    BY <1>4, <1>8, <1>10, <2>2, SameTasks DEF RunsQuery, dispatcherVars
<1>11. CASE AddsShutdown
  <2>1. AddTask(TaskRecord(GameShutdown, Never), FALSE)
    BY <1>11 DEF AddsShutdown
  <2>2. UNCHANGED <<dispatcherState, current, executed>>
    BY <1>1, <2>1, AfterAdd
  <2>3. gameState' = "SHUTDOWN"
    BY <1>3, <1>11 DEF AddsShutdown, Kept
  <2> QED
    BY <1>1, <1>11, <2>2, <2>3
       DEF AddsShutdown, Kept, NormalOK, SetStateFirst, StoppedFirst,
           SetStateSteps, StoppingSteps
<1>12. CASE AddsLast
  <2>1. /\ taskList' = Append(taskList, TaskRecord(ShutdownTask, Never))
        /\ UNCHANGED <<current, dispatcherState, executed, gameState>>
        /\ current.task = GameShutdown
    BY <1>12 DEF AddsLast, DispatcherShutdown, Kept
  <2> QED
    BY <1>1, <1>2, <2>1 DEF NormalOK, SetStateFirst, StoppedFirst
<1>13. CASE Stops
  <2>1. gameState' = "SHUTDOWN"
    BY <1>3, <1>13 DEF Stops, Kept
  <2> QED
    BY <2>1, <1>13
       DEF Stops, DispatcherStop, NormalOK, SetStateFirst, StoppedFirst,
           SetStateSteps, StoppingSteps
<1>14. CASE Takes
  <2>1. /\ current.task = NoTask
        /\ \A u : u # NoTask => (InDispatcher(u)' <=> InDispatcher(u))
        /\ UNCHANGED <<dispatcherState, executed, step, gameState,
                       serviceStopped>>
    BY <1>14, AfterTake DEF Takes, DispatcherTake, Kept
  <2>2. step = "Start"
    BY <2>1 DEF IInv, StepOK
  <2>3. InDispatcher(GameShutdown) => dispatcherState # "RUNNING"
    BY <1>1, <2>1 DEF StoppedFirst
  <2> QED
    BY <1>1, <2>1, <2>2, <2>3
       DEF NormalOK, SetStateFirst, StoppedFirst, SetStateSteps, StoppingSteps
<1>15. CASE Ends
  <2>1. /\ current'.task = NoTask
        /\ \A u : u # NoTask => (InDispatcher(u)' <=> Listed(u))
        /\ executed'[GameShutdown] = executed[GameShutdown]
             + (IF GameShutdown = current.task THEN 1 ELSE 0)
        /\ dispatcherState' = IF current.task = ShutdownTask
                              THEN "TERMINATED" ELSE dispatcherState
    BY <1>1, <1>15, AfterExecute DEF Ends
  <2>2. \A u : Listed(u) => InDispatcher(u)
    BY DEF Listed, InDispatcher
  <2>3. UNCHANGED <<gameState, serviceStopped>> /\ step' = "Start"
    BY <1>15 DEF Ends, Kept
  <2>4. executed[GameShutdown] \in Nat
    BY <1>1 DEF IInv, TypeOK, DispatcherTypeOK
  <2>5. NormalOK'
    <3> SUFFICES ASSUME gameState = "NORMAL" PROVE NormalOK'
      BY <2>3 DEF NormalOK
    <3>1. ~InDispatcher(GameShutdown) /\ ~InDispatcher(ShutdownTask)
      BY <1>1 DEF NormalOK
    <3>2. current.task # GameShutdown /\ current.task # ShutdownTask
      BY <3>1 DEF InDispatcher
    <3> QED
      BY <1>1, <2>1, <2>2, <2>3, <2>4, <3>1, <3>2 DEF NormalOK
  <2>6. SetStateFirst'
    BY <2>1 DEF SetStateFirst
  <2>7. StoppedFirst'
    <3>1. current.task = Sigint => step \notin StoppingSteps
      BY <1>15 DEF Ends, StoppingSteps
    <3>2. InDispatcher(GameShutdown) => dispatcherState # "RUNNING"
      BY <1>1, <3>1 DEF StoppedFirst
    <3> QED
      BY <1>1, <1>2, <2>1, <2>2, <2>4, <3>2 DEF StoppedFirst
  <2> QED
    BY <2>5, <2>6, <2>7
<1> QED
  BY <1>5, <1>6, <1>7, <1>9, <1>10, <1>11, <1>12, <1>13, <1>14, <1>15, StepKinds
     DEF Kinds

-----------------------------------------------------------------------------
(* No event stands behind GameShutdown, and none is left when it is taken:  *)
(* events go to the front, and only while the dispatcher runs.              *)
LEMMA EventsKept ==
  ASSUME IInv, [Next]_vars
  PROVE  EventsFirst' /\ NoEventAfterGameShutdown'
<1> USE Distinct
<1>1. /\ EventsFirst /\ NoEventAfterGameShutdown /\ StoppedFirst
      /\ DispatcherTypeOK /\ executed[GameShutdown] \in Nat
  BY DEF IInv, TypeOK, DispatcherTypeOK
<1>2. GameShutdownStarted => dispatcherState # "RUNNING"
  BY <1>1 DEF GameShutdownStarted, StoppedFirst, InDispatcher
<1>3. ASSUME UNCHANGED <<taskList, current, executed>>
      PROVE  EventsFirst' /\ NoEventAfterGameShutdown'
  BY <1>1, <1>3 DEF EventsFirst, NoEventAfterGameShutdown,
                    GameShutdownStarted, InDispatcher
<1>4. ASSUME NEW t \in Task \cup {NoTask, ShutdownTask}, t \notin Event,
             taskList' = Append(taskList, TaskRecord(t, Never)),
             UNCHANGED <<current, executed>>
      PROVE  EventsFirst' /\ NoEventAfterGameShutdown'
  <2>1. /\ DOMAIN taskList' = 1..Len(taskList) + 1
        /\ DOMAIN taskList = 1..Len(taskList)
        /\ Len(taskList) \in Nat
        /\ \A i \in 1..Len(taskList) : taskList'[i] = taskList[i]
        /\ taskList'[Len(taskList) + 1].task = t
        /\ \A u : InDispatcher(u)' <=> InDispatcher(u) \/ u = t
    BY <1>1, <1>4, AfterAppend
  <2>2. ASSUME NEW i \in DOMAIN taskList', NEW j \in DOMAIN taskList',
               i < j, taskList'[i].task = GameShutdown
        PROVE  taskList'[j].task \notin Event
    <3>1. i \in DOMAIN taskList
      BY <2>1, <2>2
    <3>2. j \in DOMAIN taskList \/ j = Len(taskList) + 1
      BY <2>1
    <3> QED
      BY <1>1, <1>4, <2>1, <2>2, <3>1, <3>2 DEF EventsFirst
  <2>3. NoEventAfterGameShutdown'
    BY <1>1, <1>4, <2>1 DEF NoEventAfterGameShutdown, GameShutdownStarted
  <2> QED
    BY <2>2, <2>3 DEF EventsFirst
<1>5. ASSUME NEW t \in Task, AddTask(TaskRecord(t, Never), FALSE)
      PROVE  EventsFirst' /\ NoEventAfterGameShutdown'
  <2>1. \/ taskList' = taskList
        \/ taskList' = Append(taskList, TaskRecord(t, Never))
    BY <1>5 DEF AddTask
  <2>2. UNCHANGED <<current, executed>>
    BY <1>5 DEF AddTask
  <2> QED
    BY <1>3, <1>4, <2>1, <2>2
<1>6. CASE AddsMessage \/ AddsShutdown
  <2>1. PICK t \in Task : AddTask(TaskRecord(t, Never), FALSE)
    BY <1>6 DEF AddsMessage, AddsShutdown
  <2> QED
    BY <1>5, <2>1
<1>7. CASE RunsQuery
  <2>1. PICK q \in Query : RunTask(q)
    BY <1>7 DEF RunsQuery
  <2>2. UNCHANGED dispatcherVars \/ AddTask(TaskRecord(q, Never), FALSE)
    BY <2>1 DEF RunTask
  <2> QED
    BY <1>3, <1>5, <2>2 DEF dispatcherVars
<1>8. CASE AddsLast
  BY <1>4, <1>8 DEF AddsLast, DispatcherShutdown
<1>9. CASE AddsEvent
  <2>1. PICK e \in Event : AddTask(TaskRecord(e, Never), TRUE)
    BY <1>9 DEF AddsEvent
  <2>2. CASE dispatcherState # "RUNNING"
    BY <1>3, <2>1, <2>2 DEF AddTask
  <2>3. CASE dispatcherState = "RUNNING"
    <3>1. /\ taskList' = <<TaskRecord(e, Never)>> \o taskList
          /\ UNCHANGED <<current, executed>>
      BY <2>1, <2>3 DEF AddTask
    <3>2. /\ DOMAIN taskList' = 1..Len(taskList) + 1
          /\ DOMAIN taskList = 1..Len(taskList)
          /\ Len(taskList) \in Nat
          /\ \A i \in 2..Len(taskList) + 1 : taskList'[i] = taskList[i - 1]
          /\ taskList'[1].task = e
      BY <1>1, <3>1, AfterPush
    <3>3. ASSUME NEW i \in DOMAIN taskList', NEW j \in DOMAIN taskList',
                 i < j, taskList'[i].task = GameShutdown
          PROVE  taskList'[j].task \notin Event
      <4>1. i # 1
        BY <3>2, <3>3
      <4>2. /\ i \in 2..Len(taskList) + 1 /\ j \in 2..Len(taskList) + 1
            /\ i - 1 \in DOMAIN taskList /\ j - 1 \in DOMAIN taskList
            /\ i - 1 < j - 1
        BY <3>2, <3>3, <4>1
      <4> QED
        BY <1>1, <3>2, <3>3, <4>2 DEF EventsFirst
    <3>4. ~GameShutdownStarted'
      BY <1>2, <2>3, <3>1 DEF GameShutdownStarted
    <3> QED
      BY <3>3, <3>4 DEF EventsFirst, NoEventAfterGameShutdown
  <2> QED
    BY <2>2, <2>3
<1>10. CASE Takes
  <2>1. /\ DOMAIN taskList' = 1..Len(taskList) - 1
        /\ DOMAIN taskList = 1..Len(taskList)
        /\ Len(taskList) \in Nat \ {0}
        /\ \A i \in 1..Len(taskList) - 1 : taskList'[i] = taskList[i + 1]
        /\ current' = taskList[1]
        /\ \A u : u # NoTask => (InDispatcher(u)' <=> InDispatcher(u))
        /\ UNCHANGED executed
    BY <1>10, AfterTake DEF Takes, DispatcherTake
  <2>2. \A i \in DOMAIN taskList' :
          /\ i \in Int /\ i + 1 \in DOMAIN taskList /\ 1 < i + 1
          /\ taskList'[i] = taskList[i + 1]
    BY <2>1
  <2>3. 1 \in DOMAIN taskList
    BY <2>1
  <2>4. ASSUME NEW i \in DOMAIN taskList', NEW j \in DOMAIN taskList',
               i < j, taskList'[i].task = GameShutdown
        PROVE  taskList'[j].task \notin Event
    <3>1. i + 1 < j + 1
      BY <2>2, <2>4
    <3> QED
      BY <1>1, <2>2, <2>4, <3>1 DEF EventsFirst
  <2>5. ASSUME GameShutdownStarted', NEW e \in Event, InDispatcher(e)'
        PROVE  FALSE
    <3>1. CASE current'.task = GameShutdown
      <4>1. PICK i \in DOMAIN taskList' : taskList'[i].task = e
        BY <2>5, <3>1 DEF InDispatcher
      <4> QED
        BY <1>1, <2>1, <2>2, <2>3, <3>1, <4>1 DEF EventsFirst
    <3>2. CASE executed[GameShutdown] > 0
      BY <1>1, <2>1, <2>5, <3>2
         DEF NoEventAfterGameShutdown, GameShutdownStarted
    <3> QED
      BY <2>1, <2>5, <3>1, <3>2 DEF GameShutdownStarted
  <2> QED
    BY <2>4, <2>5 DEF EventsFirst, NoEventAfterGameShutdown
<1>11. CASE Ends
  <2>1. /\ UNCHANGED taskList
        /\ current'.task = NoTask
        /\ \A u : u # NoTask => (InDispatcher(u)' <=> Listed(u))
        /\ executed'[GameShutdown] = executed[GameShutdown]
             + (IF GameShutdown = current.task THEN 1 ELSE 0)
    BY <1>11, AfterExecute DEF Ends
  <2>2. EventsFirst'
    BY <1>1, <2>1 DEF EventsFirst
  <2>3. GameShutdownStarted' => GameShutdownStarted
    BY <1>1, <2>1 DEF GameShutdownStarted
  <2>4. \A u : Listed(u) => InDispatcher(u)
    BY DEF Listed, InDispatcher
  <2> QED
    BY <1>1, <2>1, <2>2, <2>3, <2>4 DEF NoEventAfterGameShutdown
<1>12. CASE Still \/ Advances \/ Kicks \/ Stops
  BY <1>3, <1>12
     DEF Still, Advances, Kicks, Stops, dispatcherVars, DispatcherWait,
         DispatcherSpuriousWake, NotifyDispatcher, DispatcherExit,
         DispatcherStop
<1> QED
  BY <1>6, <1>7, <1>8, <1>9, <1>10, <1>11, <1>12, StepKinds DEF Kinds

-----------------------------------------------------------------------------
(* The callback of a query that ran is in one place of the dispatcher, was  *)
(* called once, or was deleted in a shutdown.                               *)
LEMMA CallbacksKept ==
  ASSUME IInv, [Next]_vars
  PROVE  CallbacksOnce'
<1> USE Distinct
<1> SUFFICES ASSUME NEW q \in Query PROVE CallbackOnce(q)'
  BY DEF CallbacksOnce
<1>1. /\ CallbackOnce(q) /\ NormalOK
      /\ DispatcherTypeOK /\ q \in Task \cup Event
      /\ executed[q] \in Nat
      /\ ranQuery \in [Query -> Nat] /\ ranQuery[q] \in Nat
      /\ gameState \in {"NORMAL", "SHUTDOWN"}
  BY DEF IInv, TypeOK, CallbacksOnce, DispatcherTypeOK, DbTypeOK
<1>2. gameState' \in {"NORMAL", "SHUTDOWN"}
      /\ (gameState = "SHUTDOWN" => gameState' = "SHUTDOWN")
  <2>1. UNCHANGED gameState \/ Kicks
    BY StepKinds
       DEF Kinds, Still, Advances, AddsMessage, AddsEvent, AddsShutdown,
           RunsQuery, AddsLast, Stops, Takes, Ends, Kept
  <2> QED
    BY <1>1, <2>1 DEF Kicks
<1>3. ASSUME UNCHANGED <<taskList, current, executed, dropped, ranQuery>>
      PROVE  CallbackOnce(q)'
  <2>1. /\ Once(q)' <=> Once(q)
        /\ Listed(q)' <=> Listed(q)
        /\ InDispatcher(q)' <=> InDispatcher(q)
    BY <1>3, SameTasks
  <2> QED
    BY <1>1, <1>2, <1>3, <2>1 DEF CallbackOnce
<1>4. CASE Still \/ Advances \/ Kicks \/ Stops
  BY <1>3, <1>4
     DEF Still, Advances, Kicks, Stops, Kept, dispatcherVars, DispatcherWait,
         DispatcherSpuriousWake, NotifyDispatcher, DispatcherExit,
         DispatcherStop
(* A task that is not this callback.                                        *)
<1>5. ASSUME NEW t \in Task \cup Event, NEW front \in BOOLEAN, t # q,
             AddTask(TaskRecord(t, Never), front),
             ranQuery'[q] = ranQuery[q]
      PROVE  CallbackOnce(q)'
  <2>1. /\ UNCHANGED <<current, executed>>
        /\ InDispatcher(q)' <=> InDispatcher(q)
        /\ Listed(q)' => Listed(q)
        /\ Once(q) => Once(q)'
        /\ q \in dropped' <=> q \in dropped
    BY <1>5, AfterAdd
  <2> QED
    BY <1>1, <1>2, <1>5, <2>1 DEF CallbackOnce
<1>6. CASE AddsMessage \/ AddsEvent \/ AddsShutdown
  <2>1. PICK t \in Task \cup Event, front \in BOOLEAN :
                t # q /\ AddTask(TaskRecord(t, Never), front)
    BY <1>6 DEF AddsMessage, AddsEvent, AddsShutdown
  <2>2. UNCHANGED ranQuery
    BY <1>6 DEF AddsMessage, AddsEvent, AddsShutdown, Kept
  <2> QED
    BY <1>5, <2>1, <2>2
<1>7. CASE RunsQuery
  <2>1. PICK p \in Query : RunTask(p) /\ ranQuery[p] = 0
    BY <1>7 DEF RunsQuery
  <2>2. ranQuery' = [ranQuery EXCEPT ![p] = @ + 1]
    BY <2>1 DEF RunTask
  <2>3. CASE p # q
    <3>1. ranQuery'[q] = ranQuery[q]
      BY <1>1, <2>2, <2>3
    <3>2. CASE AddTask(TaskRecord(p, Never), FALSE)
      BY <1>5, <2>3, <3>1, <3>2
    <3>3. CASE UNCHANGED dispatcherVars
      <4>1. /\ Once(q)' <=> Once(q)
            /\ Listed(q)' <=> Listed(q)
            /\ InDispatcher(q)' <=> InDispatcher(q)
            /\ UNCHANGED <<current, executed, dropped>>
        BY <3>3, SameTasks DEF dispatcherVars
      <4> QED
        BY <1>1, <1>2, <3>1, <4>1 DEF CallbackOnce
    <3> QED
      BY <2>1, <3>2, <3>3, AfterRun
  <2>4. CASE p = q
    <3>1. ranQuery'[q] = 1
      BY <1>1, <2>1, <2>2, <2>4
    <3>2. ~InDispatcher(q) /\ executed[q] = 0
      BY <1>1, <2>1, <2>4 DEF CallbackOnce
    <3>3. ~Listed(q) /\ current.task # q
      BY <3>2 DEF InDispatcher, Listed
    <3>4. CASE q \in CallbackQuery
      <4>1. AddTask(TaskRecord(q, Never), FALSE)
        BY <2>1, <2>4, <3>4 DEF RunTask
      <4>2. /\ UNCHANGED <<dispatcherState, current, executed>>
            /\ InDispatcher(q)' \/ q \in dropped'
            /\ q \in dropped' => q \in dropped \/ dispatcherState # "RUNNING"
            /\ Once(q) => Once(q)'
        BY <1>1, <3>3, <4>1, AfterAdd
      <4>3. q \in dropped' => gameState' = "SHUTDOWN"
        BY <1>1, <1>2, <4>2 DEF NormalOK, CallbackOnce
      <4> QED
        BY <1>1, <1>2, <3>1, <3>2, <3>3, <4>2, <4>3 DEF CallbackOnce
    <3>5. CASE q \notin CallbackQuery
      <4>1. UNCHANGED dispatcherVars
        BY <2>1, <2>4, <3>5 DEF RunTask
      <4>2. /\ Once(q)' <=> Once(q)
            /\ Listed(q)' <=> Listed(q)
            /\ InDispatcher(q)' <=> InDispatcher(q)
            /\ UNCHANGED <<current, executed, dropped>>
        BY <4>1, SameTasks DEF dispatcherVars
      <4> QED
        BY <1>1, <1>2, <3>1, <3>2, <3>5, <4>2 DEF CallbackOnce
    <3> QED
      BY <3>4, <3>5
  <2> QED
    BY <2>3, <2>4
<1>8. CASE AddsLast
  <2>1. /\ taskList' = Append(taskList, TaskRecord(ShutdownTask, Never))
        /\ UNCHANGED <<current, executed, dropped, ranQuery>>
    BY <1>8 DEF AddsLast, DispatcherShutdown, Kept
  <2>2. q # ShutdownTask
    OBVIOUS
  <2>3. /\ InDispatcher(q)' <=> InDispatcher(q)
        /\ Listed(q)' => Listed(q)
        /\ Once(q) => Once(q)'
    BY <1>1, <2>1, <2>2, AfterAppend, AppendOnce
  <2> QED
    BY <1>1, <1>2, <2>1, <2>3 DEF CallbackOnce
<1>9. CASE Takes
  <2>1. /\ UNCHANGED <<executed, dropped, ranQuery>>
        /\ DispatcherTake
    BY <1>9 DEF Takes, DispatcherTake, Kept
  <2>2. q # NoTask
    OBVIOUS
  <2>3. InDispatcher(q)' <=> InDispatcher(q)
    BY <2>1, <2>2, AfterTake
  <2>4. Once(q)' /\ (current'.task = q => ~Listed(q)')
    BY <1>1, <2>1, TakeOnce DEF CallbackOnce
  <2> QED
    BY <1>1, <1>2, <2>1, <2>3, <2>4 DEF CallbackOnce
<1>10. CASE Ends
  <2>1. /\ UNCHANGED <<taskList, dropped, ranQuery>>
        /\ current'.task = NoTask
        /\ InDispatcher(q)' <=> Listed(q)
        /\ executed'[q] = executed[q] + (IF q = current.task THEN 1 ELSE 0)
    BY <1>1, <1>10, AfterExecute DEF Ends, Kept
  <2>2. Once(q)' <=> Once(q)
    BY <2>1 DEF Once
  <2>3. InDispatcher(q) <=> current.task = q \/ Listed(q)
    BY DEF InDispatcher, Listed
  <2>4. current'.task # q
    BY <2>1
  <2> QED
    BY <1>1, <1>2, <2>1, <2>2, <2>3, <2>4 DEF CallbackOnce
<1> QED
  BY <1>4, <1>6, <1>7, <1>8, <1>9, <1>10, StepKinds DEF Kinds

-----------------------------------------------------------------------------
(* Taking the first query of the list: it leaves the list, the others stay. *)
LEMMA AfterTail ==
  ASSUME dbTasks \in Seq(Query), dbTasks # <<>>, dbTasks' = Tail(dbTasks),
         NEW q \in Query,
         \A i, j \in DOMAIN dbTasks : dbTasks[i] = q /\ dbTasks[j] = q => i = j
  PROVE  /\ \A i, j \in DOMAIN dbTasks' :
              dbTasks'[i] = q /\ dbTasks'[j] = q => i = j
         /\ Queued(q)' <=> Queued(q) /\ Head(dbTasks) # q
         /\ Head(dbTasks) = q => Queued(q)
<1>1. /\ DOMAIN dbTasks' = 1..Len(dbTasks) - 1
      /\ DOMAIN dbTasks = 1..Len(dbTasks)
      /\ Len(dbTasks) \in Nat \ {0}
      /\ \A i \in 1..Len(dbTasks) - 1 : dbTasks'[i] = dbTasks[i + 1]
      /\ Head(dbTasks) = dbTasks[1]
  OBVIOUS
<1>2. \A i \in DOMAIN dbTasks' :
        /\ i \in Int /\ i + 1 \in DOMAIN dbTasks /\ i + 1 # 1
        /\ dbTasks'[i] = dbTasks[i + 1]
  BY <1>1
<1>3. \A i \in DOMAIN dbTasks :
        i = 1 \/ (i - 1 \in DOMAIN dbTasks' /\ dbTasks'[i - 1] = dbTasks[i])
  BY <1>1
<1>4. 1 \in DOMAIN dbTasks
  BY <1>1
<1>5. ASSUME NEW i \in DOMAIN dbTasks', NEW j \in DOMAIN dbTasks',
             dbTasks'[i] = q, dbTasks'[j] = q
      PROVE  i = j
  <2>1. i + 1 = j + 1
    BY <1>2, <1>5
  <2> QED
    BY <1>2, <2>1
<1>6. Queued(q)' => Queued(q) /\ Head(dbTasks) # q
  BY <1>1, <1>2, <1>4 DEF Queued
<1>7. Queued(q) /\ Head(dbTasks) # q => Queued(q)'
  BY <1>1, <1>3 DEF Queued
<1>8. Head(dbTasks) = q => Queued(q)
  BY <1>1, <1>4 DEF Queued
<1> QED
  BY <1>5, <1>6, <1>7, <1>8

(* An accepted query is in one place, and runs once.                        *)
LEMMA QueriesKept ==
  ASSUME IInv, [Next]_vars
  PROVE  QueriesOnce'
<1> USE Distinct
<1> SUFFICES ASSUME NEW q \in Query PROVE QueryOnce(q)'
  BY DEF QueriesOnce
<1>1. /\ QueryOnce(q) /\ DbThreadOK
      /\ dbTasks \in Seq(Query)
      /\ dbCurrent \in Query \cup {NoTask} /\ flushCurrent \in Query \cup {NoTask}
      /\ ranQuery \in [Query -> Nat]
      /\ q # NoTask
  BY DEF IInv, TypeOK, QueriesOnce, DbTypeOK
<1>2. CASE UNCHANGED <<dbTasks, dbCurrent, flushCurrent, accepted, ranQuery>>
  <2>1. Queued(q)' <=> Queued(q)
    BY <1>2 DEF Queued
  <2> QED
    BY <1>1, <1>2, <2>1 DEF QueryOnce
<1>3. CASE \E p \in Query \ accepted : DbAddTask(p)
  <2>1. PICK p \in Query \ accepted : DbAddTask(p)
    BY <1>3
  <2>2. CASE dbState = "RUNNING"
    <3>1. /\ dbTasks' = Append(dbTasks, p)
          /\ accepted' = accepted \cup {p}
          /\ UNCHANGED <<dbCurrent, flushCurrent, ranQuery>>
      BY <2>1, <2>2 DEF DbAddTask
    <3>2. /\ DOMAIN dbTasks' = 1..Len(dbTasks) + 1
          /\ DOMAIN dbTasks = 1..Len(dbTasks)
          /\ Len(dbTasks) \in Nat
          /\ \A i \in 1..Len(dbTasks) : dbTasks'[i] = dbTasks[i]
          /\ dbTasks'[Len(dbTasks) + 1] = p
      BY <1>1, <2>1, <3>1
    <3>3. \A i \in DOMAIN dbTasks' : i \in DOMAIN dbTasks \/ i = Len(dbTasks) + 1
      BY <3>2
    <3>4. Queued(q)' <=> Queued(q) \/ q = p
      <4>1. DOMAIN dbTasks \subseteq DOMAIN dbTasks'
            /\ Len(dbTasks) + 1 \in DOMAIN dbTasks'
        BY <3>2
      <4> QED
        BY <3>2, <3>3, <4>1 DEF Queued
    <3>5. p = q => ~Queued(q) /\ dbCurrent # q /\ flushCurrent # q
                   /\ ranQuery[q] = 0
      BY <1>1, <2>1 DEF QueryOnce
    <3>6. ASSUME NEW i \in DOMAIN dbTasks', NEW j \in DOMAIN dbTasks',
                 dbTasks'[i] = q, dbTasks'[j] = q
          PROVE  i = j
      <4>1. CASE p = q
        BY <3>2, <3>3, <3>5, <3>6, <4>1 DEF Queued
      <4>2. CASE p # q
        BY <1>1, <3>2, <3>3, <3>6, <4>2 DEF QueryOnce
      <4> QED
        BY <4>1, <4>2
    <3> QED
      BY <1>1, <3>1, <3>4, <3>5, <3>6 DEF QueryOnce
  <2>3. CASE dbState # "RUNNING"
    BY <1>2, <2>1, <2>3 DEF DbAddTask
  <2> QED
    BY <2>2, <2>3
<1>4. CASE FlushTake \/ DbTake
  <2>1. /\ dbTasks # <<>> /\ dbTasks' = Tail(dbTasks)
        /\ UNCHANGED <<accepted, ranQuery>>
        /\ \/ /\ flushCurrent = NoTask /\ flushCurrent' = Head(dbTasks)
              /\ UNCHANGED dbCurrent
           \/ /\ dbCurrent = NoTask /\ dbCurrent' = Head(dbTasks)
              /\ UNCHANGED flushCurrent
    BY <1>1, <1>4 DEF FlushTake, DbTake, DbThreadOK
  <2>2. /\ \A i, j \in DOMAIN dbTasks' :
             dbTasks'[i] = q /\ dbTasks'[j] = q => i = j
        /\ Queued(q)' <=> Queued(q) /\ Head(dbTasks) # q
        /\ Head(dbTasks) = q => Queued(q)
    BY <1>1, <2>1, AfterTail DEF QueryOnce
  <2> QED
    BY <1>1, <2>1, <2>2 DEF QueryOnce
<1>5. CASE FlushRun \/ DbRun
  <2>1. PICK p \in Query :
          /\ RunTask(p)
          /\ UNCHANGED <<dbTasks, accepted>>
          /\ \/ /\ flushCurrent = p /\ flushCurrent' = NoTask
                /\ UNCHANGED dbCurrent
             \/ /\ dbCurrent = p /\ dbCurrent' = NoTask
                /\ UNCHANGED flushCurrent
    BY <1>1, <1>5 DEF FlushRun, DbRun, DbThreadOK
  <2>2. ranQuery'[q] = ranQuery[q] + (IF p = q THEN 1 ELSE 0)
    BY <1>1, <2>1 DEF RunTask
  <2>3. Queued(q)' <=> Queued(q)
    BY <2>1 DEF Queued
  <2>4. \A i, j \in DOMAIN dbTasks' :
          dbTasks'[i] = q /\ dbTasks'[j] = q => i = j
    BY <1>1, <2>1 DEF QueryOnce
  <2>5. CASE p = q
    BY <1>1, <2>1, <2>2, <2>3, <2>4, <2>5 DEF QueryOnce
  <2>6. CASE p # q
    <3>1. ranQuery'[q] = ranQuery[q]
      BY <1>1, <2>2, <2>6
    <3> QED
      BY <1>1, <2>1, <3>1, <2>3, <2>4, <2>6 DEF QueryOnce
  <2> QED
    BY <2>5, <2>6
<1>6. CASE \/ UNCHANGED dbVars
           \/ DbCheck \/ DbWait \/ DbSpuriousWake \/ DbWoken \/ NotifyDb
           \/ DbStop \/ DbSetTerminated \/ DbShutdownNotify
  BY <1>2, <1>6
     DEF dbVars, DbCheck, DbWait, DbSpuriousWake, DbWoken, NotifyDb, DbStop,
         DbSetTerminated, DbShutdownNotify
<1> QED
  BY <1>3, <1>4, <1>5, <1>6, DbStepKinds DEF DbKinds

-----------------------------------------------------------------------------
(* The list of the database thread stays empty after the last flush.        *)
LEMMA DbEmptiedKept ==
  ASSUME IInv, [Next]_vars
  PROVE  DbEmptied'
<1> USE Distinct DEF dbVars, gameVars, dispatcherVars
<1>1. /\ DbEmptied /\ SetStateFirst
      /\ serviceStopped \in BOOLEAN
  BY DEF IInv, TypeOK
<1>2. ASSUME UNCHANGED <<current, step, serviceStopped, dbState, dbTasks>>
      PROVE  DbEmptied'
  BY <1>1, <1>2 DEF DbEmptied
<1>3. CASE \/ \E t \in {Sigint, Login} : Receive(t)
           \/ PostReceived \/ ServiceDies \/ Join \/ DispatcherAwakes
           \/ SchedulerLoop \/ SchedulerPosts \/ SchedulerNotified
           \/ DbNotified \/ SpuriousWake \/ Tick \/ Exited \/ UNCHANGED vars
           \/ \E e \in Event : ScheduleEvent(e)
  <2>1. UNCHANGED <<current, step, serviceStopped, dbState, dbTasks>>
    BY <1>3
       DEF Receive, PostReceived, AddTask, ServiceDies, Join, DispatcherAwakes,
           DispatcherSpuriousWake, NotifyDispatcher, SchedulerLoop,
           SchedulerPosts, SchedulerHandover, SchedulerNotified, DbNotified,
           NotifyDb, SpuriousWake, DbSpuriousWake, Tick, Exited, vars,
           ScheduleEvent
  <2> QED
    BY <1>2, <2>1
<1>4. CASE ExecuteOther \/ FinishLong
  <2>1. current' = TaskRecord(NoTask, Never) /\ UNCHANGED serviceStopped
    BY <1>4 DEF ExecuteOther, FinishLong, Finish, DispatcherExecute
  <2>2. current'.task = NoTask
    BY <2>1, RecordOf
  <2>3. dbState' = dbState /\ (dbState # "RUNNING" => UNCHANGED dbTasks)
    BY <1>4 DEF ExecuteOther, FinishLong, DbAddTask
  <2> QED
    BY <1>1, <2>1, <2>2, <2>3 DEF DbEmptied
<1>5. CASE KickAll
  BY <1>1, <1>5 DEF KickAll, Executing, DbEmptied
<1>6. CASE Flush
  <2>1. CASE FlushTake /\ UNCHANGED step
    <3>1. step \notin FlushedSteps
      BY <1>6 DEF Flush, InFlush, Executing, FlushedSteps
    <3>2. dbTasks # <<>>
      BY <2>1 DEF FlushTake
    <3>3. ~serviceStopped
      BY <1>1, <3>2 DEF DbEmptied
    <3> QED
      BY <1>1, <1>6, <2>1, <3>1, <3>3 DEF Flush, FlushTake, DbEmptied
  <2>2. CASE FlushRun /\ UNCHANGED step
    <3>1. UNCHANGED <<current, step, serviceStopped, dbState, dbTasks>>
      BY <1>6, <2>2 DEF Flush, FlushRun, RunTask, AddTask
    <3> QED
      BY <1>2, <3>1
  <2>3. CASE /\ FlushDone
             /\ GoTo(CASE step = "Save" -> "Post"
                       [] step = "SaveAgain" -> "TerminateScheduler"
                       [] OTHER -> "NotifyDb")
             /\ UNCHANGED <<dispatcherVars, dbVars>>
    <3>1. \/ current.task = Sigint
          \/ current.task = GameShutdown /\ step' = "TerminateScheduler"
          \/ current.task = GameShutdown /\ step = "FlushDb"
      BY <1>6, <2>3 DEF Flush, InFlush, Executing, GoTo
    <3>2. dbTasks = <<>> /\ UNCHANGED <<current, dbTasks, dbState, serviceStopped>>
      BY <1>6, <2>3 DEF Flush, FlushDone
    <3> QED
      BY <1>1, <3>1, <3>2 DEF DbEmptied, FlushedSteps
  <2> QED
    BY <1>6, <2>1, <2>2, <2>3 DEF Flush
<1>7. CASE SetShutdownState
  <2>1. /\ current.task = Sigint /\ step \in SetStateSteps
        /\ UNCHANGED <<current, serviceStopped>>
    BY <1>7 DEF SetShutdownState, Executing, AddTask, DispatcherStop,
                SetStateSteps, StoppingSteps
  <2>2. ~serviceStopped
    BY <1>1, <2>1 DEF SetStateFirst
  <2> QED
    BY <2>1, <2>2 DEF DbEmptied
<1>8. CASE BeginGameShutdown
  BY <1>1, <1>8 DEF BeginGameShutdown, Executing, GoTo, DbEmptied, FlushedSteps
<1>9. CASE StopThreads
  <2>1. /\ current.task = GameShutdown
        /\ UNCHANGED <<current, dbTasks>>
        /\ dbState' = dbState \/ dbState' = "TERMINATED"
    BY <1>9 DEF StopThreads, Executing, DispatcherShutdown, DbSetTerminated,
                DbShutdownNotify
  <2>2. \/ step' \in {"ClearScheduler", "TerminateDb"}
        \/ step' = "FlushDb" /\ dbState' = "TERMINATED"
        \/ /\ step \in {"NotifyDb", "TerminateDispatcher", "StopService"}
           /\ dbState' = dbState
    BY <1>9 DEF StopThreads, Executing, GoTo, DbSetTerminated, DbShutdownNotify
  <2>3. serviceStopped' = serviceStopped \/ step = "StopService"
    BY <1>9 DEF StopThreads, Executing
  <2> QED
    BY <1>1, <2>1, <2>2, <2>3 DEF DbEmptied, FlushedSteps
<1>10. CASE DispatcherLoop
  <2>1. UNCHANGED <<step, serviceStopped, dbState, dbTasks>>
    BY <1>10 DEF DispatcherLoop
  <2>2. CASE DispatcherTake
    <3>1. current.task = NoTask
      BY <2>2, AfterTake
    <3>2. step = "Start"
      BY <3>1 DEF IInv, StepOK
    <3> QED
      BY <1>1, <2>1, <3>2 DEF DbEmptied, FlushedSteps
  <2>3. CASE DispatcherWait \/ DispatcherExit
    BY <1>2, <2>1, <2>3 DEF DispatcherWait, DispatcherExit
  <2> QED
    BY <1>10, <2>2, <2>3 DEF DispatcherLoop
<1>11. CASE DbLoop
  <2>1. UNCHANGED <<current, step, serviceStopped, dbState>>
    BY <1>11 DEF DbLoop, DbCheck, DbWait, DbWoken, DbTake, DbRun, RunTask,
                 AddTask
  <2>2. dbTasks = <<>> => dbTasks' = <<>>
    BY <1>11 DEF DbLoop, DbCheck, DbWait, DbWoken, DbTake, DbRun
  <2> QED
    BY <1>1, <2>1, <2>2 DEF DbEmptied
<1> QED
  BY <1>3, <1>4, <1>5, <1>6, <1>7, <1>8, <1>9, <1>10, <1>11
     DEF Next, DispatcherTask

-----------------------------------------------------------------------------
(* The invariant holds in every behaviour: whatever the network thread, the *)
(* scheduler, the database thread and the dispatcher do, in whatever order. *)
THEOREM Invariance == Spec => []IInv
<1>1. IInv /\ [Next]_vars => IInv'
  <2> SUFFICES ASSUME IInv, [Next]_vars PROVE IInv'
    OBVIOUS
  <2>1. TypeOK'
    BY TypesKept
  <2>2. StepOK' /\ DbThreadOK' /\ HandoverOK' /\ NothingExpires' /\ MainOK'
    BY StepKept, DbThreadKept, HandoverKept, NothingExpiresKept, MainKept
  <2>3. QueriesOnce' /\ CallbacksOnce' /\ DbEmptied'
    BY QueriesKept, CallbacksKept, DbEmptiedKept
  <2>4. NormalOK' /\ SetStateFirst' /\ StoppedFirst'
    BY OrderKept
  <2>5. EventsFirst' /\ NoEventAfterGameShutdown'
    BY EventsKept
  <2> QED
    BY <2>1, <2>2, <2>3, <2>4, <2>5 DEF IInv
<1> QED
  BY InitIInv, <1>1, PTL DEF Spec

(* The variables keep their types.                                          *)
THEOREM TypeCorrect == Spec => []TypeOK
<1>1. IInv => TypeOK
  BY DEF IInv
<1> QED
  BY Invariance, <1>1, PTL

(* A query that addTask accepted is in one place, whichever of the two      *)
(* threads runs it, and runs once; its callback is called after it ran and  *)
(* not twice, and gets lost only in a shutdown (databasetasks.cpp: addTask, *)
(* threadMain, flush, runTask).                                             *)
THEOREM QueriesAccountedFor == Spec => []QueryAccounting
<1>1. ASSUME IInv, NEW q \in Query
      PROVE  /\ QueryPlaces(q) = IF q \in accepted THEN 1 ELSE 0
             /\ q \in CallbackQuery /\ ranQuery[q] = 1 =>
                  InDispatcher(q) \/ executed[q] = 1 \/ q \in dropped
             /\ executed[q] <= ranQuery[q]
             /\ q \in dropped => gameState = "SHUTDOWN"
  <2> DEFINE P == {i \in DOMAIN dbTasks : dbTasks[i] = q}
  <2>1. QueryOnce(q) /\ CallbackOnce(q)
    BY <1>1 DEF IInv, QueriesOnce, CallbacksOnce
  <2>2. ~Queued(q) => P = {}
    BY DEF Queued
  <2>3. Queued(q) => \E i : P = {i}
    BY <2>1 DEF Queued, QueryOnce
  <2>4. Cardinality(P) = IF Queued(q) THEN 1 ELSE 0
    <3> HIDE DEF P
    <3> QED
      BY <2>2, <2>3, FS_EmptySet, FS_Singleton
  <2>5. QueryPlaces(q) = Cardinality(P) + (IF dbCurrent = q THEN 1 ELSE 0)
          + (IF flushCurrent = q THEN 1 ELSE 0) + ranQuery[q]
    BY DEF QueryPlaces
  <2> HIDE DEF P
  <2>6. QueryPlaces(q) = IF q \in accepted THEN 1 ELSE 0
    BY <2>1, <2>4, <2>5 DEF QueryOnce
  <2>7. executed[q] <= ranQuery[q]
    BY <2>1 DEF QueryOnce, CallbackOnce
  <2> QED
    BY <2>1, <2>6, <2>7 DEF CallbackOnce
<1>2. IInv => QueryAccounting
  BY <1>1 DEF QueryAccounting, IInv
<1> QED
  BY Invariance, <1>2, PTL

(* When Game::shutdown has begun no event of the game world is in the list  *)
(* of the dispatcher or in its hands, and none can come any more (game.cpp: *)
(* Game::shutdown, setGameState; scheduler.cpp: threadMain).                *)
THEOREM NoEventAfterShutdown == Spec => []NoEventAfterGameShutdown
<1>1. IInv => NoEventAfterGameShutdown
  BY DEF IInv
<1> QED
  BY Invariance, <1>1, PTL

(* When main returns the three threads have ended, no message is in flight, *)
(* flush holds no query and every query that was accepted has run           *)
(* (otserv.cpp: main; databasetasks.cpp: shutdown).                         *)
THEOREM ExitIsClean == Spec => []CleanExit
<1>1. ASSUME IInv, mainPc = "Returned"
      PROVE  /\ dispatcherPc = "Done" /\ schedulerPc = "Done" /\ dbPc = "Done"
             /\ received = NoTask /\ flushCurrent = NoTask
             /\ \A q \in accepted : ranQuery[q] = 1
  <2>1. /\ dispatcherPc = "Done" /\ schedulerPc = "Done" /\ dbPc = "Done"
        /\ received = NoTask /\ serviceStopped
    BY <1>1 DEF IInv, MainOK
  <2>2. flushCurrent = NoTask
    BY <1>1, <2>1 DEF IInv, StepOK, InFlush, Executing
  <2>3. dbCurrent = NoTask /\ dbTasks = <<>>
    BY <1>1, <2>1 DEF IInv, DbThreadOK, DbEmptied
  <2>4. \A q \in Query : ~Queued(q)
    BY <2>3 DEF Queued
  <2>5. accepted \subseteq Query
    BY <1>1 DEF IInv, TypeOK, DbTypeOK
  <2>6. \A q \in accepted : ranQuery[q] = 1
    BY <1>1, <2>2, <2>3, <2>4, <2>5, Distinct DEF IInv, QueriesOnce, QueryOnce
  <2> QED
    BY <2>1, <2>2, <2>6
<1>2. IInv => CleanExit
  BY <1>1 DEF CleanExit
<1> QED
  BY Invariance, <1>2, PTL

=============================================================================
