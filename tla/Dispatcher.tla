----------------------------- MODULE Dispatcher -----------------------------
(***************************************************************************)
(* The dispatcher thread of tasks.cpp: one consumer of a list of tasks that *)
(* every other thread fills through addTask.  The list is guarded by        *)
(* taskLock and announced by the condition variable taskSignal.             *)
(*                                                                          *)
(* A critical section never blocks while it holds the mutex, so each one is *)
(* a single action.  notify_one is called after the mutex is released, so   *)
(* it is a step of its own: dispatcherSignal says that some thread is       *)
(* between its unlock and its notify_one.  Two pending notifications count  *)
(* as one, because a second notification of a thread that is awake or about *)
(* to wake changes nothing.                                                 *)
(*                                                                          *)
(* The module has the operations of the dispatcher; EventLoop and           *)
(* ServerShutdown compose them with the threads that call them.             *)
(***************************************************************************)
EXTENDS Integers, Sequences, FiniteSets

CONSTANTS
  Task,          \* identities of the tasks posted with createTask
  Event,         \* identities of the tasks created with createSchedulerTask
  NoTask,        \* no task is being executed
  ShutdownTask   \* the task Dispatcher::shutdown appends to its own list

ASSUME TaskAssumption ==
  /\ Task \cap Event = {}
  /\ NoTask \notin Task \cup Event
  /\ ShutdownTask \notin Task \cup Event \cup {NoTask}

VARIABLES
  taskList,          \* Dispatcher::taskList
  dispatcherState,   \* Dispatcher's threadState
  dispatcherPc,      \* where threadMain is
  dispatcherSignal,  \* a notify_one on taskSignal is still to come
  current,           \* the task threadMain took from the list
  now,               \* the clock both threads read
  executed,          \* history: how often each task's function was called
  dropped            \* history: tasks deleted without being called

dispatcherVars == <<taskList, dispatcherState, dispatcherPc, dispatcherSignal,
                    current, executed, dropped>>

ThreadState == {"RUNNING", "CLOSING", "TERMINATED"}

DispatcherPc == {"Loop", "Waiting", "Execute", "Done"}

(* SYSTEM_TIME_ZERO: the expiration of a task that never expires.          *)
Never == 0

(* A Task object: which function it holds, and its expiration.             *)
TaskRecord(t, exp) == [task |-> t, expiration |-> exp]

TaskRecords ==
  [task : Task \cup Event \cup {NoTask, ShutdownTask}, expiration : Nat]

(* Task::hasExpired                                                        *)
HasExpired(r) == r.expiration # Never /\ r.expiration < now

DispatcherInit ==
  /\ taskList = <<>>
  /\ dispatcherState = "RUNNING"
  /\ dispatcherPc = "Loop"
  /\ dispatcherSignal = FALSE
  /\ current = TaskRecord(NoTask, Never)
  /\ executed = [t \in Task \cup Event |-> 0]
  /\ dropped = {}

DispatcherTypeOK ==
  /\ taskList \in Seq(TaskRecords)
  /\ dispatcherState \in ThreadState
  /\ dispatcherPc \in DispatcherPc
  /\ dispatcherSignal \in BOOLEAN
  /\ current \in TaskRecords
  /\ executed \in [Task \cup Event -> Nat]
  /\ dropped \subseteq Task \cup Event

-----------------------------------------------------------------------------
(* Mutants of AddTask: every task is put at the front; the signal is tied to *)
(* the list after the insertion, which is never empty.                      *)
AddTaskMutFront(r, pushFront) ==
  /\ dispatcherState = "RUNNING"
  /\ taskList' = <<r>> \o taskList
  /\ dispatcherSignal' = (dispatcherSignal \/ taskList = <<>>)
  /\ UNCHANGED <<dispatcherState, dispatcherPc, current, executed, dropped>>

AddTaskMutNoSignal(r, pushFront) ==
  /\ dispatcherState = "RUNNING"
  /\ taskList' = IF pushFront THEN <<r>> \o taskList ELSE Append(taskList, r)
  /\ dispatcherSignal' = (dispatcherSignal \/ taskList' = <<>>)
  /\ UNCHANGED <<dispatcherState, dispatcherPc, current, executed, dropped>>

(* Dispatcher::addTask, run by the calling thread.  A dispatcher that is   *)
(* no longer RUNNING deletes the task.                                     *)
AddTask(r, pushFront) ==
  /\ IF dispatcherState = "RUNNING"
     THEN /\ taskList' = IF pushFront THEN <<r>> \o taskList
                                      ELSE Append(taskList, r)
          /\ dispatcherSignal' = (dispatcherSignal \/ taskList = <<>>)
          /\ UNCHANGED dropped
     ELSE /\ dropped' = dropped \cup {r.task}
          /\ UNCHANGED <<taskList, dispatcherSignal>>
  /\ UNCHANGED <<dispatcherState, dispatcherPc, current, executed>>

(* taskSignal.notify_one(), after the unlock.                              *)
NotifyDispatcher ==
  /\ dispatcherSignal
  /\ dispatcherSignal' = FALSE
  /\ dispatcherPc' = IF dispatcherPc = "Waiting" THEN "Loop" ELSE dispatcherPc
  /\ UNCHANGED <<taskList, dispatcherState, current, executed, dropped>>

(* Dispatcher::shutdown appends the terminating task whatever the state,   *)
(* and notifies with the mutex held.                                       *)
DispatcherShutdown ==
  /\ taskList' = Append(taskList, TaskRecord(ShutdownTask, Never))
  /\ dispatcherSignal' = TRUE
  /\ UNCHANGED <<dispatcherState, dispatcherPc, current, executed, dropped>>

(* ThreadHolder::stop                                                      *)
DispatcherStop ==
  /\ dispatcherState' = "CLOSING"
  /\ UNCHANGED <<taskList, dispatcherPc, dispatcherSignal, current, executed,
                 dropped>>

-----------------------------------------------------------------------------
(* threadMain.  Only a task of this same thread sets TERMINATED, so the    *)
(* test of the loop and the critical section after it are one step.        *)
DispatcherWait ==
  /\ dispatcherPc = "Loop"
  /\ dispatcherState # "TERMINATED"
  /\ taskList = <<>>
  /\ dispatcherPc' = "Waiting"
  /\ UNCHANGED <<taskList, dispatcherState, dispatcherSignal, current, executed,
                 dropped>>

(* A condition variable may return without a notification.                 *)
DispatcherSpuriousWake ==
  /\ dispatcherPc = "Waiting"
  /\ dispatcherPc' = "Loop"
  /\ UNCHANGED <<taskList, dispatcherState, dispatcherSignal, current, executed,
                 dropped>>

DispatcherTake ==
  /\ dispatcherPc = "Loop"
  /\ dispatcherState # "TERMINATED"
  /\ taskList # <<>>
  /\ current' = Head(taskList)
  /\ taskList' = Tail(taskList)
  /\ dispatcherPc' = "Execute"
  /\ UNCHANGED <<dispatcherState, dispatcherSignal, executed, dropped>>

(* The task is called unless it expired, and deleted.  The terminating     *)
(* task sets the state and notifies its own condition variable.            *)
DispatcherExecute ==
  /\ dispatcherPc = "Execute"
  /\ IF HasExpired(current)
     THEN /\ dropped' = dropped \cup {current.task}
          /\ UNCHANGED <<executed, dispatcherState>>
     ELSE /\ executed' = [t \in Task \cup Event |->
                           IF t = current.task THEN executed[t] + 1
                                               ELSE executed[t]]
          /\ dispatcherState' = IF current.task = ShutdownTask
                                THEN "TERMINATED" ELSE dispatcherState
          /\ UNCHANGED dropped
  /\ current' = TaskRecord(NoTask, Never)
  /\ dispatcherPc' = "Loop"
  /\ UNCHANGED <<taskList, dispatcherSignal>>

DispatcherExit ==
  /\ dispatcherPc = "Loop"
  /\ dispatcherState = "TERMINATED"
  /\ dispatcherPc' = "Done"
  /\ UNCHANGED <<taskList, dispatcherState, dispatcherSignal, current, executed,
                 dropped>>

(* The steps the dispatcher thread takes on its own.                       *)
DispatcherThread ==
  \/ DispatcherWait
  \/ DispatcherTake
  \/ DispatcherExecute

=============================================================================
