--------------------------- MODULE DatabaseTasks ----------------------------
(***************************************************************************)
(* The database thread of databasetasks.cpp: a list of queries that are run *)
(* behind the dispatcher's back, the callback of each one being posted to   *)
(* the dispatcher when the query has run.  flush() runs the queries that    *)
(* are still in the list in the caller's thread (the dispatcher, when the   *)
(* game is saved) while the database thread may be running another one.     *)
(*                                                                          *)
(* A query is named by the task its callback becomes.                       *)
(***************************************************************************)
EXTENDS Scheduler

CONSTANTS
  Query,           \* the queries given to addTask
  CallbackQuery    \* those that come with a callback

ASSUME QueryAssumption == CallbackQuery \subseteq Query /\ Query \subseteq Task

VARIABLES
  dbTasks,        \* DatabaseTasks::tasks
  dbState,        \* DatabaseTasks' threadState
  dbPc,           \* where threadMain is
  dbSignal,       \* a notify_one on taskSignal is still to come
  dbCurrent,      \* the query threadMain took from the list
  flushCurrent,   \* the query flush took from the list
  accepted,       \* history: queries that addTask put in the list
  ranQuery        \* history: how often each query was run

dbVars == <<dbTasks, dbState, dbPc, dbSignal, dbCurrent, flushCurrent, accepted,
            ranQuery>>

DbPc == {"Check", "Lock", "Waiting", "Woken", "Run", "Done"}

DbInit ==
  /\ dbTasks = <<>>
  /\ dbState = "RUNNING"
  /\ dbPc = "Check"
  /\ dbSignal = FALSE
  /\ dbCurrent = NoTask
  /\ flushCurrent = NoTask
  /\ accepted = {}
  /\ ranQuery = [q \in Query |-> 0]

DbTypeOK ==
  /\ dbTasks \in Seq(Query)
  /\ dbState \in ThreadState
  /\ dbPc \in DbPc
  /\ dbSignal \in BOOLEAN
  /\ dbCurrent \in Query \cup {NoTask}
  /\ flushCurrent \in Query \cup {NoTask}
  /\ accepted \subseteq Query
  /\ ranQuery \in [Query -> Nat]

-----------------------------------------------------------------------------
(* DatabaseTasks::addTask.  A query that comes when the thread is no longer *)
(* RUNNING is forgotten.                                                    *)
DbAddTask(q) ==
  /\ IF dbState = "RUNNING"
     THEN /\ dbTasks' = Append(dbTasks, q)
          /\ dbSignal' = (dbSignal \/ dbTasks = <<>>)
          /\ accepted' = accepted \cup {q}
     ELSE UNCHANGED <<dbTasks, dbSignal, accepted>>
  /\ UNCHANGED <<dbState, dbPc, dbCurrent, flushCurrent, ranQuery>>

(* taskSignal.notify_one(), after the unlock.                               *)
NotifyDb ==
  /\ dbSignal
  /\ dbSignal' = FALSE
  /\ dbPc' = IF dbPc = "Waiting" THEN "Woken" ELSE dbPc
  /\ UNCHANGED <<dbTasks, dbState, dbCurrent, flushCurrent, accepted, ranQuery,
                 dispatcherVars>>

(* DatabaseTasks::runTask: the query, then its callback to the dispatcher.   *)
RunTask(q) ==
  /\ ranQuery' = [ranQuery EXCEPT ![q] = @ + 1]
  /\ IF q \in CallbackQuery
     THEN AddTask(TaskRecord(q, Never), FALSE)
     ELSE UNCHANGED dispatcherVars

-----------------------------------------------------------------------------
(* threadMain: the test of the loop is made without the mutex.              *)
DbCheck ==
  /\ dbPc = "Check"
  /\ dbPc' = IF dbState = "TERMINATED" THEN "Done" ELSE "Lock"
  /\ UNCHANGED <<dbTasks, dbState, dbSignal, dbCurrent, flushCurrent, accepted,
                 ranQuery, dispatcherVars>>

DbWait ==
  /\ dbPc = "Lock"
  /\ dbTasks = <<>>
  /\ dbPc' = "Waiting"
  /\ UNCHANGED <<dbTasks, dbState, dbSignal, dbCurrent, flushCurrent, accepted,
                 ranQuery, dispatcherVars>>

DbSpuriousWake ==
  /\ dbPc = "Waiting"
  /\ dbPc' = "Woken"
  /\ UNCHANGED <<dbTasks, dbState, dbSignal, dbCurrent, flushCurrent, accepted,
                 ranQuery, dispatcherVars>>

(* A thread that wakes up takes a query without testing the state again;    *)
(* one that finds none goes round the loop.                                 *)
DbWoken ==
  /\ dbPc = "Woken"
  /\ dbTasks = <<>>
  /\ dbPc' = "Check"
  /\ UNCHANGED <<dbTasks, dbState, dbSignal, dbCurrent, flushCurrent, accepted,
                 ranQuery, dispatcherVars>>

DbTake ==
  /\ dbPc \in {"Lock", "Woken"}
  /\ dbTasks # <<>>
  /\ dbCurrent' = Head(dbTasks)
  /\ dbTasks' = Tail(dbTasks)
  /\ dbPc' = "Run"
  /\ UNCHANGED <<dbState, dbSignal, flushCurrent, accepted, ranQuery,
                 dispatcherVars>>

DbRun ==
  /\ dbPc = "Run"
  /\ RunTask(dbCurrent)
  /\ dbCurrent' = NoTask
  /\ dbPc' = "Check"
  /\ UNCHANGED <<dbTasks, dbState, dbSignal, flushCurrent, accepted>>

-----------------------------------------------------------------------------
(* Mutant: flush forgets to take the query out of the list.                 *)
FlushTakeMutKeep ==
  /\ flushCurrent = NoTask
  /\ dbTasks # <<>>
  /\ flushCurrent' = Head(dbTasks)
  /\ UNCHANGED <<dbTasks, dbState, dbPc, dbSignal, dbCurrent, accepted, ranQuery,
                 dispatcherVars>>

(* flush(): the mutex is released while a query runs.                       *)
FlushTake ==
  /\ flushCurrent = NoTask
  /\ dbTasks # <<>>
  /\ flushCurrent' = Head(dbTasks)
  /\ dbTasks' = Tail(dbTasks)
  /\ UNCHANGED <<dbState, dbPc, dbSignal, dbCurrent, accepted, ranQuery,
                 dispatcherVars>>

FlushRun ==
  /\ flushCurrent # NoTask
  /\ RunTask(flushCurrent)
  /\ flushCurrent' = NoTask
  /\ UNCHANGED <<dbTasks, dbState, dbPc, dbSignal, dbCurrent, accepted>>

(* Mutant: flush returns although queries are left.                         *)
FlushDoneMutPartial == flushCurrent = NoTask

FlushDone == flushCurrent = NoTask /\ dbTasks = <<>>

-----------------------------------------------------------------------------
(* ThreadHolder::stop                                                       *)
DbStop ==
  /\ dbState' = "CLOSING"
  /\ UNCHANGED <<dbTasks, dbPc, dbSignal, dbCurrent, flushCurrent, accepted,
                 ranQuery>>

(* shutdown(): the state is set under the mutex; flush follows; then the    *)
(* notification.                                                            *)
DbSetTerminated ==
  /\ dbState' = "TERMINATED"
  /\ UNCHANGED <<dbTasks, dbPc, dbSignal, dbCurrent, flushCurrent, accepted,
                 ranQuery>>

DbShutdownNotify ==
  /\ dbSignal' = TRUE
  /\ UNCHANGED <<dbTasks, dbState, dbPc, dbCurrent, flushCurrent, accepted,
                 ranQuery>>

=============================================================================
