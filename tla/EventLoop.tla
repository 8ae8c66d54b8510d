----------------------------- MODULE EventLoop ------------------------------
(***************************************************************************)
(* The dispatcher and the scheduler of a running server, with the threads   *)
(* that use them: any thread may post a task, schedule an event or stop     *)
(* one, at any time.  Each task and each event is posted once; an event     *)
(* that repeats (checkCreatures, checkSpawn) is a new event every time.     *)
(***************************************************************************)
EXTENDS Scheduler

CONSTANTS
  Delay,         \* delays of createSchedulerTask, in ticks of the clock
  Lifetime,      \* lifetimes of createTask with an expiration
  MaxTime        \* bound of the model: the clock stops here

ASSUME EventLoopAssumption ==
  /\ Delay \subseteq Nat
  /\ Lifetime \subseteq Nat \ {0}
  /\ MaxTime \in Nat

VARIABLES
  posted         \* history: the tasks posted, in order

vars == <<dispatcherVars, schedulerVars, now, posted>>

Init ==
  /\ DispatcherInit
  /\ SchedulerInit
  /\ now = 1
  /\ posted = <<>>

TypeOK ==
  /\ DispatcherTypeOK
  /\ SchedulerTypeOK
  /\ now \in Nat
  /\ posted \in Seq(Task)

IsPosted(t) == \E i \in DOMAIN posted : posted[i] = t

(* g_dispatcher.addTask(createTask(f)), or createTask(expiration, f)       *)
Post(t) ==
  /\ ~IsPosted(t)
  /\ \E exp \in {Never} \cup {now + l : l \in Lifetime} :
       AddTask(TaskRecord(t, exp), FALSE)
  /\ posted' = Append(posted, t)
  /\ UNCHANGED <<schedulerVars, now>>

(* An identifier is not handed out again while somebody still holds it: the *)
(* 2^32 identifiers outlast every event.                                    *)
IdSpaceNotExhausted ==
  \A e \in Event : eventId[e] # 0 => eventId[e] # NextEventId

(* g_scheduler.addEvent(createSchedulerTask(delay, f))                      *)
Schedule(e) ==
  /\ eventId[e] = 0
  /\ IdSpaceNotExhausted
  /\ \E d \in Delay : now + d <= MaxTime /\ AddEvent(e, d)
  /\ UNCHANGED <<dispatcherVars, now, posted>>

Cancel(e) ==
  /\ StopEvent(e)
  /\ UNCHANGED <<dispatcherVars, now, posted>>

Tick ==
  /\ now < MaxTime
  /\ now' = now + 1
  /\ UNCHANGED <<dispatcherVars, schedulerVars, posted>>

DispatcherStep ==
  /\ \/ DispatcherThread
     \/ DispatcherSpuriousWake
     \/ NotifyDispatcher
  /\ UNCHANGED <<schedulerVars, now, posted>>

SchedulerStep ==
  /\ \/ SchedulerCheck
     \/ SchedulerLock
     \/ SchedulerWoken
     \/ SchedulerTimeout
     \/ SchedulerSpuriousWake
     \/ NotifyScheduler
  /\ UNCHANGED <<dispatcherVars, now, posted>>

HandoverStep == SchedulerHandover /\ UNCHANGED <<now, posted>>

Next ==
  \/ \E t \in Task : Post(t)
  \/ \E e \in Event : Schedule(e) \/ Cancel(e)
  \/ Tick
  \/ DispatcherStep
  \/ SchedulerStep
  \/ HandoverStep

(* The threads keep running and notify_one is reached; nobody has to post,  *)
(* schedule or stop anything, and a spurious wake-up need not happen.       *)
Fairness ==
  /\ WF_vars(DispatcherThread /\ UNCHANGED <<schedulerVars, now, posted>>)
  /\ WF_vars(NotifyDispatcher /\ UNCHANGED <<schedulerVars, now, posted>>)
  /\ WF_vars(SchedulerCheck /\ UNCHANGED <<dispatcherVars, now, posted>>)
  /\ WF_vars(SchedulerLock /\ UNCHANGED <<dispatcherVars, now, posted>>)
  /\ WF_vars(SchedulerWoken /\ UNCHANGED <<dispatcherVars, now, posted>>)
  /\ WF_vars(SchedulerTimeout /\ UNCHANGED <<dispatcherVars, now, posted>>)
  /\ WF_vars(NotifyScheduler /\ UNCHANGED <<dispatcherVars, now, posted>>)
  /\ WF_vars(HandoverStep)
  /\ WF_vars(Tick)

Safety == Init /\ [][Next]_vars

Spec == Safety /\ Fairness

-----------------------------------------------------------------------------
(* Where an event can be.                                                   *)
InQueue(e) == \E r \in eventList : r.task = e
InHandover(e) == handover.task = e
InList(e) == \E i \in DOMAIN taskList : taskList[i].task = e
IsCurrent(e) == current.task = e
Ran(e) == executed[e] > 0

(* Every event that was accepted is in exactly one place, from addEvent to  *)
(* the call of its function, which happens at most once; it can only        *)
(* disappear when stopEvent reported that it stopped it, and then its       *)
(* function is never called (scheduler.cpp: threadMain, stopEvent).         *)
OnePlace(e) ==
  /\ InQueue(e) => ~(InHandover(e) \/ InList(e) \/ IsCurrent(e) \/ Ran(e))
  /\ InHandover(e) => ~(InList(e) \/ IsCurrent(e) \/ Ran(e))
  /\ InList(e) => ~(IsCurrent(e) \/ Ran(e))
  /\ IsCurrent(e) => ~Ran(e)
  /\ executed[e] <= 1
  /\ \A i, j \in DOMAIN taskList :
       taskList[i].task = e /\ taskList[j].task = e => i = j

NotLost(e) ==
  eventId[e] # 0 =>
    InQueue(e) \/ InHandover(e) \/ InList(e) \/ IsCurrent(e) \/ Ran(e)
      \/ e \in cancelled

StoppedNeverRuns(e) ==
  e \in cancelled => ~(InHandover(e) \/ InList(e) \/ IsCurrent(e) \/ Ran(e))

EventsInPlace ==
  \A e \in Event : OnePlace(e) /\ NotLost(e) /\ StoppedNeverRuns(e)

EventAccounting == TypeOK /\ EventsInPlace

(* No event leaves the scheduler before its delay has passed, although the  *)
(* thread pops whatever is on top when its sleep, computed for an earlier   *)
(* top, times out (scheduler.cpp: wait_until and the pop after it).         *)
NeverEarly ==
  \A e \in Event :
    InHandover(e) \/ InList(e) \/ IsCurrent(e) \/ Ran(e) => due[e] <= now

(* The tasks waiting in the list are the last ones posted, each once, in the *)
(* order in which they were posted: events that jump the queue do not        *)
(* reorder the tasks of other threads (tasks.cpp: addTask).                  *)
Holds(i, k) == taskList[i].task = posted[k]

FifoOrder ==
  /\ \A i \in DOMAIN taskList :
       taskList[i].task \in Task => \E k \in DOMAIN posted : Holds(i, k)
  /\ \A i, j \in DOMAIN taskList, k \in DOMAIN posted :
       Holds(i, k) /\ Holds(j, k) => i = j
  /\ \A i \in DOMAIN taskList, k, l \in DOMAIN posted :
       k < l /\ Holds(i, k) => \E j \in DOMAIN taskList : i < j /\ Holds(j, l)

(* A task that was posted is called, unless it expired; an event that was   *)
(* accepted is called, unless it was stopped: no wake-up is lost between    *)
(* the two threads and their callers.                                       *)
EverythingRuns ==
  /\ \A t \in Task : IsPosted(t) ~> (executed[t] = 1 \/ t \in dropped)
  /\ \A e \in Event : (eventId[e] # 0) ~> (executed[e] = 1 \/ e \in cancelled)

(* The two threads implement the timer service: an event fires when the     *)
(* scheduler removes its identifier to post it.                             *)
Pending == {e \in Event : \E r \in eventList : r.task = e /\ r.id \in eventIds}

Fired == {e \in Event : eventId[e] # 0} \ (Pending \cup cancelled)

Timers == INSTANCE TimerService
  WITH pending <- Pending, fired <- Fired, stopped <- cancelled

ImplementsTimers == Timers!Spec

=============================================================================
