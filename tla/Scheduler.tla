----------------------------- MODULE Scheduler ------------------------------
(***************************************************************************)
(* The scheduler thread of scheduler.cpp: a priority queue of timed tasks,  *)
(* ordered by the time they are due, and the set of the identifiers of the  *)
(* events that were not stopped.  The thread sleeps until the first event   *)
(* is due and posts it at the FRONT of the dispatcher's list.               *)
(*                                                                          *)
(* The priority queue is the set of its events: which of several events     *)
(* that are due at the same time comes first is not specified.              *)
(***************************************************************************)
EXTENDS Dispatcher

CONSTANTS
  MaxEventId   \* the last identifier before lastEventId wraps around

ASSUME MaxEventIdAssumption == MaxEventId \in Nat \ {0}

VARIABLES
  eventList,        \* Scheduler::eventList
  eventIds,         \* Scheduler::eventIds
  lastEventId,      \* Scheduler::lastEventId
  schedulerState,   \* Scheduler's threadState
  schedulerPc,      \* where threadMain is
  wakeAt,           \* the time given to wait_until, 0 outside it
  handover,         \* the event popped and not yet posted
  schedulerSignal,  \* a notify_one on eventSignal is still to come
  eventId,          \* SchedulerTask::eventId, which addEvent's caller keeps
  due,              \* history: when each event was to be posted
  cancelled         \* history: events for which stopEvent returned true

schedulerVars == <<eventList, eventIds, lastEventId, schedulerState,
                   schedulerPc, wakeAt, handover, schedulerSignal, eventId,
                   due, cancelled>>

SchedulerPc ==
  {"Check", "Lock", "Wait", "WaitUntil", "Woken", "Handover", "Done"}

EventRecords == [task : Event, id : 1..MaxEventId, expiration : Nat]

(* "nothing was popped"                                                    *)
NoEvent == [task |-> NoTask, id |-> 0, expiration |-> 0]

SchedulerInit ==
  /\ eventList = {}
  /\ eventIds = {}
  /\ lastEventId \in 0..MaxEventId     \* the server has been up for a while
  /\ schedulerState = "RUNNING"
  /\ schedulerPc = "Check"
  /\ wakeAt = 0
  /\ handover = NoEvent
  /\ schedulerSignal = FALSE
  /\ eventId = [e \in Event |-> 0]
  /\ due = [e \in Event |-> 0]
  /\ cancelled = {}

SchedulerTypeOK ==
  /\ eventList \subseteq EventRecords
  /\ eventIds \subseteq 1..MaxEventId
  /\ lastEventId \in 0..MaxEventId
  /\ schedulerState \in ThreadState
  /\ schedulerPc \in SchedulerPc
  /\ wakeAt \in Nat
  /\ handover \in EventRecords \cup {NoEvent}
  /\ schedulerSignal \in BOOLEAN
  /\ eventId \in [Event -> 0..MaxEventId]
  /\ due \in [Event -> Nat]
  /\ cancelled \subseteq Event

-----------------------------------------------------------------------------
(* eventList.top(): an event with the earliest expiration (TaskComparator). *)
IsTop(r, list) == r \in list /\ \A s \in list : r.expiration <= s.expiration

(* ++lastEventId, which skips 0 when the counter wraps.                    *)
NextEventId == IF lastEventId = MaxEventId THEN 1 ELSE lastEventId + 1

(* Scheduler::addEvent of a new task that is due after delay.              *)
AddEvent(e, delay) ==
  LET r == [task |-> e, id |-> NextEventId, expiration |-> now + delay]
  IN /\ IF schedulerState = "RUNNING"
        THEN /\ lastEventId' = NextEventId
             /\ eventId' = [eventId EXCEPT ![e] = NextEventId]
             /\ eventIds' = eventIds \cup {NextEventId}
             /\ eventList' = eventList \cup {r}
             /\ due' = [due EXCEPT ![e] = now + delay]
             /\ schedulerSignal' =
                  (schedulerSignal \/ IsTop(r, eventList \cup {r}))
        ELSE UNCHANGED <<eventList, eventIds, lastEventId, schedulerSignal,
                         eventId, due>>
     /\ UNCHANGED <<schedulerState, schedulerPc, wakeAt, handover, cancelled>>

(* Mutant: the identifier is found, true is returned, nothing is erased.    *)
StopEventMutKeepId(e) ==
  /\ cancelled' = IF eventId[e] \in eventIds THEN cancelled \cup {e}
                                             ELSE cancelled
  /\ UNCHANGED <<eventList, eventIds, lastEventId, schedulerState, schedulerPc,
                 wakeAt, handover, schedulerSignal, eventId, due>>

(* Scheduler::stopEvent(eventId[e]).  The identifier leaves eventIds and    *)
(* the task stays in the queue.  An identifier that is 0 or no longer in    *)
(* the set changes nothing and the call returns false.                      *)
StopEvent(e) ==
  /\ IF eventId[e] \in eventIds
     THEN /\ eventIds' = eventIds \ {eventId[e]}
          /\ cancelled' = cancelled \cup {e}
     ELSE UNCHANGED <<eventIds, cancelled>>
  /\ UNCHANGED <<eventList, lastEventId, schedulerState, schedulerPc, wakeAt,
                 handover, schedulerSignal, eventId, due>>

(* A thread that is woken from wait finds no timeout and goes round the     *)
(* loop.  One that is woken from wait_until has still to take the mutex and *)
(* to read the clock.                                                       *)
WakeScheduler ==
  schedulerPc' = CASE schedulerPc = "Wait" -> "Check"
                   [] schedulerPc = "WaitUntil" -> "Woken"
                   [] OTHER -> schedulerPc

(* eventSignal.notify_one() after the unlock.                              *)
NotifyScheduler ==
  /\ schedulerSignal
  /\ schedulerSignal' = FALSE
  /\ WakeScheduler
  /\ UNCHANGED <<eventList, eventIds, lastEventId, schedulerState, wakeAt,
                 handover, eventId, due, cancelled>>

(* ThreadHolder::stop                                                      *)
SchedulerStop ==
  /\ schedulerState' = "CLOSING"
  /\ UNCHANGED <<eventList, eventIds, lastEventId, schedulerPc, wakeAt,
                 handover, schedulerSignal, eventId, due, cancelled>>

(* Scheduler::shutdown: the state is set before the mutex is taken.        *)
SchedulerSetTerminated ==
  /\ schedulerState' = "TERMINATED"
  /\ UNCHANGED <<eventList, eventIds, lastEventId, schedulerPc, wakeAt,
                 handover, schedulerSignal, eventId, due, cancelled>>

SchedulerClear ==
  /\ eventList' = {}
  /\ eventIds' = {}
  /\ schedulerSignal' = TRUE
  /\ UNCHANGED <<lastEventId, schedulerState, schedulerPc, wakeAt, handover,
                 eventId, due, cancelled>>

-----------------------------------------------------------------------------
(* threadMain: the test of the loop is made without the mutex.             *)
SchedulerCheck ==
  /\ schedulerPc = "Check"
  /\ schedulerPc' = IF schedulerState = "TERMINATED" THEN "Done" ELSE "Lock"
  /\ UNCHANGED <<eventList, eventIds, lastEventId, schedulerState, wakeAt,
                 handover, schedulerSignal, eventId, due, cancelled>>

SchedulerLock ==
  /\ schedulerPc = "Lock"
  /\ \/ /\ eventList = {}
        /\ schedulerPc' = "Wait"
        /\ UNCHANGED wakeAt
     \/ \E r \in eventList :
          /\ IsTop(r, eventList)
          /\ wakeAt' = r.expiration
          /\ schedulerPc' = "WaitUntil"
  /\ UNCHANGED <<eventList, eventIds, lastEventId, schedulerState, handover,
                 schedulerSignal, eventId, due, cancelled>>

(* A condition variable may return without a notification.                 *)
SchedulerSpuriousWake ==
  /\ schedulerPc \in {"Wait", "WaitUntil"}
  /\ WakeScheduler
  /\ UNCHANGED <<eventList, eventIds, lastEventId, schedulerState, wakeAt,
                 handover, schedulerSignal, eventId, due, cancelled>>

(* wait_until returns no_timeout.                                          *)
SchedulerWoken ==
  /\ schedulerPc = "Woken"
  /\ now < wakeAt
  /\ schedulerPc' = "Check"
  /\ wakeAt' = 0
  /\ UNCHANGED <<eventList, eventIds, lastEventId, schedulerState, handover,
                 schedulerSignal, eventId, due, cancelled>>

(* Mutant: the identifier of a popped event stays in the set, so that a      *)
(* later stopEvent reports that it stopped an event that fired.             *)
SchedulerTimeoutMutKeepId ==
  /\ schedulerPc \in {"WaitUntil", "Woken"}
  /\ now >= wakeAt
  /\ \E r \in eventList :
       /\ IsTop(r, eventList)
       /\ eventList' = eventList \ {r}
       /\ IF r.id \in eventIds
          THEN handover' = r /\ schedulerPc' = "Handover"
          ELSE schedulerPc' = "Check" /\ UNCHANGED handover
  /\ wakeAt' = 0
  /\ UNCHANGED <<eventIds, lastEventId, schedulerState, schedulerSignal,
                 eventId, due, cancelled>>

(* Mutant: the result of wait_until is not looked at, so that a thread that  *)
(* was woken pops the first event too.                                      *)
SchedulerTimeoutMutAnyWake ==
  /\ schedulerPc \in {"WaitUntil", "Woken"}
  /\ schedulerPc = "WaitUntil" => now >= wakeAt
  /\ \E r \in eventList :
       /\ IsTop(r, eventList)
       /\ eventList' = eventList \ {r}
       /\ eventIds' = eventIds \ {r.id}
       /\ IF r.id \in eventIds
          THEN handover' = r /\ schedulerPc' = "Handover"
          ELSE schedulerPc' = "Check" /\ UNCHANGED handover
  /\ wakeAt' = 0
  /\ UNCHANGED <<lastEventId, schedulerState, schedulerSignal, eventId, due,
                 cancelled>>

(* wait_until returns timeout, which it does for a woken thread too when    *)
(* the time has passed: the first event of the queue as it is now is       *)
(* popped, and deleted if its identifier was stopped.                      *)
SchedulerTimeout ==
  /\ schedulerPc \in {"WaitUntil", "Woken"}
  /\ now >= wakeAt
  /\ \/ /\ eventList = {}
        /\ schedulerPc' = "Check"
        /\ UNCHANGED <<eventList, eventIds, handover>>
     \/ \E r \in eventList :
          /\ IsTop(r, eventList)
          /\ eventList' = eventList \ {r}
          /\ eventIds' = eventIds \ {r.id}
          /\ IF r.id \in eventIds
             THEN /\ handover' = r
                  /\ schedulerPc' = "Handover"
             ELSE /\ schedulerPc' = "Check"
                  /\ UNCHANGED handover
  /\ wakeAt' = 0
  /\ UNCHANGED <<lastEventId, schedulerState, schedulerSignal, eventId, due,
                 cancelled>>

(* task->setDontExpire(); g_dispatcher.addTask(task, true)                 *)
SchedulerHandover ==
  /\ schedulerPc = "Handover"
  /\ AddTask(TaskRecord(handover.task, Never), TRUE)
  /\ handover' = NoEvent
  /\ schedulerPc' = "Check"
  /\ UNCHANGED <<eventList, eventIds, lastEventId, schedulerState, wakeAt,
                 schedulerSignal, eventId, due, cancelled>>

=============================================================================
