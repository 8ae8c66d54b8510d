------------------------------- MODULE Raids --------------------------------
(***************************************************************************)
(* Raids (raids.cpp): a recurring check starts at most one raid at a time,   *)
(* whose events then follow one another as scheduled events.  A reload       *)
(* deletes the raids and loads new ones, and can stop only events it knows   *)
(* of and that are still with the scheduler: not those of a raid that was    *)
(* taken off the list, and not one whose task waits in the dispatcher.       *)
(*                                                                           *)
(* A raid is the object of a name in one loading of the file.  Delays,       *)
(* intervals and chances are not modelled: a raid may start at any check.    *)
(* The object of a deleted raid is used as it was; it may also crash.        *)
(***************************************************************************)
EXTENDS Naturals, FiniteSets

CONSTANTS
  Name,         \* the raids of the file
  Repeated,     \* those that may be repeated
  Length,       \* how many events a raid has
  MaxLoad,      \* bound: how often the file is loaded
  MaxEvent,     \* bound: scheduled events pending
  NoRaid        \* nullptr

ASSUME RaidAssumption ==
  /\ Repeated \subseteq Name
  /\ Length \in [Name -> Nat \ {0}]
  /\ MaxLoad \in Nat \ {0}
  /\ MaxEvent \in Nat
  /\ NoRaid \notin Name \X (1 .. MaxLoad)

Raid == Name \X (1 .. MaxLoad)
EventId == 1 .. MaxEvent

VARIABLES
  load,         \* how often raids.xml was loaded
  raidList,     \* the names on the list, in their last loading
  running,      \* Raids::running
  nextEvent,    \* Raid::nextEvent
  eventOf,      \* Raid::nextEventEvent; 0 at first
  checkEvent,   \* Raids::checkRaidsEvent
  scheduled,    \* the scheduler's events, by their id: a step of a raid or a check
  tasks,        \* the same, when they have become tasks of the dispatcher
  outlived      \* history: a reload left an event that it could not stop

raidVars == <<load, raidList, running, nextEvent, eventOf, checkEvent,
              scheduled, tasks, outlived>>

Step == [raid : Raid \cup {NoRaid}, index : Nat]
Check == [raid |-> NoRaid, index |-> 0]   \* the task of a check, not of a raid

(* The id of the next event.  Identifiers that are not pending any more do    *)
(* not come back in the code; here they are forgotten and used again.        *)
Fresh(events) ==
  LET free == EventId \ (DOMAIN events \cup DOMAIN tasks)
  IN  {e \in free : \A f \in free : e <= f}

AddEvent(events, id, what) ==
  [e \in DOMAIN events \cup {id} |-> IF e = id THEN what ELSE events[e]]

RemoveEvents(events, S) == [e \in DOMAIN events \ S |-> events[e]]

RaidInit ==
  /\ load = 1
  /\ raidList = Name
  /\ running = NoRaid
  /\ nextEvent = [r \in Raid |-> 0]
  /\ eventOf = [r \in Raid |-> 0]
  /\ checkEvent = 1
  /\ scheduled = [e \in {1} |-> Check]
  /\ tasks = [e \in {} |-> Check]
  /\ outlived = FALSE

-----------------------------------------------------------------------------
(* The scheduler hands an event over to the dispatcher, and would not find   *)
(* it any more: whoever remembers its id remembers nothing.                  *)
EventDue(e) ==
  /\ e \in DOMAIN scheduled
  /\ scheduled' = RemoveEvents(scheduled, {e})
  /\ tasks' = AddEvent(tasks, e, scheduled[e])
  /\ eventOf' = [r \in Raid |-> IF eventOf[r] = e THEN 0 ELSE eventOf[r]]
  /\ checkEvent' = IF checkEvent = e THEN 0 ELSE checkEvent
  /\ UNCHANGED <<load, raidList, running, nextEvent, outlived>>

(* Raid::startRaid, after setRunning.  nextEvent tells which event is first. *)
StartRaid(r, events) ==
  /\ running' = r
  /\ IF nextEvent[r] < Length[r[1]]
     THEN \E e \in Fresh(events) :
            /\ eventOf' = [eventOf EXCEPT ![r] = e]
            /\ scheduled' = AddEvent(events, e, [raid |-> r, index |-> nextEvent[r]])
     ELSE scheduled' = events /\ UNCHANGED eventOf

(* Raids::checkRaids.  The next check is scheduled in any case.              *)
CheckRaids(t) ==
  /\ t \in DOMAIN tasks
  /\ tasks[t] = Check
  /\ tasks' = RemoveEvents(tasks, {t})
  /\ \E c \in Fresh(scheduled) :
       LET events == AddEvent(scheduled, c, Check)
       IN  /\ checkEvent' = c
           /\ \/ /\ scheduled' = events
                 /\ UNCHANGED <<running, raidList, eventOf>>
              \/ /\ running = NoRaid
                 /\ \E n \in raidList :
                      /\ StartRaid(<<n, load>>, events)
                      /\ raidList' = IF n \in Repeated THEN raidList ELSE raidList \ {n}
  /\ UNCHANGED <<load, nextEvent, outlived>>

(* Mutant: a script need not wait for the raid that is running.              *)
LuaStartRaidMutAnyTime(n) ==
  /\ n \in raidList
  /\ StartRaid(<<n, load>>, scheduled)
  /\ UNCHANGED <<load, raidList, nextEvent, checkEvent, tasks, outlived>>

(* Game.startRaid of the scripts leaves the raid on the list.                *)
LuaStartRaid(n) ==
  /\ n \in raidList
  /\ running = NoRaid
  /\ StartRaid(<<n, load>>, scheduled)
  /\ UNCHANGED <<load, raidList, nextEvent, checkEvent, tasks, outlived>>

(* Mutant: an event that fails ends the raid, but for its being the running  *)
(* one.                                                                      *)
ExecuteRaidEventMutFails(t) ==
  /\ t \in DOMAIN tasks
  /\ tasks[t] # Check
  /\ tasks' = RemoveEvents(tasks, {t})
  /\ nextEvent' = [nextEvent EXCEPT ![tasks[t].raid] = 0]
  /\ UNCHANGED <<load, raidList, running, eventOf, checkEvent, scheduled, outlived>>

(* Raid::executeRaidEvent and resetRaid.  The event may fail.                *)
ExecuteRaidEvent(t) ==
  /\ t \in DOMAIN tasks
  /\ tasks[t] # Check
  /\ tasks' = RemoveEvents(tasks, {t})
  /\ LET r == tasks[t].raid
         next == nextEvent[r] + 1
     IN  \/ /\ next < Length[r[1]]
            /\ nextEvent' = [nextEvent EXCEPT ![r] = next]
            /\ \E e \in Fresh(scheduled) :
                 /\ eventOf' = [eventOf EXCEPT ![r] = e]
                 /\ scheduled' = AddEvent(scheduled, e, [raid |-> r, index |-> next])
            /\ UNCHANGED running
         \/ /\ nextEvent' = [nextEvent EXCEPT ![r] = 0]
            /\ running' = NoRaid
            /\ UNCHANGED <<eventOf, scheduled>>
  /\ UNCHANGED <<load, raidList, checkEvent, outlived>>

(* The events that clear knows of.                                           *)
Stopped == {checkEvent} \cup {eventOf[r] : r \in raidList \X {load}}

(* Raids::reload, that is clear and loadFromXml, and startup.                *)
Reload ==
  /\ load < MaxLoad
  /\ load' = load + 1
  /\ raidList' = Name
  /\ running' = NoRaid
  /\ \E c \in Fresh(scheduled) :
       /\ checkEvent' = c
       /\ scheduled' = AddEvent(RemoveEvents(scheduled, Stopped), c, Check)
  /\ eventOf' = [r \in Raid |-> 0]   \* nobody reads those that clear leaves
  /\ outlived' = (outlived \/ tasks # [e \in {} |-> Check]
                  \/ \E e \in DOMAIN scheduled :
                       scheduled[e] # Check /\ scheduled[e].raid \notin raidList \X {load})
  /\ UNCHANGED <<nextEvent, tasks>>

RaidNext ==
  \/ \E e \in EventId : EventDue(e) \/ CheckRaids(e) \/ ExecuteRaidEvent(e)
  \/ \E n \in Name : LuaStartRaid(n)
  \/ Reload

(* The scheduler and the dispatcher go on with each event.                   *)
RaidFairness ==
  \A e \in EventId : WF_raidVars(EventDue(e) \/ CheckRaids(e) \/ ExecuteRaidEvent(e))

RaidSpec == RaidInit /\ [][RaidNext]_raidVars /\ RaidFairness

-----------------------------------------------------------------------------
RaidTypeOK ==
  /\ load \in 1 .. MaxLoad
  /\ raidList \subseteq Name
  /\ running \in Raid \cup {NoRaid}
  /\ nextEvent \in [Raid -> Nat]
  /\ eventOf \in [Raid -> EventId \cup {0}]
  /\ checkEvent \in EventId \cup {0}
  /\ DOMAIN scheduled \cup DOMAIN tasks \subseteq EventId
  /\ \A e \in DOMAIN scheduled : scheduled[e] \in Step
  /\ \A e \in DOMAIN tasks : tasks[e] \in Step
  /\ outlived \in BOOLEAN
  /\ Fresh(scheduled) # {}   \* MaxEvent hides nothing

Steps == {e \in DOMAIN scheduled : scheduled[e] # Check}
         \cup {e \in DOMAIN tasks : tasks[e] # Check}

StepAt(e) == IF e \in DOMAIN scheduled THEN scheduled[e] ELSE tasks[e]

(* One raid executes at a time, it is the running one, and its next step is  *)
(* its next event (tools.cpp: "Another raid is already executing."), unless  *)
(* a reload found a raid it could not stop.  Such a raid clears `running`    *)
(* when it ends, whoever runs by then (raids.cpp:271).                       *)
OneRaid ==
  ~outlived =>
    /\ Cardinality(Steps) <= 1
    /\ \A e \in Steps : StepAt(e).raid = running /\ StepAt(e).index = nextEvent[running]
    /\ running # NoRaid => Steps # {}
    /\ \A n \in Name : <<n, load>> # running => nextEvent[<<n, load>>] = 0

(* No raid runs for ever, so that another one may follow, with or without a  *)
(* reload.  A raid without events, which the loader accepts, would.  There   *)
(* is always an identifier for the next event, so MaxEvent ends none.        *)
RaidsEnd == []RaidTypeOK /\ []<>(running = NoRaid)
=============================================================================
