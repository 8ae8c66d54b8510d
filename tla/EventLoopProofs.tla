-------------------------- MODULE EventLoopProofs ---------------------------
(***************************************************************************)
(* Theorems about EventLoop, for every set of tasks and events, every delay *)
(* and every bound of the clock and of the identifiers.                     *)
(*                                                                          *)
(* The accounting of events is not inductive by itself: why a popped event  *)
(* is due, and why a stopped one is never posted, depends on how the queue, *)
(* the set of identifiers and the identifiers that callers keep relate.     *)
(***************************************************************************)
EXTENDS EventLoop, TLAPS

(* Nobody stops a thread of this composition.                               *)
Running ==
  /\ dispatcherState = "RUNNING"
  /\ schedulerState = "RUNNING"

(* What may be in the list, and in the hands of the dispatcher thread.      *)
TaskIn(r) == r.task \in Task \/ (r.task \in Event /\ r.expiration = Never)

ListOK ==
  /\ \A i \in DOMAIN taskList : TaskIn(taskList[i])
  /\ IF dispatcherPc = "Execute"
     THEN TaskIn(current)
     ELSE current = TaskRecord(NoTask, Never)

(* A queued task carries the identifier its owner keeps and the time its    *)
(* delay ends.                                                              *)
QueueOK ==
  \A r \in eventList :
    eventId[r.task] = r.id /\ due[r.task] = r.expiration

(* Identifiers are unique among events, those in the set belong to queued   *)
(* events, and those of stopped events left it.                             *)
IdsOK ==
  /\ \A e, f \in Event : eventId[e] # 0 /\ eventId[e] = eventId[f] => e = f
  /\ \A i \in eventIds : \E r \in eventList : r.id = i
  /\ \A e \in cancelled : eventId[e] # 0 /\ eventId[e] \notin eventIds
  /\ \A r \in eventList : r.task \in cancelled \/ r.id \in eventIds

(* The thread holds an event exactly between popping and posting it.        *)
HandoverOK ==
  IF schedulerPc = "Handover" THEN handover \in EventRecords
                              ELSE handover = NoEvent

(* The sleep ends no earlier than the first event of the queue is due: it   *)
(* was computed for an event that is still queued.                          *)
SleepOK ==
  schedulerPc \in {"WaitUntil", "Woken"} =>
    \E r \in eventList : r.expiration <= wakeAt

(* An event that left the queue to be posted.                               *)
LeftQueue(e) == InHandover(e) \/ InList(e) \/ IsCurrent(e) \/ Ran(e)

LeftQueueOK ==
  \A e \in Event : LeftQueue(e) =>
    /\ eventId[e] # 0
    /\ eventId[e] \notin eventIds
    /\ due[e] <= now

IInv ==
  /\ TypeOK
  /\ Running
  /\ ListOK
  /\ QueueOK
  /\ IdsOK
  /\ HandoverOK
  /\ SleepOK
  /\ LeftQueueOK
  /\ EventsInPlace

-----------------------------------------------------------------------------
(* Putting an element in front of a sequence shifts the others by one.      *)
LEMMA PushFront ==
  ASSUME NEW S, NEW s \in Seq(S), NEW x \in S
  PROVE  LET f == <<x>> \o s
         IN /\ f \in Seq(S)
            /\ Len(f) = Len(s) + 1
            /\ f[1] = x
            /\ \A i \in 2..Len(s) + 1 : f[i] = s[i - 1]
  OBVIOUS

(* Appending an element leaves the others where they are.                   *)
LEMMA PushBack ==
  ASSUME NEW S, NEW s \in Seq(S), NEW x \in S
  PROVE  LET f == Append(s, x)
         IN /\ f \in Seq(S)
            /\ Len(f) = Len(s) + 1
            /\ f[Len(s) + 1] = x
            /\ \A i \in 1..Len(s) : f[i] = s[i]
  OBVIOUS

(* Taking the first element shifts the others back.                         *)
LEMMA PopFront ==
  ASSUME NEW S, NEW s \in Seq(S), s # <<>>
  PROVE  /\ Tail(s) \in Seq(S)
         /\ Head(s) = s[1]
         /\ Head(s) \in S
         /\ Len(s) \in Nat \ {0}
         /\ Len(Tail(s)) = Len(s) - 1
         /\ \A i \in 1..Len(s) - 1 : Tail(s)[i] = s[i + 1]
  OBVIOUS

(* The initial states satisfy the invariant.                                *)
LEMMA InitIInv == Init => IInv
<1> SUFFICES ASSUME Init PROVE IInv
  OBVIOUS
<1> USE TaskAssumption, MaxEventIdAssumption
      DEF Init, DispatcherInit, SchedulerInit
<1>1. TypeOK
  <2>1. DispatcherTypeOK
    <3>1. taskList \in Seq(TaskRecords)
      OBVIOUS
    <3>2. current \in TaskRecords
      BY DEF TaskRecords, TaskRecord, Never
    <3>3. executed \in [Task \cup Event -> Nat]
      OBVIOUS
    <3> QED
      BY <3>1, <3>2, <3>3 DEF DispatcherTypeOK, ThreadState, DispatcherPc
  <2>2. SchedulerTypeOK
    <3>1. /\ eventId \in [Event -> 0..MaxEventId]
          /\ due \in [Event -> Nat]
      OBVIOUS
    <3>2. lastEventId \in 0..MaxEventId /\ wakeAt \in Nat
      OBVIOUS
    <3>3. schedulerState \in ThreadState /\ schedulerPc \in SchedulerPc
      BY DEF ThreadState, SchedulerPc
    <3> QED
      BY <3>1, <3>2, <3>3 DEF SchedulerTypeOK
  <2> QED
    BY <2>1, <2>2 DEF TypeOK
<1>2. Running /\ ListOK /\ QueueOK /\ IdsOK /\ HandoverOK /\ SleepOK
  BY DEF Running, ListOK, QueueOK, IdsOK, HandoverOK, SleepOK
<1>3. \A e \in Event : ~LeftQueue(e) /\ ~InQueue(e)
  BY DEF LeftQueue, InHandover, InList, IsCurrent, Ran, InQueue, NoEvent,
         TaskRecord
<1>4. LeftQueueOK
  BY <1>3 DEF LeftQueueOK
<1>5. EventsInPlace
  BY <1>3 DEF EventsInPlace, OnePlace, NotLost, StoppedNeverRuns, LeftQueue
<1> QED
  BY <1>1, <1>2, <1>4, <1>5 DEF IInv

-----------------------------------------------------------------------------
(* What a step of the dispatcher's side has to show: the scheduler did not  *)
(* move, and events only moved among the list, the thread and the past.     *)
LEMMA DispatcherFrame ==
  ASSUME IInv, TypeOK', Running', ListOK', UNCHANGED <<schedulerVars, now>>,
         \A e \in Event :
           /\ InList(e)' \/ IsCurrent(e)' \/ Ran(e)'
                <=> InList(e) \/ IsCurrent(e) \/ Ran(e)
           /\ InList(e)' => ~(IsCurrent(e)' \/ Ran(e)')
           /\ IsCurrent(e)' => ~Ran(e)'
           /\ executed'[e] <= 1
           /\ \A i, j \in DOMAIN taskList' :
                taskList'[i].task = e /\ taskList'[j].task = e => i = j
  PROVE  IInv'
<1> USE DEF schedulerVars
<1>1. QueueOK' /\ IdsOK' /\ HandoverOK' /\ SleepOK'
  BY DEF IInv, QueueOK, IdsOK, HandoverOK, SleepOK
<1>2. \A e \in Event : /\ InQueue(e)' <=> InQueue(e)
                       /\ InHandover(e)' <=> InHandover(e)
                       /\ LeftQueue(e)' <=> LeftQueue(e)
  BY DEF InQueue, InHandover, LeftQueue
<1>3. LeftQueueOK'
  BY <1>2 DEF IInv, LeftQueueOK
<1>4. ASSUME NEW e \in Event
      PROVE  OnePlace(e)' /\ NotLost(e)' /\ StoppedNeverRuns(e)'
  <2>1. OnePlace(e) /\ NotLost(e) /\ StoppedNeverRuns(e)
    BY <1>4 DEF IInv, EventsInPlace
  <2>2. OnePlace(e)'
    BY <1>2, <1>4, <2>1 DEF OnePlace
  <2>3. NotLost(e)'
    BY <1>2, <1>4, <2>1 DEF NotLost
  <2>4. StoppedNeverRuns(e)'
    BY <1>2, <1>4, <2>1 DEF StoppedNeverRuns
  <2> QED
    BY <2>2, <2>3, <2>4
<1> QED
  BY <1>1, <1>3, <1>4 DEF IInv, EventsInPlace

(* What a step of the scheduler thread that only moves its program counter  *)
(* has to show.                                                             *)
LEMMA SchedulerFrame ==
  ASSUME IInv, TypeOK', HandoverOK', SleepOK',
         UNCHANGED <<dispatcherVars, now, posted, eventList, eventIds, handover,
                     schedulerState, eventId, due, cancelled>>
  PROVE  IInv'
<1> USE DEF dispatcherVars
<1>1. Running' /\ ListOK' /\ QueueOK' /\ IdsOK'
  <2>1. Running' /\ QueueOK' /\ IdsOK'
    BY DEF IInv, Running, QueueOK, IdsOK
  <2>2. ListOK'
    BY DEF IInv, ListOK, TaskIn
  <2> QED
    BY <2>1, <2>2
<1>2. \A e \in Event : /\ InQueue(e)' <=> InQueue(e)
                       /\ InHandover(e)' <=> InHandover(e)
                       /\ InList(e)' <=> InList(e)
                       /\ IsCurrent(e)' <=> IsCurrent(e)
                       /\ Ran(e)' <=> Ran(e)
  BY DEF InQueue, InHandover, InList, IsCurrent, Ran
<1>3. LeftQueueOK'
  BY <1>2 DEF IInv, LeftQueueOK, LeftQueue
<1>4. EventsInPlace'
  BY <1>2 DEF IInv, EventsInPlace, OnePlace, NotLost, StoppedNeverRuns
<1> QED
  BY <1>1, <1>3, <1>4 DEF IInv

-----------------------------------------------------------------------------
(* One lemma per action: it preserves the invariant.                        *)
LEMMA PostIInv ==
  ASSUME IInv, NEW t \in Task, Post(t)
  PROVE  IInv'
<1>1. PICK exp \in {Never} \cup {now + l : l \in Lifetime} :
        AddTask(TaskRecord(t, exp), FALSE)
  BY DEF Post
<1> DEFINE r == TaskRecord(t, exp)
<1>2. r \in TaskRecords /\ r.task = t /\ TaskIn(r) /\ t \notin Event
  BY TaskAssumption, EventLoopAssumption
     DEF IInv, TypeOK, TaskRecords, TaskRecord, TaskIn, Never
<1>3. /\ taskList' = Append(taskList, r)
      /\ dispatcherSignal' \in BOOLEAN
      /\ UNCHANGED <<dispatcherState, dispatcherPc, current, executed, dropped,
                     schedulerVars, now>>
      /\ posted' = Append(posted, t)
  BY <1>1 DEF IInv, Running, TypeOK, DispatcherTypeOK, AddTask, Post
<1>4. taskList \in Seq(TaskRecords)
  BY DEF IInv, TypeOK, DispatcherTypeOK
<1> HIDE DEF r
<1>5. /\ taskList' \in Seq(TaskRecords)
      /\ DOMAIN taskList = 1..Len(taskList)
      /\ DOMAIN taskList' = 1..Len(taskList) + 1
      /\ Len(taskList) \in Nat
      /\ taskList'[Len(taskList) + 1] = r
      /\ \A i \in 1..Len(taskList) : taskList'[i] = taskList[i]
  BY <1>2, <1>3, <1>4, PushBack
<1>6. TypeOK'
  BY <1>3, <1>5
     DEF IInv, TypeOK, DispatcherTypeOK, SchedulerTypeOK, schedulerVars
<1>7. Running' /\ ListOK'
  BY <1>2, <1>3, <1>5 DEF IInv, Running, ListOK, schedulerVars, TaskIn
<1>8. ASSUME NEW e \in Event
      PROVE  /\ InList(e)' <=> InList(e)
             /\ IsCurrent(e)' <=> IsCurrent(e)
             /\ Ran(e)' <=> Ran(e)
             /\ \A i, j \in DOMAIN taskList' :
                  taskList'[i].task = e /\ taskList'[j].task = e => i = j
  <2>1. r.task # e
    BY <1>2, <1>8
  <2>2. \A i \in DOMAIN taskList' :
          taskList'[i].task = e =>
            i \in DOMAIN taskList /\ taskList[i].task = e
    BY <1>5, <2>1
  <2>3. OnePlace(e)
    BY <1>8 DEF IInv, EventsInPlace
  <2> QED
    BY <1>3, <1>5, <2>2, <2>3 DEF InList, IsCurrent, Ran, OnePlace
<1>9. \A e \in Event : OnePlace(e) /\ executed'[e] = executed[e]
  BY <1>3 DEF IInv, EventsInPlace
<1> QED
  BY <1>3, <1>6, <1>7, <1>8, <1>9, DispatcherFrame DEF OnePlace

(* Taking a task moves it from the list into the thread's hands.            *)
LEMMA TakeIInv ==
  ASSUME IInv, DispatcherTake, UNCHANGED <<schedulerVars, now, posted>>
  PROVE  IInv'
<1>1. /\ dispatcherPc = "Loop" /\ dispatcherPc' = "Execute"
      /\ taskList # <<>> /\ taskList \in Seq(TaskRecords)
      /\ current' = Head(taskList) /\ taskList' = Tail(taskList)
      /\ current.task = NoTask
      /\ UNCHANGED <<dispatcherState, dispatcherSignal, executed, dropped,
                     schedulerVars, now, posted>>
  BY DEF IInv, TypeOK, DispatcherTypeOK, ListOK, DispatcherTake, TaskRecord
<1>2. /\ taskList' \in Seq(TaskRecords)
      /\ current' = taskList[1] /\ current' \in TaskRecords
      /\ Len(taskList) \in Nat \ {0}
      /\ DOMAIN taskList = 1..Len(taskList)
      /\ DOMAIN taskList' = 1..Len(taskList) - 1
      /\ \A i \in 1..Len(taskList) - 1 : taskList'[i] = taskList[i + 1]
  BY <1>1, PopFront
<1>3. TypeOK'
  BY <1>1, <1>2 DEF IInv, TypeOK, DispatcherTypeOK, SchedulerTypeOK,
                    schedulerVars, DispatcherPc
<1>4. Running' /\ ListOK'
  BY <1>1, <1>2 DEF IInv, Running, ListOK, schedulerVars, TaskIn
<1>5. ASSUME NEW e \in Event
      PROVE  /\ InList(e) <=> InList(e)' \/ IsCurrent(e)'
             /\ ~IsCurrent(e)
             /\ ~(InList(e)' /\ IsCurrent(e)')
             /\ Ran(e)' <=> Ran(e)
             /\ executed'[e] = executed[e]
             /\ \A i, j \in DOMAIN taskList' :
                  taskList'[i].task = e /\ taskList'[j].task = e => i = j
  <2>1. OnePlace(e) /\ e # NoTask
    BY <1>5, TaskAssumption DEF IInv, EventsInPlace
  <2>2. InList(e) => InList(e)' \/ IsCurrent(e)'
    <3>1. ASSUME NEW i \in DOMAIN taskList, taskList[i].task = e, i # 1
          PROVE  i - 1 \in DOMAIN taskList' /\ taskList'[i - 1].task = e
      BY <1>2, <3>1
    <3> QED
      BY <1>2, <3>1 DEF InList, IsCurrent
  <2>3. InList(e)' => InList(e)
    <3>1. ASSUME NEW i \in DOMAIN taskList', taskList'[i].task = e
          PROVE  i + 1 \in DOMAIN taskList /\ taskList[i + 1].task = e
      BY <1>2, <3>1
    <3> QED
      BY <3>1 DEF InList
  <2>4. IsCurrent(e)' => InList(e)
    BY <1>2 DEF IsCurrent, InList
  <2>5. ~(InList(e)' /\ IsCurrent(e)')
    <3>1. ASSUME NEW i \in DOMAIN taskList', taskList'[i].task = e,
                 taskList[1].task = e
          PROVE  FALSE
      <4>1. i + 1 \in DOMAIN taskList /\ taskList[i + 1].task = e
            /\ 1 \in DOMAIN taskList /\ i + 1 # 1
        BY <1>2, <3>1
      <4> QED
        BY <2>1, <3>1, <4>1 DEF OnePlace
    <3> QED
      BY <1>2, <3>1 DEF InList, IsCurrent
  <2>6. \A i, j \in DOMAIN taskList' :
          taskList'[i].task = e /\ taskList'[j].task = e => i = j
    <3>1. ASSUME NEW i \in DOMAIN taskList', NEW j \in DOMAIN taskList',
                 taskList'[i].task = e, taskList'[j].task = e
          PROVE  i = j
      <4>1. /\ i + 1 \in DOMAIN taskList /\ taskList[i + 1].task = e
            /\ j + 1 \in DOMAIN taskList /\ taskList[j + 1].task = e
        BY <1>2, <3>1
      <4>2. i + 1 = j + 1
        BY <2>1, <4>1 DEF OnePlace
      <4> QED
        BY <1>2, <4>2
    <3> QED
      BY <3>1
  <2> QED
    BY <1>1, <2>1, <2>2, <2>3, <2>4, <2>5, <2>6 DEF IsCurrent, Ran
<1>6. \A e \in Event : OnePlace(e)
  BY DEF IInv, EventsInPlace
<1> QED
  BY <1>1, <1>3, <1>4, <1>5, <1>6, DispatcherFrame DEF OnePlace

(* Executing a task moves it from the thread's hands into the past, unless  *)
(* it expired; an event does not expire.                                    *)
LEMMA ExecuteIInv ==
  ASSUME IInv, DispatcherExecute, UNCHANGED <<schedulerVars, now, posted>>
  PROVE  IInv'
<1>1. /\ dispatcherPc = "Execute" /\ dispatcherPc' = "Loop"
      /\ current' = TaskRecord(NoTask, Never)
      /\ UNCHANGED <<taskList, dispatcherSignal, schedulerVars, now, posted>>
      /\ TaskIn(current) /\ current \in TaskRecords
  BY DEF IInv, TypeOK, DispatcherTypeOK, ListOK, DispatcherExecute
<1>2. /\ executed' \in [Task \cup Event -> Nat]
      /\ dropped' \subseteq Task \cup Event
      /\ dispatcherState' = "RUNNING"
      /\ \A e \in Event : executed'[e] = IF current.task = e
                                       THEN executed[e] + 1 ELSE executed[e]
  <2>1. CASE HasExpired(current)
    <3>1. current.task \in Task /\ executed' = executed
      BY <1>1, <2>1 DEF TaskIn, HasExpired, DispatcherExecute
    <3> QED
      BY <1>1, <2>1, <3>1, TaskAssumption
         DEF IInv, TypeOK, DispatcherTypeOK, DispatcherExecute, Running
  <2>2. CASE ~HasExpired(current)
    <3>1. current.task # ShutdownTask
      BY <1>1, TaskAssumption DEF TaskIn
    <3>2. executed' = [t \in Task \cup Event |->
                        IF t = current.task THEN executed[t] + 1
                                            ELSE executed[t]]
      BY <2>2 DEF DispatcherExecute
    <3>3. executed' \in [Task \cup Event -> Nat]
      BY <3>2 DEF IInv, TypeOK, DispatcherTypeOK
    <3> QED
      BY <2>2, <3>1, <3>2, <3>3
         DEF DispatcherExecute, IInv, TypeOK, DispatcherTypeOK, Running
  <2> QED
    BY <2>1, <2>2
<1>3. TypeOK'
  <2>1. current' \in TaskRecords
    BY <1>1 DEF TaskRecord, TaskRecords, Never
  <2> QED
    BY <1>1, <1>2, <2>1 DEF IInv, TypeOK, DispatcherTypeOK, SchedulerTypeOK,
                            schedulerVars, DispatcherPc, ThreadState
<1>4. Running' /\ ListOK'
  BY <1>1, <1>2 DEF IInv, Running, ListOK, schedulerVars, TaskIn
<1>5. ASSUME NEW e \in Event
      PROVE  /\ InList(e)' <=> InList(e)
             /\ ~IsCurrent(e)'
             /\ Ran(e)' <=> IsCurrent(e) \/ Ran(e)
             /\ OnePlace(e)
             /\ executed'[e] <= 1
  <2>1. OnePlace(e) /\ e # NoTask /\ executed[e] \in Nat
    BY <1>5, TaskAssumption
       DEF IInv, EventsInPlace, TypeOK, DispatcherTypeOK
  <2>2. ~IsCurrent(e)' /\ (InList(e)' <=> InList(e))
    BY <1>1, <2>1 DEF IsCurrent, TaskRecord, InList
  <2>3. IsCurrent(e) => executed[e] = 0
    BY <2>1 DEF OnePlace, Ran
  <2>4. (Ran(e)' <=> IsCurrent(e) \/ Ran(e)) /\ executed'[e] <= 1
    BY <1>2, <2>1, <2>3 DEF Ran, IsCurrent, OnePlace
  <2> QED
    BY <2>1, <2>2, <2>4
<1> QED
  BY <1>1, <1>3, <1>4, <1>5, DispatcherFrame DEF OnePlace

(* Waiting, waking up and being notified only move the program counter.     *)
LEMMA DispatcherPcIInv ==
  ASSUME IInv, DispatcherWait \/ DispatcherSpuriousWake \/ NotifyDispatcher,
         UNCHANGED <<schedulerVars, now, posted>>
  PROVE  IInv'
<1>1. /\ UNCHANGED <<taskList, dispatcherState, current, executed, dropped,
                     schedulerVars, now, posted>>
      /\ dispatcherPc' = "Execute" <=> dispatcherPc = "Execute"
      /\ dispatcherPc' \in DispatcherPc
      /\ dispatcherSignal' \in BOOLEAN
  BY DEF IInv, TypeOK, DispatcherTypeOK, DispatcherPc, DispatcherWait,
         DispatcherSpuriousWake, NotifyDispatcher
<1>2. TypeOK'
  BY <1>1
     DEF IInv, TypeOK, DispatcherTypeOK, SchedulerTypeOK, schedulerVars
<1>3. Running' /\ ListOK'
  BY <1>1 DEF IInv, Running, ListOK, TaskIn, schedulerVars
<1>4. \A e \in Event : /\ InList(e)' <=> InList(e)
                       /\ IsCurrent(e)' <=> IsCurrent(e)
                       /\ Ran(e)' <=> Ran(e)
                       /\ OnePlace(e)
  BY <1>1 DEF InList, IsCurrent, Ran, IInv, EventsInPlace
<1> QED
  BY <1>1, <1>2, <1>3, <1>4, DispatcherFrame DEF OnePlace

(* addEvent: a new identifier, a new record in the queue, nothing else.      *)
LEMMA ScheduleIInv ==
  ASSUME IInv, NEW e \in Event, Schedule(e)
  PROVE  IInv'
<1>1. PICK d \in Delay : AddEvent(e, d)
  BY DEF Schedule
<1> DEFINE id == NextEventId
           r == [task |-> e, id |-> id, expiration |-> now + d]
<1>2. /\ id \in 1..MaxEventId
      /\ d \in Nat /\ now \in Nat /\ now + d \in Nat
      /\ r \in EventRecords
  BY MaxEventIdAssumption, EventLoopAssumption
     DEF IInv, TypeOK, SchedulerTypeOK, NextEventId, EventRecords
<1>3. /\ lastEventId' = id
      /\ eventId' = [eventId EXCEPT ![e] = id]
      /\ eventIds' = eventIds \cup {id}
      /\ eventList' = eventList \cup {r}
      /\ due' = [due EXCEPT ![e] = now + d]
      /\ schedulerSignal' = (schedulerSignal \/ IsTop(r, eventList \cup {r}))
      /\ UNCHANGED <<schedulerState, schedulerPc, wakeAt, handover, cancelled,
                     dispatcherVars, now, posted>>
  BY <1>1 DEF AddEvent, IInv, Running, Schedule
<1>4. eventId[e] = 0 /\ \A f \in Event : eventId[f] # id
  BY <1>2 DEF Schedule, IdSpaceNotExhausted
<1>5. /\ eventId \in [Event -> 0..MaxEventId] /\ due \in [Event -> Nat]
      /\ eventList \subseteq EventRecords
      /\ schedulerSignal \in BOOLEAN
  BY DEF IInv, TypeOK, SchedulerTypeOK
<1>6. ~InQueue(e) /\ ~LeftQueue(e) /\ e \notin cancelled
  <2>1. ~InQueue(e)
    BY <1>4, <1>5 DEF IInv, QueueOK, InQueue, EventRecords
  <2> QED
    BY <1>4, <2>1 DEF IInv, LeftQueueOK, IdsOK
<1>7. TypeOK'
  BY <1>2, <1>3, <1>5
     DEF IInv, TypeOK, DispatcherTypeOK, SchedulerTypeOK, dispatcherVars
<1>8. Running' /\ ListOK'
  BY <1>3 DEF IInv, Running, ListOK, TaskIn, dispatcherVars
<1>9. /\ eventId'[e] = id /\ due'[e] = now + d
      /\ \A f \in Event \ {e} : eventId'[f] = eventId[f] /\ due'[f] = due[f]
  BY <1>3, <1>5
<1> HIDE DEF id
<1>10. QueueOK'
  <2>1. ASSUME NEW s \in eventList'
        PROVE  eventId'[s.task] = s.id /\ due'[s.task] = s.expiration
    <3>1. CASE s = r
      BY <1>9, <3>1
    <3>2. CASE s \in eventList
      <4>1. s.task \in Event \ {e}
        BY <1>5, <1>6, <3>2 DEF InQueue, EventRecords
      <4> QED
        BY <1>9, <3>2, <4>1 DEF IInv, QueueOK
    <3> QED
      BY <1>3, <2>1, <3>1, <3>2
  <2> QED
    BY <2>1 DEF QueueOK
<1>11. IdsOK'
  <2>1. \A f, g \in Event : eventId'[f] # 0 /\ eventId'[f] = eventId'[g] => f = g
    BY <1>4, <1>9 DEF IInv, IdsOK
  <2>2. \A i \in eventIds' : \E s \in eventList' : s.id = i
    BY <1>3 DEF IInv, IdsOK
  <2>3. \A f \in cancelled' : eventId'[f] # 0 /\ eventId'[f] \notin eventIds'
    BY <1>3, <1>4, <1>5, <1>6, <1>9 DEF IInv, IdsOK, TypeOK, SchedulerTypeOK
  <2>4. \A s \in eventList' : s.task \in cancelled' \/ s.id \in eventIds'
    BY <1>3 DEF IInv, IdsOK
  <2> QED
    BY <2>1, <2>2, <2>3, <2>4 DEF IdsOK
<1>12. HandoverOK' /\ SleepOK'
  BY <1>3 DEF IInv, HandoverOK, SleepOK
<1>13. \A f \in Event : /\ InQueue(f)' <=> InQueue(f) \/ f = e
                        /\ InHandover(f)' <=> InHandover(f)
                        /\ InList(f)' <=> InList(f)
                        /\ IsCurrent(f)' <=> IsCurrent(f)
                        /\ Ran(f)' <=> Ran(f)
                        /\ LeftQueue(f)' <=> LeftQueue(f)
  BY <1>3 DEF InQueue, InHandover, InList, IsCurrent, Ran, LeftQueue,
              dispatcherVars
<1>14. LeftQueueOK'
  BY <1>3, <1>4, <1>6, <1>9, <1>13 DEF IInv, LeftQueueOK
<1>15. EventsInPlace'
  <2>1. ASSUME NEW f \in Event
        PROVE  OnePlace(f)' /\ NotLost(f)' /\ StoppedNeverRuns(f)'
    <3>1. OnePlace(f) /\ NotLost(f) /\ StoppedNeverRuns(f)
      BY DEF IInv, EventsInPlace
    <3>2. OnePlace(f)'
      BY <1>3, <1>6, <1>13, <3>1 DEF OnePlace, LeftQueue, dispatcherVars
    <3>3. NotLost(f)'
      BY <1>3, <1>9, <1>13, <3>1 DEF NotLost
    <3>4. StoppedNeverRuns(f)'
      BY <1>3, <1>13, <3>1 DEF StoppedNeverRuns
    <3> QED
      BY <3>2, <3>3, <3>4
  <2> QED
    BY <2>1 DEF EventsInPlace
<1> QED
  BY <1>7, <1>8, <1>10, <1>11, <1>12, <1>14, <1>15 DEF IInv

(* Where events are does not change in a step that leaves the queue, the    *)
(* list and both threads' hands alone.                                      *)
LEMMA PlacesUnchanged ==
  ASSUME UNCHANGED <<eventList, handover, taskList, current, executed>>
  PROVE  \A e \in Event : /\ InQueue(e)' <=> InQueue(e)
                          /\ InHandover(e)' <=> InHandover(e)
                          /\ InList(e)' <=> InList(e)
                          /\ IsCurrent(e)' <=> IsCurrent(e)
                          /\ Ran(e)' <=> Ran(e)
                          /\ LeftQueue(e)' <=> LeftQueue(e)
                          /\ OnePlace(e)' <=> OnePlace(e)
BY DEF InQueue, InHandover, InList, IsCurrent, Ran, LeftQueue, OnePlace

(* stopEvent takes one identifier out of the set.                            *)
LEMMA CancelIInv ==
  ASSUME IInv, NEW e \in Event, Cancel(e)
  PROVE  IInv'
<1>1. UNCHANGED <<eventList, lastEventId, schedulerState, schedulerPc, wakeAt,
                  handover, schedulerSignal, eventId, due, dispatcherVars, now,
                  posted>>
  BY DEF Cancel, StopEvent
<1>2. CASE eventId[e] \notin eventIds
  <2>1. UNCHANGED <<eventIds, cancelled>>
    BY <1>2 DEF Cancel, StopEvent
  <2>2. TypeOK' /\ HandoverOK' /\ SleepOK'
    BY <1>1, <2>1 DEF IInv, TypeOK, DispatcherTypeOK, SchedulerTypeOK,
                      HandoverOK, SleepOK, dispatcherVars
  <2> QED
    BY <1>1, <2>1, <2>2, SchedulerFrame
<1>3. CASE eventId[e] \in eventIds
  <2>1. /\ eventIds' = eventIds \ {eventId[e]}
        /\ cancelled' = cancelled \cup {e}
    BY <1>3 DEF Cancel, StopEvent
  <2>2. eventId[e] # 0
    BY <1>3 DEF IInv, TypeOK, SchedulerTypeOK
  <2>3. ~LeftQueue(e)
    BY <1>3 DEF IInv, LeftQueueOK
  <2>4. TypeOK'
    BY <1>1, <2>1
       DEF IInv, TypeOK, DispatcherTypeOK, SchedulerTypeOK, dispatcherVars
  <2>5. Running' /\ ListOK' /\ QueueOK' /\ HandoverOK' /\ SleepOK'
    BY <1>1 DEF IInv, Running, ListOK, TaskIn, QueueOK, HandoverOK, SleepOK,
                dispatcherVars
  <2>6. IdsOK'
    <3>1. \A s \in eventList : s.task \in Event /\ eventId[s.task] = s.id
      BY DEF IInv, TypeOK, SchedulerTypeOK, EventRecords, QueueOK
    <3>2. \A s \in eventList : s.id = eventId[e] => s.task = e
      BY <2>2, <3>1 DEF IInv, IdsOK
    <3>3. \A s \in eventList : s.task \in cancelled' \/ s.id \in eventIds'
      BY <2>1, <3>2 DEF IInv, IdsOK
    <3> QED
      BY <1>1, <2>1, <2>2, <3>3 DEF IInv, IdsOK
  <2>7. UNCHANGED <<eventList, handover, taskList, current, executed>>
    BY <1>1 DEF dispatcherVars
  <2>8. LeftQueueOK'
    BY <1>1, <2>1, <2>7, PlacesUnchanged DEF IInv, LeftQueueOK
  <2>9. EventsInPlace'
    <3>1. \A f \in Event : OnePlace(f)'
      BY <2>7, PlacesUnchanged DEF IInv, EventsInPlace
    <3>2. \A f \in Event : NotLost(f)'
      BY <1>1, <2>1, <2>7, PlacesUnchanged DEF IInv, EventsInPlace, NotLost
    <3>3. \A f \in Event : StoppedNeverRuns(f)'
      BY <2>1, <2>3, <2>7, PlacesUnchanged
         DEF IInv, EventsInPlace, StoppedNeverRuns, LeftQueue
    <3> QED
      BY <3>1, <3>2, <3>3 DEF EventsInPlace
  <2> QED
    BY <2>4, <2>5, <2>6, <2>8, <2>9 DEF IInv
<1> QED
  BY <1>2, <1>3

(* The clock only makes more events due.                                    *)
LEMMA TickIInv ==
  ASSUME IInv, Tick
  PROVE  IInv'
<1>1. /\ now' = now + 1 /\ now \in Nat
      /\ UNCHANGED <<dispatcherVars, schedulerVars, posted>>
  BY DEF Tick, IInv, TypeOK
<1>2. TypeOK'
  BY <1>1 DEF IInv, TypeOK, DispatcherTypeOK, SchedulerTypeOK, dispatcherVars,
              schedulerVars
<1>3. /\ Running' /\ ListOK' /\ QueueOK' /\ IdsOK'
      /\ HandoverOK' /\ SleepOK'
  BY <1>1 DEF IInv, Running, ListOK, TaskIn, QueueOK, IdsOK, HandoverOK, SleepOK,
              dispatcherVars, schedulerVars
<1>4. UNCHANGED <<eventList, handover, taskList, current, executed, eventIds,
                  eventId, due, cancelled>>
  BY <1>1 DEF dispatcherVars, schedulerVars
<1>5. LeftQueueOK'
  <2>1. \A e \in Event : due[e] \in Nat
    BY DEF IInv, TypeOK, SchedulerTypeOK
  <2> QED
    BY <1>1, <1>4, <2>1, PlacesUnchanged DEF IInv, LeftQueueOK
<1>6. EventsInPlace'
  BY <1>4, PlacesUnchanged
     DEF IInv, EventsInPlace, NotLost, StoppedNeverRuns
<1> QED
  BY <1>2, <1>3, <1>5, <1>6 DEF IInv

(* The steps of the scheduler thread that move its program counter only.    *)
LEMMA SchedulerPcIInv ==
  ASSUME IInv,
         \/ SchedulerCheck
         \/ SchedulerLock
         \/ SchedulerWoken
         \/ SchedulerSpuriousWake
         \/ NotifyScheduler,
         UNCHANGED <<dispatcherVars, now, posted>>
  PROVE  IInv'
<1>1. /\ UNCHANGED <<eventList, eventIds, lastEventId, schedulerState, handover,
                     eventId, due, cancelled>>
      /\ schedulerSignal' \in BOOLEAN
  BY DEF IInv, TypeOK, SchedulerTypeOK, SchedulerCheck, SchedulerLock,
         SchedulerWoken, SchedulerSpuriousWake, NotifyScheduler
<1>2. eventList \subseteq EventRecords /\ wakeAt \in Nat
      /\ schedulerPc \in SchedulerPc
  BY DEF IInv, TypeOK, SchedulerTypeOK
<1>3. /\ schedulerPc' \in SchedulerPc
      /\ wakeAt' \in Nat
      /\ schedulerPc' = "Handover" <=> schedulerPc = "Handover"
      /\ SleepOK'
  <2>1. CASE SchedulerCheck \/ SchedulerWoken
    BY <1>2, <2>1 DEF SchedulerCheck, SchedulerWoken, SchedulerPc, SleepOK
  <2>2. CASE SchedulerLock
    <3>1. \/ schedulerPc' = "Wait" /\ wakeAt' = wakeAt
          \/ \E r \in eventList : wakeAt' = r.expiration
                                /\ schedulerPc' = "WaitUntil"
      BY <2>2 DEF SchedulerLock
    <3>2. \A r \in eventList : r.expiration \in Nat
      BY <1>2 DEF EventRecords
    <3>3. schedulerPc = "Lock"
      BY <2>2 DEF SchedulerLock
    <3>4. CASE schedulerPc' = "Wait" /\ wakeAt' = wakeAt
      BY <1>2, <3>3, <3>4 DEF SchedulerPc, SleepOK
    <3>5. CASE \E r \in eventList : wakeAt' = r.expiration
                                  /\ schedulerPc' = "WaitUntil"
      BY <1>1, <3>2, <3>3, <3>5 DEF SchedulerPc, SleepOK
    <3> QED
      BY <3>1, <3>4, <3>5
  <2>3. CASE SchedulerSpuriousWake \/ NotifyScheduler
    <3>1. wakeAt' = wakeAt /\ WakeScheduler
      BY <2>3 DEF SchedulerSpuriousWake, NotifyScheduler
    <3> QED
      BY <1>1, <1>2, <3>1 DEF WakeScheduler, SchedulerPc, IInv, SleepOK
  <2> QED
    BY <2>1, <2>2, <2>3
<1>4. TypeOK' /\ HandoverOK'
  BY <1>1, <1>3
     DEF IInv, TypeOK, DispatcherTypeOK, SchedulerTypeOK, HandoverOK,
         dispatcherVars
<1> QED
  BY <1>1, <1>3, <1>4, SchedulerFrame

(* What the scheduler thread pops: a queued event that is due, although the *)
(* sleep may have been computed for another one.                            *)
LEMMA TimeoutPops ==
  ASSUME IInv, SchedulerTimeout
  PROVE  \E r \in eventList :
           /\ eventList' = eventList \ {r}
           /\ eventIds' = eventIds \ {r.id}
           /\ IF r.id \in eventIds
              THEN handover' = r /\ schedulerPc' = "Handover"
              ELSE handover' = handover /\ schedulerPc' = "Check"
           /\ r \in EventRecords
           /\ due[r.task] <= now
           /\ handover = NoEvent
<1>1. schedulerPc \in {"WaitUntil", "Woken"} /\ now >= wakeAt
  BY DEF SchedulerTimeout
<1>2. PICK s \in eventList : s.expiration <= wakeAt
  BY <1>1 DEF IInv, SleepOK
<1>3. PICK r \in eventList :
        /\ IsTop(r, eventList)
        /\ eventList' = eventList \ {r}
        /\ eventIds' = eventIds \ {r.id}
        /\ IF r.id \in eventIds
           THEN handover' = r /\ schedulerPc' = "Handover"
           ELSE schedulerPc' = "Check" /\ UNCHANGED handover
  BY <1>2 DEF SchedulerTimeout
<1>4. r \in EventRecords /\ s \in EventRecords /\ wakeAt \in Nat /\ now \in Nat
  BY <1>2, <1>3 DEF IInv, TypeOK, SchedulerTypeOK
<1>5. r.expiration <= s.expiration
  BY <1>2, <1>3 DEF IsTop
<1>6. due[r.task] = r.expiration
  BY <1>3 DEF IInv, QueueOK
<1>7. due[r.task] <= now
  BY <1>1, <1>2, <1>4, <1>5, <1>6 DEF EventRecords
<1>8. handover = NoEvent
  BY <1>1 DEF IInv, HandoverOK
<1> QED
  BY <1>3, <1>4, <1>7, <1>8

(* Popping an event moves it from the queue into the thread's hands, or     *)
(* deletes it when it was stopped.                                          *)
LEMMA TimeoutIInv ==
  ASSUME IInv, SchedulerTimeout, UNCHANGED <<dispatcherVars, now, posted>>
  PROVE  IInv'
<1>1. PICK r \in eventList :
        /\ eventList' = eventList \ {r}
        /\ eventIds' = eventIds \ {r.id}
        /\ IF r.id \in eventIds
           THEN handover' = r /\ schedulerPc' = "Handover"
           ELSE handover' = handover /\ schedulerPc' = "Check"
        /\ r \in EventRecords
        /\ due[r.task] <= now
        /\ handover = NoEvent
  BY TimeoutPops
<1>2. /\ UNCHANGED <<lastEventId, schedulerState, schedulerSignal, eventId, due,
                     cancelled, dispatcherVars, now, posted>>
      /\ wakeAt' = 0
  BY DEF SchedulerTimeout
<1> DEFINE x == r.task
<1>3. /\ x \in Event /\ eventId[x] = r.id /\ r.id # 0
      /\ r.expiration \in Nat /\ x # NoTask
  BY <1>1, TaskAssumption DEF IInv, QueueOK, EventRecords
<1>4. \A s \in eventList : /\ s \in EventRecords
                          /\ s.task \in Event /\ eventId[s.task] = s.id
                          /\ due[s.task] = s.expiration
  BY DEF IInv, TypeOK, SchedulerTypeOK, EventRecords, QueueOK
<1>5. \A s \in eventList : s.task = x \/ s.id = r.id => s = r
  <2>1. ASSUME NEW s \in eventList, s.task = x \/ s.id = r.id
        PROVE  s = r
    <3>1. s.task = r.task
      BY <1>3, <1>4, <2>1 DEF IInv, IdsOK
    <3>2. s.id = r.id /\ s.expiration = r.expiration
      BY <1>1, <1>4, <2>1, <3>1
    <3> QED
      BY <1>1, <1>4, <2>1, <3>1, <3>2 DEF EventRecords
  <2> QED
    BY <2>1
<1>6. InQueue(x) /\ ~LeftQueue(x)
  <2>1. InQueue(x)
    BY <1>1 DEF InQueue
  <2> QED
    BY <1>3, <2>1 DEF IInv, EventsInPlace, OnePlace, LeftQueue
<1>7. TypeOK'
  BY <1>1, <1>2 DEF IInv, TypeOK, DispatcherTypeOK, SchedulerTypeOK,
                    dispatcherVars, SchedulerPc
<1>8. Running' /\ ListOK' /\ SleepOK'
  BY <1>1, <1>2 DEF IInv, Running, ListOK, TaskIn, SleepOK, dispatcherVars
<1>9. QueueOK' /\ HandoverOK'
  BY <1>1, <1>2 DEF IInv, QueueOK, HandoverOK
<1>10. IdsOK'
  <2>1. \A i \in eventIds' : \E s \in eventList' : s.id = i
    BY <1>1 DEF IInv, IdsOK
  <2>2. \A s \in eventList' : s.task \in cancelled' \/ s.id \in eventIds'
    BY <1>1, <1>2, <1>5 DEF IInv, IdsOK
  <2> QED
    BY <1>1, <1>2, <2>1, <2>2 DEF IInv, IdsOK
<1>11. ASSUME NEW e \in Event, e # x
       PROVE  /\ InQueue(e)' <=> InQueue(e)
              /\ InHandover(e)' <=> InHandover(e)
  BY <1>1, <1>11, TaskAssumption DEF InQueue, InHandover, NoEvent
<1>12. \A e \in Event : /\ InList(e)' <=> InList(e)
                        /\ IsCurrent(e)' <=> IsCurrent(e)
                        /\ Ran(e)' <=> Ran(e)
  BY <1>2 DEF InList, IsCurrent, Ran, dispatcherVars
<1>13. /\ ~InQueue(x)'
       /\ InHandover(x)' <=> r.id \in eventIds
  BY <1>1, <1>3, <1>5 DEF InQueue, InHandover, NoEvent
<1>14. r.id \in eventIds \/ x \in cancelled
  BY <1>1 DEF IInv, IdsOK
<1>15. LeftQueueOK'
  <2>1. ASSUME NEW e \in Event, LeftQueue(e)'
        PROVE  /\ eventId'[e] # 0
               /\ eventId'[e] \notin eventIds'
               /\ due'[e] <= now'
    <3>1. CASE e = x
      BY <1>1, <1>2, <1>3, <3>1
    <3>2. CASE e # x
      <4>1. LeftQueue(e)' <=> LeftQueue(e)
        BY <1>11, <1>12, <2>1, <3>2 DEF LeftQueue
      <4>2. eventId[e] # 0 /\ eventId[e] \notin eventIds /\ due[e] <= now
        BY <2>1, <4>1 DEF IInv, LeftQueueOK
      <4> QED
        BY <1>1, <1>2, <4>2
    <3> QED
      BY <3>1, <3>2
  <2> QED
    BY <2>1 DEF LeftQueueOK
<1>16. EventsInPlace'
  <2>1. ASSUME NEW e \in Event
        PROVE  OnePlace(e)' /\ NotLost(e)' /\ StoppedNeverRuns(e)'
    <3>1. OnePlace(e) /\ NotLost(e) /\ StoppedNeverRuns(e)
      BY DEF IInv, EventsInPlace
    <3>2. taskList' = taskList /\ executed' = executed
      BY <1>2 DEF dispatcherVars
    <3>3. CASE e = x
      <4>1. OnePlace(e)'
        BY <1>6, <1>12, <1>13, <3>1, <3>2, <3>3 DEF OnePlace, LeftQueue
      <4>2. NotLost(e)'
        BY <1>2, <1>13, <1>14, <3>3 DEF NotLost
      <4>3. e \in cancelled => r.id \notin eventIds
        BY <1>3, <3>3 DEF IInv, IdsOK
      <4>4. StoppedNeverRuns(e)'
        BY <1>2, <1>6, <1>12, <1>13, <3>3, <4>3
           DEF StoppedNeverRuns, LeftQueue
      <4> QED
        BY <4>1, <4>2, <4>4
    <3>4. CASE e # x
      <4>1. /\ InQueue(e)' <=> InQueue(e)
            /\ InHandover(e)' <=> InHandover(e)
        BY <1>11, <2>1, <3>4
      <4>2. OnePlace(e)'
        BY <1>12, <2>1, <3>1, <3>2, <4>1 DEF OnePlace
      <4>3. NotLost(e)' /\ StoppedNeverRuns(e)'
        BY <1>2, <1>12, <2>1, <3>1, <4>1 DEF NotLost, StoppedNeverRuns
      <4> QED
        BY <4>2, <4>3
    <3> QED
      BY <3>3, <3>4
  <2> QED
    BY <2>1 DEF EventsInPlace
<1> QED
  BY <1>7, <1>8, <1>9, <1>10, <1>15, <1>16 DEF IInv

(* Posting the event moves it from the scheduler thread's hands to the      *)
(* front of the list.                                                       *)
LEMMA HandoverIInv ==
  ASSUME IInv, HandoverStep
  PROVE  IInv'
<1> DEFINE x == handover.task
           r == TaskRecord(x, Never)
<1>1. /\ schedulerPc = "Handover" /\ handover \in EventRecords
      /\ x \in Event /\ x # NoTask
  BY TaskAssumption
     DEF HandoverStep, SchedulerHandover, IInv, HandoverOK, EventRecords
<1>2. r \in TaskRecords /\ TaskIn(r) /\ r.task = x
  BY <1>1 DEF TaskRecords, TaskRecord, TaskIn, Never
<1>3. /\ taskList' = <<r>> \o taskList
      /\ dispatcherSignal' \in BOOLEAN
      /\ handover' = NoEvent
      /\ schedulerPc' = "Check"
      /\ UNCHANGED <<dispatcherState, dispatcherPc, current, executed, dropped,
                     eventList, eventIds, lastEventId, schedulerState, wakeAt,
                     schedulerSignal, eventId, due, cancelled, now, posted>>
  BY DEF HandoverStep, SchedulerHandover, AddTask, IInv, Running, TypeOK,
         DispatcherTypeOK
<1>4. taskList \in Seq(TaskRecords)
  BY DEF IInv, TypeOK, DispatcherTypeOK
<1> HIDE DEF r
<1>5. /\ taskList' \in Seq(TaskRecords)
      /\ Len(taskList) \in Nat
      /\ DOMAIN taskList = 1..Len(taskList)
      /\ DOMAIN taskList' = 1..Len(taskList) + 1
      /\ taskList'[1] = r
      /\ \A i \in 2..Len(taskList) + 1 : taskList'[i] = taskList[i - 1]
  BY <1>2, <1>3, <1>4, PushFront
<1>6. TypeOK'
  BY <1>3, <1>5 DEF IInv, TypeOK, DispatcherTypeOK, SchedulerTypeOK, SchedulerPc
<1>7. ListOK'
  BY <1>2, <1>3, <1>5 DEF IInv, ListOK, TaskIn
<1>8. Running' /\ QueueOK' /\ IdsOK' /\ HandoverOK' /\ SleepOK'
  BY <1>3 DEF IInv, Running, QueueOK, IdsOK, HandoverOK, SleepOK
<1>9. /\ InHandover(x)
      /\ eventId[x] # 0 /\ eventId[x] \notin eventIds /\ due[x] <= now
  BY <1>1 DEF InHandover, IInv, LeftQueueOK, LeftQueue
<1>10. ASSUME NEW e \in Event
       PROVE  /\ ~InHandover(e)'
              /\ InHandover(e) <=> e = x
              /\ InList(e)' <=> InList(e) \/ e = x
              /\ InQueue(e)' <=> InQueue(e)
              /\ IsCurrent(e)' <=> IsCurrent(e)
              /\ Ran(e)' <=> Ran(e)
  <2>1. e # NoTask
    BY <1>10, TaskAssumption
  <2>2. InList(e) => InList(e)'
    <3>1. ASSUME NEW i \in DOMAIN taskList, taskList[i].task = e
          PROVE  i + 1 \in DOMAIN taskList' /\ taskList'[i + 1].task = e
      BY <1>5, <3>1
    <3> QED
      BY <3>1 DEF InList
  <2>3. InList(e)' => InList(e) \/ e = x
    <3>1. ASSUME NEW i \in DOMAIN taskList', taskList'[i].task = e, e # x
          PROVE  i - 1 \in DOMAIN taskList /\ taskList[i - 1].task = e
      BY <1>2, <1>5, <3>1
    <3> QED
      BY <3>1 DEF InList
  <2>4. e = x => InList(e)'
    BY <1>2, <1>5 DEF InList
  <2> QED
    BY <1>3, <2>1, <2>2, <2>3, <2>4
       DEF InHandover, InQueue, IsCurrent, Ran, NoEvent
<1>11. ASSUME NEW e \in Event
       PROVE  OnePlace(e)' /\ NotLost(e)' /\ StoppedNeverRuns(e)'
  <2>1. OnePlace(e) /\ NotLost(e) /\ StoppedNeverRuns(e)
    BY <1>11 DEF IInv, EventsInPlace
  <2>2. \A i, j \in DOMAIN taskList' :
          taskList'[i].task = e /\ taskList'[j].task = e => i = j
    <3>1. ASSUME NEW i \in DOMAIN taskList', NEW j \in DOMAIN taskList',
                 taskList'[i].task = e, taskList'[j].task = e
          PROVE  i = j
      <4>1. CASE e = x
        <5>1. ~InList(e)
          BY <1>10, <2>1, <4>1 DEF OnePlace
        <5>2. \A k \in DOMAIN taskList' : taskList'[k].task = e => k = 1
          <6>1. ASSUME NEW k \in DOMAIN taskList', taskList'[k].task = e, k # 1
                PROVE  k - 1 \in DOMAIN taskList /\ taskList[k - 1].task = e
            BY <1>5, <6>1
          <6> QED
            BY <5>1, <6>1 DEF InList
        <5> QED
          BY <3>1, <5>2
      <4>2. CASE e # x
        <5>1. i # 1 /\ j # 1
          BY <1>2, <1>5, <3>1, <4>2
        <5>2. /\ i - 1 \in DOMAIN taskList /\ taskList[i - 1].task = e
              /\ j - 1 \in DOMAIN taskList /\ taskList[j - 1].task = e
          BY <1>5, <3>1, <5>1
        <5>3. i - 1 = j - 1
          BY <2>1, <5>2 DEF OnePlace
        <5> QED
          BY <1>5, <5>3
      <4> QED
        BY <4>1, <4>2
    <3> QED
      BY <3>1
  <2>3. OnePlace(e)'
    BY <1>3, <1>10, <2>1, <2>2 DEF OnePlace
  <2>4. NotLost(e)' /\ StoppedNeverRuns(e)'
    BY <1>3, <1>10, <2>1 DEF NotLost, StoppedNeverRuns
  <2> QED
    BY <2>3, <2>4
<1>12. ASSUME NEW e \in Event, LeftQueue(e)'
       PROVE  eventId'[e] # 0 /\ eventId'[e] \notin eventIds' /\ due'[e] <= now'
  <2>1. LeftQueue(e)
    BY <1>10, <1>12 DEF LeftQueue
  <2> QED
    BY <1>3, <1>12, <2>1 DEF IInv, LeftQueueOK
<1> QED
  BY <1>6, <1>7, <1>8, <1>11, <1>12 DEF IInv, EventsInPlace, LeftQueueOK

(* A step that changes nothing.                                             *)
LEMMA StutterIInv ==
  ASSUME IInv, UNCHANGED vars
  PROVE  IInv'
<1>1. UNCHANGED <<dispatcherVars, schedulerVars, now, posted>>
  BY DEF vars
<1>2. TypeOK' /\ HandoverOK' /\ SleepOK'
  BY <1>1 DEF IInv, TypeOK, DispatcherTypeOK, SchedulerTypeOK, HandoverOK,
              SleepOK, dispatcherVars, schedulerVars
<1> QED
  BY <1>1, <1>2, SchedulerFrame DEF schedulerVars

-----------------------------------------------------------------------------
(* The invariant is inductive.                                              *)
LEMMA NextIInv == IInv /\ [Next]_vars => IInv'
<1> SUFFICES ASSUME IInv, [Next]_vars PROVE IInv'
  OBVIOUS
<1>1. CASE \E t \in Task : Post(t)
  BY <1>1, PostIInv
<1>2. CASE \E e \in Event : Schedule(e) \/ Cancel(e)
  BY <1>2, ScheduleIInv, CancelIInv
<1>3. CASE Tick
  BY <1>3, TickIInv
<1>4. CASE DispatcherStep
  <2>1. UNCHANGED <<schedulerVars, now, posted>>
    BY <1>4 DEF DispatcherStep
  <2>2. CASE DispatcherTake
    BY <2>1, <2>2, TakeIInv
  <2>3. CASE DispatcherExecute
    BY <2>1, <2>3, ExecuteIInv
  <2>4. CASE DispatcherWait \/ DispatcherSpuriousWake \/ NotifyDispatcher
    BY <2>1, <2>4, DispatcherPcIInv
  <2> QED
    BY <1>4, <2>2, <2>3, <2>4 DEF DispatcherStep, DispatcherThread
<1>5. CASE SchedulerStep
  <2>1. UNCHANGED <<dispatcherVars, now, posted>>
    BY <1>5 DEF SchedulerStep
  <2>2. CASE SchedulerTimeout
    BY <2>1, <2>2, TimeoutIInv
  <2>3. CASE \/ SchedulerCheck
             \/ SchedulerLock
             \/ SchedulerWoken
             \/ SchedulerSpuriousWake
             \/ NotifyScheduler
    BY <2>1, <2>3, SchedulerPcIInv
  <2> QED
    BY <1>5, <2>2, <2>3 DEF SchedulerStep
<1>6. CASE HandoverStep
  BY <1>6, HandoverIInv
<1>7. CASE UNCHANGED vars
  BY <1>7, StutterIInv
<1> QED
  BY <1>1, <1>2, <1>3, <1>4, <1>5, <1>6, <1>7 DEF Next

(* Every reachable state of the event loop satisfies the invariant.         *)
THEOREM Invariance == Safety => []IInv
<1>1. Init => IInv
  BY InitIInv
<1>2. IInv /\ [Next]_vars => IInv'
  BY NextIInv
<1> QED
  BY <1>1, <1>2, PTL DEF Safety

(* Type correctness of the two threads' state (tasks.h, scheduler.h).       *)
THEOREM TypeCorrect == Spec => []TypeOK
<1>1. IInv => TypeOK
  BY DEF IInv
<1> QED
  BY <1>1, Invariance, PTL DEF Spec

(* No event is lost, called twice, or called after stopEvent said that it   *)
(* was stopped (scheduler.cpp: threadMain, addEvent, stopEvent).            *)
THEOREM EventsAccountedFor == Spec => []EventAccounting
<1>1. IInv => EventAccounting
  BY DEF IInv, EventAccounting
<1> QED
  BY <1>1, Invariance, PTL DEF Spec

(* No event is posted before its delay has passed, whatever was inserted    *)
(* while the thread slept (scheduler.cpp: threadMain).                      *)
THEOREM EventsNeverEarly == Spec => []NeverEarly
<1>1. IInv => NeverEarly
  BY DEF IInv, LeftQueueOK, LeftQueue, NeverEarly
<1> QED
  BY <1>1, Invariance, PTL DEF Spec

-----------------------------------------------------------------------------
(* The order of the tasks, of which each is posted once.                     *)
PostedOnce ==
  \A k, l \in DOMAIN posted : posted[k] = posted[l] => k = l

FifoInv == IInv /\ PostedOnce /\ FifoOrder

(* A task goes to the end of both.                                           *)
LEMMA PostFifo ==
  ASSUME FifoInv, NEW t \in Task, Post(t)
  PROVE  PostedOnce' /\ FifoOrder'
<1>1. PICK r \in TaskRecords :
        /\ r.task = t
        /\ taskList' = Append(taskList, r)
  <2>1. PICK exp \in {Never} \cup {now + l : l \in Lifetime} :
          AddTask(TaskRecord(t, exp), FALSE)
    BY DEF Post
  <2> DEFINE r == TaskRecord(t, exp)
  <2>2. r \in TaskRecords /\ r.task = t
    BY EventLoopAssumption
       DEF FifoInv, IInv, TypeOK, TaskRecords, TaskRecord, Never
  <2>3. taskList' = Append(taskList, r)
    BY <2>1 DEF FifoInv, IInv, Running, AddTask
  <2> QED
    BY <2>2, <2>3
<1>2. taskList \in Seq(TaskRecords) /\ posted \in Seq(Task)
  BY DEF FifoInv, IInv, TypeOK, DispatcherTypeOK
<1>3. posted' = Append(posted, t)
  BY DEF Post
<1>4. \A k \in DOMAIN posted : posted[k] # t
  BY DEF Post, IsPosted
<1> DEFINE n == Len(taskList)
           m == Len(posted)
<1>5. /\ n \in Nat /\ DOMAIN taskList = 1 .. n /\ DOMAIN taskList' = 1 .. n + 1
      /\ \A i \in 1 .. n : taskList'[i] = taskList[i]
      /\ taskList'[n + 1] = r
  BY <1>1, <1>2, PushBack
<1>6. /\ m \in Nat /\ DOMAIN posted = 1 .. m /\ DOMAIN posted' = 1 .. m + 1
      /\ \A k \in 1 .. m : posted'[k] = posted[k]
      /\ posted'[m + 1] = t
  BY <1>2, <1>3, PushBack
<1> HIDE DEF n, m
<1>7. PostedOnce'
  BY <1>4, <1>6 DEF FifoInv, PostedOnce
(* The new task was in neither.                                              *)
<1>8. \A i \in 1 .. n : taskList[i].task # t
  BY <1>2, <1>4, <1>5 DEF FifoInv, FifoOrder, Holds
<1>9. \A i \in 1 .. n + 1, k \in 1 .. m + 1 :
        Holds(i, k)' <=> \/ i = n + 1 /\ k = m + 1
                         \/ i \in 1 .. n /\ k \in 1 .. m /\ Holds(i, k)
  <2> SUFFICES ASSUME NEW i \in 1 .. n + 1, NEW k \in 1 .. m + 1
               PROVE  Holds(i, k)' <=>
                        \/ i = n + 1 /\ k = m + 1
                        \/ i \in 1 .. n /\ k \in 1 .. m /\ Holds(i, k)
    OBVIOUS
  <2>1. i = n + 1 \/ i \in 1 .. n
    BY <1>5
  <2>2. k = m + 1 \/ k \in 1 .. m
    BY <1>6
  <2>3. n + 1 \notin 1 .. n /\ m + 1 \notin 1 .. m
    BY <1>5, <1>6
  <2> QED
    BY <1>1, <1>4, <1>5, <1>6, <1>8, <2>1, <2>2, <2>3 DEF Holds
<1>10. ASSUME NEW i \in 1 .. n + 1, taskList'[i].task \in Task
       PROVE  \E k \in 1 .. m + 1 : Holds(i, k)'
  <2>1. CASE i = n + 1
    <3>1. m + 1 \in 1 .. m + 1
      BY <1>6
    <3> QED
      BY <1>9, <2>1, <3>1
  <2>2. CASE i \in 1 .. n
    <3>1. PICK k \in 1 .. m : Holds(i, k)
      BY <1>5, <1>6, <1>10, <2>2 DEF FifoInv, FifoOrder
    <3>2. k \in 1 .. m + 1
      BY <1>6
    <3> QED
      BY <1>9, <2>2, <3>1, <3>2
  <2> QED
    BY <1>5, <2>1, <2>2
<1>11. ASSUME NEW i \in 1 .. n + 1, NEW j \in 1 .. n + 1, NEW k \in 1 .. m + 1,
              Holds(i, k)', Holds(j, k)'
       PROVE  i = j
  <2>1. \A x \in 1 .. m : x # m + 1
    BY <1>6
  <2> QED
    BY <1>5, <1>6, <1>9, <1>11, <2>1 DEF FifoInv, FifoOrder
<1>12. ASSUME NEW i \in 1 .. n + 1, NEW k \in 1 .. m + 1, NEW l \in 1 .. m + 1,
              k < l, Holds(i, k)'
       PROVE  \E j \in 1 .. n + 1 : i < j /\ Holds(j, l)'
  <2>1. i \in 1 .. n /\ k \in 1 .. m /\ Holds(i, k)
    <3>1. k # m + 1
      BY <1>6, <1>12
    <3> QED
      BY <1>9, <1>12, <3>1
  <2>2. CASE l = m + 1
    <3>1. n + 1 \in 1 .. n + 1 /\ i < n + 1
      BY <1>5, <2>1
    <3> QED
      BY <1>9, <2>2, <3>1
  <2>3. CASE l \in 1 .. m
    <3>1. PICK j \in 1 .. n : i < j /\ Holds(j, l)
      BY <1>5, <1>6, <1>12, <2>1, <2>3 DEF FifoInv, FifoOrder
    <3>2. j \in 1 .. n + 1
      BY <1>5
    <3> QED
      BY <1>9, <2>3, <3>1, <3>2
  <2> QED
    BY <1>6, <2>2, <2>3
<1>13. FifoOrder'
  BY <1>5, <1>6, <1>10, <1>11, <1>12 DEF FifoOrder
<1> QED
  BY <1>7, <1>13

(* The rest of the list is in order without its head.                        *)
LEMMA TakeFifo ==
  ASSUME FifoInv, taskList # <<>>, taskList' = Tail(taskList), UNCHANGED posted
  PROVE  FifoOrder'
<1> DEFINE n == Len(taskList)
<1>1. taskList \in Seq(TaskRecords) /\ posted \in Seq(Task)
  BY DEF FifoInv, IInv, TypeOK, DispatcherTypeOK
<1>2. /\ n \in Nat \ {0} /\ DOMAIN taskList = 1 .. n
      /\ DOMAIN taskList' = 1 .. n - 1
      /\ \A i \in 1 .. n - 1 : taskList'[i] = taskList[i + 1]
  BY <1>1, PopFront
<1> HIDE DEF n
<1>3. \A i \in 1 .. n - 1 :
        i + 1 \in 1 .. n /\ \A k : Holds(i, k)' <=> Holds(i + 1, k)
  BY <1>2 DEF Holds
<1>4. ASSUME NEW i \in 1 .. n - 1, NEW k \in DOMAIN posted, NEW l \in DOMAIN posted,
             k < l, Holds(i, k)'
      PROVE  \E j \in 1 .. n - 1 : i < j /\ Holds(j, l)'
  <2>1. PICK j \in 1 .. n : i + 1 < j /\ Holds(j, l)
    BY <1>2, <1>3, <1>4 DEF FifoInv, FifoOrder
  <2>2. j - 1 \in 1 .. n - 1 /\ i < j - 1 /\ (j - 1) + 1 = j
    BY <1>2, <2>1
  <2> QED
    BY <1>3, <2>1, <2>2
<1>5. ASSUME NEW i \in 1 .. n - 1, NEW j \in 1 .. n - 1, NEW k \in DOMAIN posted,
             Holds(i, k)', Holds(j, k)'
      PROVE  i = j
  <2>1. i + 1 = j + 1
    BY <1>2, <1>3, <1>5 DEF FifoInv, FifoOrder
  <2> QED
    BY <1>2, <2>1
<1>6. ASSUME NEW i \in 1 .. n - 1, taskList'[i].task \in Task
      PROVE  \E k \in DOMAIN posted : Holds(i, k)'
  BY <1>2, <1>3, <1>6 DEF FifoInv, FifoOrder
<1> QED
  BY <1>2, <1>4, <1>5, <1>6 DEF FifoOrder

(* An event goes to the front, and is no task.                               *)
LEMMA PushFifo ==
  ASSUME FifoInv, NEW r \in TaskRecords, r.task \notin Task,
         taskList' = <<r>> \o taskList, UNCHANGED posted
  PROVE  FifoOrder'
<1> DEFINE n == Len(taskList)
<1>1. taskList \in Seq(TaskRecords) /\ posted \in Seq(Task)
  BY DEF FifoInv, IInv, TypeOK, DispatcherTypeOK
<1>2. /\ n \in Nat /\ DOMAIN taskList = 1 .. n
      /\ DOMAIN taskList' = 1 .. n + 1
      /\ taskList'[1] = r
      /\ \A i \in 2 .. n + 1 : taskList'[i] = taskList[i - 1]
  BY <1>1, PushFront
<1> HIDE DEF n
<1>3. \A k \in DOMAIN posted : posted[k] \in Task
  BY <1>1
<1>4. \A i \in 1 .. n + 1, k \in DOMAIN posted :
        Holds(i, k)' => i \in 2 .. n + 1 /\ i - 1 \in 1 .. n /\ Holds(i - 1, k)
  <2> SUFFICES ASSUME NEW i \in 1 .. n + 1, NEW k \in DOMAIN posted, Holds(i, k)'
               PROVE  i \in 2 .. n + 1 /\ i - 1 \in 1 .. n /\ Holds(i - 1, k)
    OBVIOUS
  <2>1. i # 1
    BY <1>2, <1>3 DEF Holds
  <2>2. i \in 2 .. n + 1 /\ i - 1 \in 1 .. n
    BY <1>2, <2>1
  <2> QED
    BY <1>2, <2>2 DEF Holds
<1>5. \A i \in 1 .. n, k \in DOMAIN posted :
        Holds(i, k) => i + 1 \in 1 .. n + 1 /\ Holds(i + 1, k)'
  <2> SUFFICES ASSUME NEW i \in 1 .. n, NEW k \in DOMAIN posted, Holds(i, k)
               PROVE  i + 1 \in 1 .. n + 1 /\ Holds(i + 1, k)'
    OBVIOUS
  <2>1. i + 1 \in 2 .. n + 1 /\ i + 1 \in 1 .. n + 1 /\ (i + 1) - 1 = i
    BY <1>2
  <2> QED
    BY <1>2, <2>1 DEF Holds
<1>6. ASSUME NEW i \in 1 .. n + 1, NEW k \in DOMAIN posted, NEW l \in DOMAIN posted,
             k < l, Holds(i, k)'
      PROVE  \E j \in 1 .. n + 1 : i < j /\ Holds(j, l)'
  <2>1. PICK j \in 1 .. n : i - 1 < j /\ Holds(j, l)
    BY <1>2, <1>4, <1>6 DEF FifoInv, FifoOrder
  <2>2. i < j + 1
    BY <1>2, <2>1
  <2> QED
    BY <1>5, <2>1, <2>2
<1>7. ASSUME NEW i \in 1 .. n + 1, NEW j \in 1 .. n + 1, NEW k \in DOMAIN posted,
             Holds(i, k)', Holds(j, k)'
      PROVE  i = j
  <2>1. /\ i - 1 \in 1 .. n /\ Holds(i - 1, k)
        /\ j - 1 \in 1 .. n /\ Holds(j - 1, k)
    BY <1>4, <1>7
  <2>2. i - 1 = j - 1
    BY <1>2, <2>1 DEF FifoInv, FifoOrder
  <2> QED
    BY <1>2, <2>2
<1>8. ASSUME NEW i \in 1 .. n + 1, taskList'[i].task \in Task
      PROVE  \E k \in DOMAIN posted : Holds(i, k)'
  <2>1. i # 1
    BY <1>2, <1>8
  <2>2. i \in 2 .. n + 1 /\ i - 1 \in 1 .. n /\ (i - 1) + 1 = i
    BY <1>2, <2>1
  <2>3. PICK k \in DOMAIN posted : Holds(i - 1, k)
    BY <1>2, <1>8, <2>2 DEF FifoInv, FifoOrder
  <2> QED
    BY <1>5, <2>2, <2>3
<1> QED
  BY <1>2, <1>6, <1>7, <1>8 DEF FifoOrder

(* Only these three steps change what waits.                                 *)
LEMMA NextFifo == FifoInv /\ [Next]_vars => FifoInv'
<1> SUFFICES ASSUME FifoInv, [Next]_vars PROVE FifoInv'
  OBVIOUS
<1>1. IInv'
  BY NextIInv DEF FifoInv
<1>2. ASSUME NEW t \in Task, Post(t) PROVE PostedOnce' /\ FifoOrder'
  BY <1>2, PostFifo
<1>3. UNCHANGED posted => PostedOnce'
  BY DEF FifoInv, PostedOnce
<1>4. UNCHANGED <<posted, taskList>> => FifoOrder'
  BY DEF FifoInv, FifoOrder, Holds
<1>5. CASE DispatcherTake /\ UNCHANGED posted
  <2>1. taskList # <<>> /\ taskList' = Tail(taskList) /\ UNCHANGED posted
    BY <1>5 DEF DispatcherTake
  <2>2. FifoOrder'
    BY <2>1, TakeFifo
  <2> QED
    BY <1>1, <1>3, <2>1, <2>2 DEF FifoInv
<1>6. CASE HandoverStep
  <2>1. handover \in EventRecords /\ handover.task \in Event
    BY <1>6 DEF HandoverStep, SchedulerHandover, FifoInv, IInv, HandoverOK,
                EventRecords
  <2> DEFINE r == TaskRecord(handover.task, Never)
  <2>2. r \in TaskRecords /\ r.task \notin Task
    BY <2>1, TaskAssumption DEF TaskRecords, TaskRecord, Never
  <2>3. taskList' = <<r>> \o taskList /\ UNCHANGED posted
    BY <1>6 DEF HandoverStep, SchedulerHandover, AddTask, FifoInv, IInv, Running
  <2> HIDE DEF r
  <2>4. FifoOrder'
    BY <2>2, <2>3, PushFifo
  <2> QED
    BY <1>1, <1>3, <2>3, <2>4 DEF FifoInv
<1>7. \/ \E t \in Task : Post(t)
      \/ DispatcherTake /\ UNCHANGED posted
      \/ HandoverStep
      \/ UNCHANGED <<posted, taskList>>
  BY DEF Next, Schedule, Cancel, Tick, DispatcherStep, DispatcherThread,
         DispatcherWait, DispatcherExecute, DispatcherSpuriousWake,
         NotifyDispatcher, SchedulerStep, vars, dispatcherVars
<1> QED
  BY <1>1, <1>2, <1>3, <1>4, <1>5, <1>6, <1>7 DEF FifoInv

(* The tasks that other threads post are waiting in the order in which they  *)
(* were posted, whatever events jump the queue (tasks.cpp: addTask).         *)
THEOREM TasksInOrder == Spec => []FifoOrder
<1>1. Init => FifoInv
  <2> SUFFICES ASSUME Init PROVE FifoInv
    OBVIOUS
  <2>1. taskList = <<>> /\ posted = <<>>
    BY DEF Init, DispatcherInit
  <2> QED
    BY <2>1, InitIInv DEF FifoInv, PostedOnce, FifoOrder, Holds
<1>2. FifoInv => FifoOrder
  BY DEF FifoInv
<1> QED
  BY <1>1, <1>2, NextFifo, PTL DEF Spec, Safety

-----------------------------------------------------------------------------
(* The refinement of TimerService, step by step.  Pending is the queued     *)
(* events whose identifier is still in the set; under the invariant it is   *)
(* the events that have an identifier in the set.                           *)
LEMMA PendingById == IInv => Pending = {e \in Event : eventId[e] \in eventIds}
<1> SUFFICES ASSUME IInv
             PROVE  Pending = {e \in Event : eventId[e] \in eventIds}
  OBVIOUS
<1>1. ASSUME NEW e \in Event, eventId[e] \in eventIds
      PROVE  e \in Pending
  <2>1. PICK r \in eventList : r.id = eventId[e]
    BY <1>1 DEF IInv, IdsOK
  <2>2. r.task \in Event /\ eventId[r.task] = r.id /\ r.id # 0
    BY <2>1 DEF IInv, TypeOK, SchedulerTypeOK, EventRecords, QueueOK
  <2>3. r.task = e
    BY <1>1, <2>1, <2>2 DEF IInv, IdsOK
  <2> QED
    BY <1>1, <2>1, <2>3 DEF Pending
<1>2. ASSUME NEW e \in Pending
      PROVE  e \in Event /\ eventId[e] \in eventIds
  BY <1>2 DEF Pending, IInv, QueueOK
<1> QED
  BY <1>1, <1>2 DEF Pending

(* An accepted event is pending or stopped, or it fired, and these exclude  *)
(* one another.                                                             *)
LEMMA AbstractSets ==
  IInv => /\ Pending = {e \in Event : eventId[e] \in eventIds}
          /\ Fired = {e \in Event : /\ eventId[e] # 0
                                   /\ eventId[e] \notin eventIds
                                   /\ e \notin cancelled}
          /\ 0 \notin eventIds
BY PendingById DEF Fired, IInv, TypeOK, SchedulerTypeOK

(* A step of the two threads and their callers is a step of the timer       *)
(* service, or invisible to it.                                             *)
LEMMA RefinementStep ==
  IInv /\ IInv' /\ [Next]_vars
    => [Timers!Next]_<<Pending, Fired, cancelled, due, now>>
<1> SUFFICES ASSUME IInv, IInv', [Next]_vars
             PROVE  [Timers!Next]_<<Pending, Fired, cancelled, due, now>>
  OBVIOUS
<1>1. /\ Pending = {e \in Event : eventId[e] \in eventIds}
      /\ Fired = {e \in Event : /\ eventId[e] # 0
                               /\ eventId[e] \notin eventIds
                               /\ e \notin cancelled}
      /\ 0 \notin eventIds
  BY AbstractSets
<1>2. (IInv => /\ Pending = {e \in Event : eventId[e] \in eventIds}
               /\ Fired = {e \in Event : /\ eventId[e] # 0
                                        /\ eventId[e] \notin eventIds
                                        /\ e \notin cancelled}
               /\ 0 \notin eventIds)'
  BY AbstractSets, PTL
<1>3. /\ Pending' = {e \in Event : eventId'[e] \in eventIds'}
      /\ Fired' = {e \in Event : /\ eventId'[e] # 0
                                /\ eventId'[e] \notin eventIds'
                                /\ e \notin cancelled'}
  BY <1>2
<1>4. /\ eventId \in [Event -> 0..MaxEventId] /\ due \in [Event -> Nat]
      /\ eventId' \in [Event -> 0..MaxEventId] /\ due' \in [Event -> Nat]
      /\ now \in Nat
  BY DEF IInv, TypeOK, SchedulerTypeOK
<1>5. ASSUME UNCHANGED <<eventId, eventIds, cancelled, due, now>>
      PROVE  UNCHANGED <<Pending, Fired, cancelled, due, now>>
  BY <1>1, <1>3, <1>5
<1>6. CASE \E t \in Task : Post(t)
  BY <1>5, <1>6 DEF Post, schedulerVars
<1>7. CASE DispatcherStep
  BY <1>5, <1>7 DEF DispatcherStep, schedulerVars
<1>8. CASE HandoverStep
  BY <1>5, <1>8 DEF HandoverStep, SchedulerHandover
<1>9. CASE UNCHANGED vars
  BY <1>5, <1>9 DEF vars, schedulerVars
<1>10. CASE Tick
  <2>1. UNCHANGED <<eventId, eventIds, cancelled, due>> /\ now' = now + 1
    BY <1>10 DEF Tick, schedulerVars
  <2>2. UNCHANGED <<Pending, Fired>>
    BY <1>1, <1>3, <2>1
  <2> QED
    BY <2>1, <2>2 DEF Timers!Next, Timers!Tick
<1>11. ASSUME NEW e \in Event, Schedule(e)
       PROVE  Timers!Next
  <2>1. PICK d \in Delay : AddEvent(e, d)
    BY <1>11 DEF Schedule
  <2> DEFINE id == NextEventId
  <2>2. /\ eventId' = [eventId EXCEPT ![e] = id]
        /\ eventIds' = eventIds \cup {id}
        /\ due' = [due EXCEPT ![e] = now + d]
        /\ UNCHANGED <<cancelled, now>>
        /\ eventId[e] = 0
    BY <1>11, <2>1 DEF AddEvent, IInv, Running, Schedule
  <2>3. id # 0 /\ \A f \in Event : eventId[f] # id
    <3>1. id # 0
      BY MaxEventIdAssumption
         DEF NextEventId, IInv, TypeOK, SchedulerTypeOK
    <3> QED
      BY <1>11, <3>1 DEF Schedule, IdSpaceNotExhausted
  <2>4. now + d >= now
    BY <1>4, EventLoopAssumption
  <2> HIDE DEF id
  <2>5. /\ due'[e] >= now
        /\ due' = [due EXCEPT ![e] = due'[e]]
    BY <1>4, <2>2, <2>4
  <2>6. eventId'[e] = id /\ \A f \in Event : f # e => eventId'[f] = eventId[f]
    BY <1>4, <2>2
  <2>7. e \notin cancelled
    BY <2>2 DEF IInv, IdsOK
  <2>8. e \notin Pending \cup Fired \cup cancelled
    BY <1>1, <2>2, <2>7
  <2>9. Pending' = Pending \cup {e}
    BY <1>1, <1>3, <2>2, <2>3, <2>6
  <2>10. Fired' = Fired
    BY <1>1, <1>3, <2>2, <2>3, <2>6
  <2> QED
    BY <2>2, <2>5, <2>8, <2>9, <2>10
       DEF Timers!Next, Timers!Schedule, Timers!Fresh
<1>12. ASSUME NEW e \in Event, Cancel(e)
       PROVE  [Timers!Next]_<<Pending, Fired, cancelled, due, now>>
  <2>1. UNCHANGED <<eventId, due, now>>
    BY <1>12 DEF Cancel, StopEvent
  <2>2. CASE eventId[e] \notin eventIds
    BY <1>5, <1>12, <2>1, <2>2 DEF Cancel, StopEvent
  <2>3. CASE eventId[e] \in eventIds
    <3>1. /\ eventIds' = eventIds \ {eventId[e]}
          /\ cancelled' = cancelled \cup {e}
      BY <1>12, <2>3 DEF Cancel, StopEvent
    <3>2. \A f \in Event : eventId[f] = eventId[e] => f = e
      BY <1>1, <2>3 DEF IInv, IdsOK
    <3>3. e \in Pending /\ Pending' = Pending \ {e}
      BY <1>1, <1>3, <2>1, <2>3, <3>1, <3>2
    <3>4. Fired' = Fired
      BY <1>1, <1>3, <2>1, <2>3, <3>1, <3>2
    <3> QED
      BY <2>1, <3>1, <3>3, <3>4 DEF Timers!Next, Timers!Stop
  <2> QED
    BY <2>2, <2>3
<1>13. CASE SchedulerStep
  <2>1. UNCHANGED <<eventId, due, cancelled, now>>
    BY <1>13 DEF SchedulerStep, SchedulerCheck, SchedulerLock, SchedulerWoken,
                 SchedulerTimeout, SchedulerSpuriousWake, NotifyScheduler
  <2>2. CASE ~SchedulerTimeout
    BY <1>5, <1>13, <2>1, <2>2
       DEF SchedulerStep, SchedulerCheck, SchedulerLock, SchedulerWoken,
           SchedulerSpuriousWake, NotifyScheduler
  <2>3. CASE SchedulerTimeout
    <3>1. PICK r \in eventList :
            /\ eventIds' = eventIds \ {r.id}
            /\ r \in EventRecords
            /\ due[r.task] <= now
      BY <2>3, TimeoutPops
    <3>2. CASE r.id \notin eventIds
      BY <1>5, <2>1, <3>1, <3>2
    <3>3. CASE r.id \in eventIds
      <4>1. /\ r.task \in Event
            /\ eventId[r.task] = r.id
            /\ \A f \in Event : eventId[f] = r.id => f = r.task
        BY <1>1, <3>1, <3>3 DEF EventRecords, IInv, QueueOK, IdsOK
      <4>2. r.task \notin cancelled
        BY <3>3, <4>1 DEF IInv, IdsOK
      <4>3. r.task \in Pending /\ Pending' = Pending \ {r.task}
        BY <1>1, <1>3, <2>1, <3>1, <3>3, <4>1
      <4>4. Fired' = Fired \cup {r.task}
        BY <1>1, <1>3, <2>1, <3>1, <3>3, <4>1, <4>2
      <4> QED
        BY <2>1, <3>1, <4>1, <4>3, <4>4 DEF Timers!Next, Timers!Fire
    <3> QED
      BY <3>2, <3>3
  <2> QED
    BY <2>2, <2>3
<1> QED
  BY <1>6, <1>7, <1>8, <1>9, <1>10, <1>11, <1>12, <1>13 DEF Next

(* The safety part of the refinement: every behaviour of the two threads is *)
(* one of the timer service (scheduler.cpp against TimerService).           *)
THEOREM RefinesTimers == Safety => Timers!Safety
<1>1. Init => Timers!Init
  BY DEF Init, SchedulerInit, Timers!Init, Pending, Fired
<1>2. IInv /\ IInv' /\ [Next]_vars
        => [Timers!Next]_<<Pending, Fired, cancelled, due, now>>
  BY RefinementStep
<1> QED
  BY <1>1, <1>2, Invariance, PTL DEF Safety, Timers!Safety, Timers!vars

=============================================================================
