--------------------------- MODULE SessionProofs ----------------------------
(***************************************************************************)
(* Proofs about Session.  What a step does to the tasks, the connections and *)
(* the protocols is summed up by Effect, which says for each task why it may *)
(* be added, and for each protocol which task may give it or take from it a *)
(* player.  That Effect keeps the order of tasks is shown once; of each      *)
(* action it is shown that it has such an effect, and that it keeps the      *)
(* references of players counted.                                            *)
(*                                                                           *)
(* None of the properties is inductive.  A reference is counted right only   *)
(* if no login gives a Player object to a protocol that has one, which holds *)
(* because the login, or the connect it schedules, is there once; no packet  *)
(* meets a deleted player because the release of its protocol waits behind   *)
(* it; and that needs that close, which posts the release, is the end of     *)
(* the packets.                                                              *)
(***************************************************************************)
EXTENDS Session, FiniteSetTheorems, TLAPS

-----------------------------------------------------------------------------
(* The invariant.                                                            *)

(* The i-th task that waits is of this kind and connection.                  *)
IsTask(i, op, c) ==
  i \in DOMAIN tasks /\ tasks[i].op = op /\ tasks[i].conn = c

(* login, or the connect that a login has scheduled.                         *)
IsEntry(i, c) == IsTask(i, "Login", c) \/ IsTask(i, "Connect", c)

(* The order of the tasks of one connection: onConnect and the entry come    *)
(* once, the login after onConnect, and what its packets posted before its   *)
(* release.                                                                  *)
TasksOrdered ==
  \A c \in Conn : \A i, j \in DOMAIN tasks :
    /\ IsTask(i, "OnConnect", c) /\ IsTask(j, "OnConnect", c) => i = j
    /\ IsEntry(i, c) /\ IsEntry(j, c) => i = j
    /\ ~(IsTask(i, "OnConnect", c) /\ IsTask(j, "Login", c))
    /\ IsTask(i, "Module", c) /\ IsTask(j, "Release", c) => i < j

(* A protocol that has had its first message but no player yet.              *)
Entering(c) ==
  /\ c \in receivedFirst
  /\ player[c] = None
  /\ c \notin acceptPackets

(* A login or a connect waits for a protocol that has no player and accepts  *)
(* no packets, and it is the only one that does: in the list or in the       *)
(* scheduler.                                                                *)
EntriesWait ==
  /\ \A c \in Conn : \A i \in DOMAIN tasks :
       /\ IsEntry(i, c) => Entering(c) /\ c \notin scheduled
       /\ IsTask(i, "Login", c) => stage[c] = "None"
       /\ IsTask(i, "Connect", c) => tasks[i].player \in Player
  /\ \A c \in scheduled : Entering(c) /\ eventConnect[c] \in Player

(* Before its first message a protocol has done nothing.                     *)
NotYet ==
  \A c \in Conn : c \notin receivedFirst =>
    /\ stage[c] = "None" /\ player[c] = None
    /\ c \notin acceptPackets /\ c \notin autosend

(* A release is posted by close and by nothing else, and whoever enters the  *)
(* autosend list meanwhile has it still before him.                          *)
ReleasesFollow ==
  \A c \in Conn :
    /\ \A i \in DOMAIN tasks :
         IsTask(i, "Release", c) => connectionState[c] = "Disconnected"
    /\ connectionState[c] = "Disconnected" =>
        /\ c \in autosend => \E j \in DOMAIN tasks : IsTask(j, "Release", c)
        /\ \A i \in DOMAIN tasks : IsTask(i, "Login", c) =>
             \E j \in DOMAIN tasks : IsTask(j, "Release", c) /\ i < j

(* Tasks of packets are of protocols that accept packets and bound to their  *)
(* player, and while the lock is held the connection is open.                *)
PacketsBound ==
  /\ \A c \in Conn : \A i \in DOMAIN tasks :
       /\ IsTask(i, "Logout", c) => c \in acceptPackets
       /\ IsTask(i, "Module", c) =>
            player[c] # None /\ tasks[i].player = player[c]
  /\ \A c \in acceptPackets :
       connectionState[c] = "Open" => player[c] # None
  /\ hasLock => /\ handlerOf \in acceptPackets
                /\ connectionState[handlerOf] = "Open"

(* Nobody sends before onConnect does.                                       *)
SentBounded ==
  \A c \in Conn :
    /\ connectionState[c] = "Pending" =>
         messageQueue[c] = 0 /\ c \notin receivedFirst
    /\ connectionState[c] = "Open" => messageQueue[c] <= MaxBuffered + 1
    /\ \A i \in DOMAIN tasks : IsTask(i, "OnConnect", c) =>
         /\ tasks[i] = Bind("OnConnect", c)
         /\ connectionState[c] # "Pending" /\ c \notin autosend
         /\ connectionState[c] = "Open" => messageQueue[c] = 0

(* A reference, when there is a reason for it.                               *)
One(b) == IF b THEN 1 ELSE 0

(* The reasons to keep a player; Holders counts protocols where this asks    *)
(* whether it has a client.                                                  *)
Claims(p) ==
  One(client[p] # None) + One(stage[p] = "Placed") + One(p \in checked)
    + Count(p, toRelease)

(* Player objects: each side of player and client agrees with the other,     *)
(* references are what they should be, and who is in which list is where in  *)
(* his life.                                                                 *)
PlayersCounted ==
  /\ \A p \in Player, c \in Conn : client[p] = c <=> player[c] = p
  /\ \A p, q \in Found : p = q
  /\ \A p \in Player :
       /\ refs[p] = Claims(p)
       /\ stage[p] \in {"None", "Deleted"} <=> refs[p] = 0
       /\ p \in creatureCheck <=> stage[p] = "Placed"
       /\ p \in checked => stage[p] \in {"Placed", "Removed"}
       /\ \A i \in DOMAIN toRelease : toRelease[i] = p => stage[p] = "Removed"
       /\ stage[p] = "Loading" => client[p] \in Conn \ acceptPackets

(* No part is inductive without the others: a packet finds its player        *)
(* because the release comes later, that is so because a connection is       *)
(* closed once, and a login makes a new object because it comes once.        *)
IInv ==
  /\ TypeOK
  /\ TasksOrdered
  /\ EntriesWait
  /\ NotYet
  /\ ReleasesFollow
  /\ PacketsBound
  /\ SentBounded
  /\ PlayersCounted

-----------------------------------------------------------------------------
(* The list of tasks.                                                        *)

(* The list of tasks after a step that takes the first k, which is none or   *)
(* one, and appends the tasks in new.                                        *)
Shifted(k, new) ==
  /\ tasks' \in Seq(Task)
  /\ \A j \in DOMAIN tasks' :
       \/ j + k \in DOMAIN tasks /\ tasks'[j] = tasks[j + k]
       \/ j + k > Len(tasks) /\ tasks'[j] \in new
  /\ \A i \in DOMAIN tasks :
       i > k => i - k \in DOMAIN tasks' /\ tasks'[i - k] = tasks[i]
  /\ \A t \in new : \E j \in DOMAIN tasks' :
       j + k > Len(tasks) /\ tasks'[j] = t
  /\ \A i, j \in DOMAIN tasks' :
       i + k > Len(tasks) /\ j + k > Len(tasks) /\ tasks'[i].op = tasks'[j].op
         => i = j

(* No task is taken or added.                                                *)
LEMMA SameTasks ==
  ASSUME tasks \in Seq(Task), tasks' = tasks
  PROVE  Shifted(0, {})
  BY DEF Shifted

(* The dispatcher takes a task.                                              *)
LEMMA TaskTaken ==
  ASSUME tasks \in Seq(Task), tasks # <<>>, tasks' = Tail(tasks)
  PROVE  Shifted(1, {})
  BY DEF Shifted

(* A task is added.                                                          *)
LEMMA TaskAdded ==
  ASSUME tasks \in Seq(Task), NEW t \in Task, tasks' = Append(tasks, t)
  PROVE  Shifted(0, {t})
  BY DEF Shifted

(* The task that is taken adds one.                                          *)
LEMMA TaskTakenAndAdded ==
  ASSUME tasks \in Seq(Task), NEW t \in Task, tasks # <<>>,
         tasks' = Append(Tail(tasks), t)
  PROVE  Shifted(1, {t})
  BY DEF Shifted

(* Two tasks of different kinds follow those there are ...                   *)
LEMMA TwoMore ==
  ASSUME tasks \in Seq(Task), tasks' \in Seq(Task),
         NEW t, NEW u, t.op # u.op,
         Len(tasks') = Len(tasks) + 2,
         \A i \in 1..Len(tasks) : tasks'[i] = tasks[i],
         tasks'[Len(tasks) + 1] = t,
         tasks'[Len(tasks) + 2] = u
  PROVE  Shifted(0, {t, u})
<1>1. \A j \in DOMAIN tasks' :
       \/ j \in DOMAIN tasks
       \/ j = Len(tasks) + 1
       \/ j = Len(tasks) + 2
  OBVIOUS
<1>2. \A j \in DOMAIN tasks' :
       \/ j + 0 \in DOMAIN tasks /\ tasks'[j] = tasks[j + 0]
       \/ j + 0 > Len(tasks) /\ tasks'[j] \in {t, u}
  BY <1>1
<1>3. \A i \in DOMAIN tasks :
       i > 0 => i - 0 \in DOMAIN tasks' /\ tasks'[i - 0] = tasks[i]
  OBVIOUS
<1>4. \A v \in {t, u} : \E j \in DOMAIN tasks' :
         j + 0 > Len(tasks) /\ tasks'[j] = v
  <2>1. Len(tasks) + 1 \in DOMAIN tasks' /\ Len(tasks) + 2 \in DOMAIN tasks'
    OBVIOUS
  <2> QED BY <2>1
<1>5. \A i, j \in DOMAIN tasks' :
         i + 0 > Len(tasks) /\ j + 0 > Len(tasks) /\ tasks'[i].op = tasks'[j].op
           => i = j
  BY <1>1
<1> QED BY <1>2, <1>3, <1>4, <1>5 DEF Shifted

(* ... as after a packet that posts two.                                     *)
LEMMA TwoAdded ==
  ASSUME tasks \in Seq(Task), NEW t \in Task, NEW u \in Task, t.op # u.op,
         tasks' = tasks \o <<t, u>>
  PROVE  Shifted(0, {t, u})
<1>1. tasks' \in Seq(Task) /\ Len(tasks') = Len(tasks) + 2
  OBVIOUS
<1>2. \A i \in 1..Len(tasks) : tasks'[i] = tasks[i]
  OBVIOUS
<1>3. tasks'[Len(tasks) + 1] = t /\ tasks'[Len(tasks) + 2] = u
  OBVIOUS
<1> QED BY <1>1, <1>2, <1>3, TwoMore

-----------------------------------------------------------------------------
(* What a step can do to the tasks, the connections and the protocols.       *)

(* The step takes a task of this kind and connection.                        *)
Takes(k, op, c) == k = 1 /\ IsTask(1, op, c)

(* The step lets c enter.                                                    *)
TakesEntry(k, c) == Takes(k, "Login", c) \/ Takes(k, "Connect", c)

(* A task is added for a reason, and with what it will need.                 *)
Added(t) ==
  LET c == t.conn
  IN /\ t.op = "OnConnect" =>
          /\ t = Bind("OnConnect", c)
          /\ connectionState[c] = "Pending" /\ connectionState'[c] = "Open"
     /\ t.op = "Login" =>
          /\ c \notin receivedFirst /\ c \in receivedFirst'
          /\ connectionState[c] = "Open" /\ connectionState'[c] = "Open"
          /\ \A i \in DOMAIN tasks : ~IsTask(i, "OnConnect", c)
     /\ t.op = "Connect" =>
          /\ c \in scheduled /\ c \notin scheduled'
          /\ t.player = eventConnect[c]
     /\ t.op = "Release" => connectionState'[c] = "Disconnected"
     /\ t.op = "Logout" => c \in acceptPackets
     /\ t.op = "Module" =>
          /\ c \in acceptPackets
          /\ connectionState[c] = "Open" /\ connectionState'[c] = "Open"
          /\ t.player = player[c]

(* A connection is accepted or closed, gets a message more or has written    *)
(* one, and has its first message once.                                      *)
ConnectionStep(k, new, c) ==
  /\ \/ connectionState'[c] = connectionState[c]
     \/ /\ connectionState[c] = "Pending" /\ connectionState'[c] = "Open"
        /\ Bind("OnConnect", c) \in new
     \/ /\ connectionState'[c] = "Disconnected"
        /\ Bind("Release", c) \in new
        /\ hasLock' => handlerOf' # c
  /\ \/ messageQueue'[c] <= messageQueue[c]
     \/ /\ messageQueue'[c] = messageQueue[c] + 1
        /\ connectionState[c] = "Open"
        /\ \/ messageQueue[c] < MaxBuffered /\ c \in autosend
           \/ connectionState'[c] = "Disconnected"
           \/ Takes(k, "OnConnect", c)
  /\ c \in receivedFirst => c \in receivedFirst'
  /\ c \in receivedFirst' => c \in receivedFirst \/ connectionState[c] = "Open"

(* Only its entry gives a protocol a player, packets and autosend; only its  *)
(* release takes the player and autosend away.                               *)
ProtocolStep(k, c) ==
  /\ c \in acceptPackets => c \in acceptPackets'
  /\ c \in acceptPackets' =>
       c \in acceptPackets \/ (TakesEntry(k, c) /\ player'[c] # None)
  /\ c \in autosend' => c \in autosend \/ Takes(k, "Login", c)
  /\ Takes(k, "Release", c) => c \notin autosend'
  /\ c \in scheduled' =>
       \/ /\ Takes(k, "Login", c)
          /\ player'[c] = player[c]
          /\ c \notin acceptPackets'
          /\ eventConnect'[c] \in Player
       \/ /\ c \in scheduled /\ eventConnect'[c] = eventConnect[c]
  /\ \/ player'[c] = player[c]
     \/ TakesEntry(k, c)
     \/ Takes(k, "Release", c) /\ player'[c] = None
  /\ stage[c] = "None" => stage'[c] = "None" \/ Takes(k, "Login", c)

(* All that a step can do to them.                                           *)
Effect(k, new) ==
  /\ k \in {0, 1}
  /\ new \subseteq Task
  /\ Shifted(k, new)
  /\ \A t \in new : Added(t)
  /\ \A c \in Conn : ConnectionStep(k, new, c) /\ ProtocolStep(k, c)
  /\ messageQueue' \in [Conn -> Nat]
  /\ scheduled' \subseteq Conn /\ acceptPackets' \subseteq Conn
  /\ hasLock' =>
       \/ hasLock /\ handlerOf' = handlerOf
       \/ /\ handlerOf' \in acceptPackets
          /\ connectionState[handlerOf'] = "Open"

-----------------------------------------------------------------------------
(* A task that waits after a step waited before it, or was added by it.      *)
LEMMA WhereFrom ==
  ASSUME IInv, NEW k, NEW new, Effect(k, new),
         NEW op, NEW c, NEW j \in DOMAIN tasks', IsTask(j, op, c)'
  PROVE  /\ j \in Nat \ {0} /\ k \in {0, 1}
         /\ \/ IsTask(j + k, op, c) /\ tasks'[j] = tasks[j + k]
            \/ /\ j + k > Len(tasks)
               /\ tasks'[j] \in new /\ Added(tasks'[j])
               /\ tasks'[j].op = op /\ tasks'[j].conn = c
  BY DEF Effect, Shifted, IsTask, IInv, TypeOK, ConnTypeOK

(* A task that waits and is not taken waits on, further ahead.               *)
LEMMA WhereTo ==
  ASSUME IInv, NEW k, NEW new, Effect(k, new),
         NEW op, NEW c, NEW i \in DOMAIN tasks, IsTask(i, op, c),
         ~Takes(k, op, c)
  PROVE  i - k \in DOMAIN tasks' /\ IsTask(i - k, op, c)'
  BY DEF Effect, Shifted, IsTask, Takes, IInv, TypeOK, ConnTypeOK

(* A task that is added waits behind those that waited before.               *)
LEMMA WhereNew ==
  ASSUME IInv, NEW k, NEW new, Effect(k, new), NEW t \in new
  PROVE  \E j \in DOMAIN tasks' :
           j + k > Len(tasks) /\ IsTask(j, t.op, t.conn)'
  BY DEF Effect, Shifted, IsTask

(* A step of this kind keeps the order of the tasks.                         *)
LEMMA TasksStayOrdered ==
  ASSUME IInv, NEW k, NEW new, Effect(k, new)
  PROVE  TasksOrdered'
<1>1. SUFFICES ASSUME NEW c \in Conn, NEW i \in DOMAIN tasks', NEW j \in DOMAIN tasks'
               PROVE  /\ IsTask(i, "OnConnect", c)' /\ IsTask(j, "OnConnect", c)' => i = j
                      /\ IsEntry(i, c)' /\ IsEntry(j, c)' => i = j
                      /\ ~(IsTask(i, "OnConnect", c)' /\ IsTask(j, "Login", c)')
                      /\ IsTask(i, "Module", c)' /\ IsTask(j, "Release", c)' => i < j
  BY DEF TasksOrdered, IsTask, IsEntry
<1> USE DEF IInv
<1>a. i \in Nat /\ j \in Nat /\ k \in {0, 1} /\ Len(tasks) \in Nat
  BY DEF Effect, Shifted, TypeOK, ConnTypeOK
<1>b. i + k > Len(tasks) /\ j + k > Len(tasks) /\ tasks'[i].op = tasks'[j].op
        => i = j
  BY DEF Effect, Shifted
<1>2. ASSUME IsTask(i, "OnConnect", c)', IsTask(j, "OnConnect", c)'
      PROVE  i = j
  <2>1. CASE IsTask(i + k, "OnConnect", c) /\ IsTask(j + k, "OnConnect", c)
    BY <1>a, <2>1 DEF TasksOrdered, IsTask
  <2>2. CASE IsTask(i + k, "OnConnect", c) /\ Added(tasks'[j])
    BY <1>2, <2>2 DEF IsTask, Added, SentBounded
  <2>3. CASE Added(tasks'[i]) /\ IsTask(j + k, "OnConnect", c)
    BY <1>2, <2>3 DEF IsTask, Added, SentBounded
  <2>4. CASE i + k > Len(tasks) /\ j + k > Len(tasks)
    BY <1>2, <1>b, <2>4 DEF IsTask
  <2> QED BY <1>2, <2>1, <2>2, <2>3, <2>4, WhereFrom
<1>3. ASSUME IsEntry(i, c)', IsEntry(j, c)'
      PROVE  i = j
  <2> USE DEF IsEntry
  <2>1. CASE IsEntry(i + k, c) /\ IsEntry(j + k, c)
    BY <1>a, <2>1 DEF TasksOrdered, IsTask
  <2>2. CASE IsEntry(i + k, c) /\ Added(tasks'[j])
    BY <1>3, <2>2 DEF IsTask, Added, EntriesWait, Entering
  <2>3. CASE Added(tasks'[i]) /\ IsEntry(j + k, c)
    BY <1>3, <2>3 DEF IsTask, Added, EntriesWait, Entering
  <2>4. CASE /\ i + k > Len(tasks) /\ Added(tasks'[i])
             /\ j + k > Len(tasks) /\ Added(tasks'[j])
    BY <1>3, <1>b, <2>4 DEF IsTask, Added, EntriesWait, Entering
  <2> QED BY <1>3, <2>1, <2>2, <2>3, <2>4, WhereFrom
<1>4. ~(IsTask(i, "OnConnect", c)' /\ IsTask(j, "Login", c)')
  <2> SUFFICES ASSUME IsTask(i, "OnConnect", c)', IsTask(j, "Login", c)'
               PROVE  FALSE
    OBVIOUS
  <2>1. CASE IsTask(i + k, "OnConnect", c) /\ IsTask(j + k, "Login", c)
    BY <2>1 DEF TasksOrdered, IsTask
  <2>2. CASE IsTask(i + k, "OnConnect", c) /\ Added(tasks'[j])
    BY <2>2 DEF IsTask, Added
  <2>3. CASE Added(tasks'[i]) /\ IsTask(j + k, "Login", c)
    BY <2>3 DEF IsTask, Added, EntriesWait, SentBounded, IsEntry, Entering
  <2>4. CASE Added(tasks'[i]) /\ Added(tasks'[j])
    BY <2>4 DEF IsTask, Added
  <2> QED BY <2>1, <2>2, <2>3, <2>4, WhereFrom
<1>5. ASSUME IsTask(i, "Module", c)', IsTask(j, "Release", c)'
      PROVE  i < j
  <2>1. CASE IsTask(i + k, "Module", c) /\ IsTask(j + k, "Release", c)
    BY <1>5, <2>1, WhereFrom DEF TasksOrdered, IsTask
  <2>2. CASE IsTask(i + k, "Module", c) /\ j + k > Len(tasks)
    BY <1>a, <2>2 DEF IsTask
  <2>3. CASE Added(tasks'[i]) /\ IsTask(j + k, "Release", c)
    BY <1>5, <2>3 DEF IsTask, Added, ReleasesFollow
  <2>4. CASE Added(tasks'[i]) /\ Added(tasks'[j])
    BY <1>5, <2>4 DEF IsTask, Added
  <2> QED BY <1>5, <2>1, <2>2, <2>3, <2>4, WhereFrom
<1> QED BY <1>2, <1>3, <1>4, <1>5

(* It keeps the entries apart: who enters has had no other.                  *)
LEMMA EntriesStillWait ==
  ASSUME IInv, NEW k, NEW new, Effect(k, new)
  PROVE  EntriesWait'
<1> USE DEF IInv
<1>a. k \in {0, 1} /\ Len(tasks) \in Nat
  BY DEF Effect, Shifted, TypeOK, ConnTypeOK
<1>b. \A c \in Conn : ConnectionStep(k, new, c) /\ ProtocolStep(k, c)
  BY DEF Effect
<1>1. ASSUME NEW c \in Conn, Entering(c),
             \A op : ~Takes(k, op, c) \/ op \notin {"Login", "Connect"}
      PROVE  Entering(c)'
  <2>1. ~TakesEntry(k, c)
    BY <1>1 DEF TakesEntry
  <2>2. receivedFirst \subseteq Conn
    BY DEF TypeOK, ConnTypeOK
  <2> QED BY <1>1, <1>b, <2>1 DEF ConnectionStep, ProtocolStep, Entering
<1>2. ASSUME NEW c \in Conn, NEW j \in DOMAIN tasks', IsEntry(j, c)'
      PROVE  Entering(c)' /\ c \notin scheduled'
  <2>a. j \in Nat \ {0}
    BY <1>2, WhereFrom DEF IsEntry
  <2>1. CASE IsEntry(j + k, c)
    <3>1. Entering(c) /\ c \notin scheduled
      BY <2>1 DEF EntriesWait, IsEntry, IsTask
    <3>2. ~Takes(k, "Login", c) /\ ~Takes(k, "Connect", c)
      BY <1>a, <2>a, <2>1 DEF TasksOrdered, Takes, IsEntry, IsTask
    <3> QED BY <1>b, <1>1, <3>1, <3>2 DEF ProtocolStep
  <2>2. CASE Added(tasks'[j]) /\ IsTask(j, "Login", c)'
    <3>1. /\ c \notin receivedFirst /\ c \in receivedFirst'
          /\ player[c] = None /\ c \notin acceptPackets /\ c \notin scheduled
      BY <2>2 DEF Added, IsTask, NotYet, EntriesWait, Entering
    <3>2. \A op : Takes(k, op, c) => op \notin {"Login", "Connect"}
      BY <3>1 DEF Takes, EntriesWait, Entering, IsEntry, IsTask
    <3> QED BY <1>b, <3>1, <3>2 DEF ProtocolStep, Entering, TakesEntry
  <2>3. CASE Added(tasks'[j]) /\ IsTask(j, "Connect", c)'
    <3>1. Entering(c) /\ c \in scheduled /\ c \notin scheduled'
      BY <2>3 DEF Added, IsTask, EntriesWait
    <3>2. \A op : Takes(k, op, c) => op \notin {"Login", "Connect"}
      BY <3>1 DEF Takes, EntriesWait, Entering, IsEntry, IsTask
    <3> QED BY <1>1, <3>1, <3>2
  <2> QED BY <1>2, <2>1, <2>2, <2>3, WhereFrom DEF IsEntry
<1>3. ASSUME NEW c \in Conn, NEW j \in DOMAIN tasks', IsTask(j, "Login", c)'
      PROVE  stage'[c] = "None"
  <2>a. j \in Nat \ {0}
    BY <1>3, WhereFrom
  <2>1. CASE IsTask(j + k, "Login", c)
    <3>1. stage[c] = "None"
      BY <2>1 DEF EntriesWait, IsTask
    <3>2. ~Takes(k, "Login", c)
      BY <1>a, <2>a, <2>1 DEF TasksOrdered, Takes, IsEntry, IsTask
    <3> QED BY <1>b, <3>1, <3>2 DEF ProtocolStep
  <2>2. CASE Added(tasks'[j])
    <3>1. stage[c] = "None" /\ c \notin receivedFirst
      BY <1>3, <2>2 DEF Added, IsTask, NotYet
    <3>2. ~Takes(k, "Login", c)
      BY <3>1 DEF Takes, EntriesWait, Entering, IsEntry, IsTask
    <3> QED BY <1>b, <3>1, <3>2 DEF ProtocolStep
  <2> QED BY <1>3, <2>1, <2>2, WhereFrom
<1>4. ASSUME NEW c \in Conn, NEW j \in DOMAIN tasks', IsTask(j, "Connect", c)'
      PROVE  tasks'[j].player \in Player
  <2>1. CASE IsTask(j + k, "Connect", c) /\ tasks'[j] = tasks[j + k]
    BY <2>1 DEF EntriesWait, IsTask
  <2>2. CASE Added(tasks'[j])
    BY <1>4, <2>2 DEF Added, IsTask, EntriesWait
  <2> QED BY <1>4, <2>1, <2>2, WhereFrom
<1>5. ASSUME NEW c \in Conn, c \in scheduled'
      PROVE  Entering(c)' /\ eventConnect'[c] \in Player
  <2>1. CASE /\ Takes(k, "Login", c)
             /\ player'[c] = player[c]
             /\ c \notin acceptPackets'
             /\ eventConnect'[c] \in Player
    <3>1. Entering(c)
      BY <2>1 DEF Takes, EntriesWait, IsEntry, IsTask
    <3> QED BY <1>b, <2>1, <3>1 DEF Entering, ConnectionStep
  <2>2. CASE c \in scheduled /\ eventConnect'[c] = eventConnect[c]
    <3>1. Entering(c) /\ eventConnect[c] \in Player
      BY <2>2 DEF EntriesWait
    <3>2. \A op : Takes(k, op, c) => op \notin {"Login", "Connect"}
      BY <2>2 DEF Takes, EntriesWait, IsEntry, IsTask
    <3> QED BY <1>1, <2>2, <3>1, <3>2
  <2> QED BY <1>b, <1>5, <2>1, <2>2 DEF ProtocolStep
<1>6. scheduled' \subseteq Conn
  BY DEF Effect
<1> QED BY <1>2, <1>3, <1>4, <1>5, <1>6 DEF EntriesWait

(* It starts no protocol before its first message.                           *)
LEMMA StillNotYet ==
  ASSUME IInv, NEW k, NEW new, Effect(k, new)
  PROVE  NotYet'
<1> USE DEF IInv
<1> SUFFICES ASSUME NEW c \in Conn, c \notin receivedFirst'
             PROVE  /\ stage'[c] = "None" /\ player'[c] = None
                    /\ c \notin acceptPackets' /\ c \notin autosend'
  BY DEF NotYet
<1>1. ConnectionStep(k, new, c) /\ ProtocolStep(k, c)
  BY DEF Effect
<1>2. c \notin receivedFirst
  BY <1>1 DEF ConnectionStep
<1>3. ~Takes(k, "Login", c) /\ ~TakesEntry(k, c)
  BY <1>2 DEF Takes, TakesEntry, EntriesWait, Entering, IsEntry, IsTask
<1>4. /\ stage[c] = "None" /\ player[c] = None
      /\ c \notin acceptPackets /\ c \notin autosend
  BY <1>2 DEF NotYet
<1> QED BY <1>1, <1>3, <1>4 DEF ProtocolStep


(* It keeps a release before everybody in the autosend list whose            *)
(* connection is closed.                                                     *)
LEMMA ReleasesStillFollow ==
  ASSUME IInv, NEW k, NEW new, Effect(k, new)
  PROVE  ReleasesFollow'
<1> USE DEF IInv
<1>a. k \in {0, 1} /\ Len(tasks) \in Nat
  BY DEF Effect, Shifted, TypeOK, ConnTypeOK
<1>b. ASSUME NEW c \in Conn
      PROVE  ConnectionStep(k, new, c) /\ ProtocolStep(k, c)
  BY <1>b DEF Effect
<1>1. ASSUME NEW c \in Conn, NEW j \in DOMAIN tasks', IsTask(j, "Release", c)'
      PROVE  connectionState'[c] = "Disconnected"
  <2>1. CASE IsTask(j + k, "Release", c)
    <3>1. connectionState[c] = "Disconnected"
      BY <2>1 DEF ReleasesFollow, IsTask
    <3> QED BY <1>b, <3>1 DEF ConnectionStep
  <2>2. CASE Added(tasks'[j])
    BY <1>1, <2>2 DEF Added, IsTask
  <2> QED BY <1>1, <2>1, <2>2, WhereFrom
<1>2. ASSUME NEW c \in Conn, connectionState'[c] = "Disconnected",
             connectionState[c] # "Disconnected"
      PROVE  \E j \in DOMAIN tasks' :
               j + k > Len(tasks) /\ IsTask(j, "Release", c)'
  <2>1. Bind("Release", c) \in new
    BY <1>2, <1>b DEF ConnectionStep
  <2>2. Bind("Release", c).op = "Release" /\ Bind("Release", c).conn = c
    BY DEF Bind
  <2> QED BY <2>1, <2>2, WhereNew
<1>3. ASSUME NEW c \in Conn, connectionState'[c] = "Disconnected", c \in autosend'
      PROVE  \E j \in DOMAIN tasks' : IsTask(j, "Release", c)'
  <2>1. CASE connectionState[c] # "Disconnected"
    BY <1>2, <1>3, <2>1
  <2>2. CASE connectionState[c] = "Disconnected" /\ c \in autosend
    <3>1. PICK i \in DOMAIN tasks : IsTask(i, "Release", c)
      BY <2>2 DEF ReleasesFollow
    <3>2. ~Takes(k, "Release", c)
      BY <1>b, <1>3 DEF ProtocolStep
    <3> QED BY <3>1, <3>2, WhereTo
  <2>3. CASE connectionState[c] = "Disconnected" /\ Takes(k, "Login", c)
    <3>1. PICK i \in DOMAIN tasks : IsTask(i, "Release", c) /\ 1 < i
      BY <2>3 DEF ReleasesFollow, Takes, IsTask
    <3>2. ~Takes(k, "Release", c)
      BY <1>b, <1>3 DEF ProtocolStep
    <3> QED BY <3>1, <3>2, WhereTo
  <2> QED BY <1>b, <1>3, <2>1, <2>2, <2>3 DEF ProtocolStep
<1>4. ASSUME NEW c \in Conn, connectionState'[c] = "Disconnected",
             NEW j \in DOMAIN tasks', IsTask(j, "Login", c)'
      PROVE  \E m \in DOMAIN tasks' : IsTask(m, "Release", c)' /\ j < m
  <2>a. j \in Nat \ {0}
    BY <1>4, WhereFrom
  <2>1. CASE IsTask(j + k, "Login", c) /\ connectionState[c] = "Disconnected"
    <3>1. PICK i \in DOMAIN tasks : IsTask(i, "Release", c) /\ j + k < i
      BY <2>1 DEF ReleasesFollow, IsTask
    <3>2. i \in Nat /\ i > k
      BY <1>a, <2>a, <3>1 DEF TypeOK, ConnTypeOK
    <3>3. i - k \in DOMAIN tasks' /\ IsTask(i - k, "Release", c)'
      BY <3>1, <3>2 DEF Effect, Shifted, IsTask
    <3>4. j < i - k
      BY <1>a, <2>a, <3>1, <3>2
    <3> QED BY <3>3, <3>4
  <2>2. CASE IsTask(j + k, "Login", c) /\ connectionState[c] # "Disconnected"
    <3>1. PICK m \in DOMAIN tasks' :
            m + k > Len(tasks) /\ IsTask(m, "Release", c)'
      BY <1>2, <1>4, <2>2
    <3>2. j + k <= Len(tasks)
      BY <2>2 DEF IsTask, TypeOK, ConnTypeOK
    <3>3. m \in Nat
      BY <3>1, WhereFrom
    <3> QED BY <1>a, <2>a, <3>1, <3>2, <3>3
  <2>3. CASE Added(tasks'[j])
    BY <1>4, <2>3 DEF Added, IsTask
  <2> QED BY <1>4, <2>1, <2>2, <2>3, WhereFrom
<1> QED BY <1>1, <1>3, <1>4 DEF ReleasesFollow

(* It keeps the tasks of packets bound to the player of their protocol,      *)
(* since that changes only at its entry and its release.                     *)
LEMMA PacketsStillBound ==
  ASSUME IInv, NEW k, NEW new, Effect(k, new)
  PROVE  PacketsBound'
<1> USE DEF IInv
<1>a. k \in {0, 1} /\ Len(tasks) \in Nat
  BY DEF Effect, Shifted, TypeOK, ConnTypeOK
<1>b. ASSUME NEW c \in Conn
      PROVE  ConnectionStep(k, new, c) /\ ProtocolStep(k, c)
  BY <1>b DEF Effect
<1>c. ASSUME NEW c \in Conn, c \in acceptPackets
      PROVE  ~TakesEntry(k, c)
  BY <1>c DEF Takes, TakesEntry, EntriesWait, Entering, IsEntry, IsTask
<1>d. ASSUME NEW c \in Conn, player[c] # None
      PROVE  ~TakesEntry(k, c)
  BY <1>d DEF Takes, TakesEntry, EntriesWait, Entering, IsEntry, IsTask
<1>1. ASSUME NEW c \in Conn, NEW j \in DOMAIN tasks', IsTask(j, "Logout", c)'
      PROVE  c \in acceptPackets'
  <2>1. CASE IsTask(j + k, "Logout", c)
    BY <1>b, <2>1 DEF PacketsBound, IsTask, ProtocolStep
  <2>2. CASE Added(tasks'[j])
    BY <1>1, <1>b, <2>2 DEF Added, IsTask, ProtocolStep
  <2> QED BY <1>1, <2>1, <2>2, WhereFrom
<1>2. ASSUME NEW c \in Conn, NEW j \in DOMAIN tasks', IsTask(j, "Module", c)'
      PROVE  player'[c] # None /\ tasks'[j].player = player'[c]
  <2>a. j \in Nat \ {0}
    BY <1>2, WhereFrom
  <2>1. CASE IsTask(j + k, "Module", c) /\ tasks'[j] = tasks[j + k]
    <3>1. player[c] # None /\ tasks[j + k].player = player[c]
      BY <2>1 DEF PacketsBound, IsTask
    <3>2. ~Takes(k, "Release", c)
      BY <1>a, <2>a, <2>1 DEF TasksOrdered, Takes, IsTask
    <3>3. player'[c] = player[c]
      BY <1>b, <1>d, <3>1, <3>2 DEF ProtocolStep
    <3> QED BY <2>1, <3>1, <3>3
  <2>2. CASE Added(tasks'[j])
    <3>1. /\ c \in acceptPackets /\ connectionState[c] = "Open"
          /\ tasks'[j].player = player[c]
      BY <1>2, <2>2 DEF Added, IsTask
    <3>2. player[c] # None
      BY <3>1 DEF PacketsBound
    <3>3. ~Takes(k, "Release", c)
      BY <3>1 DEF Takes, IsTask, ReleasesFollow
    <3> QED BY <1>b, <1>d, <3>1, <3>2, <3>3 DEF ProtocolStep
  <2> QED BY <1>2, <2>1, <2>2, WhereFrom
<1>3. ASSUME NEW c \in acceptPackets', connectionState'[c] = "Open"
      PROVE  player'[c] # None
  <2>0. c \in Conn
    BY DEF Effect
  <2>1. CASE c \notin acceptPackets
    BY <1>b, <2>0, <2>1 DEF ProtocolStep
  <2>2. CASE c \in acceptPackets
    <3>1. connectionState[c] # "Pending"
      BY <2>0, <2>2 DEF SentBounded, NotYet
    <3>2. connectionState[c] = "Open"
      BY <1>3, <1>b, <2>0, <3>1 DEF ConnectionStep
    <3>3. ~Takes(k, "Release", c)
      BY <2>0, <3>2 DEF Takes, IsTask, ReleasesFollow
    <3>4. player[c] # None
      BY <2>2, <3>2 DEF PacketsBound
    <3> QED BY <1>b, <1>c, <2>0, <2>2, <3>3, <3>4 DEF ProtocolStep
  <2> QED BY <2>1, <2>2
<1>4. ASSUME hasLock'
      PROVE  /\ handlerOf' \in acceptPackets'
             /\ connectionState'[handlerOf'] = "Open"
  <2>1. handlerOf' \in acceptPackets /\ connectionState[handlerOf'] = "Open"
    BY <1>4 DEF Effect, PacketsBound
  <2>2. handlerOf' \in Conn
    BY <2>1 DEF TypeOK
  <2> QED BY <1>4, <1>b, <2>1, <2>2 DEF ConnectionStep, ProtocolStep
<1> QED BY <1>1, <1>2, <1>3, <1>4 DEF PacketsBound

(* It keeps the number of messages bounded.                                  *)
LEMMA SentStillBounded ==
  ASSUME IInv, NEW k, NEW new, Effect(k, new)
  PROVE  /\ SentBounded'
         /\ \A c \in Conn : messageQueue'[c] <= MaxBuffered + 2
<1> USE DEF IInv
<1>a. k \in {0, 1} /\ Len(tasks) \in Nat
  BY DEF Effect, Shifted, TypeOK, ConnTypeOK
<1> SUFFICES ASSUME NEW c \in Conn
             PROVE  /\ connectionState'[c] = "Pending" =>
                         messageQueue'[c] = 0 /\ c \notin receivedFirst'
                    /\ connectionState'[c] = "Open" =>
                         messageQueue'[c] <= MaxBuffered + 1
                    /\ \A j \in DOMAIN tasks' : IsTask(j, "OnConnect", c)' =>
                         /\ tasks'[j] = Bind("OnConnect", c)
                         /\ connectionState'[c] # "Pending" /\ c \notin autosend'
                         /\ connectionState'[c] = "Open" => messageQueue'[c] = 0
                    /\ messageQueue'[c] <= MaxBuffered + 2
  BY DEF SentBounded, IsTask
<1>b. ConnectionStep(k, new, c) /\ ProtocolStep(k, c)
  BY DEF Effect
<1>c. messageQueue[c] \in Nat /\ messageQueue'[c] \in Nat /\ MaxBuffered \in Nat
  BY ConnectionAssumption DEF Effect, TypeOK, ConnTypeOK
<1>1. ASSUME connectionState'[c] = "Pending"
      PROVE  messageQueue'[c] = 0 /\ c \notin receivedFirst'
  BY <1>1, <1>b, <1>c DEF ConnectionStep, SentBounded
<1>2. ASSUME connectionState'[c] = "Open"
      PROVE  messageQueue'[c] <= MaxBuffered + 1
  <2>1. CASE connectionState[c] = "Open"
    <3>1. Takes(k, "OnConnect", c) => messageQueue[c] = 0
      BY <2>1 DEF SentBounded, Takes, IsTask
    <3> QED BY <1>2, <1>b, <1>c, <2>1, <3>1 DEF ConnectionStep, SentBounded
  <2>2. CASE connectionState[c] = "Pending"
    BY <1>b, <1>c, <2>2 DEF ConnectionStep, SentBounded
  <2> QED BY <1>2, <1>b, <2>1, <2>2 DEF ConnectionStep
<1>5. ASSUME NEW j \in DOMAIN tasks', IsTask(j, "OnConnect", c)'
      PROVE  tasks'[j] = Bind("OnConnect", c)
  <2>1. CASE IsTask(j + k, "OnConnect", c) /\ tasks'[j] = tasks[j + k]
    BY <2>1 DEF SentBounded, IsTask
  <2>2. CASE Added(tasks'[j])
    BY <1>5, <2>2 DEF Added, IsTask
  <2> QED BY <1>5, <2>1, <2>2, WhereFrom
<1>3. ASSUME NEW j \in DOMAIN tasks', IsTask(j, "OnConnect", c)'
      PROVE  /\ connectionState'[c] # "Pending" /\ c \notin autosend'
             /\ connectionState'[c] = "Open" => messageQueue'[c] = 0
  <2>a. j \in Nat \ {0}
    BY <1>3, WhereFrom
  <2>1. CASE IsTask(j + k, "OnConnect", c)
    <3>1. /\ connectionState[c] # "Pending" /\ c \notin autosend
          /\ connectionState[c] = "Open" => messageQueue[c] = 0
      BY <2>1 DEF SentBounded, IsTask
    <3>2. ~Takes(k, "Login", c) /\ ~Takes(k, "OnConnect", c)
      BY <1>a, <2>a, <2>1 DEF TasksOrdered, Takes, IsTask
    <3> QED BY <1>b, <1>c, <3>1, <3>2 DEF ConnectionStep, ProtocolStep
  <2>2. CASE Added(tasks'[j]) /\ tasks'[j] \in new
    <3>1. connectionState[c] = "Pending"
      BY <1>3, <2>2 DEF Added, IsTask
    <3>2. messageQueue[c] = 0 /\ c \notin receivedFirst
      BY <3>1 DEF SentBounded
    <3>3. c \notin autosend
      BY <3>2 DEF NotYet
    <3>4. ~Takes(k, "Login", c)
      BY <3>2 DEF Takes, EntriesWait, Entering, IsEntry, IsTask
    <3>5. messageQueue'[c] = 0
      BY <1>b, <1>c, <3>1, <3>2 DEF ConnectionStep
    <3>6. connectionState'[c] # "Pending"
      BY <1>3, <2>2 DEF Added, IsTask
    <3> QED BY <1>b, <3>3, <3>4, <3>5, <3>6 DEF ProtocolStep
  <2> QED BY <1>3, <2>1, <2>2, WhereFrom
<1>4. messageQueue'[c] <= MaxBuffered + 2
  <2>1. messageQueue[c] <= MaxBuffered + 2
    BY ConnectionAssumption DEF TypeOK, ConnTypeOK
  <2>2. connectionState[c] = "Open" => messageQueue[c] <= MaxBuffered + 1
    BY DEF SentBounded
  <2> QED BY <1>b, <1>c, <2>1, <2>2 DEF ConnectionStep
<1> QED BY <1>1, <1>2, <1>3, <1>4, <1>5


-----------------------------------------------------------------------------
(* Counting the places of a player in a sequence.                            *)

(* The places of a player are finitely many, and none if he is not there.    *)
LEMMA Places ==
  ASSUME NEW p, NEW s \in Seq(Player)
  PROVE  /\ IsFiniteSet({i \in DOMAIN s : s[i] = p})
         /\ Count(p, s) \in Nat
         /\ Count(p, s) = 0 <=> \A i \in DOMAIN s : s[i] # p
<1>1. IsFiniteSet({i \in DOMAIN s : s[i] = p})
  <2>1. IsFiniteSet(1..Len(s))
    BY FS_Interval
  <2>2. {i \in DOMAIN s : s[i] = p} \subseteq 1..Len(s)
    OBVIOUS
  <2> QED BY <2>1, <2>2, FS_Subset
<1>2. Count(p, s) = 0 <=> {i \in DOMAIN s : s[i] = p} = {}
  BY <1>1, FS_EmptySet DEF Count
<1>3. Count(p, s) \in Nat
  BY <1>1, FS_CardinalityType DEF Count
<1> QED BY <1>1, <1>2, <1>3

(* Who is appended has one place more.                                       *)
LEMMA PlacesAppended ==
  ASSUME NEW p, NEW s \in Seq(Player), NEW q \in Player
  PROVE  Count(p, Append(s, q)) = Count(p, s) + One(p = q)
<1> DEFINE S == {i \in DOMAIN s : s[i] = p}
           T == {i \in DOMAIN Append(s, q) : Append(s, q)[i] = p}
           n == Len(s) + 1
<1>1. /\ Append(s, q) \in Seq(Player) /\ Len(Append(s, q)) = n
      /\ \A i \in 1..Len(s) : Append(s, q)[i] = s[i]
      /\ Append(s, q)[n] = q
  OBVIOUS
<1>2. DOMAIN Append(s, q) = (DOMAIN s) \cup {n}
  BY <1>1
<1>3. n \notin S
  OBVIOUS
<1>4. IsFiniteSet(S) /\ Cardinality(S) \in Nat
  BY Places, FS_CardinalityType
<1>7. Count(p, s) = Cardinality(S) /\ Count(p, Append(s, q)) = Cardinality(T)
  BY DEF Count
<1>5. CASE p = q
  <2>1. T = S \cup {n}
    BY <1>1, <1>2, <1>5
  <2>2. Cardinality(T) = Cardinality(S) + 1
    BY <1>3, <1>4, <2>1, FS_AddElement
  <2>3. One(p = q) = 1
    BY <1>5 DEF One
  <2> QED BY <1>7, <2>2, <2>3
<1>6. CASE p # q
  <2>1. T = S
    BY <1>1, <1>2, <1>6
  <2>2. One(p = q) = 0
    BY <1>6 DEF One
  <2>3. Cardinality(T) = Cardinality(S)
    BY <2>1
  <2> HIDE DEF S, T
  <2> QED BY <1>4, <1>7, <2>2, <2>3
<1> QED BY <1>5, <1>6

(* The places in the empty sequence and in one with one element.             *)
LEMMA PlacesOfFew ==
  ASSUME NEW p, NEW q \in Player
  PROVE  Count(p, <<>>) = 0 /\ Count(p, <<q>>) = One(p = q)
<1> DEFINE e == <<>>
<1>1. e \in Seq(Player) /\ DOMAIN e = {}
  OBVIOUS
<1>4. Append(e, q) = <<q>>
  OBVIOUS
<1> HIDE DEF e
<1>2. Count(p, e) = 0
  BY <1>1, Places
<1>3. Count(p, Append(e, q)) = Count(p, e) + One(p = q)
  BY <1>1, PlacesAppended DEF One
<1> QED BY <1>2, <1>3, <1>4 DEF One, e

-----------------------------------------------------------------------------
(* The steps that change players.                                            *)

(* TypeOK, as far as players are concerned.                                  *)
PlayerTypes ==
  /\ player \in [Conn -> Player \cup {None}]
  /\ stage \in [Player -> Stage]
  /\ client \in [Player -> Conn \cup {None}]
  /\ refs \in [Player -> Nat]
  /\ checked \subseteq Player
  /\ creatureCheck \subseteq Player
  /\ toRelease \in Seq(Player)

(* A step that leaves the players alone keeps them counted.                  *)
LEMMA PlayersKept ==
  ASSUME PlayersCounted, PlayerTypes,
         UNCHANGED <<player, acceptPackets, stage, client, refs, checkVars,
                     toRelease>>
  PROVE  PlayersCounted' /\ PlayerTypes'
BY DEF PlayersCounted, PlayerTypes, checkVars, Claims, Found

(* login makes a player who stays out ...                                    *)
LEMMA PlayerMade ==
  ASSUME PlayersCounted, PlayerTypes, NEW c \in Conn,
         stage[c] = "None", player[c] = None, c \notin acceptPackets,
         player' = [player EXCEPT ![c] = c],
         stage' = [stage EXCEPT ![c] = "Loading"],
         client' = [client EXCEPT ![c] = c],
         refs' = [refs EXCEPT ![c] = 1],
         UNCHANGED <<acceptPackets, checkVars, toRelease>>
  PROVE  PlayersCounted' /\ PlayerTypes'
<1> USE ConnectionAssumption DEF Player
<1>1. \A p \in Player : p # c =>
        /\ stage'[p] = stage[p] /\ client'[p] = client[p] /\ refs'[p] = refs[p]
  BY DEF PlayerTypes
<1>2. \A d \in Conn : d # c => player'[d] = player[d]
  BY DEF PlayerTypes
<1>3. /\ stage'[c] = "Loading" /\ client'[c] = c /\ refs'[c] = 1
      /\ player'[c] = c
  BY DEF PlayerTypes
<1>4. PlayerTypes'
  BY DEF PlayerTypes, checkVars, Stage
<1>5. /\ client[c] = None /\ c \notin checked /\ c \notin creatureCheck
      /\ \A i \in DOMAIN toRelease : toRelease[i] # c
      /\ Count(c, toRelease) = 0
  <2>1. refs[c] = 0
    BY DEF PlayersCounted
  <2>2. Count(c, toRelease) \in Nat
    BY Places DEF PlayerTypes
  <2>3. refs[c] = Claims(c)
    BY DEF PlayersCounted
  <2>4. client[c] = None /\ c \notin checked /\ Count(c, toRelease) = 0
    BY <2>1, <2>2, <2>3 DEF Claims, One
  <2> QED BY <2>4, Places DEF PlayersCounted, PlayerTypes
<1>6. \A p \in Player, d \in Conn : client'[p] = d <=> player'[d] = p
  BY <1>1, <1>2, <1>3, <1>5 DEF PlayersCounted
<1>7. \A p, q \in Found' : p = q
  BY <1>1, <1>3 DEF PlayersCounted, Found
<1>8. ASSUME NEW p \in Player
      PROVE  /\ refs'[p] = Claims(p)'
             /\ stage'[p] \in {"None", "Deleted"} <=> refs'[p] = 0
             /\ p \in creatureCheck' <=> stage'[p] = "Placed"
             /\ p \in checked' => stage'[p] \in {"Placed", "Removed"}
             /\ \A i \in DOMAIN toRelease' :
                  toRelease'[i] = p => stage'[p] = "Removed"
             /\ stage'[p] = "Loading" => client'[p] \in Conn \ acceptPackets'
  <2>1. CASE p = c
    BY <1>3, <1>5, <2>1 DEF checkVars, Claims, One
  <2>2. CASE p # c
    BY <1>1, <2>2 DEF PlayersCounted, checkVars, Claims
  <2> QED BY <2>1, <2>2
<1> QED BY <1>4, <1>6, <1>7, <1>8 DEF PlayersCounted


(* ... or enters the game.                                                   *)
LEMMA PlayerEnters ==
  ASSUME PlayersCounted, PlayerTypes, NEW c \in Conn,
         stage[c] = "None", player[c] = None, c \notin acceptPackets,
         Found = {},
         player' = [player EXCEPT ![c] = c],
         acceptPackets' = acceptPackets \cup {c},
         stage' = [stage EXCEPT ![c] = "Placed"],
         client' = [client EXCEPT ![c] = c],
         refs' = [refs EXCEPT ![c] = 3],
         checked' = checked \cup {c},
         creatureCheck' = creatureCheck \cup {c},
         toRelease' = toRelease
  PROVE  PlayersCounted' /\ PlayerTypes'
<1> USE ConnectionAssumption DEF Player
<1>1. \A p \in Player : p # c =>
        /\ stage'[p] = stage[p] /\ client'[p] = client[p] /\ refs'[p] = refs[p]
  BY DEF PlayerTypes
<1>2. \A d \in Conn : d # c => player'[d] = player[d]
  BY DEF PlayerTypes
<1>3. /\ stage'[c] = "Placed" /\ client'[c] = c /\ refs'[c] = 3
      /\ player'[c] = c
  BY DEF PlayerTypes
<1>4. PlayerTypes'
  BY DEF PlayerTypes, Stage
<1>5. /\ client[c] = None /\ c \notin checked /\ c \notin creatureCheck
      /\ \A i \in DOMAIN toRelease : toRelease[i] # c
      /\ Count(c, toRelease) = 0
  <2>1. refs[c] = 0
    BY DEF PlayersCounted
  <2>2. Count(c, toRelease) \in Nat
    BY Places DEF PlayerTypes
  <2>3. refs[c] = Claims(c)
    BY DEF PlayersCounted
  <2>4. client[c] = None /\ c \notin checked /\ Count(c, toRelease) = 0
    BY <2>1, <2>2, <2>3 DEF Claims, One
  <2> QED BY <2>4, Places DEF PlayersCounted, PlayerTypes
<1>6. \A p \in Player, d \in Conn : client'[p] = d <=> player'[d] = p
  BY <1>1, <1>2, <1>3, <1>5 DEF PlayersCounted
<1>7. \A p, q \in Found' : p = q
  BY <1>1, <1>3 DEF PlayersCounted, Found
<1>8. ASSUME NEW p \in Player
      PROVE  /\ refs'[p] = Claims(p)'
             /\ stage'[p] \in {"None", "Deleted"} <=> refs'[p] = 0
             /\ p \in creatureCheck' <=> stage'[p] = "Placed"
             /\ p \in checked' => stage'[p] \in {"Placed", "Removed"}
             /\ \A i \in DOMAIN toRelease' :
                  toRelease'[i] = p => stage'[p] = "Removed"
             /\ stage'[p] = "Loading" => client'[p] \in Conn \ acceptPackets'
  <2>1. CASE p = c
    BY <1>3, <1>5, <2>1 DEF Claims, One
  <2>2. CASE p # c
    <3>1. p \in checked' <=> p \in checked
      BY <2>2
    <3>2. refs'[p] = Claims(p)'
      BY <1>1, <2>2, <3>1 DEF PlayersCounted, Claims, One
    <3>3. stage[p] = "Loading" => client[p] # c
      BY DEF PlayersCounted
    <3> QED BY <1>1, <2>2, <3>1, <3>2, <3>3 DEF PlayersCounted
  <2> QED BY <2>1, <2>2
<1> QED BY <1>4, <1>6, <1>7, <1>8 DEF PlayersCounted

(* A protocol without a player takes one over that has no client.            *)
LEMMA PlayerAttached ==
  ASSUME PlayersCounted, PlayerTypes, NEW c \in Conn, NEW p \in Player,
         player[c] = None, stage[p] = "Placed", client[p] = None,
         player' = [player EXCEPT ![c] = p],
         refs' = [refs EXCEPT ![p] = @ + 1],
         client' = [client EXCEPT ![p] = c],
         acceptPackets' = acceptPackets \cup {c},
         UNCHANGED <<stage, checkVars, toRelease>>
  PROVE  PlayersCounted' /\ PlayerTypes'
<1> USE ConnectionAssumption DEF Player, checkVars
<1>1. \A q \in Player : q # p => client'[q] = client[q] /\ refs'[q] = refs[q]
  BY DEF PlayerTypes
<1>2. \A d \in Conn : d # c => player'[d] = player[d]
  BY DEF PlayerTypes
<1>3. client'[p] = c /\ refs'[p] = refs[p] + 1 /\ player'[c] = p
  BY DEF PlayerTypes
<1>4. PlayerTypes'
  BY DEF PlayerTypes
<1>6. \A q \in Player, d \in Conn : client'[q] = d <=> player'[d] = q
  BY <1>1, <1>2, <1>3 DEF PlayersCounted
<1>7. \A q, r \in Found' : q = r
  BY DEF PlayersCounted, Found
<1>8. ASSUME NEW q \in Player
      PROVE  /\ refs'[q] = Claims(q)'
             /\ stage'[q] \in {"None", "Deleted"} <=> refs'[q] = 0
             /\ q \in creatureCheck' <=> stage'[q] = "Placed"
             /\ q \in checked' => stage'[q] \in {"Placed", "Removed"}
             /\ \A i \in DOMAIN toRelease' :
                  toRelease'[i] = q => stage'[q] = "Removed"
             /\ stage'[q] = "Loading" => client'[q] \in Conn \ acceptPackets'
  <2>1. CASE q = p
    <3>1. Count(p, toRelease) \in Nat
      BY Places DEF PlayerTypes
    <3>2. refs[p] = Claims(p)
      BY DEF PlayersCounted
    <3>3. refs'[p] = Claims(p)' /\ refs'[p] # 0
      BY <1>3, <3>1, <3>2 DEF Claims, One
    <3> QED BY <1>3, <2>1, <3>3 DEF PlayersCounted
  <2>2. CASE q # p
    <3>1. refs'[q] = Claims(q)'
      BY <1>1, <2>2 DEF PlayersCounted, Claims
    <3>2. stage[q] = "Loading" => client[q] # c
      BY DEF PlayersCounted
    <3> QED BY <1>1, <2>2, <3>1, <3>2 DEF PlayersCounted
  <2> QED BY <2>1, <2>2
<1> QED BY <1>4, <1>6, <1>7, <1>8 DEF PlayersCounted

(* A player leaves the game and waits for its release.                       *)
LEMMA PlayerLeaves ==
  ASSUME PlayersCounted, PlayerTypes, NEW p \in Player, stage[p] = "Placed",
         stage' = [stage EXCEPT ![p] = "Removed"],
         creatureCheck' = creatureCheck \ {p},
         toRelease' = Append(toRelease, p),
         UNCHANGED <<player, acceptPackets, client, refs, checked>>
  PROVE  PlayersCounted' /\ PlayerTypes'
<1>1. \A q \in Player : q # p => stage'[q] = stage[q]
  BY DEF PlayerTypes
<1>2. stage'[p] = "Removed"
  BY DEF PlayerTypes
<1>3. PlayerTypes'
  BY DEF PlayerTypes, Stage
<1>4. ASSUME NEW q \in Player
      PROVE  /\ Count(q, toRelease') = Count(q, toRelease) + One(q = p)
             /\ Count(q, toRelease) \in Nat
  BY Places, PlacesAppended DEF PlayerTypes, One
<1>5. \A q \in Player, c \in Conn : client'[q] = c <=> player'[c] = q
  BY DEF PlayersCounted
<1>6. \A q, r \in Found' : q = r
  BY <1>1, <1>2 DEF PlayersCounted, Found
<1>7. ASSUME NEW q \in Player
      PROVE  /\ refs'[q] = Claims(q)'
             /\ stage'[q] \in {"None", "Deleted"} <=> refs'[q] = 0
             /\ q \in creatureCheck' <=> stage'[q] = "Placed"
             /\ q \in checked' => stage'[q] \in {"Placed", "Removed"}
             /\ \A i \in DOMAIN toRelease' :
                  toRelease'[i] = q => stage'[q] = "Removed"
             /\ stage'[q] = "Loading" => client'[q] \in Conn \ acceptPackets'
  <2>1. refs[q] = Claims(q) /\ (stage[q] \in {"None", "Deleted"} <=> refs[q] = 0)
    BY DEF PlayersCounted
  <2>2. \A i \in DOMAIN toRelease' :
          toRelease'[i] = p \/ \E j \in DOMAIN toRelease : toRelease[j] = toRelease'[i]
    BY DEF PlayerTypes
  <2>3. CASE q = p
    BY <1>2, <1>4, <2>1, <2>3 DEF PlayersCounted, Claims, One
  <2>4. CASE q # p
    <3>1. refs'[q] = Claims(q)'
      BY <1>1, <1>4, <2>1, <2>4 DEF Claims, One
    <3> QED BY <1>1, <2>1, <2>2, <2>4, <3>1 DEF PlayersCounted
  <2> QED BY <2>3, <2>4
<1> QED BY <1>3, <1>5, <1>6, <1>7 DEF PlayersCounted


(* References are given back: those of the players in s, of whom the ones in *)
(* gone leave the game.                                                      *)
LEMMA PlayersDropped ==
  ASSUME PlayersCounted, PlayerTypes, NEW s \in Seq(Player), NEW gone \in SUBSET Found,
         DropAll(s, gone),
         \A p \in Player :
           One(client'[p] # None) + One(stage[p] = "Placed" /\ p \notin gone)
             + One(p \in checked') + Count(p, toRelease')
               = Claims(p) - Count(p, s),
         player' \in [Conn -> Player \cup {None}],
         client' \in [Player -> Conn \cup {None}],
         \A p \in Player, c \in Conn : client'[p] = c <=> player'[c] = p,
         \A p \in Player : client'[p] \in {client[p], None},
         toRelease' \in {toRelease, <<>>},
         checked' \subseteq checked,
         creatureCheck' = creatureCheck \ gone,
         acceptPackets' = acceptPackets
  PROVE  PlayersCounted' /\ PlayerTypes'
<1>1. toRelease' \in Seq(Player)
  <2>1. <<>> \in Seq(Player)
    OBVIOUS
  <2> QED BY <2>1 DEF PlayerTypes
<1>2. ASSUME NEW p \in Player
      PROVE  /\ Count(p, s) \in Nat
             /\ Count(p, toRelease') \in Nat
             /\ Count(p, toRelease) \in Nat
             /\ Count(p, toRelease') = 0 =>
                  \A i \in DOMAIN toRelease' : toRelease'[i] # p
  BY <1>1, Places DEF PlayerTypes
<1>3. ASSUME NEW p \in Player
      PROVE  /\ refs'[p] = refs[p] - Count(p, s)
             /\ stage'[p] = IF refs'[p] <= 0 /\ Count(p, s) > 0 THEN "Deleted"
                            ELSE IF p \in gone THEN "Removed" ELSE stage[p]
  BY DEF DropAll
<1>4. ASSUME NEW p \in Player
      PROVE  /\ refs'[p] = Claims(p)'
             /\ refs'[p] \in Nat
             /\ stage'[p] \in {"None", "Deleted"} <=> refs'[p] = 0
             /\ p \in creatureCheck' <=> stage'[p] = "Placed"
             /\ p \in checked' => stage'[p] \in {"Placed", "Removed"}
             /\ \A i \in DOMAIN toRelease' :
                  toRelease'[i] = p => stage'[p] = "Removed"
             /\ stage'[p] = "Loading" => client'[p] \in Conn \ acceptPackets'
             /\ p \in Found' => p \in Found
             /\ stage'[p] \in Stage
  <2>1. /\ refs[p] = Claims(p)
        /\ stage[p] \in {"None", "Deleted"} <=> refs[p] = 0
        /\ p \in creatureCheck <=> stage[p] = "Placed"
        /\ p \in checked => stage[p] \in {"Placed", "Removed"}
        /\ \A i \in DOMAIN toRelease : toRelease[i] = p => stage[p] = "Removed"
        /\ stage[p] = "Loading" => client[p] \in Conn \ acceptPackets
        /\ refs[p] \in Nat /\ stage[p] \in Stage
    BY DEF PlayersCounted, PlayerTypes
  <2>2. refs'[p] = One(client'[p] # None) + One(stage[p] = "Placed" /\ p \notin gone)
                     + One(p \in checked') + Count(p, toRelease')
    BY <1>3, <2>1
  <2>3. refs'[p] \in Nat
    BY <1>2, <2>2 DEF One
  <2>4. p \in gone => stage[p] = "Placed"
    BY DEF Found
  <2>5. CASE refs'[p] = 0
    <3>1. /\ client'[p] = None /\ p \notin checked' /\ Count(p, toRelease') = 0
          /\ ~(stage[p] = "Placed" /\ p \notin gone)
      BY <1>2, <2>2, <2>5 DEF One
    <3>2. stage'[p] \in {"None", "Deleted"}
      <4>1. CASE Count(p, s) > 0
        BY <1>3, <2>5, <4>1
      <4>2. CASE Count(p, s) = 0
        BY <1>2, <1>3, <2>1, <2>4, <2>5, <4>2
      <4> QED BY <1>2, <4>1, <4>2
    <3>3. refs'[p] = Claims(p)'
      BY <2>5, <3>1, <3>2 DEF Claims, One
    <3>4. \A i \in DOMAIN toRelease' : toRelease'[i] # p
      BY <1>2, <3>1
    <3>5. p \notin creatureCheck'
      BY <2>1, <3>1
    <3> QED BY <2>3, <2>5, <3>1, <3>2, <3>3, <3>4, <3>5 DEF Found, Stage
  <2>6. CASE refs'[p] # 0
    <3>1. stage'[p] = IF p \in gone THEN "Removed" ELSE stage[p]
      BY <1>3, <2>3, <2>6
    <3>2. stage[p] \notin {"None", "Deleted"}
      BY <1>2, <1>3, <2>1, <2>3, <2>6
    <3>3. refs'[p] = Claims(p)'
      BY <2>2, <2>4, <3>1 DEF Claims, One
    <3>4. stage[p] = "Loading" => client'[p] = client[p]
      <4>1. SUFFICES ASSUME stage[p] = "Loading", client'[p] = None
                     PROVE  FALSE
        OBVIOUS
      <4>2. p \notin checked /\ \A i \in DOMAIN toRelease : toRelease[i] # p
        BY <2>1, <4>1
      <4>3. \A i \in DOMAIN toRelease' : toRelease'[i] # p
        <5>1. CASE toRelease' = toRelease
          BY <4>2, <5>1
        <5>2. CASE toRelease' = <<>>
          BY <5>2
        <5> QED BY <5>1, <5>2
      <4>4. Count(p, toRelease') = 0
        BY <4>3, <1>1, Places
      <4> QED BY <2>2, <2>6, <4>1, <4>2, <4>4 DEF One
    <3> QED BY <2>1, <2>3, <2>4, <2>6, <3>1, <3>2, <3>3, <3>4 DEF Found, Stage
  <2> QED BY <2>5, <2>6
<1>5. \A p, q \in Found' : p = q
  <2>1. Found' \subseteq Player
    BY DEF Found
  <2> QED BY <1>4, <2>1 DEF PlayersCounted
<1>6. PlayerTypes'
  <2>1. refs' \in [Player -> Nat] /\ stage' \in [Player -> Stage]
    BY <1>4 DEF DropAll
  <2> QED BY <1>1, <2>1 DEF PlayerTypes
<1> QED BY <1>4, <1>5, <1>6 DEF PlayersCounted

(* ProtocolGame::release gives back the protocol's reference ...             *)
LEMMA PlayerReleased ==
  ASSUME PlayersCounted, PlayerTypes, NEW c \in Conn, NEW p \in Player,
         player[c] = p,
         client' = [client EXCEPT ![p] = None],
         player' = [player EXCEPT ![c] = None],
         DropAll(<<p>>, {}),
         UNCHANGED <<acceptPackets, checkVars, toRelease>>
  PROVE  PlayersCounted' /\ PlayerTypes'
<1> USE ConnectionAssumption DEF Player, checkVars
<1> DEFINE s == <<p>>
           gone == {}
<1>1. client[p] = c
  BY DEF PlayersCounted
<1>2. \A q \in Player :
        One(client'[q] # None) + One(stage[q] = "Placed" /\ q \notin gone)
          + One(q \in checked') + Count(q, toRelease')
            = Claims(q) - Count(q, s)
  <2> TAKE q \in Player
  <2>1. Count(q, <<p>>) = IF q = p THEN 1 ELSE 0
    BY PlacesOfFew DEF One
  <2>2. Count(q, toRelease) \in Nat
    BY Places DEF PlayerTypes
  <2>3. CASE q = p
    BY <1>1, <2>1, <2>2, <2>3 DEF Claims, One, PlayerTypes
  <2>4. CASE q # p
    BY <2>1, <2>2, <2>4 DEF Claims, One, PlayerTypes
  <2> QED BY <2>3, <2>4
<1>3. \A q \in Player, d \in Conn : client'[q] = d <=> player'[d] = q
  BY <1>1 DEF PlayersCounted, PlayerTypes
<1>4. /\ player' \in [Conn -> Player \cup {None}]
      /\ client' \in [Player -> Conn \cup {None}]
      /\ \A q \in Player : client'[q] \in {client[q], None}
  BY DEF PlayerTypes
<1>5. s \in Seq(Player) /\ gone \in SUBSET Found /\ DropAll(s, gone)
  OBVIOUS
<1>6. /\ creatureCheck' = creatureCheck \ gone /\ checked' \subseteq checked
      /\ acceptPackets' = acceptPackets /\ toRelease' \in {toRelease, <<>>}
  OBVIOUS
<1> HIDE DEF s, gone
<1> QED BY <1>2, <1>3, <1>4, <1>5, <1>6, PlayersDropped DEF One

(* ... cleanup those of the creatures to release ...                         *)
LEMMA PlayersCleanedUp ==
  ASSUME PlayersCounted, PlayerTypes,
         DropAll(toRelease, {}),
         toRelease' = <<>>,
         UNCHANGED <<player, client, acceptPackets, checkVars>>
  PROVE  PlayersCounted' /\ PlayerTypes'
<1> USE ConnectionAssumption DEF Player, checkVars
<1>1. \A q \in Player :
        One(client'[q] # None) + One(stage[q] = "Placed" /\ q \notin {})
          + One(q \in checked') + Count(q, toRelease')
            = Claims(q) - Count(q, toRelease)
  <2> TAKE q \in Player
  <2>1. Count(q, toRelease') = 0
    BY PlacesOfFew DEF One
  <2>2. Count(q, toRelease) \in Nat
    BY Places DEF PlayerTypes
  <2> QED BY <2>1, <2>2 DEF Claims, One
<1>2. toRelease \in Seq(Player) /\ {} \in SUBSET Found
  BY DEF PlayerTypes
<1>3. creatureCheck' = creatureCheck \ {} /\ checked' \subseteq checked
  OBVIOUS
<1>f. /\ player' \in [Conn -> Player \cup {None}]
      /\ client' \in [Player -> Conn \cup {None}]
      /\ \A q \in Player, d \in Conn : client'[q] = d <=> player'[d] = q
      /\ \A q \in Player : client'[q] \in {client[q], None}
  BY DEF PlayersCounted, PlayerTypes
<1> QED BY <1>1, <1>2, <1>3, <1>f, PlayersDropped DEF One

(* ... and one more: of a player who leaves the game in the same pass ...    *)
LEMMA PlayerGone ==
  ASSUME PlayersCounted, PlayerTypes, NEW p \in Player, stage[p] = "Placed",
         DropAll(Append(toRelease, p), {p}),
         toRelease' = <<>>,
         creatureCheck' = creatureCheck \ {p},
         UNCHANGED <<player, client, acceptPackets, checked>>
  PROVE  PlayersCounted' /\ PlayerTypes'
<1> USE ConnectionAssumption DEF Player
<1>1. \A q \in Player :
        One(client'[q] # None) + One(stage[q] = "Placed" /\ q \notin {p})
          + One(q \in checked') + Count(q, toRelease')
            = Claims(q) - Count(q, Append(toRelease, p))
  <2> TAKE q \in Player
  <2>1. Count(q, toRelease') = 0
    BY PlacesOfFew DEF One
  <2>2. Count(q, toRelease) \in Nat
    BY Places DEF PlayerTypes
  <2>3. Count(q, Append(toRelease, p)) = Count(q, toRelease) + One(q = p)
    BY PlacesAppended DEF PlayerTypes, One
  <2>4. CASE q = p
    BY <2>1, <2>2, <2>3, <2>4 DEF Claims, One
  <2>5. CASE q # p
    BY <2>1, <2>2, <2>3, <2>5 DEF Claims, One
  <2> QED BY <2>4, <2>5
<1>2. Append(toRelease, p) \in Seq(Player) /\ {p} \in SUBSET Found
  BY DEF PlayerTypes, Found
<1>f. /\ player' \in [Conn -> Player \cup {None}]
      /\ client' \in [Player -> Conn \cup {None}]
      /\ \A q \in Player, d \in Conn : client'[q] = d <=> player'[d] = q
      /\ \A q \in Player : client'[q] \in {client[q], None}
  BY DEF PlayersCounted, PlayerTypes
<1> QED BY <1>1, <1>2, <1>f, PlayersDropped DEF One

(* ... or of one who leaves its check list.                                  *)
LEMMA PlayerUnchecked ==
  ASSUME PlayersCounted, PlayerTypes, NEW p \in checked,
         DropAll(Append(toRelease, p), {}),
         toRelease' = <<>>,
         checked' = checked \ {p},
         UNCHANGED <<player, client, acceptPackets, creatureCheck>>
  PROVE  PlayersCounted' /\ PlayerTypes'
<1> USE ConnectionAssumption DEF Player
<1>0. p \in Player
  BY DEF PlayerTypes
<1>1. \A q \in Player :
        One(client'[q] # None) + One(stage[q] = "Placed" /\ q \notin {})
          + One(q \in checked') + Count(q, toRelease')
            = Claims(q) - Count(q, Append(toRelease, p))
  <2> TAKE q \in Player
  <2>1. Count(q, toRelease') = 0
    BY PlacesOfFew DEF One
  <2>2. Count(q, toRelease) \in Nat
    BY Places DEF PlayerTypes
  <2>3. Count(q, Append(toRelease, p)) = Count(q, toRelease) + One(q = p)
    BY <1>0, PlacesAppended DEF PlayerTypes, One
  <2>4. CASE q = p
    BY <2>1, <2>2, <2>3, <2>4 DEF Claims, One
  <2>5. CASE q # p
    BY <2>1, <2>2, <2>3, <2>5 DEF Claims, One
  <2> QED BY <2>4, <2>5
<1>2. Append(toRelease, p) \in Seq(Player) /\ {} \in SUBSET Found
  BY <1>0 DEF PlayerTypes
<1>3. creatureCheck' = creatureCheck \ {} /\ checked' \subseteq checked
  OBVIOUS
<1>f. /\ player' \in [Conn -> Player \cup {None}]
      /\ client' \in [Player -> Conn \cup {None}]
      /\ \A q \in Player, d \in Conn : client'[q] = d <=> player'[d] = q
      /\ \A q \in Player : client'[q] \in {client[q], None}
  BY DEF PlayersCounted, PlayerTypes
<1> QED BY <1>1, <1>2, <1>3, <1>f, PlayersDropped DEF One


-----------------------------------------------------------------------------
(* From effects to the invariant.                                            *)

(* TypeOK, as far as connections are concerned.                              *)
SocketTypes ==
  /\ connectionState \in [Conn -> ConnectionState]
  /\ isOpen \subseteq Conn
  /\ managed \subseteq Conn
  /\ reading \subseteq Conn
  /\ receivedFirst \subseteq Conn
  /\ handlerOf \in Conn \cup {None}
  /\ hasLock \in BOOLEAN

(* The rest of it.                                                           *)
OtherTypes ==
  /\ eventConnect \in [Conn -> Player \cup {None}]
  /\ autosend \subseteq Conn
  /\ isConnecting \subseteq Player

(* TypeOK is these three and the type of tasks.                              *)
LEMMA TypesSplit ==
  ASSUME TypeOK
  PROVE  SocketTypes /\ OtherTypes /\ PlayerTypes /\ tasks \in Seq(Task)
BY DEF TypeOK, ConnTypeOK, SocketTypes, OtherTypes, PlayerTypes

(* A step with such an effect that keeps the players counted keeps the       *)
(* invariant.                                                                *)
LEMMA StepIsSound ==
  ASSUME IInv, NEW k, NEW new, Effect(k, new),
         SocketTypes', OtherTypes', PlayerTypes', PlayersCounted'
  PROVE  IInv'
<1>1. /\ messageQueue' \in [Conn -> Nat]
      /\ \A c \in Conn : messageQueue'[c] <= MaxBuffered + 2
  BY SentStillBounded DEF Effect
<1>2. messageQueue' \in [Conn -> 0..MaxBuffered + 2]
  BY <1>1, ConnectionAssumption
<1>3. TypeOK'
  BY <1>2 DEF Effect, Shifted, TypeOK, ConnTypeOK, SocketTypes, OtherTypes,
       PlayerTypes
<1> QED
  BY <1>3, TasksStayOrdered, EntriesStillWait, StillNotYet, ReleasesStillFollow,
     PacketsStillBound, SentStillBounded DEF IInv

(* The first task, when the dispatcher takes it.                             *)
LEMMA Executed ==
  ASSUME IInv, NEW op, NEW c \in Conn, Execute(op, c)
  PROVE  /\ tasks # <<>> /\ IsTask(1, op, c) /\ Head(tasks) = tasks[1]
         /\ \A o, d : Takes(1, o, d) <=> o = op /\ d = c
BY DEF IInv, TypeOK, ConnTypeOK, Execute, IsNext, Takes, IsTask

(* Only the dispatcher's tasks are taken.                                    *)
LEMMA NoneTaken ==
  ASSUME NEW op, NEW c
  PROVE  ~Takes(0, op, c)
BY DEF Takes

(* The protocols a step leaves alone.                                        *)
ProtocolsRest(k) ==
  /\ \A c \in Conn : ProtocolStep(k, c)
  /\ scheduled' \subseteq Conn
  /\ acceptPackets' \subseteq Conn

(* A step that changes no protocol and does not release one.                 *)
LEMMA ProtocolsAlone ==
  ASSUME IInv, NEW k, UNCHANGED protocolVars,
         \A c \in Conn : stage[c] = "None" => stage'[c] = "None",
         \A c \in Conn : ~Takes(k, "Release", c)
  PROVE  ProtocolsRest(k)
<1>1. ASSUME NEW c \in Conn
      PROVE  ProtocolStep(k, c)
  <2>1. /\ player' = player /\ acceptPackets' = acceptPackets
        /\ eventConnect' = eventConnect /\ scheduled' = scheduled
        /\ autosend' = autosend
    BY DEF protocolVars
  <2> QED BY <2>1 DEF ProtocolStep
<1> QED BY <1>1 DEF ProtocolsRest, protocolVars, IInv, TypeOK

(* The connections a step leaves alone.                                      *)
LEMMA ConnectionsAlone ==
  ASSUME IInv, NEW k, NEW new, NEW c \in Conn,
         UNCHANGED <<connectionState, receivedFirst>>,
         messageQueue'[c] <= messageQueue[c]
  PROVE  ConnectionStep(k, new, c)
BY DEF ConnectionStep

(* A step that closes at most the connection d.                              *)
Closing(k, new, d) ==
  /\ Shifted(k, new)
  /\ \A c \in Conn : c # d => connectionState'[c] = connectionState[c]
  /\ \/ connectionState'[d] = connectionState[d] /\ new = {}
     \/ connectionState'[d] = "Disconnected" /\ new = {Bind("Release", d)}
  /\ connectionState' \in [Conn -> ConnectionState]
  /\ isOpen' \subseteq Conn
  /\ managed' \subseteq Conn

(* Bind makes tasks.                                                         *)
LEMMA BindIsTask ==
  ASSUME NEW c \in Conn,
         NEW op \in {"OnConnect", "Login", "Release", "Logout"}
  PROVE  /\ Bind(op, c) \in Task
         /\ Bind(op, c).op = op /\ Bind(op, c).conn = c
BY DEF Bind, Task

(* Connection::close ...                                                     *)
LEMMA CloseIsClosing ==
  ASSUME IInv, NEW d \in Conn, NEW force, NEW k, NEW q, Close(d, force, q),
         \/ k = 0 /\ q = tasks
         \/ k = 1 /\ tasks # <<>> /\ q = Tail(tasks)
  PROVE  Closing(k, {Bind("Release", d)}, d)
<1>1. Shifted(k, {Bind("Release", d)})
  BY TaskAdded, TaskTakenAndAdded, BindIsTask DEF IInv, TypeOK, ConnTypeOK, Close
<1> QED BY <1>1 DEF Closing, Close, IInv, TypeOK, ConnTypeOK, ConnectionState

(* ... and what calls it where the connection still is.                      *)
LEMMA DisconnectIsClosing ==
  ASSUME IInv, NEW d \in Conn, NEW k, NEW q,
         Disconnect(d, q) \/ DisconnectClient(d, q),
         \/ k = 0 /\ q = tasks
         \/ k = 1 /\ tasks # <<>> /\ q = Tail(tasks)
  PROVE  \/ Closing(k, {}, d)
         \/ Closing(k, {Bind("Release", d)}, d)
<1>1. CASE Close(d, FALSE, q)
  BY <1>1, CloseIsClosing
<1>2. CASE tasks' = q /\ UNCHANGED <<connectionState, isOpen, managed>>
  <2>1. Shifted(k, {})
    BY <1>2, SameTasks, TaskTaken DEF IInv, TypeOK, ConnTypeOK
  <2> QED BY <1>2, <2>1 DEF Closing, IInv, TypeOK, ConnTypeOK
<1> QED BY <1>1, <1>2 DEF Disconnect, DisconnectClient

(* Such a step has an effect, if the lock of d is free.                      *)
LEMMA ClosingEffect ==
  ASSUME IInv, NEW d \in Conn, NEW k \in {0, 1}, NEW new, Closing(k, new, d),
         messageQueue' \in [Conn -> Nat],
         \A c \in Conn :
           \/ messageQueue'[c] <= messageQueue[c]
           \/ /\ messageQueue'[c] = messageQueue[c] + 1
              /\ connectionState[c] = "Open"
              /\ connectionState'[c] = "Disconnected",
         \A c \in Conn :
           /\ c \in receivedFirst => c \in receivedFirst'
           /\ c \in receivedFirst' =>
                c \in receivedFirst \/ connectionState[c] = "Open",
         hasLock' => hasLock /\ handlerOf' = handlerOf /\ handlerOf # d,
         ProtocolsRest(k)
  PROVE  Effect(k, new)
<1>1. new \subseteq Task /\ \A t \in new : Added(t)
  BY BindIsTask DEF Closing, Added
<1>2. \A c \in Conn : ConnectionStep(k, new, c)
  BY DEF ConnectionStep, Closing
<1> QED BY <1>1, <1>2 DEF Effect, Closing, ProtocolsRest


-----------------------------------------------------------------------------
(* The network thread's steps.                                               *)

(* They leave the protocols and the players alone.                           *)
LEMMA NetworkAlone ==
  ASSUME IInv, UNCHANGED <<protocolVars, playerVars>>
  PROVE  /\ ProtocolsRest(0)
         /\ OtherTypes' /\ PlayerTypes' /\ PlayersCounted'
<1>1. \A c \in Conn : stage[c] = "None" => stage'[c] = "None"
  BY DEF playerVars
<1>2. ProtocolsRest(0)
  BY <1>1, NoneTaken, ProtocolsAlone
<1>3. OtherTypes'
  BY TypesSplit DEF IInv, OtherTypes, protocolVars, playerVars
<1>4. PlayerTypes' /\ PlayersCounted'
  BY PlayersKept, TypesSplit DEF IInv, protocolVars, playerVars
<1> QED BY <1>2, <1>3, <1>4

(* A handler that closes its connection, when the lock is free.              *)
LEMMA NetworkCloses ==
  ASSUME IInv, NEW c \in Conn, NEW force, Close(c, force, tasks),
         UNCHANGED <<protocolVars, playerVars>>,
         ~hasLock',
         messageQueue' \in [Conn -> Nat],
         \A d \in Conn :
           \/ messageQueue'[d] <= messageQueue[d]
           \/ /\ d = c
              /\ messageQueue'[c] = messageQueue[c] + 1
              /\ connectionState[c] = "Open",
         \/ receivedFirst' = receivedFirst
         \/ /\ receivedFirst' = receivedFirst \cup {c}
            /\ connectionState[c] = "Open",
         reading' \subseteq Conn,
         handlerOf' \in Conn \cup {None},
         hasLock' \in BOOLEAN
  PROVE  IInv'
<1> DEFINE new == {Bind("Release", c)}
<1>1. Closing(0, new, c)
  BY CloseIsClosing
<1>2. connectionState'[c] = "Disconnected"
  BY DEF Close, IInv, TypeOK, ConnTypeOK
<1>3. Effect(0, new)
  BY <1>1, <1>2, ClosingEffect, NetworkAlone
<1>4. SocketTypes'
  BY <1>1 DEF Closing, SocketTypes, IInv, TypeOK, ConnTypeOK
<1> QED BY <1>3, <1>4, StepIsSound, NetworkAlone

(* A connection is accepted.                                                 *)
LEMMA AcceptStep ==
  ASSUME IInv, NEW c \in Conn, Accept(c), UNCHANGED <<protocolVars, playerVars>>
  PROVE  IInv'
<1> DEFINE t == Bind("OnConnect", c)
<1> USE DEF IInv
<1>1. Shifted(0, {t}) /\ {t} \subseteq Task
  BY TaskAdded, BindIsTask DEF Accept, TypeOK, ConnTypeOK
<1>2. connectionState[c] = "Pending" /\ connectionState'[c] = "Open"
  BY DEF Accept, TypeOK, ConnTypeOK
<1>3. Added(t)
  BY <1>2, BindIsTask DEF Added
<1>4. ASSUME NEW d \in Conn
      PROVE  ConnectionStep(0, {t}, d)
  <2>1. CASE d = c
    BY <1>2, <2>1 DEF ConnectionStep, Accept, TypeOK, ConnTypeOK
  <2>2. CASE d # c
    BY <2>2 DEF ConnectionStep, Accept, TypeOK, ConnTypeOK
  <2> QED BY <2>1, <2>2
<1>5. messageQueue' \in [Conn -> Nat]
  BY DEF Accept, TypeOK, ConnTypeOK
<1>6. Effect(0, {t})
  BY <1>1, <1>3, <1>4, <1>5, NetworkAlone DEF Effect, ProtocolsRest, Accept,
     PacketsBound
<1>7. SocketTypes'
  BY DEF Accept, SocketTypes, TypeOK, ConnTypeOK, ConnectionState
<1> QED BY <1>6, <1>7, StepIsSound, NetworkAlone

(* A first message posts the login; onConnect was executed before.           *)
LEMMA FirstMessageStep ==
  ASSUME IInv, NEW c \in Conn, FirstMessage(c), handlerOf = None,
         UNCHANGED <<protocolVars, playerVars>>
  PROVE  IInv'
<1> DEFINE t == Bind("Login", c)
<1> USE DEF IInv
<1>1. Shifted(0, {t}) /\ {t} \subseteq Task
  BY TaskAdded, BindIsTask DEF FirstMessage, TypeOK, ConnTypeOK
<1>2. ASSUME NEW i \in DOMAIN tasks, IsTask(i, "OnConnect", c)
      PROVE  FALSE
  BY <1>2 DEF FirstMessage, SentBounded
<1>3. Added(t)
  BY <1>2, BindIsTask DEF Added, FirstMessage
<1>4. ASSUME NEW d \in Conn
      PROVE  ConnectionStep(0, {t}, d)
  BY DEF ConnectionStep, FirstMessage, TypeOK, ConnTypeOK
<1>5. messageQueue' \in [Conn -> Nat]
  BY DEF FirstMessage, TypeOK, ConnTypeOK
<1>6. Effect(0, {t})
  BY <1>1, <1>3, <1>4, <1>5, NetworkAlone DEF Effect, ProtocolsRest, FirstMessage,
     PacketsBound
<1>7. SocketTypes'
  BY DEF FirstMessage, SocketTypes, TypeOK, ConnTypeOK
<1> QED BY <1>6, <1>7, StepIsSound, NetworkAlone

(* Handlers that close no connection and add no task.                        *)
LEMMA QuietStep ==
  ASSUME IInv, UNCHANGED <<connectionState, receivedFirst, tasks>>,
         UNCHANGED <<protocolVars, playerVars>>,
         messageQueue' \in [Conn -> Nat],
         \A c \in Conn :
           \/ messageQueue'[c] <= messageQueue[c]
           \/ /\ messageQueue'[c] = messageQueue[c] + 1
              /\ connectionState[c] = "Open"
              /\ messageQueue[c] < MaxBuffered /\ c \in autosend,
         hasLock' =>
           \/ hasLock /\ handlerOf' = handlerOf
           \/ handlerOf' \in acceptPackets /\ connectionState[handlerOf'] = "Open",
         isOpen' \subseteq Conn,
         reading' \subseteq Conn,
         managed' \subseteq Conn,
         handlerOf' \in Conn \cup {None},
         hasLock' \in BOOLEAN
  PROVE  IInv'
<1>1. Shifted(0, {})
  BY SameTasks DEF IInv, TypeOK, ConnTypeOK
<1>2. \A c \in Conn : ConnectionStep(0, {}, c)
  BY DEF ConnectionStep
<1>3. Effect(0, {})
  BY <1>1, <1>2, NetworkAlone DEF Effect, ProtocolsRest
<1>4. SocketTypes'
  BY TypesSplit DEF IInv, SocketTypes
<1> QED BY <1>3, <1>4, StepIsSound, NetworkAlone


(* Every handler of the network thread keeps the invariant.                  *)
LEMMA HandlerStep ==
  ASSUME IInv, NEW c \in Conn, Network(c)
  PROVE  IInv'
<1>a. handlerOf = None /\ UNCHANGED <<protocolVars, playerVars>>
  BY DEF Network, Handler
<1>b. ~hasLock
  BY <1>a, ConnectionAssumption DEF PacketsBound, IInv, TypeOK
<1>c. /\ messageQueue \in [Conn -> 0..MaxBuffered + 2]
      /\ messageQueue \in [Conn -> Nat]
      /\ isOpen \subseteq Conn /\ managed \subseteq Conn /\ reading \subseteq Conn
      /\ handlerOf \in Conn \cup {None} /\ hasLock \in BOOLEAN
  BY ConnectionAssumption DEF IInv, TypeOK, ConnTypeOK
<1>d. UNCHANGED messageQueue =>
        /\ messageQueue' \in [Conn -> Nat]
        /\ \A d \in Conn : messageQueue'[d] <= messageQueue[d]
  BY <1>c
<1>1. CASE Accept(c)
  BY <1>a, <1>1, AcceptStep
<1>2. CASE ReadFails(c)
  BY <1>2, <1>a, <1>b, <1>c, <1>d, NetworkCloses DEF ReadFails, CloseAndReturn
<1>3. CASE TooManyPackets(c)
  BY <1>3, <1>a, <1>b, <1>c, <1>d, NetworkCloses DEF TooManyPackets, CloseAndReturn
<1>4. CASE ReadIgnored(c)
  BY <1>4, <1>a, <1>b, <1>c, QuietStep DEF ReadIgnored
<1>5. CASE FirstMessage(c)
  BY <1>a, <1>5, FirstMessageStep
<1>6. CASE FirstMessageRefused(c)
  <2>1. /\ messageQueue' \in [Conn -> Nat]
        /\ \A d \in Conn :
             \/ messageQueue'[d] <= messageQueue[d]
             \/ /\ d = c
                /\ messageQueue'[c] = messageQueue[c] + 1
                /\ connectionState[c] = "Open"
    <3>1. CASE Send(c)
      BY <1>c, <3>1 DEF Send
    <3>2. CASE UNCHANGED messageQueue
      BY <1>c, <3>2
    <3> QED BY <1>6, <3>1, <3>2 DEF FirstMessageRefused
  <2> QED BY <1>6, <1>a, <1>b, <1>c, <2>1, NetworkCloses DEF FirstMessageRefused
<1>7. CASE Written(c)
  <2>1. /\ messageQueue' \in [Conn -> Nat]
        /\ \A d \in Conn : messageQueue'[d] <= messageQueue[d]
    BY <1>7, <1>c DEF Written
  <2>2. isOpen' \subseteq Conn
    BY <1>7, <1>c DEF Written
  <2> QED BY <1>7, <1>a, <1>b, <1>c, <2>1, <2>2, QuietStep DEF Written, netVars
<1>8. CASE WriteFails(c)
  <2>1. /\ messageQueue' \in [Conn -> Nat]
        /\ \A d \in Conn : messageQueue'[d] <= messageQueue[d]
    BY <1>8, <1>c DEF WriteFails
  <2> QED BY <1>8, <1>a, <1>b, <1>c, <2>1, NetworkCloses DEF WriteFails, CloseAndReturn
<1>9. CASE HandleTimeout(c)
  BY <1>9, <1>a, <1>b, <1>c, <1>d, NetworkCloses DEF HandleTimeout, CloseAndReturn
<1> QED
  BY <1>1, <1>2, <1>3, <1>4, <1>5, <1>6, <1>7, <1>8, <1>9 DEF Network, Handler

(* So does its end ...                                                       *)
LEMMA NetReturnsStep ==
  ASSUME IInv, NetReturns
  PROVE  IInv'
BY QuietStep DEF NetReturns, HandlerReturns, IInv, TypeOK, ConnTypeOK

(* ... and the beginning of parsePacket.                                     *)
LEMMA ParseBeginsStep ==
  ASSUME IInv, NEW c \in Conn, ParseBegins(c)
  PROVE  IInv'
BY QuietStep DEF ParseBegins, IInv, TypeOK, ConnTypeOK

(* Packets are of a protocol that has a player, and of an open connection.   *)
LEMMA ParseEndsStep ==
  ASSUME IInv, ParseEnds
  PROVE  IInv'
<1> DEFINE c == handlerOf
           module == [op |-> "Module", conn |-> c, player |-> player[c]]
           logout == Bind("Logout", c)
<1>1. /\ hasLock /\ c \in acceptPackets /\ c \in Conn
      /\ connectionState[c] = "Open" /\ player[c] # None
  BY DEF ParseEnds, PacketsBound, IInv, TypeOK
<1>a. /\ messageQueue \in [Conn -> Nat]
      /\ isOpen \subseteq Conn /\ managed \subseteq Conn /\ reading \subseteq Conn
      /\ connectionState \in [Conn -> ConnectionState]
      /\ receivedFirst \subseteq Conn /\ tasks \in Seq(Task)
      /\ player[c] \in Player
  BY <1>1, ConnectionAssumption DEF IInv, TypeOK, ConnTypeOK
<1>2. module \in Task /\ logout \in Task /\ module.op # logout.op
  BY <1>1, <1>a, BindIsTask DEF Task, Player
<1>3. /\ UNCHANGED <<messageQueue, receivedFirst, protocolVars, playerVars>>
      /\ reading' = reading \cup {c} /\ handlerOf' = None /\ hasLock' = FALSE
  BY DEF ParseEnds
<1>b. /\ messageQueue' \in [Conn -> Nat]
      /\ \A d \in Conn : messageQueue'[d] <= messageQueue[d]
  BY <1>3, <1>a
<1>4. CASE UNCHANGED <<connectionState, isOpen, managed, tasks>>
  BY <1>1, <1>3, <1>4, <1>a, <1>b, QuietStep
<1>5. CASE Close(c, FALSE, tasks)
  BY <1>1, <1>3, <1>5, <1>a, <1>b, NetworkCloses
<1>6. ASSUME NEW new, Shifted(0, new), new \subseteq {module, logout},
             UNCHANGED <<connectionState, isOpen, managed>>
      PROVE  IInv'
  <2>1. ASSUME NEW t \in new
        PROVE  Added(t)
    BY <1>1, <1>6, <2>1, BindIsTask DEF Added
  <2>2. \A d \in Conn : ConnectionStep(0, new, d)
    BY <1>3, <1>6, <1>b, ConnectionsAlone
  <2>3. Effect(0, new)
    BY <1>2, <1>3, <1>6, <1>a, <2>1, <2>2, NetworkAlone DEF Effect, ProtocolsRest
  <2>4. SocketTypes'
    BY <1>1, <1>3, <1>6, <1>a DEF SocketTypes
  <2> QED BY <1>3, <2>3, <2>4, StepIsSound, NetworkAlone
<1>7. CASE /\ tasks' = Append(tasks, module)
           /\ UNCHANGED <<connectionState, isOpen, managed>>
  BY <1>2, <1>6, <1>7, <1>a, TaskAdded
<1>8. CASE /\ tasks' = tasks \o <<module, logout>>
           /\ UNCHANGED <<connectionState, isOpen, managed>>
  BY <1>2, <1>6, <1>8, <1>a, TwoAdded
<1> QED BY <1>4, <1>5, <1>7, <1>8 DEF ParseEnds


-----------------------------------------------------------------------------
(* The dispatcher's tasks.                                                   *)

(* A task that closes no connection and adds no task.                        *)
LEMMA TaskOnly ==
  ASSUME IInv, NEW op, NEW c \in Conn, Execute(op, c), tasks' = Rest,
         UNCHANGED connVars
  PROVE  /\ Shifted(1, {}) /\ SocketTypes'
         /\ ProtocolsRest(1) => Effect(1, {})
<1>1. Shifted(1, {})
  BY TaskTaken, Executed DEF Rest, IInv, TypeOK, ConnTypeOK
<1>2. /\ connectionState' = connectionState /\ isOpen' = isOpen
      /\ managed' = managed /\ messageQueue' = messageQueue
      /\ reading' = reading /\ receivedFirst' = receivedFirst
      /\ handlerOf' = handlerOf /\ hasLock' = hasLock
  BY DEF connVars, netVars
<1>3. messageQueue' \in [Conn -> Nat] /\ \A d \in Conn : messageQueue'[d] <= messageQueue[d]
  BY <1>2, ConnectionAssumption DEF IInv, TypeOK, ConnTypeOK
<1>4. \A d \in Conn : ConnectionStep(1, {}, d)
  BY <1>2, <1>3, ConnectionsAlone
<1>5. SocketTypes'
  BY <1>2, TypesSplit DEF SocketTypes, IInv
<1> QED BY <1>1, <1>2, <1>3, <1>4, <1>5 DEF Effect, ProtocolsRest

(* What holds of a connection whose login or connect is taken.               *)
LEMMA EntryTaken ==
  ASSUME IInv, NEW op, NEW c \in Conn, Execute(op, c), op \in {"Login", "Connect"}
  PROVE  /\ player[c] = None /\ c \notin acceptPackets /\ c \notin scheduled
         /\ op = "Login" => stage[c] = "None"
         /\ op = "Connect" => Head(tasks).player \in Player
         /\ hasLock => handlerOf # c
  BY Executed DEF IInv, EntriesWait, Entering, IsEntry, IsTask, PacketsBound

(* What a step preserves that changes no protocol and no player.             *)
LEMMA AloneTypes ==
  ASSUME IInv, UNCHANGED <<protocolVars, playerVars>>
  PROVE  OtherTypes' /\ PlayerTypes' /\ PlayersCounted'
BY NetworkAlone

(* ProtocolGame::onConnect is the first to send.                             *)
LEMMA OnConnectStep ==
  ASSUME IInv, NEW c \in Conn, OnConnect(c)
  PROVE  IInv'
<1>1. Shifted(1, {})
  BY TaskTaken, Executed DEF OnConnect, Rest, IInv, TypeOK, ConnTypeOK
<1>2. \A o, d : Takes(1, o, d) <=> o = "OnConnect" /\ d = c
  BY Executed DEF OnConnect
<1>3. ProtocolsRest(1)
  BY <1>2, ProtocolsAlone DEF OnConnect, playerVars
<1>4. /\ connectionState' = connectionState /\ isOpen' = isOpen
      /\ managed' = managed /\ reading' = reading
      /\ receivedFirst' = receivedFirst
      /\ handlerOf' = handlerOf /\ hasLock' = hasLock
  BY DEF OnConnect, netVars
<1>5. messageQueue \in [Conn -> Nat]
  BY ConnectionAssumption DEF IInv, TypeOK, ConnTypeOK
<1>6. messageQueue' \in [Conn -> Nat]
  BY <1>5 DEF OnConnect, Send
<1>7. ASSUME NEW d \in Conn
      PROVE  ConnectionStep(1, {}, d)
  BY <1>2, <1>4, <1>5 DEF OnConnect, Send, ConnectionStep
<1>8. Effect(1, {})
  BY <1>1, <1>3, <1>4, <1>6, <1>7 DEF Effect, ProtocolsRest
<1>9. SocketTypes'
  BY <1>4, TypesSplit DEF SocketTypes, IInv
<1> QED BY <1>8, <1>9, StepIsSound, AloneTypes DEF OnConnect

(* A logout that is refused changes nothing.                                 *)
LEMMA LogoutRefusedStep ==
  ASSUME IInv, NEW c \in Conn, LogoutRefused(c)
  PROVE  IInv'
<1>1. \A d : ~Takes(1, "Release", d)
  BY Executed DEF LogoutRefused
<1>2. ProtocolsRest(1)
  BY <1>1, ProtocolsAlone DEF LogoutRefused, playerVars
<1> QED BY <1>2, TaskOnly, StepIsSound, AloneTypes DEF LogoutRefused

(* Neither does the script of a module, here.                                *)
LEMMA ModuleStep ==
  ASSUME IInv, NEW c \in Conn, Module(c)
  PROVE  IInv'
<1>1. \A d : ~Takes(1, "Release", d)
  BY Executed DEF Module
<1>2. ProtocolsRest(1)
  BY <1>1, ProtocolsAlone DEF Module, playerVars
<1> QED BY <1>2, TaskOnly, StepIsSound, AloneTypes DEF Module

(* The last message of disconnectClient.                                     *)
LEMMA LastMessage ==
  ASSUME IInv, NEW c \in Conn, NEW q, DisconnectClient(c, q)
  PROVE  /\ messageQueue' \in [Conn -> Nat]
         /\ receivedFirst' = receivedFirst /\ reading' = reading
         /\ handlerOf' = handlerOf /\ hasLock' = hasLock
         /\ \A d \in Conn :
              \/ messageQueue'[d] <= messageQueue[d]
              \/ /\ messageQueue'[d] = messageQueue[d] + 1
                 /\ connectionState[d] = "Open"
                 /\ connectionState'[d] = "Disconnected"
<1>1. messageQueue \in [Conn -> Nat] /\ connectionState \in [Conn -> ConnectionState]
  BY ConnectionAssumption DEF IInv, TypeOK, ConnTypeOK
<1>2. CASE Send(c) /\ Close(c, FALSE, q)
  <2>1. messageQueue' \in [Conn -> Nat]
    BY <1>1, <1>2 DEF Send
  <2>2. ASSUME NEW d \in Conn
        PROVE  \/ messageQueue'[d] <= messageQueue[d]
               \/ /\ messageQueue'[d] = messageQueue[d] + 1
                  /\ connectionState[d] = "Open"
                  /\ connectionState'[d] = "Disconnected"
    <3>1. CASE d = c
      BY <1>1, <1>2, <3>1 DEF Send, Close
    <3>2. CASE d # c
      BY <1>1, <1>2, <3>2 DEF Send, Close
    <3> QED BY <3>1, <3>2
  <2> QED BY <2>1, <2>2 DEF DisconnectClient, netVars
<1>3. CASE UNCHANGED messageQueue
  BY <1>1, <1>3 DEF DisconnectClient, netVars
<1> QED BY <1>2, <1>3 DEF DisconnectClient

(* A task of c that turns its client away.                                   *)
LEMMA TurnedAway ==
  ASSUME IInv, NEW op, NEW c \in Conn, Execute(op, c), DisconnectClient(c, Rest),
         hasLock => handlerOf # c,
         ProtocolsRest(1),
         OtherTypes', PlayerTypes', PlayersCounted'
  PROVE  IInv'
<1>1. ASSUME NEW new, Closing(1, new, c)
      PROVE  IInv'
  <2>1. Effect(1, new)
    BY <1>1, ClosingEffect, LastMessage
  <2>2. SocketTypes'
    BY <1>1, LastMessage, TypesSplit DEF Closing, SocketTypes, IInv
  <2> QED BY <2>1, <2>2, StepIsSound
<1>2. Closing(1, {}, c) \/ Closing(1, {Bind("Release", c)}, c)
  <2>1. tasks # <<>>
    BY Executed
  <2>2. DisconnectClient(c, Tail(tasks))
    BY DEF Rest
  <2> QED BY <2>1, <2>2, DisconnectIsClosing
<1> QED BY <1>1, <1>2

(* The character is in the game: its login is turned away.                   *)
LEMMA LoginRefusedStep ==
  ASSUME IInv, NEW c \in Conn, LoginRefused(c)
  PROVE  IInv'
<1>1. \A d : ~Takes(1, "Release", d)
  BY Executed DEF LoginRefused
<1>2. ProtocolsRest(1)
  BY <1>1, ProtocolsAlone DEF LoginRefused, playerVars
<1> QED BY <1>2, TurnedAway, AloneTypes, EntryTaken DEF LoginRefused

(* A login that fails leaves a player whom only its protocol holds.          *)
LEMMA LoginFailsStep ==
  ASSUME IInv, NEW c \in Conn, LoginFails(c)
  PROVE  IInv'
<1>1. \A o, d : Takes(1, o, d) <=> o = "Login" /\ d = c
  BY Executed DEF LoginFails
<1>2. /\ player[c] = None /\ c \notin acceptPackets /\ stage[c] = "None"
      /\ hasLock => handlerOf # c
  BY EntryTaken DEF LoginFails
<1>3. PlayersCounted' /\ PlayerTypes'
  BY <1>2, PlayerMade, TypesSplit DEF LoginFails, IInv
<1>4. OtherTypes'
  BY TypesSplit DEF LoginFails, OtherTypes, IInv
<1>5. ASSUME NEW d \in Conn
      PROVE  ProtocolStep(1, d)
  BY <1>1 DEF LoginFails, ProtocolStep, TakesEntry, IInv, TypeOK, Player
<1>6. ProtocolsRest(1)
  BY <1>5 DEF ProtocolsRest, LoginFails, IInv, TypeOK
<1> QED BY <1>2, <1>3, <1>4, <1>6, TurnedAway DEF LoginFails

(* A login that enters the game: nobody of that name was there.              *)
LEMMA LoginPlacesStep ==
  ASSUME IInv, NEW c \in Conn, LoginPlaces(c)
  PROVE  IInv'
<1>1. \A o, d : Takes(1, o, d) <=> o = "Login" /\ d = c
  BY Executed DEF LoginPlaces
<1>2. /\ player[c] = None /\ c \notin acceptPackets /\ stage[c] = "None"
  BY EntryTaken DEF LoginPlaces
<1>3. PlayersCounted' /\ PlayerTypes'
  BY <1>2, PlayerEnters, TypesSplit DEF LoginPlaces, IInv
<1>4. OtherTypes'
  BY TypesSplit DEF LoginPlaces, OtherTypes, IInv
<1>5. ASSUME NEW d \in Conn
      PROVE  ProtocolStep(1, d)
  BY <1>1, ConnectionAssumption
  DEF LoginPlaces, ProtocolStep, TakesEntry, IInv, TypeOK, Player
<1>6. ProtocolsRest(1)
  BY <1>5 DEF ProtocolsRest, LoginPlaces, IInv, TypeOK
<1> QED BY <1>3, <1>4, <1>6, TaskOnly, StepIsSound DEF LoginPlaces


(* A step that closes the connection d without a message.                    *)
LEMMA Disconnects ==
  ASSUME IInv, NEW d \in Conn, NEW k \in {0, 1}, NEW q, Disconnect(d, q),
         \/ k = 0 /\ q = tasks
         \/ k = 1 /\ tasks # <<>> /\ q = Tail(tasks),
         Unlocked(d),
         ProtocolsRest(k),
         OtherTypes', PlayerTypes', PlayersCounted'
  PROVE  IInv'
<1>1. /\ messageQueue' = messageQueue /\ receivedFirst' = receivedFirst
      /\ reading' = reading /\ handlerOf' = handlerOf /\ hasLock' = hasLock
  BY DEF Disconnect, netVars
<1>2. messageQueue' \in [Conn -> Nat] /\ \A c \in Conn : messageQueue'[c] <= messageQueue[c]
  BY <1>1, ConnectionAssumption DEF IInv, TypeOK, ConnTypeOK
<1>3. hasLock' => hasLock /\ handlerOf' = handlerOf /\ handlerOf # d
  BY <1>1 DEF Unlocked
<1>4. ASSUME NEW new, Closing(k, new, d)
      PROVE  IInv'
  <2>1. Effect(k, new)
    BY <1>1, <1>2, <1>3, <1>4, ClosingEffect
  <2>2. SocketTypes'
    BY <1>1, <1>4, TypesSplit DEF Closing, SocketTypes, IInv
  <2> QED BY <2>1, <2>2, StepIsSound
<1>5. Closing(k, {}, d) \/ Closing(k, {Bind("Release", d)}, d)
  BY DisconnectIsClosing
<1> QED BY <1>4, <1>5

(* A login that waits for the release of the player's client.                *)
LEMMA LoginReplacesStep ==
  ASSUME IInv, NEW c \in Conn, LoginReplaces(c)
  PROVE  IInv'
<1>1. \A o, d : Takes(1, o, d) <=> o = "Login" /\ d = c
  BY Executed DEF LoginReplaces
<1>2. PICK p \in Found :
        /\ client[p] # None /\ Unlocked(client[p])
        /\ Disconnect(client[p], Rest)
        /\ isConnecting' = isConnecting \cup {p}
        /\ eventConnect' = [eventConnect EXCEPT ![c] = p]
  BY DEF LoginReplaces
<1>3. p \in Player /\ client[p] \in Conn
  BY <1>2, TypesSplit DEF Found, IInv, PlayerTypes
<1>4. player[c] = None /\ c \notin acceptPackets /\ c \notin scheduled
  BY EntryTaken DEF LoginReplaces
<1>5. PlayersCounted' /\ PlayerTypes'
  BY PlayersKept, TypesSplit DEF LoginReplaces, IInv
<1>6. OtherTypes'
  BY <1>2, <1>3, TypesSplit DEF LoginReplaces, OtherTypes, IInv, Player
<1>7. ASSUME NEW d \in Conn
      PROVE  ProtocolStep(1, d)
  BY <1>1, <1>2, <1>3, <1>4, TypesSplit
  DEF LoginReplaces, ProtocolStep, OtherTypes, IInv
<1>8. ProtocolsRest(1)
  BY <1>7 DEF ProtocolsRest, LoginReplaces, IInv, TypeOK
<1>9. Disconnect(client[p], Tail(tasks)) /\ tasks # <<>>
  BY <1>2, Executed DEF Rest, LoginReplaces
<1> QED BY <1>2, <1>3, <1>5, <1>6, <1>8, <1>9, Disconnects

(* A protocol whose entry was taken plays p.                                 *)
LEMMA Attached ==
  ASSUME IInv, NEW op \in {"Login", "Connect"}, NEW c \in Conn, Execute(op, c),
         NEW p \in Player, Attach(c, p),
         scheduled' = scheduled,
         autosend' = autosend \/ (op = "Login" /\ autosend' = autosend \cup {c}),
         eventConnect' \in {eventConnect, [eventConnect EXCEPT ![c] = None]}
  PROVE  IInv'
<1>1. \A o, d : Takes(1, o, d) <=> o = op /\ d = c
  BY Executed
<1>2. player[c] = None /\ c \notin acceptPackets /\ c \notin scheduled
  BY EntryTaken
<1>3. PlayersCounted' /\ PlayerTypes'
  BY <1>2, PlayerAttached, TypesSplit DEF Attach, IInv
<1>4. OtherTypes'
  BY TypesSplit DEF Attach, OtherTypes, IInv
<1>5. ASSUME NEW d \in Conn
      PROVE  ProtocolStep(1, d)
  <2>1. p # None
    BY ConnectionAssumption DEF Player
  <2>2. CASE d = c
    BY <1>1, <1>2, <2>1, <2>2, TypesSplit
    DEF Attach, ProtocolStep, TakesEntry, OtherTypes, PlayerTypes, IInv
  <2>3. CASE d # c
    BY <1>1, <2>3, TypesSplit
    DEF Attach, ProtocolStep, TakesEntry, OtherTypes, PlayerTypes, IInv
  <2> QED BY <2>2, <2>3
<1>6. ProtocolsRest(1)
  BY <1>5 DEF ProtocolsRest, Attach, IInv, TypeOK
<1> QED BY <1>3, <1>4, <1>6, TaskOnly, StepIsSound DEF Attach

(* It has lost its connection.                                               *)
LEMMA Expired ==
  ASSUME IInv, NEW op \in {"Login", "Connect"}, NEW c \in Conn, Execute(op, c),
         NEW p \in Player, ConnectExpired(c, p),
         scheduled' = scheduled,
         autosend' = autosend \/ (op = "Login" /\ autosend' = autosend \cup {c}),
         eventConnect' \in {eventConnect, [eventConnect EXCEPT ![c] = None]}
  PROVE  IInv'
<1>1. \A o, d : Takes(1, o, d) <=> o = op /\ d = c
  BY Executed
<1>2. c \notin scheduled
  BY EntryTaken
<1>3. PlayersCounted' /\ PlayerTypes'
  BY PlayersKept, TypesSplit DEF ConnectExpired, playerVars, IInv
<1>4. OtherTypes'
  BY TypesSplit DEF ConnectExpired, OtherTypes, playerVars, IInv
<1>5. ASSUME NEW d \in Conn
      PROVE  ProtocolStep(1, d)
  <2>1. CASE d = c
    BY <1>1, <1>2, <2>1, TypesSplit
    DEF ConnectExpired, ProtocolStep, playerVars, OtherTypes, IInv
  <2>2. CASE d # c
    BY <1>1, <2>2, TypesSplit
    DEF ConnectExpired, ProtocolStep, playerVars, OtherTypes, IInv
  <2> QED BY <2>1, <2>2
<1>6. ProtocolsRest(1)
  BY <1>5 DEF ProtocolsRest, ConnectExpired, IInv, TypeOK
<1> QED BY <1>3, <1>4, <1>6, TaskOnly, StepIsSound DEF ConnectExpired

(* A login whose player has no client takes him over or is too late.         *)
LEMMA LoginConnectsStep ==
  ASSUME IInv, NEW c \in Conn, LoginConnects(c)
  PROVE  IInv'
<1>1. PICK p \in Found : client[p] = None /\ ConnectTo(c, p)
  BY DEF LoginConnects
<1>2. p \in Player /\ stage[p] = "Placed"
  BY <1>1 DEF Found
<1>3. ConnectExpired(c, p) \/ Attach(c, p)
  BY <1>1, <1>2 DEF ConnectTo, ConnectRefused
<1> QED BY <1>2, <1>3, Attached, Expired DEF LoginConnects

(* So does the connect it has scheduled; it may also be refused.             *)
LEMMA ConnectStep ==
  ASSUME IInv, NEW c \in Conn, Connect(c)
  PROVE  IInv'
<1> DEFINE p == Head(tasks).player
<1>1. Execute("Connect", c) /\ p \in Player /\ c \notin scheduled
  BY EntryTaken DEF Connect
<1>2. /\ scheduled' = scheduled /\ autosend' = autosend
      /\ eventConnect' = [eventConnect EXCEPT ![c] = None]
  BY DEF Connect
<1>3. CASE ConnectExpired(c, p) \/ Attach(c, p)
  BY <1>1, <1>2, <1>3, Attached, Expired
<1>4. CASE ConnectRefused(c, p)
  <2>1. \A o, d : Takes(1, o, d) <=> o = "Connect" /\ d = c
    BY <1>1, Executed
  <2>2. PlayersCounted' /\ PlayerTypes'
    BY <1>4, PlayersKept, TypesSplit DEF ConnectRefused, playerVars, IInv
  <2>3. OtherTypes'
    BY <1>2, <1>4, TypesSplit DEF ConnectRefused, OtherTypes, playerVars, IInv
  <2>4. ASSUME NEW d \in Conn
        PROVE  ProtocolStep(1, d)
    BY <1>1, <1>2, <1>4, <2>1, TypesSplit
    DEF ConnectRefused, ProtocolStep, playerVars, OtherTypes, IInv
  <2>5. ProtocolsRest(1)
    BY <1>2, <1>4, <2>4 DEF ProtocolsRest, ConnectRefused, IInv, TypeOK
  <2>6. hasLock => handlerOf # c
    BY DEF Connect, Unlocked
  <2> QED BY <1>1, <1>4, <2>2, <2>3, <2>5, <2>6, TurnedAway DEF ConnectRefused
<1> QED BY <1>3, <1>4 DEF Connect, ConnectTo


(* ProtocolGame::release: the player is deleted if only the protocol held    *)
(* him.                                                                      *)
LEMMA ReleaseStep ==
  ASSUME IInv, NEW c \in Conn, Release(c)
  PROVE  IInv'
<1> DEFINE p == player[c]
<1>1. \A o, d : Takes(1, o, d) <=> o = "Release" /\ d = c
  BY Executed DEF Release
<1>2. /\ autosend' = autosend \ {c}
      /\ UNCHANGED <<acceptPackets, eventConnect, scheduled, isConnecting,
                     checkVars, toRelease>>
      /\ UNCHANGED connVars
  BY DEF Release
<1>3. OtherTypes'
  BY <1>2, TypesSplit DEF OtherTypes, IInv
<1>4. ASSUME \A d \in Conn :
               /\ player'[d] = player[d] \/ (d = c /\ player'[d] = None)
               /\ stage[d] = "None" => stage'[d] = "None"
      PROVE  ProtocolsRest(1)
  <2>1. ASSUME NEW d \in Conn
        PROVE  ProtocolStep(1, d)
    BY <1>1, <1>2, <1>4, <2>1 DEF ProtocolStep
  <2> QED BY <1>2, <2>1 DEF ProtocolsRest, IInv, TypeOK
<1>5. CASE p # None
  <2>1. p \in Player /\ client[p] = c
    BY <1>5 DEF IInv, TypeOK, PlayersCounted
  <2>2. /\ client' = [client EXCEPT ![p] = None]
        /\ player' = [player EXCEPT ![c] = None]
        /\ DropAll(<<p>>, {})
    BY <1>5, <2>1 DEF Release
  <2>3. PlayersCounted' /\ PlayerTypes'
    BY <1>2, <2>1, <2>2, PlayerReleased, TypesSplit DEF IInv
  <2>4. ASSUME NEW d \in Conn, stage[d] = "None"
        PROVE  stage'[d] = "None"
    <3>1. client[d] = None /\ d # p
      <4>1. refs[d] = Claims(d) /\ refs[d] = 0 /\ Count(d, toRelease) \in Nat
        BY <2>4, Places, TypesSplit DEF IInv, PlayersCounted, Player, PlayerTypes
      <4>2. client[d] = None
        BY <4>1 DEF Claims, One
      <4> QED BY <2>1, <4>2, ConnectionAssumption
    <3>2. Count(d, <<p>>) = 0
      BY <2>1, <3>1, PlacesOfFew DEF One
    <3> QED BY <2>2, <2>4, <3>2 DEF DropAll, Player
  <2>5. ProtocolsRest(1)
    BY <1>4, <2>2, <2>4 DEF IInv, TypeOK
  <2> QED BY <1>2, <1>3, <2>3, <2>5, TaskOnly, StepIsSound DEF Release
<1>6. CASE p = None
  <2>1. UNCHANGED <<client, player, refs, stage>>
    BY <1>6 DEF Release
  <2>2. PlayersCounted' /\ PlayerTypes'
    BY <1>2, <2>1, PlayersKept, TypesSplit DEF IInv
  <2>3. ProtocolsRest(1)
    BY <1>4, <2>1
  <2> QED BY <1>2, <1>3, <2>2, <2>3, TaskOnly, StepIsSound DEF Release
<1> QED BY <1>5, <1>6

(* Players leave the game from Placed, so that none is forgotten.            *)
LEMMA StageKept ==
  ASSUME IInv, NEW p \in Player, stage[p] = "Placed",
         stage' = [stage EXCEPT ![p] = "Removed"]
  PROVE  \A c \in Conn : stage[c] = "None" => stage'[c] = "None"
BY DEF IInv, TypeOK, Player

(* References that are given back were of players.                           *)
LEMMA DropKeepsNone ==
  ASSUME IInv, NEW s \in Seq(Player), NEW gone, DropAll(s, gone),
         \A i \in DOMAIN s : stage[s[i]] # "None",
         \A p \in gone : stage[p] # "None"
  PROVE  \A c \in Conn : stage[c] = "None" => stage'[c] = "None"
<1> SUFFICES ASSUME NEW c \in Conn, stage[c] = "None"
             PROVE  stage'[c] = "None"
  OBVIOUS
<1>1. Count(c, s) = 0
  BY Places
<1> QED BY <1>1 DEF DropAll, Player

(* Who logs out has entered, so his player is in the game or has left it.    *)
LEMMA LogoutStep ==
  ASSUME IInv, NEW c \in Conn, Logout(c)
  PROVE  IInv'
<1> DEFINE p == player[c]
<1>1. \A o, d : Takes(1, o, d) <=> o = "Logout" /\ d = c
  BY Executed DEF Logout
<1>2. p \in Player /\ p # None /\ c \in acceptPackets /\ client[p] = c
  BY Executed DEF Logout, IInv, TypeOK, PacketsBound, IsTask, PlayersCounted
<1>3. Disconnect(c, Tail(tasks)) /\ Unlocked(c) /\ tasks # <<>>
  BY Executed DEF Logout, Rest
<1>4. UNCHANGED <<protocolVars, client, isConnecting, refs, checked>>
  BY DEF Logout
<1>5. OtherTypes'
  BY <1>4, TypesSplit DEF OtherTypes, protocolVars, IInv
<1>6. CASE IsRemoved(p)
  <2>1. UNCHANGED playerVars
    BY <1>6 DEF Logout, playerVars, checkVars
  <2>2. ProtocolsRest(1)
    BY <1>1, <1>4, <2>1, ProtocolsAlone DEF playerVars
  <2> QED BY <1>3, <1>4, <2>1, <2>2, AloneTypes, Disconnects
<1>7. CASE ~IsRemoved(p)
  <2>1. stage[p] = "Placed"
    <3>1. refs[p] # 0
      <4>1. refs[p] = Claims(p) /\ Count(p, toRelease) \in Nat
        BY <1>2, Places, TypesSplit DEF IInv, PlayersCounted, PlayerTypes
      <4> QED BY <1>2, <4>1, ConnectionAssumption DEF Claims, One
    <3>2. stage[p] # "Loading"
      BY <1>2 DEF IInv, PlayersCounted
    <3> QED BY <1>2, <1>7, <3>1, <3>2
            DEF IsRemoved, IInv, PlayersCounted, TypeOK, Stage
  <2>2. /\ stage' = [stage EXCEPT ![p] = "Removed"]
        /\ creatureCheck' = creatureCheck \ {p}
        /\ toRelease' = Append(toRelease, p)
    BY <1>7 DEF Logout
  <2>3. PlayersCounted' /\ PlayerTypes'
    BY <1>2, <1>4, <2>1, <2>2, PlayerLeaves, TypesSplit DEF IInv, protocolVars
  <2>4. ProtocolsRest(1)
    BY <1>1, <1>2, <1>4, <2>1, <2>2, StageKept, ProtocolsAlone
  <2> QED BY <1>3, <1>5, <2>3, <2>4, Disconnects
<1> QED BY <1>6, <1>7

-----------------------------------------------------------------------------
(* Steps of the dispatcher that take no task.                                *)

(* A step that sends nothing and posts nothing has no effect on              *)
(* connections.                                                              *)
LEMMA NothingSent ==
  ASSUME IInv, UNCHANGED <<connVars, tasks>>, ProtocolsRest(0)
  PROVE  Effect(0, {}) /\ SocketTypes'
<1>1. Shifted(0, {})
  BY SameTasks DEF IInv, TypeOK, ConnTypeOK
<1>2. /\ connectionState' = connectionState /\ isOpen' = isOpen
      /\ managed' = managed /\ messageQueue' = messageQueue
      /\ reading' = reading /\ receivedFirst' = receivedFirst
      /\ handlerOf' = handlerOf /\ hasLock' = hasLock
  BY DEF connVars, netVars
<1>3. messageQueue' \in [Conn -> Nat] /\ \A d \in Conn : messageQueue'[d] <= messageQueue[d]
  BY <1>2, ConnectionAssumption DEF IInv, TypeOK, ConnTypeOK
<1>4. \A d \in Conn : ConnectionStep(0, {}, d)
  BY <1>2, <1>3, ConnectionsAlone
<1>5. SocketTypes'
  BY <1>2, TypesSplit DEF SocketTypes, IInv
<1> QED BY <1>1, <1>2, <1>3, <1>4, <1>5 DEF Effect, ProtocolsRest

(* The disconnect of kickPlayer and of sendPing.                             *)
LEMMA ClientDisconnected ==
  ASSUME IInv, NEW p \in Player,
         LET c == client[p]
         IN \/ c = None /\ UNCHANGED <<connVars, tasks>>
            \/ c # None /\ player[c] # None /\ Unlocked(c) /\ Disconnect(c, tasks),
         ProtocolsRest(0),
         OtherTypes', PlayerTypes', PlayersCounted'
  PROVE  IInv'
<1>1. CASE client[p] = None /\ UNCHANGED <<connVars, tasks>>
  BY <1>1, NothingSent, StepIsSound
<1>2. CASE client[p] # None /\ Unlocked(client[p]) /\ Disconnect(client[p], tasks)
  <2>1. client[p] \in Conn
    BY <1>2 DEF IInv, TypeOK
  <2> QED BY <1>2, <2>1, Disconnects
<1> QED BY <1>1, <1>2

(* A kick disconnects the client, and the player waits for his release.      *)
LEMMA KickPlayerStep ==
  ASSUME IInv, NEW p \in Player, KickPlayer(p)
  PROVE  IInv'
<1>1. PlayersCounted' /\ PlayerTypes'
  BY PlayerLeaves, TypesSplit DEF KickPlayer, protocolVars, IInv
<1>2. OtherTypes'
  BY TypesSplit DEF KickPlayer, OtherTypes, protocolVars, IInv
<1>3. ProtocolsRest(0)
  BY StageKept, ProtocolsAlone, NoneTaken DEF KickPlayer
<1> QED BY <1>1, <1>2, <1>3, ClientDisconnected DEF KickPlayer

(* The pass over a check list drops a player who leaves, and those who       *)
(* wait.                                                                     *)
LEMMA CheckedLeaves ==
  ASSUME IInv, NEW p \in checked \cap creatureCheck, LeaveAndCleanup(p)
  PROVE  /\ PlayersCounted' /\ PlayerTypes' /\ OtherTypes'
         /\ ProtocolsRest(0)
<1>1. p \in Player /\ stage[p] = "Placed"
  BY DEF IInv, TypeOK, PlayersCounted
<1>2. PlayersCounted' /\ PlayerTypes'
  BY <1>1, PlayerGone, TypesSplit DEF LeaveAndCleanup, protocolVars, IInv
<1>3. OtherTypes'
  BY TypesSplit DEF LeaveAndCleanup, OtherTypes, protocolVars, IInv
<1>4. \A c \in Conn : stage[c] = "None" => stage'[c] = "None"
  <2>1. /\ Append(toRelease, p) \in Seq(Player)
        /\ \A i \in DOMAIN Append(toRelease, p) :
             \/ Append(toRelease, p)[i] = p
             \/ \E j \in DOMAIN toRelease : toRelease[j] = Append(toRelease, p)[i]
    BY <1>1 DEF IInv, TypeOK
  <2>2. \A j \in DOMAIN toRelease : stage[toRelease[j]] = "Removed"
    BY DEF IInv, TypeOK, PlayersCounted
  <2>3. \A i \in DOMAIN Append(toRelease, p) :
          stage[Append(toRelease, p)[i]] # "None"
    BY <1>1, <2>1, <2>2
  <2> QED BY <1>1, <2>1, <2>3, DropKeepsNone DEF LeaveAndCleanup
<1>5. ProtocolsRest(0)
  BY <1>4, ProtocolsAlone, NoneTaken DEF LeaveAndCleanup
<1> QED BY <1>2, <1>3, <1>5

(* An answer to the ping is missing ...                                      *)
LEMMA SendPingStep ==
  ASSUME IInv, NEW p \in Player, SendPing(p)
  PROVE  IInv'
BY CheckedLeaves, ClientDisconnected DEF SendPing

(* ... or the player has died.                                               *)
LEMMA OnDeathStep ==
  ASSUME IInv, NEW p \in Player, OnDeath(p)
  PROVE  IInv'
BY CheckedLeaves, NothingSent, StepIsSound DEF OnDeath

(* A player who has left the game leaves the check list.                     *)
LEMMA DropFromCheckStep ==
  ASSUME IInv, NEW p \in Player, DropFromCheck(p)
  PROVE  IInv'
<1>1. p \in checked /\ stage[p] = "Removed"
  BY DEF DropFromCheck, IInv, PlayersCounted
<1>2. PlayersCounted' /\ PlayerTypes'
  BY <1>1, PlayerUnchecked, TypesSplit DEF DropFromCheck, protocolVars, IInv
<1>3. OtherTypes'
  BY TypesSplit DEF DropFromCheck, OtherTypes, protocolVars, IInv
<1>4. \A c \in Conn : stage[c] = "None" => stage'[c] = "None"
  <2>1. /\ Append(toRelease, p) \in Seq(Player)
        /\ \A i \in DOMAIN Append(toRelease, p) :
             \/ Append(toRelease, p)[i] = p
             \/ \E j \in DOMAIN toRelease : toRelease[j] = Append(toRelease, p)[i]
    BY DEF IInv, TypeOK
  <2>2. \A j \in DOMAIN toRelease : stage[toRelease[j]] = "Removed"
    BY DEF IInv, TypeOK, PlayersCounted
  <2>3. \A i \in DOMAIN Append(toRelease, p) :
          stage[Append(toRelease, p)[i]] # "None"
    BY <1>1, <2>1, <2>2
  <2> DEFINE gone == {}
  <2>4. /\ DropAll(Append(toRelease, p), gone)
        /\ \A q \in gone : stage[q] # "None"
    BY DEF DropFromCheck
  <2> HIDE DEF gone
  <2> QED BY <2>1, <2>3, <2>4, DropKeepsNone
<1>5. ProtocolsRest(0)
  BY <1>4, ProtocolsAlone, NoneTaken DEF DropFromCheck
<1> QED BY <1>2, <1>3, <1>5, NothingSent, StepIsSound DEF DropFromCheck

(* Game::cleanup.                                                            *)
LEMMA CleanupStep ==
  ASSUME IInv, Cleanup
  PROVE  IInv'
<1>1. PlayersCounted' /\ PlayerTypes'
  BY PlayersCleanedUp, TypesSplit DEF Cleanup, protocolVars, IInv
<1>2. OtherTypes'
  BY TypesSplit DEF Cleanup, OtherTypes, protocolVars, IInv
<1>3. \A j \in DOMAIN toRelease : stage[toRelease[j]] = "Removed"
  BY DEF IInv, TypeOK, PlayersCounted
<1>4. \A c \in Conn : stage[c] = "None" => stage'[c] = "None"
  <2> DEFINE gone == {}
  <2>1. /\ toRelease \in Seq(Player)
        /\ \A i \in DOMAIN toRelease : stage[toRelease[i]] # "None"
    BY <1>3 DEF IInv, TypeOK
  <2>2. DropAll(toRelease, gone) /\ \A q \in gone : stage[q] # "None"
    BY DEF Cleanup
  <2> HIDE DEF gone
  <2> QED BY <2>1, <2>2, DropKeepsNone
<1>5. ProtocolsRest(0)
  BY <1>4, ProtocolsAlone, NoneTaken DEF Cleanup
<1> QED BY <1>1, <1>2, <1>5, NothingSent, StepIsSound DEF Cleanup

(* autosend.                                                                 *)
LEMMA SendAllStep ==
  ASSUME IInv, NEW c \in Conn, SendAll(c)
  PROVE  IInv'
<1>1. messageQueue \in [Conn -> Nat]
  BY ConnectionAssumption DEF IInv, TypeOK, ConnTypeOK
<1>2. /\ messageQueue' \in [Conn -> Nat]
      /\ \A d \in Conn :
           \/ messageQueue'[d] <= messageQueue[d]
           \/ /\ messageQueue'[d] = messageQueue[d] + 1
              /\ connectionState[d] = "Open"
              /\ messageQueue[d] < MaxBuffered /\ d \in autosend
  BY <1>1 DEF SendAll, Send
<1>3. SocketTypes
  BY TypesSplit DEF IInv
<1> QED BY <1>2, <1>3, QuietStep DEF SendAll, netVars, SocketTypes

(* The scheduler posts a connect, which then is not scheduled any more.      *)
LEMMA ConnectIsDueStep ==
  ASSUME IInv, NEW c \in Conn, ConnectIsDue(c)
  PROVE  IInv'
<1> DEFINE t == [op |-> "Connect", conn |-> c, player |-> eventConnect[c]]
<1>1. c \in scheduled /\ scheduled' = scheduled \ {c} /\ eventConnect[c] \in Player
  BY DEF ConnectIsDue, IInv, EntriesWait
<1>2. t \in Task
  BY <1>1 DEF Task, Player
<1>3. Shifted(0, {t})
  BY <1>2, TaskAdded DEF ConnectIsDue, IInv, TypeOK, ConnTypeOK
<1>4. Added(t)
  BY <1>1 DEF Added
<1>5. /\ connectionState' = connectionState /\ isOpen' = isOpen
      /\ managed' = managed /\ messageQueue' = messageQueue
      /\ reading' = reading /\ receivedFirst' = receivedFirst
      /\ handlerOf' = handlerOf /\ hasLock' = hasLock
  BY DEF ConnectIsDue, connVars, netVars
<1>6. messageQueue' \in [Conn -> Nat] /\ \A d \in Conn : messageQueue'[d] <= messageQueue[d]
  BY <1>5, ConnectionAssumption DEF IInv, TypeOK, ConnTypeOK
<1>7. \A d \in Conn : ConnectionStep(0, {t}, d)
  BY <1>5, <1>6, ConnectionsAlone
<1>8. SocketTypes'
  BY <1>5, TypesSplit DEF SocketTypes, IInv
<1>9. ASSUME NEW d \in Conn
      PROVE  ProtocolStep(0, d)
  BY <1>1, NoneTaken DEF ConnectIsDue, ProtocolStep, playerVars
<1>10. PlayersCounted' /\ PlayerTypes'
  BY PlayersKept, TypesSplit DEF ConnectIsDue, playerVars, IInv
<1>11. OtherTypes'
  BY TypesSplit DEF ConnectIsDue, OtherTypes, playerVars, IInv
<1>12. scheduled' \subseteq Conn /\ acceptPackets' \subseteq Conn
  BY <1>1 DEF ConnectIsDue, IInv, TypeOK
<1>13. Effect(0, {t})
  BY <1>2, <1>3, <1>4, <1>5, <1>6, <1>7, <1>9, <1>12 DEF Effect
<1> QED BY <1>8, <1>10, <1>11, <1>13, StepIsSound


-----------------------------------------------------------------------------
(* The theorems.                                                             *)

(* The invariant holds at first ...                                          *)
LEMMA InitHolds == Init => IInv
<1> SUFFICES ASSUME Init
             PROVE  IInv
  OBVIOUS
<1> USE ConnectionAssumption DEF Init, ConnInit
<1>1. TypeOK
  <2>1. <<>> \in Seq(Task) /\ <<>> \in Seq(Player)
    OBVIOUS
  <2>2. messageQueue \in [Conn -> 0..MaxBuffered + 2]
    OBVIOUS
  <2>3. connectionState \in [Conn -> ConnectionState] /\ stage \in [Player -> Stage]
    BY DEF ConnectionState, Stage
  <2>4. refs \in [Player -> Nat]
    OBVIOUS
  <2>5. /\ client \in [Player -> Conn \cup {None}]
        /\ player \in [Conn -> Player \cup {None}]
        /\ eventConnect \in [Conn -> Player \cup {None}]
    OBVIOUS
  <2> QED BY <2>1, <2>2, <2>3, <2>4, <2>5 DEF TypeOK, ConnTypeOK
<1>2. TasksOrdered /\ EntriesWait /\ ReleasesFollow /\ PacketsBound
  BY DEF TasksOrdered, EntriesWait, ReleasesFollow, PacketsBound
<1>3. NotYet
  BY DEF NotYet, Player
<1>4. SentBounded
  BY DEF SentBounded
<1>5. ASSUME NEW p \in Player
      PROVE  Claims(p) = 0
  <2>1. <<>> \in Seq(Player) /\ \A i \in DOMAIN <<>> : FALSE
    OBVIOUS
  <2>2. Count(p, toRelease) = 0
    BY <2>1, PlacesOfFew
  <2> QED BY <2>2 DEF Claims, One
<1>6. PlayersCounted
  BY <1>5 DEF PlayersCounted, Found, Player
<1> QED BY <1>1, <1>2, <1>3, <1>4, <1>6 DEF IInv

(* ... and every step keeps it.                                              *)
LEMMA NextKeeps == IInv /\ [Next]_vars => IInv'
<1> SUFFICES ASSUME IInv, [Next]_vars
             PROVE  IInv'
  OBVIOUS
<1>1. ASSUME NEW c \in Conn, RunTask(c)
      PROVE  IInv'
  BY <1>1, OnConnectStep, LoginFailsStep, LoginPlacesStep, LoginRefusedStep,
     LoginReplacesStep, LoginConnectsStep, ConnectStep, ReleaseStep,
     LogoutRefusedStep, LogoutStep, ModuleStep DEF RunTask
<1>2. CASE UNCHANGED vars
  <2>1. UNCHANGED <<connVars, tasks>> /\ UNCHANGED <<protocolVars, playerVars>>
    BY <1>2 DEF vars
  <2> QED BY <2>1, NetworkAlone, NothingSent, StepIsSound
<1>3. CASE Next
  BY <1>1, <1>3, HandlerStep, ParseBeginsStep, ParseEndsStep, NetReturnsStep,
     ConnectIsDueStep, SendAllStep, KickPlayerStep, SendPingStep, OnDeathStep,
     DropFromCheckStep, CleanupStep DEF Next, Dispatcher
<1> QED BY <1>2, <1>3

(* The invariant holds whatever the number of connections: of the tasks,     *)
(* the connections, the protocols and the players (protocolgame.cpp,         *)
(* game.cpp).                                                                *)
THEOREM Invariance == Spec => []IInv
BY InitHolds, NextKeeps, PTL DEF Spec, Safety

(* Every variable keeps its type; the messages a connection queues are as    *)
(* few as the bound of autosend and two say.                                 *)
THEOREM TypeCorrect == Spec => []TypeOK
<1>1. IInv => TypeOK
  BY DEF IInv
<1> QED BY <1>1, Invariance, PTL

(* The size of a set that has no two elements.                               *)
LEMMA OneOrNone ==
  ASSUME NEW S, \A x, y \in S : x = y
  PROVE  Cardinality(S) = One(S # {})
<1>1. CASE S = {}
  BY <1>1, FS_EmptySet DEF One
<1>2. CASE S # {}
  <2>1. PICK x \in S : S = {x}
    BY <1>2
  <2> QED BY <1>2, <2>1, FS_Singleton DEF One
<1> QED BY <1>1, <1>2

(* Its client is the one protocol that plays a player.                       *)
LEMMA ClaimsAreHolders ==
  ASSUME IInv, NEW p \in Player
  PROVE  Holders(p) = Claims(p)
<1> DEFINE S == {c \in Conn : player[c] = p}
<1>1. /\ \A c \in Conn : client[p] = c <=> player[c] = p
      /\ client[p] \in Conn \cup {None}
  BY DEF IInv, PlayersCounted, TypeOK
<1>2. Cardinality(S) = One(S # {})
  BY <1>1, OneOrNone
<1>3. S # {} <=> client[p] # None
  BY <1>1, ConnectionAssumption
<1>4. Cardinality(S) = One(client[p] # None)
  BY <1>2, <1>3 DEF One
<1> QED BY <1>4 DEF Holders, Claims, One

(* The reference counter of a player is the number of its holders, and only  *)
(* who has none is deleted (Creature::decrementReferenceCounter,             *)
(* Game::cleanup).                                                           *)
THEOREM RefsCountedHolds == Spec => []RefsCounted
<1>1. IInv => RefsCounted
  BY ClaimsAreHolders DEF IInv, RefsCounted, PlayersCounted
<1> QED BY <1>1, Invariance, PTL

(* Neither a task nor a packet's handler meets a deleted player: its         *)
(* protocol holds a reference until its release, which comes after its       *)
(* packets (protocolgame.cpp: release, parsePacket).                         *)
THEOREM NoDeletedPlayerHolds == Spec => []NoDeletedPlayer
<1>1. ASSUME IInv
      PROVE  NoDeletedPlayer
  <2>1. ASSUME NEW c \in Conn, player[c] # None
        PROVE  stage[player[c]] # "Deleted"
    <3> DEFINE p == player[c]
    <3>1. p \in Player /\ client[p] = c /\ refs[p] = Claims(p)
      BY <1>1, <2>1 DEF IInv, TypeOK, PlayersCounted
    <3>2. Count(p, toRelease) \in Nat
      BY <1>1, Places DEF IInv, TypeOK
    <3>3. refs[p] # 0
      BY <3>1, <3>2, ConnectionAssumption DEF Claims, One
    <3> QED BY <1>1, <3>1, <3>3 DEF IInv, PlayersCounted
  <2>2. ASSUME NEW i \in DOMAIN tasks, tasks[i].op = "Module"
        PROVE  /\ tasks[i].conn \in Conn
               /\ player[tasks[i].conn] # None
               /\ tasks[i].player = player[tasks[i].conn]
    <3>1. tasks[i].conn \in Conn
      <4>1. tasks[i] \in Task
        BY <1>1 DEF IInv, TypeOK, ConnTypeOK
      <4> QED BY <4>1 DEF Task
    <3> QED BY <1>1, <2>2, <3>1 DEF IInv, PacketsBound, IsTask
  <2>3. hasLock => player[handlerOf] # None
    BY <1>1 DEF IInv, PacketsBound
  <2> QED BY <2>1, <2>2, <2>3 DEF NoDeletedPlayer
<1> QED BY <1>1, Invariance, PTL

(* The character is in the game once, and its player and its protocol name   *)
(* each other (ProtocolGame::login, connect, release).                       *)
THEOREM OnePlayerHolds == Spec => []OnePlayer
<1>1. ASSUME IInv
      PROVE  OnePlayer
  <2>1. Cardinality(Found) = One(Found # {})
    BY <1>1, OneOrNone DEF IInv, PlayersCounted
  <2>2. Cardinality(Found) <= 1
    BY <2>1 DEF One
  <2>3. \A p \in Player, c \in Conn : client[p] = c <=> player[c] = p
    BY <1>1 DEF IInv, PlayersCounted
  <2>4. \A c, d \in Conn : player[c] = player[d] /\ player[c] # None => c = d
    BY <1>1, <2>3 DEF IInv, TypeOK
  <2> QED BY <2>2, <2>3, <2>4 DEF OnePlayer
<1> QED BY <1>1, Invariance, PTL

(* Who was released is not in the autosend list: the release follows         *)
(* whatever puts a protocol there (ProtocolGame::release,                    *)
(* OutputMessagePool).                                                       *)
THEOREM NoStaleAutosendHolds == Spec => []NoStaleAutosend
<1>1. IInv => NoStaleAutosend
  BY DEF IInv, ReleasesFollow, NoStaleAutosend, Released, Pending, IsTask
<1> QED BY <1>1, Invariance, PTL


(* A login's Player object is new: nobody plays it.                          *)
LEMMA NewPlayerUnplayed ==
  ASSUME IInv, NEW c \in Conn, Execute("Login", c)
  PROVE  client[c] = None
<1>1. stage[c] = "None"
  BY EntryTaken
<1>2. refs[c] = Claims(c) /\ refs[c] = 0 /\ Count(c, toRelease) \in Nat
  BY <1>1, Places DEF IInv, PlayersCounted, Player, TypeOK
<1> QED BY <1>2 DEF Claims, One

(* A player passes from client to client only through a release              *)
(* (ProtocolGame::login, connect, release).                                  *)
THEOREM NoTakeoverHolds == Spec => NoTakeover
<1> DEFINE Given == \A p \in Player :
                      client[p] # None /\ client'[p] # client[p] => client'[p] = None
<1>1. ASSUME IInv, [Next]_vars
      PROVE  [Given]_vars
  <2> USE <1>1
  <2>1. ASSUME NEW c \in Conn, RunTask(c)
        PROVE  Given
    <3>1. CASE LoginFails(c) \/ LoginPlaces(c)
      <4>1. client[c] = None
        BY <3>1, NewPlayerUnplayed DEF LoginFails, LoginPlaces
      <4>2. client' = [client EXCEPT ![c] = c]
        BY <3>1 DEF LoginFails, LoginPlaces
      <4> QED BY <4>1, <4>2 DEF IInv, TypeOK
    <3>2. ASSUME NEW p, Attach(c, p)
          PROVE  Given
      BY <3>2 DEF Attach, IInv, TypeOK
    <3>3. ASSUME NEW p, ConnectTo(c, p)
          PROVE  Given
      BY <3>2, <3>3 DEF ConnectTo, ConnectRefused, ConnectExpired, playerVars
    <3>4. CASE LoginConnects(c) \/ Connect(c)
      BY <3>3, <3>4 DEF LoginConnects, Connect
    <3>5. CASE Release(c)
      BY <3>5 DEF Release, IInv, TypeOK
    <3>6. CASE Logout(c)
      BY <3>6 DEF Logout
    <3>7. CASE OnConnect(c) \/ LoginRefused(c) \/ LogoutRefused(c) \/ Module(c)
      BY <3>7 DEF OnConnect, LoginRefused, LogoutRefused, Module, playerVars
    <3>8. CASE LoginReplaces(c)
      BY <3>8 DEF LoginReplaces
    <3> QED BY <2>1, <3>1, <3>4, <3>5, <3>6, <3>7, <3>8 DEF RunTask
  <2>2. ASSUME NEW c \in Conn, Network(c) \/ ParseBegins(c) \/ ConnectIsDue(c) \/ SendAll(c)
        PROVE  Given
    BY <2>2 DEF Network, ParseBegins, ConnectIsDue, SendAll, playerVars
  <2>3. CASE ParseEnds \/ NetReturns
    BY <2>3 DEF ParseEnds, NetReturns, playerVars
  <2>4. ASSUME NEW p \in Player,
               KickPlayer(p) \/ SendPing(p) \/ OnDeath(p) \/ DropFromCheck(p)
        PROVE  Given
    BY <2>4 DEF KickPlayer, SendPing, OnDeath, DropFromCheck, LeaveAndCleanup
  <2>5. CASE Cleanup
    BY <2>5 DEF Cleanup
  <2> QED BY <2>1, <2>2, <2>3, <2>4, <2>5 DEF Next, Dispatcher
<1> QED BY <1>1, Invariance, PTL DEF Spec, Safety, NoTakeover


=============================================================================
