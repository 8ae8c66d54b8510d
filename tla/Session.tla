------------------------------ MODULE Session -------------------------------
(***************************************************************************)
(* The sessions of one character: the ProtocolGame of each connection        *)
(* (protocolgame.cpp), the Player objects it creates or takes over, and      *)
(* their life in the game (game.cpp: placeCreature, removeCreature,          *)
(* checkCreatures, cleanup) until their last reference is dropped.           *)
(*                                                                          *)
(* A Player object is named after the connection whose login made it.  Every *)
(* task of the dispatcher is one step, taken when the network thread does    *)
(* not hold the lock of a connection that the task sends to or closes.       *)
(* The event of a delayed connect may come any time after it was scheduled   *)
(* (TimerService); the periodic checks of creatures may run between any two  *)
(* tasks.                                                                    *)
(***************************************************************************)
EXTENDS Connection, SequencesExt, FiniteSetsExt

VARIABLES
  player,          \* ProtocolGame::player
  acceptPackets,   \* protocols that do
  eventConnect,    \* [protocol -> player of its scheduled connect, or None]
  scheduled,       \* protocols whose connect event is in the scheduler
  autosend,        \* OutputMessagePool::bufferedProtocols
  stage,           \* of a Player object
  client,          \* Player::client
  isConnecting,    \* players for whom Player::isConnecting holds
  refs,            \* Creature::referenceCounter
  checked,         \* players in one of checkCreatureLists
  creatureCheck,   \* players for whom Creature::creatureCheck holds
  toRelease        \* Game::ToReleaseCreatures

protocolVars == <<player, acceptPackets, eventConnect, scheduled, autosend>>
checkVars == <<checked, creatureCheck>>
playerVars == <<stage, client, isConnecting, refs, checkVars, toRelease>>
vars == <<connVars, tasks, protocolVars, playerVars>>

Player == Conn

(* Loading is from the constructor until the player is placed on the map,    *)
(* or for good when the login fails.                                         *)
Stage == {"None", "Loading", "Placed", "Removed", "Deleted"}

TypeOK ==
  /\ ConnTypeOK
  /\ player \in [Conn -> Player \cup {None}]
  /\ acceptPackets \subseteq Conn
  /\ eventConnect \in [Conn -> Player \cup {None}]
  /\ scheduled \subseteq Conn
  /\ autosend \subseteq Conn
  /\ stage \in [Player -> Stage]
  /\ client \in [Player -> Conn \cup {None}]
  /\ isConnecting \subseteq Player
  /\ refs \in [Player -> Nat]
  /\ checked \subseteq Player
  /\ creatureCheck \subseteq Player
  /\ toRelease \in Seq(Player)

Init ==
  /\ ConnInit
  /\ player = [c \in Conn |-> None]
  /\ acceptPackets = {}
  /\ eventConnect = [c \in Conn |-> None]
  /\ scheduled = {}
  /\ autosend = {}
  /\ stage = [p \in Player |-> "None"]
  /\ client = [p \in Player |-> None]
  /\ isConnecting = {}
  /\ refs = [p \in Player |-> 0]
  /\ checked = {}
  /\ creatureCheck = {}
  /\ toRelease = <<>>

-----------------------------------------------------------------------------
(* Tasks of the dispatcher that wait, of a kind and a connection.            *)
Pending(op, c) == {i \in DOMAIN tasks : tasks[i].op = op /\ tasks[i].conn = c}

(* getPlayerByName: the character's player in the game.                      *)
Found == {p \in Player : stage[p] = "Placed"}

IsRemoved(p) == stage[p] \in {"Removed", "Deleted"}

(* The dispatcher executes the first task, which is of this kind.            *)
IsNext(op) == tasks # <<>> /\ Head(tasks).op = op

Rest == Tail(tasks)

Execute(op, c) == IsNext(op) /\ Head(tasks).conn = c

Count(p, s) == Cardinality({i \in DOMAIN s : s[i] = p})

(* decrementReferenceCounter for each element of a sequence of players, once  *)
(* the players in gone have left the game.                                   *)
DropAll(s, gone) ==
  /\ refs' = [p \in Player |-> refs[p] - Count(p, s)]
  /\ stage' = [p \in Player |->
                 IF refs'[p] <= 0 /\ Count(p, s) > 0 THEN "Deleted"
                 ELSE IF p \in gone THEN "Removed" ELSE stage[p]]

-----------------------------------------------------------------------------
(* The network thread, once the session has begun.                           *)

(* parsePacket takes the lock and finds that the protocol may handle it.     *)
ParseBegins(c) ==
  /\ handlerOf = None
  /\ c \in reading \cap isOpen \cap receivedFirst
  /\ connectionState[c] = "Open"
  /\ c \in acceptPackets
  /\ Len(tasks) < MaxTasks
  /\ reading' = reading \ {c}
  /\ handlerOf' = c
  /\ hasLock' = TRUE
  /\ UNCHANGED <<connectionState, isOpen, managed, messageQueue,
                 receivedFirst, tasks, protocolVars, playerVars>>

(* The protocol reads its player and posts the packet's tasks; the module's  *)
(* task is bound to the Player object itself.  A player who is not in the    *)
(* game, or has no health left, can only log out, or leave with "enter       *)
(* world"; other packets have no task that matters here.                     *)
ParseEnds ==
  /\ hasLock
  /\ UNCHANGED messageQueue
  /\ LET c == handlerOf
         p == player[c]
         dead == p = None \/ IsRemoved(p)
         module == [op |-> "Module", conn |-> c, player |-> p]
     IN /\ \/ UNCHANGED <<connectionState, isOpen, managed, tasks>>
           \/ Close(c, FALSE, tasks)
           \/ /\ ~dead
              /\ tasks' = Append(tasks, module)
              /\ UNCHANGED <<connectionState, isOpen, managed>>
           \/ /\ tasks' = tasks \o <<module, Bind("Logout", c)>>
              /\ UNCHANGED <<connectionState, isOpen, managed>>
        /\ reading' = reading \cup {c}
  /\ handlerOf' = None
  /\ hasLock' = FALSE
  /\ UNCHANGED <<receivedFirst, protocolVars, playerVars>>

Network(c) ==
  /\ Handler(c)
  /\ UNCHANGED <<protocolVars, playerVars>>

NetReturns ==
  /\ HandlerReturns
  /\ UNCHANGED <<protocolVars, playerVars>>

-----------------------------------------------------------------------------
(* The dispatcher's tasks.                                                   *)

(* ProtocolGame::onConnect sends the challenge.                              *)
OnConnect(c) ==
  /\ Execute("OnConnect", c)
  /\ Send(c)
  /\ tasks' = Rest
  /\ UNCHANGED <<connectionState, isOpen, managed, netVars, protocolVars,
                 playerVars>>

(* login makes a Player object whose client is this protocol.  It fails to   *)
(* load, is banned, has to wait or finds no place ...                        *)
LoginFails(c) ==
  /\ Execute("Login", c)
  /\ Found = {}
  /\ player' = [player EXCEPT ![c] = c]
  /\ stage' = [stage EXCEPT ![c] = "Loading"]
  /\ client' = [client EXCEPT ![c] = c]
  /\ refs' = [refs EXCEPT ![c] = 1]
  /\ DisconnectClient(c, Rest)
  /\ UNCHANGED <<acceptPackets, eventConnect, scheduled, autosend,
                 isConnecting, checkVars, toRelease>>

(* Mutant: the name is not looked up first.                                  *)
LoginPlacesMutClone(c) ==
  /\ Execute("Login", c)
  /\ player' = [player EXCEPT ![c] = c]
  /\ acceptPackets' = acceptPackets \cup {c}
  /\ autosend' = autosend \cup {c}
  /\ stage' = [stage EXCEPT ![c] = "Placed"]
  /\ client' = [client EXCEPT ![c] = c]
  /\ refs' = [refs EXCEPT ![c] = 3]
  /\ checked' = checked \cup {c}
  /\ creatureCheck' = creatureCheck \cup {c}
  /\ tasks' = Rest
  /\ UNCHANGED <<connVars, eventConnect, scheduled, isConnecting, toRelease>>

(* ... or enters the game.                                                   *)
LoginPlaces(c) ==
  /\ Execute("Login", c)
  /\ Found = {}
  /\ player' = [player EXCEPT ![c] = c]
  /\ acceptPackets' = acceptPackets \cup {c}
  /\ autosend' = autosend \cup {c}
  /\ stage' = [stage EXCEPT ![c] = "Placed"]
  /\ client' = [client EXCEPT ![c] = c]
  /\ refs' = [refs EXCEPT ![c] = 3]   \* protocol, map, check list
  /\ checked' = checked \cup {c}
  /\ creatureCheck' = creatureCheck \cup {c}
  /\ tasks' = Rest
  /\ UNCHANGED <<connVars, eventConnect, scheduled, isConnecting, toRelease>>

(* The character is in the game, and REPLACE_KICK_ON_LOGIN is off ...        *)
LoginRefused(c) ==
  /\ Execute("Login", c)
  /\ Found # {}
  /\ DisconnectClient(c, Rest)
  /\ UNCHANGED <<protocolVars, playerVars>>

(* Mutant: the player is taken over without waiting for the release.         *)
LoginReplacesMutAtOnce(c) ==
  /\ Execute("Login", c)
  /\ \E p \in Found :
       /\ client[p] # None
       /\ Unlocked(client[p])
       /\ Disconnect(client[p], Rest)
       /\ player' = [player EXCEPT ![c] = p]
       /\ refs' = [refs EXCEPT ![p] = @ + 1]
       /\ client' = [client EXCEPT ![p] = c]
  /\ acceptPackets' = acceptPackets \cup {c}
  /\ autosend' = autosend \cup {c}
  /\ UNCHANGED <<eventConnect, scheduled, stage, isConnecting, checkVars,
                 toRelease>>

(* ... or on: its client is closed, and this one connects a second later.    *)
LoginReplaces(c) ==
  /\ Execute("Login", c)
  /\ \E p \in Found :
       /\ client[p] # None
       /\ Unlocked(client[p])
       /\ Disconnect(client[p], Rest)
       /\ isConnecting' = isConnecting \cup {p}
       /\ eventConnect' = [eventConnect EXCEPT ![c] = p]
  /\ scheduled' = scheduled \cup {c}
  /\ autosend' = autosend \cup {c}
  /\ UNCHANGED <<player, acceptPackets, stage, client, refs, checkVars,
                 toRelease>>

(* ProtocolGame::connect finds no player to connect to ...                   *)
ConnectRefused(c, p) ==
  /\ stage[p] # "Placed" \/ client[p] # None
  /\ DisconnectClient(c, Rest)
  /\ UNCHANGED <<player, acceptPackets, playerVars>>

(* ... or has lost its connection ...                                        *)
ConnectExpired(c, p) ==
  /\ stage[p] = "Placed" /\ client[p] = None
  /\ ~Alive(c)
  /\ tasks' = Rest
  /\ UNCHANGED <<connVars, player, acceptPackets, playerVars>>

(* Mutant: the player's reference is not counted.                            *)
AttachMutNoRef(c, p) ==
  /\ stage[p] = "Placed" /\ client[p] = None
  /\ Alive(c)
  /\ player' = [player EXCEPT ![c] = p]
  /\ client' = [client EXCEPT ![p] = c]
  /\ isConnecting' = isConnecting \ {p}
  /\ acceptPackets' = acceptPackets \cup {c}
  /\ tasks' = Rest
  /\ UNCHANGED <<connVars, refs, stage, checkVars, toRelease>>

(* ... or takes the player over.                                             *)
Attach(c, p) ==
  /\ stage[p] = "Placed" /\ client[p] = None
  /\ Alive(c)
  /\ player' = [player EXCEPT ![c] = p]
  /\ refs' = [refs EXCEPT ![p] = @ + 1]
  /\ client' = [client EXCEPT ![p] = c]
  /\ isConnecting' = isConnecting \ {p}
  /\ acceptPackets' = acceptPackets \cup {c}
  /\ tasks' = Rest
  /\ UNCHANGED <<connVars, stage, checkVars, toRelease>>

ConnectTo(c, p) ==
  ConnectRefused(c, p) \/ ConnectExpired(c, p) \/ Attach(c, p)

(* login of a character whose player has no client connects at once.         *)
LoginConnects(c) ==
  /\ Execute("Login", c)
  /\ \E p \in Found : client[p] = None /\ ConnectTo(c, p)
  /\ autosend' = autosend \cup {c}
  /\ UNCHANGED <<eventConnect, scheduled>>

(* The scheduler posts the event ...                                         *)
ConnectIsDue(c) ==
  /\ c \in scheduled
  /\ scheduled' = scheduled \ {c}
  /\ tasks' = Append(tasks, [op |-> "Connect", conn |-> c,
                             player |-> eventConnect[c]])
  /\ UNCHANGED <<connVars, player, acceptPackets, eventConnect, autosend,
                 playerVars>>

(* ... and the dispatcher executes it.                                       *)
Connect(c) ==
  /\ Execute("Connect", c)
  /\ Unlocked(c)
  /\ ConnectTo(c, Head(tasks).player)
  /\ eventConnect' = [eventConnect EXCEPT ![c] = None]
  /\ UNCHANGED <<scheduled, autosend>>

(* Mutant: only a protocol that has a player leaves the autosend list.       *)
ReleaseMutPlayersOnly(c) ==
  /\ Execute("Release", c)
  /\ LET p == player[c]
         holds == p # None /\ client[p] = c
     IN IF holds
        THEN /\ client' = [client EXCEPT ![p] = None]
             /\ player' = [player EXCEPT ![c] = None]
             /\ DropAll(<<p>>, {})
             /\ autosend' = autosend \ {c}
        ELSE UNCHANGED <<client, player, refs, stage, autosend>>
  /\ tasks' = Rest
  /\ UNCHANGED <<connVars, acceptPackets, eventConnect, scheduled,
                 isConnecting, checkVars, toRelease>>

(* ProtocolGame::release.                                                    *)
Release(c) ==
  /\ Execute("Release", c)
  /\ LET p == player[c]
         holds == p # None /\ client[p] = c
     IN IF holds
        THEN /\ client' = [client EXCEPT ![p] = None]
             /\ player' = [player EXCEPT ![c] = None]
             /\ DropAll(<<p>>, {})
        ELSE UNCHANGED <<client, player, refs, stage>>
  /\ autosend' = autosend \ {c}
  /\ tasks' = Rest
  /\ UNCHANGED <<connVars, acceptPackets, eventConnect, scheduled,
                 isConnecting, checkVars, toRelease>>

(* The logout of a packet is refused where one may not log out, during a     *)
(* fight, or by a script ...                                                 *)
LogoutRefused(c) ==
  /\ Execute("Logout", c)
  /\ player[c] = None \/ ~IsRemoved(player[c])
  /\ tasks' = Rest
  /\ UNCHANGED <<connVars, protocolVars, playerVars>>

(* ... or not: disconnect, then Game::removeCreature.                        *)
Logout(c) ==
  /\ Execute("Logout", c)
  /\ player[c] # None
  /\ Unlocked(c)
  /\ Disconnect(c, Rest)
  /\ LET p == player[c]
     IN IF IsRemoved(p)
        THEN UNCHANGED <<stage, creatureCheck, toRelease>>
        ELSE /\ stage' = [stage EXCEPT ![p] = "Removed"]
             /\ creatureCheck' = creatureCheck \ {p}
             /\ toRelease' = Append(toRelease, p)
  /\ UNCHANGED <<protocolVars, client, isConnecting, refs, checked>>

(* Player::kickPlayer, by a gamemaster, a script or the closing of the game. *)
KickPlayer(p) ==
  /\ stage[p] = "Placed"
  /\ LET c == client[p]
     IN \/ c = None /\ UNCHANGED <<connVars, tasks>>
        \/ c # None /\ player[c] # None /\ Unlocked(c) /\ Disconnect(c, tasks)
  /\ stage' = [stage EXCEPT ![p] = "Removed"]
  /\ creatureCheck' = creatureCheck \ {p}
  /\ toRelease' = Append(toRelease, p)
  /\ UNCHANGED <<protocolVars, client, isConnecting, refs, checked>>

(* Modules::executeOnRecvbyte runs a script on the player.                   *)
Module(c) ==
  /\ Execute("Module", c)
  /\ tasks' = Rest
  /\ UNCHANGED <<connVars, protocolVars, playerVars>>

(* OutputMessagePool::sendAll.                                               *)
SendAll(c) ==
  /\ c \in autosend
  /\ Unlocked(c)
  /\ Alive(c)
  /\ connectionState[c] = "Open"
  /\ messageQueue[c] < MaxBuffered
  /\ Send(c)
  /\ UNCHANGED <<connectionState, isOpen, managed, netVars, tasks,
                 protocolVars, playerVars>>

-----------------------------------------------------------------------------
(* Game::checkCreatures and Game::cleanup.                                   *)

(* A player leaves the game in a pass over its list, which ends with cleanup. *)
LeaveAndCleanup(p) ==
  /\ DropAll(Append(toRelease, p), {p})
  /\ toRelease' = <<>>
  /\ creatureCheck' = creatureCheck \ {p}
  /\ UNCHANGED <<protocolVars, client, isConnecting, checked>>

(* sendPing: without an answer for a minute, and when it may log out, the    *)
(* player is logged out.                                                     *)
SendPing(p) ==
  /\ p \in checked \cap creatureCheck
  /\ p \notin isConnecting
  /\ LET c == client[p]
     IN \/ c = None /\ UNCHANGED <<connVars, tasks>>
        \/ c # None /\ player[c] # None /\ Unlocked(c) /\ Disconnect(c, tasks)
  /\ LeaveAndCleanup(p)

(* onDeath: the dead player's client stays connected.                        *)
OnDeath(p) ==
  /\ p \in checked \cap creatureCheck
  /\ UNCHANGED <<connVars, tasks>>
  /\ LeaveAndCleanup(p)

(* Mutant: the list's own reference is not given back.                       *)
DropFromCheckMutKeepRef(p) ==
  /\ p \in checked \ creatureCheck
  /\ checked' = checked \ {p}
  /\ DropAll(toRelease, {})
  /\ toRelease' = <<>>
  /\ UNCHANGED <<connVars, tasks, protocolVars, client, isConnecting,
                 creatureCheck>>

(* A creature that is not checked any more leaves the list.                  *)
DropFromCheck(p) ==
  /\ p \in checked \ creatureCheck
  /\ checked' = checked \ {p}
  /\ DropAll(Append(toRelease, p), {})
  /\ toRelease' = <<>>
  /\ UNCHANGED <<connVars, tasks, protocolVars, client, isConnecting,
                 creatureCheck>>

(* cleanup at the end of the other periodic tasks: a pass over another list, *)
(* decay, walking.                                                           *)
Cleanup ==
  /\ toRelease # <<>>
  /\ DropAll(toRelease, {})
  /\ toRelease' = <<>>
  /\ UNCHANGED <<connVars, tasks, protocolVars, client, isConnecting,
                 checkVars>>

-----------------------------------------------------------------------------
RunTask(c) ==
  \/ OnConnect(c)
  \/ LoginFails(c)
  \/ LoginPlaces(c)
  \/ LoginRefused(c)
  \/ LoginReplaces(c)
  \/ LoginConnects(c)
  \/ Connect(c)
  \/ Release(c)
  \/ LogoutRefused(c)
  \/ Logout(c)
  \/ Module(c)

Dispatcher == \E c \in Conn : RunTask(c)

Next ==
  \/ \E c \in Conn : Network(c) \/ ParseBegins(c)
  \/ ParseEnds
  \/ NetReturns
  \/ Dispatcher
  \/ \E c \in Conn : ConnectIsDue(c) \/ SendAll(c)
  \/ \E p \in Player : KickPlayer(p) \/ SendPing(p) \/ OnDeath(p)
       \/ DropFromCheck(p)
  \/ Cleanup

(* The threads run, and the periodic tasks come again and again.  The        *)
(* dispatcher gets the lock of a connection it waits for, though not at      *)
(* once: the network thread drops it after each packet.  Nobody has to       *)
(* connect, send, be kicked or die.                                          *)
Fairness ==
  /\ SF_vars(Dispatcher)
  /\ WF_vars(NetReturns)
  /\ WF_vars(ParseEnds)
  /\ WF_vars(Cleanup)
  /\ \A c \in Conn :
       /\ WF_vars(ConnectIsDue(c))
       /\ WF_vars(DropFromCheck(c))

Safety == Init /\ [][Next]_vars

Spec == Safety /\ Fairness

-----------------------------------------------------------------------------
(* The reference counter of a player counts the protocol that plays it, its  *)
(* place in the game or among the creatures to release, and its place in a   *)
(* check list: neither is it deleted while one of them still points to it,   *)
(* nor is it kept when none does.                                            *)
Holders(p) ==
  Cardinality({c \in Conn : player[c] = p})
    + (IF stage[p] = "Placed" THEN 1 ELSE 0)
    + (IF p \in checked THEN 1 ELSE 0)
    + Count(p, toRelease)

RefsCounted ==
  /\ TypeOK
  /\ \A p \in Player :
       /\ refs[p] = Holders(p)
       /\ stage[p] \in {"None", "Deleted"} <=> refs[p] = 0

(* Packets are bound to the Player object, not to its id, and the network    *)
(* thread reads it without asking the dispatcher.  Still no task and no      *)
(* handler meets a deleted player: it is deleted after the release of its    *)
(* protocol, and that is posted after every packet.                          *)
NoDeletedPlayer ==
  /\ \A i \in DOMAIN tasks :
       tasks[i].op = "Module" /\ tasks[i].player # None =>
         stage[tasks[i].player] # "Deleted"
  /\ hasLock => player[handlerOf] # None

(* The character is in the game once, and played by one client at a time.    *)
OnePlayer ==
  /\ Cardinality(Found) <= 1
  /\ \A c, d \in Conn : player[c] = player[d] /\ player[c] # None => c = d
  /\ \A p \in Player, c \in Conn : client[p] = c <=> player[c] = p

(* A protocol that was released is out of the autosend list for good.        *)
Released(c) ==
  connectionState[c] = "Disconnected" /\ Pending("Release", c) = {}

NoStaleAutosend == \A c \in Conn : Released(c) => c \notin autosend

(* A client that takes over a player gets it from nobody: the one before it  *)
(* was released first.                                                       *)
NoTakeover ==
  [][\A p \in Player :
       client[p] # None /\ client'[p] # client[p] => client'[p] = None]_vars

(* A player who has left the game is deleted, unless its client is still     *)
(* there or connected after it had been released.                            *)
Kept(p) == \E c \in Conn : player[c] = p /\ (connectionState[c] = "Open" \/ Released(c))

RemovedAreDeleted ==
  \A p \in Player : stage[p] = "Removed" ~> stage[p] = "Deleted" \/ Kept(p)

(* "ProtocolGame::release() has been called at this point and the Connection *)
(* object no longer exists, so we return to prevent leakage of the Player."  *)
(* (protocolgame.cpp: connect): no player is left to a protocol that was     *)
(* released.                                                                 *)
NoReleasedClient == \A p \in Player : client[p] # None => ~Released(client[p])

=============================================================================
