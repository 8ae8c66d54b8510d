----------------------------- MODULE Connection -----------------------------
(***************************************************************************)
(* Connections to the game service (connection.cpp), seen from the network  *)
(* thread that runs their handlers and from the dispatcher thread that       *)
(* sends and closes.  A connection keeps itself alive: its handlers hold a   *)
(* shared pointer while an operation is outstanding, and so does the         *)
(* ConnectionManager until close.  The protocol has a weak pointer only, and *)
(* asks it (Alive) whether the connection is still there.                    *)
(*                                                                          *)
(* The one network thread runs one handler at a time, with connectionLock    *)
(* held.  Two moments inside a handler matter: parsePacket between its tests  *)
(* and its effect, when the dispatcher cannot close or send (hasLock), and a  *)
(* handler that has posted the release but not yet dropped its pointer.      *)
(*                                                                          *)
(* tasks is the dispatcher's list.  That it is executed in order is          *)
(* Dispatcher's FifoOrder.  Messages are counted only, and so is             *)
(* the client's data: what matters is which handler it leads to.             *)
(***************************************************************************)
EXTENDS Integers, Sequences, FiniteSets

CONSTANTS
  Conn,         \* connections; the game service makes one protocol for each
  None,
  MaxBuffered,  \* bound of the model: autosend does not queue more messages
  MaxTasks      \* bound of the model: the network waits for the dispatcher then

ASSUME ConnectionAssumption ==
  /\ None \notin Conn
  /\ MaxBuffered \in Nat
  /\ MaxTasks \in Nat \ {0}

VARIABLES
  connectionState,
  isOpen,        \* connections whose socket is open
  managed,       \* ConnectionManager::connections
  reading,       \* connections with an outstanding read
  messageQueue,  \* number of messages; the first is being written
  receivedFirst,
  handlerOf,     \* connection the network thread is in a handler of, or None
  hasLock,       \* whether that handler holds the connection's lock
  tasks          \* the dispatcher's taskList

netVars == <<reading, receivedFirst, handlerOf, hasLock>>

connVars == <<connectionState, isOpen, managed, messageQueue, netVars>>

ConnectionState == {"Pending", "Open", "Disconnected"}

(* A task: what it runs, the protocol bound to it, the player bound to it.   *)
Task == [op : {"OnConnect", "Login", "Connect", "Release", "Logout", "Module"},
         conn : Conn, player : Conn \cup {None}]

Bind(op, c) == [op |-> op, conn |-> c, player |-> None]

ConnTypeOK ==
  /\ connectionState \in [Conn -> ConnectionState]
  /\ isOpen \subseteq Conn
  /\ managed \subseteq Conn
  /\ reading \subseteq Conn
  /\ messageQueue \in [Conn -> 0..MaxBuffered + 2]
  /\ receivedFirst \subseteq Conn
  /\ handlerOf \in Conn \cup {None}
  /\ hasLock \in BOOLEAN
  /\ tasks \in Seq(Task)

ConnInit ==
  /\ connectionState = [c \in Conn |-> "Pending"]
  /\ isOpen = {}
  /\ managed = {}
  /\ reading = {}
  /\ messageQueue = [c \in Conn |-> 0]
  /\ receivedFirst = {}
  /\ handlerOf = None
  /\ hasLock = FALSE
  /\ tasks = <<>>

-----------------------------------------------------------------------------
(* Somebody holds a shared pointer to the connection.                        *)
Alive(c) ==
  c \in managed \cup reading \/ messageQueue[c] > 0 \/ handlerOf = c

(* The dispatcher can take the connection's lock.                            *)
Unlocked(c) == ~(handlerOf = c /\ hasLock)

(* Mutant: close posts the release and leaves the state as it is.            *)
CloseMutState(c, force, q) ==
  /\ connectionState' = connectionState
  /\ managed' = managed \ {c}
  /\ isOpen' = IF force \/ messageQueue'[c] = 0 THEN isOpen \ {c} ELSE isOpen
  /\ tasks' = Append(q, Bind("Release", c))

(* Connection::close, after which the dispatcher's list is q and a release.  *)
(* What send has just queued counts as unwritten.                            *)
Close(c, force, q) ==
  /\ connectionState' = [connectionState EXCEPT ![c] = "Disconnected"]
  /\ managed' = managed \ {c}
  /\ isOpen' = IF force \/ messageQueue'[c] = 0 THEN isOpen \ {c} ELSE isOpen
  /\ tasks' = Append(q, Bind("Release", c))

(* Protocol::disconnect, called by the dispatcher.                           *)
Disconnect(c, q) ==
  /\ UNCHANGED <<messageQueue, netVars>>
  /\ IF Alive(c)
     THEN Close(c, FALSE, q)
     ELSE tasks' = q /\ UNCHANGED <<connectionState, isOpen, managed>>

(* Connection::send.                                                         *)
Send(c) ==
  messageQueue' = IF connectionState[c] = "Open"
                  THEN [messageQueue EXCEPT ![c] = @ + 1]
                  ELSE messageQueue

(* ProtocolGame::disconnectClient: a last message, then disconnect.          *)
DisconnectClient(c, q) ==
  /\ UNCHANGED netVars
  /\ IF Alive(c)
     THEN Send(c) /\ Close(c, FALSE, q)
     ELSE /\ tasks' = q
          /\ UNCHANGED <<connectionState, isOpen, managed, messageQueue>>

-----------------------------------------------------------------------------
(* The network thread's handlers.                                            *)

(* The handler closes the connection and is about to return.                 *)
CloseAndReturn(c, force) ==
  /\ Close(c, force, tasks)
  /\ handlerOf' = c
  /\ UNCHANGED <<hasLock, receivedFirst>>

(* ServicePort::onAccept, Connection::accept(protocol).                      *)
Accept(c) ==
  /\ connectionState[c] = "Pending"
  /\ connectionState' = [connectionState EXCEPT ![c] = "Open"]
  /\ isOpen' = isOpen \cup {c}
  /\ managed' = managed \cup {c}
  /\ reading' = reading \cup {c}
  /\ tasks' = Append(tasks, Bind("OnConnect", c))
  /\ UNCHANGED <<messageQueue, receivedFirst, handlerOf, hasLock>>

(* A read failed, or its data was refused: close(FORCE_CLOSE).               *)
ReadFails(c) ==
  /\ c \in reading
  /\ reading' = reading \ {c}
  /\ UNCHANGED messageQueue
  /\ CloseAndReturn(c, TRUE)

(* parseHeader: more packets per second than the configuration allows.       *)
TooManyPackets(c) ==
  /\ c \in reading \cap isOpen
  /\ connectionState[c] = "Open"
  /\ reading' = reading \ {c}
  /\ UNCHANGED messageQueue
  /\ CloseAndReturn(c, FALSE)

(* Data for a connection that is being closed: the handler returns.          *)
ReadIgnored(c) ==
  /\ c \in reading \cap isOpen
  /\ connectionState[c] = "Disconnected"
  /\ reading' = reading \ {c}
  /\ UNCHANGED <<connectionState, isOpen, managed, messageQueue,
                 receivedFirst, handlerOf, hasLock, tasks>>

(* The first message, which answers the challenge that onConnect has sent,   *)
(* when onRecvFirstMessage posts the login ...                               *)
FirstMessage(c) ==
  /\ c \in (reading \cap isOpen) \ receivedFirst
  /\ connectionState[c] = "Open"
  /\ \A i \in DOMAIN tasks : tasks[i] # Bind("OnConnect", c)
  /\ receivedFirst' = receivedFirst \cup {c}
  /\ tasks' = Append(tasks, Bind("Login", c))
  /\ UNCHANGED <<connectionState, isOpen, managed, reading, messageQueue,
                 handlerOf, hasLock>>

(* ... and when it turns the client away, with a message or without one.     *)
(* parsePacket reads on nevertheless.                                        *)
FirstMessageRefused(c) ==
  /\ c \in (reading \cap isOpen) \ receivedFirst
  /\ connectionState[c] = "Open"
  /\ receivedFirst' = receivedFirst \cup {c}
  /\ Send(c) \/ UNCHANGED messageQueue
  /\ Close(c, FALSE, tasks)
  /\ UNCHANGED <<reading, handlerOf, hasLock>>

(* onWriteOperation.                                                         *)
Written(c) ==
  /\ messageQueue[c] > 0
  /\ c \in isOpen
  /\ messageQueue' = [messageQueue EXCEPT ![c] = @ - 1]
  /\ isOpen' = IF messageQueue[c] = 1 /\ connectionState[c] = "Disconnected"
               THEN isOpen \ {c}
               ELSE isOpen
  /\ UNCHANGED <<connectionState, managed, netVars, tasks>>

(* onWriteOperation with an error, which also is how a write of a socket     *)
(* ends that has been closed meanwhile.                                      *)
WriteFails(c) ==
  /\ messageQueue[c] > 0
  /\ messageQueue' = [messageQueue EXCEPT ![c] = 0]
  /\ UNCHANGED reading
  /\ CloseAndReturn(c, TRUE)

(* handleTimeout; closing the socket cancels both timers.                    *)
HandleTimeout(c) ==
  /\ c \in isOpen
  /\ c \in reading \/ messageQueue[c] > 0
  /\ UNCHANGED <<reading, messageQueue>>
  /\ CloseAndReturn(c, TRUE)

HandlerReturns ==
  /\ handlerOf # None
  /\ ~hasLock
  /\ handlerOf' = None
  /\ UNCHANGED <<connectionState, isOpen, managed, messageQueue, reading,
                 receivedFirst, hasLock, tasks>>

(* The handlers that are one step here, or end with HandlerReturns.          *)
Handler(c) ==
  /\ handlerOf = None
  /\ Len(tasks) < MaxTasks
  /\ \/ Accept(c)
     \/ ReadFails(c)
     \/ TooManyPackets(c)
     \/ ReadIgnored(c)
     \/ FirstMessage(c)
     \/ FirstMessageRefused(c)
     \/ Written(c)
     \/ WriteFails(c)
     \/ HandleTimeout(c)

=============================================================================
