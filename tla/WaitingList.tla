---------------------------- MODULE WaitingList -----------------------------
(***************************************************************************)
(* The waiting list of waitlist.cpp: ProtocolGame::login asks it whether a  *)
(* player may enter a full server, and tells a player who may not in how    *)
(* many seconds to try again.  Players of premium accounts wait in a list   *)
(* of their own, in front of the others.  Everything happens in the         *)
(* dispatcher thread, so a login is one step.                               *)
(*                                                                          *)
(* Time is in seconds and passes TickLength at a time.  The difference of   *)
(* an entry's timeout and the clock is computed in size_t, hence modulo     *)
(* SizeMax.  std::list keeps its length in a counter of the list it was     *)
(* asked to erase from: prioritySize and waitSize are those counters.       *)
(***************************************************************************)
EXTENDS Integers, Sequences, FiniteSets, SequencesExt

CONSTANTS
  Player,
  Premium,       \* players for whom isPremium() holds
  AlwaysLogin,   \* players with PlayerFlag_CanAlwaysLogin, or gamemasters
  Patient,       \* players who retry in time until they are let in
  MaxPlayers,    \* ConfigManager::MAX_PLAYERS
  SizeMax,       \* one more than the largest size_t
  TickLength,
  MaxTime        \* bound of the model: the clock stops here

ASSUME WaitingListAssumption ==
  /\ Premium \subseteq Player
  /\ AlwaysLogin \subseteq Player
  /\ Patient \subseteq Player
  /\ MaxPlayers \in Nat \ {0}
  /\ SizeMax \in Nat \ {0}
  /\ TickLength \in Nat \ {0}
  /\ MaxTime \in Nat

VARIABLES
  priorityWaitList, waitList,   \* WaitListInfo's two lists
  prioritySize, waitSize,       \* what their size() returns
  online,                       \* Game::players
  now                           \* OTSYS_TIME()

lists == <<priorityWaitList, waitList, prioritySize, waitSize>>

vars == <<lists, online, now>>

Wait == [playerGUID : Player, timeout : Nat]

Init ==
  /\ priorityWaitList = <<>>
  /\ waitList = <<>>
  /\ prioritySize = 0
  /\ waitSize = 0
  /\ online = {}
  /\ now = 0

TypeOK ==
  /\ priorityWaitList \in Seq(Wait)
  /\ waitList \in Seq(Wait)
  /\ prioritySize \in 0..SizeMax - 1
  /\ waitSize \in 0..SizeMax - 1
  /\ online \subseteq Player
  /\ now \in Nat

-----------------------------------------------------------------------------
(* The two lists, in the order in which findClient walks them.              *)
Queue == priorityWaitList \o waitList

IsWaiting(p) == \E i \in DOMAIN Queue : Queue[i].playerGUID = p

(* The place findClient returns.                                            *)
SlotIn(q, p) == CHOOSE i \in DOMAIN q : q[i].playerGUID = p

(* WaitingList::getTime, and the timeout of an entry, in seconds.           *)
GetTime(slot) ==
  CASE slot < 5  -> 5
    [] slot < 10 -> 10
    [] slot < 20 -> 20
    [] slot < 50 -> 60
    [] OTHER     -> 120

GetTimeout(slot) == GetTime(slot) + 15

(* cleanupList: a difference of unsigned integers is <= 0 only when it is 0. *)
IsExpired(w) == (w.timeout - now) % SizeMax <= 0

Cleaned(list) ==
  LET kept[n \in 0 .. Len(list)] ==
        IF n = 0 THEN <<>>
        ELSE IF IsExpired(list[n]) THEN kept[n - 1]
        ELSE Append(kept[n - 1], list[n])
  IN  kept[Len(list)]

Removed(list) == Len(list) - Len(Cleaned(list))

(* Mutant: the place of the player is not added to the players online.      *)
HasRoomMutNoSlot(slot) == Cardinality(online) < MaxPlayers

(* Mutant: everybody on the list is counted, behind the player too.          *)
HasRoomMutWholeQueue(slot) == Cardinality(online) + Len(Queue) <= MaxPlayers

(* "should be able to login now"                                            *)
HasRoom(slot) == Cardinality(online) + slot <= MaxPlayers

-----------------------------------------------------------------------------
(* The rest of ProtocolGame::login: the player enters the game, or could    *)
(* not be loaded or placed.                                                 *)
Enter(p) ==
  \/ online' = online \cup {p}
  \/ online' = online

(* clientLogin returns true at once.                                        *)
PassBy(p) ==
  /\ \/ p \in AlwaysLogin
     \/ Queue = <<>> /\ Cardinality(online) < MaxPlayers
  /\ Enter(p)
  /\ UNCHANGED lists

MustQueue(p) ==
  /\ p \notin AlwaysLogin
  /\ Queue # <<>> \/ Cardinality(online) >= MaxPlayers

(* What cleanupList leaves of the lists and of their counters.              *)
CleanPriority == Cleaned(priorityWaitList)
CleanWait == Cleaned(waitList)
CleanPrioritySize == (prioritySize - Removed(priorityWaitList)) % SizeMax

CleanWaitSize == (waitSize - Removed(waitList)) % SizeMax

CleanQueue == CleanPriority \o CleanWait

IsFound(p) == \E i \in DOMAIN CleanQueue : CleanQueue[i].playerGUID = p

(* Mutant: the entry of a player who is let in stays where it is.           *)
LetInMutKeep(p) ==
  /\ MustQueue(p)
  /\ IsFound(p)
  /\ HasRoom(SlotIn(CleanQueue, p))
  /\ priorityWaitList' = CleanPriority
  /\ waitList' = CleanWait
  /\ prioritySize' = CleanPrioritySize
  /\ waitSize' = CleanWaitSize
  /\ Enter(p)

(* waitList.erase(it), whichever list it points into: the element goes, and *)
(* waitList's counter is decremented.                                       *)
LetIn(p) ==
  /\ MustQueue(p)
  /\ IsFound(p)
  /\ LET slot == SlotIn(CleanQueue, p)
         n == Len(CleanPriority)
     IN /\ HasRoom(slot)
        /\ priorityWaitList' = IF slot <= n THEN RemoveAt(CleanPriority, slot)
                                            ELSE CleanPriority
        /\ waitList' = IF slot > n THEN RemoveAt(CleanWait, slot - n)
                                   ELSE CleanWait
  /\ prioritySize' = CleanPrioritySize
  /\ waitSize' = (CleanWaitSize - 1) % SizeMax
  /\ Enter(p)

(* Mutant: a player who has to wait longer goes to the end of the list.      *)
WaitLongerMutToEnd(p) ==
  /\ MustQueue(p)
  /\ IsFound(p)
  /\ LET slot == SlotIn(CleanQueue, p)
         n == Len(CleanPriority)
         w == [playerGUID |-> p, timeout |-> now + GetTimeout(slot)]
     IN /\ ~HasRoom(slot)
        /\ priorityWaitList' = IF slot <= n
                               THEN Append(RemoveAt(CleanPriority, slot), w)
                               ELSE CleanPriority
        /\ waitList' = IF slot > n
                       THEN Append(RemoveAt(CleanWait, slot - n), w)
                       ELSE CleanWait
  /\ UNCHANGED <<prioritySize, waitSize, online>>

(* "let them wait a bit longer"                                             *)
WaitLonger(p) ==
  /\ MustQueue(p)
  /\ IsFound(p)
  /\ LET slot == SlotIn(CleanQueue, p)
         n == Len(CleanPriority)
         w == [playerGUID |-> p, timeout |-> now + GetTimeout(slot)]
     IN /\ ~HasRoom(slot)
        /\ priorityWaitList' = IF slot <= n
                               THEN [CleanPriority EXCEPT ![slot] = w]
                               ELSE CleanPriority
        /\ waitList' = IF slot > n THEN [CleanWait EXCEPT ![slot - n] = w]
                                   ELSE CleanWait
  /\ prioritySize' = CleanPrioritySize
  /\ waitSize' = CleanWaitSize
  /\ UNCHANGED online

(* A player who is not on the list goes to the end of its list.             *)
QueueUp(p) ==
  /\ MustQueue(p)
  /\ ~IsFound(p)
  /\ LET slot == IF p \in Premium
                 THEN CleanPrioritySize
                 ELSE (CleanPrioritySize + CleanWaitSize) % SizeMax
         w == [playerGUID |-> p, timeout |-> now + GetTimeout(slot + 1)]
     IN IF p \in Premium
        THEN /\ priorityWaitList' = Append(CleanPriority, w)
             /\ prioritySize' = (CleanPrioritySize + 1) % SizeMax
             /\ waitList' = CleanWait
             /\ waitSize' = CleanWaitSize
        ELSE /\ waitList' = Append(CleanWait, w)
             /\ waitSize' = (CleanWaitSize + 1) % SizeMax
             /\ priorityWaitList' = CleanPriority
             /\ prioritySize' = CleanPrioritySize
  /\ UNCHANGED online

ClientLogin(p) == PassBy(p) \/ LetIn(p) \/ WaitLonger(p) \/ QueueUp(p)

(* ProtocolGame::login of a character that is not in the game.              *)
Login(p) ==
  /\ p \notin online
  /\ ClientLogin(p)
  /\ UNCHANGED now

Logout(p) ==
  /\ p \in online
  /\ online' = online \ {p}
  /\ UNCHANGED <<lists, now>>

(* A patient player's client retries before its entry times out.            *)
RetriesAreDue ==
  \E i \in DOMAIN Queue :
    Queue[i].playerGUID \in Patient /\ Queue[i].timeout <= now + TickLength

Tick ==
  /\ now + TickLength <= MaxTime
  /\ ~RetriesAreDue
  /\ now' = now + TickLength
  /\ UNCHANGED <<lists, online>>

Next ==
  \/ \E p \in Player : Login(p) \/ Logout(p)
  \/ Tick

(* Patient players retry, and players do not stay for ever.                 *)
Fairness ==
  \A p \in Player :
    /\ WF_vars(p \in Patient /\ IsWaiting(p) /\ Login(p))
    /\ WF_vars(Logout(p))

Safety == Init /\ [][Next]_vars

Spec == Safety /\ Fairness

-----------------------------------------------------------------------------
(* Nobody waits twice, and nobody waits who is in the game.  The counters    *)
(* stay in their range.                                                      *)
OneEntryEach ==
  /\ TypeOK
  /\ \A i, j \in DOMAIN Queue :
       Queue[i].playerGUID = Queue[j].playerGUID => i = j
  /\ \A p \in online \ AlwaysLogin : ~IsWaiting(p)

(* A login never takes a place that somebody further ahead on the list      *)
(* could take: when a player without privileges enters, there is still room  *)
(* for everybody who was waiting before them (waitlist.cpp: clientLogin).    *)
AheadNow(p) ==
  IF IsFound(p) THEN SlotIn(CleanQueue, p) - 1 ELSE 0

NoOvertaking ==
  [][\A p \in (online' \ online) \ AlwaysLogin :
       Cardinality(online') + AheadNow(p) <= MaxPlayers]_vars

(* Players who wait keep their order: of two that wait before and after a   *)
(* step, the one ahead stays ahead, unless its time was over when it came   *)
(* back (waitlist.cpp: cleanupList, clientLogin).                           *)
OrderKept ==
  [][\A i, j \in DOMAIN Queue : \A k, l \in DOMAIN Queue' :
       /\ i < j
       /\ ~IsExpired(Queue[i])
       /\ Queue'[k].playerGUID = Queue[i].playerGUID
       /\ Queue'[l].playerGUID = Queue[j].playerGUID
       => k < l]_vars

(* A premium player who keeps retrying is let in when everybody ahead keeps  *)
(* retrying too; entries of players who retry are only removed by LetIn.     *)
(* That needs an end of the logins of privileged players, who take places    *)
(* without asking the list.                                                  *)
AllPatientUpTo(p) ==
  IsWaiting(p) /\ \A i \in 1..SlotIn(Queue, p) : Queue[i].playerGUID \in Patient

PatientGetIn ==
  <>[](online \cap AlwaysLogin = {}) =>
    \A p \in Premium : AllPatientUpTo(p) ~> ~IsWaiting(p)

(* "timeout is set to 15 seconds longer than expected retry attempt": a     *)
(* login that is not let pass at once leaves no entry behind whose timeout  *)
(* is over (waitlist.cpp: getTimeout, cleanupList).                         *)
ExpiredEntriesLeave ==
  [][lists' # lists => \A i \in DOMAIN Queue' : Queue'[i].timeout > now]_vars

=============================================================================
