# Verification of the game server

TLA+ models of the server in `src/source/src` (a C++ server of the Forgotten
Server family, with its data and Lua scripts in `src/data`), their model-checking
configurations for TLC, and proofs for the TLA+ proof system.

The server is a single game loop, the *dispatcher* thread, fed by a *scheduler*
thread (timers), a *database* thread (queries behind the game's back) and the
*network*, which the main thread runs in `io_service.run`. Almost all game rules
run in dispatcher tasks, one at a time. What is hard about the program, and what
these models are for, lies between the tasks and between the threads: wake-ups,
work that is posted and overtaken by another thread's work, objects that a task is
bound to and that another task releases, timers that have fired but not yet run,
shutting down.

## 1. Inventory

| Component | State | Operations | Talks to |
|---|---|---|---|
| Dispatcher (`tasks.*`) | task list, thread state | `addTask` (front or back), `threadMain`, `stop`, `shutdown` | everybody posts; runs every task |
| Scheduler (`scheduler.*`) | queue of timed tasks, set of live identifiers, `lastEventId` | `addEvent`, `stopEvent`, `threadMain`, `shutdown` | posts due events at the front of the dispatcher's list |
| Database thread (`databasetasks.*`) | list of queries | `addTask`, `flush`, `threadMain`, `shutdown` | posts callbacks to the dispatcher; `flush` runs in the dispatcher |
| Start and stop (`otserv.cpp`, `signals.cpp`, `game.cpp`) | game state, thread states | `main`, signal handlers, `setGameState`, `saveGameState`, `Game::shutdown` | all threads |
| Services (`server.*`) | acceptors | `accept`, `onAccept`, `open`, `close`, `stop`, `die` | creates connections |
| Connections (`connection.*`) | state, read and write operations, timers, message queue | `accept`, `parseHeader`, `parsePacket`, `send`, `close`, `onWriteOperation`, `handleTimeout` | network thread calls the protocol; dispatcher sends and closes |
| Game sessions (`protocolgame.*`, `player.*`, `game.cpp`) | protocol's player, player's client, delayed connect, reference counts, check lists, autosend list | `login`, `connect`, `logout`, `release`, `kickPlayer`, `sendPing`, `onDeath`, `placeCreature`, `removeCreature`, `checkCreatures`, `cleanup` | connections, scheduler, waiting list |
| Waiting list (`waitlist.*`) | two lists with timeouts | `clientLogin`, `getClientSlot` | called by `login` |
| Parties (`party.*`) | leader, members, invitees, shared experience; player's party and invitations; channels of parties | `invitePlayer`, `joinParty`, `leaveParty`, `passPartyLeadership`, `removeInvite`, `disband`, `setSharedExperience` | players, chat, Lua events |
| Trade (`game.cpp`, `player.cpp`) | for each player a trade state, a partner and an item; the registry of offered items | `playerRequestTrade`, `playerAcceptTrade`, `playerCloseTrade`, `internalCloseTrade`, `checkTradeState` and whatever moves items or players | items, players |
| Market (`game.cpp`, `iomarket.*`) | rows of `market_offers`; money, items and coins of players | create, cancel and accept an offer; `checkExpiredOffers`, `processExpiredOffers` | database thread, players, accounts |
| Items, containers, tiles, map | cylinders and their things | `internalMoveItem`, `internalAddItem`, `internalRemoveItem`, `transformItem` | everything in the game |
| Decay, imbuements (`game.cpp`, `item.*`) | four buckets, a list of items to come into them, a list of items to release, reference counts, durations | `startDecay`, `checkDecay`, `internalDecayItem`, `transformItem`, `checkImbuements`, `cleanup` | scheduler, items |
| Spawns (`spawn.*`) | for each block its monster and the time of its last one; the event of the check | `startup`, `checkSpawn`, `scheduleSpawn`, `cleanup`, `startSpawnCheck` | scheduler, monsters |
| Raids (`raids.*`) | the list of raids, the running one, its next event, identifiers of events | `checkRaids`, `startRaid`, `executeRaidEvent`, `resetRaid`, `reload` | scheduler, Lua |
| Global events (`globalevent.*`) | two identifiers of events | `timer`, `think` | scheduler, Lua |
| Database connection and persistence (`database.*`, `iologindata.*`, `iomapserialize.*`) | one MySQL handle and its lock | `executeQuery`, `beginTransaction`, `commit`, `rollback`; `savePlayer`, `saveHouseInfo`, `saveHouseItems` | dispatcher and database thread share it |
| Bans (`ban.*`) | throttle per address | `acceptConnection`, `isAccountBanned` | network thread, database |
| Creatures, monsters (`creature.*`, `monster.*`, `game.cpp`) | whom each attacks, follows and serves; lists of friends, targets and summons; whom the game checks; reference counters | `placeCreature`, `removeCreature`, `moveCreature`, `checkCreatures`, `onThink`, `onDeath`, `setMaster`, `cleanup` | the map tells them of each other; players, spawns, Lua |
| Combat, spells, houses, guilds, chat, store, prey, Lua | the rules of the game | tasks of the dispatcher | each other |

What makes each of them correct:

- *Dispatcher, scheduler*: what is posted runs, once, in order, not before it is
  due and not after it was stopped. The hazards are the wake-ups (one notification,
  sent after the mutex is released, and only if the list was empty), the sleep that
  was computed for an event that is no longer the first, and `stopEvent` racing the
  pop.
- *Database thread*: a query runs once, whichever of two threads takes it, and its
  callback is called after it ran.
- *Stopping*: no task meets objects that `Game::shutdown` cleared, nothing accepted
  is left behind, and the process ends.
- *Connections and sessions*: a `Player` object lives exactly as long as something
  points to it, a character is in the game once and played by one client, and a
  player who left is deleted. Four parties act: the network thread's handlers, the
  dispatcher's tasks, the delayed `connect`, and the periodic checks.
- *Waiting list*: one entry for each player, no overtaking, and who keeps trying
  gets in.
- *Parties*: a player's party and the party's members agree, invitations agree, a
  deleted party and a player who logged out are referenced by nobody, and what is
  cached about the members (shared experience, the users of the channel) follows them.
- *Trade*: the two sides and the registry agree whatever ends a trade; what is offered
  does not change while the other looks at it; an exchange hands over both items. The
  hazards are the many functions that move an item and have to tell the owner, and a test
  that answers for two moves which are then made one after the other.
- *Market*: items and money come out exactly once, although an offer may be accepted in
  part, cancelled or processed between its selection by another thread and its expiry.
- *Decay*: an item has as many references as entries point to it, nothing that is marked
  as decaying is in no list, and it decays when its time is over.
- *Spawns*: a block has one monster, although an announced one is not yet known, and gets
  it back. *Raids*: one at a time, and it ends, although a reload deletes it.
- *Creatures*: nothing points to an object that was freed, although most pointers are not
  counted, and no monster sleeps while a player is in its sight, although it is told of
  players by many ways and looks around by itself only when it moves.
- *Persistence*: a save is stored whole or not at all and a query runs once, through
  errors and lost connections.

`PROJECT.json` lists the components with what is modelled of each, and the
hazards, each at its line, with the properties that would catch it.

## 2. Modules

```
Dispatcher <- Scheduler <- EventLoop <- EventLoopProofs
                 ^            |  implements
                 |            +--------------> TimerService
            DatabaseTasks <- ServerShutdown <- ServerShutdownProofs
Connection <- Session <- SessionProofs
WaitingList <- WaitingListProofs
Party, Creatures <- MCCompany
   Party <- PartyProofs    Creatures <- CreaturesProofs
Trade <- TradeProofs
Market, Raids, Spawns, Transactions, Decay <- MCWorld, WorldProofs
```

An arrow points to the module that is extended. `Dispatcher`, `Scheduler`,
`DatabaseTasks` and `Connection` hold the state and the operations of one component;
`EventLoop`, `ServerShutdown` and `Session` compose them with the threads that use
them, and state the properties. `MC*.tla` are the instances for TLC, and the
definitions named `...Mut...` are wrong variants of the definition that follows them,
such as a plausible bug would leave; for each property of a passing run there is one
that violates it.

**Dispatcher.** A critical section never blocks while it holds its mutex, so each is
one action. `notify_one` comes after the unlock, so it is a step of its own:
`dispatcherSignal` says that one is due. Waiting threads can wake spuriously.
`executed` and `dropped` are history. A `Task` is its identity and its expiration.

**Scheduler.** The priority queue is a set; `IsTop` leaves open which of several
events due at one time comes first. `wakeAt` is the argument of `wait_until`. A
thread that was notified out of `wait_until` (`Woken`) may still be told that it
timed out, if the time has passed when it has the mutex again: then it pops whatever
is on top by then. `handover` is the event between the pop and the dispatcher's
list.

**TimerService.** The abstract specification: an event is scheduled, and then either
stopped or fired, once, when it is due. `EventLoop` implements it with
*pending* = in the queue with a live identifier, *fired* = accepted and neither
pending nor stopped. Firing is the erasing of the identifier under the mutex: from
then on `stopEvent` returns false.

**EventLoop.** Any thread posts, schedules and stops at any time. An event that
repeats is a new event each time.

**DatabaseTasks, ServerShutdown.** The dispatcher's two long functions,
`setGameState(GAME_STATE_SHUTDOWN)` and `Game::shutdown`, are cut (`step`) where
another thread can observe them: each `stop`, each part of each `shutdown`, each
query of a `flush`. The main thread reads a signal or a login, posts it later, and at
the end joins the others in the code's order. What a task of the game does is
reduced to whether it lets a player in and whether it runs a query.

**WaitingList.** A login is one dispatcher task, so one step: clean both lists, then
one of `PassBy`, `LetIn`, `WaitLonger`, `QueueUp`. Time is in seconds instead of
milliseconds; the subtraction in `cleanupList` is unsigned, hence modulo `SizeMax`.
`LetIn` erases from `waitList` even if the entry is in `priorityWaitList`: the element
leaves the right list, but the counter of the other is decremented, so the counters
are variables of their own and wrap around too.

**Connection.** A connection lives while its manager, an outstanding read or write,
or a running handler holds it (`Alive`); the protocol only asks whether it is alive.
The network thread runs one handler at a time. Two moments inside a handler are
separate: `ParseBegins`/`ParseEnds` around a packet (the lock is held, so the
dispatcher can neither send nor close meanwhile), and `CloseAndReturn`/
`HandlerReturns` (the release is posted, the pointer not yet dropped). Packets are
counted, not read: what matters is which handler they lead to.

**Session.** One character; a `Player` object is named after the connection whose
login created it. Every dispatcher task is one action: the whole of `login` with its
outcomes, `connect`, `release`, `logout`, `kickPlayer`. The checks of
`checkCreatures` (`SendPing`, `OnDeath`, `DropFromCheck`) and `cleanup` may come
between any two tasks. `refs` is `referenceCounter`, changed where the code changes
it; `RefsCounted` compares it with who really points to the player.

**Party.** A handler of `game.cpp` is one dispatcher task and one step. The functions
of `Party`, `Player` and `Chat` that it calls are operators from a `world` (all the
objects) to a `world` and are composed in the order of the code, since that order
matters: `LeaveParty` resets the player's party before it closes the channel, which is
found through the party. `RemoveInvites` and `Disband` take sets, because a logout
clears all invitations in a loop; one round of the loop does not touch what the next
one reads. An address may be used again after `delete this`. The order of members is
kept (the first one inherits), that of invitees is not used. Whether levels, distances
and times let everybody share experience is a choice (`fit`), as is whether a player
is in a fight. `Player::onIdleStatus` would clear a player's points, but nothing calls it
for players; the events of parties are disabled in `data/events/events.xml`, and a script
that refused `onLeave` at a logout would leave a dangling member; the Lua methods of
`Party` are used by no script except behind the guards of `PlayerJoinParty`.

**Trade.** Every way to move an item (`MoveItem`, `MergeItems`, `RemoveItem`, the moves of
an exchange) is followed by the notifications that the code sends from slots, containers
and tiles (`Told`), and by what the players who are told do with their trade
(`Disturbed`, `DisturbedByAdding`, `DisturbedByUpdating`). `Destinations` is
`Player::queryDestination` with its search through slots and open containers, as the
exchange asks it three times with different flags: once for each side as a test, where a
stack may be joined, and then in each move, where it may not. Stacks merge whole; "within
reach" is to stand on one spot. All units together make less than a full stack (`MaxCount`,
the bound on `CreateItem`), so that any two stacks can merge.

**Market.** The rows of offers and the two places of a player's belongings, memory while it
is online and the database otherwise. A handler reads and writes rows at once; coins are
read at once too but written by the database thread (`RunCoinQuery`); expired rows are
selected there (`CheckExpiredOffers`) and processed by a later task. `damage` is history:
it names what happened that the code does not account for, and the properties say what
still holds then.

**Creatures.** A task of the dispatcher is one step, and the functions it calls are
operators on the records of all creatures, composed in the order of the code. The
reference counter is not a variable: it is the number of the lists that hold a creature
(`Held`), and a creature that none holds is freed at the end of the step (`Collected`),
since nothing in it uses the object any more. Spectators come out of a hash set in any
order; what the order can change is whether the creature it is about is told before or
after the others, and whether a monster that looks around finds its friends before its
targets: `first`. `Thoughts` are what chance, the hour and the map decide when a monster
thinks. The objects of `Character` and `Monster` are used again once they are freed.
`unseen` is history: whom a monster could see when it was sent home to sleep.

**Raids.** A raid is a name in one loading of the file, so that one that was deleted can
still be told from its successor. An event is with the scheduler or is a task of the
dispatcher; `EventDue` hands it over, and from then on its identifier means nothing.
`outlived` is history: a reload left an event behind.

**Spawns.** Time is in steps of 1.4 s, of which an announcement takes three. `checkSpawn`
is a loop over the blocks that ends early; `Visited`, `Ripe` and `Ready` are what it sees.

**Transactions.** The server's view (`view` in the connection, `stored`, and whether a
transaction is `open` there) and the lock of the program, which the server does not know
of. `BeginTransaction` and `LockTransaction` are two steps, because the code sends BEGIN
before it takes the lock. The connection may be lost at any moment, also between a
statement's effect and its answer, and `executeQuery` then sends it again.

**Decay.** One record for each item, with the number of its entries in each bucket, in
`toDecayItems` and in `ToReleaseItems`. A bucket is named by the number of checks before
its next visit, so `lastBucket` is no state of its own. Freed memory may be used again.
`clock` and `ended` are history, and measure when an item decays that nobody touched.

**MCWorld, MCCompany.** The five parts of the one and the two of the other (`Party` and
`Creatures`) share no variable and no thread's local state, so their product says nothing
that their sum does not. A behaviour moves one `part`; the others stay at
their beginnings, where what the properties say of them is trivially so.

## 3. Runs

| Run | Instance | What it shows |
|---|---|---|
| `event_loop` | 2 tasks, 2 events, identifiers 1..2, delays 1 and 2, clock to 2 | accounting, not early, posting order, everything runs, `TimerService` is implemented |
| `shutdown` | a signal, a login, 1 event, 2 queries (one with a callback), clock to 2 | query accounting, no event after `Game::shutdown`, clean exit, the dispatcher ends |
| `shutdown_hangs` | as above, 1 query; *violation* | the process may not end |
| `shutdown_kick` | as above, 1 query; *violation* | a player may stay online |
| `waiting_list` | 2 premium players, 2 others, 1 gamemaster, 2 places, `SizeMax` 8, ticks of 10, clock to 20 | one entry each, no overtaking, order, who keeps trying gets in |
| `waiting_list_expiry` | 1 premium player, 2 others, 1 place, `SizeMax` 256, clock to 40; *violation* | expired entries stay |
| `session` | 2 connections, 1 buffered message, 3 tasks | reference counts, no deleted player, one player, no takeover, autosend, deletion |
| `session_leak` | the same; *violation* | a connect after the release |
| `company` | one part in each behaviour. Party: 3 players, one of them exempt from fighting, 2 addresses. Creatures: 1 player, a monster of a spawn, one that summons and can be convinced, 3 places | party: membership, invitations, nobody gone, nobody alone, shared experience, survival; creatures: nothing dangles, monsters wake |
| `party_channel` | the parties of `company`; *violation* | a channel keeps who left the party |
| `trade` | 4 players, 2 containers of size 2, 2 stacks, 2 units in all, 2 spots | both sides and the registry agree, offers are frozen, an exchange is whole |
| `world` | one part in each behaviour, see below | market: nothing lost, old offers settle; raids: one at a time, they end; spawns: one monster each, they come back; database: whole saves, queries once; decay: items listed and counted, in time |

**The bounds.**

- Two events are enough for one to become due while the thread sleeps for the other
  and for one to be stopped while the other is handed over. Two identifiers make
  `lastEventId` wrap (`Init` lets it start anywhere, as after a long time of service);
  `IdSpaceNotExhausted` keeps an identifier that somebody holds from being handed out
  again, as 2^32 of them do in practice. The clock (`MaxTime`) runs past the longest
  delay. `Delay` and `Lifetime` are the delays and lifetimes that callers choose from.
- Two tasks are enough to be swapped, with an event that goes to the front between them.
- In the shutdown runs `MaxEventId` bounds the events scheduled, once each; two
  queries let the database thread run one while `flush` runs the other.
- In `waiting_list`, places, players and `SizeMax` are such that the lists fill up,
  the counters wrap and expired entries are found and missed; in
  `waiting_list_expiry` the word is large enough that nothing wraps on the way. The
  clock stops at `MaxTime`, and it does not pass the retry time of a *patient* player
  before it retried.
- Two connections are a client and the one that replaces it. A connection is used
  once, so the model ends (`CHECK_DEADLOCK FALSE`) when both are used up. `MaxTasks`
  holds the network back while the dispatcher has three tasks to run, and
  `MaxBuffered` the autosend; both are large enough for a release, a login and a
  packet's tasks to be reordered against each other.
- Three players are a leader with two members, or a member and an invitee: the cases of
  `leaveParty`. Two addresses let a player be invited by two parties, and by one while it
  is in the other; one of them is used again after the other was deleted. Players who
  fight and the addresses are interchangeable (`SYMMETRY`; the properties are safety).
- *Creatures*: the two monsters are friends, master and summon of each other, or one is the
  summon of the player; each role meets each other one. Of the three places two are out of
  sight and further apart than a monster of a spawn may stray, and one is three floors above
  another, in sight of it and of no use for an attack. One creature is in each of the ten
  lists of checks. The pool of three objects is all there is: a step `Exhausted` says that
  it may be used up by objects that keep each other alive, or by a dead monster that is
  never checked.
- In `trade`, two pairs of players can trade at once, or one player be asked by two. Two
  containers can be inside each other or one in the other's inventory, and a stack can be
  offered, be in an offer or be what an offer would merge with. Two units are a stack each,
  or one stack that has grown.
- *Market*: one offer at a time (its identifier is not used again) of one or two pieces;
  `Width` 4 is small enough that a price times an amount overflows and that a sum does not
  by itself. Three players are a buyer, a seller and one who may be neither; two results
  can wait, of which the second finds nothing. One coin can be spent twice before it is
  booked.
- *Raids*: one that repeats and one that does not, of one and two events; a reload. An
  identifier is always free among six (`Fresh` in `RaidTypeOK` says so, which is a part of `RaidsEnd`),
  so the bound hides nothing.
- *Spawns*: three blocks, one only where no player is and by day, one by night, one plain;
  with intervals of 4, 4 and 5 steps two are due in one check, of which `RateSpawn` 1 lets
  one come.
- *Transactions*: two rows of which the first's result is ignored, two saves of two tries
  each, two queries, two losses: a loss in each of two transactions, or around one COMMIT.
- *Decay*: two items are one that decays and what it becomes, or a stack and its part.
  Durations of 1, 11 and 15 units of 125 ms are no multiples of a second, `DecayTimes` are;
  three references are a parent and two entries. The six kinds of `MCWorld` are the cases
  of `transformItem` and `internalDecayItem`.
- Every invariant of types is a conjunct of a property that needs it (such as
  `EventAccounting`, `QueryAccounting`, `RefsCounted`, `OneEntryEach`, `NothingDangles`).

**Fairness.** The threads run: weak fairness for each thread's own steps and for a
`notify_one` that is due. Nothing is assumed of clients, signals, callers of
`addEvent` or `stopEvent`, or of spurious wake-ups. The clock ticks. In
`ServerShutdown` the flushing dispatcher and the database thread are fair, which
assumes that a query returns. In `WaitingList` patient players retry in time and
players log out some day; without the latter nobody need ever get in. In `Session` the
dispatcher is strongly fair, because a task that needs the lock of a connection gets
it although the network thread takes it again and again: that thread drops it after
each packet, and the packet limit of `parseHeader` keeps it from being taken at once;
and the periodic `cleanup` and `checkCreatures` come again, since they reschedule
themselves first thing. In `Market` the check of expired offers reschedules itself and
its result is a task; nobody has to use the market. In `Raids` each event goes on to the
dispatcher and is run; that a raid starts is not assumed. In `Spawns` time passes and
events run when due; `Refills` states as its premise what it needs of the players (they
stay away, nothing is in the way, no monster dies).

**Findings.** Five statements in the code do not hold; each is a run that TLC
refutes, and an entry in `PROJECT.json`:

1. *SIGINT shuts the server down* (`signals.cpp:95`): `Scheduler::shutdown` and
   `DatabaseTasks::shutdown` can set the state and notify while the thread is between
   its test of the state and its wait; it then sleeps for ever, and `main` in `join`.
2. *Kick all players that are still online* (`game.cpp:155`): a login behind the
   signal's task in the dispatcher's list enters the game after the kick.
3. *Timeout ... 15 seconds longer than expected retry attempt* (`waitlist.cpp:61`):
   the comparison that should expire entries is unsigned.
4. *release() has been called ... and the Connection object no longer exists*
   (`protocolgame.cpp:191`): it may still exist, and then the player is attached to a
   protocol that was already released.
5. *Open the party channel to communicate with your companions* (`party.cpp:226`):
   whoever leaves stays a user of the channel. With the two statements in the other order
   (`sendClosePrivate` before `setParty(nullptr)`, in `leaveParty` and `disband`),
   `ChannelOfCompanions` holds in the same instance.

**Exceptions.** Some properties say "unless": the code does not promise more, and a
history variable names the case. These are worth a look by whoever owns the code:

- *Trade*: the exchange is tested with joining of stacks and made without, and the result
  of the second move is ignored (`game.cpp:2963`): a stack may not come although the other
  item is gone (`ExchangeIsWhole`).
- *Market*: price times amount is computed in 32 bits (`game.cpp:5968`, `6105`) but
  refunded in 64; the rows selected for expiry keep an amount that may have been sold in
  part since (`iomarket.cpp:129`); a sale whose owner cannot be loaded is deleted with its
  items (`iomarket.cpp:144`); coins are checked against a balance from which earlier
  updates are not yet deducted (`game.cpp:5934`, `6130`).
- *Raids*: `reload` stops neither a raid that was taken off the list nor an event that is
  already a task; the old one then runs beside a new one and clears `running` when it
  ends, or a second chain of checks goes on.
- *Spawns*: `isDay` is set and never reset (`game.cpp:5113`), so monsters of the night do
  not return; a monster whose script returns true from `onDisappear`, or that could not be
  placed at start-up, starts no check; a block behind others may wait for ever while the
  first ones die at the rate of the check.
- *Transactions*: after a loss inside a transaction the remaining statements are stored one
  by one, and the commit succeeds (`database.cpp:105`); `saveHouseInfo` goes on after an
  error (`iomapserialize.cpp:329`); a query may run between a BEGIN and its lock and be
  rolled back with a save (`database.cpp:66`); a commit that fails is not rolled back; a
  query whose answer is lost runs twice.
- *Creatures*: a monster that strayed too far from its spawn is sent home and put to sleep,
  whoever is there (`monster.cpp:729`); a player who stands still can then kill it "without
  reaction", which the range of `monster.cpp:90` is to avoid: a hit wakes it
  (`monster.cpp:1968`), so that the dead are buried, but it still lists nobody. A player who logs out between the death of a monster it
  convinced and its burial is never freed, if the monster listed it as a target before: they
  hold each other (`monster.cpp:477`: a summon does not take its master off the list).
- *Decay*: it divides by 1000 where the interval is meant (`game.cpp:4936`), so that items
  decay up to 0.875 s early; an item that a script transforms and then tells to decay is
  listed twice and loses two seconds for each that passes.

Read and not checked by a run: `Player::onTargetCreatureGainHealth` (`player.cpp:3687`)
tests a pointer before it is set, so that healing a companion never counts for shared
experience; a coin transfer ignores the results of its statements (`game.cpp:6672`); a
BEGIN that fails leads to the unlocking of a mutex that is not held;
`decayItems->remove(item)` (`game.cpp:1453`) is applied to the first bucket only; an item
that refuses to be removed stays marked as decaying for ever; `startImbuementCountdown`
(`game.h:483`) adds an entry each time an item is put on.

## 4. Proofs

Eight modules hold proofs about the specifications of components (`Spec` of `EventLoop`,
`ServerShutdown`, `Session`, `Party` and `WaitingList`, `RaidSpec`, `SpawnSpec`,
`TransactionSpec` and `MarketSpec`, of which `MCWorld` explores an instance,
`CreaturesSpec`, of which `MCCompany` does, and `TradeSpec`; `DecaySpec` is a part of
`MCWorld` too). Each is laid out alike: an inductive invariant made of named parts, a lemma
for each operator and each action, a theorem that the invariant always holds, and the
properties from it. What the theorems assume is what the modules' `ASSUME`s say of the
constants, and nothing else.

### The event loop

`EventLoopProofs` proves, for any sets of tasks, events, delays and lifetimes and any
identifier range, from the assumptions named in the modules (tasks and events are
disjoint, delays are natural numbers, `MaxEventId` is positive):

| Theorem | Statement |
|---|---|
| `Invariance` | `Safety => []IInv` |
| `TypeCorrect` | `Spec => []TypeOK` |
| `EventsAccountedFor` | `Spec => []EventAccounting` |
| `EventsNeverEarly` | `Spec => []NeverEarly` |
| `TasksInOrder` | `Spec => []FifoOrder` |
| `RefinesTimers` | `Safety => Timers!Safety` |

`EventAccounting` (with the types a conjunct of it) is not inductive: that a popped event is in no other place follows
only because records of the queue have distinct tasks and carry the identifier their
event holds, identifiers are live only for queued events, and two events never hold
the same one. `IInv` adds exactly this: the threads are running (nobody stops them in
`EventLoop`), the queue, the identifiers, the hand-over and what has left the queue
agree with `eventId` and `due`, and a sleeping thread's `wakeAt` is the due time of a
queued event or earlier than none. Each conjunct has a name (`Running`, `ListOK`,
`QueueOK`, `IdsOK`, `HandoverOK`, `SleepOK`, `LeftQueueOK`), the proof has one lemma
for each action, and the refinement reuses the same lemmas. `NeverEarly` follows from
`SleepOK`: the thread may pop another event than the one it slept for, but that one is
on top, so it is due no later. `FifoOrder` compares the list with the history `posted`; it
becomes inductive with `PostedOnce`, that no task is in the history twice (`FifoInv`), for
the front of the list gets only events, and the dispatcher takes only the front.

### The shutdown

`ServerShutdownProofs`, for any queries and callbacks, any events, and any bounds of the
clock and of the identifiers:

| Theorem | Statement |
|---|---|
| `Invariance` | `Spec => []IInv` |
| `TypeCorrect` | `Spec => []TypeOK` |
| `QueriesAccountedFor` | `Spec => []QueryAccounting` |
| `NoEventAfterShutdown` | `Spec => []NoEventAfterGameShutdown` |
| `ExitIsClean` | `Spec => []CleanExit` |

The places of a query (`QueriesOnce`) and of its callback (`CallbacksOnce`) exclude each
other and say how often it ran, so that neither thread nor `flush` can take it twice. No
event runs once `Game::shutdown` has begun, because three orders fit: `setGameState` posts
`GameShutdown` before it stops the dispatcher (`SetStateFirst`), the dispatcher takes it only
when it accepts no more tasks (`StoppedFirst`), and events, which go to the front, never
stand behind it (`EventsFirst`). Nothing is left at the exit, because after the last `flush`
the list of queries is empty and stays empty (`DbEmptied`): that part fails as soon as
anything may add a query between `shutdown` of the database thread and its `flush`, and
relates the steps of one thread to the state of another. `MainOK` says in which order the
threads were joined.

### Sessions

`SessionProofs`, for any connections, characters and `MaxBuffered`:

| Theorem | Statement |
|---|---|
| `Invariance` | `Spec => []IInv` |
| `TypeCorrect` | `Spec => []TypeOK` |
| `RefsCountedHolds` | `Spec => []RefsCounted` |
| `NoDeletedPlayerHolds` | `Spec => []NoDeletedPlayer` |
| `OnePlayerHolds` | `Spec => []OnePlayer` |
| `NoStaleAutosendHolds` | `Spec => []NoStaleAutosend` |
| `NoTakeoverHolds` | `Spec => NoTakeover` (an action property) |

That `referenceCounter` is right depends on each login giving a Player object to a protocol
that has none (`EntriesWait`), which depends on the login, or the connect that it schedules,
being there once (`TasksOrdered`). That a packet meets no deleted player depends on the
release waiting behind it, which is so because `close` posts it and is the end of the packets
(`PacketsBound`, `ReleasesFollow`). `PlayersCounted` gives for each reference the reason
there is for it: the client, the game, the list of checks, the list of releases. What a step
does to the tasks of a connection is summed up by one formula (`Effect`), of which it is shown once
that it keeps the order of the tasks, and of each action that it is of this form.

### Parties

`PartyProofs`, for any number of players and of addresses that a party may be allocated at:

| Theorem | Statement |
|---|---|
| `Invariance` | `Spec => []IInv` |
| `MembershipHolds` | `Spec => []MembershipAgrees` |
| `InvitationsHold` | `Spec => []InvitationsAgree` |
| `NobodyGoneHolds` | `Spec => []NobodyGone` |
| `NoLonelyPartyHolds` | `Spec => []NoLonelyParty` |
| `SharingIsEarnedHolds` | `Spec => []SharingIsEarned` |
| `PartySurvivesHolds` | `Spec => PartySurvives` (an action property) |

Within a handler the invariants do not hold: `leaveParty` of a leader clears its party
while the object still names it, and a party may be empty until somebody looks. So a lemma
says for each operator which fields of the world it changes, and for each handler that a
world that is `Good` is `Good` again. `Good` has two parts: what every function restores
(`Agreed`) and what only the whole handler does (`SharesWell`, `Accompanied`). A login starts
a Player object that knows no party; that this forgets nothing is `Within`: the parties
and channels, even those of a deleted party, know nobody who is offline.

### The waiting list

`WaitingListProofs`, for any players and privileges, any number of places, and counters of any
width (`SizeMax`):

| Theorem | Statement |
|---|---|
| `Invariance` | `Safety => []IInv` |
| `OneEntry` | `Spec => []OneEntryEach` |
| `NobodyOvertakes` | `Spec => NoOvertaking` (an action property) |
| `OrderIsKept` | `Spec => OrderKept` (an action property) |

`cleanupList` erases while it goes through a list, which is a recursive function over the
positions. The library's induction theorems cannot be instantiated by the provers here, but
induction over a *set* of numbers can be stated and proved (lemma `Induction`, from the
least number outside of the set), and it gives both that the recursive function
satisfies its equation (`CleanupEnds`) and what it returns (`CleanedKeeps`): a list that `Thins` the
one before, by an embedding that keeps the order, so that nobody comes in and nobody
changes places. `IInv` says that each list is without repetitions, that premium players
have their own (`Separate`), and that nobody who is in the game waits, except those who pass
the list by. Of the counters that `cleanupList` miscounts the theorems need nothing but
their range: a wrong counter admits too many or too few, and nobody out of turn.

### Raids, spawns and the database connection

| Theorem | Statement | Assumptions |
|---|---|---|
| `WorldProofs!OneAtATime` | `RaidSpec => []OneRaid` | `RaidAssumption` |
| `WorldProofs!OneEach` | `SpawnSpec => []OneMonsterEach` | `SpawnAssumption`, `SpawnTimes` |
| `WorldProofs!TransactionTypes` | `TransactionSpec => []TransactionTypeOK` | `TransactionAssumption` |
| `WorldProofs!SavesWhole` | `TransactionSpec => []SavesAreWhole` | the same |
| `WorldProofs!QueriesTakeEffect` | `TransactionSpec => []QueriesKept` | the same |

each from a theorem about an inductive invariant (`RaidInvariance`, `SpawnInvariance`,
`DbInvariance`); the three components share nothing but the module.

- *Raids.* `OneRaid` counts the steps of raids; what keeps it is that the scheduler's events
  and the dispatcher's tasks have different identifiers (`Apart`), that no raid of a file
  that is yet to be loaded has run (`NotYetRun`), and, as long as no reload left an event
  behind, that the running raid has one step, which the list of raids can stop, and the
  others none (`OneStep`). Any number of raids, of any length, and of reloads; `MaxEvent`
  only says when there is a fresh identifier. (`Fresh(scheduled) # {}`, which says that
  the bound hides nothing, is a conjunct of `RaidTypeOK` that depends on the values of the
  constants and is left to TLC, as a part of `RaidsEnd`.)
- *Spawns.* An announced monster is not in `spawnedMap`, so nothing in `checkSpawn` keeps it
  from announcing another. `ChecksWait` relates the two clocks: when a monster is announced,
  the next check is further away than the monster, for which an announcement has to be
  shorter than the interval of checks. This is the assumption `SpawnTimes`, true of the
  spawn times in use and not enforced by the loader (`spawn.cpp:96`). Any number of
  blocks, intervals and any `RateSpawn`.
- *Database.* A lock and a transaction are different things: `OneTransaction` says when the
  server has one open (only from a BEGIN to the end of the save), `SaveProgress` which rows
  of a running save the connection sees and that what is stored is from before, and
  `RunsCounted` how often a query took effect, in `view` and in `stored`, according to
  whether it returned, was caught in a transaction, or its answer was lost. Any number of
  rows, saves, tries, queries and losses.

### The market

`WorldProofs!MarketInvariance` proves `[]MarketInv` and `NothingIsLost` proves
`[]NothingLost`, for any finite set of traders, any wealth, coins and fee, any set of deals,
any number of offers and of results that wait, and a `Width` of any size, from
`MarketAssumption`. `NothingLost` speaks of sums in three places at once: what players hold in
memory and in the database, what the open offers hold, and the updates of coins that have
been queued and not run. `MarketInv` adds to the types

- `NeverBelow`: however many of the waiting updates have run, no account is below zero,
  unless more coins were taken than the balance with all updates had (`damage` has
  "overdrawn"). This is a statement about every prefix of the queue, for the updates run one
  by one, later, and check nothing;
- `Fresh`: identifiers to come have no row and are in no result that waits, so that a result
  never meets an offer other than the one that was selected;
- `UpToDate`: a row that is still there has the amount it was selected with, unless it was
  accepted in part in between (`iomarket.cpp:129-131`), which `damage` records;
- `GoldKept` and `WaresKept`: the three balances. After an overflow gold is short or over by a
  multiple of `Width`, which is the existential in `GoldKept`.

A sum over a finite set adds in the order in which `CHOOSE` picks its elements. The first part
of `WorldProofs` proves, by induction over the subsets, what the actions need and the library
does not have: that the order does not matter (`SumRec`, `SumsAgree`), what changing one
element does (`SumChange`), that sums add (`SumPlus`), that elements of no value may be left
out (`SumFilter`), and that a sum over offers is a sum over their owners of the sum over
theirs (`SumByOwner`, for the expiry, which closes many rows in one call of the callback).
Then there is a lemma for each action (`CreateKeeps`, `CancelKeeps`, `AcceptKeeps`,
`ProcessKeeps`, `CoinQueryKeeps`, ...), in which what players gain is summed apart from the row
it is for (`TransferTotals`, `RowTotals`, `QueriesTotal`).

### Trade

`TradeProofs`, for any players, containers of any size, stacks, slots and places, from
`TradeAssumption` (the constants of different sorts are different):

| Theorem | Statement |
|---|---|
| `TradeInvariance` | `TradeSpec => []TradeInv` |
| `TradersAlwaysAgree` | `TradeSpec => []TradersAgree` |
| `OfferIsFrozen` | `TradeSpec => OfferFrozen` (an action property) |
| `ExchangesAreWhole` | `TradeSpec => ExchangeIsWhole` (an action property) |

What is around an item, and where it is in the end, is found by recursion over containers
(`Around`, `Root`), and there is a value at all only if no container is inside of itself.
So `TradeInv` begins with `Acyclic`: each item has a depth, which makes induction over
what contains what possible (`ItemInduction`). `Around` is shown to be the least set that is
closed, which exists in any case (`AroundRec`), and `Root` the place of the one outermost item
(`OuterIs`, `RootRec`). Every step that moves something puts one item elsewhere, and `PutIs`
says what that does to all others.

`OfferFrozen` is about who is *told*. `Near` says that a trader has its offer or stands where
it is, so that the owner of the slot, or those near the tile or the container, include
the trader (`ToldIs`); and of somebody who is told and whose trade goes on, the offer is
neither the item that moves nor around it nor inside of it (`RemovalSpares`, `AddingSpares`,
`UpdatingSpares`). Then nothing can be seen of the step at the offer (`PutStill`). An exchange
notifies fewer than a move by hand, but there the item goes to somebody else, and an offer of
a third player is not among what another carries (`ForeignStill`).

`ExchangeIsWhole` depends on what the first move takes away from the second: a container
that the test found for the partner's item may be inside of the first one, and so go with it.
Then the container that held the first item has room, and is found instead (`StillRoom`), for
which `TradeInv` has to say that no container holds more than its size (`Roomy`).

### Decay

`WorldProofs`, for any items, kinds, durations and number of references, from
`DecayAssumption` (how `items.xml` uses kinds whose duration stops):

| Theorem | Statement |
|---|---|
| `DecayInvariance` | `DecaySpec => []DecayInv` |
| `ItemsAlwaysListed` | `DecaySpec => []ItemsAreListed` |
| `DecaysInTime` | `DecaySpec => []DecayInTime` |

`DecayInv` says two things of each item. `SoundBut` strengthens `ItemsAreListed`: a placed
item that is marked as decaying has an entry *and* some duration left, unless its kind has no
duration and does not stop one; `setID` keeps the mark in just these cases (`RenamedIs`).
`Timed` says where the clock of an item is that nobody touched: it has one entry, and the
clock is its duration less the time until its bucket is visited, or one check before that.

`checkDecay` is a fold over the items of a fold over the entries of each. Both are shown to
be applications of one function of folds (`FoldsBy`, `FoldsExist`, from which the sums of the
market follow as well), and what holds between two visits is `During`: how many visits of
each item are left; an item that has some is timed as before the check (`TimedBefore`), one
that has none as after it (`TimedAfter`, but for the turn of the buckets); what the check
found with a clock is unchanged, or decayed in time; and there is memory for what becomes of
the items still to be visited. An item that is visited twice is one that somebody touched
(`OnlyEntry`), so that its second visit says nothing about time. That there is memory is the
bound `HasMemory` of the action at its beginning, and each visit that takes some leaves one
item less that needs it (`TwoVisited`). A case of a visit is a lemma of its own (`StoppedIs`,
`VanishedIs`, `TurnedIntoIs`, `NextCheckIs`, `StaysIs`).

### Creatures: who sees and who is told

`CreaturesProofs!WhoSeesIsTold`: whoever sees a place, by `Creature::canSee` with the range
of monsters or by `ProtocolGame::canSee`, is among the spectators that `Map::getSpectators`
finds for it, from and to any of the 16 floors and anywhere on an unbounded axis. The two
are computed in different files with different tables of floors (`FloorsFit` compares them),
and `MonstersWake` would fail where they did not fit. No assumption is needed.

### Creatures: pointers

`CreaturesInvariance` proves `[]CreaturesIInv` and `PointersAreGood` proves
`[]NothingDangles`, for any finite sets of characters and monsters, any places on the 16
floors, any monsters of spawns, summoners and convinceable monsters, and chains of summons
of any length. `NothingDangles` alone is not inductive. `CreaturesIInv` (`Good`) adds that
nobody is its own master, that a freed creature has neither master nor summons and is
nobody's master (or the next one placed in its memory would inherit them), and that only
those in the game are checked (or one that has left could summon).

A task is one step of many functions, and in the middle of it `NothingDangles` does not
hold. The proof follows the functions, by three relations between the world before and the
one after: `Alike` (only lists and checks differ: looking around, being told who comes and
goes, falling asleep), `Keeps` (whom creatures attack and follow differs too, but no good
pointer goes bad: `setAttackedCreature`, `setFollowCreature`, `selectTarget`) and `Shrinks`
(creatures have left). What is bad in between is explicit: `Aimed(w, E, c, z)` says that all
pointers are good but for pairs in `E`, one of which is the creature `c` that has come from
the floor `z`. Moving `c` puts its own pairs and those of whoever was told into `E`; each
half of `onCreatureMove` takes the half it repairs out, in whichever order they come
(`MoveSelfRepairs`, `MoveOthersRepairs`), and that nobody else is in `E` is `WhoSeesIsTold`.
A removal is the same: who is not told of it did not see the creature (`RemoveAloneShrinks`).
Then its summons follow, and theirs; this ends with nobody left whose master is gone because
each removal leaves fewer creatures in the game (`RemoveCreaturesShrinks`). The recursive
functions of the model are reached by `Iteration`: a function applied n times is a function
of n, by induction on the sets of numbers for which it is one.

### Creatures: monsters that wake

`MonstersAreAwake` proves `[]MonstersWake`, for the same constants. Its inductive invariant,
beside `CreaturesIInv`, is `CreaturesAlert`: each creature is `Sound` (in the game, the dead,
the players and whoever lists a target are checked), and no monster `Misses` a player it sees
(it could attack the player, does not list it, and did not see it when it was sent home).
`Sound` is what the property lacks: whether a monster is checked is decided by its list
(`updateIdleStatus`, `setIdle`), whoever is in sight, so that is what each function must keep.

Again a task breaks this in the middle: a creature that has moved misses all it sees now, and
whoever sees it now may miss it. `Alert(w, E)` excepts the pairs in `E`; `LookAlert` and
`ComeOrGoAlert` take out the pairs of the one that looks around and of those that are told
(again, `WhoSeesIsTold` says that this is everybody), whichever comes first. All other
functions move nobody and make no monster forget more than a given set of pairs (`Minds` for
a record, `Wary` for the world), which is empty for all but those that put a monster to
sleep or take its master away: a removed master leaves its summons wild, but they leave the
game in the same removal (`RemoveAloneAlert`, `RemoveCreaturesShrinks`), and those whose
master dies are dead and checked before they are let go (`DeathWary`). The first version of
the model failed here, on a monster that is killed while it sleeps: it had left out that
`Monster::changeHealth` wakes a monster that is hit (`monster.cpp:1965`), which is what
keeps such a corpse from staying in the game.

### Only model-checked

- All liveness (`EverythingRuns`, the fairness half of `ImplementsTimers`,
  `DispatcherTerminates`, `PatientGetIn`, `RemovedAreDeleted`, `OldOffersSettle`, `RaidsEnd`,
  `Refills`), which is beyond the proof system.

Every invariant and every action property that a passing run checks is stated by one of the
theorems, and so is the safety half of `ImplementsTimers` (`RefinesTimers`).

## 5. Abstractions worth knowing

- `addEvent` returns the identifier in its critical section; the code reads it from
  the task afterwards, which may be gone by then.
- The second of a delayed connect is not timed: its task may come at any later moment.
- `player` and `acceptPackets` are read by the network thread without a lock; a packet
  reads them at one moment here.
- `ALLOW_CLONES` is off (its default). A player other than the character's own does
  not appear in `Session`; neither do monsters (see `Creatures`).
- Lua may refuse a logout or a login: both outcomes are possible whenever a script is
  asked.

- `Creatures`: health is alive or dead; conditions (which keep a monster awake), passive
  and invisible creatures, protection zones, pets, npcs, monsters that push each other and
  the scripts of events are left out. A player keeps its client until it leaves. A monster
  that may turn to another target because it is in its way does so when it thinks.

- `Trade`: the swap with an occupied slot (`RETURNVALUE_NEEDEXCHANGE`), splitting a stack,
  capacity, the exhaustion of players, walking to a distant item, and the document of a
  house are left out; scripts may refuse an exchange.
- `Market`: an INSERT that fails, the statistics and the history of offers are left out. The
  bank and the cash of a player are one sum.
- `Raids`: delays, intervals and chances are left out; a raid may start at any check.
- `Spawns`: events are on time; npcs and `Game.setSpawnPosition` are left out.
- `Transactions`: the contents of statements, the results of `storeQuery`, and a BEGIN that
  fails for another reason than a lost connection are left out.
- `Decay`: joining stacks, imbuements, and items that refuse to be removed are left out.

## 6. Not modelled

Most of the repository's lines are bindings for Lua (`luascript.cpp`), the encoding of
packets (the sending half of `protocolgame.cpp`), the loading of files, and arithmetic
(damage, experience, skills, weapons): sequential code in a single thread, without state
that two actors share. What it decides is a nondeterministic choice in these models
wherever they meet it. `PROJECT.json` lists each component with the reason.

## 7. Plan

In this order; the number of runs is kept small, one for each question.

1. Start-up (`mainLoader` and its condition variable), acceptors that are closed and
   reopened, and `GAME_STATE_CLOSED`, added to `ServerShutdown`.
2. A second player among the creatures, with parties whose members spare each other's
   summons (`Monster::isFriend`), and conditions.
3. Imbuements (added to `Decay`), global events and the throttle of connections.
