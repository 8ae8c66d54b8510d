------------------------------- MODULE Spawns -------------------------------
(***************************************************************************)
(* One spawn of the map (spawn.cpp): each of its blocks keeps one monster    *)
(* alive.  A monster that is removed starts a check, which counts it as      *)
(* gone, brings back at most RateSpawn monsters and goes on while some are   *)
(* missing.  A blockable monster is not brought back where a player is, any  *)
(* other is announced by three effects first, and the spawn does not know    *)
(* yet of a monster that is announced.                                       *)
(*                                                                           *)
(* Time is in steps of 1.4 s, the effects' distance, and events are on time. *)
(***************************************************************************)
EXTENDS Naturals, FiniteSetsExt

CONSTANTS
  Block,        \* the spawn ids, that is 1 .. n
  Blockable,    \* those whose monster does not come where a player is
  DayOnly,      \* ... only by day (info.respawnType)
  NightOnly,    \* ... only by night
  Interval,     \* spawnBlock_t::interval
  CheckInterval,\* Spawn::interval, the least of them and of a minute
  RateSpawn,    \* ConfigManager::RATE_SPAWN
  NoCheck       \* checkSpawnEvent is 0

ASSUME SpawnAssumption ==
  /\ Block \subseteq Nat
  /\ Blockable \subseteq Block
  /\ DayOnly \subseteq Block /\ NightOnly \subseteq Block
  /\ Interval \in [Block -> Nat]
  /\ CheckInterval \in Nat
  /\ \A b \in Block : CheckInterval <= Interval[b]
  /\ RateSpawn \in Nat \ {0}
  /\ NoCheck \notin Nat

VARIABLES
  alive,        \* how many of a block's entries in spawnedMap are monsters alive
  dead,         \* ... and monsters that are removed
  age,          \* the time since lastSpawn, up to the interval
  check,        \* the time left to checkSpawnEvent
  announced,    \* the times left to the monsters announced
  near,         \* the blocks of Blockable a player can see
  day,          \* Game::isDay
  blocked,      \* the blocks where no creature can be placed
  missed        \* history: the blocks whose lack of a monster started no check

spawnVars == <<alive, dead, age, check, announced, near, day, blocked, missed>>

(* Three effects, with 1.4 s after each (spawn.cpp:267, 287).                *)
Announcement == 3

(* No spawn time is shorter than that; the loader accepts 1 s (spawn.cpp:96).*)
ASSUME SpawnTimes == Announcement < CheckInterval

SpawnAt(count, S) ==
  [b \in Block |-> IF b \in S \ blocked THEN count[b] + 1 ELSE count[b]]

(* Spawn::startup.  A monster that cannot be placed starts no check.         *)
SpawnInit ==
  /\ blocked \in SUBSET Block
  /\ dead = [b \in Block |-> 0]
  /\ alive = SpawnAt(dead, Block)
  /\ age = [b \in Block |-> IF b \in blocked THEN Interval[b] ELSE 0]
  /\ check = NoCheck
  /\ announced = [b \in Block |-> {}]
  /\ near = {}
  /\ day = FALSE
  /\ missed = blocked

-----------------------------------------------------------------------------
(* A monster dies, or is removed at the wrong time of the day                *)
(* (monster.cpp:730): Monster::onRemoveCreature tells its spawn, which       *)
(* starts a check (startSpawnCheck).  A script of the monster that returns   *)
(* true keeps it from that.                                                  *)
MonsterRemoved(b) ==
  /\ alive[b] > 0
  /\ alive' = [alive EXCEPT ![b] = @ - 1]
  /\ dead' = [dead EXCEPT ![b] = @ + 1]
  /\ \/ /\ check' = IF check = NoCheck THEN CheckInterval ELSE check
        /\ missed' = {}
     \/ /\ missed' = IF check = NoCheck THEN missed \cup {b} ELSE missed
        /\ UNCHANGED check
  /\ UNCHANGED <<age, announced, near, day, blocked>>

(* The time since lastSpawn after Spawn::cleanup.                            *)
AgeThen(b) == IF dead[b] > 0 THEN 0 ELSE age[b]

(* MonsterType::canSpawn                                                     *)
RightTime(b) == (b \in DayOnly => day) /\ (b \in NightOnly => ~day)

(* Mutant: the entries in spawnedMap are not looked at.                      *)
RipeMutAll == {b \in Block : RightTime(b) /\ AgeThen(b) >= Interval[b]}

(* The blocks without a monster whose time has come.                         *)
Ripe == {b \in Block : alive[b] = 0 /\ RightTime(b) /\ AgeThen(b) >= Interval[b]}

Ready == Ripe \ near

(* The loop ends with the last of RateSpawn monsters.                        *)
Visited == {b \in Block : Cardinality({c \in Ready : c < b}) < RateSpawn}

(* Mutant: only a spawn that is empty is checked again.                      *)
MissingMutAll(count) == \A b \in Block : count[b] = 0

(* spawnedMap.size() < spawnMap.size()                                       *)
Missing(count) == MapThenSumSet(LAMBDA b : count[b], Block) < Cardinality(Block)

(* Spawn::checkSpawn.  A block at the wrong time of the day, or where a      *)
(* player is, waits for its whole interval again, those visited only.        *)
CheckSpawn ==
  LET served == Ready \cap Visited
      waits == {b \in Visited : alive[b] = 0 /\ (~RightTime(b) \/ b \in Ripe \ Ready)}
  IN  /\ check = 0
      /\ alive' = SpawnAt(alive, served \cap Blockable)
      /\ dead' = [b \in Block |-> 0]
      /\ age' = [b \in Block |->
           IF b \in waits \cup ((served \cap Blockable) \ blocked) THEN 0 ELSE AgeThen(b)]
      /\ announced' = [b \in Block |->
           announced[b] \cup IF b \in served \ Blockable THEN {Announcement} ELSE {}]
      /\ check' = IF Missing(alive') THEN CheckInterval ELSE NoCheck
      /\ UNCHANGED <<near, day, blocked, missed>>

(* Spawn::scheduleSpawn, the last time.                                      *)
SpawnAnnounced(b) ==
  /\ 0 \in announced[b]
  /\ announced' = [announced EXCEPT ![b] = @ \ {0}]
  /\ alive' = SpawnAt(alive, {b})
  /\ age' = IF b \in blocked THEN age ELSE [age EXCEPT ![b] = 0]
  /\ UNCHANGED <<dead, check, near, day, blocked, missed>>

(* Time passes when nothing is due.                                          *)
Tick ==
  /\ check # 0
  /\ \A b \in Block : 0 \notin announced[b]
  /\ check' = IF check = NoCheck THEN NoCheck ELSE check - 1
  /\ announced' = [b \in Block |-> {t - 1 : t \in announced[b]}]
  /\ age' = [b \in Block |-> IF age[b] < Interval[b] THEN age[b] + 1 ELSE age[b]]
  /\ UNCHANGED <<alive, dead, near, day, blocked, missed>>

(* Players come and go, and what is in the way.  The hour at which canSpawn  *)
(* asks may be one of the day: gameIsDay sets isDay then, and nothing resets *)
(* it (game.cpp:5113).                                                       *)
Surroundings ==
  /\ \/ /\ \E b \in Blockable : near' \in {near \cup {b}, near \ {b}}
        /\ UNCHANGED <<day, blocked>>
     \/ /\ day' = TRUE
        /\ UNCHANGED <<near, blocked>>
     \/ /\ \E b \in Block : blocked' \in {blocked \cup {b}, blocked \ {b}}
        /\ UNCHANGED <<near, day>>
  /\ UNCHANGED <<alive, dead, age, check, announced, missed>>

SpawnNext ==
  \/ CheckSpawn
  \/ Tick
  \/ Surroundings
  \/ \E b \in Block : MonsterRemoved(b) \/ SpawnAnnounced(b)

SpawnFairness ==
  /\ WF_spawnVars(Tick)
  /\ WF_spawnVars(CheckSpawn)
  /\ \A b \in Block : WF_spawnVars(SpawnAnnounced(b))

SpawnSpec == SpawnInit /\ [][SpawnNext]_spawnVars /\ SpawnFairness

-----------------------------------------------------------------------------
SpawnTypeOK ==
  /\ alive \in [Block -> Nat]
  /\ dead \in [Block -> Nat]
  /\ age \in [Block -> Nat]
  /\ \A b \in Block : age[b] <= Interval[b]
  /\ check \in 0 .. CheckInterval \cup {NoCheck}
  /\ announced \in [Block -> SUBSET (0 .. Announcement)]
  /\ near \subseteq Blockable
  /\ blocked \cup missed \subseteq Block
  /\ day \in BOOLEAN

(* A block never has two monsters, there or announced: a check does not see  *)
(* what is announced, but it comes when that is over (SpawnTimes).           *)
OneMonsterEach ==
  /\ SpawnTypeOK
  /\ \A b \in Block : alive[b] + dead[b] + Cardinality(announced[b]) <= 1

(* When players stay away, no monster dies any more, it was day once and     *)
(* nothing is in the way, every monster comes back, those that could not for *)
(* a long time and those behind them in the loop included (spawn.cpp:270),   *)
(* unless no check was started for it (monster.cpp:179, spawn.cpp:209), or   *)
(* it is one of the night, for which the day never ends (game.cpp:5113).     *)
Settled == near = {} /\ day /\ blocked = {}
Refills ==
  <>[]Settled /\ <>[][\A b \in Block : ~MonsterRemoved(b)]_spawnVars
    => \A b \in Block \ NightOnly : alive[b] = 0 /\ missed = {} ~> alive[b] > 0
=============================================================================
