------------------------------ MODULE Creatures ------------------------------
(***************************************************************************)
(* What creatures know of each other (creature.cpp, monster.cpp, game.cpp).  *)
(* Monsters list the friends and targets they see, a master lists its        *)
(* summons, the game lists whom it checks.  The reference counter of a       *)
(* creature is the number of the lists that hold it: it is freed when the    *)
(* last one lets it go.  Whom a creature attacks or follows and who its      *)
(* master is are mere pointers, which have to be reset before.  And a        *)
(* monster that lists no target is not checked: it sleeps until it is told   *)
(* that somebody appears.                                                    *)
(*                                                                           *)
(* A task of the dispatcher is one step.  Its functions are operators from a *)
(* world, all the creatures, to a world.  Where the code tells a hash set of *)
(* spectators, the creature it is about is told first or last, and a monster *)
(* that looks around finds its friends first or its targets: `first`.        *)
(*                                                                           *)
(* A map has one axis x and the floors z, and a player has a client as long  *)
(* as it is in the game.  Invisibility, protection zones, conditions, pets,  *)
(* npcs and the scripts of events are left out.                              *)
(***************************************************************************)
EXTENDS Integers, FiniteSetsExt

CONSTANTS
  Character,    \* the players
  Monster,
  Position,     \* where they can be
  Entrance,     \* where each is placed
  Spawned,      \* the monsters of a spawn, which have their home there
  Summoner,     \* the monsters whose type has summons
  Convinceable, \* those whose type lets itself be convinced
  NoCreature    \* nullptr

Creature == Character \cup Monster

ASSUME CreaturesAssumption ==
  /\ IsFiniteSet(Creature) /\ Character \cap Monster = {} /\ NoCreature \notin Creature
  /\ Position \subseteq [x : Int, z : 0 .. 15]
  /\ Entrance \in [Creature -> Position]
  /\ Spawned \cup Summoner \cup Convinceable \subseteq Monster

VARIABLE creatures

-----------------------------------------------------------------------------
(* Positions.                                                                *)

Within(n, d) == d \in -n .. n

(* Creature::canSee and ProtocolGame::canSee                                 *)
CanSee(from, to, view) ==
  /\ IF from.z <= 7 THEN to.z <= 7 ELSE Within(2, to.z - from.z)
  /\ to.x - from.x - (from.z - to.z) \in view

MaxViewport == 11        \* Map::maxViewportX
ShootRange == 8          \* Map::maxClientViewportX
MonsterView == -10 .. 10 \* Monster::canSee
ClientView == -8 .. 9    \* what a player has on the screen

(* Map::getSpectators, with all the floors.                                  *)
SpectatorFloors(z) ==
  IF z > 7 THEN {f \in 0 .. 15 : Within(2, f - z)} ELSE 0 .. IF z < 6 THEN 7 ELSE z + 2

Spectates(from, center) ==
  /\ from.z \in SpectatorFloors(center.z)
  /\ Within(MaxViewport, from.x - center.x - (center.z - from.z))

(* Monster::isInSpawnRange, with deSpawnRadius and deSpawnRange.             *)
InSpawnRange(m, at) ==
  m \in Spawned => Within(50, at.x - Entrance[m].x) /\ Within(2, at.z - Entrance[m].z)

-----------------------------------------------------------------------------
(* check is creatureCheck, listed is inCheckCreaturesVector, released says   *)
(* that it is in ToReleaseCreatures.  unseen is history: whom a monster sees *)
(* and forgot.                                                               *)
Unborn == [status |-> "free", at |-> CHOOSE p \in Position : TRUE, dead |-> FALSE,
           check |-> FALSE, listed |-> FALSE, released |-> FALSE,
           attacked |-> NoCreature, follow |-> NoCreature, master |-> NoCreature,
           summons |-> {}, targets |-> {}, friends |-> {}, unseen |-> {}]

InGame(w) == {c \in Creature : w[c].status = "game"}

Sees(w, c, at) == CanSee(w[c].at, at, IF c \in Monster THEN MonsterView ELSE ClientView)

Spectators(w, at) == {s \in InGame(w) : Spectates(w[s].at, at)}

(* The world w, but for the creatures that f tells of.                       *)
Changed(w, f) == [c \in Creature |-> IF c \in DOMAIN f THEN f[c] ELSE w[c]]

-----------------------------------------------------------------------------
(* Whom creatures attack and follow.                                         *)

(* The test of setAttackedCreature and setFollowCreature.                    *)
Reaches(w, c, x) == x = NoCreature \/ (w[x].at.z = w[c].at.z /\ Sees(w, c, w[x].at))

(* Those in S, their summons and theirs, as far as the order to attack x     *)
(* goes.                                                                     *)
Commanded(w, S, x) ==
  LET within[n \in Nat] ==
        IF n = 0 THEN S
        ELSE {d \in Creature : \/ d \in within[n - 1]
                               \/ w[d].master \in within[n - 1] /\ Reaches(w, w[d].master, x)}
  IN  IF \A c \in S : w[c].summons = {} THEN S ELSE within[Cardinality(Monster)]

(* Creature::setAttackedCreature, of those in S.                             *)
SetAttackedCreature(w, S, x) ==
  Changed(w, [c \in Commanded(w, S, x) |->
    [w[c] EXCEPT !.attacked = IF Reaches(w, c, x) THEN x ELSE NoCreature]])

SetFollowCreature(w, S, x) ==
  Changed(w, [c \in S |->
    [w[c] EXCEPT !.follow = IF @ = x \/ Reaches(w, c, x) THEN x ELSE NoCreature]])

(* Those in A stop attacking and those in F following.  A player who does    *)
(* not attack any more does not follow either.                               *)
Drop(w, A, F) ==
  SetFollowCreature(SetAttackedCreature(w, A, NoCreature), F \cup (A \cap Character), NoCreature)

(* Mutant: whoever is attacked is forgotten, whoever is followed is not.     *)
OnCreatureDisappearMutFollow(w, S, x) ==
  Drop(w, {s \in S : w[s].attacked = x}, {})

(* Creature::onCreatureDisappear, of those in S.                             *)
OnCreatureDisappear(w, S, x) ==
  Drop(w, {s \in S : w[s].attacked = x}, {s \in S : w[s].follow = x})

(* Creature::setMaster                                                       *)
SetMaster(w, c, x) ==
  Changed(w, [d \in {c, w[c].master, x} \ {NoCreature} |->
    [w[d] EXCEPT !.summons = IF d = x THEN @ \cup {c} ELSE @ \ {c},
                 !.master = IF d = c THEN x ELSE @]])

-----------------------------------------------------------------------------
(* The lists of monsters.                                                    *)

(* Monster::isFriend and isOpponent.  Parties and players whom monsters      *)
(* ignore are left out.                                                      *)
IsFriend(w, m, c) ==
  IF w[m].master \in Character THEN w[m].master \in {c, w[c].master}
  ELSE c \in Monster /\ w[c].master = NoCreature

IsOpponent(w, m, c) ==
  IF w[m].master \in Character THEN c # w[m].master
  ELSE c \in Character \/ w[c].master \in Character

(* Monster::setIdle, of the record r.                                        *)
SetIdle(r, idle) ==
  CASE r.status # "game" \/ r.dead -> r
    [] r.status = "game" /\ ~r.dead /\ ~idle -> [r EXCEPT !.check = TRUE, !.listed = TRUE]
    [] OTHER -> [r EXCEPT !.targets = {}, !.friends = {}, !.check = FALSE]

(* Monster::changeHealth: whatever hurts or heals a monster wakes it, and    *)
(* kills it if it is fatal.                                                  *)
ChangeHealth(r, c, fatal) ==
  [IF c \in Monster THEN SetIdle(r, FALSE) ELSE r EXCEPT !.dead = fatal]

UpdateIdleStatus(r) == SetIdle(r, r.master = NoCreature /\ r.targets = {})

(* Monster::onCreatureFound, for each creature in C; r is the record of m.   *)
(* A monster that would sleep forgets its friends when it finds one.         *)
OnCreatureFound(w, m, r, C, first) ==
  LET F == {c \in C : IsFriend(w, m, c)}
      sleepy == r.master = NoCreature /\ r.targets = {} /\ ~r.dead
  IN  UpdateIdleStatus(
        [r EXCEPT !.targets = @ \cup {c \in C : IsOpponent(w, m, c)},
                  !.friends = IF sleepy /\ first /\ F # {} THEN {} ELSE @ \cup F,
                  !.unseen = IF r.dead THEN @ ELSE @ \ C])

(* Monster::onCreatureLeave                                                  *)
OnCreatureLeave(w, m, r, c) ==
  LET v == [r EXCEPT !.friends = IF IsFriend(w, m, c) THEN @ \ {c} ELSE @,
                     !.targets = IF IsOpponent(w, m, c) THEN @ \ {c} ELSE @,
                     !.unseen = IF r.dead THEN @ ELSE @ \ {c}]
  IN  IF IsOpponent(w, m, c) /\ v.targets = {} THEN UpdateIdleStatus(v) ELSE v

(* Monster::updateTargetList and updateIdleStatus.                           *)
LookAround(w, m, first) ==
  LET near == {c \in Creature : ~w[c].dead /\ Sees(w, m, w[c].at)}
      seen == {s \in Spectators(w, w[m].at) \ {m} : Sees(w, m, w[s].at)}
  IN  OnCreatureFound(w, m, [w[m] EXCEPT !.targets = @ \cap near, !.friends = @ \cap near,
                                         !.unseen = IF w[m].dead THEN @ ELSE {}], seen, first)

(* Monster::isTarget and selectTarget, of the hostile monsters in S.         *)
SelectTarget(w, S, x) ==
  LET T == {m \in S : w[x].status = "game" /\ w[x].at.z = w[m].at.z /\ x \in w[m].targets}
  IN  SetFollowCreature(SetAttackedCreature(w, T, x), T, x)

-----------------------------------------------------------------------------
(* Creatures come and go.                                                    *)

(* Game::placeCreature, of a new creature.                                   *)
Appear(w, c, first) ==
  Changed(w, [d \in {c} \cup (Monster \cap Spectators(w, w[c].at)) |->
    IF d = c
    THEN [IF c \in Monster THEN LookAround(w, c, first) ELSE w[c] EXCEPT !.check = TRUE, !.listed = TRUE]
    ELSE OnCreatureFound(w, d, w[d], {c}, first)])

PlaceCreature(w, c, at, first) ==
  Appear([w EXCEPT ![c] = [Unborn EXCEPT !.status = "game", !.at = at]], c, first)

(* onRemoveCreature of the creature itself, and of the others who are told.  *)
(* They take it off the lists it belongs to by who its master is now.        *)
RemoveSelf(w, c) ==
  LET v == IF w[c].master \in InGame(w) THEN SetMaster(w, c, NoCreature) ELSE w
  IN  IF c \in Monster THEN [v EXCEPT ![c] = SetIdle(@, TRUE)] ELSE v

TellRemoval(w, S, c) ==
  Changed(w, [m \in (S \cap Monster) \ {c} |-> OnCreatureLeave(w, m, w[m], c)])

(* The pointers and the history of an object that is out of the game are not *)
(* used any more.                                                            *)
Retire(w, c) ==
  [w EXCEPT ![c] = [@ EXCEPT !.status = "removed", !.released = TRUE, !.check = FALSE,
                             !.attacked = NoCreature, !.follow = NoCreature, !.unseen = {}]]

(* Game::removeCreature, but for the summons.                                *)
RemoveAlone(w, c, first) ==
  LET told == Spectators(w, w[c].at)
      v == OnCreatureDisappear(w, told, c)
  IN  Retire(IF first THEN TellRemoval(RemoveSelf(v, c), told, c)
             ELSE RemoveSelf(TellRemoval(v, told, c), c), c)

(* Game::removeCreature of those in D, and of the summons they leave.        *)
RemoveCreatures(w, D, first) ==
  LET Doomed(v) == {c \in InGame(v) : c \in D \/ ~(v[c].master = NoCreature
                                                    \/ v[v[c].master].status = "game")}
      after[n \in Nat] ==
        IF n = 0 THEN w
        ELSE LET v == after[n - 1]
             IN  IF Doomed(v) = {} THEN v
                 ELSE RemoveAlone(v, CHOOSE c \in Doomed(v) : c \in D \/ Doomed(v) \cap D = {}, first)
  IN  IF D \cap InGame(w) = {} THEN w ELSE after[Cardinality(Creature)]

-----------------------------------------------------------------------------
(* Creatures move.                                                           *)

(* c has come from the place `old`: those in S lose sight of whom they       *)
(* attack or follow.                                                         *)
LoseSight(w, S, c, old) ==
  LET Loses(s, x) == /\ x # NoCreature /\ c \in {s, x}
                     /\ w[c].at.z # old.z \/ ~Sees(w, s, w[x].at)
  IN  Drop(w, {s \in S : Loses(s, w[s].attacked)}, {s \in S : Loses(s, w[s].follow)})

(* Mutant: a monster that has moved does not look around.                    *)
MoveSelfMutBlind(w, c, old, first) ==
  LET away == {d \in w[c].summons : ~Within(2, w[c].at.z - w[d].at.z)
                                    \/ ~Within(30, w[c].at.x - w[d].at.x)}
      v == LoseSight(RemoveCreatures(w, away, first), {c}, c, old)
  IN  IF c \in Monster THEN [v EXCEPT ![c] = UpdateIdleStatus(@)] ELSE v

(* onCreatureMove of the creature itself.                                    *)
MoveSelf(w, c, old, first) ==
  LET away == {d \in w[c].summons : ~Within(2, w[c].at.z - w[d].at.z)
                                    \/ ~Within(30, w[c].at.x - w[d].at.x)}
      v == LoseSight(RemoveCreatures(w, away, first), {c}, c, old)
  IN  IF c \in Monster THEN [v EXCEPT ![c] = LookAround(v, c, first)] ELSE v

(* ... of the monsters that see it come or go ...                            *)
ComeOrGo(w, S, c, old, first) ==
  Changed(w, [m \in S \cap Monster |->
     CASE Sees(w, m, w[c].at) /\ ~Sees(w, m, old) -> OnCreatureFound(w, m, w[m], {c}, first)
       [] ~Sees(w, m, w[c].at) /\ Sees(w, m, old) -> UpdateIdleStatus(OnCreatureLeave(w, m, w[m], c))
       [] OTHER -> UpdateIdleStatus(w[m])])

(* ... and turn to it, if they have nothing else to do.  One that follows    *)
(* another may turn to who is in its way; here it does so when it thinks.    *)
TurnTo(w, S, c) ==
  SelectTarget(w, {m \in S \cap Monster : w[m].master = NoCreature /\ w[m].follow = NoCreature
                                          /\ IsOpponent(w, m, c)}, c)

MoveOthers(w, S, c, old, first) ==
  TurnTo(ComeOrGo(LoseSight(w, S, c, old), S, c, old, first), S, c)

(* Map::moveCreature                                                         *)
MoveCreature(w, c, to, first) ==
  LET old == w[c].at
      v == [w EXCEPT ![c].at = to]
      told == (Spectators(w, old) \cup Spectators(v, to)) \ {c}
  IN  IF first THEN MoveOthers(MoveSelf(v, c, old, first), told, c, old, first)
      ELSE MoveSelf(MoveOthers(v, told, c, old, first), c, old, first)

-----------------------------------------------------------------------------
(* A creature is freed when no list holds it (~Creature, ~Monster).  NoCreature  *)
(* uses it in the step in which it is let go, so that is at the end.         *)
Held(w, c) ==
  \/ w[c].status = "game" \/ w[c].listed \/ w[c].released
  \/ \E d \in Creature : c \in w[d].friends \cup w[d].targets \cup w[d].summons

FreeCreatures(w, C) ==
  Changed(w, [c \in C \cup {d \in Creature : w[d].master \in C} |->
    IF c \in C THEN Unborn ELSE [w[c] EXCEPT !.master = NoCreature, !.attacked = NoCreature]])

Collected(w) ==
  LET after[n \in Nat] ==
        IF n = 0 THEN w
        ELSE LET v == after[n - 1]
             IN  FreeCreatures(v, {c \in Creature : v[c].status = "removed" /\ ~Held(v, c)})
  IN  IF \A c \in Creature : w[c].status = "removed" => Held(w, c) THEN w
      ELSE after[Cardinality(Creature)]

(* Game::cleanup                                                             *)
CleanUp(w) ==
  Changed(w, [c \in {d \in Creature : w[d].released} |-> [w[c] EXCEPT !.released = FALSE]])

Becomes(w) == creatures' = Collected(w)

-----------------------------------------------------------------------------
(* Game::checkCreatures.                                                     *)

(* Monster::death: its summons die with it.                                  *)
Death(w, c) ==
  Changed(w, [d \in {c} \cup w[c].summons |->
    IF d = c
    THEN [w[d] EXCEPT !.attacked = NoCreature, !.summons = {}, !.targets = {}, !.friends = {}]
    ELSE [ChangeHealth(w[d], d, TRUE) EXCEPT !.attacked = NoCreature, !.master = NoCreature]])

(* Creature::onDeath                                                         *)
OnDeath(w, c, first) ==
  RemoveCreatures(SetMaster(IF c \in Monster THEN Death(w, c) ELSE w, c, NoCreature), {c}, first)

(* What chance and the map decide when m thinks: nothing, it finds no way to *)
(* whom it follows, it may not be where it is at this hour (canSpawn), there *)
(* is no room at its home, it looks for another target, or it summons.       *)
Thoughts(w, m) ==
  {<<"nothing", NoCreature>>}
    \cup (IF m \in Monster THEN {<<"stuck", NoCreature>>, <<"banished", NoCreature>>} ELSE {})
    \cup (IF m \in Spawned THEN {<<"homeless", NoCreature>>} ELSE {})
    \cup {"search"} \X w[m].targets
    \cup {"summon"} \X {d \in Monster \ Spawned : m \in Summoner /\ w[d].status = "free"}

(* Creature::goToFollowCreature: a summon that finds no way to whom it       *)
(* follows takes it off its targets.                                         *)
GoToFollowCreature(w, m, way) ==
  IF ~way /\ w[m].master # NoCreature THEN [w EXCEPT ![m].targets = @ \ {w[m].follow}] ELSE w

(* What a monster that is awake does: a summon turns to whom its master      *)
(* attacks or follows its master, a wild one may look for a target.          *)
ChooseTarget(w, m, t) ==
  LET master == w[m].master
      lead == IF master = NoCreature THEN NoCreature ELSE w[master].attacked
  IN  CASE master = NoCreature -> IF t[1] = "search" THEN SelectTarget(w, {m}, t[2]) ELSE w
        [] master # NoCreature /\ w[m].attacked = NoCreature /\ lead # NoCreature -> SelectTarget(w, {m}, lead)
        [] OTHER -> SetFollowCreature(w, {m}, CASE w[m].attacked = NoCreature -> master
                                                [] w[m].attacked = m -> NoCreature
                                                [] OTHER -> w[m].attacked)

(* Monster::onThinkDefense, with one summon at a time.                       *)
OnThinkDefense(w, m, t, first) ==
  IF t[1] = "summon" /\ w[m].master = NoCreature /\ w[m].summons = {}
  THEN SetMaster(PlaceCreature(w, t[2], w[m].at, first), t[2], m) ELSE w

(* A monster of a spawn that is too far away goes home and falls asleep      *)
(* there, whoever is about.                                                  *)
FallAsleep(w, m) ==
  LET about == {c \in InGame(w) \ {m} : Sees(w, m, w[c].at)}
  IN  IF m \in InGame(w) /\ ~w[m].dead THEN [w EXCEPT ![m] = [SetIdle(@, TRUE) EXCEPT !.unseen = about]]
      ELSE w

SendHome(w, m, room, first) ==
  FallAsleep(IF room /\ m \in InGame(w) THEN MoveCreature(w, m, Entrance[m], first) ELSE w, m)

(* The rest of Monster::onThink, of one that is awake if it is checked.      *)
Think(w, m, t, first) ==
  IF w[m].check THEN OnThinkDefense(ChooseTarget(w, m, t), m, t, first) ELSE w

(* Monster::onThink                                                          *)
OnThink(w, m, t, first) ==
  IF InSpawnRange(m, w[m].at) THEN Think([w EXCEPT ![m] = UpdateIdleStatus(@)], m, t, first)
  ELSE SendHome(w, m, t[1] # "homeless", first)

CheckCreature(w, c, t, first) ==
  CASE ~w[c].check -> [w EXCEPT ![c].listed = FALSE, ![c].released = TRUE]
    [] w[c].check /\ w[c].dead -> OnDeath(w, c, first)
    [] w[c].check /\ ~w[c].dead /\ c \in Character -> w
    [] OTHER -> OnThink(IF t[1] = "banished" THEN RemoveCreatures(w, {c}, first)
                        ELSE GoToFollowCreature(w, c, t[1] # "stuck"), c, t, first)

(* There are ten buckets, for one creature each.                             *)
CheckCreatures(c, first) ==
  /\ creatures[c].listed
  /\ \E t \in Thoughts(creatures, c) : Becomes(CleanUp(CheckCreature(creatures, c, t, first)))

-----------------------------------------------------------------------------
(* The other tasks.                                                          *)

(* A player logs in, a spawn or a script places a monster.                   *)
Enter(c, first) ==
  /\ creatures[c].status = "free"
  /\ Becomes(PlaceCreature(creatures, c, Entrance[c], first))

(* A player logs out or is kicked.                                           *)
Quit(c, first) ==
  /\ c \in InGame(creatures) \cap Character
  /\ Becomes(RemoveCreatures(creatures, {c}, first))

(* A step, stairs or a teleport.  A monster walks when it is checked, and    *)
(* takes no stairs (Tile::queryAdd).                                         *)
Move(c, to, first) ==
  /\ c \in InGame(creatures) /\ ~creatures[c].dead /\ to # creatures[c].at
  /\ c \in Monster => creatures[c].check /\ to.z = creatures[c].at.z
  /\ Becomes(MoveCreature(creatures, c, to, first))

(* Game::playerSetAttackedCreature, and Player::setAttackedCreature.         *)
PlayerSetAttackedCreature(p, x, chase) ==
  LET v == SetAttackedCreature(creatures, {p}, x)
  IN  /\ p \in InGame(creatures) /\ x \in (InGame(creatures) \ {p}) \cup {NoCreature}
      /\ Becomes(IF Reaches(v, p, x) THEN SetFollowCreature(v, {p}, IF chase THEN x ELSE NoCreature) ELSE v)

(* Game::playerFollowCreature                                                *)
PlayerFollowCreature(p, x) ==
  /\ p \in InGame(creatures) /\ x \in (InGame(creatures) \ {p}) \cup {NoCreature}
  /\ Becomes(SetFollowCreature(Drop(creatures, {p}, {p}), {p}, x))

(* Game::updateCreatureWalk, of a monster that finds no way.                 *)
UpdateCreatureWalk(m) ==
  /\ m \in InGame(creatures) /\ ~creatures[m].dead
  /\ Becomes(GoToFollowCreature(creatures, m, FALSE))

(* k hits whom it attacks.  The dead stay in the game until they are checked. *)
Hit(k, c, fatal) ==
  /\ {k, c} \subseteq InGame(creatures) /\ ~creatures[k].dead /\ ~creatures[c].dead
  /\ creatures[k].attacked = c /\ k # c
  /\ Within(ShootRange, creatures[k].at.x - creatures[c].at.x)
  /\ Becomes([creatures EXCEPT ![c] = ChangeHealth(@, c, fatal)])

(* Creature:addSummon of data/lib/core, by the spell that convinces.         *)
Convince(p, m) ==
  /\ m \in Convinceable
  /\ {p, m} \subseteq InGame(creatures) /\ ~creatures[p].dead /\ ~creatures[m].dead
  /\ Within(ShootRange, creatures[p].at.x - creatures[m].at.x)
  /\ creatures[p].at.z = creatures[m].at.z
  /\ Becomes(SetMaster([SetAttackedCreature(creatures, {m}, NoCreature) EXCEPT ![m].follow = NoCreature], m, p))

CreaturesInit == creatures = [c \in Creature |-> Unborn]

CreaturesNext ==
  \/ \E first \in BOOLEAN, c \in Creature :
       \/ CheckCreatures(c, first)
       \/ Enter(c, first)
       \/ Quit(c, first)
       \/ \E to \in Position : Move(c, to, first)
  \/ \E p \in Character, x \in Creature \cup {NoCreature} :
       \/ \E chase \in BOOLEAN : PlayerSetAttackedCreature(p, x, chase)
       \/ PlayerFollowCreature(p, x)
  \/ \E m \in Monster : \/ UpdateCreatureWalk(m)
                        \/ \E p \in Character : Convince(p, m)
  \/ \E k, c \in Creature, fatal \in BOOLEAN : Hit(k, c, fatal)

CreaturesSpec == CreaturesInit /\ [][CreaturesNext]_creatures

-----------------------------------------------------------------------------
(* Properties.                                                               *)

CreaturesTypeOK ==
  creatures \in [Creature ->
    [status : {"free", "game", "removed"}, at : Position, dead : BOOLEAN,
     check : BOOLEAN, listed : BOOLEAN, released : BOOLEAN,
     attacked : Creature \cup {NoCreature}, follow : Creature \cup {NoCreature},
     master : Creature \cup {NoCreature}, summons : SUBSET Monster,
     targets : SUBSET Creature, friends : SUBSET Creature, unseen : SUBSET Creature]]

(* Nothing points to an object that was freed, though creatures die, leave,  *)
(* move and are convinced in the middle of whatever the others do: whom a    *)
(* creature attacks or follows is in the game, on its floor and in its       *)
(* sight, and master and summon know each other and are both in the game.    *)
NothingDangles ==
  /\ CreaturesTypeOK
  /\ \A c \in InGame(creatures) :
       LET r == creatures[c]
       IN  /\ {r.attacked, r.follow, r.master} \subseteq InGame(creatures) \cup {NoCreature}
           /\ Reaches(creatures, c, r.attacked) /\ Reaches(creatures, c, r.follow)
           /\ \A d \in Creature : d \in r.summons <=> creatures[d].master = c

(* No monster sleeps through a player in its sight that it was told of: a    *)
(* wild one lists all of those and is checked, but for those it could see    *)
(* when it was sent home.  And the dead are checked, since only the check    *)
(* buries them: also those who were killed asleep, or with their master.     *)
MonstersWake ==
  \A m \in InGame(creatures) :
    LET r == creatures[m]
        seen == {p \in Character \cap InGame(creatures) :
                   ~creatures[p].dead /\ Sees(creatures, m, creatures[p].at)} \ r.unseen
    IN  /\ m \in Monster /\ r.master = NoCreature /\ ~r.dead /\ seen # {} => r.check /\ seen \subseteq r.targets
        /\ r.dead => r.check
=============================================================================
