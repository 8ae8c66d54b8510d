--------------------------- MODULE CreaturesProofs ---------------------------
(***************************************************************************)
(* What a creature sees and whom the map tells of what happens at a place    *)
(* are computed apart, in creature.cpp and in map.cpp: WhoSeesIsTold shows   *)
(* that they fit, on every floor and not only on the ones of an instance.    *)
(*                                                                           *)
(* NothingDangles rests on it.  Within a task pointers go bad for a while:   *)
(* when a creature has moved, whoever saw it may not see it any more, and    *)
(* when one has left, its summons have no master.  What the functions of a   *)
(* task do to the world is told apart by how much they change: the lists     *)
(* only (Alike), whom creatures attack and follow (Keeps), or who is in the  *)
(* game (Shrinks).  The pointers that are bad in between are a set of pairs, *)
(* and each function takes from the set those it repairs.                    *)
(*                                                                           *)
(* MonstersWake is proved the same way: Alert says that no monster misses    *)
(* whom it sees, but for a set of pairs, and Wary bounds what it forgets.    *)
(***************************************************************************)
EXTENDS Creatures, FiniteSetTheorems, WellFoundedInduction, TLAPS

(* Everywhere, on an axis without end.                                       *)
Everywhere == [x : Int, z : 0 .. 15]

(* Who sees a place is on a floor that is searched for it.                   *)
LEMMA FloorsFit ==
  ASSUME NEW from \in Everywhere, NEW to \in Everywhere, NEW view,
         CanSee(from, to, view)
  PROVE  from.z \in SpectatorFloors(to.z)
<1>1. from.z \in 0 .. 15 /\ to.z \in 0 .. 15
  BY DEF Everywhere
<1>2. IF from.z <= 7 THEN to.z <= 7 ELSE to.z - from.z \in -2 .. 2
  BY DEF CanSee, Within
<1>3. CASE to.z > 7
  <2>1. from.z - to.z \in -2 .. 2
    BY <1>1, <1>2, <1>3
  <2> QED
    BY <1>1, <1>3, <2>1 DEF SpectatorFloors, Within
<1>4. CASE to.z = 7
  BY <1>1, <1>2, <1>4 DEF SpectatorFloors, Within
<1>5. CASE to.z = 6
  BY <1>1, <1>2, <1>5 DEF SpectatorFloors, Within
<1>6. CASE to.z < 6
  BY <1>1, <1>2, <1>6 DEF SpectatorFloors, Within
<1> QED
  BY <1>1, <1>3, <1>4, <1>5, <1>6

(* Creature::canSee and Map::getSpectators: whoever sees a place, a monster  *)
(* or a player, is among those who are told what comes, goes or moves there. *)
THEOREM WhoSeesIsTold ==
  ASSUME NEW from \in Everywhere, NEW to \in Everywhere,
         NEW view \in {MonsterView, ClientView}, CanSee(from, to, view)
  PROVE  Spectates(from, to)
<1>1. from.z \in SpectatorFloors(to.z)
  BY FloorsFit
<1>2. from.x \in Int /\ to.x \in Int /\ from.z \in Int /\ to.z \in Int
  BY DEF Everywhere
<1>3. to.x - from.x - (from.z - to.z) \in -10 .. 10
  BY <1>2 DEF CanSee, MonsterView, ClientView
<1>4. from.x - to.x - (to.z - from.z) \in -11 .. 11
  BY <1>2, <1>3
<1> QED
  BY <1>1, <1>4 DEF Spectates, Within, MaxViewport

-----------------------------------------------------------------------------
(* Induction over the natural numbers, as a fact about sets of them.         *)
LEMMA Induction ==
  ASSUME NEW S, 0 \in S, \A n \in Nat : n \in S => n + 1 \in S
  PROVE  Nat \subseteq S
<1> DEFINE T == Nat \ S
<1> SUFFICES ASSUME T # {} PROVE FALSE
  OBVIOUS
<1>1. PICK x \in T : \A y \in T : ~ (<<y, x>> \in OpToRel(<, Nat))
  <2>1. T \subseteq Nat
    OBVIOUS
  <2> HIDE DEF T
  <2> QED
    BY <2>1, NatLessThanWellFounded, WFMin
<1>2. \A y \in T : ~ (y < x)
  BY <1>1 DEF OpToRel
<1>3. x # 0 /\ x \in Nat
  OBVIOUS
<1>4. x - 1 \in Nat /\ x - 1 < x
  BY <1>3
<1>5. x - 1 \in S
  BY <1>2, <1>4
<1>6. x \in S
  BY <1>3, <1>4, <1>5
<1> QED
  BY <1>6

(* f follows g from a for m steps.                                           *)
Follows(W, a, g, m, f) ==
  /\ f \in [0 .. m -> W]
  /\ f[0] = a
  /\ \A n \in 0 .. m - 1 : f[n + 1] = g[f[n]]

(* What is repeated can be written as a function of the number of times.     *)
LEMMA Iteration ==
  ASSUME NEW W, NEW a \in W, NEW g \in [W -> W]
  PROVE  \E f \in [Nat -> W] : f[0] = a /\ \A n \in Nat : f[n + 1] = g[f[n]]
<1>1. \A m \in Nat : \E f : Follows(W, a, g, m, f)
  <2> DEFINE S == {m \in Nat : \E f : Follows(W, a, g, m, f)}
  <2>1. 0 \in S
    <3>1. Follows(W, a, g, 0, [n \in 0 .. 0 |-> a])
      BY DEF Follows
    <3> QED
      BY <3>1
  <2>2. ASSUME NEW m \in Nat, m \in S PROVE m + 1 \in S
    <3>1. PICK f : Follows(W, a, g, m, f)
      BY <2>2
    <3> DEFINE h == [n \in 0 .. m + 1 |-> IF n = m + 1 THEN g[f[m]] ELSE f[n]]
    <3>2. \A n \in 0 .. m : h[n] = f[n] /\ f[n] \in W
      BY <3>1 DEF Follows
    <3>3. h[m + 1] = g[f[m]] /\ f[m] \in W
      BY <3>2
    <3>4. h \in [0 .. m + 1 -> W]
      <4>1. \A n \in 0 .. m + 1 : n = m + 1 \/ n \in 0 .. m
        OBVIOUS
      <4> QED
        BY <3>2, <3>3, <4>1
    <3> HIDE DEF h
    <3>5. \A n \in 0 .. m : h[n + 1] = g[h[n]]
      <4> SUFFICES ASSUME NEW n \in 0 .. m PROVE h[n + 1] = g[h[n]]
        OBVIOUS
      <4>1. CASE n = m
        BY <3>2, <3>3, <4>1
      <4>2. CASE n # m
        <5>1. n \in 0 .. m - 1 /\ n + 1 \in 0 .. m
          BY <4>2
        <5> QED
          BY <3>1, <3>2, <5>1 DEF Follows
      <4> QED
        BY <4>1, <4>2
    <3>6. m + 1 - 1 = m /\ 0 \in 0 .. m
      OBVIOUS
    <3>7. Follows(W, a, g, m + 1, h)
      BY <3>1, <3>2, <3>4, <3>5, <3>6 DEF Follows
    <3> QED
      BY <3>7
  <2> HIDE DEF S
  <2>3. Nat \subseteq S
    BY <2>1, <2>2, Induction
  <2> QED
    BY <2>3 DEF S
<1>2. \A n \in Nat : \A m, k \in Nat : \A f, h :
        Follows(W, a, g, m, f) /\ Follows(W, a, g, k, h) /\ n <= m /\ n <= k => f[n] = h[n]
  <2> DEFINE S == {n \in Nat : \A m, k \in Nat : \A f, h :
        Follows(W, a, g, m, f) /\ Follows(W, a, g, k, h) /\ n <= m /\ n <= k => f[n] = h[n]}
  <2>1. 0 \in S
    BY DEF Follows
  <2>2. ASSUME NEW n \in Nat, n \in S PROVE n + 1 \in S
    <3> SUFFICES ASSUME NEW m \in Nat, NEW k \in Nat, NEW f, NEW h,
                        Follows(W, a, g, m, f), Follows(W, a, g, k, h), n + 1 <= m, n + 1 <= k
                 PROVE  f[n + 1] = h[n + 1]
      OBVIOUS
    <3>1. n \in 0 .. m - 1 /\ n \in 0 .. k - 1 /\ n <= m /\ n <= k
      OBVIOUS
    <3>2. f[n] = h[n]
      BY <2>2, <3>1
    <3> QED
      BY <3>1, <3>2 DEF Follows
  <2> HIDE DEF S
  <2>3. Nat \subseteq S
    BY <2>1, <2>2, Induction
  <2> QED
    BY <2>3 DEF S
<1> DEFINE G(n) == CHOOSE f : Follows(W, a, g, n, f)
<1> DEFINE F == [n \in Nat |-> G(n)[n]]
<1>3. \A n \in Nat : Follows(W, a, g, n, G(n))
  BY <1>1
<1> HIDE DEF G
<1>4. \A n \in Nat : F[n] = G(n)[n] /\ n \in 0 .. n
  OBVIOUS
<1>5. F \in [Nat -> W]
  BY <1>3, <1>4 DEF Follows
<1>6. F[0] = a
  BY <1>3, <1>4 DEF Follows
<1>7. ASSUME NEW n \in Nat PROVE F[n + 1] = g[F[n]]
  <2>1. n + 1 \in Nat /\ n <= n /\ n <= n + 1 /\ n \in 0 .. (n + 1) - 1
    OBVIOUS
  <2>2. F[n + 1] = G(n + 1)[n + 1]
    BY <1>4, <2>1
  <2>3. G(n + 1)[n + 1] = g[G(n + 1)[n]]
    BY <1>3, <2>1 DEF Follows
  <2>4. G(n + 1)[n] = G(n)[n]
    BY <1>2, <1>3, <2>1
  <2> QED
    BY <1>4, <2>2, <2>3, <2>4
<1> QED
  BY <1>5, <1>6, <1>7

-----------------------------------------------------------------------------
(* Records of creatures and worlds.                                          *)

(* Who is checked is in the game.                                            *)
Record ==
  {r \in [status : {"free", "game", "removed"}, at : Position, dead : BOOLEAN,
          check : BOOLEAN, listed : BOOLEAN, released : BOOLEAN,
          attacked : Creature \cup {NoCreature}, follow : Creature \cup {NoCreature},
          master : Creature \cup {NoCreature}, summons : SUBSET Monster,
          targets : SUBSET Creature, friends : SUBSET Creature, unseen : SUBSET Creature] :
     r.check => r.status = "game"}

World == [Creature -> Record]

(* q differs from r at most in the lists and in whether it is checked.       *)
Same(r, q) ==
  /\ q \in Record
  /\ q.status = r.status /\ q.at = r.at
  /\ q.attacked = r.attacked /\ q.follow = r.follow
  /\ q.master = r.master /\ q.summons = r.summons

Alike(w, v) == v \in World /\ \A c \in Creature : Same(w[c], v[c])

(* What Changed computes.                                                    *)
LEMMA ChangedIs ==
  ASSUME NEW w \in World, NEW f, DOMAIN f \subseteq Creature,
         \A c \in DOMAIN f : f[c] \in Record
  PROVE  /\ Changed(w, f) \in World
         /\ \A c \in Creature : Changed(w, f)[c] = IF c \in DOMAIN f THEN f[c] ELSE w[c]
BY DEF Changed, World

(* A world in which only lists were changed.                                 *)
LEMMA ChangedAlike ==
  ASSUME NEW w \in World, NEW f, DOMAIN f \subseteq Creature,
         \A c \in DOMAIN f : Same(w[c], f[c])
  PROVE  Alike(w, Changed(w, f))
<1>1. \A c \in DOMAIN f : f[c] \in Record
  BY DEF Same
<1>2. \A c \in Creature : w[c] \in Record
  BY DEF World
<1> QED
  BY <1>1, <1>2, ChangedIs DEF Alike, Same

(* The functions that keep the lists of monsters keep all the rest.          *)
LEMMA SetIdleSame ==
  ASSUME NEW r \in Record, NEW idle
  PROVE  Same(r, SetIdle(r, idle))
<1>1. CASE r.status # "game" \/ r.dead
  BY <1>1 DEF SetIdle, Same
<1>2. CASE r.status = "game" /\ ~r.dead /\ ~idle
  BY <1>2 DEF SetIdle, Same, Record
<1>3. CASE r.status = "game" /\ ~r.dead /\ idle
  BY <1>3 DEF SetIdle, Same, Record
<1> QED
  BY <1>1, <1>2, <1>3 DEF Record

(* changeHealth moves no pointer.                                           *)
LEMMA ChangeHealthSame ==
  ASSUME NEW r \in Record, NEW c, NEW fatal \in BOOLEAN
  PROVE  Same(r, ChangeHealth(r, c, fatal))
<1> DEFINE q == IF c \in Monster THEN SetIdle(r, FALSE) ELSE r
<1>1. Same(r, q)
  BY SetIdleSame DEF Same
<1>2. ChangeHealth(r, c, fatal) = [q EXCEPT !.dead = fatal]
  BY DEF ChangeHealth
<1> HIDE DEF q
<1> QED
  BY <1>1, <1>2 DEF Same, Record

(* The relations of records and of worlds are transitive.                   *)
LEMMA SameTrans ==
  ASSUME NEW r, NEW p, NEW q, Same(r, p), Same(p, q)
  PROVE  Same(r, q)
BY DEF Same

(* ... and that of worlds.                                                  *)
LEMMA AlikeTrans ==
  ASSUME NEW w, NEW u, NEW v, Alike(w, u), Alike(u, v)
  PROVE  Alike(w, v)
BY SameTrans DEF Alike

(* A monster that finds somebody changes its list only.                     *)
LEMMA FoundSame ==
  ASSUME NEW w, NEW m, NEW r \in Record, NEW C \in SUBSET Creature, NEW first
  PROVE  Same(r, OnCreatureFound(w, m, r, C, first))
<1> DEFINE F == {c \in C : IsFriend(w, m, c)}
           sleepy == r.master = NoCreature /\ r.targets = {} /\ ~r.dead
           q == [r EXCEPT !.targets = @ \cup {c \in C : IsOpponent(w, m, c)},
                          !.friends = IF sleepy /\ first /\ F # {} THEN {} ELSE @ \cup F,
                          !.unseen = IF r.dead THEN @ ELSE @ \ C]
<1>1. Same(r, q)
  <2>1. {c \in C : IsOpponent(w, m, c)} \subseteq Creature /\ F \subseteq Creature
    OBVIOUS
  <2> HIDE DEF F, sleepy
  <2> QED
    BY <2>1 DEF Same, Record
<1>2. Same(q, UpdateIdleStatus(q))
  <2> HIDE DEF q
  <2> QED
    BY <1>1, SetIdleSame DEF UpdateIdleStatus, Same
<1>3. OnCreatureFound(w, m, r, C, first) = UpdateIdleStatus(q)
  BY DEF OnCreatureFound
<1> HIDE DEF q
<1> QED
  BY <1>1, <1>2, <1>3, SameTrans

(* ... and one from which somebody goes.                                    *)
LEMMA LeaveSame ==
  ASSUME NEW w, NEW m, NEW r \in Record, NEW c
  PROVE  Same(r, OnCreatureLeave(w, m, r, c))
<1> DEFINE q == [r EXCEPT !.friends = IF IsFriend(w, m, c) THEN @ \ {c} ELSE @,
                          !.targets = IF IsOpponent(w, m, c) THEN @ \ {c} ELSE @,
                          !.unseen = IF r.dead THEN @ ELSE @ \ {c}]
<1>1. Same(r, q)
  BY DEF Same, Record
<1>2. Same(q, UpdateIdleStatus(q))
  <2> HIDE DEF q
  <2> QED
    BY <1>1, SetIdleSame DEF UpdateIdleStatus, Same
<1>3. OnCreatureLeave(w, m, r, c) \in {q, UpdateIdleStatus(q)}
  BY DEF OnCreatureLeave
<1> HIDE DEF q
<1> QED
  BY <1>1, <1>2, <1>3, SameTrans

(* ... and one that looks around.                                           *)
LEMMA LookSame ==
  ASSUME NEW w \in World, NEW m \in Creature, NEW first
  PROVE  Same(w[m], LookAround(w, m, first))
<1> DEFINE near == {c \in Creature : ~w[c].dead /\ Sees(w, m, w[c].at)}
           seen == {s \in Spectators(w, w[m].at) \ {m} : Sees(w, m, w[s].at)}
           r == [w[m] EXCEPT !.targets = @ \cap near, !.friends = @ \cap near,
                             !.unseen = IF w[m].dead THEN @ ELSE {}]
<1>1. w[m] \in Record
  BY DEF World
<1>2. Same(w[m], r)
  <2> HIDE DEF near
  <2> QED
    BY <1>1 DEF Same, Record
<1>3. seen \in SUBSET Creature
  BY DEF Spectators, InGame
<1>4. LookAround(w, m, first) = OnCreatureFound(w, m, r, seen, first)
  BY DEF LookAround
<1> HIDE DEF r, seen
<1>5. Same(r, OnCreatureFound(w, m, r, seen, first))
  BY <1>2, <1>3, FoundSame DEF Same
<1> QED
  BY <1>2, <1>4, <1>5, SameTrans

(* Who is told of a removal changes its lists only.                         *)
LEMMA TellRemovalAlike ==
  ASSUME NEW w \in World, NEW S, NEW c
  PROVE  Alike(w, TellRemoval(w, S, c))
<1> DEFINE f == [m \in (S \cap Monster) \ {c} |-> OnCreatureLeave(w, m, w[m], c)]
<1>1. DOMAIN f \subseteq Creature
  BY DEF Creature
<1>2. \A m \in DOMAIN f : Same(w[m], f[m])
  BY <1>1, LeaveSame DEF World
<1>3. TellRemoval(w, S, c) = Changed(w, f)
  BY DEF TellRemoval
<1> HIDE DEF f
<1> QED
  BY <1>1, <1>2, <1>3, ChangedAlike

(* ... and who is told of a step.                                           *)
LEMMA ComeOrGoAlike ==
  ASSUME NEW w \in World, NEW S, NEW c \in Creature, NEW old, NEW first
  PROVE  Alike(w, ComeOrGo(w, S, c, old, first))
<1> DEFINE F(m) == CASE Sees(w, m, w[c].at) /\ ~Sees(w, m, old) -> OnCreatureFound(w, m, w[m], {c}, first)
                     [] ~Sees(w, m, w[c].at) /\ Sees(w, m, old) -> UpdateIdleStatus(OnCreatureLeave(w, m, w[m], c))
                     [] OTHER -> UpdateIdleStatus(w[m])
<1> DEFINE f == [m \in S \cap Monster |-> F(m)]
<1>1. DOMAIN f \subseteq Creature
  BY DEF Creature
<1>2. ASSUME NEW m \in DOMAIN f PROVE Same(w[m], f[m])
  <2>1. w[m] \in Record
    BY <1>1 DEF World
  <2>2. Same(w[m], OnCreatureFound(w, m, w[m], {c}, first))
    BY <2>1, FoundSame
  <2>3. Same(w[m], UpdateIdleStatus(w[m]))
    BY <2>1, SetIdleSame DEF UpdateIdleStatus
  <2>4. Same(w[m], UpdateIdleStatus(OnCreatureLeave(w, m, w[m], c)))
    <3>1. Same(w[m], OnCreatureLeave(w, m, w[m], c))
      BY <2>1, LeaveSame
    <3> QED
      BY <3>1, SetIdleSame, SameTrans DEF UpdateIdleStatus, Same
  <2>5. F(m) \in {OnCreatureFound(w, m, w[m], {c}, first), UpdateIdleStatus(w[m]),
                  UpdateIdleStatus(OnCreatureLeave(w, m, w[m], c))}
    <3> DEFINE a == Sees(w, m, w[c].at)
               b == Sees(w, m, old)
    <3> HIDE DEF a, b
    <3>1. F(m) = CASE a /\ ~b -> OnCreatureFound(w, m, w[m], {c}, first)
                   [] ~a /\ b -> UpdateIdleStatus(OnCreatureLeave(w, m, w[m], c))
                   [] OTHER -> UpdateIdleStatus(w[m])
      BY DEF a, b
    <3> HIDE DEF F
    <3>2. CASE a /\ ~b
      BY <3>1, <3>2
    <3>3. CASE ~a /\ b
      BY <3>1, <3>3
    <3>4. CASE ~(a /\ ~b) /\ ~(~a /\ b)
      BY <3>1, <3>4
    <3> QED
      BY <3>2, <3>3, <3>4
  <2>6. f[m] = F(m)
    OBVIOUS
  <2> QED
    BY <2>2, <2>3, <2>4, <2>5, <2>6
<1>3. ComeOrGo(w, S, c, old, first) = Changed(w, f)
  BY DEF ComeOrGo
<1> HIDE DEF f
<1> QED
  BY <1>1, <1>2, <1>3, ChangedAlike

(* Cleaning up the list of checks moves no pointer.                         *)
LEMMA CleanUpAlike ==
  ASSUME NEW w \in World
  PROVE  Alike(w, CleanUp(w))
<1> DEFINE f == [c \in {d \in Creature : w[d].released} |-> [w[c] EXCEPT !.released = FALSE]]
<1>1. ASSUME NEW c \in DOMAIN f PROVE Same(w[c], f[c])
  <2>1. w[c] \in Record /\ f[c] = [w[c] EXCEPT !.released = FALSE]
    BY DEF World
  <2> HIDE DEF f
  <2> QED
    BY <2>1 DEF Same, Record
<1>2. DOMAIN f \subseteq Creature /\ CleanUp(w) = Changed(w, f)
  BY DEF CleanUp
<1> HIDE DEF f
<1> QED
  BY <1>1, <1>2, ChangedAlike

(* A world in which one record was changed, in its lists.                    *)
LEMMA ExceptAlike ==
  ASSUME NEW w \in World, NEW c \in Creature, NEW r, Same(w[c], r)
  PROVE  Alike(w, [w EXCEPT ![c] = r])
<1>1. \A d \in Creature : w[d] \in Record /\ Same(w[d], w[d])
  BY DEF World, Same
<1>2. r \in Record
  BY DEF Same
<1>3. [w EXCEPT ![c] = r] \in World
  BY <1>2 DEF World
<1>4. \A d \in Creature : [w EXCEPT ![c] = r][d] = IF d = c THEN r ELSE w[d]
  BY DEF World
<1> QED
  BY <1>1, <1>3, <1>4 DEF Alike

(* A creature that appears moves no pointer.                                *)
LEMMA AppearAlike ==
  ASSUME NEW w \in World, NEW c \in Creature, NEW first, w[c].status = "game"
  PROVE  Alike(w, Appear(w, c, first))
<1> DEFINE self == [IF c \in Monster THEN LookAround(w, c, first) ELSE w[c]
                      EXCEPT !.check = TRUE, !.listed = TRUE]
           f == [d \in {c} \cup (Monster \cap Spectators(w, w[c].at)) |->
                  IF d = c THEN self ELSE OnCreatureFound(w, d, w[d], {c}, first)]
<1>1. DOMAIN f \subseteq Creature
  BY DEF Creature
<1>2. Same(w[c], self)
  <2>1. Same(w[c], IF c \in Monster THEN LookAround(w, c, first) ELSE w[c])
    <3>1. Same(w[c], w[c])
      BY DEF World, Same
    <3> QED
      BY <3>1, LookSame
  <2> QED
    BY <2>1 DEF Same, Record
<1>3. \A d \in DOMAIN f : f[d] = IF d = c THEN self ELSE OnCreatureFound(w, d, w[d], {c}, first)
  OBVIOUS
<1>4. Appear(w, c, first) = Changed(w, f)
  BY DEF Appear
<1> HIDE DEF self, f
<1>5. \A d \in DOMAIN f : Same(w[d], f[d])
  BY <1>1, <1>2, <1>3, FoundSame DEF World
<1> QED
  BY <1>1, <1>4, <1>5, ChangedAlike

-----------------------------------------------------------------------------
(* What the pointers are worth.                                              *)

Aims(r) == {r.attacked, r.follow} \ {NoCreature}

(* s may attack or follow x.                                                 *)
Fixed(w, s, x) ==
  /\ w[x].status = "game"
  /\ w[x].at.z = w[s].at.z
  /\ Sees(w, s, w[x].at)

(* s or x is c and has moved from the floor z: s loses x if it does not see  *)
(* it any more, or if it is c that went to another floor.                    *)
Adrift(w, s, x, c, z) ==
  /\ w[x].status = "game" \/ ~Sees(w, s, w[x].at)
  /\ \A y \in {s, x} \ {c} : w[y].at.z = z

(* All pointers are good, except for the pairs in E, if c has moved.         *)
Aimed(w, E, c, z) ==
  \A s \in Creature : w[s].status = "game" =>
    \A x \in Aims(w[s]) : Fixed(w, s, x) \/ (<<s, x>> \in E /\ Adrift(w, s, x, c, z))

(* Masters and summons, and nothing is left of a creature that is freed.     *)
Kin(w) ==
  \A c \in Creature :
    /\ w[c].master # c
    /\ w[c].status = "free" =>
         w[c].master = NoCreature /\ w[c].summons = {} /\ \A d \in Creature : w[d].master # c
    /\ w[c].status = "game" =>
         \A d \in Creature : d \in w[c].summons <=> w[d].master = c

Led(w) ==
  \A c \in Creature :
    w[c].status = "game" => w[c].master = NoCreature \/ w[w[c].master].status = "game"

(* What holds between the tasks, and what holds within.                      *)
Good(w) == w \in World /\ Aimed(w, {}, NoCreature, 0) /\ Kin(w) /\ Led(w)

CreaturesIInv == Good(creatures)

(* v differs from w in nothing that would make a good pointer bad.           *)
Keeps(w, v) ==
  /\ v \in World
  /\ \A c \in Creature : /\ v[c].status = w[c].status /\ v[c].at = w[c].at
                         /\ v[c].master = w[c].master /\ v[c].summons = w[c].summons
  /\ \A E, c, z : Aimed(w, E, c, z) => Aimed(v, E, c, z)

(* Keeping the good pointers is transitive.                                 *)
LEMMA KeepsTrans ==
  ASSUME NEW w, NEW u, NEW v, Keeps(w, u), Keeps(u, v)
  PROVE  Keeps(w, v)
BY DEF Keeps

(* What keeps the pointers keeps masters and summons too.                    *)
LEMMA KeepsGood ==
  ASSUME NEW w \in World, NEW v, Keeps(w, v)
  PROVE  /\ Kin(w) => Kin(v)
         /\ Led(w) => Led(v)
         /\ Good(w) => Good(v)
<1>1. Kin(w) => Kin(v)
  BY DEF Keeps, Kin
<1>2. \A c \in Creature : w[c].master \in Creature \cup {NoCreature}
  BY DEF World, Record
<1>3. Led(w) => Led(v)
  BY <1>2 DEF Keeps, Led
<1> QED
  BY <1>1, <1>3 DEF Keeps, Good

(* The lists and the checks are no concern of the pointers.                  *)
LEMMA AlikeKeeps ==
  ASSUME NEW w \in World, NEW v, Alike(w, v)
  PROVE  Keeps(w, v)
<1>1. v \in World
  BY DEF Alike
<1>2. \A c \in Creature : /\ v[c].status = w[c].status /\ v[c].at = w[c].at
                          /\ v[c].attacked = w[c].attacked /\ v[c].follow = w[c].follow
                          /\ v[c].master = w[c].master /\ v[c].summons = w[c].summons
  BY DEF Alike, Same
<1>3. \A c \in Creature : w[c] \in Record
  BY DEF World
<1>4. \A c \in Creature : Aims(v[c]) = Aims(w[c]) /\ Aims(w[c]) \subseteq Creature
  BY <1>2, <1>3 DEF Aims, Record
<1>5. \A s, x \in Creature : Sees(v, s, v[x].at) = Sees(w, s, w[x].at)
  BY <1>2 DEF Sees
<1>6. \A s, x \in Creature : Fixed(v, s, x) <=> Fixed(w, s, x)
  BY <1>2, <1>5 DEF Fixed
<1>7. \A s, x \in Creature : \A c, z : Adrift(v, s, x, c, z) <=> Adrift(w, s, x, c, z)
  BY <1>2, <1>5 DEF Adrift
<1>8. \A E, c, z : Aimed(w, E, c, z) => Aimed(v, E, c, z)
  BY <1>2, <1>4, <1>6, <1>7 DEF Aimed
<1> QED
  BY <1>1, <1>2, <1>8 DEF Keeps

-----------------------------------------------------------------------------
(* Whom creatures attack and follow.                                         *)

(* Whoever is commanded to attack, its summons apart, is so.                 *)
LEMMA CommandedIs ==
  ASSUME NEW w \in World, NEW S \in SUBSET Creature, NEW x
  PROVE  S \subseteq Commanded(w, S, x) /\ Commanded(w, S, x) \subseteq Creature
<1> DEFINE Step(T) == {d \in Creature : \/ d \in T
                                        \/ w[d].master \in T /\ Reaches(w, w[d].master, x)}
           g == [T \in SUBSET Creature |-> Step(T)]
           Solves(h) == h = [n \in Nat |-> IF n = 0 THEN S ELSE Step(h[n - 1])]
           within == CHOOSE h : Solves(h)
<1> DEFINE P == SUBSET Creature
<1>1. g \in [P -> P] /\ S \in P
  OBVIOUS
<1>2. \A T \in SUBSET Creature : g[T] = Step(T) /\ T \subseteq Step(T) /\ Step(T) \subseteq Creature
  OBVIOUS
<1> HIDE DEF g, Step, P
<1>3. PICK f \in [Nat -> P] : f[0] = S /\ \A n \in Nat : f[n + 1] = g[f[n]]
  BY <1>1, Iteration
<1>4. \E h : Solves(h)
  <2>1. \A n \in Nat : f[n] = IF n = 0 THEN S ELSE Step(f[n - 1])
    <3> SUFFICES ASSUME NEW n \in Nat PROVE f[n] = IF n = 0 THEN S ELSE Step(f[n - 1])
      OBVIOUS
    <3>1. CASE n = 0
      BY <1>3, <3>1
    <3>2. CASE n # 0
      <4>1. n - 1 \in Nat /\ (n - 1) + 1 = n
        BY <3>2
      <4>2. f[n] = g[f[n - 1]] /\ f[n - 1] \in SUBSET Creature
        BY <1>3, <4>1 DEF P
      <4> QED
        BY <1>2, <3>2, <4>2
    <3> QED
      BY <3>1, <3>2
  <2>2. f = [n \in Nat |-> f[n]]
    BY <1>3
  <2> QED
    BY <2>1, <2>2
<1>5. Solves(within)
  BY <1>4
<1> HIDE DEF within
<1>6. within[0] = S /\ \A n \in Nat : within[n + 1] = Step(within[n])
  <2>1. \A n \in Nat : n + 1 # 0 /\ n + 1 - 1 = n /\ n + 1 \in Nat
    OBVIOUS
  <2> QED
    BY <1>5, <2>1
<1>7. \A n \in Nat : S \subseteq within[n] /\ within[n] \subseteq Creature
  <2> DEFINE N == {n \in Nat : S \subseteq within[n] /\ within[n] \subseteq Creature}
  <2>1. 0 \in N
    BY <1>6
  <2>2. \A n \in Nat : n \in N => n + 1 \in N
    BY <1>2, <1>6
  <2> HIDE DEF N
  <2>3. Nat \subseteq N
    BY <2>1, <2>2, Induction
  <2> QED
    BY <2>3 DEF N
<1>8. Cardinality(Monster) \in Nat
  BY CreaturesAssumption, FS_Subset, FS_CardinalityType DEF CreaturesAssumption, Creature
<1>9. Commanded(w, S, x) \in {S, within[Cardinality(Monster)]}
  BY DEF Commanded, within, Step
<1> QED
  BY <1>7, <1>8, <1>9

(* v differs from w in whom creatures attack or follow: maybe nobody, maybe  *)
(* x where they reach it.                                                    *)
Redirected(w, v, x) ==
  /\ v \in World
  /\ \A c \in Creature :
       /\ v[c] = [w[c] EXCEPT !.attacked = v[c].attacked, !.follow = v[c].follow]
       /\ \A y \in Aims(v[c]) : y \in Aims(w[c]) \/ (y = x /\ Reaches(w, c, x))

(* A record of which only the two pointers change.                           *)
LEMMA RedirectedRecord ==
  ASSUME NEW r \in Record, NEW a \in Creature \cup {NoCreature}, NEW b \in Creature \cup {NoCreature}
  PROVE  LET q == [r EXCEPT !.attacked = a, !.follow = b]
         IN  /\ q \in Record
             /\ q.attacked = a /\ q.follow = b
             /\ [r EXCEPT !.attacked = a, !.follow = r.follow] = [r EXCEPT !.attacked = a]
             /\ [r EXCEPT !.attacked = r.attacked, !.follow = b] = [r EXCEPT !.follow = b]
             /\ [r EXCEPT !.attacked = r.attacked, !.follow = r.follow] = r
BY DEF Record

(* Creature::setAttackedCreature, and who is sure to stop.                   *)
LEMMA SetAttackedIs ==
  ASSUME NEW w \in World, NEW S \in SUBSET Creature, NEW x \in Creature \cup {NoCreature}
  PROVE  LET v == SetAttackedCreature(w, S, x)
         IN  /\ Redirected(w, v, x)
             /\ \A c \in Creature : v[c].follow = w[c].follow
             /\ S = {} => \A c \in Creature : v[c] = w[c]
             /\ x = NoCreature => \A c \in Creature : v[c].attacked \in {w[c].attacked, x}
             /\ \A c \in S : x = NoCreature => v[c].attacked = x
<1> DEFINE C == Commanded(w, S, x)
           f == [c \in C |-> [w[c] EXCEPT !.attacked = IF Reaches(w, c, x) THEN x ELSE NoCreature]]
           v == Changed(w, f)
<1>1. S \subseteq C /\ C \subseteq Creature
  BY CommandedIs
<1>2. SetAttackedCreature(w, S, x) = v
  BY DEF SetAttackedCreature
<1> HIDE DEF C
<1>3. \A c \in Creature : /\ w[c] \in Record
                          /\ w[c].attacked \in Creature \cup {NoCreature}
                          /\ w[c].follow \in Creature \cup {NoCreature}
  BY DEF World, Record
<1>4. ASSUME NEW c \in C
      PROVE  /\ f[c] \in Record
             /\ f[c] = [w[c] EXCEPT !.attacked = f[c].attacked, !.follow = f[c].follow]
             /\ f[c].attacked = IF Reaches(w, c, x) THEN x ELSE NoCreature
             /\ f[c].follow = w[c].follow
  <2> DEFINE a == IF Reaches(w, c, x) THEN x ELSE NoCreature
  <2>1. f[c] = [w[c] EXCEPT !.attacked = a] /\ a \in Creature \cup {NoCreature} /\ c \in Creature
    BY <1>1
  <2> HIDE DEF a, f
  <2>2. w[c] \in Record
    BY <1>3, <2>1
  <2>3. /\ f[c] \in Record /\ f[c].attacked = a /\ f[c].follow = w[c].follow
        /\ f[c] = [w[c] EXCEPT !.attacked = f[c].attacked, !.follow = f[c].follow]
    <3> DEFINE r == w[c]
               q == f[c]
    <3>1. r \in Record /\ q = [r EXCEPT !.attacked = a]
      BY <2>1, <2>2
    <3> HIDE DEF r, q
    <3>2. /\ q \in Record /\ q.attacked = a /\ q.follow = r.follow
          /\ q = [r EXCEPT !.attacked = q.attacked, !.follow = q.follow]
      BY <2>1, <3>1 DEF Record
    <3> QED
      BY <3>2 DEF r, q
  <2> QED
    BY <2>3 DEF a
<1>5. DOMAIN f = C
  OBVIOUS
<1> HIDE DEF f
<1>6. \A c \in C : f[c] \in Record
  BY <1>4
<1>7. v \in World /\ \A c \in Creature : v[c] = IF c \in C THEN f[c] ELSE w[c]
  BY <1>1, <1>5, <1>6, ChangedIs
<1> HIDE DEF v
<1>8. \A c \in Creature : v[c].follow = w[c].follow
  BY <1>4, <1>7
<1>9. \A c \in Creature : v[c] = [w[c] EXCEPT !.attacked = v[c].attacked, !.follow = v[c].follow]
  BY <1>3, <1>4, <1>7, RedirectedRecord
<1>10. ASSUME NEW c \in Creature, NEW y \in Aims(v[c])
       PROVE  y \in Aims(w[c]) \/ (y = x /\ Reaches(w, c, x))
  BY <1>4, <1>7, <1>8 DEF Aims
<1>11. x = NoCreature => \A c \in Creature : Reaches(w, c, x)
  BY DEF Reaches
<1>12. S = {} => C = {}
  BY DEF C, Commanded
<1> QED
  BY <1>1, <1>2, <1>4, <1>7, <1>8, <1>9, <1>10, <1>11, <1>12 DEF Redirected

(* Creature::setFollowCreature, likewise; it goes for those in S alone.      *)
LEMMA SetFollowIs ==
  ASSUME NEW w \in World, NEW S \in SUBSET Creature, NEW x \in Creature \cup {NoCreature}
  PROVE  LET v == SetFollowCreature(w, S, x)
         IN  /\ Redirected(w, v, x)
             /\ \A c \in Creature : v[c].attacked = w[c].attacked
             /\ \A c \in Creature \ S : v[c] = w[c]
             /\ x = NoCreature => \A c \in Creature : v[c].follow \in {w[c].follow, x}
             /\ x = NoCreature => \A c \in S : v[c].follow = x
<1> DEFINE f == [c \in S |-> [w[c] EXCEPT !.follow = IF @ = x \/ Reaches(w, c, x) THEN x ELSE NoCreature]]
           v == Changed(w, f)
<1>1. SetFollowCreature(w, S, x) = v
  BY DEF SetFollowCreature
<1>2. \A c \in Creature : /\ w[c] \in Record
                          /\ w[c].attacked \in Creature \cup {NoCreature}
                          /\ w[c].follow \in Creature \cup {NoCreature}
  BY DEF World, Record
<1>3. ASSUME NEW c \in S
      PROVE  /\ f[c] \in Record
             /\ f[c] = [w[c] EXCEPT !.attacked = f[c].attacked, !.follow = f[c].follow]
             /\ f[c].follow = IF w[c].follow = x \/ Reaches(w, c, x) THEN x ELSE NoCreature
             /\ f[c].attacked = w[c].attacked
  <2> DEFINE b == IF w[c].follow = x \/ Reaches(w, c, x) THEN x ELSE NoCreature
  <2>1. f[c] = [w[c] EXCEPT !.follow = b] /\ b \in Creature \cup {NoCreature}
    OBVIOUS
  <2> HIDE DEF b, f
  <2>2. w[c] \in Record
    BY <1>2
  <2>3. /\ f[c] \in Record /\ f[c].follow = b /\ f[c].attacked = w[c].attacked
        /\ f[c] = [w[c] EXCEPT !.attacked = f[c].attacked, !.follow = f[c].follow]
    <3> DEFINE r == w[c]
               q == f[c]
    <3>1. r \in Record /\ q = [r EXCEPT !.follow = b]
      BY <2>1, <2>2
    <3> HIDE DEF r, q
    <3>2. /\ q \in Record /\ q.follow = b /\ q.attacked = r.attacked
          /\ q = [r EXCEPT !.attacked = q.attacked, !.follow = q.follow]
      BY <2>1, <3>1 DEF Record
    <3> QED
      BY <3>2 DEF r, q
  <2> QED
    BY <2>3 DEF b
<1>4. DOMAIN f = S
  OBVIOUS
<1> HIDE DEF f
<1>5. \A c \in S : f[c] \in Record
  BY <1>3
<1>6. v \in World /\ \A c \in Creature : v[c] = IF c \in S THEN f[c] ELSE w[c]
  BY <1>4, <1>5, ChangedIs
<1> HIDE DEF v
<1>7. \A c \in Creature : v[c].attacked = w[c].attacked
  BY <1>3, <1>6
<1>8. \A c \in Creature : v[c] = [w[c] EXCEPT !.attacked = v[c].attacked, !.follow = v[c].follow]
  BY <1>2, <1>3, <1>6, RedirectedRecord
<1>9. ASSUME NEW c \in Creature, NEW y \in Aims(v[c])
      PROVE  y \in Aims(w[c]) \/ (y = x /\ Reaches(w, c, x))
  BY <1>3, <1>6, <1>7 DEF Aims
<1>10. x = NoCreature => \A c \in Creature : Reaches(w, c, x)
  BY DEF Reaches
<1> QED
  BY <1>1, <1>3, <1>6, <1>7, <1>8, <1>9, <1>10 DEF Redirected

(* Who is redirected is where it was, and has its master and summons.        *)
LEMMA RedirectedFields ==
  ASSUME NEW w \in World, NEW v, NEW x, Redirected(w, v, x)
  PROVE  \A c \in Creature :
           /\ v[c].status = w[c].status /\ v[c].at = w[c].at
           /\ v[c].master = w[c].master /\ v[c].summons = w[c].summons
<1> SUFFICES ASSUME NEW c \in Creature
             PROVE  /\ v[c].status = w[c].status /\ v[c].at = w[c].at
                    /\ v[c].master = w[c].master /\ v[c].summons = w[c].summons
  OBVIOUS
<1>1. w[c] \in Record
  BY DEF World
<1>2. v[c] = [w[c] EXCEPT !.attacked = v[c].attacked, !.follow = v[c].follow]
  BY DEF Redirected
<1> QED
  BY <1>1, <1>2 DEF Record

(* No pointer goes bad by turning to one in the game that is reached.        *)
LEMMA RedirectedKeeps ==
  ASSUME NEW w \in World, NEW v, NEW x, Redirected(w, v, x),
         x # NoCreature => x \in Creature /\ w[x].status = "game"
  PROVE  Keeps(w, v)
<1>1. v \in World
  BY DEF Redirected
<1>2. \A c \in Creature : /\ v[c].status = w[c].status /\ v[c].at = w[c].at
                          /\ v[c].master = w[c].master /\ v[c].summons = w[c].summons
  BY RedirectedFields
<1>3. \A c \in Creature : w[c] \in Record /\ v[c] \in Record
  BY <1>1 DEF World
<1>4. \A c \in Creature : Aims(v[c]) \subseteq Creature /\ Aims(w[c]) \subseteq Creature
  BY <1>3 DEF Aims, Record
<1>5. \A s, y \in Creature : Sees(v, s, v[y].at) = Sees(w, s, w[y].at)
  BY <1>2 DEF Sees
<1>6. \A s, y \in Creature : Fixed(v, s, y) <=> Fixed(w, s, y)
  BY <1>2, <1>5 DEF Fixed
<1>7. \A s, y \in Creature : \A c, z : Adrift(v, s, y, c, z) <=> Adrift(w, s, y, c, z)
  BY <1>2, <1>5 DEF Adrift
<1>8. \A s \in Creature : \A y \in Aims(v[s]) : y \in Aims(w[s]) \/ Fixed(w, s, y)
  <2> SUFFICES ASSUME NEW s \in Creature, NEW y \in Aims(v[s]), y \notin Aims(w[s])
               PROVE  Fixed(w, s, y)
    OBVIOUS
  <2>1. y = x /\ Reaches(w, s, x)
    BY DEF Redirected
  <2>2. x # NoCreature
    BY <2>1 DEF Aims
  <2> QED
    BY <2>1, <2>2 DEF Reaches, Fixed
<1>9. \A E, c, z : Aimed(w, E, c, z) => Aimed(v, E, c, z)
  BY <1>2, <1>4, <1>6, <1>7, <1>8 DEF Aimed
<1> QED
  BY <1>1, <1>2, <1>9 DEF Keeps

(* Redirections to the same target come one after the other.                *)
LEMMA RedirectedTrans ==
  ASSUME NEW w \in World, NEW u, NEW v, NEW x,
         x \in Creature \cup {NoCreature}, Redirected(w, u, x), Redirected(u, v, x)
  PROVE  Redirected(w, v, x)
<1>1. u \in World /\ v \in World
  BY DEF Redirected
<1>2. \A c \in Creature : u[c].at = w[c].at
  BY RedirectedFields
<1>3. \A c \in Creature : Reaches(u, c, x) <=> Reaches(w, c, x)
  BY <1>2 DEF Reaches, Sees
<1>4. ASSUME NEW c \in Creature
      PROVE  v[c] = [w[c] EXCEPT !.attacked = v[c].attacked, !.follow = v[c].follow]
  <2> DEFINE r == w[c]
             p == u[c]
             q == v[c]
  <2>1. r \in Record /\ p \in Record /\ q \in Record
    BY <1>1 DEF World
  <2>2. /\ p = [r EXCEPT !.attacked = p.attacked, !.follow = p.follow]
        /\ q = [p EXCEPT !.attacked = q.attacked, !.follow = q.follow]
    BY DEF Redirected
  <2> HIDE DEF r, p, q
  <2>3. q = [r EXCEPT !.attacked = q.attacked, !.follow = q.follow]
    BY <2>1, <2>2 DEF Record
  <2> QED
    BY <2>3 DEF r, q
<1>5. ASSUME NEW c \in Creature, NEW y \in Aims(v[c])
      PROVE  y \in Aims(w[c]) \/ (y = x /\ Reaches(w, c, x))
  <2>1. y \in Aims(u[c]) \/ (y = x /\ Reaches(u, c, x))
    BY DEF Redirected
  <2>2. y \in Aims(u[c]) => y \in Aims(w[c]) \/ (y = x /\ Reaches(w, c, x))
    BY DEF Redirected
  <2> QED
    BY <1>3, <2>1, <2>2
<1> QED
  BY <1>1, <1>4, <1>5 DEF Redirected

(* Those in A and those in F are sure to let go.                             *)
LEMMA DropIs ==
  ASSUME NEW w \in World, NEW A \in SUBSET Creature, NEW F \in SUBSET Creature
  PROVE  LET v == Drop(w, A, F)
         IN  /\ Redirected(w, v, NoCreature)
             /\ \A c \in Creature : /\ v[c].attacked \in {w[c].attacked, NoCreature}
                                   /\ v[c].follow \in {w[c].follow, NoCreature}
             /\ \A c \in A : v[c].attacked = NoCreature
             /\ \A c \in F : v[c].follow = NoCreature
<1> DEFINE u == SetAttackedCreature(w, A, NoCreature)
           G == F \cup (A \cap Character)
           v == SetFollowCreature(u, G, NoCreature)
<1>1. /\ Redirected(w, u, NoCreature)
      /\ \A c \in Creature : u[c].follow = w[c].follow /\ u[c].attacked \in {w[c].attacked, NoCreature}
      /\ \A c \in A : u[c].attacked = NoCreature
  <2>1. NoCreature \in Creature \cup {NoCreature}
    OBVIOUS
  <2>2. Redirected(w, u, NoCreature)
    BY <2>1, SetAttackedIs
  <2>3. \A c \in Creature : u[c].follow = w[c].follow
    BY <2>1, SetAttackedIs
  <2>4. \A c \in Creature : u[c].attacked \in {w[c].attacked, NoCreature}
    BY <2>1, SetAttackedIs
  <2>5. \A c \in A : u[c].attacked = NoCreature
    BY <2>1, SetAttackedIs
  <2> QED
    BY <2>2, <2>3, <2>4, <2>5
<1>2. u \in World
  BY <1>1 DEF Redirected
<1> HIDE DEF u
<1>3. /\ Redirected(u, v, NoCreature)
      /\ \A c \in Creature : v[c].attacked = u[c].attacked /\ v[c].follow \in {u[c].follow, NoCreature}
      /\ \A c \in G : v[c].follow = NoCreature
  <2>1. NoCreature \in Creature \cup {NoCreature} /\ G \in SUBSET Creature
    BY DEF Creature
  <2> HIDE DEF G
  <2> QED
    BY <1>2, <2>1, SetFollowIs
<1>4. Drop(w, A, F) = v
  BY DEF Drop, u
<1> HIDE DEF v
<1>5. Redirected(w, v, NoCreature)
  BY <1>1, <1>3, RedirectedTrans
<1> QED
  BY <1>1, <1>3, <1>4, <1>5

(* Monster::selectTarget takes who is in the game.                           *)
LEMMA SelectTargetKeeps ==
  ASSUME NEW w \in World, NEW S \in SUBSET Creature, NEW x \in Creature
  PROVE  Keeps(w, SelectTarget(w, S, x))
<1> DEFINE T == {m \in S : w[x].status = "game" /\ w[x].at.z = w[m].at.z /\ x \in w[m].targets}
           u == SetAttackedCreature(w, T, x)
           v == SetFollowCreature(u, T, x)
<1>1. SelectTarget(w, S, x) = v
  BY DEF SelectTarget
<1>2. T \in SUBSET Creature /\ (w[x].status = "game" \/ T = {})
  OBVIOUS
<1> HIDE DEF T
<1>3. /\ Redirected(w, u, x)
      /\ T = {} => \A c \in Creature : u[c] = w[c]
  BY <1>2, SetAttackedIs
<1>4. u \in World
  BY <1>3 DEF Redirected
<1> HIDE DEF u
<1>5. /\ Redirected(u, v, x)
      /\ \A c \in Creature \ T : v[c] = u[c]
  BY <1>2, <1>4, SetFollowIs
<1>6. v \in World
  BY <1>5 DEF Redirected
<1> HIDE DEF v
<1>7. CASE w[x].status = "game"
  <2>1. Redirected(w, v, x)
    BY <1>3, <1>5, RedirectedTrans
  <2> QED
    BY <1>1, <1>7, <2>1, RedirectedKeeps
<1>8. CASE T = {}
  <2>1. \A c \in Creature : v[c] = w[c]
    BY <1>3, <1>5, <1>8
  <2>2. Alike(w, v)
    BY <1>6, <2>1 DEF Alike, Same, World
  <2> QED
    BY <1>1, <2>2, AlikeKeeps
<1> QED
  BY <1>2, <1>7, <1>8

(* Pointers may be cleared.                                                 *)
LEMMA DropKeeps ==
  ASSUME NEW w \in World, NEW A \in SUBSET Creature, NEW F \in SUBSET Creature
  PROVE  Keeps(w, Drop(w, A, F))
BY DropIs, RedirectedKeeps

(* The pairs of which one has moved and the other was told.                  *)
Pairs(S, c) == {e \in S \X Creature : c \in {e[1], e[2]}}

(* Creature::onCreatureMove: who was told loses whom it does not see.        *)
LEMMA LoseSightRepairs ==
  ASSUME NEW w \in World, NEW S \in SUBSET Creature, NEW c \in Creature,
         NEW old, NEW E, Aimed(w, E, c, old.z)
  PROVE  LET v == LoseSight(w, S, c, old)
         IN  Keeps(w, v) /\ Aimed(v, E \ Pairs(S, c), c, old.z)
<1> DEFINE Loses(s, x) == /\ x # NoCreature /\ c \in {s, x}
                          /\ w[c].at.z # old.z \/ ~Sees(w, s, w[x].at)
           A == {s \in S : Loses(s, w[s].attacked)}
           F == {s \in S : Loses(s, w[s].follow)}
           v == Drop(w, A, F)
<1>1. LoseSight(w, S, c, old) = v
  BY DEF LoseSight
<1>2. A \in SUBSET Creature /\ F \in SUBSET Creature
  OBVIOUS
<1>3. /\ Redirected(w, v, NoCreature) /\ Keeps(w, v)
      /\ \A s \in Creature : /\ v[s].attacked \in {w[s].attacked, NoCreature}
                             /\ v[s].follow \in {w[s].follow, NoCreature}
      /\ \A s \in A : v[s].attacked = NoCreature
      /\ \A s \in F : v[s].follow = NoCreature
  <2> HIDE DEF A, F
  <2> QED
    BY <1>2, DropIs, DropKeeps
<1> HIDE DEF v
<1>4. \A s \in Creature : w[s] \in Record /\ v[s] \in Record
  BY <1>3 DEF World, Keeps
<1>5. \A s \in Creature : Aims(v[s]) \subseteq Creature /\ Aims(v[s]) \subseteq Aims(w[s])
  BY <1>3, <1>4 DEF Aims, Record
<1>6. ASSUME NEW s \in S, NEW x \in Aims(v[s]), c \in {s, x}
      PROVE  w[c].at.z = old.z /\ Sees(w, s, w[x].at)
  <2>1. \/ x = w[s].attacked /\ s \notin A
        \/ x = w[s].follow /\ s \notin F
    BY <1>3, <1>6 DEF Aims
  <2>2. x # NoCreature
    BY DEF Aims
  <2> QED
    BY <1>6, <2>1, <2>2
<1> HIDE DEF A, F
<1>7. \A s \in Creature : v[s].status = w[s].status
  BY <1>3 DEF Keeps
<1>8. Aimed(v, E, c, old.z)
  BY <1>3 DEF Keeps
<1>9. \A y \in Creature : v[y].at = w[y].at
  BY <1>3 DEF Keeps
<1>10. ASSUME NEW s \in Creature, v[s].status = "game", NEW x \in Aims(v[s]), ~Fixed(v, s, x)
       PROVE  <<s, x>> \in E \ Pairs(S, c) /\ Adrift(v, s, x, c, old.z)
  <2>1. <<s, x>> \in E /\ Adrift(v, s, x, c, old.z)
    BY <1>8, <1>10 DEF Aimed
  <2>2. ASSUME <<s, x>> \in Pairs(S, c) PROVE FALSE
    <3>1. s \in S /\ c \in {s, x} /\ x \in Creature
      BY <2>2, <1>5 DEF Pairs
    <3>2. v[c].at.z = old.z /\ Sees(v, s, v[x].at)
      BY <1>6, <1>9, <3>1 DEF Sees
    <3>3. v[x].status = "game" /\ v[x].at.z = v[s].at.z
      BY <2>1, <3>1, <3>2 DEF Adrift
    <3> QED
      BY <1>10, <3>2, <3>3 DEF Fixed
  <2> QED
    BY <2>1, <2>2
<1>11. Aimed(v, E \ Pairs(S, c), c, old.z)
  BY <1>10 DEF Aimed
<1> QED
  BY <1>1, <1>3, <1>11

-----------------------------------------------------------------------------
(* Masters and summons.                                                      *)

(* Pointers are good by who is in the game, where, and at whom.              *)
LEMMA AimedSame ==
  ASSUME NEW w \in World, NEW v \in World,
         \A c \in Creature : /\ v[c].status = w[c].status /\ v[c].at = w[c].at
                             /\ v[c].attacked = w[c].attacked /\ v[c].follow = w[c].follow
  PROVE  \A E, c, z : Aimed(w, E, c, z) => Aimed(v, E, c, z)
<1>1. \A c \in Creature : w[c] \in Record
  BY DEF World
<1>2. \A c \in Creature : Aims(v[c]) = Aims(w[c]) /\ Aims(w[c]) \subseteq Creature
  BY <1>1 DEF Aims, Record
<1>3. \A s, x \in Creature : Sees(v, s, v[x].at) = Sees(w, s, w[x].at)
  BY DEF Sees
<1>4. \A s, x \in Creature : Fixed(v, s, x) <=> Fixed(w, s, x)
  BY <1>3 DEF Fixed
<1>5. \A s, x \in Creature : \A c, z : Adrift(v, s, x, c, z) <=> Adrift(w, s, x, c, z)
  BY <1>3 DEF Adrift
<1> QED
  BY <1>2, <1>4, <1>5 DEF Aimed

(* Creature::setMaster: c leaves one list of summons for another.            *)
LEMMA SetMasterIs ==
  ASSUME NEW w \in World, NEW c \in Creature, NEW x \in Creature \cup {NoCreature},
         x # NoCreature => c \in Monster
  PROVE  LET v == SetMaster(w, c, x)
         IN  /\ v \in World
             /\ \A d \in Creature :
                  /\ v[d].status = w[d].status /\ v[d].at = w[d].at
                  /\ v[d].attacked = w[d].attacked /\ v[d].follow = w[d].follow
             /\ v[c].master = x
             /\ \A d \in Creature \ {c} : v[d].master = w[d].master
             /\ \A a \in Creature : \A d \in Creature \ {c} : d \in v[a].summons <=> d \in w[a].summons
             /\ \A a \in Creature : c \in v[a].summons <=>
                  a = x \/ (c \in w[a].summons /\ a \notin {c, w[c].master})
<1> DEFINE S == {c, w[c].master, x} \ {NoCreature}
           f == [d \in S |-> [w[d] EXCEPT !.summons = IF d = x THEN @ \cup {c} ELSE @ \ {c},
                                          !.master = IF d = c THEN x ELSE @]]
           v == Changed(w, f)
<1>1. \A d \in Creature : w[d] \in Record
  BY DEF World
<1>2. S \subseteq Creature
  BY <1>1 DEF Record
<1>3. SetMaster(w, c, x) = v
  BY DEF SetMaster
<1>4. ASSUME NEW d \in S
      PROVE  /\ f[d] \in Record
             /\ f[d].status = w[d].status /\ f[d].at = w[d].at
             /\ f[d].attacked = w[d].attacked /\ f[d].follow = w[d].follow
             /\ d = c => f[d].master = x
             /\ d # c => f[d].master = w[d].master
             /\ d = x => f[d].summons = w[d].summons \cup {c}
             /\ d # x => f[d].summons = w[d].summons \ {c}
  <2> DEFINE r == w[d]
             q == f[d]
             N == IF d = x THEN r.summons \cup {c} ELSE r.summons \ {c}
             m == IF d = c THEN x ELSE r.master
  <2>1. r \in Record /\ d \in Creature
    BY <1>1, <1>2
  <2>2. N \in SUBSET Monster /\ m \in Creature \cup {NoCreature}
    <3>0. NoCreature \notin Creature
      BY CreaturesAssumption DEF CreaturesAssumption
    <3>1. r.summons \subseteq Monster /\ r.master \in Creature \cup {NoCreature}
      BY <2>1 DEF Record
    <3> HIDE DEF r
    <3> QED
      BY <2>1, <3>0, <3>1
  <2>3. q = [r EXCEPT !.summons = N, !.master = m]
    OBVIOUS
  <2> HIDE DEF r, q, N, m
  <2>4. /\ q \in Record
        /\ q.status = r.status /\ q.at = r.at
        /\ q.attacked = r.attacked /\ q.follow = r.follow
        /\ q.master = m /\ q.summons = N
    BY <2>1, <2>2, <2>3 DEF Record
  <2> QED
    BY <2>4 DEF r, q, N, m
<1>5. DOMAIN f = S
  OBVIOUS
<1> HIDE DEF f
<1>6. v \in World /\ \A d \in Creature : v[d] = IF d \in S THEN f[d] ELSE w[d]
  BY <1>2, <1>4, <1>5, ChangedIs
<1> HIDE DEF v
<1>7. NoCreature \notin Creature
  BY CreaturesAssumption DEF CreaturesAssumption
<1>8. \A d \in Creature : d \in S <=> d = x \/ d \in {c, w[c].master}
  BY <1>7
<1> HIDE DEF S
<1>9. \A d \in Creature :
        /\ v[d].status = w[d].status /\ v[d].at = w[d].at
        /\ v[d].attacked = w[d].attacked /\ v[d].follow = w[d].follow
  BY <1>4, <1>6
<1>10. v[c].master = x
  BY <1>4, <1>6, <1>8
<1>11. \A d \in Creature \ {c} : v[d].master = w[d].master
  BY <1>4, <1>6
<1>12. \A a \in Creature :
                          /\ a = x => v[a].summons = w[a].summons \cup {c}
                          /\ a # x /\ a \in {c, w[c].master} => v[a].summons = w[a].summons \ {c}
                          /\ a # x /\ a \notin {c, w[c].master} => v[a].summons = w[a].summons
  BY <1>4, <1>6, <1>8
<1>13. \A a \in Creature : \A d \in Creature \ {c} : d \in v[a].summons <=> d \in w[a].summons
  BY <1>12
<1>14. \A a \in Creature : c \in v[a].summons <=>
         a = x \/ (c \in w[a].summons /\ a \notin {c, w[c].master})
  BY <1>12
<1> QED
  BY <1>3, <1>6, <1>9, <1>10, <1>11, <1>13, <1>14

(* Masters and summons still agree, if the new master is in the game.        *)
LEMMA SetMasterKeeps ==
  ASSUME NEW w \in World, NEW c \in Creature, NEW x \in Creature \cup {NoCreature}, Kin(w),
         x # c,
         x # NoCreature => c \in Monster /\ w[x].status = "game" /\ w[c].status # "free"
  PROVE  LET v == SetMaster(w, c, x)
         IN  /\ v \in World
             /\ \A d \in Creature :
                  /\ v[d].status = w[d].status /\ v[d].at = w[d].at
                  /\ v[d].attacked = w[d].attacked /\ v[d].follow = w[d].follow
                  /\ d # c => v[d].master = w[d].master
             /\ v[c].master = x
             /\ Kin(v)
             /\ Led(w) => Led(v)
             /\ \A E, m, z : Aimed(w, E, m, z) => Aimed(v, E, m, z)
<1> DEFINE v == SetMaster(w, c, x)
<1>0. x # NoCreature => c \in Monster
  OBVIOUS
<1>1. v \in World
  BY <1>0, SetMasterIs
<1>2. \A d \in Creature :
           /\ v[d].status = w[d].status /\ v[d].at = w[d].at
           /\ v[d].attacked = w[d].attacked /\ v[d].follow = w[d].follow
  BY <1>0, SetMasterIs
<1>3. v[c].master = x
  BY <1>0, SetMasterIs
<1>4. \A d \in Creature \ {c} : v[d].master = w[d].master
  BY <1>0, SetMasterIs
<1>5. \A a \in Creature : \A d \in Creature \ {c} : d \in v[a].summons <=> d \in w[a].summons
  BY <1>0, SetMasterIs
<1>6. \A a \in Creature : c \in v[a].summons <=>
         a = x \/ (c \in w[a].summons /\ a \notin {c, w[c].master})
  BY <1>0, SetMasterIs
<1> SUFFICES Kin(v) /\ (Led(w) => Led(v)) /\ (\A E, m, z : Aimed(w, E, m, z) => Aimed(v, E, m, z))
  BY <1>1, <1>2, <1>3, <1>4
<1> HIDE DEF v
<1>7. NoCreature \notin Creature /\ Monster \subseteq Creature
  BY CreaturesAssumption DEF CreaturesAssumption, Creature
<1>8. \A E, m, z : Aimed(w, E, m, z) => Aimed(v, E, m, z)
  BY <1>1, <1>2, AimedSame
<1>9. Kin(v)
  <2> SUFFICES ASSUME NEW a \in Creature
               PROVE  /\ v[a].master # a
                      /\ v[a].status = "free" =>
                           v[a].master = NoCreature /\ v[a].summons = {} /\ \A d \in Creature : v[d].master # a
                      /\ v[a].status = "game" =>
                           \A d \in Creature : d \in v[a].summons <=> v[d].master = a
    BY DEF Kin
  <2>1. v[a].master # a
    BY <1>3, <1>4 DEF Kin
  <2>2. ASSUME v[a].status = "free"
        PROVE  v[a].master = NoCreature /\ v[a].summons = {} /\ \A d \in Creature : v[d].master # a
    <3>1. w[a].status = "free" /\ a # x
      BY <1>2, <1>7, <2>2
    <3>2. w[a].master = NoCreature /\ w[a].summons = {} /\ \A d \in Creature : w[d].master # a
      BY <3>1 DEF Kin
    <3>3. v[a].master = NoCreature
      BY <1>2, <1>3, <1>4, <3>1, <3>2
    <3>4. \A d \in Creature : d \notin v[a].summons
      BY <1>5, <1>6, <3>1, <3>2
    <3>5. v[a].summons \subseteq Creature
      BY <1>1, <1>7 DEF World, Record
    <3>6. \A d \in Creature : v[d].master # a
      BY <1>3, <1>4, <3>1, <3>2
    <3> QED
      BY <3>3, <3>4, <3>5, <3>6
  <2>3. ASSUME v[a].status = "game", NEW d \in Creature
        PROVE  d \in v[a].summons <=> v[d].master = a
    <3>0. w[a].status = "game"
      BY <1>2, <2>3
    <3>1. d \in w[a].summons <=> w[d].master = a
      BY <3>0 DEF Kin
    <3>2. CASE d = c
      BY <1>3, <1>6, <3>1, <3>2
    <3>3. CASE d # c
      BY <1>4, <1>5, <3>1, <3>3
    <3> QED
      BY <3>2, <3>3
  <2> QED
    BY <2>1, <2>2, <2>3
<1>10. \A d \in Creature : w[d].master \in Creature \cup {NoCreature}
  BY DEF World, Record
<1>11. Led(w) => Led(v)
  BY <1>2, <1>3, <1>4, <1>10 DEF Led
<1> QED
  BY <1>8, <1>9, <1>11

-----------------------------------------------------------------------------
(* Removal.                                                                  *)

(* Whoever sees a creature is told of what it does.                          *)
LEMMA SeesIsTold ==
  ASSUME NEW w \in World, NEW s \in Creature, NEW d \in Creature,
         w[s].status = "game", Sees(w, s, w[d].at)
  PROVE  s \in Spectators(w, w[d].at)
<1>1. Position \subseteq Everywhere
  BY CreaturesAssumption DEF CreaturesAssumption, Everywhere
<1>2. w[s].at \in Everywhere /\ w[d].at \in Everywhere
  BY <1>1 DEF World, Record
<1>3. Spectates(w[s].at, w[d].at)
  BY <1>2, WhoSeesIsTold DEF Sees
<1> QED
  BY <1>3 DEF Spectators, InGame

(* A creature that leaves loses its master, if that is in the game.          *)
LEMMA RemoveSelfIs ==
  ASSUME NEW w \in World, NEW c \in Creature, Kin(w)
  PROVE  LET v == RemoveSelf(w, c)
         IN  /\ v \in World /\ Kin(v)
             /\ \A d \in Creature :
                  /\ v[d].status = w[d].status /\ v[d].at = w[d].at
                  /\ v[d].attacked = w[d].attacked /\ v[d].follow = w[d].follow
                  /\ v[d].master = w[d].master \/ (d = c /\ v[d].master = NoCreature)
<1> DEFINE u == IF w[c].master \in InGame(w) THEN SetMaster(w, c, NoCreature) ELSE w
           v == IF c \in Monster THEN [u EXCEPT ![c] = SetIdle(@, TRUE)] ELSE u
<1>1. /\ u \in World /\ Kin(u)
      /\ \A d \in Creature :
           /\ u[d].status = w[d].status /\ u[d].at = w[d].at
           /\ u[d].attacked = w[d].attacked /\ u[d].follow = w[d].follow
           /\ u[d].master = w[d].master \/ (d = c /\ u[d].master = NoCreature)
  <2>1. CASE w[c].master \in InGame(w)
    <3>1. NoCreature \notin Creature /\ NoCreature # c /\ NoCreature \in Creature \cup {NoCreature}
      BY CreaturesAssumption DEF CreaturesAssumption
    <3>2. u = SetMaster(w, c, NoCreature)
      BY <2>1
    <3> HIDE DEF u
    <3>3. /\ u \in World
          /\ \A d \in Creature :
               /\ u[d].status = w[d].status /\ u[d].at = w[d].at
               /\ u[d].attacked = w[d].attacked /\ u[d].follow = w[d].follow
               /\ d # c => u[d].master = w[d].master
          /\ u[c].master = NoCreature
          /\ Kin(u)
      BY <3>1, <3>2, SetMasterKeeps
    <3> QED
      BY <3>3
  <2>2. CASE w[c].master \notin InGame(w)
    BY <2>2
  <2> QED
    BY <2>1, <2>2
<1> HIDE DEF u
<1>2. Alike(u, v)
  <2>1. u[c] \in Record
    BY <1>1 DEF World
  <2>2. Same(u[c], SetIdle(u[c], TRUE))
    BY <2>1, SetIdleSame
  <2>3. Alike(u, u)
    BY <1>1 DEF Alike, Same, World
  <2>4. c \in Monster => v = [u EXCEPT ![c] = SetIdle(u[c], TRUE)]
    OBVIOUS
  <2> QED
    BY <1>1, <2>2, <2>3, <2>4, ExceptAlike
<1>3. RemoveSelf(w, c) = v
  BY DEF RemoveSelf, u
<1> HIDE DEF v
<1>4. Kin(v)
  BY <1>1, <1>2, AlikeKeeps, KeepsGood
<1> QED
  BY <1>1, <1>2, <1>3, <1>4 DEF Alike, Same

(* Creatures leave the game: they stay where they were, masters may be lost, *)
(* and no good pointer goes bad.                                             *)
Shrinks(w, v) ==
  /\ v \in World /\ Kin(v)
  /\ \A d \in Creature :
       /\ v[d].at = w[d].at
       /\ v[d].status = w[d].status \/ (w[d].status = "game" /\ v[d].status = "removed")
       /\ v[d].master \in {w[d].master, NoCreature}
  /\ \A E, m, z : Aimed(w, E, m, z) => Aimed(v, E, m, z)

(* Creatures may leave one after the other.                                 *)
LEMMA ShrinksTrans ==
  ASSUME NEW w, NEW u, NEW v, Shrinks(w, u), Shrinks(u, v)
  PROVE  Shrinks(w, v)
<1>1. \A d \in Creature : v[d].at = w[d].at /\ v[d].master \in {w[d].master, NoCreature}
  BY DEF Shrinks
<1>2. \A d \in Creature : v[d].status = w[d].status \/ (w[d].status = "game" /\ v[d].status = "removed")
  BY DEF Shrinks
<1> QED
  BY <1>1, <1>2 DEF Shrinks

(* Whoever is told that x has disappeared neither attacks nor follows it.    *)
LEMMA DisappearIs ==
  ASSUME NEW w \in World, NEW S \in SUBSET Creature, NEW x \in Creature
  PROVE  LET v == OnCreatureDisappear(w, S, x)
         IN  Keeps(w, v) /\ \A s \in S : x \notin Aims(v[s])
<1> DEFINE A == {s \in S : w[s].attacked = x}
           F == {s \in S : w[s].follow = x}
           v == Drop(w, A, F)
<1>1. OnCreatureDisappear(w, S, x) = v
  BY DEF OnCreatureDisappear
<1>2. A \in SUBSET Creature /\ F \in SUBSET Creature
  OBVIOUS
<1>3. \A s \in S : (s \notin A => w[s].attacked # x) /\ (s \notin F => w[s].follow # x)
  OBVIOUS
<1> HIDE DEF A, F
<1>4. Keeps(w, v)
  BY <1>2, DropKeeps
<1>5. /\ \A s \in Creature : /\ v[s].attacked \in {w[s].attacked, NoCreature}
                             /\ v[s].follow \in {w[s].follow, NoCreature}
      /\ \A s \in A : v[s].attacked = NoCreature
      /\ \A s \in F : v[s].follow = NoCreature
  BY <1>2, DropIs
<1> HIDE DEF v
<1>6. ASSUME NEW s \in S PROVE x \notin Aims(v[s])
  BY <1>3, <1>5 DEF Aims
<1> QED
  BY <1>1, <1>4, <1>6

(* Nothing changes but the record of c.                                      *)
LEMMA RetireIs ==
  ASSUME NEW w \in World, NEW c \in Creature
  PROVE  LET v == Retire(w, c)
         IN  /\ v \in World
             /\ \A d \in Creature \ {c} : v[d] = w[d]
             /\ v[c].status = "removed" /\ v[c].at = w[c].at
             /\ v[c].master = w[c].master /\ v[c].summons = w[c].summons
<1> DEFINE r == w[c]
           q == [r EXCEPT !.status = "removed", !.released = TRUE, !.check = FALSE,
                          !.attacked = NoCreature, !.follow = NoCreature, !.unseen = {}]
<1>1. Retire(w, c) = [w EXCEPT ![c] = q]
  BY DEF Retire
<1>2. r \in Record
  BY DEF World
<1>3. /\ q \in Record /\ q.status = "removed" /\ q.at = r.at
      /\ q.master = r.master /\ q.summons = r.summons
  <2> HIDE DEF r
  <2> QED
    BY <1>2 DEF Record
<1> HIDE DEF q
<1> QED
  BY <1>1, <1>3 DEF World

(* Game::removeCreature: those who are told drop it, and those who are not   *)
(* do not see it, so that they neither attack nor follow it.                 *)
LEMMA RemoveAloneShrinks ==
  ASSUME NEW w \in World, NEW c \in InGame(w), NEW first, Kin(w)
  PROVE  LET v == RemoveAlone(w, c, first)
         IN  Shrinks(w, v) /\ v[c].status = "removed"
<1> DEFINE told == Spectators(w, w[c].at)
           u == OnCreatureDisappear(w, told, c)
           t == IF first THEN TellRemoval(RemoveSelf(u, c), told, c)
                ELSE RemoveSelf(TellRemoval(u, told, c), c)
           v == Retire(t, c)
<1>1. RemoveAlone(w, c, first) = v
  BY DEF RemoveAlone
<1>2. c \in Creature /\ w[c].status = "game" /\ told \in SUBSET Creature
  BY DEF InGame, Spectators
<1>3. \A s \in Creature : w[s].status = "game" /\ s \notin told => ~Sees(w, s, w[c].at)
  BY <1>2, SeesIsTold
<1> HIDE DEF told
<1>4. Keeps(w, u) /\ \A s \in told : c \notin Aims(u[s])
  BY <1>2, DisappearIs
<1>5. u \in World /\ Kin(u)
  BY <1>4, KeepsGood DEF Keeps
<1> HIDE DEF u
<1>6. /\ t \in World /\ Kin(t)
      /\ \A d \in Creature :
           /\ t[d].status = u[d].status /\ t[d].at = u[d].at
           /\ t[d].attacked = u[d].attacked /\ t[d].follow = u[d].follow
           /\ t[d].master = u[d].master \/ (d = c /\ t[d].master = NoCreature)
  <2>1. CASE first
    <3> DEFINE p == RemoveSelf(u, c)
    <3>1. /\ p \in World /\ Kin(p)
          /\ \A d \in Creature :
               /\ p[d].status = u[d].status /\ p[d].at = u[d].at
               /\ p[d].attacked = u[d].attacked /\ p[d].follow = u[d].follow
               /\ p[d].master = u[d].master \/ (d = c /\ p[d].master = NoCreature)
      BY <1>2, <1>5, RemoveSelfIs
    <3>2. t = TellRemoval(p, told, c)
      BY <2>1
    <3> HIDE DEF p, t
    <3>3. Alike(p, t)
      BY <3>1, <3>2, TellRemovalAlike
    <3>4. Kin(t)
      BY <3>1, <3>3, AlikeKeeps, KeepsGood
    <3> QED
      BY <3>1, <3>3, <3>4 DEF Alike, Same
  <2>2. CASE ~first
    <3> DEFINE p == TellRemoval(u, told, c)
    <3>1. Alike(u, p)
      BY <1>5, TellRemovalAlike
    <3>2. t = RemoveSelf(p, c)
      BY <2>2
    <3> HIDE DEF p, t
    <3>3. p \in World /\ Kin(p)
      BY <1>5, <3>1, AlikeKeeps, KeepsGood DEF Alike
    <3>4. /\ t \in World /\ Kin(t)
          /\ \A d \in Creature :
               /\ t[d].status = p[d].status /\ t[d].at = p[d].at
               /\ t[d].attacked = p[d].attacked /\ t[d].follow = p[d].follow
               /\ t[d].master = p[d].master \/ (d = c /\ t[d].master = NoCreature)
      BY <1>2, <3>2, <3>3, RemoveSelfIs
    <3> QED
      BY <3>1, <3>4 DEF Alike, Same
  <2> QED
    BY <2>1, <2>2
<1> HIDE DEF t
<1>7. /\ v \in World
      /\ \A d \in Creature \ {c} : v[d] = t[d]
      /\ v[c].status = "removed" /\ v[c].at = t[c].at
      /\ v[c].master = t[c].master /\ v[c].summons = t[c].summons
  BY <1>2, <1>6, RetireIs
<1> HIDE DEF v
<1>8. \A d \in Creature : /\ u[d].status = w[d].status /\ u[d].at = w[d].at
                          /\ u[d].master = w[d].master
  BY <1>4 DEF Keeps
<1>9. \A d \in Creature :
        /\ v[d].at = w[d].at
        /\ v[d].status = w[d].status \/ (w[d].status = "game" /\ v[d].status = "removed")
        /\ v[d].master \in {w[d].master, NoCreature}
  BY <1>2, <1>6, <1>7, <1>8
<1>10. \A d \in Creature : v[d].master = t[d].master /\ v[d].summons = t[d].summons
  BY <1>7
<1>11. Kin(v)
  <2>1. \A d \in Creature : v[d].status = t[d].status \/ v[d].status = "removed"
    BY <1>7
  <2> QED
    BY <1>6, <1>10, <2>1 DEF Kin
<1>12. ASSUME NEW E, NEW m, NEW z, Aimed(w, E, m, z)
       PROVE  Aimed(v, E, m, z)
  <2> SUFFICES ASSUME NEW s \in Creature, v[s].status = "game", NEW x \in Aims(v[s]), ~Fixed(v, s, x)
               PROVE  <<s, x>> \in E /\ Adrift(v, s, x, m, z)
    BY DEF Aimed
  <2>1. s # c /\ w[s].status = "game" /\ u[s].status = "game"
    BY <1>7, <1>8, <1>9
  <2>2. x \in Aims(u[s])
    BY <1>6, <1>7, <2>1 DEF Aims
  <2>3. x \in Creature
    BY <1>5, <2>2 DEF World, Record, Aims
  <2>4. Aimed(u, E, m, z)
    BY <1>4, <1>12 DEF Keeps
  <2>5. Fixed(u, s, x) \/ (<<s, x>> \in E /\ Adrift(u, s, x, m, z))
    BY <2>1, <2>2, <2>4 DEF Aimed
  <2>6. \A y \in Creature : v[y].at = u[y].at
    BY <1>8, <1>9
  <2>7. Sees(v, s, v[x].at) <=> Sees(u, s, u[x].at)
    BY <2>3, <2>6 DEF Sees
  <2>8. CASE x = c
    <3>1. s \notin told
      BY <1>4, <2>2, <2>8
    <3>2. ~Sees(w, s, w[c].at)
      BY <1>3, <2>1, <3>1
    <3>3. ~Sees(u, s, u[c].at)
      BY <1>2, <1>8, <3>2 DEF Sees
    <3> QED
      BY <2>3, <2>5, <2>6, <2>7, <2>8, <3>3 DEF Fixed, Adrift
  <2>9. CASE x # c
    <3>1. v[x].status = u[x].status
      BY <1>6, <1>7, <2>3, <2>9
    <3> QED
      BY <2>3, <2>5, <2>6, <2>7, <3>1 DEF Fixed, Adrift
  <2> QED
    BY <2>8, <2>9
<1> QED
  BY <1>1, <1>2, <1>7, <1>9, <1>11, <1>12 DEF Shrinks

-----------------------------------------------------------------------------
(* What monsters know.                                                       *)

Wild(m, r) == m \in Monster /\ r.status = "game" /\ r.master = NoCreature /\ ~r.dead

(* The dead, the players and who lists a target are checked.                 *)
Sound(m, r) ==
  r.status = "game" /\ (r.dead \/ m \in Character \/ r.targets # {}) => r.check

(* m could attack p, but does not list it, and was not sent home.            *)
Misses(m, r, p) == Wild(m, r) /\ p \notin r.targets \cup r.unseen

(* Nobody misses whom it sees, except for the pairs in E.                    *)
Alert(w, E) ==
  \A m \in Creature :
    /\ Sound(m, w[m])
    /\ \A p \in Character :
         Misses(m, w[m], p) /\ w[p].status = "game" /\ Sees(w, m, w[p].at) => <<m, p>> \in E

(* The record r of m becomes q, and m forgets at most those it has with it   *)
(* in F.                                                                     *)
Minds(m, r, q, F) ==
  /\ q.at = r.at
  /\ q.status = "game" => r.status = "game"
  /\ Sound(m, r) => Sound(m, q)
  /\ \A p \in Character : Misses(m, q, p) => Misses(m, r, p) \/ <<m, p>> \in F

Wary(w, v, F) == \A m \in Creature : Minds(m, w[m], v[m], F)

(* What two functions forget, one after the other.                          *)
LEMMA WaryTrans ==
  ASSUME NEW w, NEW u, NEW v, NEW F, NEW G, Wary(w, u, F), Wary(u, v, G)
  PROVE  Wary(w, v, F \cup G)
<1> SUFFICES ASSUME NEW m \in Creature
             PROVE  Minds(m, w[m], v[m], F \cup G)
  BY DEF Wary
<1>1. Minds(m, w[m], u[m], F) /\ Minds(m, u[m], v[m], G)
  BY DEF Wary
<1> QED
  BY <1>1 DEF Minds

(* After a function that forgets F, those in F may be missed.               *)
LEMMA WaryAlert ==
  ASSUME NEW w, NEW v, NEW E, NEW F, Alert(w, E), Wary(w, v, F)
  PROVE  Alert(v, E \cup F)
<1>1. \A m \in Creature : /\ v[m].at = w[m].at
                          /\ v[m].status = "game" => w[m].status = "game"
                          /\ Sound(m, v[m])
  BY DEF Wary, Minds, Alert
<1>2. ASSUME NEW m \in Creature, NEW p \in Character,
             Misses(m, v[m], p), v[p].status = "game", Sees(v, m, v[p].at)
      PROVE  <<m, p>> \in E \cup F
  <2>1. p \in Creature
    BY DEF Creature
  <2>2. w[p].status = "game" /\ Sees(w, m, w[p].at)
    BY <1>1, <1>2, <2>1 DEF Sees
  <2>3. Misses(m, w[m], p) \/ <<m, p>> \in F
    BY <1>2 DEF Wary, Minds
  <2> QED
    BY <2>2, <2>3 DEF Alert
<1> QED
  BY <1>1, <1>2 DEF Alert

(* More exceptions are weaker.                                              *)
LEMMA AlertMore ==
  ASSUME NEW w, NEW E, NEW F, Alert(w, E), E \subseteq F
  PROVE  Alert(w, F)
BY DEF Alert

(* Some records changed.                                                     *)
LEMMA ChangedWary ==
  ASSUME NEW w \in World, NEW f, NEW F, DOMAIN f \subseteq Creature,
         \A c \in DOMAIN f : Minds(c, w[c], f[c], F)
  PROVE  Wary(w, Changed(w, f), F)
<1> SUFFICES ASSUME NEW m \in Creature
             PROVE  Minds(m, w[m], Changed(w, f)[m], F)
  BY DEF Wary
<1>1. Changed(w, f)[m] = IF m \in DOMAIN f THEN f[m] ELSE w[m]
  BY DEF Changed
<1> QED
  BY <1>1 DEF Minds

(* A change of one record, as a change of the world.                        *)
LEMMA ExceptWary ==
  ASSUME NEW w \in World, NEW c \in Creature, NEW q, NEW F, Minds(c, w[c], q, F)
  PROVE  Wary(w, [w EXCEPT ![c] = q], F)
<1> SUFFICES ASSUME NEW m \in Creature
             PROVE  Minds(m, w[m], [w EXCEPT ![c] = q][m], F)
  BY DEF Wary
<1>1. [w EXCEPT ![c] = q][m] = IF m = c THEN q ELSE w[m]
  BY DEF World
<1> QED
  BY <1>1 DEF Minds

(* Whom one attacks or follows is nothing it lists.                          *)
LEMMA RedirectedWary ==
  ASSUME NEW w \in World, NEW v, NEW x, Redirected(w, v, x)
  PROVE  Wary(w, v, {})
<1> SUFFICES ASSUME NEW m \in Creature
             PROVE  Minds(m, w[m], v[m], {})
  BY DEF Wary
<1> DEFINE r == w[m]
           q == v[m]
<1>1. r \in Record /\ q = [r EXCEPT !.attacked = q.attacked, !.follow = q.follow]
  BY DEF World, Redirected
<1> HIDE DEF r, q
<1>2. /\ q.status = r.status /\ q.at = r.at /\ q.master = r.master /\ q.dead = r.dead
      /\ q.targets = r.targets /\ q.unseen = r.unseen /\ q.check = r.check
  BY <1>1 DEF Record
<1>3. Minds(m, r, q, {})
  BY <1>2 DEF Minds, Sound, Misses, Wild
<1> QED
  BY <1>3 DEF r, q

(* Monster::setIdle: only a monster without targets, or one that is told to  *)
(* forget them, stops being checked.                                         *)
LEMMA SetIdleMinds ==
  ASSUME NEW m \in Monster, NEW r \in Record
  PROVE  /\ Minds(m, r, SetIdle(r, FALSE), {})
         /\ Minds(m, r, SetIdle(r, TRUE), {m} \X Character)
         /\ Sound(m, r) => Sound(m, SetIdle(r, TRUE))
         /\ (r.dead /\ r.status = "game" => r.check) => Sound(m, UpdateIdleStatus(r))
         /\ \A p \in Character : Misses(m, UpdateIdleStatus(r), p) => Misses(m, r, p)
<1>0. m \notin Character
  BY CreaturesAssumption DEF CreaturesAssumption
<1>1. CASE r.status # "game" \/ r.dead
  <2>1. SetIdle(r, FALSE) = r /\ SetIdle(r, TRUE) = r /\ UpdateIdleStatus(r) = r
    BY <1>1 DEF SetIdle, UpdateIdleStatus
  <2> QED
    BY <1>0, <1>1, <2>1 DEF Minds, Sound, Misses, Wild
<1>2. CASE r.status = "game" /\ ~r.dead
  <2> DEFINE a == [r EXCEPT !.check = TRUE, !.listed = TRUE]
             b == [r EXCEPT !.targets = {}, !.friends = {}, !.check = FALSE]
  <2>1. SetIdle(r, FALSE) = a /\ SetIdle(r, TRUE) = b
    BY <1>2 DEF SetIdle
  <2>2. UpdateIdleStatus(r) = IF r.master = NoCreature /\ r.targets = {} THEN b ELSE a
    BY <1>2 DEF SetIdle, UpdateIdleStatus
  <2>3. /\ a.status = r.status /\ a.at = r.at /\ a.master = r.master /\ a.dead = r.dead
        /\ a.targets = r.targets /\ a.unseen = r.unseen /\ a.check = TRUE
    BY DEF Record
  <2>4. /\ b.status = r.status /\ b.at = r.at /\ b.master = r.master /\ b.dead = r.dead
        /\ b.targets = {} /\ b.unseen = r.unseen /\ b.check = FALSE
    BY DEF Record
  <2> HIDE DEF a, b
  <2>5. Sound(m, a) /\ Sound(m, b)
    BY <1>0, <1>2, <2>3, <2>4 DEF Sound
  <2>6. \A p \in Character : Misses(m, a, p) => Misses(m, r, p)
    BY <2>3 DEF Misses, Wild
  <2>7. \A p \in Character : r.targets = {} /\ Misses(m, b, p) => Misses(m, r, p)
    BY <2>4 DEF Misses, Wild
  <2>8. Minds(m, r, a, {}) /\ Minds(m, r, b, {m} \X Character)
    BY <2>3, <2>4, <2>5, <2>6 DEF Minds
  <2> QED
    BY <2>1, <2>2, <2>5, <2>6, <2>7, <2>8
<1> QED
  BY <1>1, <1>2

(* Monster::onCreatureFound: who is found is listed, if it is a player.      *)
LEMMA FoundMinds ==
  ASSUME NEW w, NEW m \in Monster, NEW r \in Record, NEW C \in SUBSET Creature, NEW first,
         r.master = w[m].master
  PROVE  LET q == OnCreatureFound(w, m, r, C, first)
         IN  /\ (r.dead /\ r.status = "game" => r.check) => Sound(m, q)
             /\ \A p \in Character : Misses(m, q, p) => Misses(m, r, p) /\ p \notin C
<1> DEFINE F == {c \in C : IsFriend(w, m, c)}
           T == {c \in C : IsOpponent(w, m, c)}
           sleepy == r.master = NoCreature /\ r.targets = {} /\ ~r.dead
           fs == IF sleepy /\ first /\ F # {} THEN {} ELSE r.friends \cup F
           q == [r EXCEPT !.targets = @ \cup T, !.friends = fs,
                          !.unseen = IF r.dead THEN @ ELSE @ \ C]
<1>1. OnCreatureFound(w, m, r, C, first) = UpdateIdleStatus(q)
  BY DEF OnCreatureFound
<1>2. NoCreature \notin Character
  BY CreaturesAssumption DEF CreaturesAssumption, Creature
<1>3. fs \subseteq Creature /\ T \subseteq Creature
  BY DEF Record
<1>4. r.master = NoCreature => \A p \in C \cap Character : p \in T
  BY <1>2 DEF IsOpponent
<1> HIDE DEF fs, T
<1>5. /\ q \in Record
      /\ q.status = r.status /\ q.master = r.master /\ q.dead = r.dead /\ q.check = r.check
      /\ q.targets = r.targets \cup T
      /\ q.unseen = IF r.dead THEN r.unseen ELSE r.unseen \ C
  BY <1>3 DEF Record
<1> HIDE DEF q
<1>6. (r.dead /\ r.status = "game" => r.check) => Sound(m, UpdateIdleStatus(q))
  BY <1>5, SetIdleMinds
<1>7. ASSUME NEW p \in Character, Misses(m, UpdateIdleStatus(q), p)
      PROVE  Misses(m, r, p) /\ p \notin C
  <2>1. Misses(m, q, p)
    BY <1>5, <1>7, SetIdleMinds
  <2>2. Wild(m, r) /\ p \notin q.targets /\ p \notin q.unseen
    BY <1>5, <2>1 DEF Misses, Wild
  <2>3. p \notin C
    BY <1>4, <1>5, <2>2 DEF Wild
  <2>4. p \notin r.targets \cup r.unseen
    BY <1>5, <2>2, <2>3
  <2> QED
    BY <2>2, <2>3, <2>4 DEF Misses
<1> QED
  BY <1>1, <1>6, <1>7

(* Monster::onCreatureLeave forgets who leaves and nobody else.              *)
LEMMA LeaveMinds ==
  ASSUME NEW w, NEW m \in Monster, NEW r \in Record, NEW c
  PROVE  Minds(m, r, OnCreatureLeave(w, m, r, c), {<<m, c>>})
<1> DEFINE q == [r EXCEPT !.friends = IF IsFriend(w, m, c) THEN @ \ {c} ELSE @,
                          !.targets = IF IsOpponent(w, m, c) THEN @ \ {c} ELSE @,
                          !.unseen = IF r.dead THEN @ ELSE @ \ {c}]
<1>1. OnCreatureLeave(w, m, r, c) \in {q, UpdateIdleStatus(q)}
  BY DEF OnCreatureLeave
<1>2. /\ q \in Record /\ q.status = r.status /\ q.at = r.at /\ q.master = r.master
      /\ q.dead = r.dead /\ q.check = r.check
      /\ q.targets \subseteq r.targets /\ r.targets \subseteq q.targets \cup {c}
      /\ q.unseen \subseteq r.unseen /\ r.unseen \subseteq q.unseen \cup {c}
  BY DEF Record
<1> HIDE DEF q
<1>3. Sound(m, r) => Sound(m, q) /\ (q.dead /\ q.status = "game" => q.check)
  BY <1>2 DEF Sound
<1>4. ASSUME NEW p \in Character, Misses(m, q, p)
      PROVE  Misses(m, r, p) \/ <<m, p>> \in {<<m, c>>}
  BY <1>2, <1>4 DEF Misses, Wild
<1>5. Sound(m, r) => Sound(m, UpdateIdleStatus(q))
  BY <1>2, <1>3, SetIdleMinds
<1>6. \A p \in Character : Misses(m, UpdateIdleStatus(q), p) => Misses(m, q, p)
  BY <1>2, SetIdleMinds
<1>7. Same(q, UpdateIdleStatus(q))
  BY <1>2, SetIdleSame DEF UpdateIdleStatus
<1> QED
  BY <1>1, <1>2, <1>3, <1>4, <1>5, <1>6, <1>7 DEF Minds, Same

(* Whom a monster sees is among those it looks for.                          *)
LEMMA SeesSpectators ==
  ASSUME NEW w \in World, NEW m \in Monster, NEW p \in Creature,
         w[p].status = "game", Sees(w, m, w[p].at)
  PROVE  p \in Spectators(w, w[m].at)
<1>1. m \in Creature /\ Position \subseteq Everywhere
  BY CreaturesAssumption DEF CreaturesAssumption, Everywhere, Creature
<1> DEFINE a == w[m].at
           b == w[p].at
<1>2. a \in Everywhere /\ b \in Everywhere
  BY <1>1 DEF World, Record
<1>3. CanSee(a, b, -10 .. 10)
  BY DEF Sees, MonsterView
<1> HIDE DEF a, b
<1>4. a.z \in 0 .. 15 /\ b.z \in 0 .. 15 /\ a.x \in Int /\ b.x \in Int
  BY <1>2 DEF Everywhere
<1>5. /\ IF a.z <= 7 THEN b.z <= 7 ELSE b.z - a.z \in -2 .. 2
      /\ b.x - a.x - (a.z - b.z) \in -10 .. 10
  BY <1>3 DEF CanSee, Within
<1>6. b.z \in SpectatorFloors(a.z)
  <2>1. CASE a.z > 7
    BY <1>4, <1>5, <2>1 DEF SpectatorFloors, Within
  <2>2. CASE a.z <= 7
    <3>1. b.z \in 0 .. 7
      BY <1>4, <1>5, <2>2
    <3>2. ~(a.z > 7) /\ (a.z < 6 \/ a.z + 2 >= 7)
      BY <1>4, <2>2
    <3> QED
      BY <1>4, <3>1, <3>2 DEF SpectatorFloors
  <2> QED
    BY <1>4, <2>1, <2>2
<1>7. b.x - a.x - (a.z - b.z) \in -11 .. 11
  BY <1>4, <1>5
<1>8. Spectates(b, a)
  BY <1>6, <1>7 DEF Spectates, Within, MaxViewport
<1> QED
  BY <1>8 DEF Spectators, InGame, a, b

(* Monster::updateTargetList: it lists all players in its sight.             *)
LEMMA LookMinds ==
  ASSUME NEW w \in World, NEW m \in Monster, NEW first
  PROVE  LET q == LookAround(w, m, first)
         IN  /\ Sound(m, w[m]) => Sound(m, q)
             /\ \A p \in Character : Misses(m, q, p) =>
                  Wild(m, w[m]) /\ ~(w[p].status = "game" /\ Sees(w, m, w[p].at))
<1> DEFINE near == {c \in Creature : ~w[c].dead /\ Sees(w, m, w[c].at)}
           seen == {s \in Spectators(w, w[m].at) \ {m} : Sees(w, m, w[s].at)}
           o == w[m]
           r == [o EXCEPT !.targets = @ \cap near, !.friends = @ \cap near,
                          !.unseen = IF o.dead THEN @ ELSE {}]
           q == OnCreatureFound(w, m, r, seen, first)
<1>1. LookAround(w, m, first) = q
  BY DEF LookAround
<1>2. m \in Creature /\ o \in Record /\ seen \in SUBSET Creature /\ m \notin Character
  BY CreaturesAssumption DEF CreaturesAssumption, World, Spectators, InGame, Creature
<1>3. ASSUME NEW p \in Character, w[p].status = "game", Sees(w, m, w[p].at)
      PROVE  p \in seen
  <2>1. p \in Creature /\ p # m
    BY <1>2 DEF Creature
  <2> QED
    BY <1>3, <2>1, SeesSpectators
<1> HIDE DEF near, seen
<1>4. r \in Record /\ r.status = o.status /\ r.master = o.master /\ r.dead = o.dead /\ r.check = o.check
  <2> HIDE DEF o
  <2> QED
    BY <1>2 DEF Record
<1> HIDE DEF r
<1>5. /\ (r.dead /\ r.status = "game" => r.check) => Sound(m, q)
      /\ \A p \in Character : Misses(m, q, p) => Misses(m, r, p) /\ p \notin seen
  BY <1>2, <1>4, FoundMinds
<1>6. Sound(m, o) => (r.dead /\ r.status = "game" => r.check)
  BY <1>4 DEF Sound
<1>7. ASSUME NEW p \in Character, Misses(m, q, p)
      PROVE  Wild(m, o) /\ p \notin seen
  BY <1>4, <1>5, <1>7 DEF Misses, Wild
<1> QED
  BY <1>1, <1>3, <1>5, <1>6, <1>7

(* Monster::changeHealth: the dead are checked, asleep or not.               *)
LEMMA ChangeHealthMinds ==
  ASSUME NEW m \in Creature, NEW r \in Record, NEW fatal \in BOOLEAN, fatal \/ ~r.dead
  PROVE  Minds(m, r, ChangeHealth(r, m, fatal), {})
<1> DEFINE h == IF m \in Monster THEN SetIdle(r, FALSE) ELSE r
           q == [h EXCEPT !.dead = fatal]
<1>1. ChangeHealth(r, m, fatal) = q
  BY DEF ChangeHealth
<1>2. /\ h \in Record /\ h.status = r.status /\ h.at = r.at /\ h.master = r.master
      /\ h.targets = r.targets /\ h.unseen = r.unseen
      /\ h.check = (r.check \/ (m \in Monster /\ r.status = "game" /\ ~r.dead))
  <2>1. CASE m \in Monster /\ r.status = "game" /\ ~r.dead
    <3>1. h = [r EXCEPT !.check = TRUE, !.listed = TRUE]
      BY <2>1 DEF SetIdle
    <3> HIDE DEF h
    <3> QED
      BY <2>1, <3>1 DEF Record
  <2>2. CASE ~(m \in Monster /\ r.status = "game" /\ ~r.dead)
    <3>1. h = r
      BY <2>2 DEF SetIdle
    <3> HIDE DEF h
    <3> QED
      BY <2>2, <3>1 DEF Record
  <2> QED
    BY <2>1, <2>2
<1> HIDE DEF h
<1>3. /\ q.status = r.status /\ q.at = r.at /\ q.master = r.master /\ q.dead = fatal
      /\ q.targets = r.targets /\ q.unseen = r.unseen /\ q.check = h.check
  BY <1>2 DEF Record
<1> HIDE DEF q
<1>4. m \in Character \/ m \in Monster
  BY DEF Creature
<1>5. Sound(m, r) => Sound(m, q)
  BY <1>2, <1>3, <1>4 DEF Sound
<1>6. \A p \in Character : Misses(m, q, p) => Misses(m, r, p)
  BY <1>3 DEF Misses, Wild
<1> QED
  BY <1>1, <1>3, <1>5, <1>6 DEF Minds

(* Creature::setMaster: only one that loses its master may miss somebody.    *)
LEMMA SetMasterWary ==
  ASSUME NEW w \in World, NEW c \in Creature, NEW x \in Creature \cup {NoCreature}
  PROVE  /\ Wary(w, SetMaster(w, c, x), {c} \X Character)
         /\ x # NoCreature \/ w[c].dead => Wary(w, SetMaster(w, c, x), {})
<1> DEFINE S == {c, w[c].master, x} \ {NoCreature}
           f == [d \in S |-> [w[d] EXCEPT !.summons = IF d = x THEN @ \cup {c} ELSE @ \ {c},
                                          !.master = IF d = c THEN x ELSE @]]
<1>1. \A d \in Creature : w[d] \in Record
  BY DEF World
<1>2. S \subseteq Creature /\ DOMAIN f = S
  BY <1>1 DEF Record
<1>3. SetMaster(w, c, x) = Changed(w, f)
  BY DEF SetMaster
<1>4. ASSUME NEW d \in S
      PROVE  /\ Minds(d, w[d], f[d], {c} \X Character)
             /\ x # NoCreature \/ w[c].dead => Minds(d, w[d], f[d], {})
  <2> DEFINE r == w[d]
             q == f[d]
             N == IF d = x THEN r.summons \cup {c} ELSE r.summons \ {c}
             a == IF d = c THEN x ELSE r.master
  <2>1. r \in Record /\ q = [r EXCEPT !.summons = N, !.master = a]
    BY <1>1, <1>2
  <2>2. d = c => r.dead = w[c].dead
    OBVIOUS
  <2> HIDE DEF q, r, N
  <2>3. /\ q.status = r.status /\ q.at = r.at /\ q.master = a /\ q.dead = r.dead
        /\ q.targets = r.targets /\ q.unseen = r.unseen /\ q.check = r.check
    BY <2>1 DEF Record
  <2>4. Sound(d, r) => Sound(d, q)
    BY <2>3 DEF Sound
  <2>5. ASSUME NEW p \in Character, Misses(d, q, p)
        PROVE  /\ Misses(d, r, p) \/ d = c
               /\ x # NoCreature \/ w[c].dead => Misses(d, r, p)
    BY <2>2, <2>3, <2>5 DEF Misses, Wild
  <2>6. Minds(d, r, q, {c} \X Character)
    BY <2>3, <2>4, <2>5 DEF Minds
  <2>7. x # NoCreature \/ w[c].dead => Minds(d, r, q, {})
    BY <2>3, <2>4, <2>5 DEF Minds
  <2> QED
    BY <2>6, <2>7 DEF q, r
<1> HIDE DEF f, S
<1>5. Wary(w, Changed(w, f), {c} \X Character)
  BY <1>2, <1>4, ChangedWary
<1>6. x # NoCreature \/ w[c].dead => Wary(w, Changed(w, f), {})
  BY <1>2, <1>4, ChangedWary
<1> QED
  BY <1>3, <1>5, <1>6

(* The one that leaves forgets whom it listed, and the others forget it.     *)
LEMMA RemoveSelfWary ==
  ASSUME NEW w \in World, NEW c \in Creature, Kin(w)
  PROVE  Wary(w, RemoveSelf(w, c), {c} \X Character)
<1> DEFINE u == IF w[c].master \in InGame(w) THEN SetMaster(w, c, NoCreature) ELSE w
           v == IF c \in Monster THEN [u EXCEPT ![c] = SetIdle(@, TRUE)] ELSE u
<1>1. Wary(w, w, {c} \X Character)
  BY DEF Wary, Minds
<1>2. u \in World /\ Wary(w, u, {c} \X Character)
  <2>1. NoCreature # c /\ NoCreature \in Creature \cup {NoCreature}
    BY CreaturesAssumption DEF CreaturesAssumption
  <2>2. SetMaster(w, c, NoCreature) \in World
    BY <2>1, SetMasterKeeps
  <2> QED
    BY <1>1, <2>1, <2>2, SetMasterWary
<1> HIDE DEF u
<1>3. Wary(u, v, {c} \X Character)
  <2>1. u[c] \in Record
    BY <1>2 DEF World
  <2>2. c \in Monster => Minds(c, u[c], SetIdle(u[c], TRUE), {c} \X Character)
    BY <2>1, SetIdleMinds
  <2>3. c \in Monster => Wary(u, [u EXCEPT ![c] = SetIdle(u[c], TRUE)], {c} \X Character)
    BY <1>2, <2>2, ExceptWary
  <2>4. Wary(u, u, {c} \X Character)
    BY DEF Wary, Minds
  <2> QED
    BY <2>3, <2>4
<1>4. RemoveSelf(w, c) = v
  BY DEF RemoveSelf, u
<1> HIDE DEF v
<1>5. Wary(w, v, ({c} \X Character) \cup ({c} \X Character))
  BY <1>2, <1>3, WaryTrans
<1>6. ({c} \X Character) \cup ({c} \X Character) = {c} \X Character
  OBVIOUS
<1> QED
  BY <1>4, <1>5, <1>6

(* Who is told of a removal forgets only the one that goes.                 *)
LEMMA TellRemovalWary ==
  ASSUME NEW w \in World, NEW S, NEW c \in Creature
  PROVE  Wary(w, TellRemoval(w, S, c), Creature \X {c})
<1> DEFINE f == [m \in (S \cap Monster) \ {c} |-> OnCreatureLeave(w, m, w[m], c)]
<1>1. DOMAIN f \subseteq Monster /\ Monster \subseteq Creature
  BY DEF Creature
<1>2. ASSUME NEW m \in DOMAIN f
      PROVE  Minds(m, w[m], f[m], Creature \X {c})
  <2>1. w[m] \in Record /\ m \in Monster /\ m \in Creature
    BY <1>1 DEF World
  <2>2. Minds(m, w[m], f[m], {<<m, c>>})
    BY <2>1, LeaveMinds
  <2> HIDE DEF f
  <2> QED
    BY <2>1, <2>2 DEF Minds
<1>3. TellRemoval(w, S, c) = Changed(w, f)
  BY DEF TellRemoval
<1> HIDE DEF f
<1> QED
  BY <1>1, <1>2, <1>3, ChangedWary

(* Creature::onCreatureDisappear is about pointers.                          *)
LEMMA DropWary ==
  ASSUME NEW w \in World, NEW A \in SUBSET Creature, NEW F \in SUBSET Creature
  PROVE  Wary(w, Drop(w, A, F), {})
BY DropIs, RedirectedWary

(* selectTarget forgets nobody.                                             *)
LEMMA SelectTargetWary ==
  ASSUME NEW w \in World, NEW S \in SUBSET Creature, NEW x \in Creature
  PROVE  Wary(w, SelectTarget(w, S, x), {})
<1> DEFINE T == {m \in S : w[x].status = "game" /\ w[x].at.z = w[m].at.z /\ x \in w[m].targets}
           u == SetAttackedCreature(w, T, x)
           v == SetFollowCreature(u, T, x)
<1>1. SelectTarget(w, S, x) = v
  BY DEF SelectTarget
<1>2. T \in SUBSET Creature
  OBVIOUS
<1> HIDE DEF T
<1>3. Redirected(w, u, x)
  BY <1>2, SetAttackedIs
<1>4. u \in World
  BY <1>3 DEF Redirected
<1> HIDE DEF u
<1>5. Redirected(u, v, x)
  BY <1>2, <1>4, SetFollowIs
<1> HIDE DEF v
<1>6. Wary(w, v, {} \cup {})
  BY <1>3, <1>4, <1>5, RedirectedWary, WaryTrans
<1> QED
  BY <1>1, <1>6

(* Game::removeCreature: whoever forgets it or is forgotten by it, it is not *)
(* there any more.                                                           *)
LEMMA RemoveAloneAlert ==
  ASSUME NEW w \in World, NEW c \in InGame(w), NEW first, Kin(w), NEW E, Alert(w, E)
  PROVE  Alert(RemoveAlone(w, c, first), E)
<1> DEFINE told == Spectators(w, w[c].at)
           u == OnCreatureDisappear(w, told, c)
           s == RemoveSelf(u, c)
           o == TellRemoval(u, told, c)
           t == IF first THEN TellRemoval(s, told, c) ELSE RemoveSelf(o, c)
           v == Retire(t, c)
           F == ({c} \X Character) \cup (Creature \X {c})
<1>1. RemoveAlone(w, c, first) = v
  BY DEF RemoveAlone
<1>2. c \in Creature /\ told \in SUBSET Creature
  BY DEF InGame, Spectators
<1> HIDE DEF told
<1>3. Wary(w, u, {}) /\ u \in World /\ Kin(u)
  <2> DEFINE A == {d \in told : w[d].attacked = c}
             B == {d \in told : w[d].follow = c}
  <2>1. u = Drop(w, A, B)
    BY DEF OnCreatureDisappear
  <2>2. A \in SUBSET Creature /\ B \in SUBSET Creature
    BY <1>2
  <2> HIDE DEF A, B, u
  <2>3. Wary(w, u, {})
    BY <2>1, <2>2, DropWary
  <2>4. Keeps(w, u)
    BY <2>1, <2>2, DropKeeps
  <2> QED
    BY <2>3, <2>4, KeepsGood DEF Keeps
<1> HIDE DEF u
<1>4. Alert(u, E)
  <2>1. Alert(u, E \cup {})
    BY <1>3, WaryAlert
  <2> QED
    BY <2>1
<1>5. Alert(t, E \cup F) /\ t \in World
  <2>1. CASE first
    <3>1. s \in World /\ Wary(u, s, {c} \X Character)
      BY <1>2, <1>3, RemoveSelfIs, RemoveSelfWary
    <3> HIDE DEF s
    <3>2. Wary(s, TellRemoval(s, told, c), Creature \X {c})
      BY <1>2, <3>1, TellRemovalWary
    <3>3. TellRemoval(s, told, c) \in World
      BY <3>1, TellRemovalAlike DEF Alike
    <3>4. Wary(u, TellRemoval(s, told, c), F)
      BY <3>1, <3>2, WaryTrans
    <3>5. Alert(TellRemoval(s, told, c), E \cup F)
      BY <1>4, <3>4, WaryAlert
    <3> QED
      BY <2>1, <3>3, <3>5
  <2>2. CASE ~first
    <3>1. o \in World /\ Kin(o) /\ Wary(u, o, Creature \X {c})
      BY <1>2, <1>3, TellRemovalAlike, AlikeKeeps, KeepsGood, TellRemovalWary DEF Alike
    <3> HIDE DEF o
    <3>2. RemoveSelf(o, c) \in World /\ Wary(o, RemoveSelf(o, c), {c} \X Character)
      BY <1>2, <3>1, RemoveSelfIs, RemoveSelfWary
    <3>3. Wary(u, RemoveSelf(o, c), (Creature \X {c}) \cup ({c} \X Character))
      BY <3>1, <3>2, WaryTrans
    <3>4. (Creature \X {c}) \cup ({c} \X Character) = F
      OBVIOUS
    <3>5. Alert(RemoveSelf(o, c), E \cup F)
      BY <1>4, <3>3, <3>4, WaryAlert
    <3> QED
      BY <2>2, <3>2, <3>5
  <2> QED
    BY <2>1, <2>2
<1> HIDE DEF t
<1>6. /\ v \in World
      /\ \A d \in Creature \ {c} : v[d] = t[d]
      /\ v[c].status = "removed" /\ v[c].at = t[c].at
  BY <1>2, <1>5, RetireIs
<1> HIDE DEF v
<1>7. Sound(c, v[c]) /\ \A p : ~Misses(c, v[c], p)
  BY <1>6 DEF Sound, Misses, Wild
<1>8. \A d \in Creature : Sound(d, v[d])
  BY <1>5, <1>6, <1>7 DEF Alert
<1>9. ASSUME NEW m \in Creature, NEW p \in Character,
             Misses(m, v[m], p), v[p].status = "game", Sees(v, m, v[p].at)
      PROVE  <<m, p>> \in E
  <2>1. m # c /\ p # c /\ p \in Creature
    BY <1>6, <1>7, <1>9 DEF Creature
  <2>2. v[m] = t[m] /\ v[p] = t[p]
    BY <1>6, <2>1
  <2>3. <<m, p>> \in E \cup F
    BY <1>5, <1>9, <2>2 DEF Alert, Sees
  <2> QED
    BY <2>1, <2>3
<1>10. Alert(v, E)
  BY <1>8, <1>9 DEF Alert
<1> QED
  BY <1>1, <1>10

(* Whom Game::removeCreature takes out of the game next: those in D, and the *)
(* summons whose master has left.                                            *)
Doomed(v, D) ==
  {c \in InGame(v) : c \in D \/ ~(v[c].master = NoCreature \/ v[v[c].master].status = "game")}

(* Whatever pairs are excepted, v is as alert as w.                          *)
Awake(w, v) == \A E : Alert(w, E) => Alert(v, E)

(* Removing creatures ends with no summon without its master, as there are   *)
(* only so many creatures.                                                   *)
LEMMA RemoveCreaturesShrinks ==
  ASSUME NEW w \in World, NEW D, NEW first, Kin(w)
  PROVE  LET v == RemoveCreatures(w, D, first)
         IN  Shrinks(w, v) /\ Awake(w, v) /\ (Led(w) => Led(v))
<1> DEFINE W == {v \in World : Shrinks(w, v) /\ Awake(w, v)}
           N == Cardinality(Creature)
           Step(v) == IF Doomed(v, D) = {} THEN v
                       ELSE RemoveAlone(v, CHOOSE c \in Doomed(v, D) : c \in D \/ Doomed(v, D) \cap D = {}, first)
           g == [v \in W |-> Step(v)]
           Solves(h) == h = [n \in Nat |-> IF n = 0 THEN w ELSE Step(h[n - 1])]
           after == CHOOSE h : Solves(h)
<1>1. Shrinks(w, w) /\ Awake(w, w) /\ w \in W
  BY DEF Shrinks, Awake
<1>2. ASSUME NEW v \in W
      PROVE  /\ Step(v) \in W
             /\ Doomed(v, D) # {} => InGame(Step(v)) \subseteq InGame(v) /\ InGame(Step(v)) # InGame(v)
  <2>1. CASE Doomed(v, D) = {}
    BY <2>1
  <2>2. CASE Doomed(v, D) # {}
    <3> DEFINE c == CHOOSE c \in Doomed(v, D) : c \in D \/ Doomed(v, D) \cap D = {}
    <3>1. \E d \in Doomed(v, D) : d \in D \/ Doomed(v, D) \cap D = {}
      BY <2>2
    <3>2. c \in Doomed(v, D)
      BY <3>1
    <3>3. Step(v) = RemoveAlone(v, c, first)
      BY <2>2
    <3> HIDE DEF c, Step
    <3>4. c \in InGame(v) /\ v \in World /\ Kin(v)
      BY <3>2 DEF Doomed, Shrinks
    <3>5. Shrinks(v, Step(v)) /\ Step(v)[c].status = "removed"
      BY <3>3, <3>4, RemoveAloneShrinks
    <3>6. Shrinks(w, Step(v)) /\ Step(v) \in World
      BY <3>5, ShrinksTrans DEF Shrinks
    <3>7. Awake(w, Step(v))
      BY <3>3, <3>4, RemoveAloneAlert DEF Awake
    <3>8. InGame(Step(v)) \subseteq InGame(v) /\ c \notin InGame(Step(v))
      BY <3>5 DEF InGame, Shrinks
    <3> QED
      BY <3>4, <3>6, <3>7, <3>8
  <2> QED
    BY <2>1, <2>2
<1>3. g \in [W -> W] /\ \A v \in W : g[v] = Step(v)
  BY <1>2
<1> HIDE DEF g, Step, W
<1>4. PICK f \in [Nat -> W] : f[0] = w /\ \A n \in Nat : f[n + 1] = g[f[n]]
  <2>1. w \in W /\ g \in [W -> W]
    BY <1>1, <1>3
  <2> HIDE DEF Solves, after
  <2> QED
    BY <2>1, Iteration
<1>5. \E h : Solves(h)
  <2>1. \A n \in Nat : f[n] = IF n = 0 THEN w ELSE Step(f[n - 1])
    <3> SUFFICES ASSUME NEW n \in Nat PROVE f[n] = IF n = 0 THEN w ELSE Step(f[n - 1])
      OBVIOUS
    <3>1. CASE n = 0
      BY <1>4, <3>1
    <3>2. CASE n # 0
      <4>1. n - 1 \in Nat /\ (n - 1) + 1 = n
        BY <3>2
      <4>2. f[n] = g[f[n - 1]] /\ f[n - 1] \in W
        BY <1>4, <4>1
      <4> QED
        BY <1>3, <3>2, <4>2
    <3> QED
      BY <3>1, <3>2
  <2>2. f = [n \in Nat |-> f[n]]
    BY <1>4
  <2> QED
    BY <2>1, <2>2
<1>6. Solves(after)
  BY <1>5
<1> HIDE DEF after
<1>7. after[0] = w /\ \A n \in Nat : after[n + 1] = Step(after[n])
  <2>1. \A n \in Nat : n + 1 # 0 /\ n + 1 - 1 = n /\ n + 1 \in Nat
    OBVIOUS
  <2> QED
    BY <1>6, <2>1
<1>8. IsFiniteSet(Creature) /\ N \in Nat
  BY CreaturesAssumption, FS_CardinalityType DEF CreaturesAssumption
<1>9. \A v : IsFiniteSet(InGame(v)) /\ Cardinality(InGame(v)) \in Nat /\ Cardinality(InGame(v)) <= N
  <2> SUFFICES ASSUME NEW v
               PROVE  IsFiniteSet(InGame(v)) /\ Cardinality(InGame(v)) \in Nat /\ Cardinality(InGame(v)) <= N
    OBVIOUS
  <2>1. InGame(v) \in SUBSET Creature
    BY DEF InGame
  <2> QED
    BY <1>8, <2>1, FS_Subset, FS_CardinalityType
<1> HIDE DEF N
<1>10. \A n \in Nat : /\ after[n] \in W
                      /\ Doomed(after[n], D) = {} \/ Cardinality(InGame(after[n])) + n <= N
  <2> DEFINE M == {n \in Nat : /\ after[n] \in W
                               /\ Doomed(after[n], D) = {} \/ Cardinality(InGame(after[n])) + n <= N}
  <2>1. 0 \in M
    BY <1>1, <1>7, <1>8, <1>9
  <2>2. ASSUME NEW n \in Nat, n \in M PROVE n + 1 \in M
    <3> DEFINE u == after[n]
               v == after[n + 1]
    <3>1. u \in W /\ (Doomed(u, D) = {} \/ Cardinality(InGame(u)) + n <= N)
      BY <2>2
    <3>2. v = Step(u)
      BY <1>7
    <3>3. v \in W
      BY <1>2, <3>1, <3>2
    <3>4. CASE Doomed(u, D) = {}
      <4>1. v = u
        BY <3>2, <3>4 DEF Step
      <4> QED
        BY <3>1, <3>3, <3>4, <4>1
    <3>5. CASE Doomed(u, D) # {}
      <4>1. InGame(v) \subseteq InGame(u) /\ InGame(v) # InGame(u)
        BY <1>2, <3>1, <3>2, <3>5
      <4>2. Cardinality(InGame(v)) < Cardinality(InGame(u))
        <5>1. InGame(v) \in SUBSET InGame(u) /\ IsFiniteSet(InGame(u))
          BY <1>9, <4>1
        <5>2. /\ Cardinality(InGame(v)) <= Cardinality(InGame(u))
              /\ Cardinality(InGame(v)) # Cardinality(InGame(u))
          BY <4>1, <5>1, FS_Subset
        <5> QED
          BY <1>9, <5>2
      <4>3. Cardinality(InGame(u)) + n <= N
        BY <3>1, <3>5
      <4>4. Cardinality(InGame(v)) \in Nat /\ Cardinality(InGame(u)) \in Nat
        BY <1>9
      <4> DEFINE i == Cardinality(InGame(u))
                 j == Cardinality(InGame(v))
      <4>5. j + (n + 1) <= N
        <5>1. i \in Nat /\ j \in Nat /\ j < i /\ i + n <= N
          BY <4>2, <4>3, <4>4
        <5> HIDE DEF i, j
        <5> QED
          BY <1>8, <5>1
      <4> QED
        BY <3>3, <4>5
    <3> QED
      BY <3>4, <3>5
  <2> HIDE DEF M
  <2>3. Nat \subseteq M
    BY <2>1, <2>2, Induction
  <2> QED
    BY <2>3 DEF M
<1>11. after[N] \in W /\ Doomed(after[N], D) = {}
  <2>1. after[N] \in W
    BY <1>8, <1>10
  <2>2. Doomed(after[N], D) = {} \/ Cardinality(InGame(after[N])) + N <= N
    BY <1>8, <1>10
  <2>3. ASSUME Cardinality(InGame(after[N])) + N <= N PROVE Doomed(after[N], D) = {}
    <3>1. Cardinality(InGame(after[N])) = 0
      BY <1>8, <1>9, <2>3
    <3>2. InGame(after[N]) = {}
      BY <1>9, <3>1, FS_EmptySet
    <3> QED
      BY <3>2 DEF Doomed
  <2> QED
    BY <2>1, <2>2, <2>3
<1>12. Led(after[N])
  <2>1. \A d \in Creature : after[N][d].status = "game" =>
          after[N][d].master = NoCreature \/ after[N][after[N][d].master].status = "game"
    BY <1>11 DEF Doomed, InGame
  <2> QED
    BY <2>1 DEF Led
<1>13. RemoveCreatures(w, D, first) = IF D \cap InGame(w) = {} THEN w ELSE after[N]
  BY DEF RemoveCreatures, after, Step, Doomed, N
<1> QED
  BY <1>1, <1>11, <1>12, <1>13 DEF W

(* Game::removeCreature with all that follows leaves a good world.           *)
LEMMA RemoveCreaturesGood ==
  ASSUME NEW w, NEW D, NEW first, Good(w)
  PROVE  Good(RemoveCreatures(w, D, first))
BY RemoveCreaturesShrinks DEF Good, Shrinks

-----------------------------------------------------------------------------
(* Movement.                                                                 *)

(* Nobody has left.                                                         *)
LEMMA KeepsShrinks ==
  ASSUME NEW w \in World, NEW v, Keeps(w, v), Kin(w)
  PROVE  Shrinks(w, v)
BY KeepsGood DEF Keeps, Shrinks

(* The one that has moved loses whom it does not see.                        *)
LEMMA MoveSelfRepairs ==
  ASSUME NEW w \in World, NEW c \in Creature, NEW old, NEW first, NEW E,
         Kin(w), Led(w), Aimed(w, E, c, old.z)
  PROVE  LET v == MoveSelf(w, c, old, first)
         IN  Shrinks(w, v) /\ Led(v) /\ Aimed(v, E \ Pairs({c}, c), c, old.z)
<1> DEFINE away == {d \in w[c].summons : ~Within(2, w[c].at.z - w[d].at.z)
                                         \/ ~Within(30, w[c].at.x - w[d].at.x)}
           u == RemoveCreatures(w, away, first)
           t == LoseSight(u, {c}, c, old)
           v == IF c \in Monster THEN [t EXCEPT ![c] = LookAround(t, c, first)] ELSE t
<1>1. MoveSelf(w, c, old, first) = v
  BY DEF MoveSelf
<1> HIDE DEF away
<1>2. Shrinks(w, u) /\ Led(u)
  BY RemoveCreaturesShrinks
<1> HIDE DEF u
<1>3. u \in World /\ Kin(u) /\ Aimed(u, E, c, old.z)
  BY <1>2 DEF Shrinks
<1>4. Keeps(u, t) /\ Aimed(t, E \ Pairs({c}, c), c, old.z)
  <2>1. {c} \in SUBSET Creature
    OBVIOUS
  <2> QED
    BY <1>3, <2>1, LoseSightRepairs
<1> HIDE DEF t
<1>5. t \in World
  BY <1>4 DEF Keeps
<1>6. Keeps(t, v)
  <2>1. CASE c \in Monster
    <3>1. Same(t[c], LookAround(t, c, first))
      BY <1>5, LookSame
    <3>2. v = [t EXCEPT ![c] = LookAround(t, c, first)]
      BY <2>1
    <3> HIDE DEF v
    <3>3. Alike(t, v)
      BY <1>5, <3>1, <3>2, ExceptAlike
    <3> QED
      BY <1>5, <3>3, AlikeKeeps
  <2>2. CASE c \notin Monster
    BY <1>5, <2>2 DEF Keeps
  <2> QED
    BY <2>1, <2>2
<1> HIDE DEF v
<1>7. Keeps(u, v)
  BY <1>4, <1>6, KeepsTrans
<1>8. Shrinks(w, v)
  BY <1>2, <1>3, <1>7, KeepsShrinks, ShrinksTrans
<1>9. Led(v)
  BY <1>2, <1>3, <1>7, KeepsGood
<1>10. Aimed(v, E \ Pairs({c}, c), c, old.z)
  BY <1>4, <1>6 DEF Keeps
<1> QED
  BY <1>1, <1>8, <1>9, <1>10

(* Those who are told lose it, if they do not see it any more.               *)
LEMMA MoveOthersRepairs ==
  ASSUME NEW w \in World, NEW S \in SUBSET Creature, NEW c \in Creature, NEW old, NEW first, NEW E,
         Aimed(w, E, c, old.z)
  PROVE  LET v == MoveOthers(w, S, c, old, first)
         IN  Keeps(w, v) /\ Aimed(v, E \ Pairs(S, c), c, old.z)
<1> DEFINE u == LoseSight(w, S, c, old)
           t == ComeOrGo(u, S, c, old, first)
           T == {m \in S \cap Monster : t[m].master = NoCreature /\ t[m].follow = NoCreature
                                        /\ IsOpponent(t, m, c)}
           v == SelectTarget(t, T, c)
<1>1. MoveOthers(w, S, c, old, first) = v
  BY DEF MoveOthers, TurnTo
<1>2. T \in SUBSET Creature
  OBVIOUS
<1> HIDE DEF T
<1>3. Keeps(w, u) /\ Aimed(u, E \ Pairs(S, c), c, old.z)
  BY LoseSightRepairs
<1> HIDE DEF u
<1>4. u \in World
  BY <1>3 DEF Keeps
<1>5. Alike(u, t)
  BY <1>4, ComeOrGoAlike
<1> HIDE DEF t
<1>6. Keeps(u, t) /\ t \in World
  BY <1>4, <1>5, AlikeKeeps DEF Alike
<1>7. Keeps(t, v)
  BY <1>2, <1>6, SelectTargetKeeps
<1> HIDE DEF v
<1>8. Keeps(u, v)
  BY <1>6, <1>7, KeepsTrans
<1>9. Keeps(w, v)
  BY <1>3, <1>8, KeepsTrans
<1>10. Aimed(v, E \ Pairs(S, c), c, old.z)
  BY <1>3, <1>8 DEF Keeps
<1> QED
  BY <1>1, <1>9, <1>10

(* A creature that has moved, and whoever saw it and is told, may be adrift. *)
LEMMA MovedAimed ==
  ASSUME NEW w \in World, NEW c \in Creature, NEW to \in Position,
         Aimed(w, {}, NoCreature, 0), Kin(w), Led(w)
  PROVE  LET v == [w EXCEPT ![c].at = to]
             told == (Spectators(w, w[c].at) \cup Spectators(v, to)) \ {c}
         IN  /\ v \in World /\ Kin(v) /\ Led(v)
             /\ Aimed(v, Pairs({c}, c) \cup Pairs(told, c), c, w[c].at.z)
             /\ told \in SUBSET Creature
<1> DEFINE v == [w EXCEPT ![c].at = to]
           told == (Spectators(w, w[c].at) \cup Spectators(v, to)) \ {c}
<1>1. /\ v \in World
      /\ v[c].at = to
      /\ \A d \in Creature : /\ v[d].status = w[d].status
                             /\ v[d].attacked = w[d].attacked /\ v[d].follow = w[d].follow
                             /\ v[d].master = w[d].master /\ v[d].summons = w[d].summons
                             /\ d # c => v[d].at = w[d].at
  <2> DEFINE r == w[c]
             q == [r EXCEPT !.at = to]
  <2>1. r \in Record
    BY DEF World
  <2>2. v = [w EXCEPT ![c] = q]
    OBVIOUS
  <2>3. /\ q \in Record /\ q.at = to /\ q.status = r.status
        /\ q.attacked = r.attacked /\ q.follow = r.follow
        /\ q.master = r.master /\ q.summons = r.summons
    <3> HIDE DEF r
    <3> QED
      BY <2>1 DEF Record
  <2> HIDE DEF q, v
  <2>4. v \in World /\ v[c] = q /\ \A d \in Creature : d # c => v[d] = w[d]
    BY <2>2, <2>3 DEF World
  <2> QED
    BY <2>3, <2>4
<1>2. told \in SUBSET Creature /\ \A s \in Creature \ {c} : s \in Spectators(w, w[c].at) => s \in told
  BY DEF Spectators, InGame
<1> HIDE DEF v, told
<1>3. Kin(v)
  BY <1>1 DEF Kin
<1>4. \A d \in Creature : w[d].master \in Creature \cup {NoCreature} /\ Aims(w[d]) \subseteq Creature
  BY DEF World, Record, Aims
<1>5. Led(v)
  BY <1>1, <1>4 DEF Led
<1>6. ASSUME NEW s \in Creature, v[s].status = "game", NEW x \in Aims(v[s]), ~Fixed(v, s, x)
      PROVE  <<s, x>> \in Pairs({c}, c) \cup Pairs(told, c) /\ Adrift(v, s, x, c, w[c].at.z)
  <2>1. w[s].status = "game" /\ x \in Aims(w[s]) /\ x \in Creature
    BY <1>1, <1>4, <1>6 DEF Aims
  <2>2. w[x].status = "game" /\ w[x].at.z = w[s].at.z /\ Sees(w, s, w[x].at)
    BY <2>1 DEF Aimed, Fixed
  <2>3. CASE s = c
    <3>1. <<s, x>> \in Pairs({c}, c)
      BY <2>1, <2>3 DEF Pairs
    <3> QED
      BY <1>1, <2>1, <2>2, <2>3, <3>1 DEF Adrift
  <2>4. CASE s # c /\ x = c
    <3>1. s \in told
      BY <1>2, <2>1, <2>2, <2>4, SeesIsTold
    <3>2. <<s, x>> \in Pairs(told, c)
      BY <2>1, <2>4, <3>1 DEF Pairs
    <3> QED
      BY <1>1, <2>1, <2>2, <2>4, <3>2 DEF Adrift
  <2>5. CASE s # c /\ x # c
    <3>1. v[s].at = w[s].at /\ v[x].at = w[x].at /\ v[x].status = "game"
      BY <1>1, <2>1, <2>2, <2>5
    <3> QED
      BY <1>6, <2>2, <3>1 DEF Fixed, Sees
  <2> QED
    BY <2>3, <2>4, <2>5
<1>7. Aimed(v, Pairs({c}, c) \cup Pairs(told, c), c, w[c].at.z)
  BY <1>6 DEF Aimed
<1> QED
  BY <1>1, <1>2, <1>3, <1>5, <1>7 DEF v, told

(* Map::moveCreature: between the two of them, they repair them all.         *)
LEMMA MoveCreatureGood ==
  ASSUME NEW w, NEW c \in Creature, NEW to \in Position, NEW first, Good(w)
  PROVE  Good(MoveCreature(w, c, to, first))
<1> DEFINE old == w[c].at
           v == [w EXCEPT ![c].at = to]
           told == (Spectators(w, old) \cup Spectators(v, to)) \ {c}
           P == Pairs({c}, c)
           Q == Pairs(told, c)
<1>1. w \in World /\ Kin(w) /\ Led(w) /\ Aimed(w, {}, NoCreature, 0)
  BY DEF Good
<1>2. /\ v \in World /\ Kin(v) /\ Led(v) /\ Aimed(v, P \cup Q, c, old.z)
      /\ told \in SUBSET Creature
  BY <1>1, MovedAimed
<1>3. MoveCreature(w, c, to, first) =
        IF first THEN MoveOthers(MoveSelf(v, c, old, first), told, c, old, first)
        ELSE MoveSelf(MoveOthers(v, told, c, old, first), c, old, first)
  BY DEF MoveCreature
<1> HIDE DEF old, v, told
<1>4. \A t : Aimed(t, {}, c, old.z) => Aimed(t, {}, NoCreature, 0)
  BY DEF Aimed
<1>5. ((P \cup Q) \ P) \ Q = {} /\ ((P \cup Q) \ Q) \ P = {}
  OBVIOUS
<1>6. CASE first
  <2> DEFINE u == MoveSelf(v, c, old, first)
             t == MoveOthers(u, told, c, old, first)
  <2>1. Shrinks(v, u) /\ Led(u) /\ Aimed(u, (P \cup Q) \ P, c, old.z)
    <3> HIDE DEF P, Q
    <3>1. Aimed(v, P \cup Q, c, old.z)
      BY <1>2
    <3> QED
      BY <1>2, MoveSelfRepairs DEF P
  <2> HIDE DEF u
  <2>2. u \in World /\ Kin(u)
    BY <2>1 DEF Shrinks
  <2>3. Keeps(u, t) /\ Aimed(t, ((P \cup Q) \ P) \ Q, c, old.z)
    <3> HIDE DEF P
    <3> QED
      BY <1>2, <2>1, <2>2, MoveOthersRepairs
  <2> HIDE DEF t
  <2>4. t \in World /\ Kin(t) /\ Led(t)
    BY <2>1, <2>2, <2>3, KeepsGood DEF Keeps
  <2>5. Aimed(t, {}, NoCreature, 0)
    BY <1>4, <1>5, <2>3
  <2> QED
    BY <1>3, <1>6, <2>4, <2>5 DEF Good, t, u
<1>7. CASE ~first
  <2> DEFINE u == MoveOthers(v, told, c, old, first)
             t == MoveSelf(u, c, old, first)
  <2>1. Keeps(v, u) /\ Aimed(u, (P \cup Q) \ Q, c, old.z)
    <3> HIDE DEF P
    <3> QED
      BY <1>2, MoveOthersRepairs
  <2> HIDE DEF u
  <2>2. u \in World /\ Kin(u) /\ Led(u)
    BY <1>2, <2>1, KeepsGood DEF Keeps
  <2>3. Shrinks(u, t) /\ Led(t) /\ Aimed(t, ((P \cup Q) \ Q) \ P, c, old.z)
    <3> HIDE DEF Q
    <3> QED
      BY <2>1, <2>2, MoveSelfRepairs
  <2> HIDE DEF t
  <2>4. t \in World /\ Kin(t)
    BY <2>3 DEF Shrinks
  <2>5. Aimed(t, {}, NoCreature, 0)
    BY <1>4, <1>5, <2>3
  <2> QED
    BY <1>3, <1>7, <2>3, <2>4, <2>5 DEF Good, t, u
<1> QED
  BY <1>6, <1>7

(* Lists and checks do not matter to pointers.                              *)
LEMMA AlikeGood ==
  ASSUME NEW w, NEW v, Good(w), Alike(w, v)
  PROVE  Good(v)
BY AlikeKeeps, KeepsGood DEF Good

(* Creature::setMaster leaves a good world.                                  *)
LEMMA SetMasterGood ==
  ASSUME NEW w, NEW c \in Creature, NEW x \in Creature \cup {NoCreature}, Good(w),
         x # c, x # NoCreature => c \in Monster /\ w[x].status = "game" /\ w[c].status # "free"
  PROVE  Good(SetMaster(w, c, x))
<1>1. w \in World /\ Kin(w) /\ Led(w) /\ Aimed(w, {}, NoCreature, 0)
  BY DEF Good
<1> DEFINE v == SetMaster(w, c, x)
<1>2. v \in World
  BY <1>1, SetMasterKeeps
<1>3. Kin(v)
  BY <1>1, SetMasterKeeps
<1>4. Led(v)
  BY <1>1, SetMasterKeeps
<1>5. Aimed(v, {}, NoCreature, 0)
  BY <1>1, SetMasterKeeps
<1> QED
  BY <1>2, <1>3, <1>4, <1>5 DEF Good

-----------------------------------------------------------------------------
(* Birth and death.                                                          *)

(* There is a place, since every creature has an entrance.                   *)
LEMMA UnbornIs ==
  ASSUME NEW c \in Creature
  PROVE  /\ Unborn \in Record
         /\ Unborn.status = "free" /\ Unborn.master = NoCreature /\ Unborn.summons = {}
         /\ Unborn.attacked = NoCreature /\ Unborn.follow = NoCreature
<1>1. Entrance[c] \in Position
  BY CreaturesAssumption DEF CreaturesAssumption
<1>2. (CHOOSE p \in Position : TRUE) \in Position
  BY <1>1
<1> QED
  BY <1>2 DEF Unborn, Record

(* Game::placeCreature: nobody knows the new creature.                       *)
LEMMA PlaceCreatureGood ==
  ASSUME NEW w, NEW c \in Creature, NEW at \in Position, NEW first, Good(w),
         w[c].status = "free"
  PROVE  LET v == PlaceCreature(w, c, at, first)
         IN  /\ Good(v)
             /\ v[c].status = "game"
             /\ \A d \in Creature \ {c} : v[d].status = w[d].status
<1> DEFINE q == [Unborn EXCEPT !.status = "game", !.at = at]
           u == [w EXCEPT ![c] = q]
           v == Appear(u, c, first)
<1>1. PlaceCreature(w, c, at, first) = v
  BY DEF PlaceCreature
<1>2. w \in World /\ Kin(w) /\ Led(w) /\ Aimed(w, {}, NoCreature, 0)
  BY DEF Good
<1>3. NoCreature \notin Creature
  BY CreaturesAssumption DEF CreaturesAssumption
<1>4. /\ q \in Record /\ q.status = "game" /\ q.master = NoCreature /\ q.summons = {}
      /\ q.attacked = NoCreature /\ q.follow = NoCreature
  <2>1. Unborn \in Record /\ Unborn.master = NoCreature /\ Unborn.summons = {}
        /\ Unborn.attacked = NoCreature /\ Unborn.follow = NoCreature
    BY UnbornIs
  <2> HIDE DEF Unborn
  <2> QED
    BY <2>1 DEF Record
<1> HIDE DEF q
<1>5. u \in World /\ u[c] = q /\ \A d \in Creature \ {c} : u[d] = w[d]
  BY <1>2, <1>4 DEF World
<1> HIDE DEF u
<1>6. w[c].master = NoCreature /\ w[c].summons = {} /\ \A d \in Creature : w[d].master # c
  BY <1>2 DEF Kin
<1>7. Kin(u)
  <2> SUFFICES ASSUME NEW a \in Creature
               PROVE  /\ u[a].master # a
                      /\ u[a].status = "free" =>
                           u[a].master = NoCreature /\ u[a].summons = {} /\ \A d \in Creature : u[d].master # a
                      /\ u[a].status = "game" =>
                           \A d \in Creature : d \in u[a].summons <=> u[d].master = a
    BY DEF Kin
  <2>1. u[a].master = w[a].master /\ u[a].summons = w[a].summons
    BY <1>4, <1>5, <1>6
  <2>2. \A d \in Creature : u[d].master = w[d].master
    BY <1>4, <1>5, <1>6
  <2>3. u[a].master # a
    BY <1>2, <2>1 DEF Kin
  <2>4. a # c => u[a].status = w[a].status
    BY <1>5
  <2>5. u[a].status = "free" =>
           u[a].master = NoCreature /\ u[a].summons = {} /\ \A d \in Creature : u[d].master # a
    BY <1>2, <1>6, <2>1, <2>2, <2>4 DEF Kin
  <2>6. CASE a = c
    BY <1>6, <2>1, <2>2, <2>3, <2>5, <2>6
  <2>7. CASE a # c
    BY <1>2, <2>1, <2>2, <2>3, <2>4, <2>5, <2>7 DEF Kin
  <2> QED
    BY <2>6, <2>7
<1>8. \A d \in Creature : w[d].master \in Creature \cup {NoCreature} /\ Aims(w[d]) \subseteq Creature
  BY <1>2 DEF World, Record, Aims
<1>9. Led(u)
  <2> SUFFICES ASSUME NEW d \in Creature, u[d].status = "game", u[d].master # NoCreature
               PROVE  u[u[d].master].status = "game"
    BY DEF Led
  <2>1. d # c
    BY <1>4, <1>5
  <2>2. u[d] = w[d] /\ w[w[d].master].status = "game"
    BY <1>2, <1>5, <2>1 DEF Led
  <2> QED
    BY <1>5, <1>8, <2>2
<1>10. Aimed(u, {}, NoCreature, 0)
  <2> SUFFICES ASSUME NEW s \in Creature, u[s].status = "game", NEW x \in Aims(u[s])
               PROVE  Fixed(u, s, x)
    BY DEF Aimed
  <2>1. s # c
    BY <1>4, <1>5 DEF Aims
  <2>2. u[s] = w[s]
    BY <1>5, <2>1
  <2>3. Fixed(w, s, x) /\ x \in Creature
    BY <1>2, <1>8, <2>2 DEF Aimed
  <2>4. x # c
    BY <2>3 DEF Fixed
  <2> QED
    BY <1>5, <2>2, <2>3, <2>4 DEF Fixed, Sees
<1>11. Good(u)
  BY <1>5, <1>7, <1>9, <1>10 DEF Good
<1>12. Alike(u, v)
  BY <1>4, <1>5, AppearAlike
<1> HIDE DEF v
<1>13. Good(v)
  BY <1>11, <1>12, AlikeGood
<1>14. v[c].status = "game" /\ \A d \in Creature \ {c} : v[d].status = w[d].status
  BY <1>4, <1>5, <1>12 DEF Alike, Same
<1> QED
  BY <1>1, <1>13, <1>14

(* The destructors reset the pointers to the master.                         *)
LEMMA FreeCreaturesGood ==
  ASSUME NEW w, Good(w), NEW C \in SUBSET Creature,
         \A c \in C : w[c].status = "removed" /\ \A d \in Creature : c \notin w[d].summons
  PROVE  Good(FreeCreatures(w, C))
<1> DEFINE S == C \cup {d \in Creature : w[d].master \in C}
           f == [c \in S |-> IF c \in C THEN Unborn ELSE [w[c] EXCEPT !.master = NoCreature, !.attacked = NoCreature]]
           v == Changed(w, f)
<1>1. FreeCreatures(w, C) = v
  BY DEF FreeCreatures
<1>2. w \in World /\ Kin(w) /\ Led(w) /\ Aimed(w, {}, NoCreature, 0)
  BY DEF Good
<1>3. NoCreature \notin Creature
  BY CreaturesAssumption DEF CreaturesAssumption
<1>4. ASSUME NEW c \in S
      PROVE  /\ f[c] \in Record
             /\ c \in C => f[c] = Unborn
             /\ c \notin C => /\ f[c].status = w[c].status /\ f[c].at = w[c].at
                              /\ f[c].attacked = NoCreature /\ f[c].follow = w[c].follow
                              /\ f[c].master = NoCreature /\ f[c].summons = w[c].summons
  <2>1. c \in Creature
    OBVIOUS
  <2>2. CASE c \in C
    <3>1. f[c] = Unborn
      BY <2>2
    <3> HIDE DEF f
    <3> QED
      BY <2>1, <2>2, <3>1, UnbornIs
  <2>3. CASE c \notin C
    <3> DEFINE r == w[c]
               q == f[c]
    <3>1. r \in Record
      BY <1>2, <2>1 DEF World
    <3>2. q = [r EXCEPT !.master = NoCreature, !.attacked = NoCreature]
      BY <2>3
    <3> HIDE DEF r, q
    <3>3. /\ q \in Record /\ q.status = r.status /\ q.at = r.at
          /\ q.attacked = NoCreature /\ q.follow = r.follow
          /\ q.master = NoCreature /\ q.summons = r.summons
      BY <3>1, <3>2 DEF Record
    <3> QED
      BY <2>3, <3>3 DEF r, q
  <2> QED
    BY <2>2, <2>3
<1>5. DOMAIN f = S /\ S \subseteq Creature /\ \A c \in Creature : c \in S <=> c \in C \/ w[c].master \in C
  OBVIOUS
<1> HIDE DEF f
<1>6. v \in World /\ \A c \in Creature : v[c] = IF c \in S THEN f[c] ELSE w[c]
  BY <1>2, <1>4, <1>5, ChangedIs
<1> HIDE DEF v, S
<1>7. \A c \in C : /\ v[c].status = "free" /\ v[c].master = NoCreature /\ v[c].summons = {}
                   /\ v[c].attacked = NoCreature /\ v[c].follow = NoCreature
  BY <1>4, <1>5, <1>6, UnbornIs
<1>8. \A c \in Creature \ C :
        /\ v[c].status = w[c].status /\ v[c].at = w[c].at
        /\ v[c].attacked \in {w[c].attacked, NoCreature} /\ v[c].follow = w[c].follow
        /\ v[c].summons = w[c].summons
        /\ w[c].master \in C => v[c].master = NoCreature
        /\ w[c].master \notin C => v[c].master = w[c].master
  BY <1>4, <1>5, <1>6
<1>9. \A c \in C : w[c].status = "removed"
  OBVIOUS
<1>10. \A d \in Creature : v[d].master \in {w[d].master, NoCreature} /\ v[d].master \notin C
  BY <1>3, <1>7, <1>8
<1>11. Kin(v)
  <2> SUFFICES ASSUME NEW a \in Creature
               PROVE  /\ v[a].master # a
                      /\ v[a].status = "free" =>
                           v[a].master = NoCreature /\ v[a].summons = {} /\ \A d \in Creature : v[d].master # a
                      /\ v[a].status = "game" =>
                           \A d \in Creature : d \in v[a].summons <=> v[d].master = a
    BY DEF Kin
  <2>1. v[a].master # a
    BY <1>2, <1>3, <1>10 DEF Kin
  <2>2. CASE a \in C
    BY <1>7, <1>10, <2>1, <2>2
  <2>3. CASE a \notin C
    <3>1. v[a].status = w[a].status /\ v[a].summons = w[a].summons
      BY <1>8, <2>3
    <3>2. ASSUME v[a].status = "free"
          PROVE  v[a].master = NoCreature /\ v[a].summons = {} /\ \A d \in Creature : v[d].master # a
      <4>1. w[a].master = NoCreature /\ w[a].summons = {} /\ \A d \in Creature : w[d].master # a
        BY <1>2, <3>1, <3>2 DEF Kin
      <4>2. NoCreature # a
        BY <1>3
      <4> QED
        BY <1>10, <3>1, <4>1, <4>2
    <3>3. ASSUME v[a].status = "game", NEW d \in Creature
          PROVE  d \in v[a].summons <=> v[d].master = a
      <4>1. d \in w[a].summons <=> w[d].master = a
        BY <1>2, <3>1, <3>3 DEF Kin
      <4>2. CASE d \in C
        BY <1>3, <1>7, <3>1, <4>2
      <4>3. CASE d \notin C
        BY <1>3, <1>8, <2>3, <3>1, <4>1, <4>3
      <4> QED
        BY <4>2, <4>3
    <3> QED
      BY <2>1, <3>2, <3>3
  <2> QED
    BY <2>2, <2>3
<1>12. \A d \in Creature : w[d].master \in Creature \cup {NoCreature} /\ Aims(w[d]) \subseteq Creature
  BY <1>2 DEF World, Record, Aims
<1>13. \A d \in Creature : v[d].status = "game" => d \notin C
  BY <1>7
<1>14. \A d \in Creature : w[d].status = "game" => d \notin C
  OBVIOUS
<1>15. Led(v)
  <2> SUFFICES ASSUME NEW d \in Creature, v[d].status = "game", v[d].master # NoCreature
               PROVE  v[v[d].master].status = "game"
    BY DEF Led
  <2>1. d \notin C /\ w[d].status = "game" /\ v[d].master = w[d].master
    BY <1>8, <1>10, <1>13
  <2>2. w[w[d].master].status = "game" /\ w[d].master \in Creature
    BY <1>2, <1>12, <2>1 DEF Led
  <2> QED
    BY <1>8, <1>14, <2>1, <2>2
<1>16. Aimed(v, {}, NoCreature, 0)
  <2> SUFFICES ASSUME NEW s \in Creature, v[s].status = "game", NEW x \in Aims(v[s])
               PROVE  Fixed(v, s, x)
    BY DEF Aimed
  <2>1. s \notin C /\ w[s].status = "game" /\ v[s].at = w[s].at
    BY <1>8, <1>13
  <2>2. x \in Aims(w[s])
    BY <1>8, <2>1 DEF Aims
  <2>3. Fixed(w, s, x) /\ x \in Creature
    BY <1>2, <1>12, <2>1, <2>2 DEF Aimed
  <2>4. x \notin C
    BY <1>14, <2>3 DEF Fixed
  <2>5. v[x].status = w[x].status /\ v[x].at = w[x].at
    BY <1>8, <2>3, <2>4
  <2> QED
    BY <2>1, <2>3, <2>5 DEF Fixed, Sees
<1> QED
  BY <1>1, <1>6, <1>11, <1>15, <1>16 DEF Good

(* The destructors touch only those who are not in the game.                 *)
LEMMA FreeCreaturesAlert ==
  ASSUME NEW w, Good(w), Alert(w, {}), NEW C \in SUBSET Creature,
         \A c \in C : w[c].status = "removed"
  PROVE  Alert(FreeCreatures(w, C), {})
<1> DEFINE S == C \cup {d \in Creature : w[d].master \in C}
           f == [c \in S |-> IF c \in C THEN Unborn ELSE [w[c] EXCEPT !.master = NoCreature, !.attacked = NoCreature]]
           v == Changed(w, f)
<1>1. FreeCreatures(w, C) = v
  BY DEF FreeCreatures
<1>2. w \in World /\ Led(w) /\ NoCreature \notin Creature
  BY CreaturesAssumption DEF CreaturesAssumption, Good
<1>3. ASSUME NEW c \in Creature
      PROVE  /\ c \in S => v[c].status # "game"
             /\ c \notin S => v[c] = w[c]
  <2>1. CASE c \in C
    <3>1. v[c] = Unborn
      BY <2>1 DEF Changed
    <3> QED
      BY <2>1, <3>1, UnbornIs
  <2>2. CASE c \notin C /\ w[c].master \in C
    <3> DEFINE r == w[c]
               q == [r EXCEPT !.master = NoCreature, !.attacked = NoCreature]
    <3>1. v[c] = q
      BY <2>2 DEF Changed
    <3>2. r \in Record /\ r.status # "game"
      BY <1>2, <2>2 DEF World, Led
    <3> HIDE DEF r, v
    <3>3. q.status = r.status
      BY <3>2 DEF Record
    <3> QED
      BY <2>2, <3>1, <3>2, <3>3
  <2>3. CASE c \notin C /\ w[c].master \notin C
    BY <2>3 DEF Changed
  <2> QED
    BY <2>1, <2>2, <2>3
<1> HIDE DEF v, S
<1>4. \A c \in Creature : v[c].status = "game" => v[c] = w[c]
  BY <1>3
<1>5. \A m \in Creature : Sound(m, v[m])
  BY <1>4 DEF Alert, Sound
<1>6. ASSUME NEW m \in Creature, NEW p \in Character,
             Misses(m, v[m], p), v[p].status = "game", Sees(v, m, v[p].at)
      PROVE  FALSE
  <2>1. p \in Creature /\ v[m].status = "game"
    BY <1>6 DEF Creature, Misses, Wild
  <2>2. v[m] = w[m] /\ v[p] = w[p]
    BY <1>4, <1>6, <2>1
  <2> QED
    BY <1>6, <2>2 DEF Alert, Sees
<1> QED
  BY <1>1, <1>5, <1>6 DEF Alert

(* Freeing creatures may let go of others, as often as there are creatures.  *)
LEMMA CollectedGood ==
  ASSUME NEW w, Good(w)
  PROVE  Good(Collected(w)) /\ (Alert(w, {}) => Alert(Collected(w), {}))
<1> DEFINE W == {v \in World : Good(v) /\ (Alert(w, {}) => Alert(v, {}))}
           N == Cardinality(Creature)
           Lost(v) == {c \in Creature : v[c].status = "removed" /\ ~Held(v, c)}
           Step(v) == FreeCreatures(v, Lost(v))
           g == [v \in W |-> Step(v)]
           Solves(h) == h = [n \in Nat |-> IF n = 0 THEN w ELSE Step(h[n - 1])]
           after == CHOOSE h : Solves(h)
<1>1. w \in W
  BY DEF Good
<1>2. ASSUME NEW v \in W PROVE Step(v) \in W
  <2>1. Lost(v) \in SUBSET Creature
    OBVIOUS
  <2>2. \A c \in Lost(v) : v[c].status = "removed" /\ \A d \in Creature : c \notin v[d].summons
    BY DEF Held
  <2> HIDE DEF Lost
  <2>3. Good(FreeCreatures(v, Lost(v))) /\ (Alert(v, {}) => Alert(FreeCreatures(v, Lost(v)), {}))
    BY <2>1, <2>2, FreeCreaturesGood, FreeCreaturesAlert
  <2> QED
    BY <2>3 DEF Good
<1>3. g \in [W -> W] /\ \A v \in W : g[v] = Step(v)
  BY <1>2
<1> HIDE DEF g, Step, W
<1>4. PICK f \in [Nat -> W] : f[0] = w /\ \A n \in Nat : f[n + 1] = g[f[n]]
  <2>1. w \in W /\ g \in [W -> W]
    BY <1>1, <1>3
  <2> HIDE DEF Solves, after
  <2> QED
    BY <2>1, Iteration
<1>5. \E h : Solves(h)
  <2>1. \A n \in Nat : f[n] = IF n = 0 THEN w ELSE Step(f[n - 1])
    <3> SUFFICES ASSUME NEW n \in Nat PROVE f[n] = IF n = 0 THEN w ELSE Step(f[n - 1])
      OBVIOUS
    <3>1. CASE n = 0
      BY <1>4, <3>1
    <3>2. CASE n # 0
      <4>1. n - 1 \in Nat /\ (n - 1) + 1 = n
        BY <3>2
      <4>2. f[n] = g[f[n - 1]] /\ f[n - 1] \in W
        BY <1>4, <4>1
      <4> QED
        BY <1>3, <3>2, <4>2
    <3> QED
      BY <3>1, <3>2
  <2>2. f = [n \in Nat |-> f[n]]
    BY <1>4
  <2> QED
    BY <2>1, <2>2
<1>6. Solves(after)
  BY <1>5
<1> HIDE DEF after
<1>7. after[0] = w /\ \A n \in Nat : after[n + 1] = Step(after[n])
  <2>1. \A n \in Nat : n + 1 # 0 /\ n + 1 - 1 = n /\ n + 1 \in Nat
    OBVIOUS
  <2> QED
    BY <1>6, <2>1
<1>8. \A n \in Nat : after[n] \in W
  <2> DEFINE M == {n \in Nat : after[n] \in W}
  <2>1. 0 \in M
    BY <1>1, <1>7
  <2>2. \A n \in Nat : n \in M => n + 1 \in M
    BY <1>2, <1>7
  <2> HIDE DEF M
  <2>3. Nat \subseteq M
    BY <2>1, <2>2, Induction
  <2> QED
    BY <2>3 DEF M
<1>9. N \in Nat
  BY CreaturesAssumption, FS_CardinalityType DEF CreaturesAssumption
<1>10. Collected(w) \in {w, after[N]}
  BY DEF Collected, after, Step, Lost
<1> QED
  BY <1>8, <1>9, <1>10 DEF W

(* Monster::death: the summons lose the master that loses them.              *)
LEMMA DeathGood ==
  ASSUME NEW w, Good(w), NEW c \in Creature, w[c].status = "game"
  PROVE  Good(Death(w, c))
<1> DEFINE S == {c} \cup w[c].summons
           f == [d \in S |->
                  IF d = c
                  THEN [w[d] EXCEPT !.attacked = NoCreature, !.summons = {}, !.targets = {}, !.friends = {}]
                  ELSE [ChangeHealth(w[d], d, TRUE) EXCEPT !.attacked = NoCreature, !.master = NoCreature]]
           v == Changed(w, f)
<1>1. Death(w, c) = v
  BY DEF Death
<1>2. w \in World /\ Kin(w) /\ Led(w) /\ Aimed(w, {}, NoCreature, 0)
  BY DEF Good
<1>3. NoCreature \notin Creature
  BY CreaturesAssumption DEF CreaturesAssumption
<1>4. S \subseteq Creature /\ \A d \in Creature : d \in S <=> d = c \/ w[d].master = c
  <2>1. w[c].summons \subseteq Creature
    BY <1>2 DEF World, Record, Creature
  <2>2. \A d \in Creature : d \in w[c].summons <=> w[d].master = c
    BY <1>2 DEF Kin
  <2> QED
    BY <2>1, <2>2
<1>5. ASSUME NEW d \in S
      PROVE  /\ f[d] \in Record
             /\ f[d].status = w[d].status /\ f[d].at = w[d].at
             /\ f[d].attacked = NoCreature /\ f[d].follow = w[d].follow
             /\ d = c => f[d].summons = {} /\ f[d].master = w[d].master
             /\ d # c => f[d].summons = w[d].summons /\ f[d].master = NoCreature
  <2> DEFINE r == w[d]
             h == ChangeHealth(r, d, TRUE)
             q == f[d]
  <2>1. r \in Record
    BY <1>2, <1>4 DEF World
  <2>2. /\ d = c => q = [r EXCEPT !.attacked = NoCreature, !.summons = {}, !.targets = {}, !.friends = {}]
        /\ d # c => q = [h EXCEPT !.attacked = NoCreature, !.master = NoCreature]
    OBVIOUS
  <2> HIDE DEF r, q
  <2>3. Same(r, h)
    BY <2>1, ChangeHealthSame
  <2> HIDE DEF h
  <2>4. /\ q \in Record
        /\ q.status = r.status /\ q.at = r.at
        /\ q.attacked = NoCreature /\ q.follow = r.follow
        /\ d = c => q.summons = {} /\ q.master = r.master
        /\ d # c => q.summons = r.summons /\ q.master = NoCreature
    <3>1. CASE d = c
      BY <2>1, <2>2, <3>1 DEF Record
    <3>2. CASE d # c
      BY <2>1, <2>2, <2>3, <3>2 DEF Record, Same
    <3> QED
      BY <3>1, <3>2
  <2> QED
    BY <2>4 DEF r, q
<1>6. DOMAIN f = S
  OBVIOUS
<1> HIDE DEF f
<1>7. v \in World /\ \A d \in Creature : v[d] = IF d \in S THEN f[d] ELSE w[d]
  BY <1>2, <1>4, <1>5, <1>6, ChangedIs
<1> HIDE DEF v, S
<1>8. \A d \in Creature :
        /\ v[d].status = w[d].status /\ v[d].at = w[d].at
        /\ v[d].attacked \in {w[d].attacked, NoCreature} /\ v[d].follow = w[d].follow
        /\ d = c => v[d].summons = {} /\ v[d].master = w[d].master
        /\ d # c => v[d].summons = w[d].summons
        /\ d # c /\ w[d].master = c => v[d].master = NoCreature
        /\ w[d].master # c => v[d].master = w[d].master
  BY <1>4, <1>5, <1>7
<1>9. w[c].master # c
  BY <1>2 DEF Kin
<1>10. \A d \in Creature : v[d].master \in {w[d].master, NoCreature} /\ v[d].master # c
  BY <1>3, <1>8, <1>9
<1>11. Kin(v)
  <2> SUFFICES ASSUME NEW a \in Creature
               PROVE  /\ v[a].master # a
                      /\ v[a].status = "free" =>
                           v[a].master = NoCreature /\ v[a].summons = {} /\ \A d \in Creature : v[d].master # a
                      /\ v[a].status = "game" =>
                           \A d \in Creature : d \in v[a].summons <=> v[d].master = a
    BY DEF Kin
  <2>1. v[a].master # a
    BY <1>2, <1>3, <1>10 DEF Kin
  <2>2. CASE a = c
    BY <1>8, <1>10, <2>1, <2>2
  <2>3. CASE a # c
    <3>1. v[a].status = w[a].status /\ v[a].summons = w[a].summons
      BY <1>8, <2>3
    <3>2. ASSUME v[a].status = "free"
          PROVE  v[a].master = NoCreature /\ v[a].summons = {} /\ \A d \in Creature : v[d].master # a
      <4>1. w[a].master = NoCreature /\ w[a].summons = {} /\ \A d \in Creature : w[d].master # a
        BY <1>2, <3>1, <3>2 DEF Kin
      <4>2. NoCreature # a
        BY <1>3
      <4> QED
        BY <1>10, <3>1, <4>1, <4>2
    <3>3. ASSUME v[a].status = "game", NEW d \in Creature
          PROVE  d \in v[a].summons <=> v[d].master = a
      <4>1. d \in w[a].summons <=> w[d].master = a
        BY <1>2, <3>1, <3>3 DEF Kin
      <4>2. CASE w[d].master = c
        BY <1>3, <1>8, <1>9, <2>3, <3>1, <4>1, <4>2
      <4>3. CASE w[d].master # c
        BY <1>8, <3>1, <4>1, <4>3
      <4> QED
        BY <4>2, <4>3
    <3> QED
      BY <2>1, <3>2, <3>3
  <2> QED
    BY <2>2, <2>3
<1>12. \A d \in Creature : w[d].master \in Creature \cup {NoCreature} /\ Aims(w[d]) \subseteq Creature
  BY <1>2 DEF World, Record, Aims
<1>13. Led(v)
  <2> SUFFICES ASSUME NEW d \in Creature, v[d].status = "game", v[d].master # NoCreature
               PROVE  v[v[d].master].status = "game"
    BY DEF Led
  <2>1. w[d].status = "game" /\ v[d].master = w[d].master
    BY <1>8, <1>10
  <2>2. w[w[d].master].status = "game" /\ w[d].master \in Creature
    BY <1>2, <1>12, <2>1 DEF Led
  <2> QED
    BY <1>8, <2>1, <2>2
<1>14. Aimed(v, {}, NoCreature, 0)
  <2> SUFFICES ASSUME NEW s \in Creature, v[s].status = "game", NEW x \in Aims(v[s])
               PROVE  Fixed(v, s, x)
    BY DEF Aimed
  <2>1. w[s].status = "game" /\ v[s].at = w[s].at
    BY <1>8
  <2>2. x \in Aims(w[s])
    BY <1>8 DEF Aims
  <2>3. Fixed(w, s, x) /\ x \in Creature
    BY <1>2, <1>12, <2>1, <2>2 DEF Aimed
  <2>4. v[x].status = w[x].status /\ v[x].at = w[x].at
    BY <1>8, <2>3
  <2> QED
    BY <2>1, <2>3, <2>4 DEF Fixed, Sees
<1> QED
  BY <1>1, <1>7, <1>11, <1>13, <1>14 DEF Good

(* Creature::onDeath: a dead creature is removed as any other.               *)
LEMMA OnDeathGood ==
  ASSUME NEW w, Good(w), NEW c \in Creature, w[c].status = "game", NEW first
  PROVE  Good(OnDeath(w, c, first))
<1> DEFINE u == IF c \in Monster THEN Death(w, c) ELSE w
<1>1. Good(u)
  BY DeathGood
<1> HIDE DEF u
<1>2. NoCreature # c /\ NoCreature \in Creature \cup {NoCreature}
  BY CreaturesAssumption DEF CreaturesAssumption
<1>3. Good(SetMaster(u, c, NoCreature))
  BY <1>1, <1>2, SetMasterGood
<1>4. OnDeath(w, c, first) = RemoveCreatures(SetMaster(u, c, NoCreature), {c}, first)
  BY DEF OnDeath, u
<1> QED
  BY <1>3, <1>4, RemoveCreaturesGood

-----------------------------------------------------------------------------
(* What monsters do when they think.                                         *)

(* A target is taken off a list.                                             *)
LEMMA GoToFollowAlike ==
  ASSUME NEW w \in World, NEW m \in Creature, NEW way
  PROVE  Alike(w, GoToFollowCreature(w, m, way))
<1>1. Alike(w, w)
  BY DEF Alike, Same, World
<1> DEFINE r == w[m]
           q == [r EXCEPT !.targets = @ \ {r.follow}]
<1>2. r \in Record
  BY DEF World
<1>3. GoToFollowCreature(w, m, way) \in {w, [w EXCEPT ![m] = q]}
  BY DEF GoToFollowCreature
<1>4. Same(r, q)
  <2> HIDE DEF r
  <2> QED
    BY <1>2 DEF Same, Record
<1> HIDE DEF q
<1>5. Alike(w, [w EXCEPT ![m] = q])
  BY <1>4, ExceptAlike
<1> QED
  BY <1>1, <1>3, <1>5

(* Only one that is out of the game may follow one that is.                  *)
LEMMA SetFollowKeeps ==
  ASSUME NEW w \in World, NEW m \in Creature, NEW x \in Creature \cup {NoCreature},
         w[m].status = "game" /\ x # NoCreature => w[x].status = "game"
  PROVE  Keeps(w, SetFollowCreature(w, {m}, x))
<1> DEFINE v == SetFollowCreature(w, {m}, x)
<1>1. Redirected(w, v, x) /\ \A c \in Creature \ {m} : v[c] = w[c]
  <2>1. {m} \in SUBSET Creature
    OBVIOUS
  <2>2. Redirected(w, v, x)
    BY <2>1, SetFollowIs
  <2>3. \A c \in Creature \ {m} : v[c] = w[c]
    BY <2>1, SetFollowIs
  <2> QED
    BY <2>2, <2>3
<1> HIDE DEF v
<1>2. CASE w[m].status = "game"
  BY <1>1, <1>2, RedirectedKeeps DEF v
<1>3. CASE w[m].status # "game"
  <2>1. v \in World
    BY <1>1 DEF Redirected
  <2>2. \A c \in Creature : /\ v[c].status = w[c].status /\ v[c].at = w[c].at
                            /\ v[c].master = w[c].master /\ v[c].summons = w[c].summons
    BY <1>1, RedirectedFields
  <2>3. ASSUME NEW E, NEW c, NEW z, Aimed(w, E, c, z)
        PROVE  Aimed(v, E, c, z)
    <3> SUFFICES ASSUME NEW s \in Creature, v[s].status = "game", NEW y \in Aims(v[s])
                 PROVE  Fixed(v, s, y) \/ (<<s, y>> \in E /\ Adrift(v, s, y, c, z))
      BY DEF Aimed
    <3>1. w[s].status = "game" /\ v[s] = w[s]
      BY <1>1, <1>3, <2>2
    <3>2. y \in Creature
      BY <3>1 DEF World, Record, Aims
    <3>3. Fixed(w, s, y) \/ (<<s, y>> \in E /\ Adrift(w, s, y, c, z))
      BY <2>3, <3>1 DEF Aimed
    <3> QED
      BY <2>2, <3>2, <3>3 DEF Fixed, Adrift, Sees
  <2> QED
    BY <2>1, <2>2, <2>3 DEF Keeps, v
<1> QED
  BY <1>2, <1>3

(* Whom a thought may be about.                                              *)
Thought(w, t) ==
  /\ t[1] = "search" => t[2] \in Creature
  /\ t[1] = "summon" => t[2] \in Monster /\ w[t[2]].status = "free"

(* A summon turns to its master or to whom its master attacks.               *)
LEMMA ChooseTargetKeeps ==
  ASSUME NEW w, Good(w), NEW m \in Creature, NEW t, Thought(w, t)
  PROVE  Keeps(w, ChooseTarget(w, m, t))
<1> DEFINE master == w[m].master
           lead == IF master = NoCreature THEN NoCreature ELSE w[master].attacked
           x == CASE w[m].attacked = NoCreature -> master
                  [] w[m].attacked = m -> NoCreature
                  [] OTHER -> w[m].attacked
<1>1. w \in World /\ Led(w) /\ Aimed(w, {}, NoCreature, 0)
  BY DEF Good
<1>2. master \in Creature \cup {NoCreature} /\ w[m].attacked \in Creature \cup {NoCreature}
  BY <1>1 DEF World, Record
<1>3. lead \in Creature \cup {NoCreature}
  BY <1>1, <1>2 DEF World, Record
<1>4. x = master \/ x = NoCreature \/ x = w[m].attacked
  OBVIOUS
<1>5. w[m].status = "game" /\ x # NoCreature => w[x].status = "game"
  <2>1. w[m].status = "game" /\ master # NoCreature => w[master].status = "game"
    BY <1>1 DEF Led
  <2>2. w[m].status = "game" /\ w[m].attacked # NoCreature => w[w[m].attacked].status = "game"
    BY <1>1 DEF Aimed, Aims, Fixed
  <2> HIDE DEF master, x
  <2> QED
    BY <1>4, <2>1, <2>2
<1>6. {m} \in SUBSET Creature
  OBVIOUS
<1>7. ChooseTarget(w, m, t) =
        CASE master = NoCreature -> IF t[1] = "search" THEN SelectTarget(w, {m}, t[2]) ELSE w
          [] master # NoCreature /\ w[m].attacked = NoCreature /\ lead # NoCreature -> SelectTarget(w, {m}, lead)
          [] OTHER -> SetFollowCreature(w, {m}, x)
  BY DEF ChooseTarget
<1>8. x \in Creature \cup {NoCreature}
  BY <1>2, <1>4
<1> HIDE DEF master, lead, x
<1>9. CASE master = NoCreature
  <2>1. Keeps(w, w)
    BY <1>1 DEF Keeps
  <2>2. t[1] = "search" => Keeps(w, SelectTarget(w, {m}, t[2]))
    BY <1>1, <1>6, SelectTargetKeeps DEF Thought
  <2> QED
    BY <1>7, <1>9, <2>1, <2>2
<1>10. CASE master # NoCreature /\ w[m].attacked = NoCreature /\ lead # NoCreature
  <2>1. Keeps(w, SelectTarget(w, {m}, lead))
    BY <1>1, <1>3, <1>6, <1>10, SelectTargetKeeps
  <2> QED
    BY <1>7, <1>10, <2>1
<1>11. CASE master # NoCreature /\ ~(w[m].attacked = NoCreature /\ lead # NoCreature)
  <2>1. Keeps(w, SetFollowCreature(w, {m}, x))
    BY <1>1, <1>5, <1>8, SetFollowKeeps
  <2> QED
    BY <1>7, <1>11, <2>1
<1> QED
  BY <1>9, <1>10, <1>11

(* Who summons is in the game, for only those are checked.                   *)
LEMMA ThinkGood ==
  ASSUME NEW w, Good(w), NEW m \in Creature, NEW t, Thought(w, t), NEW first
  PROVE  Good(Think(w, m, t, first))
<1> DEFINE v == ChooseTarget(w, m, t)
<1>1. w \in World
  BY DEF Good
<1>2. Keeps(w, v)
  BY ChooseTargetKeeps
<1> HIDE DEF v
<1>3. Good(v) /\ v \in World
  BY <1>1, <1>2, KeepsGood DEF Keeps
<1>4. ASSUME w[m].check, t[1] = "summon"
      PROVE  Good(SetMaster(PlaceCreature(v, t[2], v[m].at, first), t[2], m))
  <2> DEFINE c == t[2]
             u == PlaceCreature(v, c, v[m].at, first)
  <2>1. w[m].status = "game"
    BY <1>1, <1>4 DEF World, Record
  <2>2. c \in Monster /\ c \in Creature /\ v[c].status = "free" /\ v[m].status = "game" /\ m # c
    BY <1>2, <1>4, <2>1 DEF Thought, Keeps, Creature
  <2>3. v[m].at \in Position
    BY <1>3 DEF World, Record
  <2> HIDE DEF c
  <2>4. /\ Good(u) /\ u[c].status = "game"
        /\ \A d \in Creature \ {c} : u[d].status = v[d].status
    BY <1>3, <2>2, <2>3, PlaceCreatureGood
  <2> HIDE DEF u
  <2>5. Good(SetMaster(u, c, m))
    BY <2>2, <2>4, SetMasterGood
  <2> QED
    BY <2>5 DEF u, c
<1>5. w[m].check => Good(OnThinkDefense(v, m, t, first))
  BY <1>3, <1>4 DEF OnThinkDefense
<1> QED
  BY <1>5 DEF Think, v

(* A monster that falls asleep forgets its lists.                            *)
LEMMA FallAsleepAlike ==
  ASSUME NEW w \in World, NEW m \in Creature
  PROVE  Alike(w, FallAsleep(w, m))
<1> DEFINE about == {c \in InGame(w) \ {m} : Sees(w, m, w[c].at)}
           r == w[m]
           p == SetIdle(r, TRUE)
           q == [p EXCEPT !.unseen = about]
<1>1. Alike(w, w)
  BY DEF Alike, Same, World
<1>2. r \in Record /\ about \subseteq Creature
  BY DEF World, InGame
<1>3. FallAsleep(w, m) \in {w, [w EXCEPT ![m] = q]}
  BY DEF FallAsleep
<1> HIDE DEF about
<1>4. Same(r, q)
  <2> HIDE DEF r
  <2>1. Same(r, p)
    BY <1>2, SetIdleSame
  <2> HIDE DEF p
  <2>2. Same(p, q)
    BY <1>2, <2>1 DEF Same, Record
  <2> HIDE DEF q
  <2> QED
    BY <2>1, <2>2, SameTrans
<1> HIDE DEF q
<1>5. Alike(w, [w EXCEPT ![m] = q])
  BY <1>4, ExceptAlike
<1> QED
  BY <1>1, <1>3, <1>5

(* Monster::onThink, at home or sent there.                                  *)
LEMMA OnThinkGood ==
  ASSUME NEW w, Good(w), NEW m \in Creature, NEW t, Thought(w, t), NEW first
  PROVE  Good(OnThink(w, m, t, first))
<1>1. w \in World
  BY DEF Good
<1>2. CASE InSpawnRange(m, w[m].at)
  <2> DEFINE q == UpdateIdleStatus(w[m])
             v == [w EXCEPT ![m] = q]
  <2>1. Same(w[m], q)
    BY <1>1, SetIdleSame DEF UpdateIdleStatus, World
  <2> HIDE DEF q
  <2>2. Alike(w, v)
    BY <1>1, <2>1, ExceptAlike
  <2>3. OnThink(w, m, t, first) = Think(v, m, t, first)
    BY <1>2 DEF OnThink, q
  <2> HIDE DEF v
  <2>4. Good(v)
    BY <2>2, AlikeGood
  <2>5. Thought(v, t)
    BY <2>2 DEF Alike, Same, Thought, Creature
  <2> QED
    BY <2>3, <2>4, <2>5, ThinkGood
<1>3. CASE ~InSpawnRange(m, w[m].at)
  <2> DEFINE room == t[1] # "homeless"
             v == IF room /\ m \in InGame(w) THEN MoveCreature(w, m, Entrance[m], first) ELSE w
  <2>1. OnThink(w, m, t, first) = FallAsleep(v, m)
    BY <1>3 DEF OnThink, SendHome
  <2>2. Entrance[m] \in Position
    BY CreaturesAssumption DEF CreaturesAssumption
  <2>3. Good(v)
    BY <2>2, MoveCreatureGood
  <2> HIDE DEF v
  <2>4. Alike(v, FallAsleep(v, m))
    BY <2>3, FallAsleepAlike DEF Good
  <2> QED
    BY <2>1, <2>3, <2>4, AlikeGood
<1> QED
  BY <1>2, <1>3

(* Game::checkCreatures, of one creature, whatever it thinks.                *)
LEMMA CheckCreatureGood ==
  ASSUME NEW w, Good(w), NEW c \in Creature, NEW t \in Thoughts(w, c), NEW first
  PROVE  Good(CheckCreature(w, c, t, first))
<1>1. w \in World
  BY DEF Good
<1>2. CASE ~w[c].check
  <2> DEFINE r == w[c]
             q == [r EXCEPT !.listed = FALSE, !.released = TRUE]
  <2>1. r \in Record
    BY <1>1 DEF World
  <2>2. Same(r, q)
    <3> HIDE DEF r
    <3> QED
      BY <2>1 DEF Same, Record
  <2>3. CheckCreature(w, c, t, first) = [w EXCEPT ![c] = q]
    BY <1>1, <1>2 DEF CheckCreature, World
  <2> HIDE DEF q
  <2> QED
    BY <1>1, <2>2, <2>3, ExceptAlike, AlikeGood
<1>3. CASE w[c].check /\ w[c].dead
  <2>1. w[c].status = "game"
    BY <1>1, <1>3 DEF World, Record
  <2>2. CheckCreature(w, c, t, first) = OnDeath(w, c, first)
    BY <1>3 DEF CheckCreature
  <2> QED
    BY <2>1, <2>2, OnDeathGood
<1>4. CASE w[c].check /\ ~w[c].dead /\ c \in Character
  BY <1>4 DEF CheckCreature
<1>5. CASE w[c].check /\ ~w[c].dead /\ c \notin Character
  <2> DEFINE v == IF t[1] = "banished" THEN RemoveCreatures(w, {c}, first)
                  ELSE GoToFollowCreature(w, c, t[1] # "stuck")
  <2>1. CheckCreature(w, c, t, first) = OnThink(v, c, t, first)
    BY <1>5 DEF CheckCreature
  <2>2. Thought(w, t)
    <3>1. w[c].targets \subseteq Creature
      BY <1>1 DEF World, Record
    <3>2. t[1] = "search" => t[2] \in w[c].targets
      BY DEF Thoughts
    <3>3. t[1] = "summon" => t[2] \in Monster /\ w[t[2]].status = "free"
      BY DEF Thoughts
    <3> QED
      BY <3>1, <3>2, <3>3 DEF Thought
  <2>3. CASE t[1] = "banished"
    <3>1. Good(v)
      BY <2>3, RemoveCreaturesGood
    <3>2. Thought(v, t)
      BY <2>3 DEF Thought
    <3> QED
      BY <2>1, <3>1, <3>2, OnThinkGood
  <2>4. CASE t[1] # "banished"
    <3>1. v = GoToFollowCreature(w, c, t[1] # "stuck")
      BY <2>4
    <3> HIDE DEF v
    <3>2. Alike(w, v)
      BY <1>1, <3>1, GoToFollowAlike
    <3>3. Good(v)
      BY <3>2, AlikeGood
    <3>4. Thought(v, t)
      BY <2>2, <3>2 DEF Alike, Same, Thought, Creature
    <3> QED
      BY <2>1, <3>3, <3>4, OnThinkGood
  <2> QED
    BY <2>3, <2>4
<1> QED
  BY <1>2, <1>3, <1>4, <1>5

-----------------------------------------------------------------------------
(* The tasks.                                                                *)

(* At first nobody is there.                                                 *)
LEMMA InitGood ==
  ASSUME CreaturesInit
  PROVE  CreaturesIInv
<1> DEFINE w == creatures
<1>1. \A c \in Creature : w[c] = Unborn
  BY DEF CreaturesInit
<1>2. w \in World
  BY UnbornIs DEF CreaturesInit, World
<1>3. \A c \in Creature : /\ w[c].status = "free" /\ w[c].master = NoCreature /\ w[c].summons = {}
  BY <1>1, UnbornIs
<1>4. NoCreature \notin Creature
  BY CreaturesAssumption DEF CreaturesAssumption
<1> HIDE DEF w
<1>5. Kin(w) /\ Led(w) /\ Aimed(w, {}, NoCreature, 0)
  BY <1>3, <1>4 DEF Kin, Led, Aimed
<1> QED
  BY <1>2, <1>5 DEF CreaturesIInv, Good, w

(* What a task leaves behind holds in the next state.                        *)
LEMMA BecomesGood ==
  ASSUME NEW w, Good(w), Becomes(w)
  PROVE  CreaturesIInv'
<1>1. creatures' = Collected(w) /\ Good(Collected(w))
  BY CollectedGood DEF Becomes
<1> HIDE DEF CreaturesIInv
<1>2. Good(creatures')
  BY <1>1
<1> QED
  BY <1>2 DEF CreaturesIInv, Good, Aimed, Kin, Led, Fixed, Adrift, Sees

(* Each task leaves a good world.                                            *)
LEMMA CheckCreaturesStep ==
  ASSUME CreaturesIInv, NEW c \in Creature, NEW first, CheckCreatures(c, first)
  PROVE  CreaturesIInv'
<1>1. PICK t \in Thoughts(creatures, c) : Becomes(CleanUp(CheckCreature(creatures, c, t, first)))
  BY DEF CheckCreatures
<1> DEFINE v == CheckCreature(creatures, c, t, first)
<1>2. Good(v)
  BY CheckCreatureGood DEF CreaturesIInv
<1> HIDE DEF v
<1>3. Good(CleanUp(v))
  BY <1>2, CleanUpAlike, AlikeGood DEF Good
<1> QED
  BY <1>1, <1>3, BecomesGood DEF v

(* Each task keeps the pointers good: a creature enters,                    *)
LEMMA EnterStep ==
  ASSUME CreaturesIInv, NEW c \in Creature, NEW first, Enter(c, first)
  PROVE  CreaturesIInv'
<1>1. Entrance[c] \in Position
  BY CreaturesAssumption DEF CreaturesAssumption
<1>2. Good(PlaceCreature(creatures, c, Entrance[c], first))
  BY <1>1, PlaceCreatureGood DEF CreaturesIInv, Enter
<1> QED
  BY <1>2, BecomesGood DEF Enter

(* ... leaves,                                                              *)
LEMMA QuitStep ==
  ASSUME CreaturesIInv, NEW c \in Creature, NEW first, Quit(c, first)
  PROVE  CreaturesIInv'
<1>1. Good(RemoveCreatures(creatures, {c}, first))
  BY RemoveCreaturesGood DEF CreaturesIInv
<1> QED
  BY <1>1, BecomesGood DEF Quit

(* ... moves,                                                               *)
LEMMA MoveStep ==
  ASSUME CreaturesIInv, NEW c \in Creature, NEW to \in Position, NEW first, Move(c, to, first)
  PROVE  CreaturesIInv'
<1>1. Good(MoveCreature(creatures, c, to, first))
  BY MoveCreatureGood DEF CreaturesIInv
<1> QED
  BY <1>1, BecomesGood DEF Move

(* ... a player attacks,                                                    *)
LEMMA AttackStep ==
  ASSUME CreaturesIInv, NEW p \in Character, NEW x \in Creature \cup {NoCreature}, NEW chase \in BOOLEAN,
         PlayerSetAttackedCreature(p, x, chase)
  PROVE  CreaturesIInv'
<1> DEFINE w == creatures
           v == SetAttackedCreature(w, {p}, x)
           y == IF chase THEN x ELSE NoCreature
           u == SetFollowCreature(v, {p}, y)
<1>1. Good(w) /\ w \in World
  BY DEF CreaturesIInv, Good
<1>2. p \in Creature /\ {p} \in SUBSET Creature
  BY DEF Creature
<1>3. x # NoCreature => x \in Creature /\ w[x].status = "game"
  BY DEF PlayerSetAttackedCreature, InGame
<1>4. Becomes(IF Reaches(v, p, x) THEN u ELSE v)
  BY DEF PlayerSetAttackedCreature
<1> HIDE DEF w
<1>5. Redirected(w, v, x)
  BY <1>1, <1>2, SetAttackedIs
<1> HIDE DEF v
<1>6. Keeps(w, v)
  BY <1>1, <1>3, <1>5, RedirectedKeeps
<1>7. Good(v) /\ v \in World
  BY <1>1, <1>6, KeepsGood DEF Keeps
<1>8. y \in Creature \cup {NoCreature} /\ (y # NoCreature => v[y].status = "game")
  BY <1>3, <1>6 DEF Keeps
<1> HIDE DEF y
<1>9. Keeps(v, u)
  BY <1>2, <1>7, <1>8, SetFollowKeeps
<1>10. Good(u)
  BY <1>7, <1>9, KeepsGood
<1> HIDE DEF u
<1> QED
  BY <1>4, <1>7, <1>10, BecomesGood

(* ... or follows,                                                          *)
LEMMA FollowStep ==
  ASSUME CreaturesIInv, NEW p \in Character, NEW x \in Creature \cup {NoCreature},
         PlayerFollowCreature(p, x)
  PROVE  CreaturesIInv'
<1> DEFINE w == creatures
           v == Drop(w, {p}, {p})
           u == SetFollowCreature(v, {p}, x)
<1>1. Good(w) /\ w \in World
  BY DEF CreaturesIInv, Good
<1>2. p \in Creature /\ {p} \in SUBSET Creature
  BY DEF Creature
<1>3. x # NoCreature => x \in Creature /\ w[x].status = "game"
  BY DEF PlayerFollowCreature, InGame
<1>4. Becomes(u)
  BY DEF PlayerFollowCreature
<1> HIDE DEF w
<1>5. Keeps(w, v)
  BY <1>1, <1>2, DropKeeps
<1> HIDE DEF v
<1>6. Good(v) /\ v \in World
  BY <1>1, <1>5, KeepsGood DEF Keeps
<1>7. Keeps(v, u)
  <2>1. x # NoCreature => v[x].status = "game"
    BY <1>3, <1>5 DEF Keeps
  <2> QED
    BY <1>2, <1>6, <2>1, SetFollowKeeps
<1>8. Good(u)
  BY <1>6, <1>7, KeepsGood
<1> HIDE DEF u
<1> QED
  BY <1>4, <1>8, BecomesGood

(* ... a monster walks,                                                     *)
LEMMA WalkStep ==
  ASSUME CreaturesIInv, NEW m \in Monster, UpdateCreatureWalk(m)
  PROVE  CreaturesIInv'
<1>1. Good(creatures) /\ creatures \in World /\ m \in Creature
  BY DEF CreaturesIInv, Good, Creature
<1>2. Good(GoToFollowCreature(creatures, m, FALSE))
  BY <1>1, GoToFollowAlike, AlikeGood
<1> QED
  BY <1>2, BecomesGood DEF UpdateCreatureWalk

(* ... somebody is hit,                                                     *)
LEMMA HitStep ==
  ASSUME CreaturesIInv, NEW k \in Creature, NEW c \in Creature, NEW fatal \in BOOLEAN,
         Hit(k, c, fatal)
  PROVE  CreaturesIInv'
<1> DEFINE w == creatures
           q == ChangeHealth(w[c], c, fatal)
<1>1. Good(w) /\ w \in World
  BY DEF CreaturesIInv, Good
<1>2. Becomes([w EXCEPT ![c] = q])
  BY DEF Hit
<1> HIDE DEF w
<1>3. Same(w[c], q)
  BY <1>1, ChangeHealthSame DEF World
<1> HIDE DEF q
<1>4. Good([w EXCEPT ![c] = q])
  BY <1>1, <1>3, ExceptAlike, AlikeGood
<1> QED
  BY <1>2, <1>4, BecomesGood

(* Who is convinced first turns from everybody.                              *)
LEMMA ConvinceIs ==
  ASSUME CreaturesIInv, NEW p \in Character, NEW m \in Monster, Convince(p, m)
  PROVE  \E u : /\ Good(u) /\ Wary(creatures, u, {})
               /\ Good(SetMaster(u, m, p)) /\ Becomes(SetMaster(u, m, p))
<1> DEFINE w == creatures
           v == SetAttackedCreature(w, {m}, NoCreature)
           r == v[m]
           q == [r EXCEPT !.follow = NoCreature]
           u == [v EXCEPT ![m] = q]
<1>1. Good(w) /\ w \in World
  BY DEF CreaturesIInv, Good
<1>2. /\ m \in Creature /\ {m} \in SUBSET Creature
      /\ p \in Creature /\ p # m /\ NoCreature \in Creature \cup {NoCreature}
  BY CreaturesAssumption DEF CreaturesAssumption, Creature
<1>3. w[p].status = "game" /\ w[m].status = "game"
  BY DEF Convince, InGame
<1>4. Becomes(SetMaster(u, m, p))
  BY DEF Convince
<1> HIDE DEF w
<1>5. Redirected(w, v, NoCreature)
  BY <1>1, <1>2, SetAttackedIs
<1> HIDE DEF v
<1>6. v \in World
  BY <1>5 DEF Redirected
<1>7. r \in Record
  BY <1>2, <1>6 DEF World
<1>8. /\ q \in Record /\ q.attacked = r.attacked /\ q.follow = NoCreature
      /\ q = [r EXCEPT !.attacked = q.attacked, !.follow = q.follow]
  <2> HIDE DEF r
  <2> QED
    BY <1>7 DEF Record
<1> HIDE DEF q
<1>9. u \in World /\ u[m] = q /\ \A d \in Creature \ {m} : u[d] = v[d]
  BY <1>2, <1>6, <1>8 DEF World
<1> HIDE DEF u
<1>10. Redirected(v, u, NoCreature)
  <2>1. \A d \in Creature : v[d] = [v[d] EXCEPT !.attacked = v[d].attacked, !.follow = v[d].follow]
    <3> SUFFICES ASSUME NEW d \in Creature
                 PROVE  v[d] = [v[d] EXCEPT !.attacked = v[d].attacked, !.follow = v[d].follow]
      OBVIOUS
    <3>1. v[d] \in Record
      BY <1>6 DEF World
    <3> QED
      BY <3>1 DEF Record
  <2>2. \A d \in Creature : u[d] = [v[d] EXCEPT !.attacked = u[d].attacked, !.follow = u[d].follow]
    BY <1>8, <1>9, <2>1
  <2>3. \A d \in Creature : \A y \in Aims(u[d]) : y \in Aims(v[d])
    BY <1>8, <1>9 DEF Aims
  <2> QED
    BY <1>9, <2>2, <2>3 DEF Redirected
<1>11. Keeps(w, u)
  BY <1>1, <1>5, <1>6, <1>10, RedirectedKeeps, KeepsTrans
<1>12. Good(u) /\ u[p].status = "game" /\ u[m].status # "free"
  BY <1>1, <1>2, <1>3, <1>11, KeepsGood DEF Keeps
<1>13. Good(SetMaster(u, m, p))
  BY <1>2, <1>12, SetMasterGood
<1>14. Wary(w, u, {})
  <2>1. Wary(w, v, {}) /\ Wary(v, u, {}) /\ {} \cup {} = {}
    BY <1>1, <1>5, <1>6, <1>10, RedirectedWary
  <2> QED
    BY <2>1, WaryTrans
<1> QED
  BY <1>4, <1>12, <1>13, <1>14 DEF w

(* ... a monster is convinced.                                              *)
LEMMA ConvinceStep ==
  ASSUME CreaturesIInv, NEW p \in Character, NEW m \in Monster, Convince(p, m)
  PROVE  CreaturesIInv'
BY ConvinceIs, BecomesGood

(* Every pointer to a creature is good between the tasks of the dispatcher:  *)
(* whom one attacks or follows is in the game and in its sight, a master     *)
(* that leaves takes its summons along, and nothing is left of a creature    *)
(* that is freed.                                                            *)
THEOREM CreaturesInvariance == CreaturesSpec => []CreaturesIInv
<1>1. CreaturesInit => CreaturesIInv
  BY InitGood
<1>2. CreaturesIInv /\ [CreaturesNext]_creatures => CreaturesIInv'
  <2> SUFFICES ASSUME CreaturesIInv, [CreaturesNext]_creatures
               PROVE  CreaturesIInv'
    OBVIOUS
  <2>1. ASSUME NEW first \in BOOLEAN, NEW c \in Creature, CheckCreatures(c, first)
        PROVE  CreaturesIInv'
    BY <2>1, CheckCreaturesStep
  <2>2. ASSUME NEW first \in BOOLEAN, NEW c \in Creature, Enter(c, first)
        PROVE  CreaturesIInv'
    BY <2>2, EnterStep
  <2>3. ASSUME NEW first \in BOOLEAN, NEW c \in Creature, Quit(c, first)
        PROVE  CreaturesIInv'
    BY <2>3, QuitStep
  <2>4. ASSUME NEW first \in BOOLEAN, NEW c \in Creature, NEW to \in Position, Move(c, to, first)
        PROVE  CreaturesIInv'
    BY <2>4, MoveStep
  <2>5. ASSUME NEW p \in Character, NEW x \in Creature \cup {NoCreature}, NEW chase \in BOOLEAN,
               PlayerSetAttackedCreature(p, x, chase)
        PROVE  CreaturesIInv'
    BY <2>5, AttackStep
  <2>6. ASSUME NEW p \in Character, NEW x \in Creature \cup {NoCreature}, PlayerFollowCreature(p, x)
        PROVE  CreaturesIInv'
    BY <2>6, FollowStep
  <2>7. ASSUME NEW m \in Monster, UpdateCreatureWalk(m)
        PROVE  CreaturesIInv'
    BY <2>7, WalkStep
  <2>8. ASSUME NEW m \in Monster, NEW p \in Character, Convince(p, m)
        PROVE  CreaturesIInv'
    BY <2>8, ConvinceStep
  <2>9. ASSUME NEW k \in Creature, NEW c \in Creature, NEW fatal \in BOOLEAN, Hit(k, c, fatal)
        PROVE  CreaturesIInv'
    BY <2>9, HitStep
  <2>10. ASSUME UNCHANGED creatures
         PROVE  CreaturesIInv'
    BY <2>10 DEF CreaturesIInv, Good, Aimed, Kin, Led, Fixed, Adrift, Sees
  <2> QED
    BY <2>1, <2>2, <2>3, <2>4, <2>5, <2>6, <2>7, <2>8, <2>9, <2>10 DEF CreaturesNext
<1> QED
  BY <1>1, <1>2, PTL DEF CreaturesSpec

(* Nothing points to an object that was freed, whoever leaves, dies, moves   *)
(* or is convinced in the middle of what the others do.                      *)
THEOREM PointersAreGood == CreaturesSpec => []NothingDangles
<1>1. CreaturesIInv => NothingDangles
  <2> SUFFICES ASSUME CreaturesIInv
               PROVE  NothingDangles
    OBVIOUS
  <2>1. /\ creatures \in World /\ Kin(creatures) /\ Led(creatures)
        /\ Aimed(creatures, {}, NoCreature, 0)
    BY DEF CreaturesIInv, Good
  <2>2. CreaturesTypeOK
    BY <2>1 DEF World, Record, CreaturesTypeOK
  <2>3. ASSUME NEW c \in InGame(creatures)
        PROVE  LET r == creatures[c]
               IN  /\ {r.attacked, r.follow, r.master} \subseteq InGame(creatures) \cup {NoCreature}
                   /\ Reaches(creatures, c, r.attacked) /\ Reaches(creatures, c, r.follow)
                   /\ \A d \in Creature : d \in r.summons <=> creatures[d].master = c
    <3> DEFINE r == creatures[c]
    <3>1. c \in Creature /\ r.status = "game"
      BY DEF InGame
    <3>2. /\ r.attacked \in Creature \cup {NoCreature} /\ r.follow \in Creature \cup {NoCreature}
          /\ r.master \in Creature \cup {NoCreature}
      BY <2>1, <3>1 DEF World, Record
    <3>3. \A x \in Aims(r) : Fixed(creatures, c, x)
      BY <2>1, <3>1 DEF Aimed
    <3>4. r.master = NoCreature \/ creatures[r.master].status = "game"
      BY <2>1, <3>1 DEF Led
    <3>5. \A d \in Creature : d \in r.summons <=> creatures[d].master = c
      BY <2>1, <3>1 DEF Kin
    <3> HIDE DEF r
    <3>6. \A x \in {r.attacked, r.follow} : x = NoCreature \/ Fixed(creatures, c, x)
      BY <3>3 DEF Aims
    <3>7. {r.attacked, r.follow, r.master} \subseteq InGame(creatures) \cup {NoCreature}
      BY <3>2, <3>4, <3>6 DEF InGame, Fixed
    <3>8. Reaches(creatures, c, r.attacked) /\ Reaches(creatures, c, r.follow)
      BY <3>6 DEF Reaches, Fixed
    <3> QED
      BY <3>5, <3>7, <3>8 DEF r
  <2> QED
    BY <2>2, <2>3 DEF NothingDangles
<1> QED
  BY <1>1, CreaturesInvariance, PTL

-----------------------------------------------------------------------------
(* Monsters are alert after every function of a task.                        *)

(* Who forgets nobody is as alert as before.                                *)
LEMMA WaryAwake ==
  ASSUME NEW w, NEW v, Wary(w, v, {})
  PROVE  Awake(w, v)
<1>1. \A E : E \cup {} = E
  OBVIOUS
<1> QED
  BY <1>1, WaryAlert DEF Awake

(* Losing sight of a creature leaves the monsters as alert.                 *)
LEMMA LoseSightAwake ==
  ASSUME NEW w \in World, NEW S \in SUBSET Creature, NEW c \in Creature, NEW old
  PROVE  Keeps(w, LoseSight(w, S, c, old)) /\ Awake(w, LoseSight(w, S, c, old))
<1> DEFINE Loses(s, x) == /\ x # NoCreature /\ c \in {s, x}
                          /\ w[c].at.z # old.z \/ ~Sees(w, s, w[x].at)
           A == {s \in S : Loses(s, w[s].attacked)}
           F == {s \in S : Loses(s, w[s].follow)}
<1>1. LoseSight(w, S, c, old) = Drop(w, A, F)
  BY DEF LoseSight
<1>2. A \in SUBSET Creature /\ F \in SUBSET Creature
  OBVIOUS
<1> HIDE DEF A, F
<1> QED
  BY <1>1, <1>2, DropKeeps, DropWary, WaryAwake

(* A monster that looks around misses nobody.                                *)
LEMMA LookAlert ==
  ASSUME NEW w \in World, NEW c \in Monster, NEW q, NEW E,
         Alert(w, E \cup ({c} \X Character)),
         q.status = w[c].status, q.at = w[c].at, Sound(c, w[c]) => Sound(c, q),
         \A p \in Character : Misses(c, q, p) =>
            Wild(c, w[c]) /\ ~(w[p].status = "game" /\ Sees(w, c, w[p].at))
  PROVE  Alert([w EXCEPT ![c] = q], E)
<1> DEFINE v == [w EXCEPT ![c] = q]
<1>1. c \in Creature /\ c \notin Character
  BY CreaturesAssumption DEF CreaturesAssumption, Creature
<1>2. v[c] = q /\ \A d \in Creature \ {c} : v[d] = w[d]
  BY <1>1 DEF World
<1> HIDE DEF v
<1>3. \A m \in Creature : Sound(m, v[m])
  BY <1>1, <1>2 DEF Alert
<1>4. ASSUME NEW m \in Creature, NEW p \in Character,
             Misses(m, v[m], p), v[p].status = "game", Sees(v, m, v[p].at)
      PROVE  <<m, p>> \in E
  <2>1. p \in Creature \ {c} /\ v[p] = w[p]
    BY <1>1, <1>2 DEF Creature
  <2>2. v[m].at = w[m].at
    BY <1>2
  <2>3. Sees(w, m, w[p].at)
    BY <1>4, <2>1, <2>2 DEF Sees
  <2>4. m # c
    BY <1>2, <1>4, <2>1, <2>3
  <2>5. <<m, p>> \in E \cup ({c} \X Character)
    BY <1>2, <1>4, <2>1, <2>3, <2>4 DEF Alert
  <2> QED
    BY <2>4, <2>5
<1> QED
  BY <1>3, <1>4 DEF Alert, v

Stays(w, v) == v \in World /\ \A d \in Creature : v[d].at = w[d].at

(* The one that has moved looks around.                                      *)
LEMMA MoveSelfAlert ==
  ASSUME NEW w \in World, NEW c \in Creature, NEW old, NEW first, NEW E,
         Kin(w), Alert(w, E \cup ({c} \X Character))
  PROVE  Stays(w, MoveSelf(w, c, old, first)) /\ Alert(MoveSelf(w, c, old, first), E)
<1> DEFINE away == {d \in w[c].summons : ~Within(2, w[c].at.z - w[d].at.z)
                                         \/ ~Within(30, w[c].at.x - w[d].at.x)}
           u == RemoveCreatures(w, away, first)
           t == LoseSight(u, {c}, c, old)
           q == LookAround(t, c, first)
           v == IF c \in Monster THEN [t EXCEPT ![c] = q] ELSE t
<1>1. MoveSelf(w, c, old, first) = v
  BY DEF MoveSelf
<1> HIDE DEF away
<1>2. u \in World /\ Awake(w, u) /\ \A d \in Creature : u[d].at = w[d].at
  BY RemoveCreaturesShrinks DEF Shrinks
<1> HIDE DEF u
<1>3. Keeps(u, t) /\ Awake(u, t)
  BY <1>2, LoseSightAwake
<1> HIDE DEF t
<1>4. t \in World /\ \A d \in Creature : t[d].at = w[d].at
  BY <1>2, <1>3 DEF Keeps
<1>5. Alert(t, E \cup ({c} \X Character))
  BY <1>2, <1>3 DEF Awake
<1>6. CASE c \in Monster
  <2>1. Same(t[c], q)
    BY <1>4, LookSame
  <2>2. /\ Sound(c, t[c]) => Sound(c, q)
        /\ \A p \in Character : Misses(c, q, p) =>
             Wild(c, t[c]) /\ ~(t[p].status = "game" /\ Sees(t, c, t[p].at))
    BY <1>4, <1>6, LookMinds
  <2>3. v = [t EXCEPT ![c] = q]
    BY <1>6
  <2> HIDE DEF q, v
  <2>4. Alert(v, E)
    BY <1>4, <1>5, <1>6, <2>1, <2>2, <2>3, LookAlert DEF Same
  <2>5. v \in World /\ \A d \in Creature : v[d].at = t[d].at
    BY <1>4, <2>1, <2>3 DEF World, Same
  <2> QED
    BY <1>1, <1>4, <2>4, <2>5 DEF Stays
<1>7. CASE c \notin Monster
  <2>1. \A p : ~Misses(c, t[c], p)
    BY <1>7 DEF Misses, Wild
  <2>2. ASSUME NEW m \in Creature, NEW p \in Character,
               Misses(m, t[m], p), t[p].status = "game", Sees(t, m, t[p].at)
        PROVE  <<m, p>> \in E
    BY <1>5, <2>1, <2>2 DEF Alert
  <2>3. Alert(t, E)
    BY <1>5, <2>2 DEF Alert
  <2> QED
    BY <1>1, <1>4, <1>7, <2>3 DEF Stays
<1> QED
  BY <1>6, <1>7

(* Those who are told list it if it comes into their sight, and keep it on   *)
(* their list as long as they see it.                                        *)
LEMMA ComeOrGoAlert ==
  ASSUME NEW w \in World, NEW S \in SUBSET Creature, NEW c \in Creature, NEW old, NEW first,
         NEW E, NEW N, Alert(w, E \cup N),
         \A e \in N : /\ e[1] \in S /\ e[2] = c
                      /\ Sees(w, e[1], w[c].at) /\ ~Sees(w, e[1], old)
  PROVE  Alert(ComeOrGo(w, S, c, old, first), E)
<1> DEFINE F(m) == CASE Sees(w, m, w[c].at) /\ ~Sees(w, m, old) -> OnCreatureFound(w, m, w[m], {c}, first)
                     [] ~Sees(w, m, w[c].at) /\ Sees(w, m, old) -> UpdateIdleStatus(OnCreatureLeave(w, m, w[m], c))
                     [] OTHER -> UpdateIdleStatus(w[m])
           f == [m \in S \cap Monster |-> F(m)]
           v == Changed(w, f)
<1>1. ComeOrGo(w, S, c, old, first) = v
  BY DEF ComeOrGo
<1>2. \A m \in Creature : v[m] = IF m \in S \cap Monster THEN F(m) ELSE w[m]
  BY DEF Changed
<1>3. Alike(w, v)
  BY <1>1, ComeOrGoAlike
<1>4. \A m \in Creature : v[m].status = w[m].status /\ v[m].at = w[m].at
  BY <1>3 DEF Alike, Same
<1> HIDE DEF v
<1>5. ASSUME NEW m \in S \cap Monster
      PROVE  /\ Sound(m, v[m])
             /\ \A p \in Character : Misses(m, v[m], p) =>
                  \/ Misses(m, w[m], p)
                  \/ p = c /\ ~Sees(w, m, w[c].at)
             /\ Sees(w, m, w[c].at) /\ ~Sees(w, m, old) => \A p \in Character : Misses(m, v[m], p) => p # c
  <2>1. m \in Monster /\ m \in Creature /\ w[m] \in Record /\ Sound(m, w[m]) /\ v[m] = F(m)
    BY <1>2 DEF World, Alert
  <2>2. w[m].dead /\ w[m].status = "game" => w[m].check
    BY <2>1 DEF Sound
  <2>3. CASE Sees(w, m, w[c].at) /\ ~Sees(w, m, old)
    <3>1. v[m] = OnCreatureFound(w, m, w[m], {c}, first)
      BY <2>1, <2>3
    <3> HIDE DEF F
    <3>2. {c} \in SUBSET Creature
      OBVIOUS
    <3>3. /\ Sound(m, v[m])
          /\ \A p \in Character : Misses(m, v[m], p) => Misses(m, w[m], p) /\ p \notin {c}
      <4> DEFINE r == w[m]
                 q == OnCreatureFound(w, m, r, {c}, first)
      <4>1. /\ r.dead /\ r.status = "game" => r.check
            /\ r \in Record /\ m \in Monster /\ r.master = w[m].master /\ v[m] = q
        BY <2>1, <2>2, <3>1
      <4> HIDE DEF r
      <4>2. (r.dead /\ r.status = "game" => r.check) => Sound(m, q)
        BY <3>2, <4>1, FoundMinds
      <4>3. \A p \in Character : Misses(m, q, p) => Misses(m, r, p) /\ p \notin {c}
        BY <3>2, <4>1, FoundMinds
      <4> HIDE DEF q
      <4> QED
        BY <4>1, <4>2, <4>3 DEF r
    <3> QED
      BY <3>3
  <2>4. CASE ~Sees(w, m, w[c].at) /\ Sees(w, m, old)
    <3> DEFINE q == OnCreatureLeave(w, m, w[m], c)
    <3>1. v[m] = UpdateIdleStatus(q)
      BY <2>1, <2>4
    <3> HIDE DEF F
    <3>2. Same(w[m], q) /\ Minds(m, w[m], q, {<<m, c>>})
      BY <2>1, LeaveSame, LeaveMinds
    <3> HIDE DEF q
    <3>3. q \in Record /\ Sound(m, q)
      BY <2>1, <3>2 DEF Same, Minds
    <3>4. q.dead /\ q.status = "game" => q.check
      BY <3>3 DEF Sound
    <3>5. Sound(m, v[m]) /\ \A p \in Character : Misses(m, v[m], p) => Misses(m, q, p)
      BY <2>1, <3>1, <3>3, <3>4, SetIdleMinds
    <3>6. \A p \in Character : Misses(m, q, p) => Misses(m, w[m], p) \/ p = c
      BY <3>2 DEF Minds
    <3> QED
      BY <2>4, <3>5, <3>6
  <2>5. CASE ~(Sees(w, m, w[c].at) /\ ~Sees(w, m, old)) /\ ~(~Sees(w, m, w[c].at) /\ Sees(w, m, old))
    <3>1. v[m] = UpdateIdleStatus(w[m])
      BY <2>1, <2>5
    <3> HIDE DEF F
    <3> QED
      BY <2>1, <2>2, <2>5, <3>1, SetIdleMinds
  <2> QED
    BY <2>3, <2>4, <2>5
<1> HIDE DEF F, f
<1>6. \A m \in Creature : Sound(m, v[m])
  BY <1>2, <1>5 DEF Alert
<1>7. ASSUME NEW m \in Creature, NEW p \in Character,
             Misses(m, v[m], p), v[p].status = "game", Sees(v, m, v[p].at)
      PROVE  <<m, p>> \in E
  <2>1. p \in Creature /\ m \in Monster
    BY <1>7 DEF Creature, Misses, Wild
  <2>2. w[p].status = "game" /\ Sees(w, m, w[p].at)
    BY <1>4, <1>7, <2>1 DEF Sees
  <2>3. Misses(m, w[m], p)
    BY <1>2, <1>5, <1>7, <2>1, <2>2
  <2>4. <<m, p>> \in E \cup N
    BY <2>2, <2>3 DEF Alert
  <2>5. <<m, p>> \notin N
    <3> SUFFICES ASSUME <<m, p>> \in N PROVE FALSE
      OBVIOUS
    <3>1. m \in S /\ p = c /\ Sees(w, m, w[c].at) /\ ~Sees(w, m, old)
      OBVIOUS
    <3> QED
      BY <1>5, <1>7, <2>1, <3>1
  <2> QED
    BY <2>4, <2>5
<1> QED
  BY <1>1, <1>6, <1>7 DEF Alert

(* Those who are told of a creature that has moved.                          *)
LEMMA MoveOthersAlert ==
  ASSUME NEW w \in World, NEW S \in SUBSET Creature, NEW c \in Creature, NEW old, NEW first,
         NEW E, NEW N, Alert(w, E \cup N),
         \A e \in N : /\ e[1] \in S /\ e[2] = c
                      /\ Sees(w, e[1], w[c].at) /\ ~Sees(w, e[1], old)
  PROVE  LET v == MoveOthers(w, S, c, old, first)
         IN  Keeps(w, v) /\ Alert(v, E)
<1> DEFINE u == LoseSight(w, S, c, old)
           t == ComeOrGo(u, S, c, old, first)
           T == {m \in S \cap Monster : t[m].master = NoCreature /\ t[m].follow = NoCreature
                                        /\ IsOpponent(t, m, c)}
           v == SelectTarget(t, T, c)
<1>1. MoveOthers(w, S, c, old, first) = v
  BY DEF MoveOthers, TurnTo
<1>2. T \in SUBSET Creature
  OBVIOUS
<1> HIDE DEF T
<1>3. Keeps(w, u) /\ Awake(w, u)
  BY LoseSightAwake
<1> HIDE DEF u
<1>4. u \in World /\ (\A d \in Creature : u[d].at = w[d].at) /\ Alert(u, E \cup N)
  BY <1>3 DEF Keeps, Awake
<1>5. \A e \in N : /\ e[1] \in S /\ e[2] = c
                   /\ Sees(u, e[1], u[c].at) /\ ~Sees(u, e[1], old)
  BY <1>4 DEF Sees
<1>6. Alert(t, E)
  BY <1>4, <1>5, ComeOrGoAlert
<1>7. Keeps(u, t) /\ t \in World
  BY <1>4, ComeOrGoAlike, AlikeKeeps DEF Alike
<1> HIDE DEF t
<1>8. Keeps(t, v) /\ Awake(t, v)
  BY <1>2, <1>7, SelectTargetKeeps, SelectTargetWary, WaryAwake
<1> HIDE DEF v
<1>9. Keeps(w, v)
  BY <1>3, <1>7, <1>8, KeepsTrans
<1> QED
  BY <1>1, <1>6, <1>8, <1>9 DEF Awake

(* Map::moveCreature: it may miss whomever it sees now, and those who see it *)
(* now and did not before may miss it, but they are told.                    *)
LEMMA MoveCreatureAlert ==
  ASSUME NEW w, NEW c \in Creature, NEW to \in Position, NEW first, Good(w), Alert(w, {})
  PROVE  Alert(MoveCreature(w, c, to, first), {})
<1> DEFINE old == w[c].at
           v == [w EXCEPT ![c].at = to]
           told == (Spectators(w, old) \cup Spectators(v, to)) \ {c}
           H == {c} \X Character
           N == {e \in told \X {c} : Sees(v, e[1], v[c].at) /\ ~Sees(v, e[1], old)}
<1>1. w \in World /\ Kin(w) /\ Led(w) /\ Aimed(w, {}, NoCreature, 0)
  BY DEF Good
<1>2. v \in World /\ Kin(v) /\ told \in SUBSET Creature
  BY <1>1, MovedAimed
<1>3. MoveCreature(w, c, to, first) =
        IF first THEN MoveOthers(MoveSelf(v, c, old, first), told, c, old, first)
        ELSE MoveSelf(MoveOthers(v, told, c, old, first), c, old, first)
  BY DEF MoveCreature
<1>4. /\ v[c].at = to
      /\ \A d \in Creature : /\ v[d].status = w[d].status /\ v[d].master = w[d].master
                             /\ v[d].dead = w[d].dead /\ v[d].check = w[d].check
                             /\ v[d].targets = w[d].targets /\ v[d].unseen = w[d].unseen
                             /\ d # c => v[d].at = w[d].at
  <2> DEFINE r == w[c]
             q == [r EXCEPT !.at = to]
  <2>1. r \in Record
    BY <1>1 DEF World
  <2>2. /\ q.at = to /\ q.status = r.status /\ q.master = r.master /\ q.dead = r.dead
        /\ q.check = r.check /\ q.targets = r.targets /\ q.unseen = r.unseen
    <3> HIDE DEF r
    <3> QED
      BY <2>1 DEF Record
  <2>3. v = [w EXCEPT ![c] = q]
    OBVIOUS
  <2> HIDE DEF q, v
  <2>4. v[c] = q /\ \A d \in Creature : d # c => v[d] = w[d]
    BY <1>1, <2>3 DEF World
  <2> QED
    BY <2>2, <2>4
<1>5. \A s \in Creature \ {c} : s \in Spectators(v, to) => s \in told
  OBVIOUS
<1> HIDE DEF v, told
<1>6. Alert(v, H \cup N)
  <2>1. \A m \in Creature : Sound(m, v[m])
    BY <1>4 DEF Alert, Sound
  <2>2. ASSUME NEW m \in Creature, NEW p \in Character,
               Misses(m, v[m], p), v[p].status = "game", Sees(v, m, v[p].at), m # c
        PROVE  <<m, p>> \in N
    <3>1. p \in Creature
      BY DEF Creature
    <3>2. Misses(m, w[m], p) /\ w[p].status = "game"
      BY <1>4, <2>2, <3>1 DEF Misses, Wild
    <3>3. ~Sees(w, m, w[p].at)
      BY <3>2 DEF Alert
    <3>4. \A x : Sees(v, m, x) = Sees(w, m, x)
      BY <1>4, <2>2 DEF Sees
    <3>5. p = c
      BY <1>4, <2>2, <3>1, <3>3, <3>4
    <3>6. v[m].status = "game"
      BY <2>2 DEF Misses, Wild
    <3>7. m \in Spectators(v, v[c].at)
      BY <1>2, <2>2, <3>5, <3>6, SeesIsTold
    <3>8. m \in told
      BY <1>4, <1>5, <2>2, <3>7
    <3> QED
      BY <2>2, <3>3, <3>4, <3>5, <3>8
  <2> HIDE DEF N
  <2>3. ASSUME NEW m \in Creature, NEW p \in Character,
               Misses(m, v[m], p), v[p].status = "game", Sees(v, m, v[p].at)
        PROVE  <<m, p>> \in H \cup N
    <3>1. CASE m = c
      BY <3>1
    <3>2. CASE m # c
      BY <2>2, <2>3, <3>2
    <3> QED
      BY <3>1, <3>2
  <2> QED
    BY <2>1, <2>3 DEF Alert
<1>7. \A e \in N : /\ e[1] \in told /\ e[1] \in Creature /\ e[2] = c
                   /\ Sees(v, e[1], v[c].at) /\ ~Sees(v, e[1], old)
  BY <1>2
<1>8. H \cup N = N \cup H /\ {} \cup N = N /\ {} \cup H = H
  OBVIOUS
<1> HIDE DEF old, H, N
<1>9. CASE first
  <2> DEFINE u == MoveSelf(v, c, old, first)
  <2>1. u \in World /\ Alert(u, N) /\ \A d \in Creature : u[d].at = v[d].at
    <3>1. Alert(v, N \cup ({c} \X Character))
      BY <1>6, <1>8 DEF H
    <3>2. Stays(v, u) /\ Alert(u, N)
      BY <1>2, <3>1, MoveSelfAlert
    <3> QED
      BY <3>2 DEF Stays
  <2> HIDE DEF u
  <2>2. \A e \in N : /\ e[1] \in told /\ e[2] = c
                     /\ Sees(u, e[1], u[c].at) /\ ~Sees(u, e[1], old)
    BY <1>7, <2>1 DEF Sees
  <2>3. Alert(MoveOthers(u, told, c, old, first), {})
    BY <1>2, <1>8, <2>1, <2>2, MoveOthersAlert
  <2> QED
    BY <1>3, <1>9, <2>3 DEF u
<1>10. CASE ~first
  <2> DEFINE u == MoveOthers(v, told, c, old, first)
  <2>1. Keeps(v, u) /\ Alert(u, H)
    BY <1>2, <1>6, <1>7, MoveOthersAlert
  <2> HIDE DEF u
  <2>2. u \in World /\ Kin(u)
    BY <1>2, <2>1, KeepsGood DEF Keeps
  <2>3. Alert(MoveSelf(u, c, old, first), {})
    <3>1. Alert(u, {} \cup ({c} \X Character))
      BY <1>8, <2>1 DEF H
    <3> QED
      BY <2>2, <3>1, MoveSelfAlert
  <2> QED
    BY <1>3, <1>10, <2>3 DEF u
<1> QED
  BY <1>9, <1>10

(* Game::placeCreature: a new creature looks around, and all monsters that   *)
(* see it are told.                                                          *)
LEMMA PlaceCreatureAlert ==
  ASSUME NEW w, NEW c \in Creature, NEW at \in Position, NEW first, Good(w), Alert(w, {}),
         w[c].status = "free"
  PROVE  Alert(PlaceCreature(w, c, at, first), {})
<1> DEFINE q == [Unborn EXCEPT !.status = "game", !.at = at]
           u == [w EXCEPT ![c] = q]
           look == LookAround(u, c, first)
           self == [IF c \in Monster THEN look ELSE u[c] EXCEPT !.check = TRUE, !.listed = TRUE]
           told == Monster \cap Spectators(u, u[c].at)
           f == [d \in {c} \cup told |-> IF d = c THEN self ELSE OnCreatureFound(u, d, u[d], {c}, first)]
           v == Changed(u, f)
<1>1. PlaceCreature(w, c, at, first) = v
  BY DEF PlaceCreature, Appear
<1>2. w \in World
  BY DEF Good
<1>3. q \in Record /\ q.status = "game"
  <2>1. Unborn \in Record
    BY UnbornIs
  <2> HIDE DEF Unborn
  <2> QED
    BY <2>1 DEF Record
<1> HIDE DEF q
<1>4. u \in World /\ u[c] = q /\ \A d \in Creature \ {c} : u[d] = w[d]
  BY <1>2, <1>3 DEF World
<1>5. Alike(u, v)
  <2>1. v = Appear(u, c, first)
    BY DEF Appear
  <2> QED
    BY <1>3, <1>4, <2>1, AppearAlike
<1>6. \A d \in Creature : v[d].status = u[d].status /\ v[d].at = u[d].at
  BY <1>5 DEF Alike, Same
<1>7. /\ v[c] = self
      /\ \A d \in told \ {c} : v[d] = OnCreatureFound(u, d, u[d], {c}, first)
      /\ \A d \in Creature \ (told \cup {c}) : v[d] = u[d]
  BY DEF Changed, Creature
<1> HIDE DEF f, v, u
<1>8. /\ Sound(c, v[c])
      /\ \A p \in Character : u[p].status = "game" /\ Sees(u, c, u[p].at) => ~Misses(c, v[c], p)
  <2>1. CASE c \in Monster
    <3>1. look \in Record /\ self = [look EXCEPT !.check = TRUE, !.listed = TRUE]
      BY <1>4, <2>1, LookSame DEF Same
    <3>2. \A p \in Character : Misses(c, look, p) => ~(u[p].status = "game" /\ Sees(u, c, u[p].at))
      BY <1>4, <2>1, LookMinds
    <3> HIDE DEF look, self
    <3>3. /\ self.check = TRUE /\ self.status = look.status /\ self.master = look.master
          /\ self.dead = look.dead /\ self.targets = look.targets /\ self.unseen = look.unseen
      BY <3>1 DEF Record
    <3>4. \A p \in Character : Misses(c, self, p) => Misses(c, look, p)
      BY <3>3 DEF Misses, Wild
    <3> QED
      BY <1>7, <3>2, <3>3, <3>4 DEF Sound
  <2>2. CASE c \notin Monster
    <3>1. self = [q EXCEPT !.check = TRUE, !.listed = TRUE]
      BY <1>4, <2>2
    <3> HIDE DEF self
    <3>2. self.check = TRUE
      BY <1>3, <3>1 DEF Record
    <3> QED
      BY <1>7, <2>2, <3>2 DEF Sound, Misses, Wild
  <2> QED
    BY <2>1, <2>2
<1>9. ASSUME NEW m \in told \ {c}
      PROVE  /\ Sound(m, v[m])
             /\ \A p \in Character : Misses(m, v[m], p) => Misses(m, w[m], p) /\ p # c
  <2> DEFINE r == w[m]
             o == OnCreatureFound(u, m, r, {c}, first)
  <2>1. m \in Creature /\ m \in Monster /\ r \in Record /\ Sound(m, r) /\ r = u[m] /\ v[m] = o
    BY <1>2, <1>4, <1>7 DEF World, Alert, Creature
  <2>2. r.master = u[m].master /\ {c} \in SUBSET Creature
    BY <2>1
  <2> HIDE DEF r
  <2>3. (r.dead /\ r.status = "game" => r.check) => Sound(m, o)
    BY <2>1, <2>2, FoundMinds
  <2>4. \A p \in Character : Misses(m, o, p) => Misses(m, r, p) /\ p \notin {c}
    BY <2>1, <2>2, FoundMinds
  <2> HIDE DEF o
  <2> QED
    BY <2>1, <2>3, <2>4 DEF Sound, r
<1>10. \A m \in Creature : Sound(m, v[m])
  <2>1. \A m \in Creature \ (told \cup {c}) : Sound(m, v[m])
    BY <1>4, <1>7 DEF Alert
  <2> HIDE DEF told
  <2> QED
    BY <1>8, <1>9, <2>1
<1>11. ASSUME NEW m \in Creature, NEW p \in Character,
              Misses(m, v[m], p), v[p].status = "game", Sees(v, m, v[p].at)
       PROVE  FALSE
  <2>1. p \in Creature /\ m \in Monster /\ v[m].status = "game"
    BY <1>11 DEF Creature, Misses, Wild
  <2>2. u[m].status = "game" /\ u[p].status = "game" /\ Sees(u, m, u[p].at)
    BY <1>6, <1>11, <2>1 DEF Sees
  <2>3. m # c
    BY <1>8, <1>11, <2>2
  <2>4. p # c /\ Misses(m, w[m], p)
    <3>1. CASE m \in told
      BY <1>9, <1>11, <2>3, <3>1
    <3>2. CASE m \notin told
      <4>1. p # c
        <5>1. p = c => m \in Spectators(u, u[c].at)
          BY <1>4, <2>2, SeesIsTold
        <5> QED
          BY <2>1, <3>2, <5>1
      <4> QED
        BY <1>4, <1>7, <1>11, <2>3, <3>2, <4>1
    <3> QED
      BY <3>1, <3>2
  <2>5. w[p].status = "game" /\ Sees(w, m, w[p].at)
    BY <1>4, <2>1, <2>2, <2>3, <2>4 DEF Sees
  <2> QED
    BY <2>4, <2>5 DEF Alert
<1> QED
  BY <1>1, <1>10, <1>11 DEF Alert

(* Monster::death and Creature::onDeath: all it kills are checked.           *)
LEMMA DeathWary ==
  ASSUME NEW w, Good(w), NEW c \in Creature, w[c].dead
  PROVE  Wary(w, Death(w, c), {}) /\ Death(w, c)[c].dead
<1> DEFINE S == {c} \cup w[c].summons
           f == [d \in S |->
                  IF d = c
                  THEN [w[d] EXCEPT !.attacked = NoCreature, !.summons = {}, !.targets = {}, !.friends = {}]
                  ELSE [ChangeHealth(w[d], d, TRUE) EXCEPT !.attacked = NoCreature, !.master = NoCreature]]
<1>1. Death(w, c) = Changed(w, f)
  BY DEF Death
<1>2. w \in World /\ S \subseteq Creature
  BY DEF Good, World, Record, Creature
<1>3. ASSUME NEW d \in S
      PROVE  Minds(d, w[d], f[d], {}) /\ (d = c => f[d].dead)
  <2> DEFINE r == w[d]
             h == ChangeHealth(r, d, TRUE)
             q == f[d]
  <2>1. r \in Record /\ d \in Creature
    BY <1>2 DEF World
  <2>2. /\ d = c => q = [r EXCEPT !.attacked = NoCreature, !.summons = {}, !.targets = {}, !.friends = {}]
        /\ d # c => q = [h EXCEPT !.attacked = NoCreature, !.master = NoCreature]
        /\ d = c => r.dead
    OBVIOUS
  <2> HIDE DEF r, q
  <2>3. Same(r, h) /\ Minds(d, r, h, {}) /\ h.dead = TRUE
    <3>1. h.dead = TRUE
      <4> DEFINE g == IF d \in Monster THEN SetIdle(r, FALSE) ELSE r
      <4>1. Same(r, g)
        BY <2>1, SetIdleSame DEF Same
      <4>2. h = [g EXCEPT !.dead = TRUE]
        BY DEF ChangeHealth
      <4> HIDE DEF g, h
      <4> QED
        BY <4>1, <4>2 DEF Same, Record
    <3> QED
      BY <2>1, <3>1, ChangeHealthSame, ChangeHealthMinds
  <2> HIDE DEF h
  <2>4. CASE d = c
    <3>1. /\ q.status = r.status /\ q.at = r.at /\ q.dead = r.dead /\ q.check = r.check
          /\ q.targets = {}
      BY <2>1, <2>2, <2>4 DEF Record
    <3>2. Minds(d, r, q, {})
      BY <2>2, <2>4, <3>1 DEF Minds, Sound, Misses, Wild
    <3> QED
      BY <2>2, <2>4, <3>1, <3>2 DEF r, q
  <2>5. CASE d # c
    <3>1. /\ q.status = h.status /\ q.at = h.at /\ q.dead = TRUE /\ q.check = h.check
          /\ q.targets = h.targets
      BY <2>2, <2>3, <2>5 DEF Same, Record
    <3>2. Sound(d, h) => Sound(d, q)
      BY <2>3, <3>1 DEF Sound
    <3>3. \A p : ~Misses(d, q, p)
      BY <3>1 DEF Misses, Wild
    <3>4. Minds(d, r, q, {})
      BY <2>3, <3>1, <3>2, <3>3 DEF Minds
    <3> QED
      BY <2>5, <3>4 DEF r, q
  <2> QED
    BY <2>4, <2>5
<1>4. DOMAIN f = S
  OBVIOUS
<1> HIDE DEF f
<1>5. Wary(w, Changed(w, f), {})
  BY <1>2, <1>3, <1>4, ChangedWary
<1>6. Changed(w, f)[c] = f[c] /\ c \in S
  BY <1>4 DEF Changed
<1> QED
  BY <1>1, <1>3, <1>5, <1>6

(* A death leaves the monsters alert.                                       *)
LEMMA OnDeathAlert ==
  ASSUME NEW w, Good(w), Alert(w, {}), NEW c \in Creature, w[c].status = "game", w[c].dead, NEW first
  PROVE  Alert(OnDeath(w, c, first), {})
<1> DEFINE u == IF c \in Monster THEN Death(w, c) ELSE w
           v == SetMaster(u, c, NoCreature)
<1>1. Good(u) /\ Awake(w, u) /\ u[c].dead
  BY DeathGood, DeathWary, WaryAwake DEF Awake
<1> HIDE DEF u
<1>2. NoCreature # c /\ NoCreature \in Creature \cup {NoCreature}
  BY CreaturesAssumption DEF CreaturesAssumption
<1>3. Good(v)
  BY <1>1, <1>2, SetMasterGood
<1>4. Awake(u, v)
  BY <1>1, <1>2, SetMasterWary, WaryAwake DEF Good
<1> HIDE DEF v
<1>5. OnDeath(w, c, first) = RemoveCreatures(v, {c}, first)
  BY DEF OnDeath, u, v
<1>6. Awake(v, RemoveCreatures(v, {c}, first))
  BY <1>3, RemoveCreaturesShrinks DEF Good
<1> QED
  BY <1>1, <1>4, <1>5, <1>6 DEF Awake

(* Only summons give up those they find no way to.                           *)
LEMMA GoToFollowAwake ==
  ASSUME NEW w \in World, NEW m \in Creature, NEW way
  PROVE  Awake(w, GoToFollowCreature(w, m, way))
<1> DEFINE r == w[m]
           q == [r EXCEPT !.targets = @ \ {r.follow}]
<1>1. Awake(w, w)
  BY DEF Awake
<1>2. r \in Record
  BY DEF World
<1>3. GoToFollowCreature(w, m, way) = IF ~way /\ r.master # NoCreature THEN [w EXCEPT ![m] = q] ELSE w
  BY DEF GoToFollowCreature
<1>4. r.master # NoCreature => Minds(m, r, q, {})
  <2> HIDE DEF r
  <2>1. /\ q.status = r.status /\ q.at = r.at /\ q.master = r.master /\ q.dead = r.dead
        /\ q.check = r.check /\ q.targets \subseteq r.targets
    BY <1>2 DEF Record
  <2> HIDE DEF q
  <2> QED
    BY <2>1 DEF Minds, Sound, Misses, Wild
<1> HIDE DEF q
<1>5. r.master # NoCreature => Awake(w, [w EXCEPT ![m] = q])
  BY <1>4, ExceptWary, WaryAwake
<1> QED
  BY <1>1, <1>3, <1>5

(* Choosing a target leaves the monsters as alert.                          *)
LEMMA ChooseTargetAwake ==
  ASSUME NEW w \in World, NEW m \in Creature, NEW t, Thought(w, t)
  PROVE  Awake(w, ChooseTarget(w, m, t))
<1> DEFINE master == w[m].master
           lead == IF master = NoCreature THEN NoCreature ELSE w[master].attacked
           x == CASE w[m].attacked = NoCreature -> master
                  [] w[m].attacked = m -> NoCreature
                  [] OTHER -> w[m].attacked
<1>1. master \in Creature \cup {NoCreature} /\ w[m].attacked \in Creature \cup {NoCreature}
  BY DEF World, Record
<1>2. lead \in Creature \cup {NoCreature}
  BY <1>1 DEF World, Record
<1>3. x = master \/ x = NoCreature \/ x = w[m].attacked
  OBVIOUS
<1>4. {m} \in SUBSET Creature /\ x \in Creature \cup {NoCreature}
  BY <1>1, <1>3
<1>5. ChooseTarget(w, m, t) =
        CASE master = NoCreature -> IF t[1] = "search" THEN SelectTarget(w, {m}, t[2]) ELSE w
          [] master # NoCreature /\ w[m].attacked = NoCreature /\ lead # NoCreature -> SelectTarget(w, {m}, lead)
          [] OTHER -> SetFollowCreature(w, {m}, x)
  BY DEF ChooseTarget
<1> HIDE DEF master, lead, x
<1>6. CASE master = NoCreature
  <2>1. Awake(w, w)
    BY DEF Awake
  <2>2. t[1] = "search" => Awake(w, SelectTarget(w, {m}, t[2]))
    BY <1>4, SelectTargetWary, WaryAwake DEF Thought
  <2> QED
    BY <1>5, <1>6, <2>1, <2>2
<1>7. CASE master # NoCreature /\ w[m].attacked = NoCreature /\ lead # NoCreature
  <2>1. Awake(w, SelectTarget(w, {m}, lead))
    BY <1>2, <1>4, <1>7, SelectTargetWary, WaryAwake
  <2> QED
    BY <1>5, <1>7, <2>1
<1>8. CASE master # NoCreature /\ ~(w[m].attacked = NoCreature /\ lead # NoCreature)
  <2>1. Redirected(w, SetFollowCreature(w, {m}, x), x)
    BY <1>4, SetFollowIs
  <2>2. Awake(w, SetFollowCreature(w, {m}, x))
    BY <2>1, RedirectedWary, WaryAwake
  <2> QED
    BY <1>5, <1>8, <2>2
<1> QED
  BY <1>6, <1>7, <1>8

(* A monster that thinks leaves the monsters alert.                         *)
LEMMA ThinkAlert ==
  ASSUME NEW w, Good(w), Alert(w, {}), NEW m \in Creature, NEW t, Thought(w, t), NEW first
  PROVE  Alert(Think(w, m, t, first), {})
<1> DEFINE v == ChooseTarget(w, m, t)
<1>1. w \in World
  BY DEF Good
<1>2. Keeps(w, v) /\ Alert(v, {})
  BY <1>1, ChooseTargetKeeps, ChooseTargetAwake DEF Awake
<1> HIDE DEF v
<1>3. Good(v) /\ v \in World
  BY <1>1, <1>2, KeepsGood DEF Keeps
<1>4. ASSUME t[1] = "summon"
      PROVE  Alert(SetMaster(PlaceCreature(v, t[2], v[m].at, first), t[2], m), {})
  <2> DEFINE c == t[2]
             u == PlaceCreature(v, c, v[m].at, first)
  <2>1. c \in Creature /\ v[c].status = "free" /\ m # NoCreature
    BY <1>2, <1>4, CreaturesAssumption DEF CreaturesAssumption, Thought, Keeps, Creature
  <2>2. v[m].at \in Position
    BY <1>3 DEF World, Record
  <2> HIDE DEF c
  <2>3. Good(u) /\ Alert(u, {})
    BY <1>2, <1>3, <2>1, <2>2, PlaceCreatureGood, PlaceCreatureAlert
  <2> HIDE DEF u
  <2>4. Awake(u, SetMaster(u, c, m))
    BY <2>1, <2>3, SetMasterWary, WaryAwake DEF Good
  <2> QED
    BY <2>3, <2>4 DEF Awake, u, c
<1>5. Alert(OnThinkDefense(v, m, t, first), {})
  BY <1>2, <1>4 DEF OnThinkDefense
<1> QED
  BY <1>5 DEF Think, v

(* A monster that is sent home sees whom it forgets.                         *)
LEMMA FallAsleepAlert ==
  ASSUME NEW w \in World, Alert(w, {}), NEW m \in Monster
  PROVE  Alert(FallAsleep(w, m), {})
<1> DEFINE about == {c \in InGame(w) \ {m} : Sees(w, m, w[c].at)}
           r == w[m]
           p == SetIdle(r, TRUE)
           q == [p EXCEPT !.unseen = about]
<1>1. m \in Creature /\ m \notin Character
  BY CreaturesAssumption DEF CreaturesAssumption, Creature
<1>2. r \in Record /\ about \subseteq Creature /\ Sound(m, r)
  BY <1>1 DEF World, InGame, Alert
<1>3. FallAsleep(w, m) \in {w, [w EXCEPT ![m] = q]}
  BY DEF FallAsleep
<1>4. \A x \in Character : w[x].status = "game" /\ Sees(w, m, w[x].at) => x \in about
  BY <1>1 DEF InGame, Creature
<1> HIDE DEF about
<1>5. /\ q.status = r.status /\ q.at = r.at
      /\ Sound(m, q)
      /\ \A x \in Character : Misses(m, q, x) => Wild(m, r) /\ x \notin about
  <2> HIDE DEF r
  <2>1. Same(r, p) /\ Sound(m, p) /\ p.dead = r.dead
    <3>1. p.dead = r.dead
      BY <1>2 DEF SetIdle, Record
    <3> QED
      BY <1>2, <3>1, SetIdleSame, SetIdleMinds
  <2> HIDE DEF p
  <2>2. /\ q.status = p.status /\ q.at = p.at /\ q.dead = p.dead /\ q.check = p.check
        /\ q.master = p.master /\ q.targets = p.targets /\ q.unseen = about
    BY <2>1 DEF Same, Record
  <2> QED
    BY <2>1, <2>2 DEF Same, Sound, Misses, Wild
<1> HIDE DEF q
<1>6. Alert(w, {} \cup ({m} \X Character))
  BY AlertMore
<1>7. \A x \in Character : Misses(m, q, x) => Wild(m, w[m]) /\ ~(w[x].status = "game" /\ Sees(w, m, w[x].at))
  BY <1>4, <1>5
<1>8. Alert([w EXCEPT ![m] = q], {})
  BY <1>5, <1>6, <1>7, LookAlert
<1> QED
  BY <1>3, <1>8

(* Monster::onThink                                                          *)
LEMMA OnThinkAlert ==
  ASSUME NEW w, Good(w), Alert(w, {}), NEW m \in Monster, NEW t, Thought(w, t), NEW first
  PROVE  Alert(OnThink(w, m, t, first), {})
<1>1. w \in World /\ m \in Creature
  BY DEF Good, Creature
<1>2. CASE InSpawnRange(m, w[m].at)
  <2> DEFINE r == w[m]
             q == UpdateIdleStatus(r)
             v == [w EXCEPT ![m] = q]
  <2>1. r \in Record /\ Sound(m, r)
    BY <1>1 DEF World, Alert
  <2>2. v = [w EXCEPT ![m] = UpdateIdleStatus(@)]
    OBVIOUS
  <2>3. OnThink(w, m, t, first) = Think(v, m, t, first)
    BY <1>2, <2>2 DEF OnThink
  <2> HIDE DEF r
  <2>4. r.dead /\ r.status = "game" => r.check
    BY <2>1 DEF Sound
  <2>5. Same(r, q)
    BY <2>1, SetIdleSame DEF UpdateIdleStatus
  <2>6. Sound(m, q) /\ \A p \in Character : Misses(m, q, p) => Misses(m, r, p)
    BY <2>1, <2>4, SetIdleMinds
  <2> HIDE DEF q
  <2>7. Minds(m, r, q, {})
    BY <2>5, <2>6 DEF Same, Minds
  <2>8. Alike(w, v) /\ Awake(w, v)
    BY <1>1, <2>5, <2>7, ExceptAlike, ExceptWary, WaryAwake DEF r
  <2> HIDE DEF v
  <2>9. Good(v) /\ Alert(v, {})
    BY <2>8, AlikeGood DEF Awake
  <2>10. Thought(v, t)
    BY <2>8 DEF Alike, Same, Thought, Creature
  <2> QED
    BY <1>1, <2>3, <2>9, <2>10, ThinkAlert
<1>3. CASE ~InSpawnRange(m, w[m].at)
  <2> DEFINE room == t[1] # "homeless"
             v == IF room /\ m \in InGame(w) THEN MoveCreature(w, m, Entrance[m], first) ELSE w
  <2>1. OnThink(w, m, t, first) = FallAsleep(v, m)
    BY <1>3 DEF OnThink, SendHome
  <2>2. Entrance[m] \in Position
    BY <1>1, CreaturesAssumption DEF CreaturesAssumption
  <2>3. Good(v) /\ Alert(v, {})
    BY <1>1, <2>2, MoveCreatureGood, MoveCreatureAlert
  <2> HIDE DEF v
  <2> QED
    BY <2>1, <2>3, FallAsleepAlert DEF Good
<1> QED
  BY <1>2, <1>3

(* Game::checkCreatures, of one creature, whatever it thinks.                *)
LEMMA CheckCreatureAlert ==
  ASSUME NEW w, Good(w), Alert(w, {}), NEW c \in Creature, NEW t \in Thoughts(w, c), NEW first
  PROVE  Alert(CheckCreature(w, c, t, first), {})
<1>1. w \in World
  BY DEF Good
<1>2. CASE ~w[c].check
  <2> DEFINE r == w[c]
             q == [r EXCEPT !.listed = FALSE, !.released = TRUE]
  <2>1. r \in Record
    BY <1>1 DEF World
  <2>2. Minds(c, r, q, {})
    <3> HIDE DEF r
    <3>1. /\ q.status = r.status /\ q.at = r.at /\ q.master = r.master /\ q.dead = r.dead
          /\ q.targets = r.targets /\ q.unseen = r.unseen /\ q.check = r.check
      BY <2>1 DEF Record
    <3> HIDE DEF q
    <3> QED
      BY <3>1 DEF Minds, Sound, Misses, Wild
  <2>3. CheckCreature(w, c, t, first) = [w EXCEPT ![c] = q]
    BY <1>1, <1>2 DEF CheckCreature, World
  <2> HIDE DEF q
  <2>4. Awake(w, [w EXCEPT ![c] = q])
    BY <1>1, <2>2, ExceptWary, WaryAwake
  <2> QED
    BY <2>3, <2>4 DEF Awake
<1>3. CASE w[c].check /\ w[c].dead
  <2>1. w[c].status = "game"
    BY <1>1, <1>3 DEF World, Record
  <2>2. CheckCreature(w, c, t, first) = OnDeath(w, c, first)
    BY <1>3 DEF CheckCreature
  <2> QED
    BY <1>3, <2>1, <2>2, OnDeathAlert
<1>4. CASE w[c].check /\ ~w[c].dead /\ c \in Character
  BY <1>4 DEF CheckCreature
<1>5. CASE w[c].check /\ ~w[c].dead /\ c \notin Character
  <2> DEFINE v == IF t[1] = "banished" THEN RemoveCreatures(w, {c}, first)
                  ELSE GoToFollowCreature(w, c, t[1] # "stuck")
  <2>1. CheckCreature(w, c, t, first) = OnThink(v, c, t, first)
    BY <1>5 DEF CheckCreature
  <2>2. c \in Monster
    BY <1>5 DEF Creature
  <2>3. Thought(w, t)
    <3>1. w[c].targets \subseteq Creature
      BY <1>1 DEF World, Record
    <3>2. t[1] = "search" => t[2] \in w[c].targets
      BY DEF Thoughts
    <3>3. t[1] = "summon" => t[2] \in Monster /\ w[t[2]].status = "free"
      BY DEF Thoughts
    <3> QED
      BY <3>1, <3>2, <3>3 DEF Thought
  <2>4. CASE t[1] = "banished"
    <3>1. Good(v)
      BY <2>4, RemoveCreaturesGood
    <3>2. Thought(v, t)
      BY <2>4 DEF Thought
    <3>3. Awake(w, v)
      <4>1. v = RemoveCreatures(w, {c}, first) /\ Kin(w)
        BY <2>4 DEF Good
      <4> HIDE DEF v
      <4> QED
        BY <1>1, <4>1, RemoveCreaturesShrinks
    <3> HIDE DEF v
    <3>4. Alert(v, {})
      BY <3>3 DEF Awake
    <3> QED
      BY <2>1, <2>2, <3>1, <3>2, <3>4, OnThinkAlert
  <2>5. CASE t[1] # "banished"
    <3>1. v = GoToFollowCreature(w, c, t[1] # "stuck")
      BY <2>5
    <3> HIDE DEF v
    <3>2. Alike(w, v) /\ Alert(v, {})
      BY <1>1, <3>1, GoToFollowAlike, GoToFollowAwake DEF Awake
    <3>3. Good(v)
      BY <3>2, AlikeGood
    <3>4. Thought(v, t)
      BY <2>3, <3>2 DEF Alike, Same, Thought, Creature
    <3> QED
      BY <2>1, <2>2, <3>2, <3>3, <3>4, OnThinkAlert
  <2> QED
    BY <2>4, <2>5
<1> QED
  BY <1>2, <1>3, <1>4, <1>5

(* Game::cleanup forgets only who was released.                              *)
LEMMA CleanUpAwake ==
  ASSUME NEW w \in World
  PROVE  Awake(w, CleanUp(w))
<1> DEFINE f == [c \in {d \in Creature : w[d].released} |-> [w[c] EXCEPT !.released = FALSE]]
<1>1. CleanUp(w) = Changed(w, f) /\ DOMAIN f \subseteq Creature
  BY DEF CleanUp
<1>2. ASSUME NEW c \in DOMAIN f
      PROVE  Minds(c, w[c], f[c], {})
  <2> DEFINE r == w[c]
             q == [r EXCEPT !.released = FALSE]
  <2>1. r \in Record /\ f[c] = q
    BY DEF World
  <2> HIDE DEF r, f
  <2>2. /\ q.status = r.status /\ q.at = r.at /\ q.master = r.master /\ q.dead = r.dead
        /\ q.targets = r.targets /\ q.unseen = r.unseen /\ q.check = r.check
    BY <2>1 DEF Record
  <2> HIDE DEF q
  <2>3. Minds(c, r, q, {})
    BY <2>2 DEF Minds, Sound, Misses, Wild
  <2> QED
    BY <2>1, <2>3 DEF r
<1> HIDE DEF f
<1>3. Wary(w, Changed(w, f), {})
  BY <1>1, <1>2, ChangedWary
<1> QED
  BY <1>1, <1>3, WaryAwake

(* Monsters stay alert in every task.                                        *)
CreaturesAlert == Alert(creatures, {})

(* At the start nobody is in the game.                                      *)
LEMMA InitAlert ==
  ASSUME CreaturesInit
  PROVE  CreaturesAlert
<1>1. \A c \in Creature : creatures[c].status = "free"
  BY UnbornIs DEF CreaturesInit
<1> QED
  BY <1>1 DEF CreaturesAlert, Alert, Sound, Misses, Wild

(* A task that is one function of the world.                                *)
LEMMA BecomesAlert ==
  ASSUME NEW w, Good(w), Alert(w, {}), Becomes(w)
  PROVE  CreaturesAlert'
<1>1. creatures' = Collected(w) /\ Alert(Collected(w), {})
  BY CollectedGood DEF Becomes
<1> HIDE DEF CreaturesAlert
<1>2. Alert(creatures', {})
  BY <1>1
<1> QED
  BY <1>2 DEF CreaturesAlert, Alert, Sound, Misses, Wild, Sees

(* Each task leaves the monsters alert: the checks,                         *)
LEMMA CheckCreaturesAlert ==
  ASSUME CreaturesIInv, CreaturesAlert, NEW c \in Creature, NEW first, CheckCreatures(c, first)
  PROVE  CreaturesAlert'
<1>1. PICK t \in Thoughts(creatures, c) : Becomes(CleanUp(CheckCreature(creatures, c, t, first)))
  BY DEF CheckCreatures
<1> DEFINE v == CheckCreature(creatures, c, t, first)
<1>2. Good(v) /\ Alert(v, {})
  BY CheckCreatureGood, CheckCreatureAlert DEF CreaturesIInv, CreaturesAlert
<1> HIDE DEF v
<1>3. Good(CleanUp(v)) /\ Alert(CleanUp(v), {})
  BY <1>2, CleanUpAlike, CleanUpAwake, AlikeGood DEF Good, Awake
<1> QED
  BY <1>1, <1>3, BecomesAlert DEF v

(* ... coming, going and moving,                                            *)
LEMMA ComeAndGoAlert ==
  ASSUME CreaturesIInv, CreaturesAlert, NEW c \in Creature, NEW first,
         \/ Enter(c, first)
         \/ Quit(c, first)
         \/ \E to \in Position : Move(c, to, first)
  PROVE  CreaturesAlert'
<1>1. Good(creatures) /\ Alert(creatures, {}) /\ creatures \in World /\ Kin(creatures)
  BY DEF CreaturesIInv, CreaturesAlert, Good
<1>2. CASE Enter(c, first)
  <2>1. Entrance[c] \in Position
    BY CreaturesAssumption DEF CreaturesAssumption
  <2> DEFINE v == PlaceCreature(creatures, c, Entrance[c], first)
  <2>2. Good(v) /\ Alert(v, {}) /\ Becomes(v)
    BY <1>1, <1>2, <2>1, PlaceCreatureGood, PlaceCreatureAlert DEF Enter
  <2> QED
    BY <2>2, BecomesAlert
<1>3. CASE Quit(c, first)
  <2> DEFINE v == RemoveCreatures(creatures, {c}, first)
  <2>1. Good(v) /\ Becomes(v)
    BY <1>1, <1>3, RemoveCreaturesGood DEF Quit
  <2>2. Awake(creatures, v)
    BY <1>1, RemoveCreaturesShrinks
  <2> QED
    BY <1>1, <2>1, <2>2, BecomesAlert DEF Awake
<1>4. ASSUME NEW to \in Position, Move(c, to, first)
      PROVE  CreaturesAlert'
  <2> DEFINE v == MoveCreature(creatures, c, to, first)
  <2>1. Good(v) /\ Alert(v, {}) /\ Becomes(v)
    BY <1>1, <1>4, MoveCreatureGood, MoveCreatureAlert DEF Move
  <2> QED
    BY <2>1, BecomesAlert
<1> QED
  BY <1>2, <1>3, <1>4

(* ... a player attacks,                                                    *)
LEMMA AttackAlert ==
  ASSUME CreaturesIInv, CreaturesAlert, NEW p \in Character, NEW x \in Creature \cup {NoCreature},
         NEW chase \in BOOLEAN, PlayerSetAttackedCreature(p, x, chase)
  PROVE  CreaturesAlert'
<1> DEFINE w == creatures
           v == SetAttackedCreature(w, {p}, x)
           y == IF chase THEN x ELSE NoCreature
           u == SetFollowCreature(v, {p}, y)
<1>1. Good(w) /\ w \in World /\ Alert(w, {})
  BY DEF CreaturesIInv, CreaturesAlert, Good
<1>2. p \in Creature /\ {p} \in SUBSET Creature
  BY DEF Creature
<1>3. x # NoCreature => x \in Creature /\ w[x].status = "game"
  BY DEF PlayerSetAttackedCreature, InGame
<1>4. Becomes(IF Reaches(v, p, x) THEN u ELSE v)
  BY DEF PlayerSetAttackedCreature
<1> HIDE DEF w
<1>5. Redirected(w, v, x)
  BY <1>1, <1>2, SetAttackedIs
<1> HIDE DEF v
<1>6. Keeps(w, v) /\ Alert(v, {})
  BY <1>1, <1>3, <1>5, RedirectedKeeps, RedirectedWary, WaryAwake DEF Awake
<1>7. Good(v) /\ v \in World
  BY <1>1, <1>6, KeepsGood DEF Keeps
<1>8. y \in Creature \cup {NoCreature} /\ (y # NoCreature => v[y].status = "game")
  BY <1>3, <1>6 DEF Keeps
<1> HIDE DEF y
<1>9. Keeps(v, u)
  BY <1>2, <1>7, <1>8, SetFollowKeeps
<1>10. Redirected(v, u, y)
  BY <1>2, <1>7, <1>8, SetFollowIs
<1>11. Good(u) /\ Alert(u, {})
  BY <1>6, <1>7, <1>9, <1>10, KeepsGood, RedirectedWary, WaryAwake DEF Awake
<1> HIDE DEF u
<1> QED
  BY <1>4, <1>6, <1>7, <1>11, BecomesAlert

(* ... or follows,                                                          *)
LEMMA FollowAlert ==
  ASSUME CreaturesIInv, CreaturesAlert, NEW p \in Character, NEW x \in Creature \cup {NoCreature},
         PlayerFollowCreature(p, x)
  PROVE  CreaturesAlert'
<1> DEFINE w == creatures
           v == Drop(w, {p}, {p})
           u == SetFollowCreature(v, {p}, x)
<1>1. Good(w) /\ w \in World /\ Alert(w, {})
  BY DEF CreaturesIInv, CreaturesAlert, Good
<1>2. p \in Creature /\ {p} \in SUBSET Creature
  BY DEF Creature
<1>3. x # NoCreature => x \in Creature /\ w[x].status = "game"
  BY DEF PlayerFollowCreature, InGame
<1>4. Becomes(u)
  BY DEF PlayerFollowCreature
<1> HIDE DEF w
<1>5. Keeps(w, v) /\ Alert(v, {})
  BY <1>1, <1>2, DropKeeps, DropWary, WaryAwake DEF Awake
<1> HIDE DEF v
<1>6. Good(v) /\ v \in World
  BY <1>1, <1>5, KeepsGood DEF Keeps
<1>7. Keeps(v, u)
  <2>1. x # NoCreature => v[x].status = "game"
    BY <1>3, <1>5 DEF Keeps
  <2> QED
    BY <1>2, <1>6, <2>1, SetFollowKeeps
<1>8. Redirected(v, u, x)
  BY <1>2, <1>6, SetFollowIs
<1>9. Good(u) /\ Alert(u, {})
  BY <1>5, <1>6, <1>7, <1>8, KeepsGood, RedirectedWary, WaryAwake DEF Awake
<1> HIDE DEF u
<1> QED
  BY <1>4, <1>9, BecomesAlert

(* ... a monster walks,                                                     *)
LEMMA WalkAlert ==
  ASSUME CreaturesIInv, CreaturesAlert, NEW m \in Monster, UpdateCreatureWalk(m)
  PROVE  CreaturesAlert'
<1>1. Good(creatures) /\ creatures \in World /\ m \in Creature /\ Alert(creatures, {})
  BY DEF CreaturesIInv, CreaturesAlert, Good, Creature
<1> DEFINE v == GoToFollowCreature(creatures, m, FALSE)
<1>2. Good(v) /\ Alert(v, {}) /\ Becomes(v)
  BY <1>1, GoToFollowAlike, AlikeGood, GoToFollowAwake DEF Awake, UpdateCreatureWalk
<1> QED
  BY <1>2, BecomesAlert

(* ... somebody is hit,                                                     *)
LEMMA HitAlert ==
  ASSUME CreaturesIInv, CreaturesAlert, NEW k \in Creature, NEW c \in Creature, NEW fatal \in BOOLEAN,
         Hit(k, c, fatal)
  PROVE  CreaturesAlert'
<1> DEFINE w == creatures
           q == ChangeHealth(w[c], c, fatal)
<1>1. Good(w) /\ w \in World /\ Alert(w, {})
  BY DEF CreaturesIInv, CreaturesAlert, Good
<1>2. Becomes([w EXCEPT ![c] = q]) /\ ~w[c].dead
  BY DEF Hit
<1> HIDE DEF w
<1>3. Same(w[c], q)
  BY <1>1, ChangeHealthSame DEF World
<1>4. Minds(c, w[c], q, {})
  BY <1>1, <1>2, ChangeHealthMinds DEF World
<1> HIDE DEF q
<1>5. Good([w EXCEPT ![c] = q])
  BY <1>1, <1>3, ExceptAlike, AlikeGood
<1>6. Alert([w EXCEPT ![c] = q], {})
  BY <1>1, <1>4, ExceptWary, WaryAwake DEF Awake
<1> QED
  BY <1>2, <1>5, <1>6, BecomesAlert

(* ... a monster is convinced.                                              *)
LEMMA ConvinceAlert ==
  ASSUME CreaturesIInv, CreaturesAlert, NEW p \in Character, NEW m \in Monster, Convince(p, m)
  PROVE  CreaturesAlert'
<1>1. PICK u : /\ Good(u) /\ Wary(creatures, u, {})
               /\ Good(SetMaster(u, m, p)) /\ Becomes(SetMaster(u, m, p))
  BY ConvinceIs
<1>2. m \in Creature /\ p \in Creature \cup {NoCreature} /\ p # NoCreature
  BY CreaturesAssumption DEF CreaturesAssumption, Creature
<1>3. Alert(u, {})
  BY <1>1, WaryAwake DEF CreaturesAlert, Awake
<1>4. Wary(u, SetMaster(u, m, p), {})
  BY <1>1, <1>2, SetMasterWary DEF Good
<1>5. Alert(SetMaster(u, m, p), {})
  BY <1>3, <1>4, WaryAwake DEF Awake
<1> QED
  BY <1>1, <1>5, BecomesAlert

(* No monster sleeps through a player it was told of, though players come,   *)
(* go and hit while others are told of somebody else, monsters are sent to   *)
(* sleep and masters die with their summons: it lists the player and is      *)
(* checked.  And the dead are checked, so they are buried.                   *)
THEOREM MonstersAreAwake == CreaturesSpec => []MonstersWake
<1>1. CreaturesInit => CreaturesAlert
  BY InitAlert
<1>2. CreaturesIInv /\ CreaturesAlert /\ [CreaturesNext]_creatures => CreaturesAlert'
  <2> SUFFICES ASSUME CreaturesIInv, CreaturesAlert, [CreaturesNext]_creatures
               PROVE  CreaturesAlert'
    OBVIOUS
  <2>1. ASSUME NEW first \in BOOLEAN, NEW c \in Creature, CheckCreatures(c, first)
        PROVE  CreaturesAlert'
    BY <2>1, CheckCreaturesAlert
  <2>2. ASSUME NEW first \in BOOLEAN, NEW c \in Creature,
               \/ Enter(c, first)
               \/ Quit(c, first)
               \/ \E to \in Position : Move(c, to, first)
        PROVE  CreaturesAlert'
    BY <2>2, ComeAndGoAlert
  <2>3. ASSUME NEW p \in Character, NEW x \in Creature \cup {NoCreature}, NEW chase \in BOOLEAN,
               PlayerSetAttackedCreature(p, x, chase)
        PROVE  CreaturesAlert'
    BY <2>3, AttackAlert
  <2>4. ASSUME NEW p \in Character, NEW x \in Creature \cup {NoCreature}, PlayerFollowCreature(p, x)
        PROVE  CreaturesAlert'
    BY <2>4, FollowAlert
  <2>5. ASSUME NEW m \in Monster, UpdateCreatureWalk(m)
        PROVE  CreaturesAlert'
    BY <2>5, WalkAlert
  <2>6. ASSUME NEW m \in Monster, NEW p \in Character, Convince(p, m)
        PROVE  CreaturesAlert'
    BY <2>6, ConvinceAlert
  <2>7. ASSUME NEW k \in Creature, NEW c \in Creature, NEW fatal \in BOOLEAN, Hit(k, c, fatal)
        PROVE  CreaturesAlert'
    BY <2>7, HitAlert
  <2>8. ASSUME UNCHANGED creatures
        PROVE  CreaturesAlert'
    BY <2>8 DEF CreaturesAlert, Alert, Sound, Misses, Wild, Sees
  <2> QED
    BY <2>1, <2>2, <2>3, <2>4, <2>5, <2>6, <2>7, <2>8 DEF CreaturesNext
<1>3. CreaturesAlert => MonstersWake
  <2> SUFFICES ASSUME CreaturesAlert, NEW m \in InGame(creatures)
               PROVE  LET r == creatures[m]
                          seen == {p \in Character \cap InGame(creatures) :
                                     ~creatures[p].dead /\ Sees(creatures, m, creatures[p].at)} \ r.unseen
                      IN  /\ m \in Monster /\ r.master = NoCreature /\ ~r.dead /\ seen # {}
                               => r.check /\ seen \subseteq r.targets
                          /\ r.dead => r.check
    BY DEF MonstersWake
  <2> DEFINE r == creatures[m]
             seen == {p \in Character \cap InGame(creatures) :
                        ~creatures[p].dead /\ Sees(creatures, m, creatures[p].at)} \ r.unseen
  <2>1. m \in Creature /\ r.status = "game" /\ Sound(m, r)
    BY DEF InGame, CreaturesAlert, Alert
  <2>2. \A p \in seen : ~Misses(m, r, p) /\ p \notin r.unseen
    BY <2>1 DEF InGame, CreaturesAlert, Alert
  <2> HIDE DEF r, seen
  <2>3. m \in Monster /\ r.master = NoCreature /\ ~r.dead => seen \subseteq r.targets
    BY <2>1, <2>2 DEF Misses, Wild
  <2>4. r.dead \/ r.targets # {} => r.check
    BY <2>1 DEF Sound
  <2> QED
    BY <2>3, <2>4 DEF r, seen
<1> QED
  BY <1>1, <1>2, <1>3, CreaturesInvariance, PTL DEF CreaturesSpec

=============================================================================
