------------------------------- MODULE Decay --------------------------------
(***************************************************************************)
(* Items that decay (game.cpp, item.cpp).  An item that has to decay is put  *)
(* on the list toDecayItems, and by the next cleanup into one of four        *)
(* buckets.  Every 250 ms checkDecay visits one bucket, takes a second from  *)
(* the duration of the items there, and lets those decay whose time is over. *)
(* An item that is removed or cannot decay any more stays in its bucket      *)
(* until it is visited: each entry holds a reference to the item.            *)
(*                                                                           *)
(* Durations are in units of 125 ms.  A bucket is named by the checks before *)
(* its next visit: 0 is (lastBucket + 1) % 4, and 3 is lastBucket.           *)
(*                                                                           *)
(* A stack of items is one item; joining stacks is left out, and so are      *)
(* items that refuse to be removed or transformed.                           *)
(***************************************************************************)
EXTENDS Integers, FiniteSetsExt, Functions

CONSTANTS
  Item,         \* objects; the memory of a freed one may be used again
  Kind,         \* item types
  DecayTo,      \* what each decays to, Nothing or Never
  DecayTime,    \* its duration, or 0
  Stop,         \* the kinds whose duration stops (stopTime)
  Class,        \* ItemType::type of each kind
  Stackable,    \* the kinds of which a part can be moved
  Turn,         \* pairs of kinds: what is transformed to what
  Duration,     \* the durations scripts give
  MaxRefs,      \* bound: how many references an item may have
  Nothing, Never, NoKind, NoClock

Second == 8         \* EVENT_DECAYINTERVAL * EVENT_DECAY_BUCKETS
DecayInterval == 2  \* EVENT_DECAYINTERVAL
Bucket == 0 .. 3    \* EVENT_DECAY_BUCKETS

ASSUME DecayAssumption ==
  /\ IsFiniteSet(Item)
  /\ DecayTo \in [Kind -> Kind \cup {Nothing, Never}]
  /\ DecayTime \in [Kind -> Nat]
  /\ Stop \subseteq Kind /\ Stackable \subseteq Kind
  /\ Class \in [Kind -> STRING]
  /\ Turn \subseteq Kind \X Kind
  /\ Duration \subseteq Nat \ {0}
  /\ {Nothing, Never, NoKind} \cap Kind = {}
  /\ NoClock \notin Int
  \* Nothing decays to an item whose duration stops, and nothing becomes of
  \* one that decays all the same.  What turns into one whose duration only
  \* waits has a duration, as a ring that is taken off (items.xml).
  /\ \A k \in Kind : DecayTo[k] \in Kind => DecayTo[k] \notin Stop
  /\ \A k \in Stop : DecayTime[k] > 0 => DecayTo[k] \notin Kind
  /\ \A t \in Turn : t[2] \in Stop /\ DecayTime[t[2]] = 0
                     => t[1] \in Stop \/ DecayTime[t[1]] > 0

VARIABLES
  item,         \* the items, see Freed
  ended         \* history: clocks of the items that decayed in the last check

decayVars == <<item, ended>>

(* placed: it has a parent; toDecay, at and release count its entries in     *)
(* toDecayItems, decayItems and ToReleaseItems; clock is history, the time   *)
(* left to an item nobody touched since it was put on the list.              *)
Freed == [kind |-> NoKind, duration |-> 0, decaying |-> FALSE, placed |-> FALSE,
          refs |-> 0, toDecay |-> 0, at |-> [b \in Bucket |-> 0], release |-> 0,
          clock |-> NoClock]

Entries(r) == r.toDecay + SumFunctionOnSet(r.at, Bucket)

DecayInit == item = [i \in Item |-> Freed] /\ ended = {}

-----------------------------------------------------------------------------
(* Mutant: the list holds no reference.                                      *)
ListMutUncounted(r) == [r EXCEPT !.decaying = TRUE, !.toDecay = @ + 1]

(* The item is put on toDecayItems.                                          *)
List(r) ==
  [r EXCEPT !.refs = @ + 1, !.decaying = TRUE, !.toDecay = @ + 1,
            !.clock = IF Entries(r) = 0 THEN r.duration ELSE NoClock]

ListIfNew(r) == IF r.duration > 0 /\ ~r.decaying THEN List(r) ELSE r

CanDecay(r) == r.placed /\ DecayTo[r.kind] # Never /\ DecayTime[r.kind] > 0

(* Game::startDecay.  The duration is never 0 here, see ItemsAreListed.      *)
StartDecay(r) == IF CanDecay(r) THEN ListIfNew(r) ELSE r

(* Item::CreateItem; the item is placed by its caller.                       *)
Created(k) == [Freed EXCEPT !.kind = k, !.duration = DecayTime[k], !.refs = 1, !.placed = TRUE]

(* It leaves its parent, whose reference cleanup drops.                      *)
Removed(r) == [r EXCEPT !.placed = FALSE, !.release = @ + 1, !.clock = NoClock]

(* Item::setID, and the duration that transformItem keeps.                   *)
Renamed(r, k) ==
  LET restart == DecayTime[k] > 0 /\ (r.kind \notin Stop \/ r.duration = 0)
      ends == DecayTime[k] = 0 /\ k \notin Stop /\ DecayTo[k] = Never
  IN  [r EXCEPT !.kind = k,
                !.decaying = r.decaying /\ ~restart /\ ~ends,
                !.duration = IF r.duration > 0 THEN r.duration
                             ELSE IF restart THEN DecayTime[k] ELSE 0,
                !.clock = NoClock]

Free(w) == {i \in Item : w[i].refs = 0}

(* The kinds of which, sooner or later, an item of another class becomes,    *)
(* which is a new one; and whether there is one for each of these.           *)
Lasting(S) ==
  \A k \in S : DecayTo[k] \in Kind => DecayTo[k] \in S /\ Class[DecayTo[k]] = Class[k]

Replaceable == Kind \ UNION {S \in SUBSET Kind : Lasting(S)}

HasMemory(w) ==
  Cardinality({i \in Item : w[i].placed /\ w[i].kind \in Replaceable}) <= Cardinality(Free(w))

(* Game::transformItem: where the item is then, and all items.               *)
Transformed(w, i, k) ==
  IF Class[w[i].kind] = Class[k]
  THEN [at |-> i, items |-> [w EXCEPT ![i] = Renamed(@, k)]]
  ELSE LET j == CHOOSE j \in Free(w) : TRUE
       IN  [at |-> j, items |-> [w EXCEPT ![i] = Removed(@), ![j] = ListIfNew(Created(k))]]

(* Game::internalDecayItem.                                                  *)
InternalDecay(w, i) ==
  IF DecayTo[w[i].kind] = Nothing THEN [w EXCEPT ![i] = Removed(@)]
  ELSE LET t == Transformed(w, i, DecayTo[w[i].kind])
       IN  [t.items EXCEPT ![t.at] = StartDecay(@)]

(* Game::cleanup frees what is not referenced any more, and puts the items   *)
(* of the list into buckets.                                                 *)
Cleaned(r) ==
  LET b == IF r.duration >= Second THEN 3 ELSE 0
  IN  IF r.refs = r.release THEN Freed
      ELSE [r EXCEPT !.refs = @ - r.release, !.release = 0,
                     !.at[b] = @ + r.toDecay, !.toDecay = 0]

-----------------------------------------------------------------------------
(* Mutant: all that has less than a second left decays.                      *)
IsOverMutSecond(duration) == duration < Second

(* The item decays now: the next bucket would be this one (game.cpp:4936).   *)
IsOver(duration) == duration < Second /\ (duration + DecayInterval \div 2) \div Second = 0

(* checkDecay looks at one entry of the bucket.                              *)
Visit(w, i) ==
  LET r == w[i]
      left == IF r.duration > Second THEN r.duration - Second ELSE 0
      erased == [r EXCEPT !.duration = IF CanDecay(r) THEN left ELSE @, !.at[0] = @ - 1]
  IN  CASE ~CanDecay(r) ->
             [w EXCEPT ![i] = [erased EXCEPT !.decaying = FALSE, !.release = @ + 1,
                                             !.clock = NoClock]]
        [] CanDecay(r) /\ IsOver(left) ->
             [InternalDecay([w EXCEPT ![i] = erased], i) EXCEPT ![i].release = @ + 1]
        [] CanDecay(r) /\ left < Second /\ ~IsOver(left) ->
             [w EXCEPT ![i] = [erased EXCEPT !.at[1] = @ + 1]]
        [] OTHER -> [w EXCEPT ![i].duration = left]

VisitAll(w, i) == FoldSet(LAMBDA n, v : Visit(v, i), w, 1 .. w[i].at[0])

(* Game::checkDecay.  Bound: there is memory for what items become.          *)
CheckDecay ==
  LET now == [i \in Item |-> [item[i] EXCEPT
                !.clock = IF @ = NoClock THEN NoClock ELSE @ - DecayInterval]]
      all == FoldSet(LAMBDA i, w : VisitAll(w, i), now, Item)
      turned == [i \in Item |-> [all[i] EXCEPT !.at = [b \in Bucket |-> @[(b + 1) % 4]]]]
  IN  /\ HasMemory(item)
      /\ item' = [i \in Item |-> Cleaned(turned[i])]
      /\ ended' = {now[i].clock : i \in {j \in Item :
                     /\ now[j].clock # NoClock
                     /\ \/ all[j].kind # now[j].kind
                        \/ now[j].placed /\ ~all[j].placed}}

(* cleanup is also called by checkCreatures and checkImbuements.             *)
Cleanup ==
  /\ item' = [i \in Item |-> Cleaned(item[i])]
  /\ UNCHANGED ended

-----------------------------------------------------------------------------
Becomes(i, r) == item' = [item EXCEPT ![i] = r] /\ UNCHANGED ended

(* Game::internalAddItem, for a new item.  Bound: it is the only one, so the *)
(* others are parts of it, or what it was transformed to.                    *)
AddItem(i, k) ==
  /\ Free(item) = Item
  /\ LET r == Created(k)
     IN  Becomes(i, IF r.duration > 0 THEN List(r) ELSE r)

(* Game::internalMoveItem of the whole item.                                 *)
MoveItem(i) ==
  /\ item[i].placed
  /\ Becomes(i, ListIfNew(item[i]))

(* ... and of a part, which becomes a clone, with the state of the stack.    *)
SplitItem(i, j) ==
  /\ item[i].placed
  /\ item[i].kind \in Stackable
  /\ j \in Free(item)
  /\ LET r == [Created(item[i].kind) EXCEPT !.duration = item[i].duration,
                                            !.decaying = item[i].decaying]
     IN  Becomes(j, IF r.duration > 0 THEN List(r) ELSE r)

RemoveItem(i) ==
  /\ item[i].placed
  /\ Becomes(i, Removed(item[i]))

(* The item is put on or taken off (EquipItem, DeEquipItem), or a script     *)
(* transforms it.  A script need not call decay.                             *)
TransformItem(i, k) ==
  /\ item[i].placed
  /\ <<item[i].kind, k>> \in Turn
  /\ Class[k] # Class[item[i].kind] => Free(item) # {}
  /\ LET t == Transformed(item, i, k)
     IN  item' \in {t.items, [t.items EXCEPT ![t.at] = StartDecay(@)]}
  /\ UNCHANGED ended

(* item:decay() of a script, or an item that is loaded.                      *)
DecayItem(i) ==
  /\ item[i].placed
  /\ Becomes(i, StartDecay(item[i]))

(* item:setAttribute(ITEM_ATTRIBUTE_DURATION, d)                             *)
SetDuration(i, d) ==
  /\ item[i].placed
  /\ DecayTime[item[i].kind] > 0
  /\ Becomes(i, [item[i] EXCEPT !.duration = d,
       !.clock = IF item[i].toDecay = 1 /\ Entries(item[i]) = 1 THEN d ELSE NoClock])

(* The bounds: no item gets more references, and checkDecay may go on.       *)
Bounded ==
  /\ \A i \in Item : item'[i].refs <= MaxRefs
  /\ HasMemory(item')

DecayNext ==
  \/ CheckDecay
  \/ Cleanup
  \/ /\ \E i \in Item :
          \/ \E k \in Kind : AddItem(i, k) \/ TransformItem(i, k)
          \/ \E j \in Item : SplitItem(i, j)
          \/ \E d \in Duration : SetDuration(i, d)
          \/ MoveItem(i) \/ RemoveItem(i) \/ DecayItem(i)
     /\ Bounded

DecaySpec == DecayInit /\ [][DecayNext]_decayVars

-----------------------------------------------------------------------------
DecayTypeOK ==
  /\ \A i \in Item : LET r == item[i]
                     IN  /\ r.kind \in Kind \cup {NoKind}
                         /\ {r.duration, r.refs, r.toDecay, r.release} \subseteq Nat
                         /\ r.at \in [Bucket -> Nat]
                         /\ r.decaying \in BOOLEAN /\ r.placed \in BOOLEAN
                         /\ r.clock \in Int \cup {NoClock}
  /\ ended \subseteq Int

(* An item has exactly the references of its parent, of its entries and of   *)
(* those waiting to be dropped, so none is freed while checkDecay will visit *)
(* it, and none stays for ever.  One that is marked as decaying has an entry *)
(* in a bucket or on the list: startDecay (game.cpp:4846) would never put it *)
(* there again.  One that is not has some duration left, so that startDecay  *)
(* lists it, and it does not decay on the spot.                              *)
ItemsAreListed ==
  /\ DecayTypeOK
  /\ \A i \in Item : LET r == item[i]
                     IN  /\ r.refs = Entries(r) + r.release + IF r.placed THEN 1 ELSE 0
                         /\ CanDecay(r) => IF r.decaying THEN Entries(r) > 0 ELSE r.duration > 0

(* An item that nobody touches once it is on the list decays less than two   *)
(* checks late, that is 500 ms, and less than 0.875 s early: it waits for a  *)
(* check to come into a bucket, and, when it has less than a second, for the *)
(* next one (game.cpp:4936, 5159).                                           *)
DecayInTime ==
  /\ ended \subseteq 1 - 2 * DecayInterval .. Second - 2
  /\ \A i \in Item : item[i].clock # NoClock => item[i].clock > -DecayInterval
=============================================================================
