------------------------------- MODULE Trade --------------------------------
(***************************************************************************)
(* Trade between two players (game.cpp, player.cpp): each offers an item, by *)
(* its address, and goes on moving items until both accept; the exchange is  *)
(* tested first, and then made by two moves that nothing undoes.  What must  *)
(* not happen is that an offer changes while somebody looks at it, or that   *)
(* one of the moves fails.                                                   *)
(*                                                                           *)
(* A handler is a task of the dispatcher, and one step.  All stackable items *)
(* are of one kind and make less than a full stack together, so that any two *)
(* of them merge; a part of a stack is never moved.  "Within reach" is to    *)
(* stand on the same spot.  Trades of houses, whose item is a document that  *)
(* no player can carry, are not modelled.                                    *)
(***************************************************************************)
EXTENDS Naturals, FiniteSets, SequencesExt

CONSTANTS
  Player,
  Bag,          \* containers
  Stack,        \* stackable items
  BagSize,      \* Container::capacity
  MaxCount,     \* how many units all stacks hold at most: less than a full one
  Slot,         \* the slots of an inventory, in their order
  Worn,         \* slots that hold containers only, as that of the backpack
  Spot,         \* places to stand or to drop an item
  Gone,         \* the place of an item that was used up, or is not there yet
  Offline,      \* the spot of a player who is not in the game
  Nobody,       \* nullptr as a trade partner
  Nothing       \* nullptr as an item, and as a place

Item == Bag \cup Stack
SlotOf == Player \X ToSet(Slot)
Place == SlotOf \cup Bag \cup Spot \cup {Gone}

ASSUME TradeAssumption ==
  /\ BagSize \in Nat
  /\ MaxCount \in Nat
  /\ IsFiniteSet(Item)
  /\ Bag \cap Stack = {}
  /\ Slot \in Seq(ToSet(Slot))
  /\ Worn \subseteq ToSet(Slot)
  \* Things of different sorts are different.
  /\ SlotOf \cap (Bag \cup Spot) = {} /\ Bag \cap Spot = {}
  /\ Gone \notin SlotOf \cup Bag \cup Spot
  /\ Offline \notin Place
  /\ Nobody \notin Player
  /\ Nothing \notin Item \cup Place

VARIABLES at, place, count, trade

tradeVars == <<at, place, count, trade>>

Trades ==
  [state   : [Player -> {"NONE", "INITIATED", "ACCEPT", "ACKNOWLEDGE"}],
   partner : [Player -> Player \cup {Nobody}],
   offer   : [Player -> Item \cup {Nothing}],       \* Player::tradeItem
   items   : [Item -> Player \cup {Nobody}]]        \* Game::tradeItems

-----------------------------------------------------------------------------
(* Where things are.  `in` is the place of every item.                       *)

(* The containers around i, and the place of the outermost one.              *)
Around(in, i) ==
  LET around[j \in Item] == IF in[j] \in Bag THEN {in[j]} \cup around[in[j]] ELSE {}
  IN  around[i]

Root(in, i) ==
  LET root[j \in Item] == IF in[j] \in Bag THEN root[in[j]] ELSE in[j]
  IN  root[i]

Carries(in, p, i) == Root(in, i) \in {p} \X ToSet(Slot)

Reaches(in, p, i) ==
  /\ at[p] # Offline
  /\ Carries(in, p, i) \/ Root(in, i) = at[p]

HasRoom(in, b, i) ==
  /\ Cardinality({j \in Item : in[j] = b}) < BagSize
  /\ i \notin {b} \cup Around(in, b)

Fits(s, i) == s \in Worn => i \in Bag

-----------------------------------------------------------------------------
(* Player::queryDestination with INDEX_WHEREEVER: the place at which p would *)
(* get i, a stack if i would be added to it.  The offer of p is passed over, *)
(* except where it is in a container and i does not look for a stack.        *)

Candidates(in, p, i, stacking, offer) ==
  LET PassedOver(j) == j \in {i, offer} /\ (stacking \/ in[j] \in SlotOf)
      InSlot(s) == {j \in Item : in[j] = <<p, s>>}
      open == {b \in Bag : /\ Carries(in, p, b)
                           /\ \A j \in {b} \cup Around(in, b) : ~PassedOver(j)}
      Depth(b) == Cardinality(Around(in, b))
      slot == SelectInSeq(Slot, LAMBDA s : /\ Fits(s, i)
                 /\ \/ InSlot(s) = {}
                    \/ stacking /\ InSlot(s) \subseteq Stack \ {i, offer})
      InBag(b) == LET stacks == {j \in Stack \ {i, offer} : in[j] = b}
                  IN  IF stacking /\ stacks # {} THEN stacks
                      ELSE IF HasRoom(in, b, i) THEN {b} ELSE {}
      fitting == {b \in open : InBag(b) # {}}
  IN  IF slot # 0
      THEN IF InSlot(Slot[slot]) = {} THEN {<<p, Slot[slot]>>} ELSE InSlot(Slot[slot])
      ELSE UNION {InBag(b) : b \in {b \in fitting :
                    \A c \in fitting : Depth(b) <= Depth(c)}}

(* With FLAG_IGNOREAUTOSTACK no stack is looked for.                         *)
Destinations(in, p, i, autostack, offer) ==
  LET found == Candidates(in, p, i, autostack /\ i \in Stack, offer)
  IN  IF found = {} THEN {Nothing} ELSE found

-----------------------------------------------------------------------------
(* Game::internalCloseTrade for every player of S.                           *)
CloseTrades(t, S) ==
  LET both == S \cup ({t.partner[p] : p \in S} \ {Nobody})
      offers == {t.offer[p] : p \in both}
      Reset(f, value) == [p \in Player |-> IF p \in both THEN value ELSE f[p]]
  IN  [state |-> Reset(t.state, "NONE"), partner |-> Reset(t.partner, Nobody),
       offer |-> Reset(t.offer, Nothing),
       items |-> [i \in Item |-> IF i \in offers THEN Nobody ELSE t.items[i]]]

(* The players who are told that something changes at x: the owner of the    *)
(* slot, or those near the tile or the container.                            *)
Told(in, x) ==
  IF x \in SlotOf THEN {x[1]}
  ELSE LET root == IF x \in Bag THEN Root(in, x) ELSE x
       IN  {p \in Player : at[p] = root \/ (root \in SlotOf /\ at[root[1]] = at[p])}

(* The players whose offer is concerned when i is removed from x: it is i,   *)
(* it holds i (checkTradeState), or i holds it.  When something is removed   *)
(* from a container, an offer that lies deeper in it is taken to be.         *)
Disturbed(in, i, x) ==
  {p \in Told(in, x) :
     /\ trade.offer[p] # Nothing
     /\ \/ trade.offer[p] \in {i} \cup Around(in, i)
        \/ /\ (IF x \in Bag THEN x ELSE i) \in Around(in, trade.offer[p])
           /\ in[trade.offer[p]] # x}

(* ... and when i is put into x, or is changed there.  An item that lands in *)
(* a slot or on a tile is told of to nobody.                                 *)
DisturbedByAdding(in, i, x) ==
  IF x \notin Bag THEN {}
  ELSE {p \in Told(in, x) : trade.offer[p] \in {i} \cup Around(in, i)}

DisturbedByUpdating(in, i, x) ==
  {p \in Told(in, x) : trade.offer[p] \in {i} \cup Around(in, i)}

-----------------------------------------------------------------------------
TradeInit ==
  /\ at \in [Player -> Spot \cup {Offline}]
  /\ place = [i \in Item |-> Gone]
  /\ count = [s \in Stack |-> 0]
  /\ trade = [state |-> [p \in Player |-> "NONE"],
              partner |-> [p \in Player |-> Nobody],
              offer |-> [p \in Player |-> Nothing],
              items |-> [i \in Item |-> Nobody]]

Units == UNION {{s} \X (1 .. count[s]) : s \in Stack}

(* An item comes into the game: it drops from a monster or is bought.        *)
CreateItem(i, s) ==
  /\ place[i] = Gone
  /\ i \in Stack => Cardinality(Units) < MaxCount
  /\ place' = [place EXCEPT ![i] = s]
  /\ count' = [j \in Stack |-> IF j = i THEN 1 ELSE count[j]]
  /\ UNCHANGED <<at, trade>>

(* Game::playerMoveItem to an empty place, or with autostack onto a stack.   *)
MoveItem(p, i, d) ==
  /\ Reaches(place, p, i)
  /\ d # place[i]
  /\ \/ /\ d \in Spot
     \/ /\ d \in {p} \X ToSet(Slot)
        /\ \A j \in Item : place[j] # d
        /\ Fits(d[2], i)
     \/ /\ d \in Bag
        /\ Reaches(place, p, d)
        /\ HasRoom(place, d, i)
  /\ place' = [place EXCEPT ![i] = d]
  /\ trade' = CloseTrades(trade, Disturbed(place, i, place[i])
                                 \cup DisturbedByAdding(place', i, d))
  /\ UNCHANGED <<at, count>>

(* Mutant: nobody is told that the stack has grown.                          *)
MergeItemsMutQuiet(p, i, j) ==
  /\ i # j
  /\ Reaches(place, p, i) /\ Reaches(place, p, j)
  /\ place' = [place EXCEPT ![i] = Gone]
  /\ count' = [count EXCEPT ![i] = 0, ![j] = @ + count[i]]
  /\ trade' = CloseTrades(trade, Disturbed(place, i, place[i]))
  /\ UNCHANGED at

MergeItems(p, i, j) ==
  /\ i # j
  /\ Reaches(place, p, i) /\ Reaches(place, p, j)
  /\ place' = [place EXCEPT ![i] = Gone]
  /\ count' = [count EXCEPT ![i] = 0, ![j] = @ + count[i]]
  /\ trade' = CloseTrades(trade, Disturbed(place, i, place[i])
                                 \cup DisturbedByUpdating(place, j, place[j]))
  /\ UNCHANGED at

(* Game::internalRemoveItem: the item is used up or decays.                  *)
RemoveItem(i) ==
  /\ place[i] # Gone
  /\ \A j \in Item : place[j] # i
  /\ place' = [place EXCEPT ![i] = Gone]
  /\ count' = [j \in Stack |-> IF j = i THEN 0 ELSE count[j]]
  /\ trade' = CloseTrades(trade, Disturbed(place, i, place[i]))
  /\ UNCHANGED at

-----------------------------------------------------------------------------
(* Mutant: only the offer itself is looked for among those made before.      *)
PlayerRequestTradeMutNested(p, q, i) ==
  /\ p # q
  /\ Offline \notin {at[p], at[q]} /\ at[p] = at[q]
  /\ Reaches(place, p, i)
  /\ trade.items[i] = Nobody
  /\ \/ trade.state[p] = "NONE"
     \/ trade.state[p] = "ACKNOWLEDGE" /\ trade.partner[p] = q
  /\ trade.state[q] = "NONE" \/ trade.partner[q] = p
  /\ trade' = [state   |-> [trade.state EXCEPT
                 ![p] = "INITIATED", ![q] = IF @ = "NONE" THEN "ACKNOWLEDGE" ELSE @],
               partner |-> [trade.partner EXCEPT ![p] = q, ![q] = p],
               offer   |-> [trade.offer EXCEPT ![p] = i],
               items   |-> [trade.items EXCEPT ![i] = p]]
  /\ UNCHANGED <<at, place, count>>

(* Game::playerRequestTrade and internalStartTrade.  A player too far from   *)
(* the item walks to it and asks again.                                      *)
PlayerRequestTrade(p, q, i) ==
  /\ p # q
  /\ Offline \notin {at[p], at[q]} /\ at[p] = at[q]
  /\ Reaches(place, p, i)
  /\ \A j \in Item : trade.items[j] # Nobody =>
       i # j /\ j \notin Around(place, i) /\ i \notin Around(place, j)
  /\ \/ trade.state[p] = "NONE"
     \/ trade.state[p] = "ACKNOWLEDGE" /\ trade.partner[p] = q
  /\ trade.state[q] = "NONE" \/ trade.partner[q] = p
  /\ trade' = [state   |-> [trade.state EXCEPT
                 ![p] = "INITIATED", ![q] = IF @ = "NONE" THEN "ACKNOWLEDGE" ELSE @],
               partner |-> [trade.partner EXCEPT ![p] = q, ![q] = p],
               offer   |-> [trade.offer EXCEPT ![p] = i],
               items   |-> [trade.items EXCEPT ![i] = p]]
  /\ UNCHANGED <<at, place, count>>

PlayerCloseTrade(p) ==
  /\ at[p] # Offline
  /\ trade' = CloseTrades(trade, {p})
  /\ UNCHANGED <<at, place, count>>

-----------------------------------------------------------------------------
(* The exchange: i, the offer of p, goes to q, then j, the offer of q, to p. *)

(* The test: each would find a place while both items are where they are.    *)
MayExchange(p, q, i, j) ==
  /\ Nothing \notin {i, j}
  /\ Nothing \notin Destinations(place, q, i, TRUE, j)
  /\ Nothing \notin Destinations(place, p, j, TRUE, i)

(* The places of the items after the first move.  It is refused if there is  *)
(* no place without autostack, or if that place is inside of j.              *)
FirstMove(in, q, i, j) ==
  LET Inside(d) == d \in Bag /\ j \in {d} \cup Around(in, d)
      found == {IF Inside(d) THEN Nothing ELSE d : d \in Destinations(in, q, i, FALSE, j)}
  IN  {[in EXCEPT ![i] = d] : d \in found \ {Nothing}}
      \cup {in : d \in found \cap {Nothing}}

(* Mutant: the second move is only tried, as the test before did.            *)
SecondMoveMutTested(in, p, i, j) == {in}

(* ... and after the second one, whose result is ignored.                    *)
SecondMove(in, p, i, j) ==
  {IF d = Nothing THEN in ELSE [in EXCEPT ![j] = d] :
     d \in Destinations(in, p, j, FALSE, i)}

(* Others whose offers are deeper in what an item is taken from lose them.   *)
DisturbedByMove(in, to, i) == IF to[i] = in[i] THEN {} ELSE Disturbed(in, i, in[i])

(* A trader who has made no offer may accept as well.  Scripts may refuse    *)
(* the exchange, and so may the capacity of a player.                        *)
PlayerAcceptTrade(p) ==
  LET q == trade.partner[p]
      i == trade.offer[p]
      j == trade.offer[q]
  IN  /\ at[p] # Offline
      /\ trade.state[p] \in {"ACKNOWLEDGE", "INITIATED"}
      /\ \/ /\ trade.state[q] # "ACCEPT"
            /\ trade' = [trade EXCEPT !.state[p] = "ACCEPT"]
            /\ UNCHANGED place
         \/ /\ trade.state[q] = "ACCEPT"
            /\ trade' = CloseTrades(trade, {p})
            /\ UNCHANGED place
         \/ /\ trade.state[q] = "ACCEPT"
            /\ MayExchange(p, q, i, j)
            /\ \E first \in FirstMove(place, q, i, j) :
                 /\ IF first = place THEN UNCHANGED place
                    ELSE place' \in SecondMove(first, p, i, j)
                 /\ trade' = CloseTrades(trade, {p} \cup DisturbedByMove(place, first, i)
                                                   \cup DisturbedByMove(first, place', j))
      /\ UNCHANGED <<at, count>>

-----------------------------------------------------------------------------
(* Player::onCreatureMove: the trade ends if the offer or the partner is out *)
(* of reach.                                                                 *)
Walk(p, to) ==
  /\ at[p] # Offline
  /\ to # at[p]
  /\ at' = [at EXCEPT ![p] = to]
  /\ LET i == trade.offer[p]
         q == trade.partner[p]
         away == \/ i # Nothing /\ ~Carries(place, p, i) /\ Root(place, i) # to
                 \/ q # Nobody /\ at[q] # to
     IN  trade' = IF away THEN CloseTrades(trade, {p}) ELSE trade
  /\ UNCHANGED <<place, count>>

TradeLogin(p, to) ==
  /\ at[p] = Offline
  /\ at' = [at EXCEPT ![p] = to]
  /\ UNCHANGED <<place, count, trade>>

(* Player::onRemoveCreature.                                                 *)
TradeLogout(p) ==
  /\ at[p] # Offline
  /\ at' = [at EXCEPT ![p] = Offline]
  /\ trade' = IF trade.partner[p] # Nobody THEN CloseTrades(trade, {p}) ELSE trade
  /\ UNCHANGED <<place, count>>

TradeNext ==
  \/ \E p \in Player :
       \/ \E q \in Player, i \in Item : PlayerRequestTrade(p, q, i)
       \/ PlayerAcceptTrade(p)
       \/ PlayerCloseTrade(p)
       \/ \E i \in Item, d \in Place : MoveItem(p, i, d)
       \/ \E i, j \in Stack : MergeItems(p, i, j)
       \/ \E to \in Spot : Walk(p, to) \/ TradeLogin(p, to)
       \/ TradeLogout(p)
  \/ \E i \in Item : RemoveItem(i) \/ \E s \in Spot : CreateItem(i, s)

TradeSpec == TradeInit /\ [][TradeNext]_tradeVars

-----------------------------------------------------------------------------
(* The variables have the types of the code's fields.                        *)
TradeTypeOK ==
  /\ at \in [Player -> Spot \cup {Offline}]
  /\ place \in [Item -> Place]
  /\ count \in [Stack -> 0 .. MaxCount]
  /\ trade \in Trades

(* Two players trade with each other or not at all; the trader who only      *)
(* heard of the trade has offered nothing; the registry of offered items is  *)
(* that of the offers of the traders; the traders and their offers are in    *)
(* reach; and nothing is offered twice, on its own or with what is around    *)
(* it.  The two sides are fields of two objects that every way to end a      *)
(* trade (game.cpp:3098, player.cpp:1120, 1274, 1363, 1493) has to reset.    *)
TradersAgree ==
  /\ TradeTypeOK
  /\ \A p \in Player :
       LET q == trade.partner[p]
           i == trade.offer[p]
       IN  IF q = Nobody THEN trade.state[p] = "NONE" /\ i = Nothing
           ELSE /\ trade.partner[q] = p
                /\ trade.state[p] # "NONE"
                /\ trade.state[p] = "INITIATED" => i # Nothing
                /\ trade.state[p] = "ACKNOWLEDGE" => i = Nothing
                /\ at[p] = at[q]
                /\ i # Nothing => Reaches(place, p, i) /\ trade.items[i] = p
  /\ \A i \in Item :
       trade.items[i] # Nobody =>
         /\ trade.offer[trade.items[i]] = i
         /\ \A b \in Around(place, i) : trade.items[b] = Nobody

(* What the partner can see of an offer, and the containers it is in.        *)
Sight(in, c, i) ==
  {<<j, in[j], IF j \in Stack THEN c[j] ELSE 0>> :
     j \in {j \in Item : i = j \/ i \in Around(in, j) \/ j \in Around(in, i)}}

(* While an offer stands, the item is not moved, alone or with what it is    *)
(* in, nothing is put into it or taken out, and no stack in it grows: what   *)
(* the partner sees is what it would get (player.cpp:1405, 1486).            *)
OfferFrozen ==
  [][\A p \in Player :
       LET i == trade.offer[p]
       IN  i # Nothing /\ trade'.offer[p] = i
             => Sight(place', count', i) = Sight(place, count, i)]_tradeVars

(* An exchange that moves anything hands over both offers, or the first one  *)
(* and the second is a stack: the test let it merge with another stack, the  *)
(* move may not, and its failure is ignored (game.cpp:2949-2963).            *)
ExchangeIsWhole ==
  [][\A p, q \in Player :
       LET i == trade.offer[p]
           j == trade.offer[q]
       IN  trade.partner[p] = q /\ place' # place /\ PlayerAcceptTrade(p)
           => /\ Carries(place', q, i)
              /\ Carries(place', p, j) \/ j \in Stack]_tradeVars
=============================================================================
