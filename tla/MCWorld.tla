------------------------------ MODULE MCWorld -------------------------------
(***************************************************************************)
(* The market, the raids, a spawn, decaying items and the database           *)
(* connection, which share no variable.  A behaviour is one of a single      *)
(* part, `part`, while the others stay as they begin, so that TLC goes       *)
(* through the sum of their states and not the product.  What a property     *)
(* says of a part that stays holds at its beginning: nothing is missing,     *)
(* runs, expires or is stored.                                               *)
(***************************************************************************)
EXTENDS Market, Raids, Spawns, Transactions, Decay

VARIABLE part

(* Two pieces may be accepted one by one, with more coins than a player has; *)
(* a purchase may be too dear for Width 4, or with its fee for what a player *)
(* begins with.                                                              *)
Sale(ware, n) == [sale |-> TRUE, ware |-> ware, amount |-> n, price |-> 1]
Purchase(ware, n, price) == [sale |-> FALSE, ware |-> ware, amount |-> n, price |-> price]

Deals == {Sale("item", 2), Sale("coin", 1), Purchase("coin", 2, 1),
          Purchase("item", 2, 2), Purchase("item", 1, 3)}

Lengths == [n \in Name |-> IF n \in Repeated THEN 1 ELSE 2]

Intervals == [b \in Block |-> IF b < 3 THEN 4 ELSE 5]

(* A ring that is worn and taken off, whose time stops then; a fire that     *)
(* fades by itself or by a script; a body that leaves an item of another     *)
(* class behind; and arrows that vanish.                                     *)
Kinds == {"ring", "worn", "fire", "embers", "body", "arrows"}

DecaysTo == [k \in Kinds |-> CASE k = "ring" -> Never
                               [] k \in {"fire", "body"} -> "embers"
                               [] OTHER -> Nothing]

DecayTimes == [k \in Kinds |-> CASE k = "ring" -> 0
                                 [] k \in {"embers", "body"} -> Second
                                 [] OTHER -> 2 * Second]

Classes == [k \in Kinds |-> IF k = "body" THEN "container" ELSE "none"]

Turns == {<<"ring", "worn">>, <<"worn", "ring">>, <<"fire", "embers">>}

vars == <<marketVars, raidVars, spawnVars, dbVars, decayVars, part>>

Init ==
  /\ part \in {"market", "raids", "spawn", "database", "decay"}
  /\ MarketInit
  /\ RaidInit
  /\ SpawnInit
  /\ TransactionInit
  /\ DecayInit
  /\ part # "market" => inGame = {}
  /\ part # "spawn" => blocked = {}

(* The bounds let the work of the database end, and only that.               *)
DatabaseDone ==
  /\ part = "database"
  /\ saver = "idle" /\ version = MaxSave /\ tries = 0 /\ reported = Query /\ up
  /\ UNCHANGED vars

Next ==
  /\ UNCHANGED part
  /\ \/ part = "market" /\ MarketNext /\ UNCHANGED <<raidVars, spawnVars, dbVars, decayVars>>
     \/ part = "raids" /\ RaidNext /\ UNCHANGED <<marketVars, spawnVars, dbVars, decayVars>>
     \/ part = "spawn" /\ SpawnNext /\ UNCHANGED <<marketVars, raidVars, dbVars, decayVars>>
     \/ part = "database" /\ TransactionNext /\ UNCHANGED <<marketVars, raidVars, spawnVars, decayVars>>
     \/ part = "decay" /\ DecayNext /\ UNCHANGED <<marketVars, raidVars, spawnVars, dbVars>>
     \/ DatabaseDone

(* MarketFairness, RaidFairness and SpawnFairness, for the part that moves.  *)
Fairness ==
  /\ WF_marketVars(part = "market" /\ CheckExpiredOffers)
  /\ WF_marketVars(part = "market" /\ ProcessExpiredOffers)
  /\ \A e \in EventId :
       WF_raidVars(part = "raids" /\ (EventDue(e) \/ CheckRaids(e) \/ ExecuteRaidEvent(e)))
  /\ WF_spawnVars(part = "spawn" /\ Tick)
  /\ WF_spawnVars(part = "spawn" /\ CheckSpawn)
  /\ \A b \in Block : WF_spawnVars(part = "spawn" /\ SpawnAnnounced(b))

Spec == Init /\ [][Next]_vars /\ Fairness
=============================================================================
