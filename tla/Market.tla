------------------------------- MODULE Market -------------------------------
(***************************************************************************)
(* The market (game.cpp, iomarket.cpp).  Offers are rows of the database:    *)
(* what a sale offers, or the price of a purchase, is taken from the player  *)
(* when the row is written and must come back exactly once, to the other     *)
(* side or to the owner.  The handlers of players are tasks of the           *)
(* dispatcher which read and write the rows at once.  Expired rows are       *)
(* selected in the database thread, and processed by a later task.           *)
(*                                                                           *)
(* An offer is for one ware, items of one kind or coins.  Cash and bank      *)
(* balance are one sum, as every payment may use both.  A player may use the *)
(* market whenever it is online: leaving it, exhaustion, premium time, the   *)
(* number of offers and the depot only refuse a request.  The fee does not   *)
(* depend on the price.  The database thread runs the updates of coins in    *)
(* the order they are asked for, while a balance is read at once.            *)
(***************************************************************************)
EXTENDS Integers, FiniteSetsExt, SequencesExt

CONSTANTS
  Trader,       \* the players
  Wealth,       \* the gold and the items each begins with
  Coins,        \* the coins of each account in the beginning
  Deal,         \* what is offered: a sale or a purchase of a ware, amount, price
  Fee,          \* the fee for an offer
  Width,        \* 2^32: products of 32 bit numbers are taken modulo this
  MaxOffer,     \* bound: how many offers are ever made
  MaxResult,    \* bound: how many results wait in the dispatcher
  NoOffer       \* no row has the identifier

Id == 1 .. MaxOffer
Offer == [owner : Trader, sale : BOOLEAN, ware : {"item", "coin"},
          amount : Nat \ {0}, price : Nat \ {0}]

ASSUME MarketAssumption ==
  /\ IsFiniteSet(Trader)
  /\ Wealth \in Nat /\ Coins \in Nat /\ Fee \in Nat
  /\ Deal \subseteq [sale : BOOLEAN, ware : {"item", "coin"},
                    amount : Nat \ {0}, price : Nat \ {0}]
  /\ Width \in Nat \ {0}
  /\ {MaxOffer, MaxResult} \subseteq Nat
  /\ NoOffer \notin Offer

VARIABLES
  inGame,       \* the players online
  purse,        \* what players hold in the server's memory
  saved,        \* ... and in the database, which counts while they are offline
  coins,        \* the coins of the accounts, in the database only
  coinQueries,  \* the updates of them that wait in the database thread
  offers,       \* market_offers, by id
  nextId,       \* its AUTO_INCREMENT
  old,          \* the rows created longer ago than an offer lasts
  results,      \* tasks of the dispatcher, with the expired rows selected for each
  damage        \* history: what happened that the code does not account for

marketVars == <<inGame, purse, saved, coins, coinQueries, offers, nextId, old,
                results, damage>>

Purse == [gold : Nat, items : Nat, coinItems : Nat]
Empty == [gold |-> 0, items |-> 0, coinItems |-> 0]

MarketInit ==
  /\ inGame \in SUBSET Trader
  /\ saved = [p \in Trader |-> [gold |-> Wealth, items |-> Wealth, coinItems |-> 0]]
  /\ purse = [p \in Trader |-> IF p \in inGame THEN saved[p] ELSE Empty]
  /\ coins = [p \in Trader |-> Coins]
  /\ coinQueries = <<>>
  /\ offers = [id \in Id |-> NoOffer]
  /\ nextId = 1
  /\ old = {}
  /\ results = <<>>
  /\ damage = {}

Held(p) == IF p \in inGame THEN purse[p] ELSE saved[p]

Times32(price, amount) == (price * amount) % Width

-----------------------------------------------------------------------------
Add(x, y) == [gold |-> x.gold + y.gold, items |-> x.items + y.items,
              coinItems |-> x.coinItems + y.coinItems]

(* Mutant: whoever is paid is paid in the database.                          *)
TransferMutSaved(gain) ==
  /\ purse' = [p \in Trader |-> IF p \in inGame /\ gain[p].gold <= 0
                                THEN Add(purse[p], gain[p]) ELSE purse[p]]
  /\ saved' = [p \in Trader |-> IF p \in inGame /\ gain[p].gold <= 0
                                THEN saved[p] ELSE Add(saved[p], gain[p])]

(* Each player gains or loses: in memory if it is online; else it is loaded  *)
(* and saved again, or its row is updated (increaseBankBalance).             *)
Transfer(gain) ==
  /\ purse' = [p \in Trader |-> IF p \in inGame THEN Add(purse[p], gain[p]) ELSE purse[p]]
  /\ saved' = [p \in Trader |-> IF p \in inGame THEN saved[p] ELSE Add(saved[p], gain[p])]

Gold(n) == [Empty EXCEPT !.gold = n]
Items(ware, n) == [Empty EXCEPT !.items = IF ware = "item" THEN n ELSE 0]

(* IOAccount::addCoins and removeCoins, of which only coins make a query.    *)
AddCoins(p, ware, n) == IF ware = "coin" THEN <<[account |-> p, amount |-> n]>> ELSE <<>>

Only(p, gain) == [x \in Trader |-> IF x = p THEN gain ELSE Empty]

(* The coins of an account when the updates that wait have run.              *)
Balance(p) ==
  coins[p] + SumFunction([k \in {k \in DOMAIN coinQueries : coinQueries[k].account = p} |->
                            coinQueries[k].amount])

(* IOAccount::getCoinBalance does not wait for the updates, and reads what   *)
(* is below zero as an unsigned number near 2^32.                            *)
Owns(p, ware, n) ==
  IF ware = "coin" THEN coins[p] < 0 \/ n <= coins[p] ELSE n <= Held(p).items

(* History: the coins were spent before.                                     *)
Overdraft(p, ware, n) == IF ware = "coin" /\ n > Balance(p) THEN {"overdrawn"} ELSE {}

-----------------------------------------------------------------------------
(* A player pays with its bank balance and its cash.                         *)
Affords(p, price) == price <= purse[p].gold

(* Game::playerCreateMarketOffer.                                            *)
CreateOffer(p, d) ==
  LET cost == Fee + IF d.sale THEN 0 ELSE Times32(d.price, d.amount)
      given == IF d.sale THEN Items(d.ware, -d.amount) ELSE Empty
  IN  /\ p \in inGame
      /\ nextId \in Id
      /\ Affords(p, cost)
      /\ d.sale => Owns(p, d.ware, d.amount)
      /\ Transfer(Only(p, Add(Gold(-cost), given)))
      /\ coinQueries' = coinQueries \o
           IF d.sale THEN AddCoins(p, d.ware, -d.amount) ELSE <<>>
      /\ offers' = [offers EXCEPT ![nextId] =
           [owner |-> p, sale |-> d.sale, ware |-> d.ware,
            amount |-> d.amount, price |-> d.price]]
      /\ nextId' = nextId + 1
      /\ damage' = damage \cup
           IF d.sale THEN Overdraft(p, d.ware, d.amount)
           ELSE IF d.price * d.amount >= Width THEN {"overflow"} ELSE {}
      /\ UNCHANGED <<inGame, coins, old, results>>

(* Game::playerCancelMarketOffer.                                            *)
CancelOffer(p, id) ==
  LET o == offers[id]
  IN  /\ p \in inGame
      /\ o # NoOffer
      /\ o.owner = p
      /\ Transfer(Only(p, IF o.sale THEN Items(o.ware, o.amount)
                          ELSE Gold(o.price * o.amount)))
      /\ coinQueries' = coinQueries \o
           IF o.sale THEN AddCoins(p, o.ware, o.amount) ELSE <<>>
      /\ offers' = [offers EXCEPT ![id] = NoOffer]
      /\ UNCHANGED <<inGame, coins, nextId, old, results, damage>>

(* Game::playerAcceptMarketOffer.  A part may be accepted; a result that     *)
(* holds the row keeps the amount from before.                               *)
AcceptOffer(p, id, amount) ==
  LET o == offers[id]
      total == Times32(o.price, amount)
      gain(x) == CASE x = p /\ o.sale -> Add(Gold(-total), Items(o.ware, amount))
                   [] x = p /\ ~o.sale -> Add(Gold(total), Items(o.ware, -amount))
                   [] x = o.owner /\ o.sale -> Gold(total)
                   [] x = o.owner /\ ~o.sale -> Items(o.ware, amount)
                   [] OTHER -> Empty
  IN  /\ p \in inGame
      /\ o # NoOffer
      /\ amount <= o.amount
      /\ p # o.owner
      /\ IF o.sale THEN Affords(p, total) ELSE Owns(p, o.ware, amount)
      /\ Transfer([x \in Trader |-> gain(x)])
      /\ coinQueries' = coinQueries \o
           IF o.sale THEN AddCoins(p, o.ware, amount)
           ELSE AddCoins(p, o.ware, -amount) \o AddCoins(o.owner, o.ware, amount)
      /\ offers' = [offers EXCEPT ![id] =
           IF amount = o.amount THEN NoOffer ELSE [o EXCEPT !.amount = o.amount - amount]]
      /\ damage' = damage
           \cup (IF amount < o.amount /\ \E k \in DOMAIN results : id \in DOMAIN results[k]
                 THEN {"outdated"} ELSE {})
           \cup (IF o.price * amount >= Width THEN {"overflow"} ELSE {})
           \cup (IF o.sale THEN {} ELSE Overdraft(p, o.ware, amount))
      /\ UNCHANGED <<inGame, coins, nextId, old, results>>

(* DatabaseTasks::threadMain runs an update of coins.                        *)
RunCoinQuery ==
  LET query == Head(coinQueries)
  IN  /\ coinQueries # <<>>
      /\ coins' = [coins EXCEPT ![query.account] = @ + query.amount]
      /\ coinQueries' = Tail(coinQueries)
      /\ UNCHANGED <<inGame, purse, saved, offers, nextId, old, results, damage>>

-----------------------------------------------------------------------------
(* IOMarket::checkExpiredOffers, a scheduled event that puts itself on       *)
(* again, and the query it gives to the database thread, which finds what is *)
(* there when it runs and then adds the callback to the dispatcher's tasks.  *)
(* Only the amount of a row can change while it is in the table, and         *)
(* identifiers are not used again: a result is given by the amounts it was   *)
(* selected with.                                                            *)
CheckExpiredOffers ==
  /\ Len(results) < MaxResult
  /\ results' = Append(results,
       [id \in {id \in old : offers[id] # NoOffer} |-> offers[id].amount])
  /\ UNCHANGED <<inGame, purse, saved, coins, coinQueries, offers, nextId, old, damage>>

(* Mutant: the rows of players who are offline wait for the next check.      *)
ExpiredMutOnline(amount) ==
  {id \in DOMAIN amount : offers[id] # NoOffer /\ offers[id].owner \in inGame}

(* The rows of a result that moveOfferToHistory still finds.                 *)
Expired(amount) == {id \in DOMAIN amount : offers[id] # NoOffer}

(* IOMarket::processExpiredOffers, with the rows as they were selected.      *)
(* `lost` are owners that cannot be loaded.  A sale of coins comes back as   *)
(* items.                                                                    *)
ProcessExpiredOffers ==
  /\ results # <<>>
  /\ \E lost \in SUBSET (Trader \ inGame) :
       LET amount == Head(results)
           rows == Expired(amount)
           Of(p, sale, ware) == {id \in rows : /\ offers[id].owner = p
                                               /\ offers[id].sale = sale
                                               /\ offers[id].ware \in ware}
           Sold(p, ware) == IF p \in lost THEN 0
             ELSE SumFunction([id \in Of(p, TRUE, {ware}) |-> amount[id]])
           Paid(p) == SumFunction([id \in Of(p, FALSE, {"item", "coin"}) |->
                                     offers[id].price * amount[id]])
       IN  /\ Transfer([p \in Trader |-> [gold |-> Paid(p), items |-> Sold(p, "item"),
                                          coinItems |-> Sold(p, "coin")]])
           /\ damage' = damage \cup
                IF \E p \in lost : Of(p, TRUE, {"item", "coin"}) # {}
                THEN {"lost"} ELSE {}
           /\ offers' = [id \in Id |-> IF id \in rows THEN NoOffer ELSE offers[id]]
  /\ results' = Tail(results)
  /\ UNCHANGED <<inGame, coins, coinQueries, nextId, old>>

-----------------------------------------------------------------------------
(* Time passes for the offer.                                                *)
GrowOld(id) ==
  /\ offers[id] # NoOffer
  /\ id \notin old
  /\ old' = old \cup {id}
  /\ UNCHANGED <<inGame, purse, saved, coins, coinQueries, offers, nextId, results, damage>>

(* The player is loaded when it logs in, and saved when it logs out.         *)
MarketLogin(p) ==
  /\ p \notin inGame
  /\ inGame' = inGame \cup {p}
  /\ purse' = [purse EXCEPT ![p] = saved[p]]
  /\ UNCHANGED <<saved, coins, coinQueries, offers, nextId, old, results, damage>>

MarketLogout(p) ==
  /\ p \in inGame
  /\ inGame' = inGame \ {p}
  /\ saved' = [saved EXCEPT ![p] = purse[p]]
  /\ purse' = [purse EXCEPT ![p] = Empty]
  /\ UNCHANGED <<coins, coinQueries, offers, nextId, old, results, damage>>

MarketNext ==
  \/ \E p \in Trader :
       \/ \E d \in Deal : CreateOffer(p, d)
       \/ \E id \in Id :
            \/ CancelOffer(p, id)
            \/ \E amount \in {d.amount : d \in Deal} \cup {1} : AcceptOffer(p, id, amount)
       \/ MarketLogin(p)
       \/ MarketLogout(p)
  \/ \E id \in Id : GrowOld(id)
  \/ RunCoinQuery
  \/ CheckExpiredOffers
  \/ ProcessExpiredOffers

(* The scheduler and the database thread run the check, the dispatcher its   *)
(* tasks.  Nobody has to use the market.                                     *)
MarketFairness ==
  /\ WF_marketVars(CheckExpiredOffers)
  /\ WF_marketVars(ProcessExpiredOffers)

MarketSpec == MarketInit /\ [][MarketNext]_marketVars /\ MarketFairness

-----------------------------------------------------------------------------
(* The variables have the types of the code's fields: what a request takes   *)
(* was there, as no amount goes below zero (game.cpp:5924, 5970, 6204).  For *)
(* coins that holds as long as none are spent while an update that takes     *)
(* them still waits (game.cpp:5934, 6130).                                   *)
MarketTypeOK ==
  /\ inGame \subseteq Trader
  /\ purse \in [Trader -> Purse]
  /\ saved \in [Trader -> Purse]
  /\ coins \in [Trader -> Int]
  /\ "overdrawn" \notin damage => \A p \in Trader : coins[p] >= 0 /\ Balance(p) >= 0
  /\ offers \in [Id -> Offer \cup {NoOffer}]
  /\ nextId \in 1 .. MaxOffer + 1
  /\ old \subseteq Id
  /\ Len(results) <= MaxResult
  /\ damage \subseteq {"overflow", "outdated", "lost", "overdrawn"}

Open(sale, ware) ==
  {id \in Id : offers[id] # NoOffer /\ offers[id].sale = sale /\ offers[id].ware \in ware}

(* Nothing is made or lost by the market.  Gold is with the players, in      *)
(* purchases and in fees: exactly, as long as no price times amount needed   *)
(* more than 32 bits (game.cpp:5968, 6105) and no offer was accepted in part *)
(* between its selection and its expiry (iomarket.cpp:129-131); and with     *)
(* overflows, modulo 2^32.  Items and coins are with the players and in      *)
(* sales, unless an owner could not be loaded (iomarket.cpp:144).            *)
NothingLost ==
  /\ MarketTypeOK
  /\ LET gold == Fee * (nextId - 1) + SumFunction([p \in Trader |-> Held(p).gold])
                   + SumFunction([id \in Open(FALSE, {"item", "coin"}) |->
                                    offers[id].price * offers[id].amount])
         items == SumFunction([p \in Trader |-> Held(p).items])
                   + SumFunction([id \in Open(TRUE, {"item"}) |-> offers[id].amount])
         allCoins == SumFunction([p \in Trader |-> Balance(p) + Held(p).coinItems])
                   + SumFunction([id \in Open(TRUE, {"coin"}) |-> offers[id].amount])
         begin == Cardinality(Trader) * Wealth
     IN  /\ damage \cap {"overflow", "outdated"} = {} => gold = begin
         /\ "outdated" \notin damage => gold % Width = begin % Width
         /\ damage \cap {"outdated", "lost"} = {} =>
              items = begin /\ allCoins = Cardinality(Trader) * Coins

(* An offer that is old enough is settled, by its owner, another player or   *)
(* the check (iomarket.cpp:196), however requests and checks fall together.  *)
OldOffersSettle == \A id \in Id : id \in old ~> offers[id] = NoOffer
=============================================================================
