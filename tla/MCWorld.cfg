SPECIFICATION Spec
CONSTANTS
  Trader = {ann, ben, cid}
  Wealth = 3
  Coins = 1
  Deal <- Deals
  Fee = 1
  Width = 4
  MaxOffer = 1
  MaxResult = 2
  NoOffer = NoOffer
  Name = {dragons, rats}
  Repeated = {rats}
  Length <- Lengths
  MaxLoad = 2
  MaxEvent = 6
  NoRaid = NoRaid
  Block = {1, 2, 3}
  Blockable = {1}
  DayOnly = {1}
  NightOnly = {2}
  Interval <- Intervals
  CheckInterval = 4
  RateSpawn = 1
  NoCheck = NoCheck
  Rows = 2
  Unchecked = {1}
  MaxSave = 2
  Tries = 2
  Query = {q1, q2}
  MaxLoss = 2
  Item = {1, 2}
  Kind <- Kinds
  DecayTo <- DecaysTo
  DecayTime <- DecayTimes
  Stop = {"ring"}
  Class <- Classes
  Stackable = {"arrows"}
  Turn <- Turns
  Duration = {1, 11, 15}
  MaxRefs = 3
  Nothing = Nothing
  Never = Never
  NoKind = NoKind
  NoClock = NoClock
INVARIANTS
  
  OneRaid
  OneMonsterEach
  SavesAreWhole
  QueriesKept
  ItemsAreListed
  DecayInTime
PROPERTIES
  OldOffersSettle
  RaidsEnd
  Refills
