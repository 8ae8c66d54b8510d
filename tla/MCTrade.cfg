CONSTANTS
  Player = {p1, p2, p3, p4}
  Bag = {b1, b2}
  Stack = {s1, s2}
  BagSize = 2
  MaxCount = 2
  hand = hand
  back = back
  Slot <- SlotOrder
  Worn = {back}
  Spot = {here, there}
  Gone = Gone
  Offline = Offline
  Nobody = Nobody
  Nothing = Nothing
SPECIFICATION TradeSpec
SYMMETRY Symmetry
INVARIANTS TradersAgree
PROPERTIES OfferFrozen 
