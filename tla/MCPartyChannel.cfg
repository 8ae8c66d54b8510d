SPECIFICATION Spec
CONSTANTS
  Player = {p1, p2, p3}
  Address = {a1, a2}
  Exempt = {p3}
  Nobody = Nobody
  NoParty = NoParty
SYMMETRY Symmetry
INVARIANT ChannelOfCompanions
