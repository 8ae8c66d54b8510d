SPECIFICATION Spec
CONSTANTS
  Player = {p1, p2, n1, n2, g1}
  Premium = {p1, p2}
  AlwaysLogin = {g1}
  Patient = {p1, p2}
  MaxPlayers = 2
  SizeMax = 8
  TickLength = 10
  MaxTime = 20
INVARIANTS
  OneEntryEach
PROPERTIES
  
  OrderKept
  PatientGetIn
