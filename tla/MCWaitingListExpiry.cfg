SPECIFICATION Safety
CONSTANTS
  Player = {p1, n1, n2}
  Premium = {p1}
  AlwaysLogin = {}
  Patient = {p1}
  MaxPlayers = 1
  SizeMax = 256
  TickLength = 10
  MaxTime = 40
PROPERTIES
  ExpiredEntriesLeave
