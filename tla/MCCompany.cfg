SPECIFICATION CompanySpec
CONSTANTS
  Player = {p1, p2, p3}
  Address = {a1, a2}
  Exempt = {p3}
  Nobody = Nobody
  NoParty = NoParty
  Character = {ann}
  Monster = {rat, boss}
  Position <- Places
  Entrance <- Entrances
  Spawned = {rat}
  Summoner = {boss}
  Convinceable = {boss}
  NoCreature = NoCreature
SYMMETRY Symmetry
INVARIANTS
  MembershipAgrees
  InvitationsAgree
  NobodyGone
  NoLonelyParty
  SharingIsEarned
  NothingDangles
  MonstersWake
PROPERTIES
  PartySurvives
