CONSTANTS
  u1 = u1
  User <- OneUser
  NoUser = NoUser
  Seeded <- OneUser
  MaxEvents = 3
  MaxFaults = 1
  SideTypes <- NoSideEvents
  InOrder = TRUE
  Crons <- ExpiryCron
SPECIFICATION FairSpec
CHECK_DEADLOCK FALSE
INVARIANTS
  MirrorConverges
PROPERTIES
  ExpiredTrialEnds
