CONSTANTS
  u1 = u1
  User <- OneUser
  NoUser = NoUser
  Seeded <- Nobody
  MaxEvents = 1
  MaxFaults = 1
  SideTypes <- NoSideEvents
  InOrder = FALSE
  Crons <- BothCrons
SPECIFICATION Spec
CHECK_DEADLOCK FALSE
INVARIANTS
  PurgeSignalledOnce
PROPERTIES
  LinkNeverLost
