CONSTANTS
  u1 = u1
  User <- OneUser
  NoUser = NoUser
  Seeded <- OneUser
  MaxEvents = 1
  MaxFaults = 1
  SideTypes <- NoSideEvents
  InOrder = FALSE
  Crons <- NoCron
SPECIFICATION Spec
CHECK_DEADLOCK FALSE
INVARIANT
  FailedEventStaysOpen
