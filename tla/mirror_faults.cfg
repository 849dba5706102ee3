CONSTANTS
  u1 = u1
  User <- OneUser
  NoUser = NoUser
  Seeded <- OneUser
  MaxEvents = 2
  MaxFaults = 1
  SideTypes <- Cards
  InOrder = FALSE
  Crons <- ExpiryCron
SPECIFICATION Spec
CHECK_DEADLOCK FALSE
INVARIANTS
  TypeOK
  OneAuditRowPerEvent
  DormancyScheduled
  AuditExplainsStatus
