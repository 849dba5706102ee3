SPECIFICATION ClubSpec
CONSTANTS
  Users = {ann, ben, cem}
  NoOne = NoOne
  NoInvite = NoInvite
  Invites = {link}
  Requests = {first, second}
  MaxRequests = 7
  MaxFailures = 1
INVARIANTS
  ClubTypeOK
  
  
  InviteAdmitsOne
SYMMETRY Interchangeable
CHECK_DEADLOCK FALSE
