CONSTANTS
  ann = ann  bob = bob  p1 = p1  p2 = p2  r1 = r1  r2 = r2
  Clients = {ann}
  Photos = {p1, p2}
  Invites = {1, 2}
  Requests = {r1, r2}
  Caps = {0, 1}
  MaxRequests = 4
  NoClient = NoClient
  NoPhoto = NoPhoto
  NoInvite = NoInvite
SPECIFICATION Spec
SYMMETRY Symmetry
INVARIANT TypeOK
PROPERTY CapHolds
PROPERTY NothingWithoutAccess
PROPERTY InviteUsedOnce
CHECK_DEADLOCK FALSE
