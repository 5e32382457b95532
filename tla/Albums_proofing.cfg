CONSTANTS
  owner = owner  collab = collab  client = client  other = other
  v1 = v1  v2 = v2  v3 = v3
  Owners = {owner}
  Collaborators = {collab}
  Clients = {client}
  Versions = {v1, v2}
  Pages = {1, 2, 3, 4, 5, 6}
  Comments = {1, 2, 3, 4, 5}
  Files = {1, 2, 3, 4, 5, 6, 7}
  Spreads = 3
  MaxRequests = 2
  MaxCrashes = 1
  NoVersion = NoVersion
  NoPage = NoPage
  NoComment = NoComment
  NoFile = NoFile
SPECIFICATION Spec
INVARIANT AlbumInv
INVARIANT SpreadsHold
PROPERTY ApprovalStands
CHECK_DEADLOCK FALSE
