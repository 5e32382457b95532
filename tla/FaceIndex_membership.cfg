CONSTANTS
  r1 = r1  d1 = d1  s1 = s1  h1 = h1  ann = ann  bob = bob
  NumPhotos = 1
  Uploaded = {1}
  Guests = {1}
  Videos = {}
  People = {ann, bob}
  Requests = {r1}
  Deleters = {d1}
  Archivable = {1}
  Sweeps = {s1}
  Retentions = {h1}
  Limit = 2
  HoldDays = 0
  MaxDay = 1
  MaxCrashes = 1
  NoPhoto = NoPhoto
SPECIFICATION FairSpec
INVARIANT FaceInv
PROPERTY HeldUntilDue
PROPERTY EventuallyIndexed
CHECK_DEADLOCK FALSE
