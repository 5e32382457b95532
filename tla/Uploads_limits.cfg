CONSTANTS
  r1 = r1  r2 = r2  j1 = j1  j2 = j2  w1 = w1
  Requests = {r1, r2}
  Jobs = {j1, j2}
  Watchers = {w1}
  NoJob = NoJob
  Blocks = 2
  StorageLimit = 3
  QuotaTotal = 1
  MaxRequests = 3
  MaxCrashes = 1
SPECIFICATION FairSpec
INVARIANT UploadInv
PROPERTY TakenInWhole
PROPERTY LimitsHold
PROPERTY ImplementsJobStream
CHECK_DEADLOCK FALSE
