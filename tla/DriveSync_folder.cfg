CONSTANTS
  timer = timer  req = req  A = A  B = B
  Files = {1}
  Photos = {1, 2, 3}
  Folders = {A}
  Timers = {timer}
  Requests = {req}
  Movers = {req}
  MaxIngests = 2
  MaxFaults = 1
  NoFile = NoFile
  NoFolder = NoFolder
SPECIFICATION FairSpec
INVARIANT TypeOK
PROPERTY SyncExact
PROPERTY EventuallySynced
CHECK_DEADLOCK FALSE
