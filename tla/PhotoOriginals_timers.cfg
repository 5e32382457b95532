SPECIFICATION FairSpec
CONSTANTS
  Photos = {p1}
  Files = {f1, f2}
  BackupJobs = {b1,b2}
  ReclaimJobs = {}
  BackupSweeps = {s1}
  RetentionSweeps = {x1}
  PhotoDeleters = {}
  EventDeleters = {}
  ReclaimAfter = 0
  PurgeAfter = 1
  RetentionDays = 0
  MaxDay = 2
  MaxCrashes = 1
  NoPhoto = NoPhoto
  NoFile = NoFile
INVARIANT TypeOK
INVARIANT OriginalSurvives
INVARIANT OriginalReachable
PROPERTY RowsGoOnlyWhenDue
PROPERTY EventuallyPurged
CHECK_DEADLOCK FALSE
