SPECIFICATION Spec
CONSTANTS
  Photos = {p1}
  Files = {f1, f2}
  BackupJobs = {b1}
  ReclaimJobs = {r1}
  BackupSweeps = {s1}
  RetentionSweeps = {x1}
  PhotoDeleters = {d1}
  EventDeleters = {e1}
  ReclaimAfter = 0
  PurgeAfter = 1
  RetentionDays = 0
  MaxDay = 2
  MaxCrashes = 0
  NoPhoto = NoPhoto
  NoFile = NoFile
 
INVARIANT OriginalInv
SYMMETRY Symmetry
CHECK_DEADLOCK FALSE
