------------------------ MODULE PhotoOriginalsProofs ------------------------
(***************************************************************************)
(* Proofs about PhotoOriginals, for any set of photos, Drive files and     *)
(* jobs of each kind: the types, that no interleaving loses the bytes of a *)
(* photo that is still kept, that its row leads to them, that rows go only *)
(* when due and files with their rows.  At the end, those about DriveSync, *)
(* the import of the folder that the same files come from (instance D).    *)
(***************************************************************************)
EXTENDS PhotoOriginals, TLAPS

-----------------------------------------------------------------------------
(* Types of the rows and of the job records the actions build.             *)

LEMMA NoRowType == NoRow \in Row /\ GoneRow \in Row /\ GoneRow.platform = FALSE
BY DEF NoRow, GoneRow, Row, Never

LEMMA IdleType == Idle \in Job
BY NoRowType DEF Idle, Job, PCs

LEMMA TodayType ==
  ASSUME TypeOK
  PROVE  /\ today \in Nat /\ today # Never /\ today \in Days
         /\ today + RetentionDays \in 0..(MaxDay + RetentionDays)
BY DaysAssumption DEF TypeOK, Days, Never

LEMMA JobFields ==
  ASSUME TypeOK, NEW j \in Jobs
  PROVE  /\ job[j] \in Job /\ job[j].pc \in PCs
         /\ job[j].seen \in [Photos -> Row]
         /\ job[j].cur \in Photos \cup {NoPhoto} /\ Cur(j) \in Photos \cup {NoPhoto}
         /\ job[j].file \in Files \cup {NoFile}
BY DEF TypeOK, Job, Cur

LEMMA ListingType ==
  ASSUME TypeOK, NEW S
  PROVE  Listing(S) \in [Photos -> Row]
BY NoRowType DEF Listing, TypeOK

LEMMA StartType ==
  ASSUME TypeOK, NEW j \in Jobs, NEW S, NEW pc \in PCs, Start(j, S, pc)
  PROVE  job' \in [Jobs -> Job]
BY ListingType, IdleType DEF Start, TypeOK, Job

LEMMA GotoType ==
  ASSUME TypeOK, NEW j \in Jobs, NEW pc \in PCs, Goto(j, pc)
  PROVE  job' \in [Jobs -> Job]
BY DEF Goto, TypeOK, Job

LEMMA TakeType ==
  ASSUME TypeOK, NEW j \in Jobs, NEW p \in Photos, NEW from, NEW to \in PCs,
         Take(j, p, from, to)
  PROVE  job' \in [Jobs -> Job]
BY ZenonT(40) DEF Take, TypeOK, Job

LEMMA NextPhotoType ==
  ASSUME TypeOK, NEW j \in Jobs, NEW loop \in PCs, NextPhoto(j, loop)
  PROVE  job' \in [Jobs -> Job]
BY NoRowType DEF NextPhoto, TypeOK, Job

LEMMA SkipType ==
  ASSUME TypeOK, NEW j \in Jobs, NEW p \in Photos, Skip(j, p)
  PROVE  job' \in [Jobs -> Job]
<1>1. [job[j].seen EXCEPT ![p] = NoRow] \in [Photos -> Row]
  BY JobFields, NoRowType
<1>2. job[j] \in Job /\ job \in [Jobs -> Job]
  BY DEF TypeOK
<1>3. [job[j] EXCEPT !.seen = [job[j].seen EXCEPT ![p] = NoRow]] \in Job
  BY <1>1, <1>2 DEF Job
<1>4. job' = [job EXCEPT ![j] = [job[j] EXCEPT !.seen = [job[j].seen EXCEPT ![p] = NoRow]]]
  BY <1>2 DEF Skip
<1>5. QED
  BY <1>2, <1>3, <1>4

LEMMA FinishType ==
  ASSUME TypeOK, NEW j \in Jobs, Finish(j)
  PROVE  job' \in [Jobs -> Job]
BY IdleType DEF Finish, TypeOK

LEMMA DriveUploadType ==
  ASSUME TypeOK, NEW f \in Files, NEW p \in Photos \cup {NoPhoto}, DriveUpload(f, p)
  PROVE  /\ drive' \in [Files -> {"unused", "stored", "deleted", "removed"}]
         /\ copyOf' \in [Files -> Photos \cup {NoPhoto}]
BY DEF DriveUpload, TypeOK

LEMMA DriveDeleteType ==
  ASSUME TypeOK, NEW f, DriveDelete(f) \/ UNCHANGED drive
  PROVE  drive' \in [Files -> {"unused", "stored", "deleted", "removed"}]
BY DEF DriveDelete, TypeOK

LEMMA UpdateRowType ==
  ASSUME TypeOK, NEW p \in Photos, NEW row \in Row, UpdateRow(p, row),
         row.platform => row.startedAt # Never
  PROVE  /\ photo' \in [Photos -> Row]
         /\ \A q \in Photos : photo'[q].state = "live" /\ photo'[q].platform
                                => photo'[q].startedAt # Never
BY DEF UpdateRow, TypeOK, Live

-----------------------------------------------------------------------------
(* Type correctness: one step per group of actions.                        *)

\* What the steps that note something in a history variable make of it.
LEMMA HistoryType ==
  ASSUME TypeOK
  PROVE  /\ \A p \in Photos : Entered(p) \in [Photos -> Days \cup {Never}]
         /\ \A j : astray \cup Strays(j) \in SUBSET Photos
BY TodayType DEF TypeOK, Entered, Strays

LEMMA TypeInit == Init => TypeOK
BY NoRowType, IdleType, DaysAssumption DEF Init, TypeOK, Days, Live, NoRow

LEMMA TypeIngest ==
  ASSUME TypeOK, NEW p \in Photos, Ingest(p)
  PROVE  TypeOK'
<1>1. CASE WriteOriginal(p)
  <2>1. \A path \in Paths : LocalRow(path) \in Row /\ LocalRow(path).platform = FALSE
    BY NoRowType, TodayType DEF LocalRow, NoRow, Row, Paths
  <2>2. QED
    BY <1>1, <2>1 DEF WriteOriginal, TypeOK, Live
<1>2. CASE CaptureToDrive(p)
  <2>1. \A f \in Files : DriveRow(f) \in Row /\ DriveRow(f).state = "pending"
    BY NoRowType DEF DriveRow, NoRow, Row
  <2>2. QED
    BY <1>2, <2>1 DEF CaptureToDrive, DriveUpload, TypeOK, Live
<1>3. CASE CreateRow(p)
  <2>0. photo[p] \in Row
    BY DEF TypeOK
  <2>1. /\ Inserted(photo[p]) \in Row
        /\ Inserted(photo[p]).platform = photo[p].platform
        /\ photo[p].platform => Inserted(photo[p]).startedAt # Never
    BY <2>0, TodayType DEF Inserted, Row
  <2>2. since' \in [Photos -> Days \cup {Never}]
    BY <1>3, HistoryType DEF CreateRow, TypeOK
  <2>3. QED
    BY <1>3, <2>1, <2>2, NoRowType DEF CreateRow, TypeOK, Live
<1>4. QED
  BY <1>1, <1>2, <1>3 DEF Ingest

LEMMA TypeBackup ==
  ASSUME TypeOK, NEW j \in BackupJobs, BackupStep(j)
  PROVE  TypeOK'
<1> j \in Jobs
  BY DEF Jobs
<1>1. CASE StartBackup(j)
  BY <1>1, StartType DEF StartBackup, PCs, TypeOK, Live
<1>2. CASE BackupRead(j)
  <2>1. CASE \E p \in Photos : Take(j, p, "backup", "upload")
    BY <1>2, <2>1, TakeType DEF BackupRead, PCs, TypeOK, Live
  <2>2. CASE \E p \in Todo(j) : Skip(j, p)
    BY <1>2, <2>2, SkipType DEF BackupRead, Todo, TypeOK, Live
  <2>3. QED
    BY <1>2, <2>1, <2>2 DEF BackupRead
<1>3. CASE BackupUpload(j)
  <2>1. CASE NextPhoto(j, "backup") /\ UNCHANGED <<drive, copyOf>>
    BY <1>3, <2>1, NextPhotoType DEF BackupUpload, PCs, TypeOK, Live
  <2>2. CASE \E f \in Files : /\ DriveUpload(f, Cur(j))
                              /\ job' = [job EXCEPT ![j].pc = "record", ![j].file = f]
    <3>1. PICK f \in Files : /\ DriveUpload(f, Cur(j))
                             /\ job' = [job EXCEPT ![j].pc = "record", ![j].file = f]
      BY <2>2
    <3>2. job' \in [Jobs -> Job]
      <4>1. [job[j] EXCEPT !.pc = "record", !.file = f] \in Job
        BY JobFields DEF Job, PCs
      <4>2. job' = [job EXCEPT ![j] = [job[j] EXCEPT !.pc = "record", !.file = f]]
        BY <3>1 DEF TypeOK
      <4>3. QED
        BY <4>1, <4>2 DEF TypeOK
    <3>3. /\ drive' \in [Files -> {"unused", "stored", "deleted", "removed"}]
          /\ copyOf' \in [Files -> Photos \cup {NoPhoto}]
      BY <3>1, JobFields, DriveUploadType
    <3>4. QED
      BY <1>3, <3>2, <3>3 DEF BackupUpload, TypeOK, Live
  <2>3. QED
    BY <1>3, <2>1, <2>2 DEF BackupUpload
<1>4. CASE BackupRecord(j)
  <2>1. CASE Cur(j) \in Photos
    <3>0. since' \in [Photos -> Days \cup {Never}]
      BY <1>4, <2>1, HistoryType DEF BackupRecord, TypeOK
    <3>1. photo[Cur(j)] \in Row /\ job[j].file \in Files \cup {NoFile}
      BY <2>1, JobFields DEF TypeOK
    <3>2. /\ BackedUp(photo[Cur(j)], job[j].file) \in Row
          /\ BackedUp(photo[Cur(j)], job[j].file).startedAt # Never
      BY <3>1, TodayType DEF BackedUp, Row
    <3>3. QED
      BY <1>4, <2>1, <3>0, <3>2, NextPhotoType, UpdateRowType DEF BackupRecord, PCs, TypeOK, Live
  <2>2. CASE Cur(j) \notin Photos
    <3>1. photo' = photo /\ since' = since
      <4>1. photo' = photo
        BY <1>4, <2>2 DEF BackupRecord, UpdateRow, TypeOK
      <4>2. since' = since
        BY <1>4, <2>2 DEF BackupRecord, Entered, TypeOK
      <4>3. QED
        BY <4>1, <4>2
    <3>2. QED
      BY <1>4, <3>1, NextPhotoType DEF BackupRecord, PCs, TypeOK, Live
  <2>3. QED
    BY <2>1, <2>2
<1>5. QED
  BY <1>1, <1>2, <1>3, <1>4 DEF BackupStep

LEMMA TypeReclaim ==
  ASSUME TypeOK, NEW j \in Jobs, ReclaimStep(j)
  PROVE  TypeOK'
<1> USE DEF PCs
<1>1. CASE ReclaimNext(j)
  BY <1>1, TakeType DEF ReclaimNext, TypeOK, Live
<1>2. CASE ReclaimDownload(j)
  BY <1>2, GotoType, NextPhotoType DEF ReclaimDownload, TypeOK, Live
<1>3. CASE ReclaimWrite(j)
  <2>1. job' \in [Jobs -> Job]
    BY <1>3, GotoType DEF ReclaimWrite
  <2>2. disk' \in [Photos -> SUBSET Paths]
    BY <1>3 DEF ReclaimWrite, TypeOK, Paths
  <2>3. QED
    BY <1>3, <2>1, <2>2 DEF ReclaimWrite, TypeOK, Live
<1>4. CASE ReclaimDelete(j)
  <2>1. job' \in [Jobs -> Job]
    BY <1>4, GotoType, NextPhotoType DEF ReclaimDelete
  <2>2. drive' \in [Files -> {"unused", "stored", "deleted", "removed"}]
    BY <1>4, DriveDeleteType DEF ReclaimDelete
  <2>3. QED
    BY <1>4, <2>1, <2>2 DEF ReclaimDelete, TypeOK, Live
<1>5. ASSUME Cur(j) \in Photos
      PROVE  /\ Seen(j) \in Row
             /\ Reclaimed(photo[Cur(j)], Seen(j)) \in Row
             /\ [photo[Cur(j)] EXCEPT !.storagePath = LocalPath(Seen(j))] \in Row
             /\ Reclaimed(photo[Cur(j)], Seen(j)).platform = photo[Cur(j)].platform
             /\ Reclaimed(photo[Cur(j)], Seen(j)).startedAt = photo[Cur(j)].startedAt
  <2>1. Seen(j) \in Row /\ photo[Cur(j)] \in Row
    BY <1>5, JobFields DEF Seen, Cur, TypeOK
  <2>2. LocalPath(Seen(j)) \in Paths
    BY <2>1 DEF LocalPath, Row, Paths
  <2>3. QED
    BY <2>1, <2>2 DEF Reclaimed, Row
<1>6. CASE ReclaimUpdate(j)
  <2>1. job' \in [Jobs -> Job] /\ astray' \in SUBSET Photos
    BY <1>6, NextPhotoType, HistoryType DEF ReclaimUpdate
  <2>2. CASE Cur(j) \in Photos /\ Live(Cur(j))
    BY <1>6, <1>5, <2>1, <2>2 DEF ReclaimUpdate, UpdateRow, TypeOK, Live
  <2>3. CASE ~(Cur(j) \in Photos /\ Live(Cur(j)))
    <3>1. photo' = photo
      BY <1>6, <2>3 DEF ReclaimUpdate, UpdateRow, TypeOK
    <3>2. QED
      BY <1>6, <2>1, <3>1 DEF ReclaimUpdate, TypeOK, Live
  <2>4. QED
    BY <2>2, <2>3
<1>7. CASE ReclaimKeep(j)
  <2>1. job' \in [Jobs -> Job] /\ astray' \in SUBSET Photos
    BY <1>7, NextPhotoType, HistoryType DEF ReclaimKeep
  <2>2. CASE Cur(j) \in Photos /\ Live(Cur(j))
    BY <1>7, <1>5, <2>1, <2>2 DEF ReclaimKeep, UpdateRow, TypeOK, Live
  <2>3. CASE ~(Cur(j) \in Photos /\ Live(Cur(j)))
    <3>1. photo' = photo
      BY <1>7, <2>3 DEF ReclaimKeep, UpdateRow, TypeOK
    <3>2. QED
      BY <1>7, <2>1, <3>1 DEF ReclaimKeep, TypeOK, Live
  <2>4. QED
    BY <2>2, <2>3
<1>8. QED
  BY <1>1, <1>2, <1>3, <1>4, <1>6, <1>7 DEF ReclaimStep

LEMMA TypePurge ==
  ASSUME TypeOK, NEW j \in Jobs, PurgeStep(j)
  PROVE  TypeOK'
<1> USE DEF PCs
<1>1. CASE SweepListPurge(j)
  <2>1. job' \in [Jobs -> Job]
    BY <1>1, StartType, ListingType, IdleType DEF SweepListPurge, TypeOK, Job
  <2>2. condemned' \in SUBSET Photos
    BY <1>1 DEF SweepListPurge, PurgeListing, TypeOK
  <2>3. QED
    BY <1>1, <2>1, <2>2 DEF SweepListPurge, TypeOK, Live
<1>2. CASE PurgeDrive(j)
  <2>1. job' \in [Jobs -> Job]
    BY <1>2, TakeType DEF PurgeDrive
  <2>2. drive' \in [Files -> {"unused", "stored", "deleted", "removed"}]
    BY <1>2, DriveDeleteType DEF PurgeDrive
  <2>3. QED
    BY <1>2, <2>1, <2>2 DEF PurgeDrive, TypeOK, Live
<1>3. CASE PurgeLocal(j)
  <2>1. job' \in [Jobs -> Job]
    BY <1>3, GotoType DEF PurgeLocal
  <2>2. disk' \in [Photos -> SUBSET Paths]
    BY <1>3 DEF PurgeLocal, Unlink, TypeOK
  <2>3. QED
    BY <1>3, <2>1, <2>2 DEF PurgeLocal, TypeOK, Live
<1>4. CASE PurgeRow(j)
  <2>1. job' \in [Jobs -> Job]
    BY <1>4, NextPhotoType, GotoType, FinishType DEF PurgeRow
  <2>2. photo' = photo \/ photo' = [photo EXCEPT ![Cur(j)] = GoneRow]
    BY <1>4 DEF PurgeRow, UpdateRow
  <2>3. QED
    BY <1>4, <2>1, <2>2, NoRowType DEF PurgeRow, TypeOK, Live
<1>5. QED
  BY <1>1, <1>2, <1>3, <1>4 DEF PurgeStep

LEMMA TypeRetention ==
  ASSUME TypeOK, NEW j \in Jobs, RetentionStep(j)
  PROVE  TypeOK'
<1> USE DEF PCs
<1>1. CASE StartRetention(j)
  BY <1>1, StartType DEF StartRetention, TypeOK, Live
<1>2. CASE ExpireFile(j)
  <2>1. job' \in [Jobs -> Job]
    BY <1>2, TakeType DEF ExpireFile
  <2>2. disk' \in [Photos -> SUBSET Paths]
    BY <1>2 DEF ExpireFile, Unlink, TypeOK
  <2>3. QED
    BY <1>2, <2>1, <2>2 DEF ExpireFile, TypeOK, Live
<1>3. CASE ExpireRow(j)
  <2>1. job' \in [Jobs -> Job]
    BY <1>3, NextPhotoType DEF ExpireRow
  <2>2. CASE Cur(j) \in Photos
    <3>1. photo[Cur(j)] \in Row
      BY <2>2 DEF TypeOK
    <3>2. [photo[Cur(j)] EXCEPT !.storagePath = "none"] \in Row
      BY <3>1 DEF Row
    <3>3. QED
      BY <1>3, <2>1, <2>2, <3>1, <3>2 DEF ExpireRow, UpdateRow, TypeOK, Live
  <2>3. CASE Cur(j) \notin Photos
    <3>1. photo' = photo
      BY <1>3, <2>3 DEF ExpireRow, UpdateRow, TypeOK
    <3>2. QED
      BY <1>3, <2>1, <3>1 DEF ExpireRow, TypeOK, Live
  <2>4. QED
    BY <2>2, <2>3
<1>4. QED
  BY <1>1, <1>2, <1>3 DEF RetentionStep

LEMMA TypeDeletePhoto ==
  ASSUME TypeOK, NEW j \in Jobs, DeletePhotoStep(j)
  PROVE  TypeOK'
<1> USE DEF PCs
<1>1. CASE \E p \in Photos : StartDeletePhoto(j, p)
  <2>1. PICK p \in Photos : StartDeletePhoto(j, p)
    BY <1>1
  <2>2. [Idle EXCEPT !.pc = "photoRow", !.cur = p, !.seen = Listing({p})] \in Job
    BY IdleType, ListingType DEF Job
  <2>3. QED
    BY <2>1, <2>2 DEF StartDeletePhoto, TypeOK, Live
<1>2. CASE DeletePhotoRow(j)
  <2>1. job' \in [Jobs -> Job]
    BY <1>2, NextPhotoType, GotoType, FinishType DEF DeletePhotoRow
  <2>2. photo' = photo \/ photo' = [photo EXCEPT ![Cur(j)] = GoneRow]
    BY <1>2 DEF DeletePhotoRow, UpdateRow
  <2>3. QED
    BY <1>2, <2>1, <2>2, NoRowType DEF DeletePhotoRow, TypeOK, Live
<1>3. CASE DeletePhotoFile(j)
  <2>1. job' \in [Jobs -> Job]
    BY <1>3, FinishType DEF DeletePhotoFile
  <2>2. disk' \in [Photos -> SUBSET Paths]
    BY <1>3 DEF DeletePhotoFile, Unlink, TypeOK
  <2>3. QED
    BY <1>3, <2>1, <2>2 DEF DeletePhotoFile, TypeOK, Live
<1>4. QED
  BY <1>1, <1>2, <1>3 DEF DeletePhotoStep

LEMMA TypeDeleteEvent ==
  ASSUME TypeOK, NEW j \in Jobs, DeleteEventStep(j)
  PROVE  TypeOK'
<1> USE DEF PCs
<1>1. CASE StartDeleteEvent(j)
  BY <1>1, StartType DEF StartDeleteEvent, TypeOK, Live
<1>2. CASE DeleteEventDrive(j)
  <2>1. job' \in [Jobs -> Job]
    BY <1>2, SkipType DEF DeleteEventDrive, Todo
  <2>2. drive' \in [Files -> {"unused", "stored", "deleted", "removed"}]
    BY <1>2, DriveDeleteType DEF DeleteEventDrive
  <2>3. QED
    BY <1>2, <2>1, <2>2 DEF DeleteEventDrive, TypeOK, Live
<1>3. CASE DeleteEventPhotos(j)
  BY <1>3, GotoType, NoRowType DEF DeleteEventPhotos, TypeOK, Live
<1>4. CASE DeleteEventRow(j)
  BY <1>4, GotoType, FinishType DEF DeleteEventRow, TypeOK, Live
<1>5. CASE DeleteEventDir(j)
  <2>1. disk' \in [Photos -> SUBSET Paths]
    BY <1>5 DEF DeleteEventDir
  <2>2. QED
    BY <1>5, <2>1, FinishType DEF DeleteEventDir, TypeOK, Live
<1>6. QED
  BY <1>1, <1>2, <1>3, <1>4, <1>5 DEF DeleteEventStep

LEMMA TypeStep == TypeOK /\ [Next]_vars => TypeOK'
<1> SUFFICES ASSUME TypeOK, [Next]_vars PROVE TypeOK'
  OBVIOUS
<1> USE DEF PCs
<1>1. ASSUME NEW p \in Photos, Ingest(p) PROVE TypeOK'
  BY <1>1, TypeIngest
<1>2. ASSUME NEW j \in BackupJobs, BackupStep(j) PROVE TypeOK'
  BY <1>2, TypeBackup
<1>3. ASSUME NEW j \in Jobs, StartReclaimNow(j) \/ StartBackupSweep(j) PROVE TypeOK'
  BY <1>3, StartType DEF StartReclaimNow, StartBackupSweep, TypeOK, Live
<1>4. ASSUME NEW j \in Jobs, ReclaimStep(j) \/ PurgeStep(j) PROVE TypeOK'
  BY <1>4, TypeReclaim, TypePurge
<1>5. ASSUME NEW j \in Jobs, RetentionStep(j) PROVE TypeOK'
  BY <1>5, TypeRetention
<1>6. ASSUME NEW j \in Jobs, DeletePhotoStep(j) \/ DeleteEventStep(j) PROVE TypeOK'
  BY <1>6, TypeDeletePhoto, TypeDeleteEvent
<1>7. ASSUME NEW j \in Jobs, EndJob(j) PROVE TypeOK'
  BY <1>7, FinishType DEF EndJob, TypeOK, Live
<1>8. ASSUME NEW f \in Files, OwnerRemovesFile(f) PROVE TypeOK'
  BY <1>8 DEF OwnerRemovesFile, TypeOK, Live
<1>9. CASE Crash
  BY <1>9, NoRowType, IdleType, DaysAssumption DEF Crash, TypeOK, Live
<1>10. CASE Tick
  BY <1>10, DaysAssumption DEF Tick, TypeOK, Days, Live
<1>11. CASE UNCHANGED vars
  BY <1>11 DEF vars, TypeOK, Live
<1>12. QED
  BY <1>1, <1>2, <1>3, <1>4, <1>5, <1>6, <1>7, <1>8, <1>9, <1>10, <1>11
     DEF Next, Jobs

(* Every reachable state is well typed, and a photo in Drive backup always *)
(* has the clock of its reclaim and its purge running.                     *)
THEOREM TypeCorrect == Spec => []TypeOK
<1>1. Init => TypeOK
  BY TypeInit
<1>2. TypeOK /\ [Next]_vars => TypeOK'
  BY TypeStep
<1>3. QED
  BY <1>1, <1>2, PTL DEF Spec

-----------------------------------------------------------------------------
(* What no step undoes: a listed row stays listed or goes; a photo that is *)
(* not kept never becomes kept; local files of kept photos only accumulate;*)
(* a Drive id keeps its owner; a kept photo with a copy keeps one.         *)

Monotone ==
  \A p \in Photos :
    /\ photo[p].state \in {"live", "gone"} => photo'[p].state \in {"live", "gone"}
    /\ photo[p].state # "absent" /\ Kept(p)' => Kept(p)
    /\ Kept(p)' => disk[p] \subseteq disk'[p]
    /\ \A f : Owned(f, p) => Owned(f, p)'
    /\ p \in condemned => p \in condemned'
    /\ Kept(p)' /\ HasCopy(p) => HasCopy(p)'

\* A step that leaves alone all that Kept, Owned and HasCopy depend on.
LEMMA MonotoneJobOnly ==
  ASSUME TypeOK, UNCHANGED <<photo, disk, drive, copyOf, today, condemned>>
  PROVE  Monotone
BY DEF Monotone, Kept, Expired, Owned, HasCopy

\* Replacing a row by one with the same expiry, or by a deleted row.
LEMMA MonotoneRow ==
  ASSUME TypeOK, NEW p \in Photos, NEW row \in Row, UpdateRow(p, row),
         row.state = "gone" \/ (row.state = "live" /\ row.expiresAt = photo[p].expiresAt),
         UNCHANGED <<disk, drive, copyOf, today, condemned>>
  PROVE  Monotone
BY DEF Monotone, Kept, Expired, Owned, HasCopy, UpdateRow, Live, TypeOK

\* Deleting the Drive file of a photo that is not kept, or has a local copy.
LEMMA MonotoneDrive ==
  ASSUME TypeOK, NEW p \in Photos, NEW f, Owned(f, p), Kept(p)' => disk[p] # {},
         DriveDelete(f) \/ UNCHANGED drive,
         UNCHANGED <<photo, disk, copyOf, today, condemned>>
  PROVE  Monotone
<1>1. ASSUME NEW q \in Photos, NEW g, Owned(g, q) PROVE Owned(g, q)'
  BY <1>1 DEF Owned, DriveDelete, TypeOK
<1>2. ASSUME NEW q \in Photos, Kept(q)', HasCopy(q) PROVE HasCopy(q)'
  BY <1>2 DEF HasCopy, Owned, DriveDelete, TypeOK
<1>3. QED
  BY <1>1, <1>2 DEF Monotone, Kept, Expired

\* Deleting a local file of a photo that is not kept.
LEMMA MonotoneUnlink ==
  ASSUME TypeOK, NEW p \in Photos, ~Kept(p)', NEW path, Unlink(p, path),
         UNCHANGED <<photo, drive, copyOf, today, condemned>>
  PROVE  Monotone
BY DEF Monotone, Kept, Expired, Owned, HasCopy, Unlink, TypeOK

\* A fresh Drive file.
LEMMA MonotoneUpload ==
  ASSUME TypeOK, NEW f \in Files, NEW q, DriveUpload(f, q),
         UNCHANGED <<disk, today, condemned>>,
         \A p \in Photos : \/ photo'[p] = photo[p]
                           \/ photo[p].state = "absent"
  PROVE  Monotone
<1>1. ASSUME NEW p \in Photos, NEW g, Owned(g, p) PROVE Owned(g, p)'
  BY <1>1 DEF Owned, DriveUpload, TypeOK
<1>2. ASSUME NEW p \in Photos, HasCopy(p) PROVE HasCopy(p)'
  BY <1>2 DEF HasCopy, DriveUpload, TypeOK
<1>3. QED
  BY <1>1, <1>2 DEF Monotone, Kept, Expired

-----------------------------------------------------------------------------
(* How one job's part of the invariant survives a step.                    *)

ReclaimPCs == {"reclaim", "download", "write", "delete", "update", "keep"}
CondemnedPCs == {"purge", "purgeLocal", "purgeRow", "photoRow", "photoFile"}
EventPCs == {"event", "eventRow", "eventDir"}
ExpirePCs == {"expire", "expireRow"}

\* The job moves inside its kind, with the listing it had or less of it.
LEMMA JobAdvances ==
  ASSUME TypeOK, TypeOK', Monotone, NEW j \in Jobs, JobSafe(j),
         \A p \in Photos : \/ job'[j].seen[p] = job[j].seen[p]
                           \/ job'[j].seen[p] = NoRow,
         job'[j].pc \in CurPCs => Cur(j)' \in Todo(j)',
         job'[j].pc = "record" => Owned(job[j].file, Cur(j))',
         job'[j].pc \in {"delete", "update", "keep"} /\ Kept(Cur(j))' =>
           (LocalPath(Seen(j)) \in disk[Cur(j)])',
         job'[j].pc \in ReclaimPCs => job[j].pc \in ReclaimPCs,
         job'[j].pc \in CondemnedPCs => job[j].pc \in CondemnedPCs,
         job'[j].pc \in EventPCs => job[j].pc \in EventPCs,
         job'[j].pc \in ExpirePCs => job[j].pc \in ExpirePCs
  PROVE  JobSafe(j)'
<1> USE DEF JobSafe
<1>1. ASSUME NEW p \in Todo(j)'
      PROVE  /\ p \in Photos /\ p \in Todo(j) /\ job'[j].seen[p] = job[j].seen[p]
             /\ photo[p].state \in {"live", "gone"}
  BY DEF Todo, NoRow, ListingSafe
<1>2. NoFile \notin Files
  BY SentinelAssumption
<1>3. ASSUME NEW p \in Photos, NEW f, f = job[j].seen[p].driveFileId
      PROVE  Owned(f, p)'
  <2>1. Owned(f, p)
    BY <1>3 DEF ListingSafe
  <2>2. QED
    BY <2>1 DEF Monotone
<1>4. ASSUME NEW p \in Photos PROVE Owned(job[j].seen[p].driveFileId, p)'
  <2>1. CASE job'[j].seen[p] = job[j].seen[p]
    BY <1>3, <2>1 DEF Owned
  <2>2. CASE job'[j].seen[p] = NoRow
    BY <1>2, <2>2 DEF NoRow, Owned
  <2>3. QED
    BY <2>1, <2>2
<1>5. ListingSafe(j)'
  BY <1>1, <1>4 DEF ListingSafe, Monotone
<1>6. ReclaimSafe(j)'
  BY <1>1 DEF ReclaimSafe, Monotone, HasLocalCopy, ReclaimPCs
<1>7. DeleterSafe(j)'
  <2>1. condemned \subseteq condemned' /\ condemned' \subseteq Photos
    BY DEF Monotone, TypeOK
  <2>2. job'[j].pc \in ExpirePCs => \A p \in Todo(j)' : ~Kept(p)'
    BY <1>1 DEF DeleterSafe, Monotone, ExpirePCs
  <2>3. job'[j].pc \in CondemnedPCs => Todo(j)' \subseteq condemned'
    BY <1>1, <2>1 DEF DeleterSafe, CondemnedPCs
  <2>4. QED
    BY <2>1, <2>2, <2>3 DEF DeleterSafe, CondemnedPCs, EventPCs, ExpirePCs
<1>8. QED
  BY <1>5, <1>6, <1>7

\* A job the step does not touch.
LEMMA JobUntouched ==
  ASSUME TypeOK, TypeOK', Monotone, NEW j \in Jobs, JobSafe(j), job'[j] = job[j]
  PROVE  JobSafe(j)'
<1>1. job[j].pc = "record" => Owned(job[j].file, Cur(j))'
  BY DEF JobSafe, ListingSafe, Monotone, Cur, Todo, CurPCs
<1>2. job[j].pc \in {"delete", "update", "keep"} /\ Kept(Cur(j))' =>
        (LocalPath(Seen(j)) \in disk[Cur(j)])'
  <2>1. job[j].pc \in {"delete", "update", "keep"} =>
          Cur(j) \in Photos /\ photo[Cur(j)].state \in {"live", "gone"}
    BY DEF JobSafe, ListingSafe, Todo, CurPCs
  <2>2. Cur(j)' = Cur(j) /\ Seen(j)' = Seen(j)
    BY DEF Cur, Seen
  <2>3. QED
    BY <2>1, <2>2 DEF JobSafe, ReclaimSafe, Monotone, LocalPath
<1>3. job[j].pc \in CurPCs => Cur(j)' \in Todo(j)'
  BY DEF JobSafe, ListingSafe, Cur, Todo
<1>4. QED
  BY <1>1, <1>2, <1>3, JobAdvances

\* An idle job is safe whatever the state.
LEMMA JobIdle ==
  ASSUME NEW j \in Jobs, job'[j] = Idle
  PROVE  JobSafe(j)'
<1>1. NoFile \notin Files
  BY SentinelAssumption
<1>2. QED
  BY <1>1 DEF JobSafe, ListingSafe, ReclaimSafe, DeleterSafe, Todo, Idle, NoRow, Owned, CurPCs

\* The end of an iteration.
LEMMA JobNextPhoto ==
  ASSUME TypeOK, TypeOK', Monotone, NEW j \in Jobs, JobSafe(j),
         NEW loop \in {"backup", "reclaim", "purge", "expire"}, NextPhoto(j, loop),
         loop = "reclaim" => job[j].pc \in ReclaimPCs,
         loop = "purge" => job[j].pc \in CondemnedPCs,
         loop = "expire" => job[j].pc \in ExpirePCs
  PROVE  JobSafe(j)'
<1>1. job'[j].pc = loop /\ job'[j].seen = [job[j].seen EXCEPT ![job[j].cur] = NoRow]
  BY DEF NextPhoto, TypeOK
<1>2. \A p \in Photos : job'[j].seen[p] = job[j].seen[p] \/ job'[j].seen[p] = NoRow
  BY <1>1, JobFields
<1>3. QED
  BY <1>1, <1>2, JobAdvances DEF CurPCs, ReclaimPCs, CondemnedPCs, EventPCs, ExpirePCs

\* Only the program counter moves, within the iteration.
LEMMA JobGoto ==
  ASSUME TypeOK, TypeOK', Monotone, NEW j \in Jobs, JobSafe(j), NEW pc, Goto(j, pc),
         pc \in CurPCs => job[j].pc \in CurPCs,
         pc # "record",
         pc \in {"delete", "update", "keep"} =>
           \A c : c = Cur(j) /\ Kept(c)' => LocalPath(Seen(j)) \in disk'[c],
         pc \in ReclaimPCs => job[j].pc \in ReclaimPCs,
         pc \in CondemnedPCs => job[j].pc \in CondemnedPCs,
         pc \in EventPCs => job[j].pc \in EventPCs,
         pc \in ExpirePCs => job[j].pc \in ExpirePCs
  PROVE  JobSafe(j)'
<1>1. job'[j].pc = pc /\ job'[j].seen = job[j].seen /\ job'[j].cur = job[j].cur
  BY DEF Goto, TypeOK, Job
<1>2. Cur(j)' = Cur(j) /\ Seen(j)' = Seen(j) /\ Todo(j)' = Todo(j)
  BY <1>1 DEF Cur, Seen, Todo
<1>3. pc \in CurPCs => Cur(j)' \in Todo(j)'
  BY <1>2 DEF JobSafe, ListingSafe
<1>4. (LocalPath(Seen(j)) \in disk[Cur(j)])' <=> LocalPath(Seen(j)) \in disk'[Cur(j)]
  BY <1>2 DEF LocalPath
<1>5. pc \in {"delete", "update", "keep"} /\ Kept(Cur(j))' => (LocalPath(Seen(j)) \in disk[Cur(j)])'
  <2>1. PICK c : c = Cur(j)
    OBVIOUS
  <2>2. Kept(Cur(j))' => Kept(c)'
    BY <1>2, <2>1
  <2>3. QED
    BY <1>4, <2>1, <2>2
<1>6. QED
  BY <1>1, <1>3, <1>5, JobAdvances

\* The next photo of the loop is taken.
LEMMA JobTake ==
  ASSUME TypeOK, TypeOK', Monotone, NEW j \in Jobs, JobSafe(j),
         NEW p \in Photos, NEW from, NEW to, Take(j, p, from, to),
         to # "record",
         to \in {"delete", "update", "keep"} => HasLocalCopy(job[j].seen[p]),
         to \in ReclaimPCs => from \in ReclaimPCs,
         to \in CondemnedPCs => from \in CondemnedPCs,
         to \in EventPCs => from \in EventPCs,
         to \in ExpirePCs => from \in ExpirePCs
  PROVE  JobSafe(j)'
<1>1. /\ job'[j].pc = to /\ job'[j].seen = job[j].seen /\ job'[j].cur = p
      /\ job[j].pc = from /\ p \in Todo(j)
  BY DEF Take, TypeOK, Job
<1>2. Cur(j)' = p /\ Seen(j)' = job[j].seen[p] /\ Todo(j)' = Todo(j)
  BY <1>1 DEF Cur, Seen, Todo
<1>3. to \in {"delete", "update", "keep"} /\ Kept(Cur(j))' => (LocalPath(Seen(j)) \in disk[Cur(j)])'
  <2>1. SUFFICES ASSUME to \in {"delete", "update", "keep"}, Kept(p)'
                 PROVE  job[j].seen[p].storagePath \in disk'[p]
    BY <1>2 DEF LocalPath, HasLocalCopy
  <2>2. photo[p].state \in {"live", "gone"} /\ from \in ReclaimPCs
    BY <1>1, <2>1 DEF JobSafe, ListingSafe, ReclaimPCs
  <2>3. Kept(p) /\ disk[p] \subseteq disk'[p]
    BY <2>1, <2>2 DEF Monotone
  <2>4. QED
    BY <1>1, <2>1, <2>2, <2>3 DEF JobSafe, ReclaimSafe, ReclaimPCs
<1>4. to \in CurPCs => Cur(j)' \in Todo(j)'
  BY <1>1, <1>2
<1>5. QED
  BY <1>1, <1>3, <1>4, JobAdvances

\* A job that has just listed live rows.
LEMMA JobListed ==
  ASSUME TypeOK, TypeOK', Monotone, RowSafe, RowsOwned, NEW j \in Jobs, NEW S,
         \A p \in S : p \in Photos /\ Live(p),
         job'[j].seen = Listing(S),
         job'[j].pc \in {"backup", "reclaim", "purge", "expire", "event"}
           \/ (job'[j].pc = "photoRow" /\ job'[j].cur \in S),
         job'[j].pc \in CondemnedPCs => S \subseteq condemned',
         job'[j].pc = "event" => condemned' = Photos,
         job'[j].pc = "expire" => \A p \in S : ~Kept(p)
  PROVE  JobSafe(j)'
<1>1. ASSUME NEW p \in Photos
      PROVE  job'[j].seen[p] = IF p \in S THEN photo[p] ELSE NoRow
  BY DEF Listing
<1>2. \A p : p \in Todo(j)' <=> p \in S
  BY <1>1 DEF Todo, Live, NoRow
<1>3. NoFile \notin Files
  BY SentinelAssumption
<1>4. ASSUME NEW p \in Photos PROVE Owned(job[j].seen[p].driveFileId, p)'
  <2>1. CASE p \in S
    <3>1. ASSUME NEW f, f = photo[p].driveFileId PROVE Owned(f, p)'
      BY <3>1 DEF RowsOwned, Monotone
    <3>2. QED
      BY <1>1, <2>1, <3>1 DEF Owned
  <2>2. CASE p \notin S
    BY <1>1, <1>3, <2>2 DEF NoRow, Owned
  <2>3. QED
    BY <2>1, <2>2
<1>5. ListingSafe(j)'
  BY <1>2, <1>4 DEF ListingSafe, Monotone, Live, Cur, CurPCs
<1>6. ReclaimSafe(j)'
  BY <1>1, <1>2 DEF ReclaimSafe, RowSafe, Monotone, HasLocalCopy, Live
<1>7. DeleterSafe(j)'
  BY <1>2 DEF DeleterSafe, CondemnedPCs, Monotone, Live
<1>8. QED
  BY <1>5, <1>6, <1>7 DEF JobSafe

LEMMA StartSeen ==
  ASSUME TypeOK, NEW j \in Jobs, NEW S, NEW pc, Start(j, S, pc)
  PROVE  job'[j].pc = pc /\ job'[j].seen = Listing(S)
BY DEF Start, Idle, TypeOK

-----------------------------------------------------------------------------
(* The rows' part of the invariant, and the whole.                         *)

\* Rows whose path, owner and expiry the step leaves alone stay safe.
LEMMA RowsUnchanged ==
  ASSUME Monotone, RowSafe, RowsOwned, photo' = photo
  PROVE  RowSafe' /\ RowsOwned'
<1>1. RowSafe'
  BY DEF RowSafe, Monotone, Kept
<1>2. ASSUME NEW p \in Photos PROVE Owned(photo[p].driveFileId, p)'
  <2>1. ASSUME NEW f, f = photo[p].driveFileId PROVE Owned(f, p)'
    BY <2>1 DEF RowsOwned, Monotone
  <2>2. QED
    BY <2>1 DEF Owned
<1>3. QED
  BY <1>1, <1>2 DEF RowsOwned

\* One row changes: to a deleted one, or to one whose path and Drive id are right.
LEMMA RowsUpdated ==
  ASSUME TypeOK, Monotone, RowSafe, RowsOwned, NEW p \in Photos, NEW row,
         photo' = photo \/ photo' = [photo EXCEPT ![p] = row],
         photo' = [photo EXCEPT ![p] = row] =>
           /\ Owned(row.driveFileId, p)'
           /\ Kept(p)' => IF row.storagePath = "none" THEN HasCopy(p)'
                                                     ELSE row.storagePath \in disk'[p]
  PROVE  RowSafe' /\ RowsOwned'
<1>1. CASE photo' = photo
  BY <1>1, RowsUnchanged
<1>2. CASE photo' = [photo EXCEPT ![p] = row]
  <2>1. photo'[p] = row /\ \A q \in Photos : q # p => photo'[q] = photo[q]
    BY <1>2 DEF TypeOK
  <2>2. ASSUME NEW q \in Photos, q # p, Kept(q)'
        PROVE  IF photo'[q].storagePath = "none" THEN HasCopy(q)'
                                                 ELSE photo'[q].storagePath \in disk'[q]
    BY <2>1, <2>2 DEF RowSafe, Monotone, Kept
  <2>3. RowSafe'
    BY <1>2, <2>1, <2>2 DEF RowSafe
  <2>4. ASSUME NEW q \in Photos PROVE Owned(photo[q].driveFileId, q)'
    <3>1. CASE q = p
      BY <1>2, <2>1, <3>1 DEF Owned
    <3>2. CASE q # p
      <4>1. ASSUME NEW f, f = photo[q].driveFileId PROVE Owned(f, q)'
        BY <4>1 DEF RowsOwned, Monotone
      <4>2. QED
        BY <2>1, <3>2, <4>1 DEF Owned
    <3>3. QED
      BY <3>1, <3>2
  <2>5. QED
    BY <2>3, <2>4 DEF RowsOwned
<1>3. QED
  BY <1>1, <1>2

\* The invariant after a step of job j.
LEMMA InvOfJobStep ==
  ASSUME OriginalInv, TypeOK', Monotone, NEW j \in Jobs, JobSafe(j)',
         \A i \in Jobs \ {j} : job'[i] = job[i],
         RowSafe' /\ RowsOwned'
  PROVE  OriginalInv'
<1>1. ASSUME NEW i \in Jobs PROVE JobSafe(i)'
  <2>1. CASE i = j
    BY <2>1
  <2>2. CASE i # j
    BY <2>2, JobUntouched DEF OriginalInv
  <2>3. QED
    BY <2>1, <2>2
<1>2. QED
  BY <1>1 DEF OriginalInv

\* The invariant after a step of no job.
LEMMA InvOfOtherStep ==
  ASSUME OriginalInv, TypeOK', Monotone, job' = job, RowSafe' /\ RowsOwned'
  PROVE  OriginalInv'
<1>1. ASSUME NEW i \in Jobs PROVE JobSafe(i)'
  BY JobUntouched DEF OriginalInv
<1>2. QED
  BY <1>1 DEF OriginalInv

\* A job step that updates one row and leaves the files alone.
LEMMA InvOfRowUpdate ==
  ASSUME OriginalInv, TypeOK', NEW j \in Jobs, NEW p \in Photos, NEW row \in Row,
         UpdateRow(p, row), UNCHANGED <<disk, drive, copyOf, today, condemned>>,
         row.state = "gone" \/ (row.state = "live" /\ row.expiresAt = photo[p].expiresAt),
         Owned(row.driveFileId, p),
         Kept(p) /\ row.state = "live" => IF row.storagePath = "none" THEN HasCopy(p)
                                          ELSE row.storagePath \in disk[p],
         Monotone => JobSafe(j)',
         \A i \in Jobs \ {j} : job'[i] = job[i]
  PROVE  OriginalInv'
<1> TypeOK /\ RowSafe /\ RowsOwned
  BY DEF OriginalInv
<1>1. Monotone
  BY MonotoneRow
<1>2. CASE Live(p)
  <2>1. photo' = [photo EXCEPT ![p] = row] /\ photo'[p] = row
    BY <1>2 DEF UpdateRow, TypeOK
  <2>2. Owned(row.driveFileId, p)'
    BY <1>1 DEF Monotone
  <2>3. Kept(p)' => Kept(p) /\ row.state = "live"
    BY <1>1, <1>2, <2>1 DEF Monotone, Live, Kept
  <2>4. Kept(p)' => IF row.storagePath = "none" THEN HasCopy(p)' ELSE row.storagePath \in disk'[p]
    BY <1>1, <2>3 DEF Monotone
  <2>5. RowSafe' /\ RowsOwned'
    BY <1>1, <2>1, <2>2, <2>4, RowsUpdated
  <2>6. QED
    BY <1>1, <2>5, InvOfJobStep
<1>3. CASE ~Live(p)
  <2>1. photo' = photo
    BY <1>3 DEF UpdateRow
  <2>2. RowSafe' /\ RowsOwned'
    BY <1>1, <2>1, RowsUnchanged
  <2>3. QED
    BY <1>1, <2>2, InvOfJobStep
<1>4. QED
  BY <1>2, <1>3

LEMMA OthersUntouched ==
  ASSUME TypeOK, NEW j \in Jobs, NEW x, job' = [job EXCEPT ![j] = x]
  PROVE  \A i \in Jobs \ {j} : job'[i] = job[i]
BY DEF TypeOK

LEMMA OriginalInit == Init => OriginalInv
<1> SUFFICES ASSUME Init PROVE OriginalInv
  OBVIOUS
<1>1. NoFile \notin Files
  BY SentinelAssumption
<1>2. TypeOK
  BY TypeInit
<1>3. RowSafe /\ RowsOwned
  BY <1>1 DEF Init, RowSafe, RowsOwned, Kept, Owned, NoRow
<1>4. ASSUME NEW j \in Jobs PROVE JobSafe(j)
  BY <1>1 DEF Init, JobSafe, ListingSafe, ReclaimSafe, DeleterSafe, Todo, Idle, NoRow, Owned, CurPCs
<1>5. QED
  BY <1>2, <1>3, <1>4 DEF OriginalInv

-----------------------------------------------------------------------------
(* The actions preserve the invariant.                                     *)

LEMMA InvIngest ==
  ASSUME OriginalInv, NEW p \in Photos, Ingest(p)
  PROVE  OriginalInv'
<1> TypeOK /\ TypeOK'
  BY TypeIngest DEF OriginalInv
<1>1. CASE WriteOriginal(p)
  <2>1. PICK path \in Paths : /\ disk' = [disk EXCEPT ![p] = @ \cup {path}]
                              /\ photo' = [photo EXCEPT ![p] = LocalRow(path)]
    BY <1>1 DEF WriteOriginal
  <2>2. Monotone
    BY <1>1, <2>1 DEF WriteOriginal, Monotone, Kept, Expired, Owned, HasCopy, TypeOK
  <2>3. /\ LocalRow(path).storagePath = path /\ path # "none"
        /\ LocalRow(path).driveFileId = NoFile /\ path \in disk'[p]
    BY <2>1 DEF LocalRow, NoRow, Paths, TypeOK
  <2>4. RowSafe' /\ RowsOwned'
    BY <2>1, <2>2, <2>3, RowsUpdated, SentinelAssumption DEF OriginalInv, Owned
  <2>5. QED
    BY <1>1, <2>2, <2>4, InvOfOtherStep DEF WriteOriginal
<1>2. CASE CaptureToDrive(p)
  <2>1. PICK f \in Files : DriveUpload(f, p) /\ photo' = [photo EXCEPT ![p] = DriveRow(f)]
    BY <1>2 DEF CaptureToDrive
  <2>2. Monotone
    BY <1>2, <2>1, MonotoneUpload DEF CaptureToDrive, TypeOK
  <2>3. /\ DriveRow(f).storagePath = "none" /\ DriveRow(f).driveFileId = f
        /\ Owned(f, p)' /\ HasCopy(p)'
    BY <2>1 DEF DriveRow, NoRow, DriveUpload, Owned, HasCopy, TypeOK
  <2>4. RowSafe' /\ RowsOwned'
    BY <2>1, <2>2, <2>3, RowsUpdated DEF OriginalInv, Owned
  <2>5. QED
    BY <1>2, <2>2, <2>4, InvOfOtherStep DEF CaptureToDrive
<1>3. CASE CreateRow(p)
  <2>0. PICK row : row = IF eventRow THEN Inserted(photo[p]) ELSE GoneRow
    OBVIOUS
  <2>1. photo' = [photo EXCEPT ![p] = row] /\ photo[p].state = "pending" /\ photo[p] \in Row
    BY <1>3, <2>0 DEF CreateRow, TypeOK
  <2>2. \/ row.state = "gone" /\ row.driveFileId = NoFile
        \/ /\ row.state = "live" /\ row.driveFileId = photo[p].driveFileId
           /\ row.storagePath = photo[p].storagePath /\ row.expiresAt = photo[p].expiresAt
    BY <2>0, <2>1 DEF Inserted, GoneRow, NoRow, Row
  <2>3. UNCHANGED <<disk, drive, copyOf, today, condemned, job>> /\ photo'[p] = row
    BY <1>3, <2>1 DEF CreateRow, TypeOK
  <2>4. Monotone
    BY <2>1, <2>2, <2>3 DEF Monotone, Kept, Expired, Owned, HasCopy, TypeOK
  <2>5. Kept(p)' => Kept(p) /\ row.state = "live" /\ (HasCopy(p) => HasCopy(p)')
    BY <2>1, <2>2, <2>3, <2>4 DEF Monotone, Kept
  <2>6. Kept(p)' => IF row.storagePath = "none" THEN HasCopy(p)'
                                                ELSE row.storagePath \in disk'[p]
    BY <2>2, <2>3, <2>5 DEF OriginalInv, RowSafe
  <2>7. Owned(row.driveFileId, p)'
    BY <2>2, <2>3, SentinelAssumption DEF OriginalInv, RowsOwned, Owned
  <2>8. RowSafe' /\ RowsOwned'
    BY <2>1, <2>4, <2>6, <2>7, RowsUpdated DEF OriginalInv
  <2>9. QED
    BY <2>3, <2>4, <2>8, InvOfOtherStep
<1>4. QED
  BY <1>1, <1>2, <1>3 DEF Ingest

LEMMA InvBackup ==
  ASSUME OriginalInv, NEW j \in BackupJobs, BackupStep(j)
  PROVE  OriginalInv'
<1> j \in Jobs
  BY DEF Jobs
<1> TypeOK /\ TypeOK' /\ JobSafe(j) /\ RowSafe /\ RowsOwned
  BY TypeBackup DEF OriginalInv
<1>1. CASE StartBackup(j)
  <2>1. Monotone
    BY <1>1, MonotoneJobOnly DEF StartBackup
  <2>2. JobSafe(j)'
    BY <1>1, <2>1, StartSeen, JobListed DEF StartBackup, BackupListing, CondemnedPCs
  <2>3. QED
    BY <1>1, <2>1, <2>2, RowsUnchanged, OthersUntouched, InvOfJobStep DEF StartBackup, Start
<1>2. CASE BackupRead(j)
  <2>1. Monotone /\ RowSafe' /\ RowsOwned'
    BY <1>2, MonotoneJobOnly, RowsUnchanged DEF BackupRead
  <2>2. CASE \E p \in Photos : Take(j, p, "backup", "upload")
    <3>1. JobSafe(j)'
      BY <2>1, <2>2, JobTake DEF ReclaimPCs, CondemnedPCs, EventPCs, ExpirePCs
    <3>2. QED
      BY <2>1, <2>2, <3>1, OthersUntouched, InvOfJobStep DEF Take, TypeOK
  <2>3. CASE \E p \in Todo(j) : job[j].pc = "backup" /\ Skip(j, p)
    <3>1. PICK p \in Photos : job[j].pc = "backup" /\ Skip(j, p)
      BY <2>3 DEF Todo
    <3>2. /\ job'[j].seen = [job[j].seen EXCEPT ![p] = NoRow]
          /\ job'[j].pc = "backup" /\ \A i \in Jobs \ {j} : job'[i] = job[i]
      BY <3>1, JobFields DEF Skip, TypeOK, Job
    <3>3. \A q \in Photos : job'[j].seen[q] = job[j].seen[q] \/ job'[j].seen[q] = NoRow
      BY <3>2, JobFields
    <3>4. JobSafe(j)'
      BY <2>1, <3>2, <3>3, JobAdvances DEF CurPCs, ReclaimPCs, CondemnedPCs, EventPCs, ExpirePCs
    <3>5. QED
      BY <2>1, <3>2, <3>4, InvOfJobStep
  <2>4. QED
    BY <1>2, <2>2, <2>3 DEF BackupRead
<1>3. CASE BackupUpload(j)
  <2>0. job[j].pc = "upload" /\ Cur(j) \in Photos /\ Cur(j) \in Todo(j)
    BY <1>3 DEF BackupUpload, JobSafe, ListingSafe, CurPCs, Todo
  <2>1. CASE NextPhoto(j, "backup") /\ UNCHANGED <<drive, copyOf>>
    <3>1. Monotone /\ RowSafe' /\ RowsOwned'
      BY <1>3, <2>1, MonotoneJobOnly, RowsUnchanged DEF BackupUpload
    <3>2. JobSafe(j)'
      BY <2>1, <3>1, JobNextPhoto
    <3>3. QED
      BY <2>1, <3>1, <3>2, OthersUntouched, InvOfJobStep DEF NextPhoto
  <2>2. CASE \E f \in Files : /\ DriveUpload(f, Cur(j))
                              /\ job' = [job EXCEPT ![j].pc = "record", ![j].file = f]
    <3>1. PICK f \in Files : /\ DriveUpload(f, Cur(j))
                             /\ job' = [job EXCEPT ![j].pc = "record", ![j].file = f]
      BY <2>2
    <3>2. Monotone /\ RowSafe' /\ RowsOwned'
      BY <1>3, <3>1, MonotoneUpload, RowsUnchanged DEF BackupUpload
    <3>3. /\ job'[j].pc = "record" /\ job'[j].file = f /\ job'[j].seen = job[j].seen
          /\ job'[j].cur = job[j].cur /\ \A i \in Jobs \ {j} : job'[i] = job[i]
      BY <3>1 DEF TypeOK, Job
    <3>4. Cur(j)' = Cur(j) /\ Cur(j)' \in Todo(j)'
      BY <2>0, <3>3 DEF Cur, Todo
    <3>5. Owned(job[j].file, Cur(j))'
      BY <2>0, <3>1, <3>3, <3>4 DEF Owned, DriveUpload, TypeOK
    <3>6. JobSafe(j)'
      BY <3>2, <3>3, <3>4, <3>5, JobAdvances DEF ReclaimPCs, CondemnedPCs, EventPCs, ExpirePCs
    <3>7. QED
      BY <3>2, <3>3, <3>6, InvOfJobStep
  <2>3. QED
    BY <1>3, <2>1, <2>2 DEF BackupUpload
<1>4. CASE BackupRecord(j)
  <2>1. PICK p \in Photos : p = Cur(j)
    BY <1>4 DEF BackupRecord, JobSafe, ListingSafe, CurPCs, Todo
  <2>2. PICK row : row = BackedUp(photo[p], job[j].file)
    OBVIOUS
  <2>3. photo[p] \in Row /\ Owned(job[j].file, p)
    BY <1>4, <2>1 DEF BackupRecord, JobSafe, ListingSafe, TypeOK
  <2>4. /\ row \in Row /\ row.driveFileId = job[j].file /\ row.state = photo[p].state
        /\ row.storagePath = photo[p].storagePath /\ row.expiresAt = photo[p].expiresAt
    BY <2>2, <2>3, JobFields, TodayType DEF BackedUp, Row
  <2>5. CASE Live(p)
    BY ZenonT(40), <1>4, <2>1, <2>2, <2>3, <2>4, <2>5, InvOfRowUpdate, JobNextPhoto, OthersUntouched
       DEF BackupRecord, NextPhoto, RowSafe, Live
  <2>6. CASE ~Live(p)
    <3>1. UNCHANGED <<photo, disk, drive, copyOf, today, condemned>>
      BY <1>4, <2>1, <2>6 DEF BackupRecord, UpdateRow
    <3>2. QED
      BY <1>4, <3>1, MonotoneJobOnly, RowsUnchanged, JobNextPhoto, OthersUntouched, InvOfJobStep
         DEF BackupRecord, NextPhoto
  <2>7. QED
    BY <2>5, <2>6
<1>5. QED
  BY <1>1, <1>2, <1>3, <1>4 DEF BackupStep

LEMMA InvReclaim ==
  ASSUME OriginalInv, NEW j \in Jobs, ReclaimStep(j)
  PROVE  OriginalInv'
<1> TypeOK /\ TypeOK' /\ JobSafe(j) /\ RowSafe /\ RowsOwned
  BY TypeReclaim DEF OriginalInv
<1> USE DEF ReclaimPCs, CondemnedPCs, EventPCs, ExpirePCs
<1>1. CASE ReclaimNext(j)
  <2>1. Monotone /\ RowSafe' /\ RowsOwned'
    BY <1>1, MonotoneJobOnly, RowsUnchanged DEF ReclaimNext
  <2>2. PICK p \in Photos :
          Take(j, p, "reclaim", IF HasLocalCopy(job[j].seen[p]) THEN "delete" ELSE "download")
    BY <1>1 DEF ReclaimNext
  <2>3. JobSafe(j)'
    <3>1. CASE HasLocalCopy(job[j].seen[p])
      BY <2>1, <2>2, <3>1, JobTake
    <3>2. CASE ~HasLocalCopy(job[j].seen[p])
      BY <2>1, <2>2, <3>2, JobTake
    <3>3. QED
      BY <3>1, <3>2
  <2>4. QED
    BY <2>1, <2>2, <2>3, InvOfJobStep DEF Take, TypeOK
<1>2. CASE ReclaimDownload(j)
  <2>1. Monotone /\ RowSafe' /\ RowsOwned'
    BY <1>2, MonotoneJobOnly, RowsUnchanged DEF ReclaimDownload
  <2>2. CASE Goto(j, "write")
    BY <1>2, <2>1, <2>2, JobGoto, InvOfJobStep DEF ReclaimDownload, Goto, CurPCs, TypeOK
  <2>3. CASE NextPhoto(j, "reclaim")
    BY <1>2, <2>1, <2>3, JobNextPhoto, OthersUntouched, InvOfJobStep DEF ReclaimDownload, NextPhoto
  <2>4. QED
    BY <1>2, <2>2, <2>3 DEF ReclaimDownload
<1>3. CASE ReclaimWrite(j)
  <2>1. /\ job[j].pc = "write" /\ Cur(j) \in Photos
        /\ disk' = [disk EXCEPT ![Cur(j)] = @ \cup {"shoots"}]
    BY <1>3 DEF ReclaimWrite, JobSafe, ListingSafe, CurPCs, Todo
  <2>2. Monotone
    BY <1>3, <2>1 DEF ReclaimWrite, Monotone, Kept, Expired, Owned, HasCopy, TypeOK
  <2>3. RowSafe' /\ RowsOwned'
    BY <1>3, <2>2, RowsUnchanged DEF ReclaimWrite
  <2>4. ASSUME NEW c, c = Cur(j), Kept(c)'
        PROVE  LocalPath(Seen(j)) \in disk'[c]
    <3>1. c \in Todo(j) /\ photo[c].state \in {"live", "gone"}
      BY <2>1, <2>4 DEF JobSafe, ListingSafe, CurPCs
    <3>2. Kept(c) /\ disk[c] \subseteq disk'[c] /\ "shoots" \in disk'[c]
      BY <2>1, <2>2, <2>4, <3>1 DEF Monotone, TypeOK
    <3>3. HasLocalCopy(job[j].seen[c]) => job[j].seen[c].storagePath \in disk[c]
      BY <2>1, <3>1, <3>2 DEF JobSafe, ReclaimSafe
    <3>4. QED
      BY <2>4, <3>2, <3>3 DEF LocalPath, HasLocalCopy, Seen, Cur
  <2>5. JobSafe(j)'
    BY <1>3, <2>1, <2>2, <2>4, JobGoto DEF ReclaimWrite, CurPCs
  <2>6. QED
    BY <1>3, <2>2, <2>3, <2>5, InvOfJobStep DEF ReclaimWrite, Goto, TypeOK
<1>4. CASE ReclaimDelete(j)
  <2>1. /\ job[j].pc = "delete" /\ Cur(j) \in Photos /\ Cur(j) \in Todo(j)
        /\ photo[Cur(j)].state \in {"live", "gone"}
        /\ DriveDelete(Seen(j).driveFileId) \/ UNCHANGED drive
        /\ UNCHANGED <<photo, disk, copyOf, today, condemned>>
    BY <1>4 DEF ReclaimDelete, JobSafe, ListingSafe, CurPCs, Todo
  <2>2. Owned(Seen(j).driveFileId, Cur(j))
    BY <2>1 DEF JobSafe, ListingSafe, Seen, Cur
  <2>3. ASSUME NEW c, c = Cur(j), Kept(c)'
        PROVE  LocalPath(Seen(j)) \in disk[c]
    <3>1. Kept(c)
      BY <2>1, <2>3 DEF Kept, Expired
    <3>2. QED
      BY <2>1, <2>3, <3>1 DEF JobSafe, ReclaimSafe
  <2>4. Monotone
    BY <2>1, <2>2, <2>3, MonotoneDrive
  <2>5. RowSafe' /\ RowsOwned'
    BY <2>1, <2>4, RowsUnchanged
  <2>6. CASE Goto(j, "update") \/ Goto(j, "keep")
    <3>1. ASSUME NEW pc \in {"update", "keep"}, Goto(j, pc) PROVE JobSafe(j)'
      BY <2>1, <2>3, <2>4, <3>1, JobGoto DEF CurPCs
    <3>2. QED
      BY <2>4, <2>5, <2>6, <3>1, InvOfJobStep DEF Goto, TypeOK
  <2>7. CASE NextPhoto(j, "reclaim")
    BY <2>1, <2>4, <2>5, <2>7, JobNextPhoto, OthersUntouched, InvOfJobStep DEF NextPhoto
  <2>8. QED
    BY <1>4, <2>6, <2>7 DEF ReclaimDelete
<1>5. ASSUME NEW p \in Photos, p = Cur(j), Live(p), job[j].pc \in {"update", "keep"},
             NEW row \in Row, row.state = photo[p].state, row.expiresAt = photo[p].expiresAt,
             row.storagePath = LocalPath(Seen(j)),
             row.driveFileId \in {photo[p].driveFileId, NoFile},
             UpdateRow(p, row), NextPhoto(j, "reclaim"),
             UNCHANGED <<disk, drive, copyOf, today, condemned>>
      PROVE  OriginalInv'
  <2>1. Owned(row.driveFileId, p)
    BY <1>5, SentinelAssumption DEF RowsOwned, Owned
  <2>2. Kept(p) => row.storagePath \in disk[p]
    BY <1>5 DEF JobSafe, ReclaimSafe
  <2>3. row.storagePath # "none"
    BY <1>5 DEF LocalPath
  <2>4. \A i \in Jobs \ {j} : job'[i] = job[i]
    BY <1>5, OthersUntouched DEF NextPhoto
  <2>5. Monotone => JobSafe(j)'
    BY <1>5, JobNextPhoto
  <2>6. QED
    BY <1>5, <2>1, <2>2, <2>3, <2>4, <2>5, InvOfRowUpdate DEF Live
<1>6. ASSUME NEW p \in Photos, p = Cur(j), ~Live(p), job[j].pc \in {"update", "keep"},
             photo' = photo, NextPhoto(j, "reclaim"),
             UNCHANGED <<disk, drive, copyOf, today, condemned>>
      PROVE  OriginalInv'
  <2>1. Monotone /\ RowSafe' /\ RowsOwned'
    BY <1>6, MonotoneJobOnly, RowsUnchanged
  <2>2. QED
    BY <1>6, <2>1, JobNextPhoto, OthersUntouched, InvOfJobStep DEF NextPhoto
<1>7. CASE ReclaimUpdate(j) \/ ReclaimKeep(j)
  <2>1. /\ job[j].pc \in {"update", "keep"} /\ NextPhoto(j, "reclaim")
        /\ UNCHANGED <<disk, drive, copyOf, today, condemned>>
    BY <1>7 DEF ReclaimUpdate, ReclaimKeep
  <2>2. PICK p \in Photos : p = Cur(j)
    BY <2>1 DEF JobSafe, ListingSafe, CurPCs, Todo
  <2>3. CASE ~Live(p)
    BY <1>6, <1>7, <2>1, <2>2, <2>3 DEF ReclaimUpdate, ReclaimKeep, UpdateRow
  <2>4. CASE Live(p)
    <3>1. photo[p] \in Row /\ Seen(j) \in Row
      BY <2>2, JobFields DEF TypeOK, Seen, Cur
    <3>2. LocalPath(Seen(j)) \in Paths
      BY <3>1 DEF LocalPath, Row, Paths
    <3>3. CASE ReclaimUpdate(j)
      <4>1. PICK row : row = Reclaimed(photo[p], Seen(j))
        OBVIOUS
      <4>2. /\ row \in Row /\ row.state = photo[p].state /\ row.expiresAt = photo[p].expiresAt
            /\ row.storagePath = LocalPath(Seen(j)) /\ row.driveFileId = NoFile
        BY <3>1, <3>2, <4>1 DEF Reclaimed, Row
      <4>3. QED
        BY <1>5, <2>1, <2>2, <2>4, <3>3, <4>1, <4>2 DEF ReclaimUpdate
    <3>4. CASE ReclaimKeep(j)
      <4>1. PICK row : row = [photo[p] EXCEPT !.storagePath = LocalPath(Seen(j))]
        OBVIOUS
      <4>2. /\ row \in Row /\ row.state = photo[p].state /\ row.expiresAt = photo[p].expiresAt
            /\ row.storagePath = LocalPath(Seen(j)) /\ row.driveFileId = photo[p].driveFileId
        BY <3>1, <3>2, <4>1 DEF Row
      <4>3. QED
        BY <1>5, <2>1, <2>2, <2>4, <3>4, <4>1, <4>2 DEF ReclaimKeep
    <3>5. QED
      BY <1>7, <3>3, <3>4
  <2>5. QED
    BY <2>3, <2>4
<1>8. QED
  BY <1>1, <1>2, <1>3, <1>4, <1>7 DEF ReclaimStep

LEMMA InvPurge ==
  ASSUME OriginalInv, NEW j \in Jobs, PurgeStep(j)
  PROVE  OriginalInv'
<1> TypeOK /\ TypeOK' /\ JobSafe(j) /\ RowSafe /\ RowsOwned
  BY TypePurge DEF OriginalInv
<1> USE DEF ReclaimPCs, CondemnedPCs, EventPCs, ExpirePCs
<1>1. CASE SweepListPurge(j)
  <2>1. Monotone
    BY <1>1 DEF SweepListPurge, Monotone, Kept, Expired, Owned, HasCopy
  <2>2. job'[j].pc = "purge" /\ job'[j].seen = Listing(PurgeListing)
    BY <1>1 DEF SweepListPurge, Idle, TypeOK
  <2>3. JobSafe(j)'
    BY <1>1, <2>1, <2>2, JobListed DEF SweepListPurge, PurgeListing
  <2>4. QED
    BY <1>1, <2>1, <2>3, RowsUnchanged, OthersUntouched, InvOfJobStep DEF SweepListPurge
<1>2. CASE PurgeDrive(j)
  <2>1. PICK p \in Photos : /\ Take(j, p, "purge", "purgeLocal")
                            /\ DriveDelete(job[j].seen[p].driveFileId) \/ UNCHANGED drive
    BY <1>2 DEF PurgeDrive
  <2>2. Owned(job[j].seen[p].driveFileId, p)
    BY DEF JobSafe, ListingSafe
  <2>3. ~Kept(p)'
    BY <1>2, <2>1 DEF PurgeDrive, Take, JobSafe, DeleterSafe, Kept
  <2>4. Monotone /\ RowSafe' /\ RowsOwned'
    BY <1>2, <2>1, <2>2, <2>3, MonotoneDrive, RowsUnchanged DEF PurgeDrive
  <2>5. JobSafe(j)'
    BY <2>1, <2>4, JobTake
  <2>6. QED
    BY <2>1, <2>4, <2>5, InvOfJobStep DEF Take, TypeOK
<1>3. CASE PurgeLocal(j)
  <2>1. PICK p \in Photos : p = Cur(j) /\ p \in condemned
    BY <1>3 DEF PurgeLocal, JobSafe, ListingSafe, DeleterSafe, CurPCs, Todo
  <2>2. ~Kept(p)'
    BY <1>3, <2>1 DEF PurgeLocal, Kept
  <2>3. Monotone /\ RowSafe' /\ RowsOwned'
    BY <1>3, <2>1, <2>2, MonotoneUnlink, RowsUnchanged DEF PurgeLocal
  <2>4. JobSafe(j)'
    BY <1>3, <2>3, JobGoto DEF PurgeLocal, CurPCs
  <2>5. QED
    BY <1>3, <2>3, <2>4, InvOfJobStep DEF PurgeLocal, Goto, TypeOK
<1>4. CASE PurgeRow(j)
  <2>1. PICK p \in Photos : p = Cur(j)
    BY <1>4 DEF PurgeRow, JobSafe, ListingSafe, CurPCs, Todo
  <2>2. GoneRow \in Row /\ GoneRow.state = "gone" /\ Owned(GoneRow.driveFileId, p)
    BY NoRowType, SentinelAssumption DEF GoneRow, NoRow, Owned
  <2>3. \A i \in Jobs \ {j} : job'[i] = job[i]
    BY <1>4 DEF PurgeRow, NextPhoto, TypeOK
  <2>4. Monotone => JobSafe(j)'
    BY <1>4, JobNextPhoto DEF PurgeRow
  <2>5. QED
    BY <1>4, <2>1, <2>2, <2>3, <2>4, InvOfRowUpdate DEF PurgeRow
<1>5. QED
  BY <1>1, <1>2, <1>3, <1>4 DEF PurgeStep

LEMMA InvRetention ==
  ASSUME OriginalInv, NEW j \in Jobs, RetentionStep(j)
  PROVE  OriginalInv'
<1> TypeOK /\ TypeOK' /\ JobSafe(j) /\ RowSafe /\ RowsOwned
  BY TypeRetention DEF OriginalInv
<1> USE DEF ReclaimPCs, CondemnedPCs, EventPCs, ExpirePCs
<1>1. CASE StartRetention(j)
  <2>1. Monotone /\ RowSafe' /\ RowsOwned'
    BY <1>1, MonotoneJobOnly, RowsUnchanged DEF StartRetention
  <2>2. JobSafe(j)'
    BY <1>1, <2>1, StartSeen, JobListed DEF StartRetention, ExpiryListing, Kept
  <2>3. QED
    BY <1>1, <2>1, <2>2, OthersUntouched, InvOfJobStep DEF StartRetention, Start
<1>2. CASE ExpireFile(j)
  <2>1. PICK p \in Photos : /\ Take(j, p, "expire", "expireRow")
                            /\ Unlink(p, job[j].seen[p].storagePath)
    BY <1>2 DEF ExpireFile
  <2>2. ~Kept(p)'
    BY <1>2, <2>1 DEF ExpireFile, Take, JobSafe, DeleterSafe, Kept, Expired
  <2>3. Monotone /\ RowSafe' /\ RowsOwned'
    BY <1>2, <2>1, <2>2, MonotoneUnlink, RowsUnchanged DEF ExpireFile
  <2>4. JobSafe(j)'
    BY <2>1, <2>3, JobTake
  <2>5. QED
    BY <2>1, <2>3, <2>4, InvOfJobStep DEF Take, TypeOK
<1>3. CASE ExpireRow(j)
  <2>1. PICK p \in Photos : p = Cur(j) /\ ~Kept(p)
    BY <1>3 DEF ExpireRow, JobSafe, ListingSafe, DeleterSafe, CurPCs, Todo
  <2>2. PICK row : row = [photo[p] EXCEPT !.storagePath = "none"]
    OBVIOUS
  <2>3. photo[p] \in Row
    BY DEF TypeOK
  <2>4. /\ row \in Row /\ row.state = photo[p].state /\ row.expiresAt = photo[p].expiresAt
        /\ row.driveFileId = photo[p].driveFileId
    BY <2>2, <2>3 DEF Row
  <2>5. CASE Live(p)
    BY <1>3, <2>1, <2>2, <2>4, <2>5, InvOfRowUpdate, JobNextPhoto, OthersUntouched
       DEF ExpireRow, NextPhoto, RowsOwned, Live
  <2>6. CASE ~Live(p)
    <3>1. UNCHANGED <<photo, disk, drive, copyOf, today, condemned>>
      BY <1>3, <2>1, <2>6 DEF ExpireRow, UpdateRow
    <3>2. QED
      BY <1>3, <3>1, MonotoneJobOnly, RowsUnchanged, JobNextPhoto, OthersUntouched, InvOfJobStep
         DEF ExpireRow, NextPhoto
  <2>7. QED
    BY <2>5, <2>6
<1>4. QED
  BY <1>1, <1>2, <1>3 DEF RetentionStep

LEMMA InvDeletePhoto ==
  ASSUME OriginalInv, NEW j \in Jobs, DeletePhotoStep(j)
  PROVE  OriginalInv'
<1> TypeOK /\ TypeOK' /\ JobSafe(j) /\ RowSafe /\ RowsOwned
  BY TypeDeletePhoto DEF OriginalInv
<1> USE DEF ReclaimPCs, CondemnedPCs, EventPCs, ExpirePCs
<1>1. CASE \E p \in Photos : StartDeletePhoto(j, p)
  <2>1. PICK p \in Photos : StartDeletePhoto(j, p)
    BY <1>1
  <2>2. Monotone
    BY <2>1 DEF StartDeletePhoto, Monotone, Kept, Expired, Owned, HasCopy
  <2>3. job'[j].pc = "photoRow" /\ job'[j].seen = Listing({p}) /\ job'[j].cur = p
    BY <2>1 DEF StartDeletePhoto, Idle, TypeOK
  <2>4. JobSafe(j)'
    BY <2>1, <2>2, <2>3, JobListed DEF StartDeletePhoto
  <2>5. QED
    BY <2>1, <2>2, <2>4, RowsUnchanged, OthersUntouched, InvOfJobStep DEF StartDeletePhoto
<1>2. CASE DeletePhotoRow(j)
  <2>1. PICK p \in Photos : p = Cur(j)
    BY <1>2 DEF DeletePhotoRow, JobSafe, ListingSafe, CurPCs, Todo
  <2>2. GoneRow \in Row /\ GoneRow.state = "gone" /\ Owned(GoneRow.driveFileId, p)
    BY NoRowType, SentinelAssumption DEF GoneRow, NoRow, Owned
  <2>3. \A i \in Jobs \ {j} : job'[i] = job[i]
    BY <1>2 DEF DeletePhotoRow, Goto, Finish, TypeOK
  <2>4. Monotone => JobSafe(j)'
    <3>1. CASE Goto(j, "photoFile")
      BY <1>2, <3>1, JobGoto DEF DeletePhotoRow, CurPCs
    <3>2. CASE Finish(j)
      BY <3>2, JobIdle DEF Finish, TypeOK
    <3>3. QED
      BY <1>2, <3>1, <3>2 DEF DeletePhotoRow
  <2>5. QED
    BY <1>2, <2>1, <2>2, <2>3, <2>4, InvOfRowUpdate DEF DeletePhotoRow
<1>3. CASE DeletePhotoFile(j)
  <2>1. PICK p \in Photos : p = Cur(j) /\ p \in condemned
    BY <1>3 DEF DeletePhotoFile, JobSafe, ListingSafe, DeleterSafe, CurPCs, Todo
  <2>2. ~Kept(p)'
    BY <1>3, <2>1 DEF DeletePhotoFile, Kept
  <2>3. Monotone /\ RowSafe' /\ RowsOwned'
    BY <1>3, <2>1, <2>2, MonotoneUnlink, RowsUnchanged DEF DeletePhotoFile
  <2>4. QED
    BY <1>3, <2>3, JobIdle, OthersUntouched, InvOfJobStep DEF DeletePhotoFile, Finish, TypeOK
<1>4. QED
  BY <1>1, <1>2, <1>3 DEF DeletePhotoStep

LEMMA InvDeleteEvent ==
  ASSUME OriginalInv, NEW j \in Jobs, DeleteEventStep(j)
  PROVE  OriginalInv'
<1> TypeOK /\ TypeOK' /\ JobSafe(j) /\ RowSafe /\ RowsOwned
  BY TypeDeleteEvent DEF OriginalInv
<1> USE DEF ReclaimPCs, CondemnedPCs, EventPCs, ExpirePCs
<1>1. CASE StartDeleteEvent(j)
  <2>1. Monotone
    BY <1>1 DEF StartDeleteEvent, Monotone, Kept, Expired, Owned, HasCopy
  <2>2. JobSafe(j)'
    BY <1>1, <2>1, StartSeen, JobListed DEF StartDeleteEvent, OnDrive
  <2>3. QED
    BY <1>1, <2>1, <2>2, RowsUnchanged, OthersUntouched, InvOfJobStep DEF StartDeleteEvent, Start
<1>2. ASSUME job[j].pc \in EventPCs PROVE \A p \in Photos : p \in condemned
  BY <1>2 DEF JobSafe, DeleterSafe
<1>3. CASE DeleteEventDrive(j)
  <2>1. PICK p \in Photos : /\ DriveDelete(job[j].seen[p].driveFileId) \/ UNCHANGED drive
                            /\ Skip(j, p)
    BY <1>3 DEF DeleteEventDrive, Todo
  <2>2. /\ job'[j].seen = [job[j].seen EXCEPT ![p] = NoRow]
        /\ job'[j].pc = "event" /\ \A i \in Jobs \ {j} : job'[i] = job[i]
    BY <1>3, <2>1, JobFields DEF DeleteEventDrive, Skip, TypeOK, Job
  <2>3. Owned(job[j].seen[p].driveFileId, p) /\ ~Kept(p)'
    BY <1>2, <1>3 DEF JobSafe, ListingSafe, DeleteEventDrive, Kept
  <2>4. Monotone /\ RowSafe' /\ RowsOwned'
    BY <1>3, <2>1, <2>3, MonotoneDrive, RowsUnchanged DEF DeleteEventDrive
  <2>5. \A q \in Photos : job'[j].seen[q] = job[j].seen[q] \/ job'[j].seen[q] = NoRow
    BY <2>2, JobFields
  <2>6. JobSafe(j)'
    BY <1>3, <2>2, <2>4, <2>5, JobAdvances DEF DeleteEventDrive, CurPCs
  <2>7. QED
    BY <2>2, <2>4, <2>6, InvOfJobStep
<1>4. CASE DeleteEventPhotos(j)
  <2>1. \A p \in Photos : ~Kept(p)'
    BY <1>2, <1>4 DEF DeleteEventPhotos, Kept
  <2>2. \A p \in Photos : photo'[p] = IF Live(p) THEN GoneRow ELSE photo[p]
    BY <1>4 DEF DeleteEventPhotos
  <2>3. Monotone
    BY <1>4, <2>1, <2>2 DEF DeleteEventPhotos, Monotone, Owned, Live, GoneRow, NoRow
  <2>4. RowSafe' /\ RowsOwned'
    <3>1. RowSafe'
      BY <2>1 DEF RowSafe
    <3>2. ASSUME NEW p \in Photos PROVE Owned(photo[p].driveFileId, p)'
      <4>1. PICK f : f = photo'[p].driveFileId
        OBVIOUS
      <4>2. f = NoFile \/ f = photo[p].driveFileId
        BY <2>2, <4>1 DEF GoneRow, NoRow
      <4>3. Owned(f, p)
        BY <4>2, SentinelAssumption DEF RowsOwned, Owned
      <4>4. Owned(f, p)'
        BY <2>3, <4>3 DEF Monotone
      <4>5. QED
        BY <4>1, <4>4 DEF Owned
    <3>3. QED
      BY <3>1, <3>2 DEF RowsOwned
  <2>5. JobSafe(j)'
    BY <1>4, <2>3, JobGoto DEF DeleteEventPhotos, CurPCs
  <2>6. QED
    BY <1>4, <2>3, <2>4, <2>5, InvOfJobStep DEF DeleteEventPhotos, Goto, TypeOK
<1>5. CASE DeleteEventRow(j)
  <2>1. Monotone /\ RowSafe' /\ RowsOwned'
    BY <1>5, MonotoneJobOnly, RowsUnchanged DEF DeleteEventRow
  <2>2. CASE Goto(j, "eventDir")
    BY <1>5, <2>1, <2>2, JobGoto, InvOfJobStep DEF DeleteEventRow, Goto, CurPCs, TypeOK
  <2>3. CASE Finish(j)
    BY <2>1, <2>3, JobIdle, OthersUntouched, InvOfJobStep DEF Finish, TypeOK
  <2>4. QED
    BY <1>5, <2>2, <2>3 DEF DeleteEventRow
<1>6. CASE DeleteEventDir(j)
  <2>1. \A p \in Photos : ~Kept(p)'
    BY <1>2, <1>6 DEF DeleteEventDir, Kept
  <2>2. Monotone
    BY <1>6, <2>1 DEF DeleteEventDir, Monotone, Owned
  <2>3. RowSafe' /\ RowsOwned'
    BY <1>6, <2>2, RowsUnchanged DEF DeleteEventDir
  <2>4. QED
    BY <1>6, <2>2, <2>3, JobIdle, OthersUntouched, InvOfJobStep DEF DeleteEventDir, Finish, TypeOK
<1>7. QED
  BY <1>1, <1>3, <1>4, <1>5, <1>6 DEF DeleteEventStep

LEMMA InvStartReclaim ==
  ASSUME OriginalInv, NEW j \in Jobs, StartReclaimNow(j) \/ StartBackupSweep(j)
  PROVE  OriginalInv'
<1> TypeOK /\ TypeOK' /\ JobSafe(j) /\ RowSafe /\ RowsOwned
  <2>1. TypeOK'
    BY StartType DEF OriginalInv, StartReclaimNow, StartBackupSweep, TypeOK, Live, PCs
  <2>2. QED
    BY <2>1 DEF OriginalInv
<1>1. PICK S \in SUBSET Photos : /\ Start(j, S, "reclaim")
                                 /\ \A p \in S : Live(p)
  BY DEF StartReclaimNow, StartBackupSweep, OnDrive
<1>2. Monotone /\ RowSafe' /\ RowsOwned'
  BY MonotoneJobOnly, RowsUnchanged DEF StartReclaimNow, StartBackupSweep
<1>3. JobSafe(j)'
  BY <1>1, <1>2, StartSeen, JobListed DEF CondemnedPCs
<1>4. QED
  BY <1>1, <1>2, <1>3, OthersUntouched, InvOfJobStep DEF Start

LEMMA InvEndJob ==
  ASSUME OriginalInv, NEW j \in Jobs, EndJob(j)
  PROVE  OriginalInv'
<1> TypeOK /\ TypeOK' /\ RowSafe /\ RowsOwned
  <2>1. TypeOK'
    BY FinishType DEF OriginalInv, EndJob, TypeOK, Live
  <2>2. QED
    BY <2>1 DEF OriginalInv
<1>1. Monotone /\ RowSafe' /\ RowsOwned'
  BY MonotoneJobOnly, RowsUnchanged DEF EndJob
<1>2. job'[j] = Idle /\ \A i \in Jobs \ {j} : job'[i] = job[i]
  BY DEF EndJob, Finish, TypeOK
<1>3. QED
  BY <1>1, <1>2, JobIdle, InvOfJobStep

LEMMA InvOwnerRemovesFile ==
  ASSUME OriginalInv, NEW f \in Files, OwnerRemovesFile(f)
  PROVE  OriginalInv'
<1> TypeOK /\ TypeOK' /\ RowSafe /\ RowsOwned
  BY DEF OriginalInv, OwnerRemovesFile, TypeOK, Live
<1>1. Monotone
  BY DEF OwnerRemovesFile, Monotone, Kept, Expired, Owned, HasCopy, TypeOK
<1>2. QED
  BY <1>1, RowsUnchanged, InvOfOtherStep DEF OwnerRemovesFile

LEMMA InvCrash == OriginalInv /\ Crash => OriginalInv'
<1> SUFFICES ASSUME OriginalInv, Crash PROVE OriginalInv'
  OBVIOUS
<1> TypeOK /\ TypeOK' /\ RowSafe /\ RowsOwned
  BY NoRowType, IdleType, DaysAssumption DEF OriginalInv, Crash, TypeOK, Live
<1>1. NoFile \notin Files
  BY SentinelAssumption
<1>2. \A p \in Photos : photo'[p] = photo[p] \/ photo'[p] = GoneRow
  BY DEF Crash
<1>3. GoneRow.state = "gone" /\ GoneRow.driveFileId = NoFile
  BY DEF GoneRow, NoRow
<1>4. Monotone
  BY <1>2, <1>3 DEF Crash, Monotone, Kept, Expired, Owned, HasCopy
<1>5. ASSUME NEW p \in Photos, photo'[p] = photo[p], Kept(p)'
      PROVE  IF photo'[p].storagePath = "none" THEN HasCopy(p)'
                                               ELSE photo'[p].storagePath \in disk'[p]
  <2>1. Kept(p) /\ disk[p] \subseteq disk'[p] /\ (HasCopy(p) => HasCopy(p)')
    BY <1>4, <1>5 DEF Monotone, Kept
  <2>2. QED
    BY <1>5, <2>1 DEF RowSafe
<1>6. RowSafe'
  BY <1>2, <1>3, <1>5 DEF RowSafe, Kept
<1>7. ASSUME NEW p \in Photos PROVE Owned(photo[p].driveFileId, p)'
  BY <1>1, <1>2, <1>3 DEF RowsOwned, Owned, Crash
<1>8. \A j \in Jobs : JobSafe(j)'
  BY JobIdle DEF Crash
<1>9. QED
  BY <1>6, <1>7, <1>8 DEF OriginalInv, RowsOwned

LEMMA InvTick == OriginalInv /\ Tick => OriginalInv'
<1> SUFFICES ASSUME OriginalInv, Tick PROVE OriginalInv'
  OBVIOUS
<1> TypeOK /\ TypeOK' /\ RowSafe /\ RowsOwned
  BY DaysAssumption DEF OriginalInv, Tick, TypeOK, Days, Live
<1>1. ASSUME NEW p \in Photos, Kept(p)' PROVE Kept(p)
  <2>1. photo[p] \in Row /\ today \in Int /\ today' = today + 1
    BY DEF TypeOK, Tick, Days
  <2>2. photo[p].expiresAt \in Int
    BY <2>1, DaysAssumption DEF Row, Never
  <2>3. QED
    BY <1>1, <2>1, <2>2 DEF Kept, Expired, Tick
<1>2. Monotone
  BY <1>1 DEF Tick, Monotone, Owned, HasCopy
<1>3. QED
  BY <1>2, RowsUnchanged, InvOfOtherStep DEF Tick

LEMMA OriginalStep == OriginalInv /\ [Next]_vars => OriginalInv'
<1> SUFFICES ASSUME OriginalInv, [Next]_vars PROVE OriginalInv'
  OBVIOUS
<1>1. ASSUME NEW p \in Photos, Ingest(p) PROVE OriginalInv'
  BY <1>1, InvIngest
<1>2. ASSUME NEW j \in BackupJobs, BackupStep(j) PROVE OriginalInv'
  BY <1>2, InvBackup DEF Jobs
<1>3. ASSUME NEW j \in Jobs, StartReclaimNow(j) \/ StartBackupSweep(j) PROVE OriginalInv'
  BY <1>3, InvStartReclaim
<1>4. ASSUME NEW j \in Jobs, ReclaimStep(j) PROVE OriginalInv'
  BY <1>4, InvReclaim
<1>5. ASSUME NEW j \in Jobs, PurgeStep(j) PROVE OriginalInv'
  BY <1>5, InvPurge
<1>6. ASSUME NEW j \in Jobs, RetentionStep(j) PROVE OriginalInv'
  BY <1>6, InvRetention
<1>7. ASSUME NEW j \in Jobs, DeletePhotoStep(j) \/ DeleteEventStep(j) PROVE OriginalInv'
  BY <1>7, InvDeletePhoto, InvDeleteEvent
<1>8. ASSUME NEW j \in Jobs, EndJob(j) PROVE OriginalInv'
  BY <1>8, InvEndJob
<1>9. ASSUME NEW f \in Files, OwnerRemovesFile(f) PROVE OriginalInv'
  BY <1>9, InvOwnerRemovesFile
<1>10. CASE Crash
  BY <1>10, InvCrash
<1>11. CASE Tick
  BY <1>11, InvTick
<1>12. CASE UNCHANGED vars
  <2>1. TypeOK' /\ Monotone
    BY <1>12, TypeStep, MonotoneJobOnly DEF OriginalInv, vars
  <2>2. RowSafe' /\ RowsOwned'
    BY <1>12, <2>1, RowsUnchanged DEF OriginalInv, vars
  <2>3. QED
    BY <1>12, <2>1, <2>2, InvOfOtherStep DEF vars
<1>13. QED
  BY <1>1, <1>2, <1>3, <1>4, <1>5, <1>6, <1>7, <1>8, <1>9, <1>10, <1>11, <1>12
     DEF Next, Jobs

(* The invariant that carries the safety of the originals holds throughout:*)
(* rows, listings and locals of jobs may be stale, but no job deletes the  *)
(* last copy of a photo the studio is still owed.                          *)
THEOREM OriginalInvariant == Spec => []OriginalInv
<1>1. QED
  BY OriginalInit, OriginalStep, PTL DEF Spec

(* With any number of photos, jobs and restarts, however the jobs          *)
(* interleave and whatever Drive does, the bytes of a photo outlive every  *)
(* backup, reclaim and sweep until its retention runs out, a user deletes  *)
(* it or its purge falls due (driveBackupRetention.js, photoRetention.js,  *)
(* events.js backup-existing and reclaim-now).                             *)
THEOREM OriginalsSurvive == Spec => []OriginalSurvives
<1>1. OriginalInv => OriginalSurvives
  <2> SUFFICES ASSUME OriginalInv, NEW p \in Photos,
                      Live(p), p \notin condemned, ~Expired(photo[p])
               PROVE  HasCopy(p)
    BY DEF OriginalSurvives
  <2>1. Kept(p)
    BY DEF Kept, Live
  <2>2. QED
    BY <2>1 DEF OriginalInv, RowSafe, HasCopy
<1>2. QED
  BY <1>1, OriginalInvariant, PTL

-----------------------------------------------------------------------------
(* The inductive invariant behind OriginalReachable.                       *)

BackupPCs == {"backup", "upload", "record"}

\* A backup works on photos that keep a local path for as long as they are kept.
BackupSafe(j) ==
  job[j].pc \in BackupPCs =>
    \A p \in Photos : p \in Todo(j) /\ Kept(p) => photo[p].storagePath # "none"

\* The row leads to a Drive file that is there, or a reclaim has just deleted
\* that file and is about to record the local one.
Leads(p) ==
  \/ photo[p].driveFileId \in Files /\ drive[photo[p].driveFileId] \in {"stored", "removed"}
  \/ \E j \in Jobs : job[j].pc = "update" /\ Cur(j) = p

RowsLead ==
  crashes = 0 =>
    \A p \in Photos : Kept(p) /\ photo[p].storagePath = "none" => Leads(p)

ReachInv == RowsLead /\ \A j \in Jobs : BackupSafe(j)

\* What a step may do to a row: insert one that leads to a copy, end that it is
\* kept, or keep its path if it had one and what it led to if it had none.
Follows(p) ==
  Kept(p)' =>
    \/ photo[p].state = "absent" /\ (photo'[p].storagePath # "none" \/ Leads(p)')
    \/ /\ Kept(p)
       /\ photo[p].storagePath # "none" => photo'[p].storagePath # "none"
       /\ photo'[p].storagePath = "none" /\ crashes' = 0 =>
            crashes = 0 /\ (Leads(p) => Leads(p)')

\* A backup job shortens its list, or takes one of rows that have a path.
BackupMoves(j) ==
  job'[j].pc \in BackupPCs =>
    \/ /\ job[j].pc \in BackupPCs
       /\ \A p \in Photos : job'[j].seen[p].state = "live" => job[j].seen[p].state = "live"
    \/ /\ photo' = photo
       /\ \A p \in Photos : job'[j].seen[p].state = "live" => photo[p].storagePath # "none"

LEMMA ReachOf ==
  ASSUME OriginalInv, ReachInv, \A p \in Photos : Follows(p), \A j \in Jobs : BackupMoves(j)
  PROVE  ReachInv'
<1>1. ASSUME crashes' = 0, NEW p \in Photos, Kept(p)', photo'[p].storagePath = "none"
      PROVE  Leads(p)'
  <2>1. CASE photo[p].state = "absent"
    BY <1>1, <2>1 DEF Follows, Kept
  <2>2. CASE photo[p].state # "absent"
    BY <1>1, <2>2 DEF Follows, ReachInv, RowsLead
  <2>3. QED
    BY <2>1, <2>2
<1>2. ASSUME NEW j \in Jobs, job'[j].pc \in BackupPCs, NEW p \in Photos, p \in Todo(j)', Kept(p)'
      PROVE  photo'[p].storagePath # "none"
  <2>1. job'[j].seen[p].state = "live"
    BY <1>2 DEF Todo
  <2>2. CASE photo' = photo /\ photo[p].storagePath # "none"
    BY <2>2
  <2>3. CASE job[j].pc \in BackupPCs /\ job[j].seen[p].state = "live"
    <3>1. p \in Todo(j) /\ photo[p].state # "absent"
      BY <2>3 DEF OriginalInv, JobSafe, ListingSafe, Todo
    <3>2. Kept(p) /\ (photo[p].storagePath # "none" => photo'[p].storagePath # "none")
      BY <1>2, <3>1 DEF Follows
    <3>3. QED
      BY <2>3, <3>1, <3>2 DEF ReachInv, BackupSafe
  <2>4. QED
    BY <1>2, <2>1, <2>2, <2>3 DEF BackupMoves
<1>3. RowsLead'
  BY <1>1 DEF RowsLead
<1>4. ASSUME NEW j \in Jobs PROVE BackupSafe(j)'
  BY <1>2 DEF BackupSafe, BackupPCs
<1>5. QED
  BY <1>3, <1>4 DEF ReachInv

\* A photo whose row, Drive file and recording reclaim the step leaves alone.
LEMMA FollowsSame ==
  ASSUME TypeOK, NEW p \in Photos,
         photo'[p].state # photo[p].state => photo[p].state = "pending",
         photo'[p].storagePath = photo[p].storagePath,
         photo'[p].driveFileId = photo[p].driveFileId,
         photo'[p].expiresAt = photo[p].expiresAt,
         condemned \subseteq condemned', today' \in Int, today <= today',
         crashes' = 0 => crashes = 0,
         \A f \in Files : photo[p].driveFileId = f /\ drive[f] \in {"stored", "removed"} =>
           drive'[f] \in {"stored", "removed"} \/ Leads(p)',
         \A j \in Jobs : job[j].pc = "update" /\ job[j].cur = p =>
           job'[j].pc = "update" /\ job'[j].cur = p
  PROVE  Follows(p)
<1>1. Kept(p)' => Kept(p)
  <2>1. photo[p] \in Row /\ today \in Int
    BY DEF TypeOK, Days
  <2>2. photo[p].expiresAt \in Int
    BY <2>1, DaysAssumption DEF Row, Never
  <2>3. QED
    BY <2>1, <2>2 DEF Kept, Expired
<1>2. Leads(p) => Leads(p)'
  BY DEF Leads, Cur
<1>3. QED
  BY <1>1, <1>2 DEF Follows

\* A job's step that touches no row and deletes no Drive file.
LEMMA ReachPlain ==
  ASSUME OriginalInv, ReachInv, NEW j \in Jobs,
         UNCHANGED <<photo, today, crashes>>, condemned \subseteq condemned',
         \A f \in Files : drive[f] \in {"stored", "removed"} => drive'[f] \in {"stored", "removed"},
         job[j].pc # "update", \A i \in Jobs \ {j} : job'[i] = job[i],
         BackupMoves(j)
  PROVE  ReachInv'
<1>1. TypeOK /\ today \in Int
  BY DEF OriginalInv, TypeOK, Days
<1>2. \A i \in Jobs : job[i].pc = "update" => job'[i] = job[i]
  OBVIOUS
<1>3. \A p \in Photos : Follows(p)
  BY <1>1, <1>2, FollowsSame
<1>4. \A i \in Jobs : BackupMoves(i)
  BY DEF BackupMoves
<1>5. QED
  BY <1>3, <1>4, ReachOf

\* A job's step on one photo, which the job may no longer find.
LEMMA ReachRow ==
  ASSUME OriginalInv, ReachInv, NEW j \in Jobs, NEW p \in Photos,
         UNCHANGED <<drive, today, crashes, condemned>>,
         \A q \in Photos \ {p} : photo'[q] = photo[q],
         job[j].pc = "update" => job[j].cur = p,
         \A i \in Jobs \ {j} : job'[i] = job[i],
         Follows(p), BackupMoves(j)
  PROVE  ReachInv'
<1>1. TypeOK /\ today \in Int
  BY DEF OriginalInv, TypeOK, Days
<1>2. ASSUME NEW q \in Photos, q # p PROVE Follows(q)
  <2>1. \A i \in Jobs : job[i].pc = "update" /\ job[i].cur = q => job'[i] = job[i]
    BY <1>2
  <2>2. QED
    BY <1>1, <1>2, <2>1, FollowsSame
<1>3. \A q \in Photos : Follows(q)
  BY <1>2
<1>4. \A i \in Jobs : BackupMoves(i)
  BY DEF BackupMoves
<1>5. QED
  BY <1>3, <1>4, ReachOf

\* A row that a step deletes, or that is already gone, is owed nothing more.
LEMMA FollowsGone ==
  ASSUME NEW p \in Photos, photo'[p].state = "gone" \/ p \in condemned'
  PROVE  Follows(p)
BY DEF Follows, Kept

LEMMA ReachInit == Init => ReachInv
BY DEF Init, ReachInv, RowsLead, BackupSafe, Kept, NoRow, Idle, BackupPCs

\* Only backups are in the middle of a backup.
LEMMA NotABackup ==
  ASSUME NEW j \in Jobs, job'[j].pc \notin BackupPCs
  PROVE  BackupMoves(j)
BY DEF BackupMoves

\* Where the ways of moving on leave a job.
LEMMA MovesOn ==
  ASSUME TypeOK, NEW j \in Jobs
  PROVE  /\ \A pc : Goto(j, pc) => /\ job'[j].pc = pc
                                   /\ \A i \in Jobs \ {j} : job'[i] = job[i]
         /\ \A pc : NextPhoto(j, pc) => /\ job'[j].pc = pc
                                        /\ \A i \in Jobs \ {j} : job'[i] = job[i]
         /\ \A p, from, to : Take(j, p, from, to) =>
              /\ job[j].pc = from /\ job'[j].pc = to /\ \A i \in Jobs \ {j} : job'[i] = job[i]
         /\ \A p : Skip(j, p) => /\ job'[j].pc = job[j].pc
                                 /\ \A i \in Jobs \ {j} : job'[i] = job[i]
         /\ Finish(j) => /\ job'[j].pc = "idle" /\ \A i \in Jobs \ {j} : job'[i] = job[i]
         /\ \A S, pc : Start(j, S, pc) =>
              /\ job[j].pc = "idle" /\ job'[j].pc = pc /\ job'[j].seen = Listing(S)
              /\ \A i \in Jobs \ {j} : job'[i] = job[i]
<1>1. ASSUME NEW x, job' = [job EXCEPT ![j] = x]
      PROVE  job'[j] = x /\ \A i \in Jobs \ {j} : job'[i] = job[i]
  BY <1>1 DEF TypeOK
<1>2. ASSUME NEW pc, Goto(j, pc)
      PROVE  job'[j].pc = pc /\ \A i \in Jobs \ {j} : job'[i] = job[i]
  BY <1>2 DEF Goto, TypeOK, Job
<1>3. ASSUME NEW pc, NextPhoto(j, pc)
      PROVE  job'[j].pc = pc /\ \A i \in Jobs \ {j} : job'[i] = job[i]
  BY <1>3, <1>1 DEF NextPhoto
<1>4. ASSUME NEW p, NEW from, NEW to, Take(j, p, from, to)
      PROVE  job[j].pc = from /\ job'[j].pc = to /\ \A i \in Jobs \ {j} : job'[i] = job[i]
  BY <1>4 DEF Take, TypeOK, Job
<1>5. ASSUME NEW p, Skip(j, p)
      PROVE  job'[j].pc = job[j].pc /\ \A i \in Jobs \ {j} : job'[i] = job[i]
  BY <1>5 DEF Skip, TypeOK, Job
<1>6. Finish(j) => job'[j].pc = "idle" /\ \A i \in Jobs \ {j} : job'[i] = job[i]
  <2>1. Idle.pc = "idle"
    BY DEF Idle
  <2>2. QED
    BY <1>1, <2>1 DEF Finish
<1>7. ASSUME NEW S, NEW pc, Start(j, S, pc)
      PROVE  /\ job[j].pc = "idle" /\ job'[j].pc = pc /\ job'[j].seen = Listing(S)
             /\ \A i \in Jobs \ {j} : job'[i] = job[i]
  BY <1>7, StartSeen, OthersUntouched DEF Start
<1>8. QED
  BY <1>2, <1>3, <1>4, <1>5, <1>6, <1>7

LEMMA ReachIngest ==
  ASSUME OriginalInv, ReachInv, NEW p \in Photos, Ingest(p)
  PROVE  ReachInv'
<1>1. TypeOK /\ today \in Int
  BY DEF OriginalInv, TypeOK, Days
<1>2. UNCHANGED <<job, eventRow, today, crashes, condemned>>
  BY DEF Ingest, WriteOriginal, CaptureToDrive, CreateRow
<1>3. \A f \in Files : drive[f] \in {"stored", "removed"} => drive'[f] \in {"stored", "removed"}
  BY <1>1 DEF Ingest, WriteOriginal, CaptureToDrive, CreateRow, DriveUpload, TypeOK
<1>4. \A q \in Photos \ {p} : photo'[q] = photo[q]
  BY <1>1 DEF Ingest, WriteOriginal, CaptureToDrive, CreateRow, TypeOK
<1>5. ASSUME NEW q \in Photos, q # p PROVE Follows(q)
  BY <1>1, <1>2, <1>3, <1>4, <1>5, FollowsSame
<1>6. Follows(p)
  <2>1. CASE WriteOriginal(p)
    <3>1. PICK path \in Paths : photo' = [photo EXCEPT ![p] = LocalRow(path)]
      BY <2>1 DEF WriteOriginal
    <3>2. photo'[p].storagePath # "none"
      BY <1>1, <3>1 DEF LocalRow, NoRow, Paths, TypeOK
    <3>3. QED
      BY <2>1, <3>2 DEF Follows, WriteOriginal
  <2>2. CASE CaptureToDrive(p)
    <3>1. PICK f \in Files : DriveUpload(f, p) /\ photo' = [photo EXCEPT ![p] = DriveRow(f)]
      BY <2>2 DEF CaptureToDrive
    <3>2. photo'[p].driveFileId = f /\ drive'[f] = "stored"
      BY <1>1, <3>1 DEF DriveRow, NoRow, DriveUpload, TypeOK
    <3>3. QED
      BY <2>2, <3>2 DEF Follows, Leads, CaptureToDrive
  <2>3. CASE CreateRow(p)
    <3>1. CASE ~eventRow
      BY <1>1, <2>3, <3>1, FollowsGone DEF CreateRow, GoneRow, NoRow, TypeOK
    <3>2. CASE eventRow
      <4>1. photo[p] \in Row /\ photo[p].state = "pending" /\ photo'[p] = Inserted(photo[p])
        BY <1>1, <2>3, <3>2 DEF CreateRow, TypeOK
      <4>2. /\ photo'[p].storagePath = photo[p].storagePath
            /\ photo'[p].driveFileId = photo[p].driveFileId
            /\ photo'[p].expiresAt = photo[p].expiresAt
        BY <4>1 DEF Inserted, Row
      <4>3. QED
        BY <1>1, <1>2, <1>3, <4>1, <4>2, FollowsSame
    <3>3. QED
      BY <3>1, <3>2
  <2>4. QED
    BY <2>1, <2>2, <2>3 DEF Ingest
<1>7. \A q \in Photos : Follows(q)
  BY <1>5, <1>6
<1>8. \A j \in Jobs : BackupMoves(j)
  BY <1>2 DEF BackupMoves
<1>9. QED
  BY <1>7, <1>8, ReachOf

LEMMA ReachBackup ==
  ASSUME OriginalInv, ReachInv, NEW j \in BackupJobs, BackupStep(j)
  PROVE  ReachInv'
<1> j \in Jobs
  BY DEF Jobs
<1>1. TypeOK /\ today \in Int /\ job[j].seen \in [Photos -> Row]
  BY JobFields DEF OriginalInv, TypeOK, Days
<1>2. NoRow.state # "live"
  BY DEF NoRow
<1>3. ASSUME NEW p \in Photos, Skip(j, p), job[j].pc = "backup" PROVE BackupMoves(j)
  <2>1. job'[j].pc = "backup" /\ job'[j].seen = [job[j].seen EXCEPT ![p] = NoRow]
    BY <1>1, <1>3 DEF Skip, TypeOK, Job
  <2>2. QED
    BY <1>1, <1>2, <1>3, <2>1 DEF BackupMoves, BackupPCs
<1>4. ASSUME NextPhoto(j, "backup"), job[j].pc \in BackupPCs PROVE BackupMoves(j)
  <2>1. job'[j].seen = [job[j].seen EXCEPT ![job[j].cur] = NoRow]
    BY <1>1, <1>4 DEF NextPhoto, TypeOK
  <2>2. \A p \in Photos : job'[j].seen[p] = job[j].seen[p] \/ job'[j].seen[p] = NoRow
    BY <1>1, <2>1
  <2>3. QED
    BY <1>2, <1>4, <2>2 DEF BackupMoves
<1>5. CASE StartBackup(j)
  <2>1. /\ Start(j, BackupListing, "backup")
        /\ UNCHANGED <<photo, disk, drive, copyOf, eventRow, today, crashes, condemned>>
    BY <1>5 DEF StartBackup
  <2>2. job[j].pc = "idle" /\ job'[j].seen = Listing(BackupListing)
    BY <1>1, <2>1, MovesOn
  <2>3. \A p \in Photos : job'[j].seen[p].state = "live" => photo[p].storagePath # "none"
    BY <1>2, <2>2 DEF Listing, BackupListing
  <2>4. BackupMoves(j)
    BY <2>1, <2>3 DEF BackupMoves
  <2>5. QED
    BY <1>1, <2>1, <2>2, <2>4, MovesOn, ReachPlain
<1>6. CASE BackupRead(j)
  <2>1. UNCHANGED <<photo, disk, drive, copyOf, eventRow, today, crashes, condemned>>
    BY <1>6 DEF BackupRead
  <2>2. CASE \E p \in Photos : Take(j, p, "backup", "upload")
    <3>1. PICK p \in Photos : Take(j, p, "backup", "upload")
      BY <2>2
    <3>2. job'[j].seen = job[j].seen /\ job[j].pc = "backup"
      BY <1>1, <3>1 DEF Take, TypeOK, Job
    <3>3. BackupMoves(j)
      BY <3>2 DEF BackupMoves, BackupPCs
    <3>4. QED
      BY <1>1, <2>1, <3>1, <3>2, <3>3, MovesOn, ReachPlain
  <2>3. CASE \E p \in Todo(j) : job[j].pc = "backup" /\ Skip(j, p)
    <3>1. PICK p \in Photos : job[j].pc = "backup" /\ Skip(j, p)
      BY <2>3 DEF Todo
    <3>2. QED
      BY <1>1, <1>3, <2>1, <3>1, MovesOn, ReachPlain
  <2>4. QED
    BY <1>6, <2>2, <2>3 DEF BackupRead
<1>7. CASE BackupUpload(j)
  <2>1. /\ job[j].pc = "upload"
        /\ UNCHANGED <<photo, disk, eventRow, today, crashes, condemned>>
    BY <1>7 DEF BackupUpload
  <2>2. CASE NextPhoto(j, "backup") /\ UNCHANGED <<drive, copyOf>>
    <3>1. BackupMoves(j)
      BY <1>4, <2>1, <2>2 DEF BackupPCs
    <3>2. QED
      BY <1>1, <2>1, <2>2, <3>1, MovesOn, ReachPlain
  <2>3. CASE \E f \in Files : /\ DriveUpload(f, Cur(j))
                              /\ job' = [job EXCEPT ![j].pc = "record", ![j].file = f]
    <3>1. PICK f \in Files : /\ DriveUpload(f, Cur(j))
                             /\ job' = [job EXCEPT ![j].pc = "record", ![j].file = f]
      BY <2>3
    <3>2. job'[j].seen = job[j].seen /\ \A i \in Jobs \ {j} : job'[i] = job[i]
      BY <1>1, <3>1 DEF TypeOK, Job
    <3>3. BackupMoves(j)
      BY <2>1, <3>2 DEF BackupMoves, BackupPCs
    <3>4. \A g \in Files : drive[g] \in {"stored", "removed"} => drive'[g] \in {"stored", "removed"}
      BY <1>1, <3>1 DEF DriveUpload, TypeOK
    <3>5. QED
      BY <2>1, <3>2, <3>3, <3>4, ReachPlain
  <2>4. QED
    BY <1>7, <2>2, <2>3 DEF BackupUpload
<1>8. CASE BackupRecord(j)
  <2>1. /\ job[j].pc = "record" /\ NextPhoto(j, "backup")
        /\ UNCHANGED <<drive, today, crashes, condemned>>
        /\ UpdateRow(Cur(j), BackedUp(photo[Cur(j)], job[j].file))
    BY <1>8 DEF BackupRecord
  <2>2. PICK p \in Photos : p = Cur(j) /\ p \in Todo(j) /\ photo[p].state \in {"live", "gone"}
    BY <2>1 DEF OriginalInv, JobSafe, ListingSafe, CurPCs, Todo
  <2>3. PICK row : row = BackedUp(photo[p], job[j].file)
    OBVIOUS
  <2>4. photo' = IF Live(p) THEN [photo EXCEPT ![p] = row] ELSE photo
    BY <2>1, <2>2, <2>3 DEF UpdateRow
  <2>5. photo[p] \in Row
    BY <1>1 DEF TypeOK
  <2>6. /\ row.storagePath = photo[p].storagePath /\ row.expiresAt = photo[p].expiresAt
        /\ row.state = photo[p].state
    BY <2>3, <2>5 DEF BackedUp, Row
  <2>7. \A q \in Photos \ {p} : photo'[q] = photo[q]
    BY <1>1, <2>4 DEF TypeOK
  <2>8. /\ photo'[p].storagePath = photo[p].storagePath
        /\ photo'[p].expiresAt = photo[p].expiresAt /\ photo'[p].state = photo[p].state
    BY <1>1, <2>4, <2>6 DEF TypeOK
  <2>9. Kept(p)' => Kept(p)
    BY <2>1, <2>8 DEF Kept, Expired
  <2>10. Kept(p) => photo[p].storagePath # "none"
    BY <2>1, <2>2 DEF ReachInv, BackupSafe, BackupPCs
  <2>11. Follows(p)
    BY <2>8, <2>9, <2>10 DEF Follows
  <2>12. BackupMoves(j)
    BY <1>4, <2>1 DEF BackupPCs
  <2>13. QED
    BY <1>1, <2>1, <2>7, <2>11, <2>12, MovesOn, ReachRow
<1>9. QED
  BY <1>5, <1>6, <1>7, <1>8 DEF BackupStep

LEMMA ReachReclaim ==
  ASSUME OriginalInv, ReachInv, NEW j \in Jobs, ReclaimStep(j)
  PROVE  ReachInv'
<1>1. TypeOK /\ today \in Int
  BY DEF OriginalInv, TypeOK, Days
<1>2. job'[j].pc \notin BackupPCs /\ \A i \in Jobs \ {j} : job'[i] = job[i]
  BY <1>1, MovesOn DEF ReclaimStep, ReclaimNext, ReclaimDownload, ReclaimWrite, ReclaimDelete,
                       ReclaimUpdate, ReclaimKeep, BackupPCs
<1>3. BackupMoves(j)
  BY <1>2, NotABackup
<1>4. UNCHANGED <<today, crashes, condemned>>
  BY DEF ReclaimStep, ReclaimNext, ReclaimDownload, ReclaimWrite, ReclaimDelete,
         ReclaimUpdate, ReclaimKeep
<1>5. CASE ReclaimNext(j) \/ ReclaimDownload(j) \/ ReclaimWrite(j)
  <2>1. job[j].pc # "update" /\ UNCHANGED <<photo, drive>>
    BY <1>5 DEF ReclaimNext, ReclaimDownload, ReclaimWrite, Take
  <2>2. QED
    BY <1>2, <1>3, <1>4, <2>1, ReachPlain
<1>6. CASE ReclaimDelete(j)
  <2>1. job[j].pc = "delete" /\ UNCHANGED photo
    BY <1>6 DEF ReclaimDelete
  <2>2. CASE UNCHANGED drive
    BY <1>2, <1>3, <1>4, <2>1, <2>2, ReachPlain
  <2>3. CASE DriveDelete(Seen(j).driveFileId) /\ Goto(j, "update")
    <3>1. PICK p \in Photos : p = job[j].cur
      BY <2>1 DEF OriginalInv, JobSafe, ListingSafe, CurPCs, Todo, Cur
    <3>2. PICK g : g = Seen(j).driveFileId
      OBVIOUS
    <3>3. Owned(g, p)
      BY <3>1, <3>2 DEF OriginalInv, JobSafe, ListingSafe, Seen, Cur
    <3>4. job'[j].pc = "update" /\ job'[j].cur = p
      BY <1>1, <2>3, <3>1 DEF Goto, TypeOK, Job
    <3>5. Leads(p)'
      BY <3>4 DEF Leads, Cur
    <3>6. ASSUME NEW f \in Files, f # g, drive[f] \in {"stored", "removed"}
          PROVE  drive'[f] \in {"stored", "removed"}
      BY <1>1, <2>3, <3>2, <3>6 DEF DriveDelete, TypeOK
    <3>7. ASSUME NEW q \in Photos, q # p PROVE photo[q].driveFileId = g => g \notin Files
      BY <3>3, <3>7 DEF OriginalInv, RowsOwned, Owned
    <3>8. \A i \in Jobs : job[i].pc = "update" => job'[i] = job[i]
      BY <1>2, <2>1
    <3>9. ASSUME NEW q \in Photos PROVE Follows(q)
      <4>1. \A f \in Files : photo[q].driveFileId = f /\ drive[f] \in {"stored", "removed"} =>
              drive'[f] \in {"stored", "removed"} \/ Leads(q)'
        BY <3>5, <3>6, <3>7
      <4>2. QED
        BY <1>1, <1>4, <2>1, <3>8, <4>1, FollowsSame
    <3>10. \A i \in Jobs : BackupMoves(i)
      BY <1>2, <1>3 DEF BackupMoves
    <3>11. QED
      BY <3>9, <3>10, ReachOf
  <2>4. QED
    BY <1>6, <2>2, <2>3 DEF ReclaimDelete
<1>7. CASE ReclaimUpdate(j) \/ ReclaimKeep(j)
  <2>1. job[j].pc \in {"update", "keep"} /\ UNCHANGED drive
    BY <1>7 DEF ReclaimUpdate, ReclaimKeep
  <2>2. PICK p \in Photos : p = Cur(j) /\ photo[p].state \in {"live", "gone"}
    BY <2>1 DEF OriginalInv, JobSafe, ListingSafe, CurPCs, Todo
  <2>3. PICK path : path = LocalPath(Seen(j)) /\ path # "none"
    <3>1. LocalPath(Seen(j)) # "none"
      BY DEF LocalPath
    <3>2. QED
      BY <3>1
  <2>4. photo[p] \in Row
    BY <1>1 DEF TypeOK
  <2>5. \/ photo' = photo /\ ~Live(p)
        \/ photo' = [photo EXCEPT ![p] = Reclaimed(photo[p], Seen(j))] /\ Live(p)
        \/ photo' = [photo EXCEPT ![p] = [photo[p] EXCEPT !.storagePath = path]] /\ Live(p)
    BY <1>7, <2>2, <2>3 DEF ReclaimUpdate, ReclaimKeep, UpdateRow
  <2>6. \A q \in Photos \ {p} : photo'[q] = photo[q]
    BY <1>1, <2>5 DEF TypeOK
  <2>7. CASE ~Live(p)
    BY <1>2, <1>3, <1>4, <2>1, <2>2, <2>5, <2>6, <2>7, FollowsGone, ReachRow DEF Live, Cur
  <2>8. CASE Live(p)
    <3>1. /\ photo'[p].storagePath = path /\ photo'[p].expiresAt = photo[p].expiresAt
          /\ photo'[p].state = photo[p].state
      <4>1. \/ photo'[p] = Reclaimed(photo[p], Seen(j))
            \/ photo'[p] = [photo[p] EXCEPT !.storagePath = path]
        BY <1>1, <2>5, <2>8 DEF TypeOK
      <4>2. Reclaimed(photo[p], Seen(j)) =
              [photo[p] EXCEPT !.storagePath = path, !.driveFileId = NoFile]
        BY <2>3 DEF Reclaimed
      <4>3. QED
        BY ZenonT(40), <2>4, <4>1, <4>2 DEF Row
    <3>2. Kept(p)' => Kept(p)
      BY <1>4, <3>1 DEF Kept, Expired
    <3>3. Follows(p)
      BY <2>3, <3>1, <3>2 DEF Follows
    <3>4. QED
      BY <1>2, <1>3, <1>4, <2>1, <2>2, <2>6, <3>3, ReachRow DEF Cur
  <2>9. QED
    BY <2>7, <2>8
<1>8. QED
  BY <1>5, <1>6, <1>7 DEF ReclaimStep

\* A step of job j that replaces one row by a deleted one, or finds it deleted.
LEMMA ReachGone ==
  ASSUME OriginalInv, ReachInv, NEW j \in Jobs, NEW p \in Photos, UpdateRow(p, GoneRow),
         photo[p].state \in {"live", "gone"}, job[j].pc # "update",
         UNCHANGED <<drive, today, crashes, condemned>>,
         \A i \in Jobs \ {j} : job'[i] = job[i], BackupMoves(j)
  PROVE  ReachInv'
<1>1. TypeOK
  BY DEF OriginalInv
<1>2. photo'[p].state = "gone" /\ \A q \in Photos \ {p} : photo'[q] = photo[q]
  BY <1>1 DEF UpdateRow, Live, GoneRow, NoRow, TypeOK
<1>3. Follows(p)
  BY <1>2, FollowsGone
<1>4. QED
  BY <1>2, <1>3, ReachRow

\* A step after which every photo is condemned.
LEMMA ReachCondemned ==
  ASSUME OriginalInv, ReachInv, condemned' = Photos
  PROVE  ReachInv'
<1>1. \A p \in Photos : ~Kept(p)'
  BY DEF Kept
<1>2. QED
  BY <1>1 DEF ReachInv, RowsLead, BackupSafe

LEMMA ReachPurge ==
  ASSUME OriginalInv, ReachInv, NEW j \in Jobs, PurgeStep(j)
  PROVE  ReachInv'
<1>1. TypeOK /\ today \in Int
  BY DEF OriginalInv, TypeOK, Days
<1>2. job'[j].pc \notin BackupPCs /\ \A i \in Jobs \ {j} : job'[i] = job[i]
  <2>1. CASE SweepListPurge(j)
    <3>1. job'[j] = [Idle EXCEPT !.pc = "purge", !.seen = Listing(PurgeListing)]
      BY <1>1, <2>1 DEF SweepListPurge, TypeOK
    <3>2. job'[j].pc = "purge"
      BY <3>1 DEF Idle
    <3>3. QED
      BY <1>1, <2>1, <3>2, OthersUntouched DEF SweepListPurge, BackupPCs
  <2>2. CASE PurgeDrive(j) \/ PurgeLocal(j) \/ PurgeRow(j)
    BY <1>1, <2>2, MovesOn DEF PurgeDrive, PurgeLocal, PurgeRow, BackupPCs
  <2>3. QED
    BY <2>1, <2>2 DEF PurgeStep
<1>3. BackupMoves(j)
  BY <1>2, NotABackup
<1>4. CASE SweepListPurge(j) \/ PurgeLocal(j)
  BY <1>2, <1>3, <1>4, ReachPlain DEF SweepListPurge, PurgeLocal
<1>5. CASE PurgeDrive(j)
  <2>1. PICK p \in Photos : /\ Take(j, p, "purge", "purgeLocal")
                            /\ DriveDelete(job[j].seen[p].driveFileId) \/ UNCHANGED drive
    BY <1>5 DEF PurgeDrive
  <2>2. PICK g : g = job[j].seen[p].driveFileId
    OBVIOUS
  <2>3. Owned(g, p) /\ p \in condemned
    BY <2>1, <2>2 DEF OriginalInv, JobSafe, ListingSafe, DeleterSafe, Take
  <2>4. ASSUME NEW f \in Files, f # g, drive[f] \in {"stored", "removed"}
        PROVE  drive'[f] \in {"stored", "removed"}
    BY <1>1, <2>1, <2>2, <2>4 DEF DriveDelete, TypeOK
  <2>5. \A i \in Jobs : job[i].pc = "update" => job'[i] = job[i]
    BY <1>2, <2>1 DEF Take
  <2>6. UNCHANGED <<photo, today, crashes, condemned>>
    BY <1>5 DEF PurgeDrive
  <2>7. ASSUME NEW q \in Photos, q # p PROVE Follows(q)
    <3>1. photo[q].driveFileId = g => g \notin Files
      BY <2>3, <2>7 DEF OriginalInv, RowsOwned, Owned
    <3>2. QED
      BY <1>1, <2>4, <2>5, <2>6, <3>1, FollowsSame
  <2>8. Follows(p)
    BY <2>3, <2>6, FollowsGone
  <2>9. \A q \in Photos : Follows(q)
    BY <2>7, <2>8
  <2>10. \A i \in Jobs : BackupMoves(i)
    BY <1>2, <1>3 DEF BackupMoves
  <2>11. QED
    BY <2>9, <2>10, ReachOf
<1>6. CASE PurgeRow(j)
  <2>1. /\ job[j].pc = "purgeRow" /\ UpdateRow(Cur(j), GoneRow)
        /\ UNCHANGED <<drive, today, crashes, condemned>>
    BY <1>6 DEF PurgeRow
  <2>2. PICK p \in Photos : p = Cur(j) /\ photo[p].state \in {"live", "gone"}
    BY <2>1 DEF OriginalInv, JobSafe, ListingSafe, CurPCs, Todo
  <2>3. QED
    BY <1>2, <1>3, <2>1, <2>2, ReachGone
<1>7. QED
  BY <1>4, <1>5, <1>6 DEF PurgeStep

LEMMA ReachRetention ==
  ASSUME OriginalInv, ReachInv, NEW j \in Jobs, RetentionStep(j)
  PROVE  ReachInv'
<1>1. TypeOK
  BY DEF OriginalInv
<1>2. job'[j].pc \notin BackupPCs /\ \A i \in Jobs \ {j} : job'[i] = job[i]
  BY <1>1, MovesOn DEF RetentionStep, StartRetention, ExpireFile, ExpireRow, BackupPCs
<1>3. BackupMoves(j)
  BY <1>2, NotABackup
<1>4. CASE StartRetention(j) \/ ExpireFile(j)
  BY <1>2, <1>3, <1>4, ReachPlain DEF StartRetention, ExpireFile, Start, Take
<1>5. CASE ExpireRow(j)
  <2>1. job[j].pc = "expireRow" /\ UNCHANGED <<drive, today, crashes, condemned>>
    BY <1>5 DEF ExpireRow
  <2>2. PICK p \in Photos : p = Cur(j) /\ ~Kept(p) /\ photo[p].state \in {"live", "gone"}
    BY <2>1 DEF OriginalInv, JobSafe, ListingSafe, DeleterSafe, CurPCs, Todo
  <2>3. photo[p] \in Row
    BY <1>1 DEF TypeOK
  <2>4. PICK row : row = [photo[p] EXCEPT !.storagePath = "none"]
    OBVIOUS
  <2>5. row.state = photo[p].state /\ row.expiresAt = photo[p].expiresAt
    BY <2>3, <2>4 DEF Row
  <2>6. photo' = IF Live(p) THEN [photo EXCEPT ![p] = row] ELSE photo
    BY <1>5, <2>2, <2>4 DEF ExpireRow, UpdateRow
  <2>7. /\ \A q \in Photos \ {p} : photo'[q] = photo[q]
        /\ photo'[p].state = photo[p].state /\ photo'[p].expiresAt = photo[p].expiresAt
    BY <1>1, <2>5, <2>6 DEF TypeOK
  <2>8. ~Kept(p)'
    BY <2>1, <2>2, <2>7 DEF Kept, Expired
  <2>9. Follows(p)
    BY <2>8 DEF Follows
  <2>10. QED
    BY <1>2, <1>3, <2>1, <2>7, <2>9, ReachRow
<1>6. QED
  BY <1>4, <1>5 DEF RetentionStep

LEMMA ReachDeletePhoto ==
  ASSUME OriginalInv, ReachInv, NEW j \in Jobs, DeletePhotoStep(j)
  PROVE  ReachInv'
<1>1. TypeOK
  BY DEF OriginalInv
<1>2. CASE \E p \in Photos : StartDeletePhoto(j, p)
  <2>1. PICK p \in Photos : StartDeletePhoto(j, p)
    BY <1>2
  <2>2. job'[j].pc = "photoRow" /\ \A i \in Jobs \ {j} : job'[i] = job[i]
    BY <1>1, <2>1 DEF StartDeletePhoto, Idle, TypeOK
  <2>3. BackupMoves(j)
    BY <2>2, NotABackup DEF BackupPCs
  <2>4. QED
    BY <2>1, <2>2, <2>3, ReachPlain DEF StartDeletePhoto
<1>3. ASSUME DeletePhotoRow(j) \/ DeletePhotoFile(j)
      PROVE  job'[j].pc \notin BackupPCs /\ \A i \in Jobs \ {j} : job'[i] = job[i]
  BY <1>1, <1>3, MovesOn DEF DeletePhotoRow, DeletePhotoFile, BackupPCs
<1>4. CASE DeletePhotoRow(j)
  <2>1. /\ job[j].pc = "photoRow" /\ UpdateRow(Cur(j), GoneRow)
        /\ UNCHANGED <<drive, today, crashes, condemned>>
    BY <1>4 DEF DeletePhotoRow
  <2>2. PICK p \in Photos : p = Cur(j) /\ photo[p].state \in {"live", "gone"}
    BY <2>1 DEF OriginalInv, JobSafe, ListingSafe, CurPCs, Todo
  <2>3. QED
    BY <1>3, <1>4, <2>1, <2>2, NotABackup, ReachGone
<1>5. CASE DeletePhotoFile(j)
  BY <1>3, <1>5, NotABackup, ReachPlain DEF DeletePhotoFile
<1>6. QED
  BY <1>2, <1>4, <1>5 DEF DeletePhotoStep

LEMMA ReachDeleteEvent ==
  ASSUME OriginalInv, ReachInv, NEW j \in Jobs, DeleteEventStep(j)
  PROVE  ReachInv'
<1>1. condemned' = Photos
  BY DEF DeleteEventStep, StartDeleteEvent, DeleteEventDrive, DeleteEventPhotos, DeleteEventRow,
         DeleteEventDir, OriginalInv, JobSafe, DeleterSafe
<1>2. QED
  BY <1>1, ReachCondemned

\* Steps of no job that leave the rows and the Drive files where they are.
LEMMA ReachOther ==
  ASSUME OriginalInv, ReachInv, UNCHANGED <<photo, job, crashes, condemned>>,
         today' \in Int, today <= today',
         \A f \in Files : drive[f] \in {"stored", "removed"} => drive'[f] \in {"stored", "removed"}
  PROVE  ReachInv'
<1>1. TypeOK
  BY DEF OriginalInv
<1>2. \A p \in Photos : Follows(p)
  BY <1>1, FollowsSame
<1>3. \A j \in Jobs : BackupMoves(j)
  BY DEF BackupMoves
<1>4. QED
  BY <1>2, <1>3, ReachOf

LEMMA ReachCrash == OriginalInv /\ ReachInv /\ Crash => ReachInv'
<1> SUFFICES ASSUME OriginalInv, ReachInv, Crash PROVE ReachInv'
  OBVIOUS
<1>1. crashes' # 0
  BY DEF Crash, OriginalInv, TypeOK
<1>2. \A j \in Jobs : job'[j].pc = "idle"
  BY DEF Crash, Idle
<1>3. QED
  BY <1>1, <1>2 DEF ReachInv, RowsLead, BackupSafe, BackupPCs

LEMMA ReachStep == OriginalInv /\ ReachInv /\ [Next]_vars => ReachInv'
<1> SUFFICES ASSUME OriginalInv, ReachInv, [Next]_vars PROVE ReachInv'
  OBVIOUS
<1>0. TypeOK /\ today \in Int
  BY DEF OriginalInv, TypeOK, Days
<1>1. ASSUME NEW p \in Photos, Ingest(p) PROVE ReachInv'
  BY <1>1, ReachIngest
<1>2. ASSUME NEW j \in BackupJobs, BackupStep(j) PROVE ReachInv'
  BY <1>2, ReachBackup
<1>3. ASSUME NEW j \in Jobs, StartReclaimNow(j) \/ StartBackupSweep(j) PROVE ReachInv'
  <2>1. /\ job'[j].pc = "reclaim" /\ job[j].pc = "idle" /\ \A i \in Jobs \ {j} : job'[i] = job[i]
        /\ UNCHANGED <<photo, drive, today, crashes, condemned>>
    BY <1>0, <1>3, MovesOn DEF StartReclaimNow, StartBackupSweep
  <2>2. BackupMoves(j)
    BY <2>1, NotABackup DEF BackupPCs
  <2>3. QED
    BY <2>1, <2>2, ReachPlain
<1>4. ASSUME NEW j \in Jobs, ReclaimStep(j) PROVE ReachInv'
  BY <1>4, ReachReclaim
<1>5. ASSUME NEW j \in Jobs, PurgeStep(j) PROVE ReachInv'
  BY <1>5, ReachPurge
<1>6. ASSUME NEW j \in Jobs, RetentionStep(j) PROVE ReachInv'
  BY <1>6, ReachRetention
<1>7. ASSUME NEW j \in Jobs, DeletePhotoStep(j) \/ DeleteEventStep(j) PROVE ReachInv'
  BY <1>7, ReachDeletePhoto, ReachDeleteEvent
<1>8. ASSUME NEW j \in Jobs, EndJob(j) PROVE ReachInv'
  <2>1. /\ job'[j].pc = "idle" /\ job[j].pc # "update" /\ \A i \in Jobs \ {j} : job'[i] = job[i]
        /\ UNCHANGED <<photo, drive, today, crashes, condemned>>
    BY <1>0, <1>8, MovesOn DEF EndJob
  <2>2. BackupMoves(j)
    BY <2>1, NotABackup DEF BackupPCs
  <2>3. QED
    BY <2>1, <2>2, ReachPlain
<1>9. ASSUME NEW f \in Files, OwnerRemovesFile(f) PROVE ReachInv'
  <2>1. \A g \in Files : drive[g] \in {"stored", "removed"} => drive'[g] \in {"stored", "removed"}
    BY <1>0, <1>9 DEF OwnerRemovesFile, TypeOK
  <2>2. QED
    BY <1>0, <1>9, <2>1, ReachOther DEF OwnerRemovesFile
<1>10. CASE Crash
  BY <1>10, ReachCrash
<1>11. CASE Tick
  BY <1>0, <1>11, ReachOther DEF Tick
<1>12. CASE UNCHANGED vars
  BY <1>0, <1>12, ReachOther DEF vars
<1>13. QED
  BY <1>1, <1>2, <1>3, <1>4, <1>5, <1>6, <1>7, <1>8, <1>9, <1>10, <1>11, <1>12
     DEF Next, Jobs

(* As long as the server is not restarted, the row of every photo that is  *)
(* still owed to the studio leads to its bytes, with any number of photos  *)
(* and jobs: a reclaim that has deleted the Drive copy is about to record  *)
(* the local one, and no other job overwrites that path with nothing       *)
(* (driveBackupRetention.js reclaimPhotos, events.js backup-existing).     *)
THEOREM OriginalsReachable == Spec => []OriginalReachable
<1>1. OriginalInv /\ ReachInv => OriginalReachable
  <2> SUFFICES ASSUME OriginalInv, ReachInv, crashes = 0, NEW p \in Photos,
                      Live(p), p \notin condemned, ~Expired(photo[p])
               PROVE  Referenced(p)
    BY DEF OriginalReachable, Reachable
  <2>1. Kept(p)
    BY DEF Kept, Live
  <2>2. CASE photo[p].storagePath # "none"
    BY <2>1, <2>2 DEF OriginalInv, RowSafe, Referenced
  <2>3. CASE photo[p].storagePath = "none"
    <3>1. Leads(p)
      BY <2>1, <2>3 DEF ReachInv, RowsLead
    <3>2. ASSUME NEW j \in Jobs, job[j].pc = "update", Cur(j) = p
          PROVE  LocalPath(Seen(j)) \in disk[p]
      BY <2>1, <3>2 DEF OriginalInv, JobSafe, ReclaimSafe
    <3>3. QED
      BY <3>1, <3>2 DEF Leads, Referenced
  <2>4. QED
    BY <2>2, <2>3
<1>2. Init => OriginalInv /\ ReachInv
  BY OriginalInit, ReachInit
<1>3. OriginalInv /\ ReachInv /\ [Next]_vars => OriginalInv' /\ ReachInv'
  BY OriginalStep, ReachStep
<1>4. QED
  BY <1>1, <1>2, <1>3, PTL DEF Spec

-----------------------------------------------------------------------------
(* The inductive invariant behind RowsGoOnlyWhenDue.                       *)

PurgePCs == {"purge", "purgeLocal", "purgeRow"}

\* The seven days of p in Drive backup are over.
DueNow(p) == since[p] # Never /\ since[p] + PurgeAfter < today

\* The clock of a photo in Drive backup never runs ahead of its first day there.
Clocked(p) == Live(p) /\ photo[p].platform => since[p] # Never /\ since[p] <= photo[p].startedAt

\* The purge's list holds only photos whose seven days are over.
DueSafe(j) == job[j].pc \in PurgePCs => \A p \in Todo(j) : DueNow(p)

DueInv ==
  /\ \A p \in Photos : Clocked(p) /\ since[p] <= today
  /\ \A j \in Jobs : DueSafe(j)

\* The job goes on with its list or less of it, or has just listed a purge.
DueMoves(j) ==
  job'[j].pc \in PurgePCs =>
    \/ /\ job[j].pc \in PurgePCs
       /\ \A p \in Photos : job'[j].seen[p].state = "live" => job[j].seen[p].state = "live"
    \/ \A p \in Photos :
         job'[j].seen[p].state = "live" => Live(p) /\ photo[p].platform /\ Aged(p, PurgeAfter)

\* The row stays as it is in Drive backup, with the clock it has, or goes.
ClockKept(p) ==
  Live(p)' => /\ Live(p) /\ photo'[p].platform = photo[p].platform
              /\ photo'[p].startedAt = photo[p].startedAt

\* The first day is set once, to the day it is.
FirstDay(p) == since'[p] = since[p] \/ (since[p] = Never /\ since'[p] = today)

\* The clock and the days p has spent in backup only go on.
TimeGoesOn ==
  /\ TypeOK' /\ today \in Nat /\ today' \in Nat /\ today <= today'
  /\ \A p \in Photos : FirstDay(p)

LEMMA TimeStep ==
  ASSUME TypeOK, [Next]_vars
  PROVE  TimeGoesOn
<1>1. TypeOK' /\ today \in Nat /\ today' \in Nat
  BY TypeStep, DaysAssumption DEF TypeOK, Days
<1>2. ASSUME NEW q \in Photos, since' = Entered(q) \/ UNCHANGED since, UNCHANGED today
      PROVE  TimeGoesOn
  BY <1>1, <1>2 DEF TimeGoesOn, FirstDay, Entered, TypeOK
<1>3. ASSUME NEW p \in Photos, Ingest(p) PROVE TimeGoesOn
  BY <1>2, <1>3 DEF Ingest, WriteOriginal, CaptureToDrive, CreateRow
<1>4. ASSUME UNCHANGED since, today' = today \/ today' = today + 1 PROVE TimeGoesOn
  BY <1>1, <1>4 DEF TimeGoesOn, FirstDay
<1>5. ASSUME NEW j \in BackupJobs, BackupRecord(j) PROVE TimeGoesOn
  <2>1. since' = Entered(Cur(j)) \/ UNCHANGED since
    BY <1>5 DEF BackupRecord
  <2>2. UNCHANGED today
    BY <1>5 DEF BackupRecord
  <2>3. CASE Cur(j) \in Photos
    BY <1>2, <2>1, <2>2, <2>3
  <2>4. CASE Cur(j) \notin Photos
    <3>1. UNCHANGED since
      BY <2>1, <2>4 DEF Entered, TypeOK
    <3>2. QED
      BY <1>4, <2>2, <3>1
  <2>5. QED
    BY <2>3, <2>4
<1>6. ASSUME NEW j \in BackupJobs, BackupStep(j) PROVE TimeGoesOn
  BY <1>4, <1>5, <1>6 DEF BackupStep, StartBackup, BackupRead, BackupUpload
<1>7. ASSUME NEW j \in Jobs, \/ StartReclaimNow(j) \/ StartBackupSweep(j) \/ EndJob(j)
                           \/ ReclaimStep(j) \/ PurgeStep(j)
      PROVE  TimeGoesOn
  BY <1>4, <1>7 DEF StartReclaimNow, StartBackupSweep, EndJob, ReclaimStep, ReclaimNext,
       ReclaimDownload, ReclaimWrite, ReclaimDelete, ReclaimUpdate, ReclaimKeep,
       PurgeStep, SweepListPurge, PurgeDrive, PurgeLocal, PurgeRow
<1>8. ASSUME NEW j \in Jobs, RetentionStep(j) \/ DeletePhotoStep(j) \/ DeleteEventStep(j)
      PROVE  TimeGoesOn
  BY <1>4, <1>8 DEF RetentionStep, StartRetention, ExpireFile, ExpireRow,
       DeletePhotoStep, StartDeletePhoto, DeletePhotoRow, DeletePhotoFile,
       DeleteEventStep, StartDeleteEvent, DeleteEventDrive, DeleteEventPhotos,
       DeleteEventRow, DeleteEventDir
<1>9. CASE (\E f \in Files : OwnerRemovesFile(f)) \/ Crash \/ Tick \/ UNCHANGED vars
  BY <1>4, <1>9 DEF OwnerRemovesFile, Crash, Tick, vars
<1>10. QED
  BY <1>3, <1>6, <1>7, <1>8, <1>9 DEF Next, Jobs

LEMMA DueOf ==
  ASSUME OriginalInv, DueInv, TimeGoesOn,
         \A p \in Photos : ClockKept(p) \/ Clocked(p)', \A j \in Jobs : DueMoves(j)
  PROVE  DueInv'
<1>1. TypeOK
  BY DEF OriginalInv
<1>2. ASSUME NEW p \in Photos
      PROVE  since[p] \in Int /\ since'[p] \in Int /\ photo[p].startedAt \in Int
  <2>1. photo[p] \in Row
    BY <1>1 DEF TypeOK
  <2>2. photo[p].startedAt \in Int
    BY <2>1 DEF Row, Days, Never
  <2>3. since[p] \in Int /\ since'[p] \in Int
    BY <1>1 DEF TimeGoesOn, TypeOK, Days, Never
  <2>4. QED
    BY <2>2, <2>3
<1>3. ASSUME NEW p \in Photos PROVE since'[p] <= today' /\ (DueNow(p) => DueNow(p)')
  <2>1. since[p] <= today /\ FirstDay(p)
    BY DEF DueInv, TimeGoesOn
  <2>2. QED
    BY <1>2, <2>1, DaysAssumption DEF TimeGoesOn, FirstDay, DueNow
<1>4. ASSUME NEW p \in Photos PROVE Clocked(p)'
  <2>1. CASE ClockKept(p) /\ Live(p)' /\ photo'[p].platform
    BY <2>1 DEF DueInv, Clocked, ClockKept, TimeGoesOn, FirstDay
  <2>2. QED
    BY <2>1 DEF Clocked
<1>5. ASSUME NEW p \in Photos, Live(p), photo[p].platform, Aged(p, PurgeAfter)
      PROVE  DueNow(p)
  BY <1>2, <1>5, DaysAssumption DEF DueInv, Clocked, Aged, DueNow, TimeGoesOn
<1>6. ASSUME NEW j \in Jobs, job'[j].pc \in PurgePCs, NEW p \in Todo(j)' PROVE DueNow(p)'
  <2>1. p \in Photos /\ job'[j].seen[p].state = "live"
    BY <1>6 DEF Todo
  <2>2. CASE job[j].pc \in PurgePCs /\ job[j].seen[p].state = "live"
    BY <1>3, <2>1, <2>2 DEF DueInv, DueSafe, Todo
  <2>3. CASE Live(p) /\ photo[p].platform /\ Aged(p, PurgeAfter)
    BY <1>3, <1>5, <2>1, <2>3
  <2>4. QED
    BY <1>6, <2>1, <2>2, <2>3 DEF DueMoves
<1>7. QED
  BY <1>3, <1>4, <1>6 DEF DueInv, DueSafe

\* Going on in the same loop.
LEMMA DueGoesOn ==
  ASSUME TypeOK, NEW j \in Jobs,
         \/ \E pc : Goto(j, pc)
         \/ \E pc : NextPhoto(j, pc)
         \/ \E p, from, to : Take(j, p, from, to)
         \/ \E p : Skip(j, p),
         job'[j].pc \in PurgePCs => job[j].pc \in PurgePCs
  PROVE  \A i \in Jobs : DueMoves(i)
<1>1. /\ job[j].seen \in [Photos -> Row] /\ NoRow.state # "live"
      /\ \A i \in Jobs \ {j} : job'[i] = job[i]
  BY JobFields, MovesOn DEF NoRow
<1>2. \/ job'[j].seen = job[j].seen
      \/ \E p : job'[j].seen = [job[j].seen EXCEPT ![p] = NoRow]
  <2>1. ASSUME NEW pc, Goto(j, pc) PROVE job'[j].seen = job[j].seen
    BY <2>1 DEF Goto, TypeOK, Job
  <2>2. ASSUME NEW pc, NextPhoto(j, pc)
        PROVE  job'[j].seen = [job[j].seen EXCEPT ![job[j].cur] = NoRow]
    BY <2>2 DEF NextPhoto, TypeOK
  <2>3. ASSUME NEW p, NEW from, NEW to, Take(j, p, from, to) PROVE job'[j].seen = job[j].seen
    BY <2>3 DEF Take, TypeOK, Job
  <2>4. ASSUME NEW p, Skip(j, p) PROVE job'[j].seen = [job[j].seen EXCEPT ![p] = NoRow]
    BY <2>4 DEF Skip, TypeOK, Job
  <2>5. QED
    BY <2>1, <2>2, <2>3, <2>4
<1>3. \A p \in Photos : job'[j].seen[p].state = "live" => job[j].seen[p].state = "live"
  BY <1>1, <1>2
<1>4. DueMoves(j)
  BY <1>3 DEF DueMoves
<1>5. QED
  BY <1>1, <1>4 DEF DueMoves

\* A job that stops, or does something else than purging.
LEMMA DueElse ==
  ASSUME NEW j \in Jobs, job'[j].pc \notin PurgePCs,
         \A i \in Jobs \ {j} : job'[i] = job[i]
  PROVE  \A i \in Jobs : DueMoves(i)
BY DEF DueMoves

\* A row the step replaces by one with the same clock.
LEMMA ClockOfUpdate ==
  ASSUME TypeOK, NEW p \in Photos, NEW row, UpdateRow(p, row),
         \/ row.state # "live"
         \/ row.platform = photo[p].platform /\ row.startedAt = photo[p].startedAt
  PROVE  \A q \in Photos : ClockKept(q)
BY DEF UpdateRow, ClockKept, Live, TypeOK

\* What the steps that touch no list and no row keep.
LEMMA DueSameRows ==
  ASSUME OriginalInv, DueInv, TimeGoesOn, UNCHANGED photo, \A i \in Jobs : DueMoves(i)
  PROVE  DueInv'
<1>1. \A p \in Photos : ClockKept(p)
  BY DEF ClockKept, Live
<1>2. QED
  BY <1>1, DueOf

LEMMA DueIngest ==
  ASSUME OriginalInv, DueInv, TimeGoesOn, NEW p \in Photos, Ingest(p)
  PROVE  DueInv'
<1>1. TypeOK /\ UNCHANGED job
  BY DEF OriginalInv, Ingest, WriteOriginal, CaptureToDrive, CreateRow
<1>2. \A q \in Photos \ {p} : photo'[q] = photo[q]
  BY <1>1 DEF Ingest, WriteOriginal, CaptureToDrive, CreateRow, TypeOK
<1>3. Clocked(p)'
  <2>1. CASE WriteOriginal(p) \/ CaptureToDrive(p)
    <3>1. photo'[p].state = "pending"
      <4>1. /\ \A path : LocalRow(path).state = "pending"
            /\ \A f : DriveRow(f).state = "pending"
        BY DEF LocalRow, DriveRow, NoRow
      <4>2. (\E path : photo'[p] = LocalRow(path)) \/ (\E f : photo'[p] = DriveRow(f))
        BY <1>1, <2>1 DEF WriteOriginal, CaptureToDrive, TypeOK
      <4>3. QED
        BY <4>1, <4>2
    <3>2. QED
      BY <3>1 DEF Clocked, Live
  <2>2. CASE CreateRow(p) /\ Live(p)' /\ photo'[p].platform
    <3>1. eventRow /\ photo'[p] = Inserted(photo[p]) /\ photo[p] \in Row
      BY <1>1, <2>2 DEF CreateRow, Live, GoneRow, NoRow, TypeOK
    <3>2. photo[p].platform /\ photo'[p].startedAt = today
      BY <2>2, <3>1 DEF Inserted, Row
    <3>3. since'[p] # Never /\ since'[p] <= today
      <4>1. since'[p] = IF since[p] = Never THEN today ELSE since[p]
        BY <1>1, <2>2, <3>1, <3>2 DEF CreateRow, Entered, TypeOK
      <4>2. QED
        BY <4>1 DEF TimeGoesOn, DueInv, Never
    <3>4. QED
      BY <3>2, <3>3 DEF Clocked
  <2>3. QED
    BY <2>1, <2>2 DEF Ingest, Clocked
<1>4. \A q \in Photos : ClockKept(q) \/ Clocked(q)'
  BY <1>2, <1>3 DEF ClockKept, Live
<1>5. \A j \in Jobs : DueMoves(j)
  BY <1>1 DEF DueMoves
<1>6. QED
  BY <1>4, <1>5, DueOf

LEMMA DueBackup ==
  ASSUME OriginalInv, DueInv, TimeGoesOn, NEW j \in BackupJobs, BackupStep(j)
  PROVE  DueInv'
<1> j \in Jobs
  BY DEF Jobs
<1>1. TypeOK
  BY DEF OriginalInv
<1>2. job'[j].pc \notin PurgePCs /\ \A i \in Jobs \ {j} : job'[i] = job[i]
  <2>1. CASE \E f \in Files : job' = [job EXCEPT ![j].pc = "record", ![j].file = f]
    BY <1>1, <2>1 DEF TypeOK, Job, PurgePCs
  <2>2. CASE \E p \in Todo(j) : job[j].pc = "backup" /\ Skip(j, p)
    BY <1>1, <2>2, MovesOn DEF PurgePCs
  <2>3. QED
    BY <1>1, <2>1, <2>2, MovesOn DEF BackupStep, StartBackup, BackupRead, BackupUpload,
         BackupRecord, PurgePCs
<1>3. \A i \in Jobs : DueMoves(i)
  BY <1>2, DueElse
<1>4. CASE UNCHANGED photo
  BY <1>3, <1>4, DueSameRows
<1>5. CASE BackupRecord(j)
  <2>1. /\ job[j].pc = "record"
        /\ UpdateRow(Cur(j), BackedUp(photo[Cur(j)], job[j].file))
        /\ Live(Cur(j)) => since' = Entered(Cur(j))
    BY <1>5 DEF BackupRecord
  <2>2. PICK p \in Photos : p = Cur(j)
    BY <2>1 DEF OriginalInv, JobSafe, ListingSafe, CurPCs, Todo
  <2>3. CASE ~Live(p)
    BY <1>4, <2>1, <2>2, <2>3 DEF UpdateRow
  <2>4. CASE Live(p)
    <3>1. /\ photo'[p] = BackedUp(photo[p], job[j].file) /\ photo[p] \in Row
          /\ \A q \in Photos \ {p} : photo'[q] = photo[q]
      BY <1>1, <2>1, <2>2, <2>4 DEF UpdateRow, TypeOK
    <3>2. photo'[p].startedAt = today
      BY <3>1 DEF BackedUp, Row
    <3>3. since'[p] = IF since[p] = Never THEN today ELSE since[p]
      BY <1>1, <2>1, <2>2, <2>4 DEF Entered, TypeOK
    <3>4. Clocked(p)'
      BY <3>2, <3>3 DEF Clocked, TimeGoesOn, DueInv, Never
    <3>5. \A q \in Photos : ClockKept(q) \/ Clocked(q)'
      BY <3>1, <3>4 DEF ClockKept, Live
    <3>6. QED
      BY <1>3, <3>5, DueOf
  <2>5. QED
    BY <2>3, <2>4
<1>6. QED
  BY <1>4, <1>5 DEF BackupStep, StartBackup, BackupRead, BackupUpload

LEMMA DueReclaim ==
  ASSUME OriginalInv, DueInv, TimeGoesOn, NEW j \in Jobs, ReclaimStep(j)
  PROVE  DueInv'
<1>1. TypeOK
  BY DEF OriginalInv
<1>2. job'[j].pc \notin PurgePCs /\ \A i \in Jobs \ {j} : job'[i] = job[i]
  BY <1>1, MovesOn DEF ReclaimStep, ReclaimNext, ReclaimDownload, ReclaimWrite, ReclaimDelete,
                       ReclaimUpdate, ReclaimKeep, PurgePCs
<1>3. \A i \in Jobs : DueMoves(i)
  BY <1>2, DueElse
<1>5. CASE UNCHANGED photo
  BY <1>3, <1>5, DueSameRows
<1>6. CASE ReclaimUpdate(j) \/ ReclaimKeep(j)
  <2>1. job[j].pc \in {"update", "keep"}
    BY <1>6 DEF ReclaimUpdate, ReclaimKeep
  <2>2. PICK p \in Photos : p = Cur(j)
    BY <2>1 DEF OriginalInv, JobSafe, ListingSafe, CurPCs, Todo
  <2>3. PICK row : /\ UpdateRow(p, row)
                   /\ \/ row = Reclaimed(photo[p], Seen(j))
                      \/ row = [photo[p] EXCEPT !.storagePath = LocalPath(Seen(j))]
    BY <1>6, <2>2 DEF ReclaimUpdate, ReclaimKeep
  <2>4. photo[p] \in Row
    BY <1>1 DEF TypeOK
  <2>5. row.platform = photo[p].platform /\ row.startedAt = photo[p].startedAt
    BY <2>3, <2>4 DEF Reclaimed, Row
  <2>6. \A q \in Photos : ClockKept(q)
    BY <1>1, <2>3, <2>5, ClockOfUpdate
  <2>7. QED
    BY <1>3, <2>6, DueOf
<1>7. QED
  BY <1>5, <1>6 DEF ReclaimStep, ReclaimNext, ReclaimDownload, ReclaimWrite, ReclaimDelete

LEMMA DuePurge ==
  ASSUME OriginalInv, DueInv, TimeGoesOn, NEW j \in Jobs, PurgeStep(j)
  PROVE  DueInv'
<1>1. TypeOK
  BY DEF OriginalInv
<1>2. CASE SweepListPurge(j)
  <2>1. job' = [job EXCEPT ![j] = [Idle EXCEPT !.pc = "purge", !.seen = Listing(PurgeListing)]]
    BY <1>2 DEF SweepListPurge
  <2>2. /\ job'[j].pc = "purge" /\ job'[j].seen = Listing(PurgeListing)
        /\ \A i \in Jobs \ {j} : job'[i] = job[i]
    <3>1. job'[j] = [Idle EXCEPT !.pc = "purge", !.seen = Listing(PurgeListing)]
      BY <1>1, <2>1 DEF TypeOK
    <3>2. job'[j].pc = "purge" /\ job'[j].seen = Listing(PurgeListing)
      BY <3>1 DEF Idle
    <3>3. QED
      BY <1>1, <2>1, <3>2, OthersUntouched
  <2>3. \A p \in Photos : job'[j].seen[p].state = "live" =>
          Live(p) /\ photo[p].platform /\ Aged(p, PurgeAfter)
    BY <2>2 DEF Listing, PurgeListing, NoRow
  <2>4. UNCHANGED photo
    BY <1>2 DEF SweepListPurge
  <2>5. \A i \in Jobs : DueMoves(i)
    BY <2>2, <2>3 DEF DueMoves
  <2>6. QED
    BY <2>4, <2>5, DueSameRows
<1>3. CASE PurgeDrive(j) \/ PurgeLocal(j)
  <2>1. UNCHANGED photo
    BY <1>3 DEF PurgeDrive, PurgeLocal
  <2>2. \A i \in Jobs : DueMoves(i)
    BY <1>1, <1>3, MovesOn, DueGoesOn DEF PurgeDrive, PurgeLocal, PurgePCs
  <2>3. QED
    BY <2>1, <2>2, DueSameRows
<1>4. CASE PurgeRow(j)
  <2>1. job[j].pc = "purgeRow" /\ NextPhoto(j, "purge") /\ UpdateRow(Cur(j), GoneRow)
    BY <1>4 DEF PurgeRow
  <2>2. \A i \in Jobs : DueMoves(i)
    BY <1>1, <2>1, MovesOn, DueGoesOn DEF PurgePCs
  <2>3. PICK p \in Photos : p = Cur(j)
    BY <2>1 DEF OriginalInv, JobSafe, ListingSafe, CurPCs, Todo
  <2>4. GoneRow.state # "live"
    BY DEF GoneRow, NoRow
  <2>5. \A q \in Photos : ClockKept(q)
    BY <1>1, <2>1, <2>3, <2>4, ClockOfUpdate
  <2>6. QED
    BY <1>1, <2>1, <2>2, <2>5, DueOf
<1>5. QED
  BY <1>2, <1>3, <1>4 DEF PurgeStep

LEMMA DueRetention ==
  ASSUME OriginalInv, DueInv, TimeGoesOn, NEW j \in Jobs, RetentionStep(j)
  PROVE  DueInv'
<1>1. TypeOK
  BY DEF OriginalInv
<1>2. job'[j].pc \notin PurgePCs /\ \A i \in Jobs \ {j} : job'[i] = job[i]
  BY <1>1, MovesOn DEF RetentionStep, StartRetention, ExpireFile, ExpireRow, PurgePCs
<1>3. \A i \in Jobs : DueMoves(i)
  BY <1>2, DueElse
<1>4. CASE StartRetention(j) \/ ExpireFile(j)
  BY <1>1, <1>3, <1>4, DueSameRows DEF StartRetention, ExpireFile
<1>5. CASE ExpireRow(j)
  <2>1. PICK p \in Photos : p = Cur(j)
    BY <1>5 DEF ExpireRow, OriginalInv, JobSafe, ListingSafe, CurPCs, Todo
  <2>2. PICK row : row = [photo[p] EXCEPT !.storagePath = "none"] /\ UpdateRow(p, row)
    BY <1>5, <2>1 DEF ExpireRow
  <2>3. photo[p] \in Row
    BY <1>1 DEF TypeOK
  <2>4. row.platform = photo[p].platform /\ row.startedAt = photo[p].startedAt
    BY <2>2, <2>3 DEF Row
  <2>5. \A q \in Photos : ClockKept(q)
    BY <1>1, <2>2, <2>4, ClockOfUpdate
  <2>6. QED
    BY <1>1, <1>3, <2>5, DueOf
<1>6. QED
  BY <1>4, <1>5 DEF RetentionStep

LEMMA DueDeletePhoto ==
  ASSUME OriginalInv, DueInv, TimeGoesOn, NEW j \in Jobs, DeletePhotoStep(j)
  PROVE  DueInv'
<1>1. TypeOK
  BY DEF OriginalInv
<1>2. CASE \E p \in Photos : StartDeletePhoto(j, p)
  <2>1. /\ job'[j].pc = "photoRow" /\ \A i \in Jobs \ {j} : job'[i] = job[i]
        /\ UNCHANGED photo
    BY <1>1, <1>2 DEF StartDeletePhoto, Idle, TypeOK
  <2>2. \A i \in Jobs : DueMoves(i)
    BY <2>1, DueElse DEF PurgePCs
  <2>3. QED
    BY <1>1, <2>1, <2>2, DueSameRows
<1>3. CASE DeletePhotoRow(j) \/ DeletePhotoFile(j)
  <2>1. job'[j].pc \notin PurgePCs /\ \A i \in Jobs \ {j} : job'[i] = job[i]
    BY <1>1, <1>3, MovesOn DEF DeletePhotoRow, DeletePhotoFile, PurgePCs
  <2>2. \A i \in Jobs : DueMoves(i)
    BY <2>1, DueElse
  <2>3. CASE DeletePhotoFile(j)
    BY <1>1, <2>2, <2>3, DueSameRows DEF DeletePhotoFile
  <2>4. CASE DeletePhotoRow(j)
    <3>1. PICK p \in Photos : p = Cur(j)
      BY <2>4 DEF DeletePhotoRow, OriginalInv, JobSafe, ListingSafe, CurPCs, Todo
    <3>2. UpdateRow(p, GoneRow) /\ GoneRow.state # "live"
      BY <2>4, <3>1 DEF DeletePhotoRow, GoneRow, NoRow
    <3>3. \A q \in Photos : ClockKept(q)
      BY <1>1, <3>2, ClockOfUpdate
    <3>4. QED
      BY <1>1, <2>2, <3>3, DueOf
  <2>5. QED
    BY <1>3, <2>3, <2>4
<1>4. QED
  BY <1>2, <1>3 DEF DeletePhotoStep

LEMMA DueDeleteEvent ==
  ASSUME OriginalInv, DueInv, TimeGoesOn, NEW j \in Jobs, DeleteEventStep(j)
  PROVE  DueInv'
<1>1. TypeOK
  BY DEF OriginalInv
<1>2. job'[j].pc \notin PurgePCs /\ \A i \in Jobs \ {j} : job'[i] = job[i]
  BY <1>1, MovesOn DEF DeleteEventStep, StartDeleteEvent, DeleteEventDrive, DeleteEventPhotos,
                       DeleteEventRow, DeleteEventDir, PurgePCs
<1>3. \A i \in Jobs : DueMoves(i)
  BY <1>2, DueElse
<1>4. photo' = photo \/ photo' = [p \in Photos |-> IF Live(p) THEN GoneRow ELSE photo[p]]
  BY DEF DeleteEventStep, StartDeleteEvent, DeleteEventDrive, DeleteEventPhotos,
         DeleteEventRow, DeleteEventDir
<1>5. \A q \in Photos : ClockKept(q)
  BY <1>4 DEF ClockKept, Live, GoneRow, NoRow
<1>6. QED
  BY <1>1, <1>3, <1>5, DueOf

LEMMA DueStart ==
  ASSUME OriginalInv, DueInv, TimeGoesOn, NEW j \in Jobs,
         StartReclaimNow(j) \/ StartBackupSweep(j) \/ EndJob(j)
  PROVE  DueInv'
<1>1. TypeOK /\ UNCHANGED photo
  BY DEF OriginalInv, StartReclaimNow, StartBackupSweep, EndJob
<1>2. job'[j].pc \notin PurgePCs /\ \A i \in Jobs \ {j} : job'[i] = job[i]
  BY <1>1, MovesOn DEF StartReclaimNow, StartBackupSweep, EndJob, PurgePCs
<1>3. QED
  BY <1>1, <1>2, DueElse, DueSameRows

LEMMA DueStep ==
  ASSUME OriginalInv, DueInv, [Next]_vars
  PROVE  DueInv'
<1>0. TimeGoesOn
  BY TimeStep DEF OriginalInv
<1>1. ASSUME NEW p \in Photos, Ingest(p) PROVE DueInv'
  BY <1>0, <1>1, DueIngest
<1>2. ASSUME NEW j \in BackupJobs, BackupStep(j) PROVE DueInv'
  BY <1>0, <1>2, DueBackup
<1>3. ASSUME NEW j \in Jobs, StartReclaimNow(j) \/ StartBackupSweep(j) \/ EndJob(j) PROVE DueInv'
  BY <1>0, <1>3, DueStart
<1>4. ASSUME NEW j \in Jobs, ReclaimStep(j) \/ PurgeStep(j) PROVE DueInv'
  BY <1>0, <1>4, DueReclaim, DuePurge
<1>5. ASSUME NEW j \in Jobs, RetentionStep(j) PROVE DueInv'
  BY <1>0, <1>5, DueRetention
<1>6. ASSUME NEW j \in Jobs, DeletePhotoStep(j) \/ DeleteEventStep(j) PROVE DueInv'
  BY <1>0, <1>6, DueDeletePhoto, DueDeleteEvent
<1>7. CASE Crash \/ (\E f \in Files : OwnerRemovesFile(f)) \/ Tick \/ UNCHANGED vars
  <2>1. \A p \in Photos : ClockKept(p)
    BY <1>7 DEF Crash, OwnerRemovesFile, Tick, vars, ClockKept, Live, GoneRow, NoRow
  <2>2. \A j \in Jobs : DueMoves(j)
    BY <1>7 DEF Crash, OwnerRemovesFile, Tick, vars, Idle, DueMoves, PurgePCs
  <2>3. QED
    BY <1>0, <2>1, <2>2, DueOf
<1>8. QED
  BY <1>1, <1>2, <1>3, <1>4, <1>5, <1>6, <1>7 DEF Next, Jobs

\* The property, for one step.
RowGoesWhenDue ==
  \A p \in Photos :
    Live(p) /\ ~Live(p)' =>
      \/ DueNow(p)
      \/ \E j \in Jobs : job[j].pc = "event" \/ (job[j].pc = "photoRow" /\ Cur(j) = p)

LEMMA DueProperty ==
  ASSUME OriginalInv, DueInv, [Next]_vars
  PROVE  RowGoesWhenDue
<1>0. TypeOK
  BY DEF OriginalInv
<1>1. ASSUME NEW p \in Photos, NEW row, UpdateRow(p, row), row.state = photo[p].state
      PROVE  \A q \in Photos : Live(q) => Live(q)'
  BY <1>0, <1>1 DEF UpdateRow, Live, TypeOK
<1>2. ASSUME NEW p \in Photos, UpdateRow(p, GoneRow)
      PROVE  \A q \in Photos \ {p} : photo'[q] = photo[q]
  BY <1>0, <1>2 DEF UpdateRow, TypeOK
<1>3. ASSUME NEW p \in Photos, Ingest(p) PROVE RowGoesWhenDue
  BY <1>0, <1>3 DEF Ingest, WriteOriginal, CaptureToDrive, CreateRow, Live, RowGoesWhenDue, TypeOK
<1>4. ASSUME NEW j \in Jobs, BackupRecord(j) \/ ReclaimUpdate(j) \/ ReclaimKeep(j) \/ ExpireRow(j)
      PROVE  RowGoesWhenDue
  <2>1. PICK p \in Photos : p = Cur(j)
    BY <1>4 DEF BackupRecord, ReclaimUpdate, ReclaimKeep, ExpireRow, OriginalInv, JobSafe,
                ListingSafe, CurPCs, Todo
  <2>2. photo[p] \in Row
    BY <1>0 DEF TypeOK
  <2>3. PICK row : /\ UpdateRow(p, row)
                   /\ \/ row = BackedUp(photo[p], job[j].file)
                      \/ row = Reclaimed(photo[p], Seen(j))
                      \/ \E path : row = [photo[p] EXCEPT !.storagePath = path]
    BY <1>4, <2>1 DEF BackupRecord, ReclaimUpdate, ReclaimKeep, ExpireRow
  <2>4. row.state = photo[p].state
    BY <2>2, <2>3 DEF BackedUp, Reclaimed, Row
  <2>5. QED
    BY <1>1, <2>3, <2>4 DEF RowGoesWhenDue
<1>5. ASSUME NEW j \in Jobs, PurgeRow(j) PROVE RowGoesWhenDue
  <2>1. job[j].pc = "purgeRow" /\ UpdateRow(Cur(j), GoneRow)
    BY <1>5 DEF PurgeRow
  <2>2. PICK p \in Photos : p = Cur(j) /\ p \in Todo(j)
    BY <2>1 DEF OriginalInv, JobSafe, ListingSafe, CurPCs, Todo
  <2>3. DueNow(p)
    BY <2>1, <2>2 DEF DueInv, DueSafe, PurgePCs
  <2>4. QED
    BY <1>2, <2>1, <2>2, <2>3 DEF RowGoesWhenDue, Live
<1>6. ASSUME NEW j \in Jobs, DeletePhotoRow(j) PROVE RowGoesWhenDue
  <2>1. job[j].pc = "photoRow" /\ UpdateRow(Cur(j), GoneRow)
    BY <1>6 DEF DeletePhotoRow
  <2>2. PICK p \in Photos : p = Cur(j)
    BY <2>1 DEF OriginalInv, JobSafe, ListingSafe, CurPCs, Todo
  <2>3. QED
    BY <1>2, <2>1, <2>2 DEF RowGoesWhenDue, Live
<1>7. ASSUME NEW j \in Jobs, DeleteEventPhotos(j) PROVE RowGoesWhenDue
  BY <1>7 DEF DeleteEventPhotos, RowGoesWhenDue
<1>8. CASE Crash
  BY <1>8 DEF Crash, RowGoesWhenDue, Live
<1>9. CASE UNCHANGED photo
  BY <1>9 DEF RowGoesWhenDue, Live
<1>10. ASSUME NEW j \in BackupJobs, BackupStep(j) PROVE BackupRecord(j) \/ UNCHANGED photo
  BY <1>10 DEF BackupStep, StartBackup, BackupRead, BackupUpload
<1>11. ASSUME NEW j \in Jobs, ReclaimStep(j) PROVE ReclaimUpdate(j) \/ ReclaimKeep(j) \/ UNCHANGED photo
  BY <1>11 DEF ReclaimStep, ReclaimNext, ReclaimDownload, ReclaimWrite, ReclaimDelete
<1>12. ASSUME NEW j \in Jobs, PurgeStep(j) PROVE PurgeRow(j) \/ UNCHANGED photo
  BY <1>12 DEF PurgeStep, SweepListPurge, PurgeDrive, PurgeLocal
<1>13. ASSUME NEW j \in Jobs, RetentionStep(j) PROVE ExpireRow(j) \/ UNCHANGED photo
  BY <1>13 DEF RetentionStep, StartRetention, ExpireFile
<1>14. ASSUME NEW j \in Jobs, DeletePhotoStep(j) PROVE DeletePhotoRow(j) \/ UNCHANGED photo
  BY <1>14 DEF DeletePhotoStep, StartDeletePhoto, DeletePhotoFile
<1>15. ASSUME NEW j \in Jobs, DeleteEventStep(j) PROVE DeleteEventPhotos(j) \/ UNCHANGED photo
  BY <1>15 DEF DeleteEventStep, StartDeleteEvent, DeleteEventDrive, DeleteEventRow, DeleteEventDir
<1>16. ASSUME NEW j \in Jobs, StartReclaimNow(j) \/ StartBackupSweep(j) \/ EndJob(j)
       PROVE  UNCHANGED photo
  BY <1>16 DEF StartReclaimNow, StartBackupSweep, EndJob
<1>17. ASSUME (\E f \in Files : OwnerRemovesFile(f)) \/ Tick \/ UNCHANGED vars PROVE UNCHANGED photo
  BY <1>17 DEF OwnerRemovesFile, Tick, vars
<1>18. QED
  BY <1>3, <1>4, <1>5, <1>6, <1>7, <1>8, <1>9, <1>10, <1>11, <1>12, <1>13, <1>14, <1>15, <1>16, <1>17
     DEF Next, Jobs

(* A photo row disappears only because a user deleted it or because the    *)
(* photo has been in Drive backup for more than seven days, also when the  *)
(* purge listed it long before, when other jobs reclaimed it or uploaded   *)
(* it again since, and whatever number of jobs there is: no step moves the *)
(* first day of a photo nor the clock of its row behind that day           *)
(* (runDriveBackupRetentionSweep).                                         *)
THEOREM RowsGoWhenDue == Spec => RowsGoOnlyWhenDue
<1>1. Init => DueInv
  BY DEF Init, DueInv, DueSafe, Clocked, Live, NoRow, Idle, PurgePCs, Never
<1>2. OriginalInv /\ DueInv /\ [Next]_vars => OriginalInv' /\ DueInv'
  BY OriginalStep, DueStep
<1>3. OriginalInv /\ DueInv /\ [Next]_vars =>
        [\A p \in Photos :
           Live(p) /\ ~Live(p)' =>
             \/ since[p] # Never /\ since[p] + PurgeAfter < today
             \/ \E j \in Jobs : job[j].pc = "event" \/ (job[j].pc = "photoRow" /\ Cur(j) = p)]_vars
  BY DueProperty DEF RowGoesWhenDue, DueNow
<1>4. QED
  BY <1>1, <1>2, <1>3, OriginalInit, PTL DEF Spec, RowsGoOnlyWhenDue

-----------------------------------------------------------------------------
(* The inductive invariant behind NoOrphanFile.                            *)

\* A reclaim has written a file of p that it is about to record.
Pulled(p) == \E j \in Jobs : Unrecorded(j, p)

\* Everybody who knows a path of p knows the only one its file can be under, and
\* who has unlinked it knows that there is none.
OnePath(p) ==
  /\ photo[p].state = "absent" => disk[p] = {}
  /\ photo[p].state \in {"pending", "live"} => disk[p] \subseteq {photo[p].storagePath}
  /\ \A k \in Jobs : p \in Todo(k) =>
       /\ disk[p] \subseteq {job[k].seen[p].storagePath}
       /\ job[k].pc \in {"purgeRow", "expireRow"} /\ Cur(k) = p => disk[p] = {}

\* What is left of a photo that is gone, or of an event, is about to be removed.
LeftToUnlink(p) ==
  /\ Gone(p) /\ disk[p] # {} => \E k \in Jobs : Unlinking(k, p)
  /\ ~eventRow /\ disk[p] # {} => \E k \in Jobs : job[k].pc = "eventDir"

Filed(p) == IF Pulled(p) THEN disk[p] \subseteq {"shoots"} ELSE OnePath(p) /\ LeftToUnlink(p)

\* An event has its photos; a reclaim pulls only what has no local copy.
Shape ==
  /\ ~eventRow => \A p \in Photos : ~Live(p)
  /\ \A j \in Jobs : job[j].pc \in {"download", "write"} => ~HasLocalCopy(Seen(j))

OrphanInv == Shape /\ (crashes = 0 => \A p \in Photos \ astray : Filed(p))

LEMMA OrphanInit == Init => OrphanInv
<1> SUFFICES ASSUME Init PROVE OrphanInv
  OBVIOUS
<1>1. \A j \in Jobs : job[j].pc = "idle" /\ job[j].seen = [p \in Photos |-> NoRow]
  BY DEF Init, Idle
<1>2. \A p \in Photos : ~Pulled(p) /\ disk[p] = {}
  BY <1>1 DEF Init, Pulled, Unrecorded
<1>3. eventRow
  BY DEF Init
<1>4. QED
  BY <1>1, <1>2, <1>3 DEF OrphanInv, Shape, Filed, OnePath, LeftToUnlink

-----------------------------------------------------------------------------
(* What a step may do to a photo without losing sight of its file.         *)

RecordPCs == {"delete", "update", "keep"}
RowPCs == {"purgeRow", "expireRow"}
UnlinkPCs == {"photoFile", "eventRow", "eventDir"}

\* p is on the list of job k as it was, or as its row is now.
ListKept(k, p) ==
  p \in Todo(k)' => \/ p \in Todo(k) /\ job'[k].seen[p] = job[k].seen[p]
                    \/ Live(p) /\ job'[k].seen[p] = photo[p]

\* To job k nothing happens that concerns the file of p.
Quiet(k, p) ==
  /\ ListKept(k, p)
  /\ Unrecorded(k, p)' <=> Unrecorded(k, p)
  /\ Unlinking(k, p) => Unlinking(k, p)'
  /\ job[k].pc = "eventDir" => job'[k].pc = "eventDir"
  /\ job'[k].pc \in RowPCs /\ Cur(k)' = p =>
       \/ job'[k] = job[k]
       \/ disk'[p] = {}

LEMMA QuietSame ==
  ASSUME NEW k \in Jobs, NEW p \in Photos, job'[k] = job[k]
  PROVE  Quiet(k, p)
<1>1. Todo(k)' = Todo(k) /\ Cur(k)' = Cur(k) /\ Seen(k)' = Seen(k)
  BY DEF Todo, Cur, Seen
<1>2. Unrecorded(k, p)' <=> Unrecorded(k, p)
  BY <1>1 DEF Unrecorded, HasLocalCopy
<1>3. QED
  BY <1>1, <1>2 DEF Quiet, ListKept, Unlinking

LEMMA QuietOf ==
  ASSUME NEW j \in Jobs, NEW p \in Photos, ListKept(j, p),
         job[j].pc \notin RecordPCs \cup UnlinkPCs,
         job'[j].pc \notin RecordPCs \cup RowPCs
  PROVE  Quiet(j, p)
BY DEF Quiet, Unrecorded, Unlinking, RecordPCs, RowPCs, UnlinkPCs

LEMMA PulledOn ==
  ASSUME NEW p \in Photos, \A k \in Jobs : Unrecorded(k, p)' <=> Unrecorded(k, p)
  PROVE  Pulled(p)' <=> Pulled(p)
BY DEF Pulled

\* The file of p, if any, stays under the path it had.
LEMMA FiledOn ==
  ASSUME NEW p \in Photos, Filed(p), disk'[p] \subseteq disk[p], eventRow' = eventRow,
         photo'[p].state = photo[p].state, photo'[p].storagePath = photo[p].storagePath,
         \A k \in Jobs : Quiet(k, p)
  PROVE  Filed(p)'
<1>1. Pulled(p)' <=> Pulled(p)
  BY PulledOn DEF Quiet
<1>2. CASE Pulled(p)
  BY <1>1, <1>2 DEF Filed
<1>3. CASE ~Pulled(p)
  <2>1. OnePath(p) /\ LeftToUnlink(p)
    BY <1>3 DEF Filed
  <2>2. ASSUME NEW k \in Jobs, p \in Todo(k)'
        PROVE  /\ disk'[p] \subseteq {job'[k].seen[p].storagePath}
               /\ job'[k].pc \in {"purgeRow", "expireRow"} /\ Cur(k)' = p => disk'[p] = {}
    <3>1. disk'[p] \subseteq {job'[k].seen[p].storagePath}
      BY <2>1, <2>2 DEF Quiet, ListKept, OnePath, Live
    <3>2. ASSUME job'[k] = job[k], job[k].pc \in {"purgeRow", "expireRow"}, Cur(k)' = p
          PROVE  disk'[p] = {}
      BY <2>1, <2>2, <3>2 DEF OnePath, Todo, Cur
    <3>3. QED
      BY <3>1, <3>2 DEF Quiet, RowPCs
  <2>3. OnePath(p)'
    BY <2>1, <2>2 DEF OnePath
  <2>4. LeftToUnlink(p)'
    BY <2>1 DEF LeftToUnlink, Gone, Quiet
  <2>5. QED
    BY <1>1, <1>3, <2>3, <2>4 DEF Filed
<1>4. QED
  BY <1>2, <1>3

\* A reclaim is still to record its file of p.
LEMMA FiledPulled ==
  ASSUME NEW p \in Photos, Filed(p), Pulled(p), Pulled(p)', disk'[p] \subseteq disk[p]
  PROVE  Filed(p)'
BY DEF Filed

\* No file of p, and no reclaim to write one.
LEMMA FiledEmpty ==
  ASSUME NEW p \in Photos, disk'[p] = {}
  PROVE  Filed(p)'
BY DEF Filed, OnePath, LeftToUnlink

\* Where the ways of moving on leave the list of a job.
LEMMA ListsOn ==
  ASSUME TypeOK, NEW j \in Jobs,
         \/ \E pc : Goto(j, pc)
         \/ \E pc : NextPhoto(j, pc)
         \/ \E p, from, to : Take(j, p, from, to)
         \/ \E p : Skip(j, p)
         \/ Finish(j)
         \/ \E S, pc : Start(j, S, pc)
  PROVE  \A p \in Photos : ListKept(j, p)
<1>1. job[j].seen \in [Photos -> Row] /\ NoRow.state # "live"
  BY JobFields DEF NoRow
<1>2. CASE \E S, pc : Start(j, S, pc)
  <2>1. PICK S, pc : Start(j, S, pc)
    BY <1>2
  <2>2. job'[j].seen = Listing(S)
    BY <2>1, MovesOn
  <2>3. QED
    BY <1>1, <2>2 DEF ListKept, Todo, Listing, Live
<1>3. CASE Finish(j)
  <2>1. job'[j] = Idle
    BY <1>3 DEF Finish, TypeOK
  <2>2. \A p \in Photos : job'[j].seen[p].state # "live"
    BY <1>1, <2>1 DEF Idle
  <2>3. QED
    BY <2>2 DEF ListKept, Todo
<1>4. CASE \/ \E pc : Goto(j, pc)
           \/ \E pc : NextPhoto(j, pc)
           \/ \E p, from, to : Take(j, p, from, to)
           \/ \E p : Skip(j, p)
  <2>1. \/ job'[j].seen = job[j].seen
        \/ \E p : job'[j].seen = [job[j].seen EXCEPT ![p] = NoRow]
    <3>1. ASSUME NEW pc, Goto(j, pc) PROVE job'[j].seen = job[j].seen
      BY <3>1 DEF Goto, TypeOK, Job
    <3>2. ASSUME NEW pc, NextPhoto(j, pc)
          PROVE  job'[j].seen = [job[j].seen EXCEPT ![job[j].cur] = NoRow]
      BY <3>2 DEF NextPhoto, TypeOK
    <3>3. ASSUME NEW p, NEW from, NEW to, Take(j, p, from, to) PROVE job'[j].seen = job[j].seen
      BY <3>3 DEF Take, TypeOK, Job
    <3>4. ASSUME NEW p, Skip(j, p) PROVE job'[j].seen = [job[j].seen EXCEPT ![p] = NoRow]
      BY <3>4 DEF Skip, TypeOK, Job
    <3>5. QED
      BY <1>4, <3>1, <3>2, <3>3, <3>4
  <2>2. QED
    BY <1>1, <2>1 DEF ListKept, Todo
<1>5. QED
  BY <1>2, <1>3, <1>4
\* Where a step leaves its job.
LEMMA JobMoves ==
  ASSUME TypeOK, NEW j \in Jobs
  PROVE  /\ \A pc : Goto(j, pc) => job'[j].pc = pc /\ job'[j].seen = job[j].seen /\ job'[j].cur = job[j].cur
         /\ \A pc : NextPhoto(j, pc) =>
              /\ job'[j].pc = pc
              /\ \A p \in Photos : job'[j].seen[p] = IF p = job[j].cur THEN NoRow ELSE job[j].seen[p]
         /\ \A p \in Photos : \A from, to : Take(j, p, from, to) =>
              /\ job[j].pc = from /\ job'[j].pc = to /\ job'[j].seen = job[j].seen /\ job'[j].cur = p
              /\ p \in Todo(j)
<1>1. ASSUME NEW pc, Goto(j, pc)
      PROVE  job'[j].pc = pc /\ job'[j].seen = job[j].seen /\ job'[j].cur = job[j].cur
  BY <1>1 DEF Goto, TypeOK, Job
<1>2. ASSUME NEW pc, NextPhoto(j, pc)
      PROVE  /\ job'[j].pc = pc
             /\ \A p \in Photos : job'[j].seen[p] = IF p = job[j].cur THEN NoRow ELSE job[j].seen[p]
  <2>1. /\ job'[j].pc = pc
        /\ job'[j].seen = [job[j].seen EXCEPT ![job[j].cur] = NoRow]
    BY <1>2 DEF NextPhoto, TypeOK
  <2>2. QED
    BY <2>1, JobFields
<1>3. ASSUME NEW p \in Photos, NEW from, NEW to, Take(j, p, from, to)
      PROVE  /\ job[j].pc = from /\ job'[j].pc = to /\ job'[j].seen = job[j].seen /\ job'[j].cur = p
             /\ p \in Todo(j)
  BY <1>3 DEF Take, TypeOK, Job
<1>4. QED
  BY <1>1, <1>2, <1>3

\* A step of job j that leaves every row its state and its path.
LEMMA FiledJob ==
  ASSUME NEW j \in Jobs, NEW p \in Photos, Filed(p), Quiet(j, p),
         \A k \in Jobs \ {j} : job'[k] = job[k],
         disk'[p] \subseteq disk[p], eventRow' = eventRow,
         photo'[p].state = photo[p].state, photo'[p].storagePath = photo[p].storagePath
  PROVE  Filed(p)'
<1>1. \A k \in Jobs : Quiet(k, p)
  BY QuietSame
<1>2. QED
  BY <1>1, FiledOn

\* The rows an update leaves their state and their path.
LEMMA PathKept ==
  ASSUME TypeOK, NEW q \in Photos, NEW row, UpdateRow(q, row),
         row.state = photo[q].state, row.storagePath = photo[q].storagePath, NEW p \in Photos
  PROVE  photo'[p].state = photo[p].state /\ photo'[p].storagePath = photo[p].storagePath
BY DEF UpdateRow, TypeOK

LEMMA FiledIngest ==
  ASSUME OriginalInv, Shape, NEW p \in Photos, Filed(p), NEW q \in Photos, Ingest(q)
  PROVE  Filed(p)'
<1>1. TypeOK /\ job' = job /\ eventRow' = eventRow
  BY DEF OriginalInv, Ingest, WriteOriginal, CaptureToDrive, CreateRow
<1>2. \A k \in Jobs : Quiet(k, p)
  BY <1>1, QuietSame
<1>3. CASE p # q
  <2>1. photo'[p] = photo[p] /\ disk'[p] = disk[p]
    BY <1>1, <1>3 DEF Ingest, WriteOriginal, CaptureToDrive, CreateRow, TypeOK
  <2>2. QED
    BY <1>1, <1>2, <2>1, FiledOn
<1>4. CASE p = q
  <2>1. photo[p].state \in {"absent", "pending"}
    BY <1>4 DEF Ingest, WriteOriginal, CaptureToDrive, CreateRow
  <2>2. \A k \in Jobs : p \notin Todo(k) /\ ~Unrecorded(k, p)
    BY <2>1 DEF OriginalInv, JobSafe, ListingSafe, Unrecorded, CurPCs
  <2>3. ~Pulled(p) /\ ~Pulled(p)'
    BY <1>2, <2>2, PulledOn DEF Pulled, Quiet
  <2>4. OnePath(p) /\ LeftToUnlink(p)
    BY <2>3 DEF Filed
  <2>5. \A k \in Jobs : p \notin Todo(k)'
    BY <1>1, <2>2 DEF Todo
  <2>6. CASE WriteOriginal(q)
    <3>1. PICK path \in Paths : /\ disk' = [disk EXCEPT ![p] = @ \cup {path}]
                                /\ photo' = [photo EXCEPT ![p] = LocalRow(path)]
      BY <1>4, <2>6 DEF WriteOriginal
    <3>2. disk'[p] = {path} /\ eventRow
      BY <1>1, <1>4, <2>4, <2>6, <3>1 DEF OnePath, WriteOriginal, TypeOK
    <3>3. photo'[p].state = "pending" /\ photo'[p].storagePath = path
      <4>1. photo'[p] = LocalRow(path)
        BY <1>1, <3>1 DEF TypeOK
      <4>2. LocalRow(path).state = "pending" /\ LocalRow(path).storagePath = path
        BY DEF LocalRow, NoRow
      <4>3. QED
        BY <4>1, <4>2
    <3>4. OnePath(p)' /\ LeftToUnlink(p)'
      BY <1>1, <2>5, <3>2, <3>3 DEF OnePath, LeftToUnlink, Gone
    <3>5. QED
      BY <2>3, <3>4 DEF Filed
  <2>7. CASE CaptureToDrive(q)
    <3>1. disk'[p] = {}
      BY <1>4, <2>4, <2>7 DEF OnePath, CaptureToDrive
    <3>2. QED
      BY <3>1, FiledEmpty
  <2>8. CASE CreateRow(q)
    <3>1. photo[p] \in Row /\ disk' = disk /\ photo[p].state = "pending"
      BY <1>1, <1>4, <2>8 DEF CreateRow, TypeOK
    <3>2. CASE eventRow
      <4>1. photo'[p] = Inserted(photo[p])
        BY <1>1, <1>4, <2>8, <3>2 DEF CreateRow, TypeOK
      <4>2. photo'[p].state = "live" /\ photo'[p].storagePath = photo[p].storagePath
        BY <3>1, <4>1 DEF Inserted, Row
      <4>3. OnePath(p)' /\ LeftToUnlink(p)'
        BY <1>1, <2>4, <2>5, <3>1, <3>2, <4>2 DEF OnePath, LeftToUnlink, Gone
      <4>4. QED
        BY <2>3, <4>3 DEF Filed
    <3>3. CASE ~eventRow
      <4>1. photo'[p] = GoneRow
        BY <1>1, <1>4, <2>8, <3>3 DEF CreateRow, TypeOK
      <4>2. photo'[p].state = "gone"
        BY <4>1 DEF GoneRow, NoRow
      <4>3. disk'[p] # {} => \E k \in Jobs : job'[k].pc = "eventDir"
        BY <1>1, <2>4, <3>1, <3>3 DEF LeftToUnlink
      <4>4. LeftToUnlink(p)'
        BY <4>3 DEF LeftToUnlink, Unlinking
      <4>5. OnePath(p)'
        BY <2>5, <4>2 DEF OnePath
      <4>6. QED
        BY <2>3, <4>4, <4>5 DEF Filed
    <3>4. QED
      BY <3>2, <3>3
  <2>9. QED
    BY <2>6, <2>7, <2>8 DEF Ingest
<1>5. QED
  BY <1>3, <1>4

\* Backups, and whatever only makes a list or gives one up, leave files and paths.
LEMMA FiledBackup ==
  ASSUME OriginalInv, NEW p \in Photos, Filed(p), NEW j \in BackupJobs, BackupStep(j)
  PROVE  Filed(p)'
<1> j \in Jobs
  BY DEF Jobs
<1>1. TypeOK /\ UNCHANGED <<disk, eventRow>>
  BY DEF OriginalInv, BackupStep, StartBackup, BackupRead, BackupUpload, BackupRecord
<1>2. /\ \A k \in Jobs \ {j} : job'[k] = job[k]
      /\ ListKept(j, p)
      /\ job[j].pc \in {"idle", "backup", "upload", "record"}
      /\ job'[j].pc \in {"backup", "upload", "record"}
  <2>1. CASE \E f \in Files : /\ job' = [job EXCEPT ![j].pc = "record", ![j].file = f]
                              /\ job[j].pc = "upload"
    <3>1. PICK f \in Files : job' = [job EXCEPT ![j].pc = "record", ![j].file = f]
      BY <2>1
    <3>2. /\ \A k \in Jobs \ {j} : job'[k] = job[k]
          /\ job'[j].seen = job[j].seen /\ job'[j].pc = "record"
      BY <1>1, <3>1 DEF TypeOK, Job
    <3>3. QED
      BY <2>1, <3>2 DEF ListKept, Todo
  <2>2. CASE StartBackup(j) \/ BackupRead(j) \/ BackupRecord(j)
             \/ (job[j].pc = "upload" /\ NextPhoto(j, "backup"))
    <3>1. CASE StartBackup(j)
      BY <1>1, <3>1, MovesOn, ListsOn DEF StartBackup
    <3>2. CASE BackupRead(j)
      BY <1>1, <3>2, MovesOn, ListsOn DEF BackupRead
    <3>3. CASE BackupRecord(j) \/ (job[j].pc = "upload" /\ NextPhoto(j, "backup"))
      BY <1>1, <3>3, MovesOn, ListsOn DEF BackupRecord
    <3>4. QED
      BY <2>2, <3>1, <3>2, <3>3
  <2>3. QED
    BY <2>1, <2>2 DEF BackupStep, BackupUpload
<1>3. Quiet(j, p)
  BY <1>2, QuietOf DEF RecordPCs, RowPCs, UnlinkPCs
<1>4. photo'[p].state = photo[p].state /\ photo'[p].storagePath = photo[p].storagePath
  <2>1. CASE UNCHANGED photo
    BY <2>1
  <2>2. CASE BackupRecord(j)
    <3>1. job[j].pc = "record" /\ UpdateRow(Cur(j), BackedUp(photo[Cur(j)], job[j].file))
      BY <2>2 DEF BackupRecord
    <3>2. PICK q \in Photos : q = Cur(j)
      BY <3>1 DEF OriginalInv, JobSafe, ListingSafe, CurPCs, Todo
    <3>3. photo[q] \in Row
      BY <1>1 DEF TypeOK
    <3>4. /\ BackedUp(photo[q], job[j].file).state = photo[q].state
          /\ BackedUp(photo[q], job[j].file).storagePath = photo[q].storagePath
      BY <3>3 DEF BackedUp, Row
    <3>5. QED
      BY <1>1, <3>1, <3>2, <3>4, PathKept
  <2>3. QED
    BY <2>1, <2>2 DEF BackupStep, StartBackup, BackupRead, BackupUpload
<1>5. QED
  BY <1>1, <1>2, <1>3, <1>4, FiledJob

LEMMA FiledPlain ==
  ASSUME OriginalInv, NEW p \in Photos, Filed(p), NEW j \in Jobs,
         \/ StartReclaimNow(j) \/ StartBackupSweep(j) \/ SweepListPurge(j) \/ PurgeDrive(j)
         \/ StartRetention(j) \/ (\E q \in Photos : StartDeletePhoto(j, q))
         \/ StartDeleteEvent(j) \/ DeleteEventDrive(j) \/ EndJob(j)
  PROVE  Filed(p)'
<1>1. TypeOK /\ UNCHANGED <<photo, disk, eventRow>>
  BY DEF OriginalInv, StartReclaimNow, StartBackupSweep, SweepListPurge, PurgeDrive,
         StartRetention, StartDeletePhoto, StartDeleteEvent, DeleteEventDrive, EndJob
<1>2. /\ \A k \in Jobs \ {j} : job'[k] = job[k]
      /\ ListKept(j, p)
      /\ job[j].pc \in {"idle", "backup", "reclaim", "purge", "expire", "event"}
      /\ job'[j].pc \in {"idle", "reclaim", "purge", "purgeLocal", "expire", "photoRow", "event"}
  <2>1. CASE StartReclaimNow(j) \/ StartBackupSweep(j) \/ StartRetention(j) \/ StartDeleteEvent(j)
    BY <1>1, <2>1, MovesOn, ListsOn DEF StartReclaimNow, StartBackupSweep, StartRetention,
       StartDeleteEvent
  <2>2. CASE PurgeDrive(j) \/ DeleteEventDrive(j) \/ EndJob(j)
    BY <1>1, <2>2, MovesOn, ListsOn DEF PurgeDrive, DeleteEventDrive, EndJob
  <2>3. ASSUME NEW S, NEW c, NEW pc, job' = [job EXCEPT ![j] = [Idle EXCEPT !.pc = pc, !.cur = c,
                                                                     !.seen = Listing(S)]]
        PROVE  /\ \A k \in Jobs \ {j} : job'[k] = job[k]
               /\ job'[j].pc = pc /\ ListKept(j, p)
    <3>1. job'[j].pc = pc /\ job'[j].seen = Listing(S)
      BY <1>1, <2>3 DEF TypeOK, Idle
    <3>2. QED
      BY <1>1, <2>3, <3>1 DEF TypeOK, ListKept, Todo, Listing, NoRow, Live
  <2>4. CASE \E q \in Photos : StartDeletePhoto(j, q)
    <3>1. PICK q \in Photos : StartDeletePhoto(j, q)
      BY <2>4
    <3>2. job' = [job EXCEPT ![j] = [Idle EXCEPT !.pc = "photoRow", !.cur = q,
                                                 !.seen = Listing({q})]]
      BY <3>1 DEF StartDeletePhoto
    <3>3. job[j].pc = "idle"
      BY <3>1 DEF StartDeletePhoto
    <3>4. QED
      BY <2>3, <3>2, <3>3
  <2>5. CASE SweepListPurge(j)
    <3>1. job' = [job EXCEPT ![j] = [Idle EXCEPT !.pc = "purge", !.seen = Listing(PurgeListing)]]
      BY <2>5 DEF SweepListPurge
    <3>2. job'[j].pc = "purge" /\ job'[j].seen = Listing(PurgeListing)
      BY <1>1, <3>1 DEF TypeOK, Idle
    <3>3. QED
      BY <1>1, <2>5, <3>1, <3>2 DEF SweepListPurge, TypeOK, ListKept, Todo, Listing, NoRow, Live
  <2>6. QED
    BY <2>1, <2>2, <2>4, <2>5
<1>3. Quiet(j, p)
  BY <1>2, QuietOf DEF RecordPCs, RowPCs, UnlinkPCs
<1>4. QED
  BY <1>1, <1>2, <1>3, FiledJob

\* Until it has written, a reclaim has nothing to record.
LEMMA FiledReclaimStart ==
  ASSUME OriginalInv, NEW p \in Photos, Filed(p), NEW j \in Jobs,
         ReclaimNext(j) \/ ReclaimDownload(j)
  PROVE  Filed(p)'
<1>1. TypeOK /\ UNCHANGED <<photo, disk, eventRow>>
  BY DEF OriginalInv, ReclaimNext, ReclaimDownload
<1>2. (\A k \in Jobs \ {j} : job'[k] = job[k]) /\ ListKept(j, p)
  BY <1>1, MovesOn, ListsOn DEF ReclaimNext, ReclaimDownload
<1>3. CASE ReclaimNext(j)
  <2>1. PICK q \in Photos :
          Take(j, q, "reclaim", IF HasLocalCopy(job[j].seen[q]) THEN "delete" ELSE "download")
    BY <1>3 DEF ReclaimNext
  <2>2. /\ job[j].pc = "reclaim" /\ job'[j].seen = job[j].seen /\ job'[j].cur = q
        /\ job'[j].pc = IF HasLocalCopy(job[j].seen[q]) THEN "delete" ELSE "download"
    BY <1>1, <2>1, JobMoves
  <2>3. Seen(j)' = job[j].seen[q]
    BY <2>2 DEF Seen
  <2>4. ~Unrecorded(j, p)'
    BY <2>2, <2>3 DEF Unrecorded, HasLocalCopy
  <2>5. Quiet(j, p)
    BY <1>2, <2>2, <2>4 DEF Quiet, Unrecorded, Unlinking, RowPCs
  <2>6. QED
    BY <1>1, <1>2, <2>5, FiledJob
<1>4. CASE ReclaimDownload(j)
  <2>1. job[j].pc = "download" /\ job'[j].pc \in {"write", "reclaim"}
    BY <1>1, <1>4, MovesOn DEF ReclaimDownload
  <2>2. Quiet(j, p)
    BY <1>2, <2>1, QuietOf DEF RecordPCs, RowPCs, UnlinkPCs
  <2>3. QED
    BY <1>1, <1>2, <2>2, FiledJob
<1>5. QED
  BY <1>3, <1>4

\* The path a reclaim writes to is the only one there is, as the list had none.
LEMMA FiledReclaimWrite ==
  ASSUME OriginalInv, Shape, NEW p \in Photos, Filed(p), NEW j \in Jobs, ReclaimWrite(j)
  PROVE  Filed(p)'
<1>1. /\ TypeOK /\ job[j].pc = "write" /\ Goto(j, "delete") /\ UNCHANGED <<photo, eventRow>>
      /\ disk' = [disk EXCEPT ![Cur(j)] = @ \cup {"shoots"}]
  BY DEF OriginalInv, ReclaimWrite
<1>2. /\ job'[j].pc = "delete" /\ job'[j].seen = job[j].seen /\ job'[j].cur = job[j].cur
      /\ (\A k \in Jobs \ {j} : job'[k] = job[k]) /\ ListKept(j, p)
  BY <1>1, JobMoves, MovesOn, ListsOn
<1>3. CASE p # Cur(j)
  <2>1. disk'[p] = disk[p]
    BY <1>1, <1>3 DEF TypeOK
  <2>2. ~Unrecorded(j, p) /\ ~Unrecorded(j, p)'
    BY <1>2, <1>3 DEF Unrecorded, Cur
  <2>3. Quiet(j, p)
    BY <1>1, <1>2, <2>2 DEF Quiet, Unlinking, RowPCs
  <2>4. QED
    BY <1>1, <1>2, <2>1, <2>3, FiledJob
<1>4. CASE p = Cur(j)
  <2>1. ~HasLocalCopy(Seen(j)) /\ Seen(j)' = Seen(j)
    BY <1>1, <1>2 DEF Shape, Seen
  <2>2. Unrecorded(j, p)'
    BY <1>2, <1>4, <2>1 DEF Unrecorded, Cur, HasLocalCopy
  <2>3. disk[p] \subseteq {"shoots"}
    <3>1. CASE ~Pulled(p)
      <4>1. p \in Todo(j)
        BY <1>1, <1>4 DEF OriginalInv, JobSafe, ListingSafe, CurPCs
      <4>2. disk[p] \subseteq {"none"}
        BY <1>4, <2>1, <3>1, <4>1 DEF Filed, OnePath, HasLocalCopy, Seen, Cur
      <4>3. "none" \notin disk[p]
        BY <1>1 DEF TypeOK, Paths
      <4>4. QED
        BY <4>2, <4>3
    <3>2. QED
      BY <3>1 DEF Filed
  <2>4. disk'[p] \subseteq {"shoots"}
    BY <1>1, <1>4, <2>3 DEF TypeOK
  <2>5. QED
    BY <2>2, <2>4 DEF Filed, Pulled
<1>5. QED
  BY <1>3, <1>4

LEMMA FiledReclaimDelete ==
  ASSUME OriginalInv, NEW p \in Photos, Filed(p), NEW j \in Jobs, ReclaimDelete(j)
  PROVE  Filed(p)'
<1>1. TypeOK /\ job[j].pc = "delete" /\ UNCHANGED <<photo, disk, eventRow>>
  BY DEF OriginalInv, ReclaimDelete
<1>2. (\A k \in Jobs \ {j} : job'[k] = job[k]) /\ ListKept(j, p)
  BY <1>1, MovesOn, ListsOn DEF ReclaimDelete
<1>3. CASE \E pc \in {"update", "keep"} : Goto(j, pc)
  <2>1. /\ job'[j].pc \in {"update", "keep"}
        /\ job'[j].seen = job[j].seen /\ job'[j].cur = job[j].cur
    BY <1>1, <1>3, JobMoves
  <2>2. Cur(j)' = Cur(j) /\ Seen(j)' = Seen(j)
    BY <2>1 DEF Cur, Seen
  <2>3. Unrecorded(j, p)' <=> Unrecorded(j, p)
    BY <1>1, <2>1, <2>2 DEF Unrecorded, HasLocalCopy
  <2>4. Quiet(j, p)
    BY <1>1, <1>2, <2>1, <2>3 DEF Quiet, Unlinking, RowPCs
  <2>5. QED
    BY <1>1, <1>2, <2>4, FiledJob
<1>4. CASE HasLocalCopy(Seen(j)) /\ NextPhoto(j, "reclaim")
  <2>1. job'[j].pc = "reclaim"
    BY <1>1, <1>4, MovesOn
  <2>2. ~Unrecorded(j, p) /\ ~Unrecorded(j, p)'
    BY <1>4, <2>1 DEF Unrecorded
  <2>3. Quiet(j, p)
    BY <1>1, <1>2, <2>1, <2>2 DEF Quiet, Unlinking, RowPCs
  <2>4. QED
    BY <1>1, <1>2, <2>3, FiledJob
<1>5. QED
  BY <1>3, <1>4 DEF ReclaimDelete

\* The reclaim records its file: in the row of a photo nobody else has listed, or
\* the photo goes astray.
LEMMA FiledReclaimRecord ==
  ASSUME OriginalInv, Shape, NEW p \in Photos, Filed(p), NEW j \in Jobs,
         ReclaimUpdate(j) \/ ReclaimKeep(j), p \notin astray'
  PROVE  Filed(p)'
<1>1. /\ TypeOK /\ job[j].pc \in {"update", "keep"} /\ NextPhoto(j, "reclaim")
      /\ UNCHANGED <<disk, eventRow>>
      /\ p \notin Strays(j)
  BY DEF OriginalInv, ReclaimUpdate, ReclaimKeep
<1>2. /\ job'[j].pc = "reclaim" /\ ListKept(j, p)
      /\ \A k \in Jobs \ {j} : job'[k] = job[k]
      /\ \A q \in Photos : job'[j].seen[q] = IF q = job[j].cur THEN NoRow ELSE job[j].seen[q]
  <2>1. /\ job'[j].pc = "reclaim"
        /\ \A k \in Jobs \ {j} : job'[k] = job[k]
    BY <1>1, MovesOn
  <2>2. ListKept(j, p)
    BY <1>1, ListsOn
  <2>3. \A q \in Photos : job'[j].seen[q] = IF q = job[j].cur THEN NoRow ELSE job[j].seen[q]
    BY <1>1, JobMoves
  <2>4. QED
    BY <2>1, <2>2, <2>3
<1>3. PICK q \in Photos : q = Cur(j) /\ q \in Todo(j)
  BY <1>1 DEF OriginalInv, JobSafe, ListingSafe, CurPCs, Todo
<1>4. PICK row : /\ UpdateRow(q, row)
                 /\ \/ row = Reclaimed(photo[q], Seen(j))
                    \/ row = [photo[q] EXCEPT !.storagePath = LocalPath(Seen(j))]
  BY <1>3 DEF ReclaimUpdate, ReclaimKeep
<1>5. row.state = photo[q].state /\ row.storagePath = LocalPath(Seen(j))
  <2>1. photo[q] \in Row
    BY <1>1 DEF TypeOK
  <2>2. QED
    BY <1>4, <2>1 DEF Reclaimed, Row
<1>6. ~Unrecorded(j, p)'
  BY <1>2 DEF Unrecorded
<1>7. CASE ~Unrecorded(j, p) /\ (p # q \/ ~Live(q) \/ Pulled(p))
  <2>1. Quiet(j, p)
    BY <1>1, <1>2, <1>6, <1>7 DEF Quiet, Unlinking, RowPCs
  <2>2. CASE Pulled(p)
    <3>1. \A k \in Jobs : Quiet(k, p)
      BY <1>2, <2>1, QuietSame
    <3>2. Pulled(p)'
      BY <2>2, <3>1, PulledOn DEF Quiet
    <3>3. QED
      BY <1>1, <2>2, <3>2, FiledPulled
  <2>3. CASE p # q \/ ~Live(q)
    <3>1. photo'[p] = photo[p]
      BY <1>1, <1>4, <2>3 DEF UpdateRow, TypeOK
    <3>2. QED
      BY <1>1, <1>2, <2>1, <3>1, FiledJob
  <2>4. QED
    BY <1>7, <2>2, <2>3
<1>8. CASE ~Unrecorded(j, p) /\ p = q /\ Live(q) /\ ~Pulled(p)
  <2>1. OnePath(p) /\ LeftToUnlink(p) /\ photo'[p] = row
    BY <1>1, <1>4, <1>8 DEF Filed, UpdateRow, TypeOK
  <2>2. disk[p] \subseteq {job[j].seen[p].storagePath}
    BY <1>3, <1>8, <2>1 DEF OnePath
  <2>3. disk'[p] \subseteq {photo'[p].storagePath}
    <3>1. HasLocalCopy(Seen(j))
      BY <1>1, <1>3, <1>8 DEF Unrecorded
    <3>2. LocalPath(Seen(j)) = job[j].seen[p].storagePath
      BY <1>3, <1>8, <3>1 DEF HasLocalCopy, LocalPath, Seen, Cur
    <3>3. QED
      BY <1>1, <1>5, <2>1, <2>2, <3>2
  <2>4. Quiet(j, p)
    BY <1>1, <1>2, <1>6, <1>8 DEF Quiet, Unlinking, RowPCs
  <2>5. \A k \in Jobs : Quiet(k, p)
    BY <1>2, <2>4, QuietSame
  <2>6. ~Pulled(p)'
    BY <1>8, <2>5, PulledOn DEF Quiet
  <2>7. photo'[p].state = "live" /\ eventRow
    BY <1>5, <1>8, <2>1 DEF Shape, Live
  <2>8. p \notin Todo(j)'
    BY <1>2, <1>3, <1>8 DEF Todo, NoRow, Cur
  <2>9. ASSUME NEW k \in Jobs, p \in Todo(k)'
        PROVE  /\ disk'[p] \subseteq {job'[k].seen[p].storagePath}
               /\ job'[k].pc \in {"purgeRow", "expireRow"} /\ Cur(k)' = p => disk'[p] = {}
    <3>1. job'[k] = job[k] /\ p \in Todo(k)
      BY <1>2, <2>8, <2>9 DEF Todo
    <3>2. QED
      BY <1>1, <2>1, <3>1 DEF OnePath, Cur
  <2>10. OnePath(p)' /\ LeftToUnlink(p)'
    BY <1>1, <2>3, <2>7, <2>9 DEF OnePath, LeftToUnlink, Gone
  <2>11. QED
    BY <2>6, <2>10 DEF Filed
<1>9. CASE Unrecorded(j, p)
  <2>1. p = q /\ ~HasLocalCopy(Seen(j))
    BY <1>3, <1>9 DEF Unrecorded
  <2>2. Live(p) /\ \A k \in Jobs \ {j} : p \notin Todo(k)
    BY <1>1, <1>9 DEF Strays
  <2>3. disk[p] \subseteq {"shoots"}
    BY <1>9 DEF Filed, Pulled
  <2>4. photo'[p] = row
    BY <1>1, <1>4, <2>1, <2>2 DEF UpdateRow, TypeOK
  <2>5. photo'[p].state = "live" /\ photo'[p].storagePath = "shoots" /\ eventRow
    BY <1>5, <2>1, <2>2, <2>4 DEF LocalPath, HasLocalCopy, Live, Shape
  <2>6. \A k \in Jobs : p \notin Todo(k)'
    <3>1. p \notin Todo(j)'
      BY <1>2, <1>3, <2>1 DEF Todo, NoRow, Cur
    <3>2. QED
      BY <1>2, <2>2, <3>1 DEF Todo
  <2>7. ASSUME NEW k \in Jobs PROVE ~Unrecorded(k, p)'
    <3>1. CASE k = j
      BY <1>6, <3>1
    <3>2. CASE k # j
      <4>1. ~Unrecorded(k, p)
        BY <2>2, <3>2 DEF Unrecorded, OriginalInv, JobSafe, ListingSafe, CurPCs
      <4>2. QED
        BY <1>2, <3>2, <4>1, QuietSame DEF Quiet
    <3>3. QED
      BY <3>1, <3>2
  <2>8. QED
    BY <1>1, <2>3, <2>5, <2>6, <2>7 DEF Filed, Pulled, OnePath, LeftToUnlink, Gone
<1>10. QED
  BY <1>7, <1>8, <1>9

\* Who has the photo in its list still knows where its file is.
LEMMA OnePathOn ==
  ASSUME NEW p \in Photos, OnePath(p), disk'[p] \subseteq disk[p],
         \/ photo'[p].state = photo[p].state /\ photo'[p].storagePath = photo[p].storagePath
         \/ photo'[p].state = "gone",
         \A k \in Jobs : /\ ListKept(k, p)
                         /\ job'[k].pc \in RowPCs /\ Cur(k)' = p => job'[k] = job[k]
  PROVE  OnePath(p)'
<1>1. ASSUME NEW k \in Jobs, p \in Todo(k)'
      PROVE  /\ disk'[p] \subseteq {job'[k].seen[p].storagePath}
             /\ job'[k].pc \in {"purgeRow", "expireRow"} /\ Cur(k)' = p => disk'[p] = {}
  <2>1. disk'[p] \subseteq {job'[k].seen[p].storagePath}
    BY <1>1 DEF ListKept, OnePath, Live
  <2>2. ASSUME job'[k] = job[k], job[k].pc \in {"purgeRow", "expireRow"}, Cur(k)' = p
        PROVE  disk'[p] = {}
    BY <1>1, <2>2 DEF OnePath, Todo, Cur
  <2>3. QED
    BY <2>1, <2>2 DEF RowPCs
<1>2. QED
  BY <1>1 DEF OnePath

\* A step of a job that is no reclaim leaves what the reclaims are to record.
LEMMA FiledStillPulled ==
  ASSUME NEW j \in Jobs, NEW p \in Photos, Filed(p), Pulled(p), disk'[p] \subseteq disk[p],
         \A k \in Jobs \ {j} : job'[k] = job[k],
         job[j].pc \notin RecordPCs
  PROVE  Filed(p)'
<1>1. PICK k \in Jobs : Unrecorded(k, p)
  BY DEF Pulled
<1>2. job'[k] = job[k]
  BY <1>1 DEF Unrecorded, RecordPCs
<1>3. Unrecorded(k, p)'
  BY <1>1, <1>2 DEF Unrecorded, Cur, Seen, HasLocalCopy
<1>4. QED
  BY <1>3, FiledPulled DEF Pulled

\* A step that removes the file of q, or the row of a q that has no file.
LEMMA FiledRemoved ==
  ASSUME NEW j \in Jobs, NEW p \in Photos, NEW q \in Photos, Filed(p), ListKept(j, p),
         \A k \in Jobs \ {j} : job'[k] = job[k],
         job[j].pc \notin RecordPCs \cup {"eventRow", "eventDir"},
         job'[j].pc \notin RecordPCs,
         job[j].pc = "photoFile" => Cur(j) = q,
         job'[j].pc \in RowPCs => Cur(j)' = q,
         disk'[p] \subseteq disk[p], eventRow' = eventRow,
         p # q => photo'[p].state = photo[p].state /\ photo'[p].storagePath = photo[p].storagePath,
         p = q /\ ~Pulled(p) => disk'[p] = {}
  PROVE  Filed(p)'
<1>1. CASE p # q
  <2>1. Quiet(j, p)
    BY <1>1 DEF Quiet, Unrecorded, Unlinking, RecordPCs, RowPCs
  <2>2. QED
    BY <1>1, <2>1, FiledJob
<1>2. CASE p = q
  BY <1>2, FiledStillPulled, FiledEmpty
<1>3. QED
  BY <1>1, <1>2

LEMMA FiledPurge ==
  ASSUME OriginalInv, NEW p \in Photos, Filed(p), NEW j \in Jobs,
         PurgeLocal(j) \/ DeletePhotoFile(j)
  PROVE  Filed(p)'
<1>1. /\ TypeOK /\ UNCHANGED <<photo, eventRow>>
      /\ job[j].pc \in {"purgeLocal", "photoFile"}
      /\ disk' = [disk EXCEPT ![Cur(j)] = @ \ {Seen(j).storagePath}]
  BY DEF OriginalInv, PurgeLocal, DeletePhotoFile, Unlink
<1>2. PICK q \in Photos : q = Cur(j) /\ q \in Todo(j)
  BY <1>1 DEF OriginalInv, JobSafe, ListingSafe, CurPCs, Todo
<1>3. /\ \A k \in Jobs \ {j} : job'[k] = job[k]
      /\ ListKept(j, p)
      /\ job'[j].pc \in {"purgeRow", "idle"}
      /\ job'[j].pc = "purgeRow" => Cur(j)' = q
  <2>1. CASE PurgeLocal(j)
    BY <1>1, <1>2, <2>1, MovesOn, JobMoves, ListsOn DEF PurgeLocal, Cur
  <2>2. CASE DeletePhotoFile(j)
    BY <1>1, <2>2, MovesOn, ListsOn DEF DeletePhotoFile
  <2>3. QED
    BY <2>1, <2>2
<1>4. p = q /\ ~Pulled(p) => disk'[p] = {}
  <2>1. ASSUME p = q, ~Pulled(p) PROVE disk[p] \subseteq {Seen(j).storagePath}
    BY <1>2, <2>1 DEF Filed, OnePath, Seen, Cur
  <2>2. QED
    BY <1>1, <1>2, <2>1 DEF TypeOK
<1>5. disk'[p] \subseteq disk[p]
  BY <1>1 DEF TypeOK
<1>6. QED
  BY <1>1, <1>2, <1>3, <1>4, <1>5, FiledRemoved DEF RecordPCs, RowPCs

LEMMA FiledExpire ==
  ASSUME OriginalInv, NEW p \in Photos, Filed(p), NEW j \in Jobs, ExpireFile(j)
  PROVE  Filed(p)'
<1>1. TypeOK /\ UNCHANGED <<photo, eventRow>>
  BY DEF OriginalInv, ExpireFile
<1>2. PICK q \in Photos : /\ Take(j, q, "expire", "expireRow")
                          /\ disk' = [disk EXCEPT ![q] = @ \ {job[j].seen[q].storagePath}]
  BY DEF ExpireFile, Unlink
<1>3. /\ \A k \in Jobs \ {j} : job'[k] = job[k]
      /\ ListKept(j, p)
      /\ job[j].pc = "expire" /\ job'[j].pc = "expireRow" /\ Cur(j)' = q /\ q \in Todo(j)
  <2>1. \A k \in Jobs \ {j} : job'[k] = job[k]
    BY <1>1, <1>2, MovesOn
  <2>2. ListKept(j, p)
    BY <1>1, <1>2, ListsOn
  <2>3. QED
    BY <1>1, <1>2, <2>1, <2>2, JobMoves DEF Cur
<1>4. p = q /\ ~Pulled(p) => disk'[p] = {}
  BY <1>1, <1>2, <1>3 DEF Filed, OnePath, TypeOK
<1>5. disk'[p] \subseteq disk[p]
  BY <1>1, <1>2 DEF TypeOK
<1>6. QED
  BY <1>1, <1>3, <1>4, <1>5, FiledRemoved DEF RecordPCs, RowPCs

\* A sweep takes away a row, or its path, when it has taken the file.
LEMMA FiledRow ==
  ASSUME OriginalInv, NEW p \in Photos, Filed(p), NEW j \in Jobs, PurgeRow(j) \/ ExpireRow(j)
  PROVE  Filed(p)'
<1>1. TypeOK /\ UNCHANGED <<disk, eventRow>> /\ job[j].pc \in RowPCs
  BY DEF OriginalInv, PurgeRow, ExpireRow, RowPCs
<1>2. PICK q \in Photos : q = Cur(j) /\ q \in Todo(j)
  BY <1>1 DEF OriginalInv, JobSafe, ListingSafe, CurPCs, Todo, RowPCs
<1>3. /\ \A k \in Jobs \ {j} : job'[k] = job[k]
      /\ ListKept(j, p)
      /\ job'[j].pc \in {"purge", "expire"}
  BY <1>1, MovesOn, ListsOn DEF PurgeRow, ExpireRow
<1>4. p = q /\ ~Pulled(p) => disk'[p] = {}
  BY <1>1, <1>2 DEF Filed, OnePath, RowPCs
<1>5. p # q => photo'[p] = photo[p]
  BY <1>1, <1>2 DEF PurgeRow, ExpireRow, UpdateRow, TypeOK
<1>6. QED
  BY <1>1, <1>2, <1>3, <1>4, <1>5, FiledRemoved DEF RecordPCs, RowPCs

\* The row first, then the file: the request still has it to unlink.
LEMMA FiledDeleteRow ==
  ASSUME OriginalInv, Shape, NEW p \in Photos, Filed(p), NEW j \in Jobs, DeletePhotoRow(j)
  PROVE  Filed(p)'
<1>1. /\ TypeOK /\ UNCHANGED <<disk, eventRow>>
      /\ job[j].pc = "photoRow" /\ UpdateRow(Cur(j), GoneRow)
      /\ IF Live(Cur(j)) THEN Goto(j, "photoFile") ELSE Finish(j)
  BY DEF OriginalInv, DeletePhotoRow
<1>2. /\ \A k \in Jobs \ {j} : job'[k] = job[k]
      /\ ListKept(j, p)
      /\ job'[j].pc \in {"photoFile", "idle"}
      /\ Live(Cur(j)) => job'[j].pc = "photoFile" /\ Cur(j)' = Cur(j)
  BY <1>1, MovesOn, JobMoves, ListsOn DEF Cur
<1>3. Quiet(j, p)
  BY <1>1, <1>2, QuietOf DEF RecordPCs, RowPCs, UnlinkPCs
<1>4. CASE photo'[p] = photo[p]
  BY <1>1, <1>2, <1>3, <1>4, FiledJob
<1>5. CASE p = Cur(j) /\ Live(p) /\ ~Pulled(p)
  <2>1. photo'[p].state = "gone" /\ eventRow
    BY <1>1, <1>5 DEF UpdateRow, TypeOK, GoneRow, NoRow, Shape
  <2>2. OnePath(p)'
    BY <1>1, <1>2, <1>5, <2>1, OnePathOn, QuietSame DEF Filed, Quiet, RowPCs
  <2>3. ~Pulled(p)'
    BY <1>2, <1>3, <1>5, QuietSame, PulledOn DEF Quiet
  <2>4. Unlinking(j, p)'
    BY <1>2, <1>5 DEF Unlinking
  <2>5. LeftToUnlink(p)'
    BY <1>1, <2>1, <2>4 DEF LeftToUnlink
  <2>6. QED
    BY <2>2, <2>3, <2>5 DEF Filed
<1>6. CASE Pulled(p)
  BY <1>1, <1>2, <1>6, FiledStillPulled DEF RecordPCs
<1>7. QED
  BY <1>1, <1>4, <1>5, <1>6 DEF UpdateRow, TypeOK

\* The rows, the event, its directory: the deletion still has that to unlink.
LEMMA FiledDeleteEvent ==
  ASSUME OriginalInv, Shape, NEW p \in Photos, Filed(p), NEW j \in Jobs, p \notin astray',
         DeleteEventPhotos(j) \/ DeleteEventRow(j) \/ DeleteEventDir(j)
  PROVE  Filed(p)'
<1>1. TypeOK /\ disk'[p] \subseteq disk[p]
  BY DEF OriginalInv, DeleteEventPhotos, DeleteEventRow, DeleteEventDir
<1>2. /\ \A k \in Jobs \ {j} : job'[k] = job[k]
      /\ ListKept(j, p)
      /\ job[j].pc \in {"event", "eventRow", "eventDir"}
      /\ job'[j].pc \in {"eventRow", "eventDir", "idle"}
  BY <1>1, MovesOn, ListsOn DEF DeleteEventPhotos, DeleteEventRow, DeleteEventDir
<1>3. CASE Pulled(p)
  BY <1>1, <1>2, <1>3, FiledStillPulled DEF RecordPCs
<1>4. CASE DeleteEventDir(j)
  BY <1>4, FiledEmpty DEF DeleteEventDir
<1>5. CASE ~Pulled(p) /\ (DeleteEventPhotos(j) \/ DeleteEventRow(j))
  <2>1. OnePath(p) /\ LeftToUnlink(p)
    BY <1>5 DEF Filed
  <2>2. photo'[p] = photo[p] \/ (Live(p) /\ photo'[p].state = "gone" /\ DeleteEventPhotos(j))
    BY <1>1, <1>5 DEF DeleteEventPhotos, DeleteEventRow, GoneRow, NoRow
  <2>3. OnePath(p)'
    BY <1>1, <1>2, <2>1, <2>2, OnePathOn, QuietSame DEF Quiet, RowPCs
  <2>4. \A k \in Jobs : Unrecorded(k, p)' <=> Unrecorded(k, p)
    <3>1. ~Unrecorded(j, p) /\ ~Unrecorded(j, p)'
      BY <1>2 DEF Unrecorded
    <3>2. QED
      BY <1>2, <3>1, QuietSame DEF Quiet
  <2>5. ~Pulled(p)'
    BY <1>5, <2>4, PulledOn
  <2>6. LeftToUnlink(p)'
    <3>1. CASE DeleteEventPhotos(j)
      <4>1. job'[j].pc = "eventRow" /\ job[j].pc = "event" /\ eventRow' = eventRow
        BY <1>1, <3>1, MovesOn DEF DeleteEventPhotos
      <4>2. Unlinking(j, p)'
        BY <4>1 DEF Unlinking
      <4>3. ~eventRow' /\ disk'[p] # {} => \E k \in Jobs : job'[k].pc = "eventDir"
        <5>1. ASSUME NEW k \in Jobs, job[k].pc = "eventDir" PROVE job'[k].pc = "eventDir"
          BY <1>2, <4>1, <5>1
        <5>2. QED
          BY <1>1, <2>1, <4>1, <5>1 DEF LeftToUnlink
      <4>4. QED
        BY <4>2, <4>3 DEF LeftToUnlink
    <3>2. CASE DeleteEventRow(j) /\ Goto(j, "eventDir")
      <4>1. job'[j].pc = "eventDir"
        BY <1>1, <3>2, MovesOn
      <4>2. QED
        BY <4>1 DEF LeftToUnlink, Unlinking
    <3>3. CASE DeleteEventRow(j) /\ Finish(j) /\ eventRow' = eventRow
                 /\ astray' = astray \cup {q \in Photos : Gone(q)}
      <4>1. job[j].pc = "eventRow" /\ ~Gone(p) /\ photo' = photo
        BY <3>3 DEF DeleteEventRow
      <4>2. ASSUME NEW k \in Jobs, job[k].pc = "eventDir" PROVE job'[k].pc = "eventDir"
        BY <1>2, <4>1, <4>2
      <4>3. QED
        BY <1>1, <2>1, <3>3, <4>1, <4>2 DEF LeftToUnlink, Gone
    <3>4. QED
      BY <1>5, <3>1, <3>2, <3>3 DEF DeleteEventRow
  <2>7. QED
    BY <2>3, <2>5, <2>6 DEF Filed
<1>6. QED
  BY <1>3, <1>4, <1>5

-----------------------------------------------------------------------------

LEMMA ShapeEvent == Shape /\ [Next]_vars => (~eventRow' => \A p \in Photos : ~Live(p)')
<1> SUFFICES ASSUME Shape, [Next]_vars
             PROVE  ~eventRow' => \A p \in Photos : ~Live(p)'
  OBVIOUS
<1>1. ASSUME NEW q, NEW row, UpdateRow(q, row), NEW p \in Photos, Live(p)' PROVE Live(p)
  BY <1>1 DEF UpdateRow, Live
<1>2. CASE (\A p \in Photos : Live(p)' => Live(p)) /\ eventRow' = eventRow
  BY <1>2 DEF Shape
<1>3. CASE \E p \in Photos : Ingest(p)
  <2>1. PICK q \in Photos : Ingest(q)
    BY <1>3
  <2>2. \A path : LocalRow(path).state # "live"
    BY DEF LocalRow, NoRow
  <2>3. \A f : DriveRow(f).state # "live"
    BY DEF DriveRow, NoRow
  <2>4. CASE WriteOriginal(q)
    BY <2>2, <2>4 DEF WriteOriginal, Shape, Live
  <2>5. CASE CaptureToDrive(q)
    BY <2>3, <2>5 DEF CaptureToDrive, Shape, Live
  <2>6. CASE CreateRow(q)
    BY <2>6 DEF CreateRow, Shape, Live, GoneRow, NoRow
  <2>7. QED
    BY <2>1, <2>4, <2>5, <2>6 DEF Ingest
<1>4. CASE \E j \in Jobs : DeleteEventRow(j)
  BY <1>4 DEF DeleteEventRow, Live, Shape
<1>5. CASE \E j \in Jobs : DeleteEventPhotos(j)
  BY <1>5 DEF DeleteEventPhotos, Live, Shape, GoneRow, NoRow
<1>6. CASE Crash
  BY <1>6 DEF Crash, Live, Shape, GoneRow, NoRow
<1>7. CASE UNCHANGED <<photo, eventRow>>
  BY <1>7 DEF Live, Shape
<1>8. ASSUME NEW j \in BackupJobs, BackupStep(j)
      PROVE  \/ UNCHANGED <<photo, eventRow>>
             \/ eventRow' = eventRow /\ \A p \in Photos : Live(p)' => Live(p)
  BY <1>1, <1>8 DEF BackupStep, StartBackup, BackupRead, BackupUpload, BackupRecord
<1>9. ASSUME NEW j \in Jobs, ReclaimStep(j) \/ PurgeStep(j) \/ RetentionStep(j) \/ DeletePhotoStep(j)
      PROVE  \/ UNCHANGED <<photo, eventRow>>
             \/ eventRow' = eventRow /\ \A p \in Photos : Live(p)' => Live(p)
  <2>1. CASE ReclaimStep(j)
    BY <1>1, <2>1 DEF ReclaimStep, ReclaimNext, ReclaimDownload, ReclaimWrite, ReclaimDelete,
       ReclaimUpdate, ReclaimKeep
  <2>2. CASE PurgeStep(j)
    BY <1>1, <2>2 DEF PurgeStep, SweepListPurge, PurgeDrive, PurgeLocal, PurgeRow
  <2>3. CASE RetentionStep(j)
    BY <1>1, <2>3 DEF RetentionStep, StartRetention, ExpireFile, ExpireRow
  <2>4. CASE DeletePhotoStep(j)
    BY <1>1, <2>4 DEF DeletePhotoStep, StartDeletePhoto, DeletePhotoRow, DeletePhotoFile
  <2>5. QED
    BY <1>9, <2>1, <2>2, <2>3, <2>4
<1>10. ASSUME NEW j \in Jobs, DeleteEventStep(j)
       PROVE  DeleteEventRow(j) \/ DeleteEventPhotos(j) \/ UNCHANGED <<photo, eventRow>>
  BY <1>10 DEF DeleteEventStep, StartDeleteEvent, DeleteEventDrive, DeleteEventDir
<1>11. ASSUME NEW j \in Jobs, StartReclaimNow(j) \/ StartBackupSweep(j) \/ EndJob(j)
       PROVE  UNCHANGED <<photo, eventRow>>
  BY <1>11 DEF StartReclaimNow, StartBackupSweep, EndJob
<1>12. ASSUME (\E f \in Files : OwnerRemovesFile(f)) \/ Tick \/ UNCHANGED vars
       PROVE  UNCHANGED <<photo, eventRow>>
  BY <1>12 DEF OwnerRemovesFile, Tick, vars
<1>13. QED
  BY <1>2, <1>3, <1>4, <1>5, <1>6, <1>7, <1>8, <1>9, <1>10, <1>11, <1>12 DEF Next, Jobs

\* A reclaim goes to download only what the list has no local path of.
LEMMA ShapeReclaim ==
  ASSUME OriginalInv, Shape, [Next]_vars, NEW k \in Jobs, job'[k].pc \in {"download", "write"}
  PROVE  ~HasLocalCopy(Seen(k))'
<1> TypeOK
  BY DEF OriginalInv
<1>1. CASE job'[k] = job[k]
  BY <1>1 DEF Shape, Seen
<1>2. CASE Crash
  BY <1>2 DEF Crash, Idle
<1>3. ASSUME NEW j \in Jobs, ReclaimStep(j) PROVE ~HasLocalCopy(Seen(k))'
  <2>1. CASE j # k
    <3>1. \A i \in Jobs \ {j} : job'[i] = job[i]
      <4>1. CASE ReclaimNext(j) \/ ReclaimDownload(j)
        BY <4>1, MovesOn DEF ReclaimNext, ReclaimDownload
      <4>2. CASE ReclaimWrite(j) \/ ReclaimDelete(j)
        BY <4>2, MovesOn DEF ReclaimWrite, ReclaimDelete
      <4>3. CASE ReclaimUpdate(j) \/ ReclaimKeep(j)
        BY <4>3, MovesOn DEF ReclaimUpdate, ReclaimKeep
      <4>4. QED
        BY <1>3, <4>1, <4>2, <4>3 DEF ReclaimStep
    <3>2. QED
      BY <1>1, <2>1, <3>1
  <2>2. CASE ReclaimNext(j) /\ j = k
    <3>1. PICK q \in Photos :
            Take(j, q, "reclaim", IF HasLocalCopy(job[j].seen[q]) THEN "delete" ELSE "download")
      BY <2>2 DEF ReclaimNext
    <3>2. /\ job'[j].seen = job[j].seen /\ job'[j].cur = q
          /\ job'[j].pc = IF HasLocalCopy(job[j].seen[q]) THEN "delete" ELSE "download"
      BY <3>1, JobMoves
    <3>3. QED
      BY <2>2, <3>2 DEF Seen, HasLocalCopy
  <2>3. CASE ReclaimDownload(j) /\ j = k
    <3>1. job[j].pc = "download" /\ (Goto(j, "write") \/ NextPhoto(j, "reclaim"))
      BY <2>3 DEF ReclaimDownload
    <3>2. Goto(j, "write")
      BY <2>3, <3>1, MovesOn
    <3>3. job'[j].seen = job[j].seen /\ job'[j].cur = job[j].cur
      BY <3>2, JobMoves
    <3>4. QED
      BY <2>3, <3>1, <3>3 DEF Shape, Seen, HasLocalCopy
  <2>4. CASE j = k /\ (ReclaimWrite(j) \/ ReclaimDelete(j) \/ ReclaimUpdate(j) \/ ReclaimKeep(j))
    <3>1. job'[j].pc \notin {"download", "write"}
      <4>1. CASE ReclaimWrite(j) \/ ReclaimDelete(j)
        BY <4>1, MovesOn DEF ReclaimWrite, ReclaimDelete
      <4>2. CASE ReclaimUpdate(j) \/ ReclaimKeep(j)
        BY <4>2, MovesOn DEF ReclaimUpdate, ReclaimKeep
      <4>3. QED
        BY <2>4, <4>1, <4>2
    <3>2. QED
      BY <2>4, <3>1
  <2>5. QED
    BY <1>3, <2>1, <2>2, <2>3, <2>4 DEF ReclaimStep
<1>4. ASSUME NEW j \in Jobs,
             \/ BackupStep(j) \/ RetentionStep(j) \/ DeletePhotoStep(j)
             \/ DeleteEventStep(j) \/ PurgeStep(j)
             \/ StartReclaimNow(j) \/ StartBackupSweep(j) \/ EndJob(j)
      PROVE  ~HasLocalCopy(Seen(k))'
  <2>1. (\A i \in Jobs \ {j} : job'[i] = job[i]) /\ job'[j].pc \notin {"download", "write"}
    <3>1. ASSUME NEW x, job' = [job EXCEPT ![j] = x]
          PROVE  job'[j] = x /\ \A i \in Jobs \ {j} : job'[i] = job[i]
      BY <3>1 DEF TypeOK
    <3>2. CASE StartBackup(j) \/ BackupRead(j) \/ BackupRecord(j)
      BY <3>2, MovesOn DEF StartBackup, BackupRead, BackupRecord
    <3>3. CASE BackupUpload(j)
      <4>1. CASE \E f \in Files : job' = [job EXCEPT ![j].pc = "record", ![j].file = f]
        <5>1. PICK f \in Files : job' = [job EXCEPT ![j].pc = "record", ![j].file = f]
          BY <4>1
        <5>2. job'[j].pc = "record" /\ \A i \in Jobs \ {j} : job'[i] = job[i]
          BY <5>1 DEF TypeOK, Job
        <5>3. QED
          BY <5>2
      <4>2. QED
        BY <3>3, <4>1, MovesOn DEF BackupUpload
    <3>4. CASE RetentionStep(j)
      BY <3>4, MovesOn DEF RetentionStep, StartRetention, ExpireFile, ExpireRow
    <3>5. CASE DeletePhotoRow(j) \/ DeletePhotoFile(j)
      BY <3>5, MovesOn DEF DeletePhotoRow, DeletePhotoFile
    <3>6. ASSUME NEW q \in Photos, StartDeletePhoto(j, q)
          PROVE  job'[j].pc = "photoRow" /\ \A i \in Jobs \ {j} : job'[i] = job[i]
      BY <3>1, <3>6 DEF StartDeletePhoto, Idle
    <3>7. CASE DeleteEventStep(j)
      <4>1. CASE StartDeleteEvent(j) \/ DeleteEventDrive(j)
        BY <4>1, MovesOn DEF StartDeleteEvent, DeleteEventDrive
      <4>2. CASE DeleteEventPhotos(j) \/ DeleteEventRow(j) \/ DeleteEventDir(j)
        BY <4>2, MovesOn DEF DeleteEventPhotos, DeleteEventRow, DeleteEventDir
      <4>3. QED
        BY <3>7, <4>1, <4>2 DEF DeleteEventStep
    <3>8. CASE PurgeDrive(j) \/ PurgeLocal(j) \/ PurgeRow(j)
      BY <3>8, MovesOn DEF PurgeDrive, PurgeLocal, PurgeRow
    <3>9. CASE SweepListPurge(j)
      BY <3>1, <3>9 DEF SweepListPurge, Idle
    <3>10. CASE StartReclaimNow(j) \/ StartBackupSweep(j) \/ EndJob(j)
      BY <3>10, MovesOn DEF StartReclaimNow, StartBackupSweep, EndJob
    <3>11. QED
      BY <1>4, <3>2, <3>3, <3>4, <3>5, <3>6, <3>7, <3>8, <3>9, <3>10
         DEF BackupStep, DeletePhotoStep, PurgeStep
  <2>2. QED
    BY <1>1, <2>1
<1>5. ASSUME \/ \E p \in Photos : Ingest(p)
             \/ \E f \in Files : OwnerRemovesFile(f)
             \/ Tick \/ UNCHANGED vars
      PROVE  job' = job
  BY <1>5 DEF Ingest, WriteOriginal, CaptureToDrive, CreateRow, OwnerRemovesFile, Tick, vars
<1>6. QED
  BY <1>1, <1>2, <1>3, <1>4, <1>5 DEF Next, Jobs

LEMMA AstrayGrows == [Next]_vars => astray \subseteq astray' /\ (crashes' = crashes \/ Crash)
<1> SUFFICES ASSUME [Next]_vars PROVE astray \subseteq astray' /\ (crashes' = crashes \/ Crash)
  OBVIOUS
<1>1. ASSUME NEW p \in Photos, Ingest(p) PROVE UNCHANGED <<astray, crashes>>
  BY <1>1 DEF Ingest, WriteOriginal, CaptureToDrive, CreateRow
<1>2. ASSUME NEW j \in Jobs, BackupStep(j) PROVE UNCHANGED <<astray, crashes>>
  BY <1>2 DEF BackupStep, StartBackup, BackupRead, BackupUpload, BackupRecord
<1>3. ASSUME NEW j \in Jobs, ReclaimStep(j) PROVE astray \subseteq astray' /\ crashes' = crashes
  BY <1>3 DEF ReclaimStep, ReclaimNext, ReclaimDownload, ReclaimWrite, ReclaimDelete,
     ReclaimUpdate, ReclaimKeep
<1>4. ASSUME NEW j \in Jobs, PurgeStep(j) \/ RetentionStep(j) PROVE UNCHANGED <<astray, crashes>>
  BY <1>4 DEF PurgeStep, SweepListPurge, PurgeDrive, PurgeLocal, PurgeRow, RetentionStep,
     StartRetention, ExpireFile, ExpireRow
<1>5. ASSUME NEW j \in Jobs, DeletePhotoStep(j) PROVE UNCHANGED <<astray, crashes>>
  BY <1>5 DEF DeletePhotoStep, StartDeletePhoto, DeletePhotoRow, DeletePhotoFile
<1>6. ASSUME NEW j \in Jobs, DeleteEventStep(j) PROVE astray \subseteq astray' /\ crashes' = crashes
  BY <1>6 DEF DeleteEventStep, StartDeleteEvent, DeleteEventDrive, DeleteEventPhotos,
     DeleteEventRow, DeleteEventDir
<1>7. ASSUME NEW j \in Jobs, StartReclaimNow(j) \/ StartBackupSweep(j) \/ EndJob(j)
      PROVE  UNCHANGED <<astray, crashes>>
  BY <1>7 DEF StartReclaimNow, StartBackupSweep, EndJob
<1>8. ASSUME (\E f \in Files : OwnerRemovesFile(f)) \/ Tick \/ UNCHANGED vars
      PROVE  UNCHANGED <<astray, crashes>>
  BY <1>8 DEF OwnerRemovesFile, Tick, vars
<1>9. CASE Crash
  BY <1>9 DEF Crash
<1>10. QED
  BY <1>1, <1>2, <1>3, <1>4, <1>5, <1>6, <1>7, <1>8, <1>9 DEF Next, Jobs

LEMMA FiledStep ==
  ASSUME OriginalInv, Shape, [Next]_vars, ~Crash, NEW p \in Photos, Filed(p), p \notin astray'
  PROVE  Filed(p)'
<1>1. ASSUME NEW j \in Jobs, ReclaimStep(j) PROVE Filed(p)'
  BY <1>1, FiledReclaimStart, FiledReclaimWrite, FiledReclaimDelete, FiledReclaimRecord
     DEF ReclaimStep
<1>2. ASSUME NEW j \in Jobs, PurgeStep(j) PROVE Filed(p)'
  BY <1>2, FiledPlain, FiledPurge, FiledRow DEF PurgeStep
<1>3. ASSUME NEW j \in Jobs, RetentionStep(j) PROVE Filed(p)'
  BY <1>3, FiledPlain, FiledExpire, FiledRow DEF RetentionStep
<1>4. ASSUME NEW j \in Jobs, DeletePhotoStep(j) PROVE Filed(p)'
  BY <1>4, FiledPlain, FiledPurge, FiledDeleteRow DEF DeletePhotoStep
<1>5. ASSUME NEW j \in Jobs, DeleteEventStep(j) PROVE Filed(p)'
  BY <1>5, FiledPlain, FiledDeleteEvent DEF DeleteEventStep
<1>6. ASSUME NEW j \in Jobs, StartReclaimNow(j) \/ StartBackupSweep(j) \/ EndJob(j)
      PROVE  Filed(p)'
  BY <1>6, FiledPlain
<1>7. CASE (\E f \in Files : OwnerRemovesFile(f)) \/ Tick \/ UNCHANGED vars
  <2>1. UNCHANGED <<job, photo, disk, eventRow>>
    BY <1>7 DEF OwnerRemovesFile, Tick, vars
  <2>2. \A k \in Jobs : Quiet(k, p)
    BY <2>1, QuietSame
  <2>3. QED
    BY <2>1, <2>2, FiledOn
<1>8. QED
  BY <1>1, <1>2, <1>3, <1>4, <1>5, <1>6, <1>7, FiledIngest, FiledBackup DEF Next, Jobs

LEMMA OrphanStep == OriginalInv /\ OrphanInv /\ [Next]_vars => OrphanInv'
<1> SUFFICES ASSUME OriginalInv, OrphanInv, [Next]_vars PROVE OrphanInv'
  OBVIOUS
<1>1. Shape'
  BY ShapeEvent, ShapeReclaim DEF OrphanInv, Shape
<1>2. CASE Crash
  <2>1. crashes' # 0
    BY <1>2 DEF Crash, OriginalInv, TypeOK
  <2>2. QED
    BY <1>1, <2>1 DEF OrphanInv
<1>3. CASE ~Crash
  BY <1>1, <1>3, FiledStep, AstrayGrows DEF OrphanInv
<1>4. QED
  BY <1>2, <1>3

(* Without a restart, no file outlives its row: whatever number of backup  *)
(* jobs, sweeps, reclaims, photo and event deletions interleave, what is   *)
(* on the disk of a photo that is gone is about to be unlinked or to be    *)
(* recorded, unless a reclaim recorded it while another job had the photo  *)
(* listed, or the event could not be deleted (deleteOriginal,              *)
(* deleteEventCascade, reclaimPhotos).                                     *)
THEOREM NoOrphans == Spec => []NoOrphanFile
<1>1. OriginalInv /\ OrphanInv => NoOrphanFile
  BY DEF OrphanInv, NoOrphanFile, Filed, Pulled, LeftToUnlink
<1>2. Spec => []OriginalInv
  BY OriginalInvariant
<1>3. Spec => []OrphanInv
  BY <1>2, OrphanInit, OrphanStep, PTL DEF Spec
<1>4. QED
  BY <1>1, <1>2, <1>3, PTL

-----------------------------------------------------------------------------
(* DriveSync: the Drive folder of an event, its rows and the jobs on both. *)

CONSTANTS Items, Slots, Folders, Timers, Requests, Movers, MaxIngests, MaxFaults, NoItem, NoFolder
VARIABLES where, row, event, due, task, ingests, faults, overlapped

D == INSTANCE DriveSync WITH Files <- Items, Photos <- Slots, NoFile <- NoItem

\* A row of the table r shows file f.
Shown(f, r) == \E p \in Slots : r[p].live /\ r[p].file = f
\* A file that a row has, or that a task is about to give to one, was put in a folder.
Used(w, r) == \A p \in Slots : r[p].live /\ r[p].file # NoItem => w[r[p].file] # "unused"
Syncing == {"list", "autoList", "diff", "importing", "create", "removing"}
Holds(k, w) ==
  /\ k.pc \in Syncing => k.folder \in Folders
  /\ k.pc \in {"create", "connectCreate", "record"} => k.file \in Items
  /\ k.pc \in {"create", "connectCreate", "insert", "record"} /\ k.file # NoItem =>
       w[k.file] # "unused"
  /\ k.pc \in {"upload", "backup"} => k.folder \in Folders
  /\ k.pc = "upload" => k.file = NoItem
\* What a sync knows of the folder w and the rows r, when it is alone: first that a file
\* shown from its folder was listed; then that what it imports is not shown yet, and
\* that what it removes is not in its folder.
Exact(k, w, r) ==
  /\ k.pc = "diff" => \A f \in Items : Shown(f, r) /\ w[f] = k.folder => f \in k.listed
  /\ k.pc \in {"importing", "create"} => \A f \in k.listed : ~Shown(f, r)
  /\ k.pc = "create" => k.file \notin k.listed /\ ~Shown(k.file, r)
  /\ k.pc \in {"importing", "create", "removing"} =>
       \A p \in k.photos : r[p].live => r[p].file \in Items /\ w[r[p].file] # k.folder
Alone == \A t, u \in D!Tasks : task[t].pc # "idle" /\ task[u].pc # "idle" => t = u

Tables(w, r) == w \in [Items -> D!Places] /\ r \in [Slots -> D!Row] /\ Used(w, r)
EventType == event \in [folder : Folders \cup {NoFolder}, export : Folders \cup {NoFolder},
                        autoSync : BOOLEAN]
RestType == EventType /\ due \in BOOLEAN /\ ingests \in 0..MaxIngests /\ faults \in 0..MaxFaults
TasksHold == task \in [D!Tasks -> D!Task] /\ \A t \in D!Tasks : Holds(task[t], where)
DriveInv ==
  /\ D!DriveConstants /\ Tables(where, row) /\ RestType /\ TasksHold /\ overlapped \in BOOLEAN
  /\ overlapped \/ (Alone /\ \A t \in D!Tasks : Exact(task[t], where, row))

LEMMA DriveInvTypes == DriveInv => D!TypeOK
BY DEF DriveInv, D!TypeOK, Tables, RestType, EventType, TasksHold

\* A file that was put somewhere is never unused again.
Grows(w) == \A f \in Items : where[f] # "unused" => w[f] # "unused"

\* A task that is under way takes a step.
LEMMA TaskSteps ==
  ASSUME DriveInv, NEW t \in D!Tasks, NEW new \in D!Task, task[t].pc # "idle",
         task' = [task EXCEPT ![t] = new], overlapped' = overlapped,
         Tables(where', row'), Grows(where'), RestType', Holds(new, where'),
         ~overlapped => Exact(new, where', row')
  PROVE  DriveInv'
<1>1. \A u \in D!Tasks : task'[u] = IF u = t THEN new ELSE task[u]
  BY DEF DriveInv, TasksHold
<1>2. TasksHold'
  <2>1. task' \in [D!Tasks -> D!Task]
    BY DEF DriveInv, TasksHold
  <2>2. ASSUME NEW u \in D!Tasks PROVE Holds(task'[u], where')
    <3>1. CASE u = t
      BY <1>1, <3>1
    <3>2. CASE u # t
      <4>1. task'[u] = task[u] /\ Holds(task[u], where) /\ task[u].file \in Items \cup {NoItem}
        BY <1>1, <3>2 DEF DriveInv, TasksHold, D!Task
      <4> QED BY <4>1 DEF Holds, Grows
    <3> QED BY <3>1, <3>2
  <2> QED BY <2>1, <2>2 DEF TasksHold
<1>3. ~overlapped => Alone' /\ \A u \in D!Tasks : Exact(task'[u], where', row')
  <2> SUFFICES ASSUME ~overlapped PROVE Alone' /\ \A u \in D!Tasks : Exact(task'[u], where', row')
    OBVIOUS
  <2>1. \A u \in D!Tasks : u # t => task'[u].pc = "idle"
    BY <1>1 DEF DriveInv, Alone
  <2>2. Alone'
    BY <2>1 DEF Alone
  <2>3. ASSUME NEW u \in D!Tasks PROVE Exact(task'[u], where', row')
    BY <1>1, <2>1 DEF Exact
  <2> QED BY <2>2, <2>3
<1> QED BY <1>2, <1>3 DEF DriveInv

\* Steps that touch no table: the task, and the event or the counters.
LEMMA TaskGoesOn ==
  ASSUME DriveInv, NEW t \in D!Tasks, NEW new \in D!Task, task[t].pc # "idle",
         task' = [task EXCEPT ![t] = new], UNCHANGED <<overlapped, where, row>>,
         RestType', Holds(new, where), ~overlapped => Exact(new, where, row)
  PROVE  DriveInv'
<1>1. Tables(where', row') /\ Grows(where')
  BY DEF DriveInv, Grows
<1> QED BY <1>1, TaskSteps

LEMMA IdleHolds ==
  /\ D!Idle \in D!Task /\ D!Idle.pc = "idle"
  /\ \A w, r : Holds(D!Idle, w) /\ Exact(D!Idle, w, r)
BY DEF D!Idle, D!Task, D!PCs, Holds, Exact, Syncing

LEMMA TaskStarts ==
  ASSUME DriveInv, NEW t \in D!Tasks, NEW new \in D!Task, D!Start(t, new),
         UNCHANGED <<where, row>>, RestType', Holds(new, where),
         new.pc \notin {"diff", "importing", "create", "removing"}
  PROVE  DriveInv'
<1>1. \A u \in D!Tasks : task'[u] = IF u = t THEN new ELSE task[u]
  BY DEF DriveInv, TasksHold, D!Start
<1>2. TasksHold'
  BY <1>1 DEF DriveInv, TasksHold, D!Start
<1>3. overlapped' \in BOOLEAN /\ (overlapped => overlapped')
      /\ (~overlapped' => \A u \in D!Tasks : u # t => task[u].pc = "idle")
  BY DEF D!Start, DriveInv
<1>4. ~overlapped' => Alone' /\ \A u \in D!Tasks : Exact(task'[u], where', row')
  <2> SUFFICES ASSUME ~overlapped' PROVE Alone' /\ \A u \in D!Tasks : Exact(task'[u], where', row')
    OBVIOUS
  <2>1. Alone'
    BY <1>1, <1>3 DEF Alone
  <2>2. ASSUME NEW u \in D!Tasks PROVE Exact(task'[u], where', row')
    BY <1>1, <1>3 DEF Exact
  <2> QED BY <2>1, <2>2
<1> QED BY <1>2, <1>3, <1>4 DEF DriveInv

\* The studio acts, in Drive or in the app: no task moves.
LEMMA StudioActs ==
  ASSUME DriveInv, UNCHANGED <<task, overlapped>>, RestType',
         Tables(where', row'), Grows(where'),
         \A t \in D!Tasks : Exact(task[t], where, row) => Exact(task[t], where', row')
  PROVE  DriveInv'
<1>1. TasksHold'
  <2>1. ASSUME NEW t \in D!Tasks PROVE Holds(task[t], where')
    <3>1. Holds(task[t], where) /\ task[t].file \in Items \cup {NoItem}
      BY DEF DriveInv, TasksHold, D!Task
    <3> QED BY <3>1 DEF Holds, Grows
  <2> QED BY <2>1 DEF DriveInv, TasksHold
<1> QED BY <1>1 DEF DriveInv, Alone

\* A sync keeps what it knows when rows go, or when an unused file is put in a folder
\* or a file is taken out of one.
LEMMA ExactStays ==
  ASSUME DriveInv, NEW k \in D!Task, Holds(k, where), Exact(k, where, row), NEW w, NEW r,
         \A p \in Slots : r[p].live => r[p] = row[p],
         \A f \in Items : w[f] = where[f] \/ where[f] = "unused" \/ w[f] = "gone"
  PROVE  Exact(k, w, r)
<1>1. /\ \A f : Shown(f, r) => Shown(f, row)
  BY DEF Shown
<1>2. \A f \in Items : Shown(f, row) => where[f] # "unused"
  BY DEF DriveInv, Tables, Used, Shown, D!DriveConstants
<1>3. k.pc \in Syncing => k.folder # "gone"
  BY DEF Holds, DriveInv, D!DriveConstants
<1>4. k.pc = "diff" => \A f \in Items : Shown(f, r) /\ w[f] = k.folder => f \in k.listed
  BY <1>1, <1>2, <1>3 DEF Exact, Syncing
<1>5. k.pc \in {"importing", "create", "removing"} =>
        \A p \in k.photos : r[p].live => r[p].file \in Items /\ w[r[p].file] # k.folder
  <2> SUFFICES ASSUME k.pc \in {"importing", "create", "removing"}, NEW p \in k.photos, r[p].live
      PROVE  r[p].file \in Items /\ w[r[p].file] # k.folder
    OBVIOUS
  <2>1. p \in Slots /\ r[p] = row[p]
    BY DEF D!Task
  <2>2. row[p].file \in Items /\ where[row[p].file] # k.folder /\ Shown(row[p].file, row)
    BY <2>1 DEF Exact, Shown
  <2> QED BY <1>2, <1>3, <2>1, <2>2 DEF Syncing
<1> QED BY <1>1, <1>4, <1>5 DEF Exact

-----------------------------------------------------------------------------
(* The studio, in Drive and in the app, and the clock.                     *)

LEMMA FileIsAdded ==
  ASSUME DriveInv, NEW f \in Items, NEW d \in Folders, D!DriveAdd(f, d) PROVE DriveInv'
<1> USE DEF D!DriveAdd, D!counters
<1>1. where \in [Items -> D!Places] /\ where[f] = "unused" /\ where' = [where EXCEPT ![f] = d]
      /\ "unused" \notin Folders
  BY DEF DriveInv, Tables, D!DriveConstants
<1>2. Tables(where', row') /\ Grows(where')
  BY <1>1 DEF DriveInv, Tables, Used, Grows, D!Places, D!Row
<1>3. \A t \in D!Tasks : Exact(task[t], where, row) => Exact(task[t], where', row')
  BY <1>1, ExactStays DEF DriveInv, TasksHold
<1> QED BY <1>2, <1>3, StudioActs DEF DriveInv, RestType, EventType

LEMMA FileIsTrashed == ASSUME DriveInv, NEW f \in Items, D!DriveTrash(f) PROVE DriveInv'
<1> USE DEF D!DriveTrash, D!counters
<1>1. where \in [Items -> D!Places] /\ where' = [where EXCEPT ![f] = "gone"]
  BY DEF DriveInv, Tables
<1>2. Tables(where', row') /\ Grows(where')
  BY <1>1 DEF DriveInv, Tables, Used, Grows, D!Places, D!Row
<1>3. \A t \in D!Tasks : Exact(task[t], where, row) => Exact(task[t], where', row')
  BY <1>1, ExactStays DEF DriveInv, TasksHold
<1> QED BY <1>2, <1>3, StudioActs DEF DriveInv, RestType, EventType

LEMMA RowIsDeleted == ASSUME DriveInv, NEW p \in Slots, D!DeletePhoto(p) PROVE DriveInv'
<1> USE DEF D!DeletePhoto, D!counters
<1>1. row \in [Slots -> D!Row] /\ row' = [row EXCEPT ![p] = D!NoRow] /\ D!NoRow \in D!Row
      /\ ~D!NoRow.live
  BY DEF DriveInv, Tables, D!NoRow, D!Row
<1>2. Tables(where', row') /\ Grows(where')
  BY <1>1 DEF DriveInv, Tables, Used, Grows
<1>3. \A t \in D!Tasks : Exact(task[t], where, row) => Exact(task[t], where', row')
  BY <1>1, ExactStays DEF DriveInv, TasksHold
<1> QED BY <1>2, <1>3, StudioActs DEF DriveInv, RestType, EventType

LEMMA SettingsChange ==
  ASSUME DriveInv,
         (\E d \in Folders \cup {NoFolder} : D!SetExportFolder(d)) \/ D!ToggleAutoSync \/ D!DayPasses
  PROVE  DriveInv'
<1> USE DEF D!SetExportFolder, D!ToggleAutoSync, D!DayPasses, D!counters
<1>1. Tables(where', row') /\ Grows(where') /\ where' = where /\ row' = row
      /\ UNCHANGED <<task, overlapped>>
  BY DEF DriveInv, Grows
<1>2. RestType'
  BY DEF DriveInv, RestType, EventType
<1> QED BY <1>1, <1>2, StudioActs

-----------------------------------------------------------------------------
(* Syncs.                                                                  *)

LEMMA ConnectStarts ==
  ASSUME DriveInv, NEW t \in D!Tasks, NEW d \in Folders, D!StartConnect(t, d) PROVE DriveInv'
<1> DEFINE new == [D!Idle EXCEPT !.pc = "connect", !.folder = d, !.listed = D!InFolder(d)]
<1> USE DEF D!StartConnect
<1>1. new \in D!Task /\ new.pc = "connect"
  BY DEF D!Idle, D!Task, D!PCs, D!InFolder
<1>2. Holds(new, where)
  BY <1>1 DEF Holds, Syncing
<1>3. RestType'
  BY DEF DriveInv, RestType, EventType, D!DriveConstants
<1> HIDE DEF new
<1> QED BY <1>1, <1>2, <1>3, TaskStarts DEF new

LEMMA SyncStarts ==
  ASSUME DriveInv, NEW t \in D!Tasks, D!StartSync(t) \/ D!StartAutoSync(t) PROVE DriveInv'
<1> USE DEF D!StartSync, D!StartAutoSync, D!counters
<1>1. PICK pc \in {"list", "autoList"} : D!Start(t, [D!Idle EXCEPT !.pc = pc, !.folder = event.folder])
  OBVIOUS
<1> DEFINE new == [D!Idle EXCEPT !.pc = pc, !.folder = event.folder]
<1>2. event.folder \in Folders
  BY DEF DriveInv, RestType, EventType
<1>3. new \in D!Task /\ new.pc = pc /\ new.folder = event.folder
  BY <1>2 DEF D!Idle, D!Task, D!PCs
<1>4. Holds(new, where)
  BY <1>2, <1>3 DEF Holds, Syncing
<1>5. RestType' /\ UNCHANGED <<where, row>>
  BY DEF DriveInv, RestType, EventType
<1> HIDE DEF new
<1> QED BY <1>1, <1>3, <1>4, <1>5, TaskStarts DEF new

LEMMA EventIsConnected == ASSUME DriveInv, NEW t \in D!Tasks, D!ConnectEvent(t) PROVE DriveInv'
<1> DEFINE new == [task[t] EXCEPT !.pc = "connecting"]
<1> USE DEF D!ConnectEvent, D!Goto, D!Step, D!counters
<1>1. task[t] \in D!Task
  BY DEF DriveInv, TasksHold
<1>2. new \in D!Task /\ new.pc = "connecting"
  BY <1>1 DEF D!Task, D!PCs
<1>3. Holds(new, where) /\ Exact(new, where, row)
  BY <1>2 DEF Holds, Exact, Syncing
<1>4. RestType'
  BY <1>1 DEF DriveInv, RestType, EventType, D!Task
<1> HIDE DEF new
<1> QED BY <1>1, <1>2, <1>3, <1>4, TaskGoesOn DEF new

LEMMA FolderIsListed == ASSUME DriveInv, NEW t \in D!Tasks, D!List(t) PROVE DriveInv'
<1> DEFINE k == task[t]
           new == [k EXCEPT !.pc = "diff", !.listed = D!InFolder(k.folder)]
<1> USE DEF D!List, D!Step, D!counters
<1>1. k \in D!Task /\ Holds(k, where) /\ k.pc \in {"list", "autoList"}
  BY DEF DriveInv, TasksHold
<1>2. new \in D!Task /\ new.pc = "diff" /\ new.folder = k.folder /\ new.listed = D!InFolder(k.folder)
  BY <1>1 DEF D!Task, D!PCs, D!InFolder
<1>3. Holds(new, where) /\ Exact(new, where, row)
  BY <1>1, <1>2 DEF Holds, Exact, Syncing, D!InFolder
<1>4. RestType'
  BY DEF DriveInv, RestType, EventType
<1> HIDE DEF new
<1> QED BY <1>1, <1>2, <1>3, <1>4, TaskGoesOn DEF new

\* The rows are compared with the listing: no job wrote a row in between.
LEMMA RowsAreCompared == ASSUME DriveInv, NEW t \in D!Tasks, D!Diff(t) PROVE DriveInv'
<1> DEFINE k == task[t]
           new == [k EXCEPT !.pc = "importing", !.listed = D!NewFiles(t), !.photos = D!RemovedPhotos(t)]
<1> USE DEF D!Diff, D!Step, D!counters
<1>1. k \in D!Task /\ Holds(k, where) /\ k.pc = "diff"
  BY DEF DriveInv, TasksHold
<1>2. D!NewFiles(t) \subseteq k.listed /\ D!RemovedPhotos(t) \subseteq Slots /\ k.listed \subseteq Items
  BY <1>1 DEF D!NewFiles, D!RemovedPhotos, D!DrivePhotos, D!Task
<1>3. /\ new \in D!Task /\ new.pc = "importing" /\ new.folder = k.folder
      /\ new.listed = D!NewFiles(t) /\ new.photos = D!RemovedPhotos(t)
  BY <1>1, <1>2 DEF D!Task, D!PCs
<1>4. Holds(new, where)
  BY <1>1, <1>3 DEF Holds, Syncing
<1>5. ~overlapped => Exact(new, where, row)
  <2> SUFFICES ASSUME ~overlapped PROVE Exact(new, where, row)
    OBVIOUS
  <2>1. \A f \in Items : Shown(f, row) /\ where[f] = k.folder => f \in k.listed
    BY <1>1 DEF DriveInv, Exact
  <2>2. \A f \in D!NewFiles(t) : ~Shown(f, row)
    BY <1>2 DEF D!NewFiles, D!DrivePhotos, Shown, DriveInv, D!DriveConstants
  <2>3. \A p \in D!RemovedPhotos(t) : row[p].file \in Items /\ where[row[p].file] # k.folder
    <3> TAKE p \in D!RemovedPhotos(t)
    <3>1. p \in Slots /\ row[p].live /\ row[p].file # NoItem /\ row[p].file \notin k.listed
      BY DEF D!RemovedPhotos, D!DrivePhotos
    <3>2. row[p].file \in Items
      BY <3>1 DEF DriveInv, Tables, D!Row
    <3> QED BY <2>1, <3>1, <3>2 DEF Shown
  <2> HIDE DEF new
  <2> QED BY <1>3, <2>2, <2>3 DEF Exact
<1>6. RestType'
  BY DEF DriveInv, RestType, EventType
<1> HIDE DEF new
<1> QED BY <1>1, <1>3, <1>4, <1>5, <1>6, TaskGoesOn DEF new

LEMMA FileIsSkipped ==
  ASSUME DriveInv, NEW t \in D!Tasks, NEW f \in Items, D!SkipFile(t, f) PROVE DriveInv'
<1> DEFINE k == task[t]
           new == [k EXCEPT !.listed = k.listed \ {f}]
<1> USE DEF D!SkipFile, D!Step, D!counters
<1>1. k \in D!Task /\ Holds(k, where) /\ k.pc \in {"importing", "connecting"}
      /\ (~overlapped => Exact(k, where, row))
  BY DEF DriveInv, TasksHold
<1>2. /\ new \in D!Task /\ new.pc = k.pc /\ new.folder = k.folder /\ new.file = k.file
      /\ new.listed = k.listed \ {f} /\ new.photos = k.photos
  BY <1>1 DEF D!Task
<1> HIDE DEF new
<1>3. Holds(new, where) /\ (~overlapped => Exact(new, where, row))
  BY <1>1, <1>2 DEF Holds, Exact, Syncing
<1>4. RestType'
  BY DEF DriveInv, RestType, EventType
<1> QED BY <1>1, <1>2, <1>3, <1>4, TaskGoesOn DEF new

LEMMA FileIsDownloaded ==
  ASSUME DriveInv, NEW t \in D!Tasks, NEW f \in Items, D!Download(t, f) PROVE DriveInv'
<1> DEFINE k == task[t]
           new == [k EXCEPT !.listed = k.listed \ {f}, !.file = f,
                            !.pc = IF k.pc = "importing" THEN "create" ELSE "connectCreate"]
<1> USE DEF D!Download, D!Step, D!counters
<1>1. k \in D!Task /\ Holds(k, where) /\ k.pc \in {"importing", "connecting"}
      /\ f \in k.listed /\ where[f] \in Folders /\ (~overlapped => Exact(k, where, row))
  BY DEF DriveInv, TasksHold
<1>2. /\ new \in D!Task /\ new.pc = (IF k.pc = "importing" THEN "create" ELSE "connectCreate")
      /\ new.folder = k.folder /\ new.file = f /\ new.listed = k.listed \ {f} /\ new.photos = k.photos
  BY <1>1 DEF D!Task, D!PCs
<1>3. task' = [task EXCEPT ![t] = new] /\ UNCHANGED <<overlapped, where, row>>
  BY <1>1
<1> HIDE DEF new
<1>4. Holds(new, where)
  BY <1>1, <1>2 DEF Holds, Syncing, DriveInv, D!DriveConstants
<1>5. ~overlapped => Exact(new, where, row)
  BY <1>1, <1>2 DEF Exact
<1>6. RestType'
  BY DEF DriveInv, RestType, EventType
<1> QED BY <1>1, <1>2, <1>3, <1>4, <1>5, <1>6, TaskGoesOn

LEMMA RowIsInserted ==
  ASSUME DriveInv, NEW new \in D!Row, new.file # NoItem => where[new.file] # "unused", D!Insert(new)
  PROVE  \E p \in Slots : /\ row' = [row EXCEPT ![p] = new] /\ Tables(where, row')
                          /\ \A t \in D!Tasks : p \notin task[t].photos
<1>1. PICK p \in Slots : D!Free(p) /\ row' = [row EXCEPT ![p] = new]
  BY DEF D!Insert
<1>2. Tables(where, row')
  BY <1>1 DEF DriveInv, Tables, Used
<1> QED BY <1>1, <1>2 DEF D!Free

\* The row that a sync creates shows a file that none showed.
LEMMA RowIsCreated == ASSUME DriveInv, NEW t \in D!Tasks, D!CreateRow(t) PROVE DriveInv'
<1> DEFINE k == task[t]
           new == [k EXCEPT !.file = NoItem,
                            !.pc = IF k.pc = "create" THEN "importing" ELSE "connecting"]
           made == [D!NoRow EXCEPT !.live = TRUE, !.file = k.file]
<1>1. /\ k.pc \in {"create", "connectCreate"} /\ D!Insert(made)
      /\ task' = [task EXCEPT ![t] = new]
      /\ UNCHANGED <<overlapped, where, event, due, ingests, faults>>
  BY DEF D!CreateRow, D!Step, D!counters
<1>2. k \in D!Task /\ Holds(k, where) /\ (~overlapped => Exact(k, where, row))
  BY DEF DriveInv, TasksHold
<1>3. made \in D!Row /\ made.live /\ made.file = k.file /\ (k.file # NoItem => where[k.file] # "unused")
  BY <1>1, <1>2 DEF D!NoRow, D!Row, Holds
<1> HIDE DEF made
<1>4. PICK p \in Slots : /\ row' = [row EXCEPT ![p] = made] /\ Tables(where, row')
                         /\ p \notin k.photos
  BY <1>1, <1>3, RowIsInserted
<1>5. /\ new \in D!Task /\ new.pc = (IF k.pc = "create" THEN "importing" ELSE "connecting")
      /\ new.folder = k.folder /\ new.listed = k.listed /\ new.photos = k.photos
  BY <1>2 DEF D!Task, D!PCs
<1> HIDE DEF new
<1>6. Holds(new, where)
  BY <1>1, <1>2, <1>5 DEF Holds, Syncing
<1>7. ~overlapped => Exact(new, where, row')
  <2> SUFFICES ASSUME ~overlapped, new.pc = "importing" PROVE Exact(new, where, row')
    BY <1>1, <1>5 DEF Exact
  <2>1. k.pc = "create"
    BY <1>5
  <2>2. row \in [Slots -> D!Row] /\ k.photos \subseteq Slots
    BY <1>2 DEF DriveInv, Tables, D!Task
  <2>3. \A f : Shown(f, row') => Shown(f, row) \/ f = k.file
    BY <1>3, <1>4, <2>2 DEF Shown
  <2>4. \A q \in k.photos : row'[q] = row[q]
    BY <1>4, <2>2
  <2> QED BY <1>2, <1>5, <2>1, <2>3, <2>4 DEF Exact
<1>8. Tables(where', row') /\ Grows(where') /\ RestType'
  BY <1>1, <1>4 DEF Grows, DriveInv, RestType, EventType
<1> QED BY <1>1, <1>5, <1>6, <1>7, <1>8, TaskSteps

LEMMA RemovingStarts == ASSUME DriveInv, NEW t \in D!Tasks, D!StartRemoving(t) PROVE DriveInv'
<1> DEFINE k == task[t]
           new == [k EXCEPT !.pc = "removing"]
<1> USE DEF D!StartRemoving, D!Goto, D!Step, D!counters
<1>1. k \in D!Task /\ Holds(k, where) /\ k.pc = "importing" /\ (~overlapped => Exact(k, where, row))
  BY DEF DriveInv, TasksHold
<1>2. new \in D!Task /\ new.pc = "removing" /\ new.folder = k.folder /\ new.photos = k.photos
  BY <1>1 DEF D!Task, D!PCs
<1>3. task' = [task EXCEPT ![t] = new]
  OBVIOUS
<1> HIDE DEF new
<1>4. Holds(new, where) /\ (~overlapped => Exact(new, where, row))
  BY <1>1, <1>2 DEF Holds, Exact, Syncing
<1>5. RestType'
  BY DEF DriveInv, RestType, EventType
<1> QED BY <1>1, <1>2, <1>3, <1>4, <1>5, TaskGoesOn

LEMMA PhotoIsRemoved ==
  ASSUME DriveInv, NEW t \in D!Tasks, NEW p \in Slots, D!RemovePhoto(t, p) PROVE DriveInv'
<1> DEFINE k == task[t]
           new == [k EXCEPT !.photos = k.photos \ {p}]
<1> USE DEF D!RemovePhoto, D!Step, D!counters
<1>1. k \in D!Task /\ Holds(k, where) /\ k.pc = "removing" /\ (~overlapped => Exact(k, where, row))
  BY DEF DriveInv, TasksHold
<1>2. /\ new \in D!Task /\ new.pc = "removing" /\ new.folder = k.folder
      /\ new.photos = k.photos \ {p}
  BY <1>1 DEF D!Task
<1>3. task' = [task EXCEPT ![t] = new]
  OBVIOUS
<1> HIDE DEF new
<1>4. row \in [Slots -> D!Row] /\ row' = [row EXCEPT ![p] = D!NoRow] /\ D!NoRow \in D!Row
      /\ ~D!NoRow.live
  BY DEF DriveInv, Tables, D!NoRow, D!Row
<1>5. Tables(where', row') /\ Grows(where')
  BY <1>4 DEF DriveInv, Tables, Used, Grows
<1>6. Holds(new, where)
  BY <1>1, <1>2 DEF Holds, Syncing
<1>7. ~overlapped => Exact(new, where, row')
  <2>1. k.photos \subseteq Slots
    BY <1>1 DEF D!Task
  <2> QED BY <1>1, <1>2, <1>4, <2>1 DEF Exact
<1>8. RestType'
  BY DEF DriveInv, RestType, EventType
<1> QED BY <1>1, <1>2, <1>3, <1>5, <1>6, <1>7, <1>8, TaskSteps

\* A task ends, done or not.
LEMMA TaskEnds ==
  ASSUME DriveInv, NEW t \in D!Tasks, NEW from \in D!PCs \ {"idle"}, D!Finish(t, from),
         UNCHANGED <<where, row, event, ingests>>, due' \in BOOLEAN, faults' \in 0..MaxFaults
  PROVE  DriveInv'
<1> USE DEF D!Finish, D!Step
<1>1. RestType'
  BY DEF DriveInv, RestType, EventType
<1> QED BY <1>1, IdleHolds, TaskGoesOn

LEMMA SyncEnds ==
  ASSUME DriveInv, NEW t \in D!Tasks,
         D!Stamp(t) \/ D!SyncFails(t) \/ \E p \in Slots : D!RemoveThrows(t, p)
  PROVE  DriveInv'
<1> USE DEF D!counters
<1>1. faults \in 0..MaxFaults /\ due \in BOOLEAN /\ MaxFaults \in Nat
  BY DEF DriveInv, RestType, D!DriveConstants
<1>2. CASE D!Stamp(t)
  <2>1. PICK from \in {"removing", "connecting"} : D!Finish(t, from)
    BY <1>2 DEF D!Stamp
  <2>2. UNCHANGED <<where, row, event, ingests, faults>> /\ due' = FALSE
    BY <1>2 DEF D!Stamp
  <2> QED BY <1>1, <2>1, <2>2, TaskEnds DEF D!PCs
<1>3. CASE \E p \in Slots : D!RemoveThrows(t, p)
  BY <1>1, <1>3, TaskEnds DEF D!RemoveThrows, D!PCs
<1>4. CASE D!SyncFails(t)
  <2>1. PICK from \in {"autoList", "diff", "importing", "create", "removing", "list", "connect",
                       "connecting", "connectCreate"} : D!Finish(t, from)
    BY <1>4 DEF D!SyncFails
  <2>2. /\ UNCHANGED <<where, row, event, ingests>> /\ faults < MaxFaults /\ faults' = faults + 1
        /\ due' \in {FALSE, due}
    BY <1>4 DEF D!SyncFails
  <2>3. faults' \in 0..MaxFaults
    BY <1>1, <2>2
  <2> QED BY <1>1, <2>1, <2>2, <2>3, TaskEnds DEF D!PCs
<1> QED BY <1>2, <1>3, <1>4

-----------------------------------------------------------------------------
(* Captures, backups and the reclaim.                                      *)

LEMMA CaptureStarts == ASSUME DriveInv, NEW t \in D!Tasks, D!StartCapture(t) PROVE DriveInv'
<1> DEFINE new == [D!Idle EXCEPT !.folder = D!Target,
                     !.pc = IF D!Target = NoFolder THEN "insert" ELSE "upload"]
<1> USE DEF D!StartCapture
<1>1. D!Target \in Folders \cup {NoFolder}
  BY DEF D!Target, DriveInv, RestType, EventType
<1>2. /\ new \in D!Task /\ new.folder = D!Target /\ new.file = NoItem
      /\ new.pc = IF D!Target = NoFolder THEN "insert" ELSE "upload"
  BY <1>1 DEF D!Idle, D!Task, D!PCs
<1>3. Holds(new, where)
  BY <1>1, <1>2 DEF Holds, Syncing
<1>4. RestType'
  BY DEF DriveInv, RestType, EventType, D!DriveConstants
<1>5. new.pc \notin {"diff", "importing", "create", "removing"}
  BY <1>2
<1> HIDE DEF new
<1> QED BY <1>2, <1>3, <1>4, <1>5, TaskStarts DEF new

LEMMA BackupStarts ==
  ASSUME DriveInv, NEW t \in D!Tasks, NEW p \in Slots, D!StartBackup(t, p) \/ D!StartReclaim(t, p)
  PROVE  DriveInv'
<1> USE DEF D!counters
<1>1. RestType' /\ UNCHANGED <<where, row>>
  BY DEF D!StartBackup, D!StartReclaim, DriveInv, RestType, EventType
<1>2. CASE D!StartBackup(t, p)
  <2> DEFINE new == [D!Idle EXCEPT !.pc = "backup", !.folder = D!Target, !.photos = {p}]
  <2>1. D!Target \in Folders
    BY <1>2 DEF D!StartBackup, D!Target, DriveInv, RestType, EventType
  <2>2. new \in D!Task /\ new.pc = "backup" /\ new.folder = D!Target
    BY <2>1 DEF D!Idle, D!Task, D!PCs
  <2>3. Holds(new, where)
    BY <2>1, <2>2 DEF Holds, Syncing
  <2>4. D!Start(t, new)
    BY <1>2 DEF D!StartBackup
  <2> HIDE DEF new
  <2> QED BY <1>1, <2>2, <2>3, <2>4, TaskStarts
<1>3. CASE D!StartReclaim(t, p)
  <2> DEFINE pc == IF row[p].local THEN "delete" ELSE "reclaim"
             new == [D!Idle EXCEPT !.photos = {p}, !.file = row[p].file, !.pc = pc]
  <2>1. row[p].file \in Items \cup {NoItem}
    BY DEF DriveInv, Tables, D!Row
  <2>2. new \in D!Task /\ new.pc = pc /\ pc \in {"delete", "reclaim"}
    BY <2>1 DEF D!Idle, D!Task, D!PCs
  <2>3. Holds(new, where)
    BY <2>2 DEF Holds, Syncing
  <2>4. D!Start(t, new)
    BY <1>3 DEF D!StartReclaim
  <2> HIDE DEF new, pc
  <2> QED BY <1>1, <2>2, <2>3, <2>4, TaskStarts
<1> QED BY <1>2, <1>3

\* An upload puts an unused file in the folder the task chose when it began.
LEMMA FileIsUploaded ==
  ASSUME DriveInv, NEW t \in D!Tasks, NEW f \in Items, D!CaptureUpload(t, f) \/ D!BackupUpload(t, f)
  PROVE  DriveInv'
<1> DEFINE k == task[t]
           pc == IF k.pc = "upload" THEN "insert" ELSE "record"
           new == [k EXCEPT !.pc = pc, !.file = f]
<1> USE DEF D!CaptureUpload, D!BackupUpload, D!Upload, D!Step, D!counters
<1>1. k \in D!Task /\ Holds(k, where) /\ k.pc \in {"upload", "backup"} /\ k.folder \in Folders
  BY DEF DriveInv, TasksHold, Holds
<1>2. /\ task' = [task EXCEPT ![t] = new] /\ where[f] = "unused"
      /\ where' = [where EXCEPT ![f] = k.folder] /\ UNCHANGED <<overlapped, row>>
  BY <1>1
<1>3. new \in D!Task /\ new.pc = pc /\ pc \in {"insert", "record"} /\ new.file = f /\ new.folder = k.folder
  BY <1>1 DEF D!Task, D!PCs
<1> HIDE DEF new, pc
<1>4. where \in [Items -> D!Places] /\ "unused" \notin Folders
  BY DEF DriveInv, Tables, D!DriveConstants
<1>5. Tables(where', row') /\ Grows(where')
  BY <1>1, <1>2, <1>4 DEF DriveInv, Tables, Used, Grows, D!Places, D!Row
<1>6. Holds(new, where') /\ Exact(new, where', row')
  BY <1>1, <1>2, <1>3, <1>4 DEF Holds, Exact, Syncing
<1>7. RestType'
  BY DEF DriveInv, RestType, EventType
<1> QED BY <1>1, <1>2, <1>3, <1>5, <1>6, <1>7, TaskSteps

LEMMA CaptureIsKept == ASSUME DriveInv, NEW t \in D!Tasks, D!CaptureLocally(t) PROVE DriveInv'
<1> DEFINE k == task[t]
           new == [k EXCEPT !.pc = "insert"]
<1> USE DEF D!CaptureLocally, D!Goto, D!Step, D!counters
<1>1. k \in D!Task /\ Holds(k, where) /\ k.pc = "upload"
  BY DEF DriveInv, TasksHold
<1>2. new \in D!Task /\ new.pc = "insert" /\ new.file = NoItem
  BY <1>1 DEF D!Task, D!PCs, Holds
<1>3. task' = [task EXCEPT ![t] = new] /\ UNCHANGED <<overlapped, where, row>>
  OBVIOUS
<1> HIDE DEF new
<1>4. Holds(new, where) /\ Exact(new, where, row)
  BY <1>2 DEF Holds, Exact, Syncing
<1>5. RestType'
  BY DEF DriveInv, RestType, EventType
<1> QED BY <1>1, <1>2, <1>3, <1>4, <1>5, TaskGoesOn

LEMMA CaptureIsInserted == ASSUME DriveInv, NEW t \in D!Tasks, D!CaptureInsert(t) PROVE DriveInv'
<1> DEFINE k == task[t]
           made == [live |-> TRUE, file |-> k.file, local |-> k.file = NoItem,
                    platform |-> k.file # NoItem]
<1>1. /\ D!Insert(made) /\ k.pc = "insert" /\ task' = [task EXCEPT ![t] = D!Idle]
      /\ UNCHANGED <<overlapped, where, event, due, ingests, faults>>
  BY DEF D!CaptureInsert, D!Finish, D!Step, D!counters
<1>2. k \in D!Task /\ Holds(k, where)
  BY DEF DriveInv, TasksHold
<1>3. made \in D!Row /\ made.file = k.file /\ (k.file # NoItem => where[k.file] # "unused")
  BY <1>1, <1>2 DEF D!Row, D!Task, Holds
<1> HIDE DEF made
<1>4. Tables(where', row') /\ Grows(where') /\ RestType'
  BY <1>1, <1>3, RowIsInserted DEF Grows, DriveInv, RestType, EventType
<1> QED BY <1>1, <1>4, IdleHolds, TaskSteps

LEMMA BackupFinishes ==
  ASSUME DriveInv, NEW t \in D!Tasks,
         \/ D!BackupFails(t)
         \/ \E p \in Slots : D!BackupRecord(t, p) \/ D!ReclaimUpdate(t, p)
  PROVE  DriveInv'
<1> DEFINE k == task[t]
<1>1. k \in D!Task /\ Holds(k, where) /\ task' = [task EXCEPT ![t] = D!Idle] /\ k.pc # "idle"
      /\ UNCHANGED <<overlapped, where, event, due, ingests, faults>>
  BY DEF D!BackupFails, D!BackupRecord, D!ReclaimUpdate, D!Finish, D!Step, D!counters, DriveInv,
     TasksHold
<1>2. Tables(where, row')
  <2>1. CASE D!BackupFails(t)
    BY <2>1 DEF D!BackupFails, DriveInv
  <2>2. ASSUME NEW p \in Slots, D!BackupRecord(t, p) PROVE Tables(where, row')
    <3>1. k.file \in Items /\ where[k.file] # "unused"
      BY <1>1, <2>2 DEF D!BackupRecord, D!Finish, D!Step, Holds, DriveInv, D!DriveConstants
    <3>2. row' = IF row[p].live
                   THEN [row EXCEPT ![p].file = k.file, ![p].platform = TRUE] ELSE row
      BY <2>2 DEF D!BackupRecord
    <3> QED BY <3>1, <3>2 DEF DriveInv, Tables, Used, D!Row
  <2>3. ASSUME NEW p \in Slots, D!ReclaimUpdate(t, p) PROVE Tables(where, row')
    <3>1. row' = IF row[p].live
                   THEN [row EXCEPT ![p].file = NoItem, ![p].local = TRUE] ELSE row
      BY <2>3 DEF D!ReclaimUpdate
    <3> QED BY <3>1 DEF DriveInv, Tables, Used, D!Row
  <2> QED BY <2>1, <2>2, <2>3
<1>3. Grows(where') /\ RestType'
  BY <1>1 DEF Grows, DriveInv, RestType, EventType
<1> QED BY <1>1, <1>2, <1>3, IdleHolds, TaskSteps

LEMMA ReclaimDownloads == ASSUME DriveInv, NEW t \in D!Tasks, D!ReclaimDownload(t) PROVE DriveInv'
<1> DEFINE k == task[t]
           new == [k EXCEPT !.pc = "delete"]
<1>1. k \in D!Task /\ k.pc = "reclaim" /\ UNCHANGED <<overlapped, where, row>>
      /\ (task' = [task EXCEPT ![t] = new] \/ task' = [task EXCEPT ![t] = D!Idle])
  BY DEF D!ReclaimDownload, D!Goto, D!Finish, D!Step, DriveInv, TasksHold
<1>2. new \in D!Task /\ new.pc = "delete"
  BY <1>1 DEF D!Task, D!PCs
<1> HIDE DEF new
<1>3. Holds(new, where) /\ Exact(new, where, row)
  BY <1>2 DEF Holds, Exact, Syncing
<1>4. RestType'
  BY DEF D!ReclaimDownload, D!counters, DriveInv, RestType, EventType
<1> QED BY <1>1, <1>2, <1>3, <1>4, IdleHolds, TaskGoesOn

LEMMA ReclaimDeletes ==
  ASSUME DriveInv, NEW t \in D!Tasks, NEW p \in Slots, D!ReclaimDelete(t, p) PROVE DriveInv'
<1> DEFINE k == task[t]
           new == [k EXCEPT !.pc = "update"]
<1>1. k \in D!Task /\ k.pc = "delete" /\ overlapped' = overlapped
  BY DEF D!ReclaimDelete, D!Goto, D!Finish, D!Step, DriveInv, TasksHold
<1>2. new \in D!Task /\ new.pc = "update"
  BY <1>1 DEF D!Task, D!PCs
<1>3. Holds(new, where') /\ Exact(new, where', row')
  BY <1>2 DEF Holds, Exact, Syncing
<1>4. RestType'
  BY DEF D!ReclaimDelete, D!counters, DriveInv, RestType, EventType
<1>5. CASE task' = [task EXCEPT ![t] = new] /\ where' = [where EXCEPT ![k.file] = "gone"] /\ row' = row
  <2>1. Tables(where', row') /\ Grows(where')
    BY <1>5 DEF DriveInv, Tables, Used, Grows, D!Places, D!Row
  <2> HIDE DEF new
  <2> QED BY <1>1, <1>2, <1>3, <1>4, <1>5, <2>1, TaskSteps
<1>6. CASE /\ task' = [task EXCEPT ![t] = D!Idle] /\ where' = where
           /\ row' = IF row[p].live THEN [row EXCEPT ![p].local = TRUE] ELSE row
  <2>1. Tables(where', row') /\ Grows(where')
    BY <1>6 DEF DriveInv, Tables, Used, Grows, D!Row
  <2> QED BY <1>1, <1>4, <1>6, <2>1, IdleHolds, TaskSteps
<1> QED BY <1>5, <1>6 DEF D!ReclaimDelete, D!Goto, D!Finish, D!Step

-----------------------------------------------------------------------------
(* Every step.                                                             *)

LEMMA DriveRestarts == ASSUME DriveInv, D!Crash PROVE DriveInv'
<1> USE DEF D!Crash
<1>1. TasksHold' /\ Alone' /\ \A t \in D!Tasks : Exact(task'[t], where', row')
  BY IdleHolds DEF TasksHold, Alone
<1>2. RestType'
  BY DEF DriveInv, RestType, EventType, D!DriveConstants
<1> QED BY <1>1, <1>2 DEF DriveInv

LEMMA DriveStart == ASSUME D!DriveConstants, D!Init PROVE DriveInv
<1> USE DEF D!Init
<1>1. Tables(where, row)
  BY DEF Tables, Used, D!NoRow, D!Row, D!Places
<1>2. TasksHold /\ Alone /\ \A t \in D!Tasks : Exact(task[t], where, row)
  BY IdleHolds DEF TasksHold, Alone
<1>3. ingests = 0 /\ faults = 0 /\ due = TRUE /\ overlapped = FALSE
      /\ event = [folder |-> NoFolder, export |-> NoFolder, autoSync |-> FALSE]
  OBVIOUS
<1>4. RestType
  BY <1>3 DEF RestType, EventType, D!DriveConstants
<1> QED BY <1>1, <1>2, <1>3, <1>4 DEF DriveInv

LEMMA DriveStep == ASSUME DriveInv, [D!Next]_(D!vars) PROVE DriveInv'
<1>1. CASE D!Studio
  BY <1>1, FileIsAdded, FileIsTrashed, RowIsDeleted, SettingsChange DEF D!Studio
<1>2. CASE D!Begin
  BY <1>2, ConnectStarts, SyncStarts, CaptureStarts, BackupStarts DEF D!Begin, D!Tasks, D!Syncs
<1>3. ASSUME NEW t \in D!Syncs, D!SyncStep(t) \/ D!SyncFails(t) PROVE DriveInv'
  <2>1. t \in D!Tasks
    BY DEF D!Tasks
  <2> QED BY <1>3, <2>1, EventIsConnected, FolderIsListed, RowsAreCompared, RowIsCreated,
             RemovingStarts, SyncEnds, FileIsSkipped, FileIsDownloaded, PhotoIsRemoved DEF D!SyncStep
<1>4. ASSUME NEW t \in Movers, D!MoverStep(t) PROVE DriveInv'
  <2>1. t \in D!Tasks
    BY DEF D!Tasks
  <2> QED BY <1>4, <2>1, CaptureIsKept, CaptureIsInserted, BackupFinishes, ReclaimDownloads,
             FileIsUploaded, ReclaimDeletes DEF D!MoverStep
<1>5. CASE D!DayPasses \/ D!Crash
  BY <1>5, SettingsChange, DriveRestarts
<1>6. CASE \E t \in Timers : D!StartAutoSync(t)
  BY <1>6, SyncStarts DEF D!Tasks, D!Syncs
<1>7. CASE UNCHANGED D!vars
  <2>1. UNCHANGED <<where, row, event, due, task, ingests, faults, overlapped>>
    BY <1>7 DEF D!vars
  <2> QED BY <2>1, StudioActs DEF DriveInv, RestType, EventType, Grows
<1> QED BY <1>1, <1>2, <1>3, <1>4, <1>5, <1>6, <1>7 DEF D!Next

\* The Drive folder, the rows and the jobs hold what the schema and the handlers put
\* there, whatever fails or restarts.
THEOREM DriveTyped == D!DriveConstants /\ D!Spec => []D!TypeOK
<1>1. D!DriveConstants /\ D!Init => DriveInv
  BY DriveStart
<1>2. DriveInv /\ [D!Next]_(D!vars) => DriveInv'
  BY DriveStep
<1>3. DriveInv => D!TypeOK
  BY DriveInvTypes
<1> QED BY <1>1, <1>2, <1>3, PTL DEF D!Spec

\* Until two jobs have been under way together, a sync imports no file that a row shows
\* and removes no photo whose file is in its folder (driveSync.js:200-207).
THEOREM SyncsAreExact == D!DriveConstants /\ D!Spec => D!SyncExact
<1> DEFINE Exactly ==
      ~overlapped => \A t \in D!Syncs :
        /\ task[t].pc = "create" /\ D!CreateRow(t)
             => ~\E p \in Slots : row[p].live /\ row[p].file = task[t].file
        /\ \A p \in Slots : D!RemovePhoto(t, p) => where[row[p].file] # task[t].folder
<1>1. D!DriveConstants /\ D!Init => DriveInv
  BY DriveStart
<1>2. DriveInv /\ [D!Next]_(D!vars) => DriveInv'
  BY DriveStep
<1>3. DriveInv => Exactly
  BY DEF DriveInv, Exact, Shown, D!Tasks, D!RemovePhoto, D!Step
<1>4. Exactly => [Exactly]_(D!vars)
  OBVIOUS
<1> QED BY <1>1, <1>2, <1>3, <1>4, PTL DEF D!Spec, D!SyncExact


=============================================================================
