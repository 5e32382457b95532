--------------------------- MODULE PhotoOriginals ---------------------------
(***************************************************************************)
(* Where the full-resolution original of a photo lives, and who moves or   *)
(* deletes it: uploads, PandaShoots captures, the backup-existing job, the *)
(* default retention sweep, the Drive backup retention sweep, the manual   *)
(* reclaim and the two deletions.                                          *)
(*                                                                         *)
(* The server is one Node process: a piece of code runs alone until it     *)
(* awaits, so an action is what happens between two awaits.  Every job     *)
(* works on the rows it listed when it started (job[j].seen), which may be *)
(* stale when it acts on them.  One event is modelled: no job touches two. *)
(***************************************************************************)
EXTENDS Integers

CONSTANTS
  Photos,           \* photos of the event
  Files,            \* ids Google Drive may give to uploaded files
  BackupJobs,       \* POST /drive-backup/backup-existing jobs
  ReclaimJobs,      \* POST /drive-backup/reclaim-now requests
  BackupSweeps,     \* hourly runs of runDriveBackupRetentionSweep
  RetentionSweeps,  \* hourly runs of runPhotoRetentionSweep
  PhotoDeleters,    \* DELETE /photos/:photoId requests
  EventDeleters,    \* runs of deleteEventCascade
  ReclaimAfter,     \* days, RECLAIM_AFTER_MS
  PurgeAfter,       \* days, PURGE_AFTER_MS
  RetentionDays,    \* effectivePhotoRetentionDays of the owner
  MaxDay,           \* bound: the clock stops here
  MaxCrashes,       \* bound: restarts of the server
  NoPhoto, NoFile

Jobs == BackupJobs \cup ReclaimJobs \cup BackupSweeps \cup RetentionSweeps
          \cup PhotoDeleters \cup EventDeleters

ASSUME DaysAssumption ==
  /\ ReclaimAfter \in Nat /\ PurgeAfter \in Nat /\ ReclaimAfter < PurgeAfter
  /\ RetentionDays \in Nat /\ MaxDay \in Nat /\ MaxCrashes \in Nat
ASSUME SentinelAssumption == NoPhoto \notin Photos /\ NoFile \notin Files

VARIABLES
  photo,      \* photo[p]: the Photo row, and the row an ingest is about to insert
  disk,       \* disk[p]: the paths under which p's original is on the local disk
  drive,      \* drive[f]: what became of the Drive file f
  copyOf,     \* copyOf[f]: the photo whose bytes f holds
  job,        \* job[j]: program counter and locals of job j
  eventRow,   \* the Event row exists
  today,      \* the clock, in days
  crashes,    \* restarts so far
  condemned,  \* history: photos a user deleted or a sweep listed for purging
  since,      \* history: the day p first entered platform backup
  astray      \* history: photos whose local file no row may lead to (Strays)

vars == <<photo, disk, drive, copyOf, job, eventRow, today, crashes, condemned, since, astray>>

Never == -1                       \* a DateTime column that is null
Paths == {"originals", "shoots"}  \* events/<id>/ and events/<id>/shoots/
Days  == 0..MaxDay

Row == [state : {"absent", "pending", "live", "gone"},
        storagePath : Paths \cup {"none"}, driveFileId : Files \cup {NoFile},
        platform : BOOLEAN, startedAt : Days \cup {Never},
        expiresAt : 0..(MaxDay + RetentionDays) \cup {Never}]

NoRow == [state |-> "absent", storagePath |-> "none", driveFileId |-> NoFile,
          platform |-> FALSE, startedAt |-> Never, expiresAt |-> Never]
GoneRow == [NoRow EXCEPT !.state = "gone"]

PCs == {"idle", "backup", "upload", "record", "reclaim", "download", "write",
        "delete", "update", "keep", "purge", "purgeLocal", "purgeRow", "expire",
        "expireRow", "photoRow", "photoFile", "event", "eventRow", "eventDir"}

Job == [pc : PCs, seen : [Photos -> Row], cur : Photos \cup {NoPhoto},
        file : Files \cup {NoFile}]
Idle == [pc |-> "idle", seen |-> [p \in Photos |-> NoRow], cur |-> NoPhoto,
         file |-> NoFile]

Init ==
  /\ photo = [p \in Photos |-> NoRow]
  /\ disk = [p \in Photos |-> {}]
  /\ drive = [f \in Files |-> "unused"]
  /\ copyOf = [f \in Files |-> NoPhoto]
  /\ job = [j \in Jobs |-> Idle]
  /\ eventRow = TRUE
  /\ today = 0
  /\ crashes = 0
  /\ condemned = {}
  /\ since = [p \in Photos |-> Never]
  /\ astray = {}

-----------------------------------------------------------------------------
(* Steps shared by the jobs.                                               *)

Live(p) == photo[p].state = "live"
Gone(p) == photo[p].state = "gone"

\* History: the day p entered backup, unless it already had one.
Entered(p) == [since EXCEPT ![p] = IF @ = Never THEN today ELSE @]

\* The rows findMany returns, copied into the job: what it will act on later.
Listing(S) == [p \in Photos |-> IF p \in S THEN photo[p] ELSE NoRow]
Todo(j) == {p \in Photos : job[j].seen[p].state = "live"}

Start(j, S, pc) ==
  /\ job[j].pc = "idle"
  /\ job' = [job EXCEPT ![j] = [Idle EXCEPT !.pc = pc, !.seen = Listing(S)]]

Goto(j, pc) == job' = [job EXCEPT ![j].pc = pc]

\* Take the next photo of the loop.
Take(j, p, from, to) ==
  /\ job[j].pc = from
  /\ p \in Todo(j)
  /\ job' = [job EXCEPT ![j].pc = to, ![j].cur = p]

\* The iteration is over (done, or its error was caught): back to the loop.
NextPhoto(j, loop) ==
  job' = [job EXCEPT ![j] = [pc |-> loop, cur |-> NoPhoto, file |-> NoFile,
                             seen |-> [job[j].seen EXCEPT ![job[j].cur] = NoRow]]]

\* The same, for a photo that never became the current one.
Skip(j, p) == job' = [job EXCEPT ![j].seen = [@ EXCEPT ![p] = NoRow]]

Finish(j) == job' = [job EXCEPT ![j] = Idle]

Cur(j)  == job[j].cur
Seen(j) == job[j].seen[job[j].cur]

\* prisma.photo.update: throws, and changes nothing, when the row is gone.
UpdateRow(p, row) == photo' = IF Live(p) THEN [photo EXCEPT ![p] = row] ELSE photo

\* deleteFileFromDrive: a file that is already gone counts as deleted.
DriveDelete(f) ==
  drive' = IF f \in Files /\ drive[f] = "stored"
             THEN [drive EXCEPT ![f] = "deleted"] ELSE drive

\* uploadToDriveFolder: Drive stores the bytes under an id it never gave before.
DriveUpload(f, p) ==
  /\ drive[f] = "unused"
  /\ drive' = [drive EXCEPT ![f] = "stored"]
  /\ copyOf' = [copyOf EXCEPT ![f] = p]

\* getStorageProvider().deleteOriginal: a null or missing path is ignored.
Unlink(p, path) == disk' = [disk EXCEPT ![p] = @ \ {path}]

-----------------------------------------------------------------------------
(* Ingest: an upload, or a PandaShoots capture.  The row is pending from   *)
(* the moment its bytes are stored until photo.create.                     *)

LocalRow(path) ==
  [NoRow EXCEPT !.state = "pending", !.storagePath = path,
                !.expiresAt = today + RetentionDays]
DriveRow(f) ==
  [NoRow EXCEPT !.state = "pending", !.driveFileId = f, !.platform = TRUE]

\* writeOriginal of an upload, or writeShootsOriginal of a capture whose event
\* has no Drive backup or whose Drive upload failed.
WriteOriginal(p) ==
  /\ photo[p].state = "absent" /\ eventRow
  /\ \E path \in Paths :
       /\ disk' = [disk EXCEPT ![p] = @ \cup {path}]
       /\ photo' = [photo EXCEPT ![p] = LocalRow(path)]
  /\ UNCHANGED <<drive, copyOf, job, eventRow, today, crashes, condemned, since, astray>>

CaptureToDrive(p) ==
  /\ photo[p].state = "absent" /\ eventRow
  /\ \E f \in Files :
       /\ DriveUpload(f, p)
       /\ photo' = [photo EXCEPT ![p] = DriveRow(f)]
  /\ UNCHANGED <<disk, job, eventRow, today, crashes, condemned, since, astray>>

\* Bug variant: the backup clock is not started.
Inserted_Unstamped(row) == [row EXCEPT !.state = "live"]

Inserted(row) ==
  [row EXCEPT !.state = "live", !.startedAt = IF row.platform THEN today ELSE Never]

\* photo.create, which the foreign key refuses once the event is deleted.  (Any
\* other failure between the two leaves what a Crash leaves: files, no row.)
CreateRow(p) ==
  /\ photo[p].state = "pending"
  /\ photo' = [photo EXCEPT ![p] = IF eventRow THEN Inserted(photo[p]) ELSE GoneRow]
  /\ since' = IF eventRow /\ photo[p].platform THEN Entered(p) ELSE since
  /\ UNCHANGED <<disk, drive, copyOf, job, eventRow, today, crashes, condemned, astray>>

-----------------------------------------------------------------------------
(* POST /drive-backup/backup-existing and processBackupExistingJob.        *)

BackupListing == {p \in Photos : /\ Live(p) /\ photo[p].storagePath # "none"
                                 /\ ~photo[p].platform}

StartBackup(j) ==
  /\ eventRow
  /\ Start(j, BackupListing, "backup")
  /\ UNCHANGED <<photo, disk, drive, copyOf, eventRow, today, crashes, condemned, since, astray>>

\* fsp.readFile, skipping the photo when the file is not there.
BackupRead(j) ==
  /\ \/ \E p \in Photos :
          /\ Take(j, p, "backup", "upload")
          /\ job[j].seen[p].storagePath \in disk[p]
     \/ \E p \in Todo(j) :
          /\ job[j].pc = "backup"
          /\ job[j].seen[p].storagePath \notin disk[p]
          /\ Skip(j, p)
  /\ UNCHANGED <<photo, disk, drive, copyOf, eventRow, today, crashes, condemned, since, astray>>

BackupUpload(j) ==
  /\ job[j].pc = "upload"
  /\ \/ \E f \in Files :
          /\ DriveUpload(f, Cur(j))
          /\ job' = [job EXCEPT ![j].pc = "record", ![j].file = f]
     \/ NextPhoto(j, "backup") /\ UNCHANGED <<drive, copyOf>>   \* it failed
  /\ UNCHANGED <<photo, disk, eventRow, today, crashes, condemned, since, astray>>

BackedUp(row, f) ==
  [row EXCEPT !.driveFileId = f, !.platform = TRUE, !.startedAt = today]

BackupRecord(j) ==
  /\ job[j].pc = "record"
  /\ UpdateRow(Cur(j), BackedUp(photo[Cur(j)], job[j].file))
  /\ since' = IF Live(Cur(j)) THEN Entered(Cur(j)) ELSE since
  /\ NextPhoto(j, "backup")
  /\ UNCHANGED <<disk, drive, copyOf, eventRow, today, crashes, condemned, astray>>

-----------------------------------------------------------------------------
(* reclaimPhotos: pull the bytes back, delete the Drive copy, then say so  *)
(* in the row.  Both callers pass force, so the age is only checked by the *)
(* sweep's query.                                                          *)

OnDrive(p) == Live(p) /\ photo[p].platform /\ photo[p].driveFileId # NoFile
Aged(p, days) == photo[p].startedAt # Never /\ photo[p].startedAt + days < today

StartReclaimNow(j) ==
  /\ eventRow
  /\ Start(j, {p \in Photos : OnDrive(p)}, "reclaim")
  /\ UNCHANGED <<photo, disk, drive, copyOf, eventRow, today, crashes, condemned, since, astray>>

StartBackupSweep(j) ==
  /\ Start(j, {p \in Photos : OnDrive(p) /\ Aged(p, ReclaimAfter)}, "reclaim")
  /\ UNCHANGED <<photo, disk, drive, copyOf, eventRow, today, crashes, condemned, since, astray>>

HasLocalCopy(row) == row.storagePath # "none"
LocalPath(row) == IF row.storagePath # "none" THEN row.storagePath ELSE "shoots"

\* Bug variant: a photo is deleted from Drive without being pulled back.
ReclaimNext_NoDownload(j) ==
  /\ \E p \in Photos : Take(j, p, "reclaim", "delete")
  /\ UNCHANGED <<photo, disk, drive, copyOf, eventRow, today, crashes, condemned, since, astray>>

ReclaimNext(j) ==
  /\ \E p \in Photos :
       Take(j, p, "reclaim", IF HasLocalCopy(job[j].seen[p]) THEN "delete" ELSE "download")
  /\ UNCHANGED <<photo, disk, drive, copyOf, eventRow, today, crashes, condemned, since, astray>>

ReclaimDownload(j) ==
  /\ job[j].pc = "download"
  /\ \/ drive[Seen(j).driveFileId] = "stored" /\ Goto(j, "write")
     \/ NextPhoto(j, "reclaim")                                 \* it failed
  /\ UNCHANGED <<photo, disk, drive, copyOf, eventRow, today, crashes, condemned, since, astray>>

ReclaimWrite(j) ==
  /\ job[j].pc = "write"
  /\ disk' = [disk EXCEPT ![Cur(j)] = @ \cup {"shoots"}]
  /\ Goto(j, "delete")
  /\ UNCHANGED <<photo, drive, copyOf, eventRow, today, crashes, condemned, since, astray>>

ReclaimDelete(j) ==
  /\ job[j].pc = "delete"
  /\ \/ DriveDelete(Seen(j).driveFileId) /\ Goto(j, "update")
     \/ /\ UNCHANGED drive                                      \* it failed
        /\ IF HasLocalCopy(Seen(j)) THEN NextPhoto(j, "reclaim") ELSE Goto(j, "keep")
  /\ UNCHANGED <<photo, disk, copyOf, eventRow, today, crashes, condemned, since, astray>>

\* The reclaim has written a local file that the row does not name yet.
Unrecorded(j, p) == /\ job[j].pc \in {"delete", "update", "keep"} /\ Cur(j) = p
                    /\ ~HasLocalCopy(Seen(j))

\* History: what j is recording may end up unnamed, because the row is gone or
\* another job has the photo in its list.
Strays(j) ==
  {p \in Photos : /\ Unrecorded(j, p)
                  /\ ~Live(p) \/ \E k \in Jobs \ {j} : p \in Todo(k)}

\* Bug variant: the local path is not recorded.
Reclaimed_Pathless(row, seen) == [row EXCEPT !.driveFileId = NoFile]

\* The row after a reclaim: storagePath comes from the listing, not from the row.
Reclaimed(row, seen) == [row EXCEPT !.storagePath = LocalPath(seen), !.driveFileId = NoFile]

ReclaimUpdate(j) ==
  /\ job[j].pc = "update"
  /\ UpdateRow(Cur(j), Reclaimed(photo[Cur(j)], Seen(j)))
  /\ astray' = astray \cup Strays(j)
  /\ NextPhoto(j, "reclaim")
  /\ UNCHANGED <<disk, drive, copyOf, eventRow, today, crashes, condemned, since>>

\* The Drive copy could not be deleted: remember the local one for the retry.
ReclaimKeep(j) ==
  /\ job[j].pc = "keep"
  /\ UpdateRow(Cur(j), [photo[Cur(j)] EXCEPT !.storagePath = LocalPath(Seen(j))])
  /\ astray' = astray \cup Strays(j)
  /\ NextPhoto(j, "reclaim")
  /\ UNCHANGED <<disk, drive, copyOf, eventRow, today, crashes, condemned, since>>

-----------------------------------------------------------------------------
(* The second half of the Drive backup sweep: purgePhoto.                  *)

\* Bug variants: the wrong constant; only the photos still on Drive.
PurgeListing_ReclaimAge == {p \in Photos : Live(p) /\ photo[p].platform /\ Aged(p, ReclaimAfter)}
PurgeListing_OnDrive == {p \in Photos : OnDrive(p) /\ Aged(p, PurgeAfter)}

PurgeListing == {p \in Photos : Live(p) /\ photo[p].platform /\ Aged(p, PurgeAfter)}

SweepListPurge(j) ==
  /\ j \in BackupSweeps /\ job[j].pc = "reclaim" /\ Todo(j) = {}
  /\ job' = [job EXCEPT ![j] = [Idle EXCEPT !.pc = "purge", !.seen = Listing(PurgeListing)]]
  /\ condemned' = condemned \cup PurgeListing
  /\ UNCHANGED <<photo, disk, drive, copyOf, eventRow, today, crashes, since, astray>>

\* A failure of the Drive deletion is swallowed.
PurgeDrive(j) ==
  /\ \E p \in Photos :
       /\ Take(j, p, "purge", "purgeLocal")
       /\ DriveDelete(job[j].seen[p].driveFileId) \/ UNCHANGED drive
  /\ UNCHANGED <<photo, disk, copyOf, eventRow, today, crashes, condemned, since, astray>>

\* Bug variant: the local original is left behind.
PurgeLocal_Skipped(j) ==
  /\ job[j].pc = "purgeLocal"
  /\ Goto(j, "purgeRow")
  /\ UNCHANGED <<photo, disk, drive, copyOf, eventRow, today, crashes, condemned, since, astray>>

PurgeLocal(j) ==
  /\ job[j].pc = "purgeLocal"
  /\ Unlink(Cur(j), Seen(j).storagePath)
  /\ Goto(j, "purgeRow")
  /\ UNCHANGED <<photo, drive, copyOf, eventRow, today, crashes, condemned, since, astray>>

PurgeRow(j) ==
  /\ job[j].pc = "purgeRow"
  /\ UpdateRow(Cur(j), GoneRow)
  /\ NextPhoto(j, "purge")
  /\ UNCHANGED <<disk, drive, copyOf, eventRow, today, crashes, condemned, since, astray>>

-----------------------------------------------------------------------------
(* runPhotoRetentionSweep: the original goes, the row stays.               *)

Expired(row) == row.expiresAt # Never /\ row.expiresAt < today

\* Bug variant: the photos in Drive backup and the unexpired ones are listed too.
ExpiryListing_All == {p \in Photos : Live(p) /\ photo[p].storagePath # "none"}

ExpiryListing == {p \in Photos : /\ Live(p) /\ photo[p].storagePath # "none"
                                 /\ ~photo[p].platform /\ Expired(photo[p])}

StartRetention(j) ==
  /\ Start(j, ExpiryListing, "expire")
  /\ UNCHANGED <<photo, disk, drive, copyOf, eventRow, today, crashes, condemned, since, astray>>

ExpireFile(j) ==
  /\ \E p \in Photos :
       /\ Take(j, p, "expire", "expireRow")
       /\ Unlink(p, job[j].seen[p].storagePath)
  /\ UNCHANGED <<photo, drive, copyOf, eventRow, today, crashes, condemned, since, astray>>

ExpireRow(j) ==
  /\ job[j].pc = "expireRow"
  /\ UpdateRow(Cur(j), [photo[Cur(j)] EXCEPT !.storagePath = "none"])
  /\ NextPhoto(j, "expire")
  /\ UNCHANGED <<disk, drive, copyOf, eventRow, today, crashes, condemned, since, astray>>

-----------------------------------------------------------------------------
(* DELETE /photos/:photoId: the row first, then the local file.            *)

StartDeletePhoto(j, p) ==
  /\ Live(p)
  /\ job[j].pc = "idle"
  /\ job' = [job EXCEPT ![j] = [Idle EXCEPT !.pc = "photoRow", !.cur = p,
                                            !.seen = Listing({p})]]
  /\ condemned' = condemned \cup {p}
  /\ UNCHANGED <<photo, disk, drive, copyOf, eventRow, today, crashes, since, astray>>

DeletePhotoRow(j) ==
  /\ job[j].pc = "photoRow"
  /\ UpdateRow(Cur(j), GoneRow)
  /\ IF Live(Cur(j)) THEN Goto(j, "photoFile") ELSE Finish(j)   \* P2025: 500
  /\ UNCHANGED <<disk, drive, copyOf, eventRow, today, crashes, condemned, since, astray>>

DeletePhotoFile(j) ==
  /\ job[j].pc = "photoFile"
  /\ Unlink(Cur(j), Seen(j).storagePath)
  /\ Finish(j)
  /\ UNCHANGED <<photo, drive, copyOf, eventRow, today, crashes, condemned, since, astray>>

-----------------------------------------------------------------------------
(* deleteEventCascade: Drive copies, rows, the event, its directory.       *)

StartDeleteEvent(j) ==
  /\ eventRow
  /\ Start(j, {p \in Photos : OnDrive(p)}, "event")
  /\ condemned' = Photos
  /\ UNCHANGED <<photo, disk, drive, copyOf, eventRow, today, crashes, since, astray>>

DeleteEventDrive(j) ==
  /\ job[j].pc = "event"
  /\ \E p \in Todo(j) :
       /\ DriveDelete(job[j].seen[p].driveFileId) \/ UNCHANGED drive
       /\ Skip(j, p)
  /\ UNCHANGED <<photo, disk, copyOf, eventRow, today, crashes, condemned, since, astray>>

DeleteEventPhotos(j) ==
  /\ job[j].pc = "event" /\ Todo(j) = {}
  /\ photo' = [p \in Photos |-> IF Live(p) THEN GoneRow ELSE photo[p]]
  /\ Goto(j, "eventRow")
  /\ UNCHANGED <<disk, drive, copyOf, eventRow, today, crashes, condemned, since, astray>>

\* event.delete fails when the row is gone or a photo was created meanwhile.
DeleteEventRow(j) ==
  /\ job[j].pc = "eventRow"
  /\ IF eventRow /\ \A p \in Photos : ~Live(p)
       THEN eventRow' = FALSE /\ Goto(j, "eventDir") /\ UNCHANGED astray
       ELSE eventRow' = eventRow /\ Finish(j) /\ astray' = astray \cup {p \in Photos : Gone(p)}
  /\ UNCHANGED <<photo, disk, drive, copyOf, today, crashes, condemned, since>>

DeleteEventDir(j) ==
  /\ job[j].pc = "eventDir"
  /\ disk' = [p \in Photos |-> {}]
  /\ Finish(j)
  /\ UNCHANGED <<photo, drive, copyOf, eventRow, today, crashes, condemned, since, astray>>

-----------------------------------------------------------------------------
(* The environment.                                                        *)

\* A loop with nothing left returns; a Drive backup sweep first lists its purge.
EndJob(j) ==
  /\ Todo(j) = {}
  /\ \/ job[j].pc \in {"backup", "purge", "expire"}
     \/ job[j].pc = "reclaim" /\ j \notin BackupSweeps
  /\ Finish(j)
  /\ UNCHANGED <<photo, disk, drive, copyOf, eventRow, today, crashes, condemned, since, astray>>

\* The folder is shared as Editor: the studio owner may remove a file from it.
OwnerRemovesFile(f) ==
  /\ drive[f] = "stored"
  /\ drive' = [drive EXCEPT ![f] = "removed"]
  /\ UNCHANGED <<photo, disk, copyOf, job, eventRow, today, crashes, condemned, since, astray>>

\* A restart forgets every job and every row that was not inserted yet.
Crash ==
  /\ crashes < MaxCrashes
  /\ crashes' = crashes + 1
  /\ job' = [j \in Jobs |-> Idle]
  /\ photo' = [p \in Photos |-> IF photo[p].state = "pending" THEN GoneRow ELSE photo[p]]
  /\ UNCHANGED <<disk, drive, copyOf, eventRow, today, condemned, since, astray>>

Tick ==
  /\ today < MaxDay
  /\ today' = today + 1
  /\ UNCHANGED <<photo, disk, drive, copyOf, job, eventRow, crashes, condemned, since, astray>>

Ingest(p) == WriteOriginal(p) \/ CaptureToDrive(p) \/ CreateRow(p)
BackupStep(j) == StartBackup(j) \/ BackupRead(j) \/ BackupUpload(j) \/ BackupRecord(j)
ReclaimStep(j) == \/ ReclaimNext(j) \/ ReclaimDownload(j) \/ ReclaimWrite(j)
                  \/ ReclaimDelete(j) \/ ReclaimUpdate(j) \/ ReclaimKeep(j)
PurgeStep(j) == SweepListPurge(j) \/ PurgeDrive(j) \/ PurgeLocal(j) \/ PurgeRow(j)
RetentionStep(j) == StartRetention(j) \/ ExpireFile(j) \/ ExpireRow(j)
DeletePhotoStep(j) == \/ \E p \in Photos : StartDeletePhoto(j, p)
                      \/ DeletePhotoRow(j) \/ DeletePhotoFile(j)
DeleteEventStep(j) == \/ StartDeleteEvent(j) \/ DeleteEventDrive(j)
                      \/ DeleteEventPhotos(j) \/ DeleteEventRow(j) \/ DeleteEventDir(j)

Next ==
  \/ \E p \in Photos : Ingest(p)
  \/ \E j \in BackupJobs : BackupStep(j)
  \/ \E j \in ReclaimJobs : StartReclaimNow(j) \/ ReclaimStep(j)
  \/ \E j \in BackupSweeps : StartBackupSweep(j) \/ ReclaimStep(j) \/ PurgeStep(j)
  \/ \E j \in RetentionSweeps : RetentionStep(j)
  \/ \E j \in PhotoDeleters : DeletePhotoStep(j)
  \/ \E j \in EventDeleters : DeleteEventStep(j)
  \/ \E j \in Jobs : EndJob(j)
  \/ \E f \in Files : OwnerRemovesFile(f)
  \/ Crash \/ Tick

Spec == Init /\ [][Next]_vars

\* The sweeps are timers of the server: they start every hour and what they
\* await returns; days pass.  Nothing is assumed of requests or of Drive.
FairSpec ==
  /\ Spec
  /\ WF_vars(Tick)
  /\ \A j \in BackupSweeps :
       WF_vars(StartBackupSweep(j) \/ ReclaimStep(j) \/ PurgeStep(j) \/ EndJob(j))

-----------------------------------------------------------------------------
(* Properties.                                                             *)

\* The types of the state; a platform backup always has its clock started.
TypeOK ==
  /\ photo \in [Photos -> Row]
  /\ \A p \in Photos : Live(p) /\ photo[p].platform => photo[p].startedAt # Never
  /\ disk \in [Photos -> SUBSET Paths]
  /\ drive \in [Files -> {"unused", "stored", "deleted", "removed"}]
  /\ copyOf \in [Files -> Photos \cup {NoPhoto}]
  /\ job \in [Jobs -> Job]
  /\ eventRow \in BOOLEAN
  /\ today \in Days
  /\ crashes \in 0..MaxCrashes
  /\ condemned \in SUBSET Photos
  /\ since \in [Photos -> Days \cup {Never}]
  /\ astray \in SUBSET Photos

\* Where the bytes of p still are, anywhere.
HasCopy(p) == disk[p] # {} \/ \E f \in Files : copyOf[f] = p /\ drive[f] \in {"stored", "removed"}

\* No interleaving of jobs loses the bytes of a photo whose retention has not
\* run out, unless a user deleted it or its purge fell due
\* (driveBackupRetention.js reclaimPhotos and purgePhoto, photoRetention.js).
OriginalSurvives ==
  \A p \in Photos :
    Live(p) /\ p \notin condemned /\ ~Expired(photo[p]) => HasCopy(p)

\* The row leads to a copy: the local file, the Drive file (unless the studio
\* removed it), or the file a reclaim has written and is about to record.
Referenced(p) ==
  \/ photo[p].storagePath \in disk[p]
  \/ photo[p].driveFileId \in Files /\ drive[photo[p].driveFileId] \in {"stored", "removed"}
  \/ \E j \in Jobs : /\ job[j].pc = "update" /\ Cur(j) = p
                     /\ LocalPath(Seen(j)) \in disk[p]

\* The row of a photo the studio still has leads to its bytes.
Reachable ==
  \A p \in Photos :
    Live(p) /\ p \notin condemned /\ ~Expired(photo[p]) => Referenced(p)

\* As long as the server was not restarted, no interleaving leaves a row
\* pointing only at what is gone, so the photo can be downloaded from PandaSpot.
OriginalReachable == crashes = 0 => Reachable

\* A photo row disappears only because a user deleted it or because its seven
\* days in Drive backup were over, counted from the day it first entered backup,
\* however stale the list of the purge and however often backup-existing jobs
\* upload it again (driveBackupRetention.js runDriveBackupRetentionSweep).
RowsGoOnlyWhenDue ==
  [][\A p \in Photos :
       Live(p) /\ ~Live(p)' =>
         \/ since[p] # Never /\ since[p] + PurgeAfter < today
         \/ \E j \in Jobs : job[j].pc = "event" \/ (job[j].pc = "photoRow" /\ Cur(j) = p)]_vars

\* The deletion that took the row, or takes the event, has its files still to do.
Unlinking(j, p) == \/ job[j].pc = "photoFile" /\ Cur(j) = p
                   \/ job[j].pc \in {"eventRow", "eventDir"}

\* Without a restart, no file outlives its row, whatever purges, sweeps, reclaims,
\* backups and deletions meet: except the file a reclaim wrote while another job
\* had the photo in its list or after the row was gone, and those of an event
\* whose own row could not be deleted (deleteOriginal, deleteEventCascade).
NoOrphanFile ==
  crashes = 0 =>
    \A p \in Photos \ astray :
      Gone(p) /\ disk[p] # {} => \E j \in Jobs : Unlinking(j, p) \/ Unrecorded(j, p)

\* A photo in Drive backup is purged from PandaSpot in the end, even when every
\* call to Drive fails, if its seven days are over before the clock stops and no
\* later upload of another backup-existing job starts them again.
EventuallyPurged ==
  \A p \in Photos, d \in Days :
    d + PurgeAfter < MaxDay =>
      (Live(p) /\ photo[p].platform /\ photo[p].startedAt = d
         ~> ~Live(p) \/ photo[p].startedAt # d)

-----------------------------------------------------------------------------
(* The inductive invariant behind OriginalSurvives.                        *)

\* The photos whose bytes the system still owes to the studio.
Kept(p) == /\ photo[p].state \in {"live", "pending"}
           /\ p \notin condemned
           /\ ~Expired(photo[p])

\* A Drive id found in a row, a listing or a local names a file of that photo.
Owned(f, p) == f \in Files => copyOf[f] = p /\ drive[f] # "unused"

RowSafe ==
  \A p \in Photos :
    Kept(p) => IF photo[p].storagePath = "none" THEN HasCopy(p)
                                                ELSE photo[p].storagePath \in disk[p]

RowsOwned == \A p \in Photos : Owned(photo[p].driveFileId, p)

\* The pcs inside an iteration: cur is the listed photo being worked on.
CurPCs == {"upload", "record", "download", "write", "delete", "update", "keep",
           "purgeLocal", "purgeRow", "expireRow", "photoRow", "photoFile"}

ListingSafe(j) ==
  /\ \A p \in Todo(j) : photo[p].state \in {"live", "gone"}
  /\ \A p \in Photos : Owned(job[j].seen[p].driveFileId, p)
  /\ job[j].pc \in CurPCs => Cur(j) \in Todo(j)
  /\ job[j].pc = "record" => Owned(job[j].file, Cur(j))

\* A reclaim acts on stale rows, yet never on a stale local path; before it
\* deletes from Drive, the local copy exists.
ReclaimSafe(j) ==
  /\ job[j].pc \in {"reclaim", "download", "write", "delete", "update", "keep"} =>
       \A p \in Todo(j) : Kept(p) /\ HasLocalCopy(job[j].seen[p]) =>
                           job[j].seen[p].storagePath \in disk[p]
  /\ job[j].pc \in {"delete", "update", "keep"} /\ Kept(Cur(j)) =>
       LocalPath(Seen(j)) \in disk[Cur(j)]

\* Whoever is about to delete local files works only on photos that are not kept.
DeleterSafe(j) ==
  /\ job[j].pc \in {"purge", "purgeLocal", "purgeRow", "photoRow", "photoFile"} =>
       Todo(j) \subseteq condemned
  /\ job[j].pc \in {"event", "eventRow", "eventDir"} => condemned = Photos
  /\ job[j].pc \in {"expire", "expireRow"} => \A p \in Todo(j) : ~Kept(p)

JobSafe(j) == ListingSafe(j) /\ ReclaimSafe(j) /\ DeleterSafe(j)

OriginalInv == TypeOK /\ RowSafe /\ RowsOwned /\ \A j \in Jobs : JobSafe(j)

=============================================================================
