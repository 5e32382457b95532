------------------------------ MODULE DriveSync ------------------------------
(***************************************************************************)
(* A Google Drive folder connected to an event: the initial import, the    *)
(* manual and the daily sync, which import new files and remove photos     *)
(* whose file is gone, and the other jobs that create, move or delete      *)
(* files and rows meanwhile: captures and backups that upload to the       *)
(* export folder, or to the same one, the reclaim, the studio's deletions. *)
(*                                                                         *)
(* An action is what happens between two awaits.  The loops of a backup    *)
(* and of a reclaim are one task per row.  PhotoOriginals models in full   *)
(* where the bytes of an original are; here only the Drive file matters.   *)
(***************************************************************************)
EXTENDS Integers

CONSTANTS
  Files,       \* ids of Drive files
  Photos,      \* slots for rows: a bound on the rows that exist at once
  Folders,     \* Drive folders the studio may connect
  Timers,      \* hourly ticks of startAutoSyncScheduler
  Requests,    \* POST /drive/connect and /drive/sync, with their jobs
  Movers,      \* captures, backup-existing and reclaim iterations
  MaxIngests,  \* bound: connects and captures in all
  MaxFaults,   \* bound: restarts, and jobs that fail for a reason of their own
  NoFile, NoFolder

\* The bounds are numbers; what stands for no file is none, nor is what became of a
\* file that is in no folder the id of one.
DriveConstants ==
  /\ MaxIngests \in Nat /\ MaxFaults \in Nat
  /\ NoFile \notin Files /\ "unused" \notin Folders /\ "gone" \notin Folders
ASSUME DriveAssumption == DriveConstants

Syncs == Timers \cup Requests   \* a task may be in Requests and in Movers
Tasks == Syncs \cup Movers

VARIABLES
  where,      \* where[f]: the folder of Drive file f, or what became of it
  row,        \* row[p]: a Photo row
  event,      \* the Event's driveFolderId, exportDriveFolderId, driveSyncEnabled
  due,        \* lastDriveSyncAt is null or a day old
  task,       \* task[t]: program counter and locals
  ingests, faults,
  overlapped  \* history: two tasks have been under way at the same time

vars == <<where, row, event, due, task, ingests, faults, overlapped>>

counters == <<ingests, faults>>

Places == Folders \cup {"unused", "gone"}
Row == [live : BOOLEAN, file : Files \cup {NoFile}, local : BOOLEAN,
        platform : BOOLEAN]
NoRow == [live |-> FALSE, file |-> NoFile, local |-> FALSE, platform |-> FALSE]

PCs == {"idle", "connect", "list", "autoList", "diff", "importing", "create",
        "connecting", "connectCreate", "removing", "upload", "insert",
        "backup", "record", "reclaim", "delete", "update"}
Task == [pc : PCs, folder : Folders \cup {NoFolder}, listed : SUBSET Files,
         photos : SUBSET Photos, file : Files \cup {NoFile}]
Idle == [pc |-> "idle", folder |-> NoFolder, listed |-> {}, photos |-> {},
         file |-> NoFile]

Init ==
  /\ where = [f \in Files |-> "unused"]
  /\ row = [p \in Photos |-> NoRow]
  /\ event = [folder |-> NoFolder, export |-> NoFolder, autoSync |-> FALSE]
  /\ due = TRUE
  /\ task = [t \in Tasks |-> Idle]
  /\ ingests = 0 /\ faults = 0 /\ overlapped = FALSE

-----------------------------------------------------------------------------
(* Steps shared by the tasks.                                              *)

InFolder(d) == {f \in Files : where[f] = d}

Start(t, new) ==
  /\ task[t].pc = "idle"
  /\ task' = [task EXCEPT ![t] = new]
  /\ overlapped' = (overlapped \/ \E u \in Tasks \ {t} : task[u].pc # "idle")

Step(t, from, new) ==
  /\ task[t].pc = from
  /\ task' = [task EXCEPT ![t] = new]
  /\ UNCHANGED overlapped

Goto(t, from, pc) == Step(t, from, [task[t] EXCEPT !.pc = pc])
Finish(t, from) == Step(t, from, Idle)

\* A fresh id: a slot that holds no row and that no task still refers to.
Free(p) == ~row[p].live /\ \A t \in Tasks : p \notin task[t].photos
Insert(new) == /\ \E p \in Photos : Free(p)
               /\ row' = [row EXCEPT ![CHOOSE p \in Photos : Free(p)] = new]

\* Where captures and backups upload: the export folder wins.
Target == IF event.export # NoFolder THEN event.export ELSE event.folder

\* uploadToDriveFolder, by the platform's account.
Upload(t, f) ==
  /\ where[f] = "unused"
  /\ where' = [where EXCEPT ![f] = task[t].folder]

-----------------------------------------------------------------------------
(* The studio, in Drive and in the app, and the clock.  A file that is     *)
(* trashed does not come back, and none moves from a folder to another.    *)

DriveAdd(f, d) ==
  /\ where[f] = "unused"
  /\ where' = [where EXCEPT ![f] = d]
  /\ UNCHANGED <<row, event, due, task, counters, overlapped>>

DriveTrash(f) ==
  /\ where[f] \in Folders
  /\ where' = [where EXCEPT ![f] = "gone"]
  /\ UNCHANGED <<row, event, due, task, counters, overlapped>>

SetExportFolder(d) ==
  /\ event' = [event EXCEPT !.export = d]
  /\ UNCHANGED <<where, row, due, task, counters, overlapped>>

ToggleAutoSync ==
  /\ event.folder # NoFolder
  /\ event' = [event EXCEPT !.autoSync = ~@]
  /\ UNCHANGED <<where, row, due, task, counters, overlapped>>

\* DELETE /photos/:photoId.  The file stays in Drive.
DeletePhoto(p) ==
  /\ row[p].live
  /\ row' = [row EXCEPT ![p] = NoRow]
  /\ UNCHANGED <<where, event, due, task, counters, overlapped>>

DayPasses ==
  /\ ~due
  /\ due' = TRUE
  /\ UNCHANGED <<where, row, event, task, counters, overlapped>>

-----------------------------------------------------------------------------
(* POST /drive/connect: list, remember the folder, import every file.      *)

StartConnect(t, d) ==
  /\ ingests < MaxIngests
  /\ ingests' = ingests + 1
  /\ Start(t, [Idle EXCEPT !.pc = "connect", !.folder = d, !.listed = InFolder(d)])
  /\ UNCHANGED <<where, row, event, due, faults>>

ConnectEvent(t) ==
  /\ Goto(t, "connect", "connecting")
  /\ event' = [event EXCEPT !.folder = task[t].folder, !.autoSync = TRUE]
  /\ UNCHANGED <<where, row, due, counters>>

-----------------------------------------------------------------------------
(* processDriveSyncJob, for a request or for the scheduler.                *)

StartSync(t) ==
  /\ event.folder # NoFolder
  /\ Start(t, [Idle EXCEPT !.pc = "list", !.folder = event.folder])
  /\ UNCHANGED <<where, row, event, due, counters>>

StartAutoSync(t) ==
  /\ due /\ event.autoSync /\ event.folder # NoFolder
  /\ Start(t, [Idle EXCEPT !.pc = "autoList", !.folder = event.folder])
  /\ UNCHANGED <<where, row, event, due, counters>>

\* The folder is listed first, and the rows later.
List(t) ==
  /\ \E pc \in {"list", "autoList"} :
        Step(t, pc, [task[t] EXCEPT !.pc = "diff",
                                    !.listed = InFolder(task[t].folder)])
  /\ UNCHANGED <<where, row, event, due, counters>>

DrivePhotos == {p \in Photos : row[p].live /\ row[p].file # NoFile}

\* Bug variant: every file is taken for a new one.
NewFiles_All(t) == task[t].listed

NewFiles(t) == task[t].listed \ {row[p].file : p \in DrivePhotos}

\* Bug variant: what the platform uploaded is left alone, even when it is gone.
RemovedPhotos_Imported(t) ==
  {p \in DrivePhotos : row[p].file \notin task[t].listed /\ ~row[p].platform}

RemovedPhotos(t) == {p \in DrivePhotos : row[p].file \notin task[t].listed}

Diff(t) ==
  /\ Step(t, "diff", [task[t] EXCEPT !.pc = "importing", !.listed = NewFiles(t),
                                    !.photos = RemovedPhotos(t)])
  /\ UNCHANGED <<where, row, event, due, counters>>

\* importOneDriveFile gives a file up: of no supported type, over a limit,
\* not downloaded, or with content that belies its extension.
SkipFile(t, f) ==
  /\ f \in task[t].listed
  /\ \E pc \in {"importing", "connecting"} :
        Step(t, pc, [task[t] EXCEPT !.listed = @ \ {f}])
  /\ UNCHANGED <<where, row, event, due, counters>>

Download(t, f) ==
  /\ f \in task[t].listed /\ where[f] \in Folders
  /\ \E pc \in {"importing", "connecting"} :
        Step(t, pc, [task[t] EXCEPT !.listed = @ \ {f}, !.file = f,
                       !.pc = IF pc = "importing" THEN "create" ELSE "connectCreate"])
  /\ UNCHANGED <<where, row, event, due, counters>>

CreateRow(t) ==
  /\ Insert([NoRow EXCEPT !.live = TRUE, !.file = task[t].file])
  /\ \E pc \in {"create", "connectCreate"} :
        Step(t, pc, [task[t] EXCEPT !.file = NoFile,
                       !.pc = IF pc = "create" THEN "importing" ELSE "connecting"])
  /\ UNCHANGED <<where, event, due, counters>>

StartRemoving(t) ==
  /\ task[t].listed = {}
  /\ Goto(t, "importing", "removing")
  /\ UNCHANGED <<where, row, event, due, counters>>

\* removePhoto of a row that still exists.
RemovePhoto(t, p) ==
  /\ p \in task[t].photos /\ row[p].live
  /\ Step(t, "removing", [task[t] EXCEPT !.photos = @ \ {p}])
  /\ row' = [row EXCEPT ![p] = NoRow]
  /\ UNCHANGED <<where, event, due, counters>>

\* prisma.photo.delete throws for a row that is gone: the job stops there,
\* and its catch stamps the time all the same.
RemoveThrows(t, p) ==
  /\ p \in task[t].photos /\ ~row[p].live
  /\ Finish(t, "removing")
  /\ due' = FALSE
  /\ UNCHANGED <<where, row, event, counters>>

Stamp(t) ==
  /\ \/ task[t].photos = {} /\ Finish(t, "removing")
     \/ task[t].listed = {} /\ Finish(t, "connecting")
  /\ due' = FALSE
  /\ UNCHANGED <<where, row, event, counters>>

\* Any await of a sync may throw (a listing, a query, a used-up quota).  The
\* scheduler and the sync job stamp the time; a connect, and a manual sync
\* whose listing failed, do not.
SyncFails(t) ==
  /\ faults < MaxFaults
  /\ faults' = faults + 1
  /\ \/ /\ \E pc \in {"autoList", "diff", "importing", "create", "removing"} : Finish(t, pc)
        /\ due' = FALSE
     \/ /\ \E pc \in {"list", "connect", "connecting", "connectCreate"} : Finish(t, pc)
        /\ UNCHANGED due
  /\ UNCHANGED <<where, row, event, ingests>>

-----------------------------------------------------------------------------
(* A PandaShoots capture: upload, then insert the row.                     *)

\* Bug variant: uploads without a folder.
StartCapture_Unconnected(t) ==
  /\ ingests < MaxIngests
  /\ ingests' = ingests + 1
  /\ Start(t, [Idle EXCEPT !.folder = Target, !.pc = "upload"])
  /\ UNCHANGED <<where, row, event, due, faults>>

StartCapture(t) ==
  /\ ingests < MaxIngests
  /\ ingests' = ingests + 1
  /\ Start(t, [Idle EXCEPT !.folder = Target,
                 !.pc = IF Target = NoFolder THEN "insert" ELSE "upload"])
  /\ UNCHANGED <<where, row, event, due, faults>>

CaptureUpload(t, f) ==
  /\ Upload(t, f)
  /\ Step(t, "upload", [task[t] EXCEPT !.pc = "insert", !.file = f])
  /\ UNCHANGED <<row, event, due, counters>>

\* The backup is off or fails: the original is kept on the server.
CaptureLocally(t) ==
  /\ Goto(t, "upload", "insert")
  /\ UNCHANGED <<where, row, event, due, counters>>

CaptureInsert(t) ==
  LET f == task[t].file
  IN /\ Insert([live |-> TRUE, file |-> f, local |-> f = NoFile,
                platform |-> f # NoFile])
     /\ Finish(t, "insert")
     /\ UNCHANGED <<where, event, due, counters>>

-----------------------------------------------------------------------------
(* backup-existing, for one local row, and the reclaim of one backed-up row. *)

StartBackup(t, p) ==
  /\ row[p].live /\ row[p].local /\ ~row[p].platform /\ Target # NoFolder
  /\ Start(t, [Idle EXCEPT !.pc = "backup", !.folder = Target, !.photos = {p}])
  /\ UNCHANGED <<where, row, event, due, counters>>

BackupUpload(t, f) ==
  /\ Upload(t, f)
  /\ Step(t, "backup", [task[t] EXCEPT !.pc = "record", !.file = f])
  /\ UNCHANGED <<row, event, due, counters>>

BackupFails(t) ==
  /\ Finish(t, "backup")
  /\ UNCHANGED <<where, row, event, due, counters>>

\* photo.update; it throws, and the photo is skipped, when the row is gone.
BackupRecord(t, p) ==
  /\ p \in task[t].photos
  /\ Finish(t, "record")
  /\ row' = IF row[p].live
              THEN [row EXCEPT ![p].file = task[t].file, ![p].platform = TRUE] ELSE row
  /\ UNCHANGED <<where, event, due, counters>>

\* Lists a backed-up row and downloads it back, unless it is still on disk;
\* a download that fails leaves everything as it is.
StartReclaim(t, p) ==
  /\ row[p].live /\ row[p].platform /\ row[p].file # NoFile
  /\ Start(t, [Idle EXCEPT !.photos = {p}, !.file = row[p].file,
                 !.pc = IF row[p].local THEN "delete" ELSE "reclaim"])
  /\ UNCHANGED <<where, row, event, due, counters>>

ReclaimDownload(t) ==
  /\ \/ Goto(t, "reclaim", "delete") /\ where[task[t].file] \in Folders
     \/ Finish(t, "reclaim")
  /\ UNCHANGED <<where, row, event, due, counters>>

\* A failed delete only records the local copy.
ReclaimDelete(t, p) ==
  /\ p \in task[t].photos
  /\ UNCHANGED <<event, due, counters>>
  /\ \/ /\ Goto(t, "delete", "update")
        /\ where' = [where EXCEPT ![task[t].file] = "gone"]
        /\ UNCHANGED row
     \/ /\ Finish(t, "delete")
        /\ row' = IF row[p].live THEN [row EXCEPT ![p].local = TRUE] ELSE row
        /\ UNCHANGED where

ReclaimUpdate(t, p) ==
  /\ p \in task[t].photos
  /\ Finish(t, "update")
  /\ row' = IF row[p].live THEN [row EXCEPT ![p].file = NoFile, ![p].local = TRUE] ELSE row
  /\ UNCHANGED <<where, event, due, counters>>

-----------------------------------------------------------------------------
Crash ==
  /\ faults < MaxFaults
  /\ faults' = faults + 1
  /\ task' = [t \in Tasks |-> Idle]
  /\ UNCHANGED <<where, row, event, due, ingests, overlapped>>

Studio ==
  \/ \E f \in Files : DriveTrash(f) \/ \E d \in Folders : DriveAdd(f, d)
  \/ \E d \in Folders \cup {NoFolder} : SetExportFolder(d)
  \/ \E p \in Photos : DeletePhoto(p)
  \/ ToggleAutoSync

Begin ==
  \/ \E t \in Requests : StartSync(t) \/ \E d \in Folders : StartConnect(t, d)
  \/ \E t \in Movers : \/ StartCapture(t)
                       \/ \E p \in Photos : StartBackup(t, p) \/ StartReclaim(t, p)

SyncStep(t) ==
  \/ ConnectEvent(t) \/ List(t) \/ Diff(t) \/ CreateRow(t) \/ StartRemoving(t)
  \/ Stamp(t)
  \/ \E f \in Files : SkipFile(t, f) \/ Download(t, f)
  \/ \E p \in Photos : RemovePhoto(t, p) \/ RemoveThrows(t, p)

MoverStep(t) ==
  \/ CaptureLocally(t) \/ CaptureInsert(t) \/ BackupFails(t) \/ ReclaimDownload(t)
  \/ \E f \in Files : CaptureUpload(t, f) \/ BackupUpload(t, f)
  \/ \E p \in Photos : BackupRecord(t, p) \/ ReclaimDelete(t, p) \/ ReclaimUpdate(t, p)

Next ==
  \/ Studio \/ Begin \/ DayPasses \/ Crash
  \/ \E t \in Timers : StartAutoSync(t)
  \/ \E t \in Syncs : SyncStep(t) \/ SyncFails(t)
  \/ \E t \in Movers : MoverStep(t)

Spec == Init /\ [][Next]_vars

\* setInterval and promises go on; days pass; and the attempts to download a
\* file do not all fail.
FairSpec ==
  /\ Spec
  /\ WF_vars(DayPasses)
  /\ \A t \in Timers : WF_vars(StartAutoSync(t))
  /\ \A t \in Syncs : WF_vars(SyncStep(t))
  /\ \A t \in Movers : WF_vars(MoverStep(t))
  /\ \A f \in Files : SF_vars(\E t \in Syncs : Download(t, f))

-----------------------------------------------------------------------------
TypeOK ==
  /\ where \in [Files -> Places]
  /\ row \in [Photos -> Row]
  /\ event \in [folder : Folders \cup {NoFolder}, export : Folders \cup {NoFolder},
                autoSync : BOOLEAN]
  /\ due \in BOOLEAN /\ overlapped \in BOOLEAN
  /\ task \in [Tasks -> Task]
  /\ ingests \in 0..MaxIngests /\ faults \in 0..MaxFaults

\* As long as no two jobs were ever under way together, restarts and failures
\* included, a sync is exact, whatever the studio does in Drive or in the app
\* meanwhile: it shows no file a second time, for it imports what no row has
\* (driveSync.js:200-206; a connect imports every file there is), and it removes
\* no photo whose file is in the folder it synced (driveSync.js:207, 229-230).
SyncExact ==
  [][~overlapped => \A t \in Syncs :
       /\ task[t].pc = "create" /\ CreateRow(t)
            => ~\E p \in Photos : row[p].live /\ row[p].file = task[t].file
       /\ \A p \in Photos :
            RemovePhoto(t, p) => where[row[p].file] # task[t].folder]_vars

\* While automatic sync stays on, a file that stays in the connected folder is
\* shown in the end, and a photo whose Drive file is gone is removed or cut
\* loose from it, though jobs fail, die and overlap, and another job may make
\* the removal throw (driveSync.js:218-233).
EventuallySynced ==
  \A f \in Files :
    /\ (where[f] = event.folder /\ event.autoSync) ~>
         \/ where[f] # event.folder \/ ~event.autoSync
         \/ \E p \in Photos : row[p].live /\ row[p].file = f
    /\ (where[f] = "gone" /\ event.autoSync /\ event.folder # NoFolder) ~>
         (~event.autoSync \/ \A p \in Photos : ~(row[p].live /\ row[p].file = f))

=============================================================================
