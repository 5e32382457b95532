------------------------------ MODULE FaceIndex ------------------------------
(***************************************************************************)
(* AI Search: which photos are members (faceSearchVisible), which Face     *)
(* rows they have, and the jobs that index, remove, restore, heal and      *)
(* purge them (lib/faces.js, faceIndexSweep.js, faceRetention.js and the   *)
(* photo routes of routes/events.js).  Face Search is on for the event.    *)
(*                                                                         *)
(* An action is what one process does between two awaits.  A request     *)
(* runs one handler, then the background job that handler starts.          *)
(***************************************************************************)
EXTENDS Integers, FiniteSets

CONSTANTS
  NumPhotos,     \* photos of the event, numbered in the order of createdAt
  Uploaded,      \* those that may have been uploaded before; the others are captured
  Guests,        \* those uploaded by guests, which wait for approval
  Videos,        \* those that are videos
  People,        \* the faces the engine finds in each image
  Requests,      \* requests of the studio, and captures
  Deleters,      \* DELETE /photos/:photoId requests
  Sweeps,        \* ticks of sweepUnindexedFaces that may overlap
  Retentions,    \* runs of runFaceRetentionSweep
  Limit,         \* batch of sweepUnindexedFaces
  HoldDays,      \* days a removed photo keeps its faces
  Archivable,    \* bound: the photos that the studio archives and restores
  MaxDay,        \* bound: the clock stops here
  MaxCrashes,    \* bound: restarts of the server
  NoPhoto

Photos == 1..NumPhotos
Tasks == Requests \cup Deleters \cup Sweeps \cup Retentions

ASSUME PhotosAssumption ==
  /\ NumPhotos \in Nat /\ Uploaded \subseteq Photos /\ Videos \subseteq Uploaded
  /\ Guests \subseteq Uploaded
  /\ Archivable \subseteq Photos /\ NoPhoto \notin Photos
ASSUME NumbersAssumption ==
  Limit \in Nat /\ HoldDays \in Nat /\ MaxDay \in Nat /\ MaxCrashes \in Nat

VARIABLES
  row,        \* row[p]: the Photo row
  faces,      \* faces[p]: its Face rows
  task,       \* task[j]: program counter and locals of task j
  today,      \* the clock, in days
  crashes,    \* restarts so far
  disturbed   \* history: photos removed or deleted while another task
              \* worked on them, or worked on when the server stopped

vars == <<row, faces, task, today, crashes, disturbed>>

Never == -1
Days == 0..MaxDay

Row == [exists : BOOLEAN, visible : BOOLEAN, approved : BOOLEAN,
        archived : BOOLEAN, indexed : BOOLEAN]

NoRow == [exists |-> FALSE, visible |-> FALSE, approved |-> FALSE,
          archived |-> FALSE, indexed |-> FALSE]

\* A Face row: the task that inserted it, whose face it is, and its deletedAt.
Face == [by : Tasks, of : People, held : Days \cup {Never}]

Kinds == {"add", "patchAdd", "remove", "approve", "delete", "capture", "sweep", "retention"}
PCs == {"idle", "addUpdate", "restore", "index", "detect", "clear", "insert",
        "patchUpdate", "approveUpdate", "hold", "deleteFaces", "deleteRow",
        "purge", "count", "reset"}

\* batch: the ids the handler was given; todo: what its present loop has left.
Task == [kind : Kinds, pc : PCs, batch : SUBSET Photos, todo : SUBSET Photos,
         cur : Photos \cup {NoPhoto}, left : SUBSET People, since : Days]
Idle == [kind |-> "add", pc |-> "idle", batch |-> {}, todo |-> {}, cur |-> NoPhoto,
         left |-> {}, since |-> 0]

Init ==
  /\ \E there \in SUBSET Uploaded : row = [p \in Photos |->
       [NoRow EXCEPT !.exists = p \in there, !.approved = p \in there \ Guests]]
  /\ faces = [p \in Photos |-> {}]
  /\ task = [j \in Tasks |-> Idle]
  /\ today = 0
  /\ crashes = 0
  /\ disturbed = {}

-----------------------------------------------------------------------------
(* Steps shared by the tasks.                                              *)

Exists(p) == row[p].exists
Member(p) == Exists(p) /\ row[p].visible /\ row[p].approved /\ ~row[p].archived
WorksOn(t) == t.batch \cup t.todo \cup ({t.cur} \ {NoPhoto})
Quiet(p) == \A j \in Tasks : p \notin WorksOn(task[j])

\* The photos that one task takes out while another one works on them.
Clashes(tasks) ==
  {p \in Photos : \E j, k \in Tasks :
     /\ j # k /\ p \in WorksOn(tasks[j]) \cap WorksOn(tasks[k])
     /\ tasks[j].kind \in {"remove", "delete"}}

\* A handler or a sweep starts: on the batch S, or on the photo p.
Begin(j, t) ==
  /\ task[j].pc = "idle"
  /\ task' = [task EXCEPT ![j] = t]
  /\ disturbed' = disturbed \cup Clashes(task')

StartBatch(j, kind, pc, S) ==
  Begin(j, [Idle EXCEPT !.kind = kind, !.pc = pc, !.batch = S, !.todo = S, !.since = today])
StartOne(j, kind, pc, p) ==
  Begin(j, [Idle EXCEPT !.kind = kind, !.pc = pc, !.cur = p, !.left = People])

Goto(j, pc) == task' = [task EXCEPT ![j].pc = pc]
Finish(j) == task' = [task EXCEPT ![j] = Idle]
Cur(j) == task[j].cur
At(j, pc) == task[j].pc = pc

\* prisma.photo.update of the current photo: throws when the row is gone.
UpdateRow(p, new) == row' = IF Exists(p) THEN [row EXCEPT ![p] = new] ELSE row

-----------------------------------------------------------------------------
(* indexExistingPhotoFaces and replacePhotoFaces, for the current photo.   *)

Looping(j) == task[j].kind \in {"add", "sweep"}

\* An error of the index: the loop catches it, a handler answers 400.
Fails(j) == IF Looping(j) THEN task' = [task EXCEPT ![j].pc = "index", ![j].cur = NoPhoto]
                          ELSE Finish(j)

Succeeds(j) ==
  CASE Looping(j)                  -> task' = [task EXCEPT ![j].pc = "index", ![j].cur = NoPhoto]
    [] task[j].kind = "patchAdd"   -> Goto(j, "patchUpdate")
    [] task[j].kind = "approve"    -> Goto(j, "approveUpdate")
    [] task[j].kind = "capture"    -> Finish(j)

\* The next photo of a loop, read again; a deleted one or a video is skipped.
IndexNext(j, p) ==
  /\ At(j, "index")
  /\ p \in task[j].todo
  /\ task' = [task EXCEPT ![j].todo = @ \ {p},
                          ![j].pc = IF Exists(p) /\ p \notin Videos THEN "detect" ELSE "index",
                          ![j].cur = IF Exists(p) /\ p \notin Videos THEN p ELSE NoPhoto,
                          ![j].left = People]
  /\ UNCHANGED <<row, faces, today, crashes, disturbed>>

\* loadPhotoOriginalBuffer and the face engine.
DetectOk(j, p) ==
  /\ At(j, "detect") /\ Cur(j) = p
  /\ Goto(j, "clear")
  /\ UNCHANGED <<row, faces, today, crashes, disturbed>>

DetectFails(j) ==
  /\ At(j, "detect")
  /\ Fails(j)
  /\ UNCHANGED <<row, faces, today, crashes, disturbed>>

ClearFaces(j) ==
  /\ At(j, "clear")
  /\ faces' = [faces EXCEPT ![Cur(j)] = {}]
  /\ Goto(j, "insert")
  /\ UNCHANGED <<row, today, crashes, disturbed>>

\* insertFace, which the foreign key refuses once the photo is gone.
InsertFace(j) ==
  /\ At(j, "insert") /\ task[j].left # {}
  /\ IF Exists(Cur(j))
       THEN \E w \in task[j].left :
              /\ faces' = [faces EXCEPT ![Cur(j)] = @ \cup {[by |-> j, of |-> w, held |-> Never]}]
              /\ task' = [task EXCEPT ![j].left = @ \ {w}]
       ELSE Fails(j) /\ UNCHANGED faces
  /\ UNCHANGED <<row, today, crashes, disturbed>>

StampIndexed(j) ==
  /\ At(j, "insert") /\ task[j].left = {}
  /\ UpdateRow(Cur(j), [row[Cur(j)] EXCEPT !.indexed = TRUE])
  /\ IF Exists(Cur(j)) THEN Succeeds(j) ELSE Fails(j)
  /\ UNCHANGED <<faces, today, crashes, disturbed>>

IndexLoopEnds(j) ==
  /\ At(j, "index") /\ task[j].todo = {}
  /\ Finish(j)
  /\ UNCHANGED <<row, faces, today, crashes, disturbed>>

Index(j) == \/ \E p \in Photos : IndexNext(j, p) \/ DetectOk(j, p)
            \/ DetectFails(j) \/ ClearFaces(j) \/ InsertFace(j) \/ StampIndexed(j)
            \/ IndexLoopEnds(j)

-----------------------------------------------------------------------------
(* POST /photos/bulk-features with face_search_visible true, and the       *)
(* processMembershipIndexJob it starts.                                    *)

\* Only the photos that are not visible yet are touched.
StartAdd(j) ==
  /\ \E S \in SUBSET {p \in Photos : Exists(p) /\ ~row[p].visible} :
       S # {} /\ StartBatch(j, "add", "addUpdate", S)
  /\ UNCHANGED <<row, faces, today, crashes>>

SetVisible(S, value) ==
  row' = [p \in Photos |-> IF p \in S /\ Exists(p) THEN [row[p] EXCEPT !.visible = value]
                                                  ELSE row[p]]

AddUpdate(j) ==
  /\ At(j, "addUpdate")
  /\ SetVisible(task[j].batch, TRUE)
  /\ Goto(j, "restore")
  /\ UNCHANGED <<faces, today, crashes, disturbed>>

\* restorePhotoFaces and softDeletePhotoFaces, on the rows of one photo.
Restored(p) == [faces EXCEPT ![p] = {[f EXCEPT !.held = Never] : f \in @}]
Held(p) ==
  [faces EXCEPT ![p] = {IF f.held = Never THEN [f EXCEPT !.held = today] ELSE f : f \in @}]

RestoreNext(j) ==
  /\ At(j, "restore")
  /\ \E p \in task[j].todo :
       /\ faces' = Restored(p)
       /\ task' = [task EXCEPT ![j].todo = @ \ {p}]
  /\ UNCHANGED <<row, today, crashes, disturbed>>

Candidates(S) == {p \in S \ Videos : /\ Exists(p) /\ row[p].visible
                                     /\ row[p].approved /\ ~row[p].indexed}

StartIndexJob(j) ==
  /\ At(j, "restore") /\ task[j].todo = {}
  /\ task' = [task EXCEPT ![j].pc = "index", ![j].batch = {},
                          ![j].todo = Candidates(task[j].batch)]
  /\ UNCHANGED <<row, faces, today, crashes, disturbed>>

BulkAdd(j) == StartAdd(j) \/ AddUpdate(j) \/ RestoreNext(j) \/ StartIndexJob(j)

-----------------------------------------------------------------------------
(* PATCH /photos/:photoId/features: the index comes before the flag.       *)

StartPatchAdd(j) ==
  /\ \E p \in Photos :
       /\ Exists(p)
       /\ StartOne(j, "patchAdd",
                   IF row[p].indexed \/ p \in Videos THEN "patchUpdate" ELSE "detect", p)
  /\ UNCHANGED <<row, faces, today, crashes>>

PatchUpdate(j) ==
  /\ At(j, "patchUpdate")
  /\ SetVisible({Cur(j)}, TRUE)
  /\ IF Exists(Cur(j))
       THEN task' = [task EXCEPT ![j] = [Idle EXCEPT !.kind = "patchAdd", !.pc = "restore",
                                                     !.todo = {Cur(j)}]]
       ELSE Finish(j)
  /\ UNCHANGED <<faces, today, crashes, disturbed>>

PatchAdd(j) == StartPatchAdd(j) \/ PatchUpdate(j)

-----------------------------------------------------------------------------
(* Removal from AI Search, bulk or of one photo: the flags, then the holds.*)

StartRemove(j) ==
  /\ \E S \in SUBSET {p \in Photos : Exists(p)} :
       /\ S # {}
       /\ SetVisible(S, FALSE)
       /\ StartBatch(j, "remove", "hold", S)
  /\ UNCHANGED <<faces, today, crashes>>

HoldNext(j) ==
  /\ At(j, "hold")
  /\ \E p \in task[j].batch :
       /\ faces' = Held(p)
       /\ task' = [task EXCEPT ![j].batch = @ \ {p}, ![j].todo = {}]
  /\ UNCHANGED <<row, today, crashes, disturbed>>

RemoveEnds(j) ==
  /\ At(j, "hold") /\ task[j].batch = {}
  /\ Finish(j)
  /\ UNCHANGED <<row, faces, today, crashes, disturbed>>

Remove(j) == StartRemove(j) \/ HoldNext(j) \/ RemoveEnds(j)

-----------------------------------------------------------------------------
(* Approval, archiving, capture and deletion of one photo.                 *)

StartApprove(j) ==
  /\ \E p \in Photos :
       /\ Exists(p) /\ ~row[p].approved
       /\ StartOne(j, "approve", IF row[p].visible /\ ~row[p].indexed THEN "detect"
                                                                   ELSE "approveUpdate", p)
  /\ UNCHANGED <<row, faces, today, crashes>>

ApproveUpdate(j) ==
  /\ At(j, "approveUpdate")
  /\ UpdateRow(Cur(j), [row[Cur(j)] EXCEPT !.approved = TRUE])
  /\ Finish(j)
  /\ UNCHANGED <<faces, today, crashes, disturbed>>

ToggleArchived(p) ==
  /\ Exists(p)
  /\ row' = [row EXCEPT ![p].archived = ~@]
  /\ UNCHANGED <<faces, task, today, crashes, disturbed>>

\* A capture is a member from its photo.create on; its faces were detected before.
\* It takes the number of a photo that nobody works on any more.
StartCapture(j) ==
  /\ \E p \in Photos \ Videos :
       /\ ~Exists(p) /\ Quiet(p)
       /\ row' = [row EXCEPT ![p] = [exists |-> TRUE, visible |-> TRUE, approved |-> TRUE,
                                     archived |-> FALSE, indexed |-> FALSE]]
       /\ StartOne(j, "capture", "clear", p)
  /\ UNCHANGED <<faces, today, crashes>>

\* DELETE /photos/:photoId (purgePhoto and removePhoto take the same two steps).
StartDelete(j) ==
  /\ \E p \in Photos : Exists(p) /\ StartOne(j, "delete", "deleteFaces", p)
  /\ UNCHANGED <<row, faces, today, crashes>>

DeleteFaces(j) ==
  /\ At(j, "deleteFaces")
  /\ faces' = [faces EXCEPT ![Cur(j)] = {}]
  /\ Goto(j, "deleteRow")
  /\ UNCHANGED <<row, today, crashes, disturbed>>

\* Refused by the foreign key when a face was inserted in between.
DeleteRow(j) ==
  /\ At(j, "deleteRow")
  /\ row' = IF faces[Cur(j)] = {} THEN [row EXCEPT ![Cur(j)] = NoRow] ELSE row
  /\ Finish(j)
  /\ UNCHANGED <<faces, today, crashes, disturbed>>

Delete(j) == StartDelete(j) \/ DeleteFaces(j) \/ DeleteRow(j)

-----------------------------------------------------------------------------
(* sweepUnindexedFaces: the oldest Limit members that were never indexed.  *)

\* Bug variant: the sweep looks for photos without faces, not without a stamp.
Unindexed_Faceless == {p \in Photos : Member(p) /\ ~row[p].indexed /\ faces[p] = {}}

Unindexed == {p \in Photos : Member(p) /\ ~row[p].indexed}

SweepBatch == {p \in Unindexed : Cardinality({q \in Unindexed : q < p}) < Limit}

StartSweep(j) ==
  /\ SweepBatch # {}
  /\ Begin(j, [Idle EXCEPT !.kind = "sweep", !.pc = "index", !.todo = SweepBatch])
  /\ UNCHANGED <<row, faces, today, crashes>>

-----------------------------------------------------------------------------
(* runFaceRetentionSweep: list, delete, then reset the photos left empty.  *)

HoldOver(f, day) == f.held # Never /\ f.held + HoldDays < day

StartRetention(j) ==
  /\ LET stale == {p \in Photos : \E f \in faces[p] : HoldOver(f, today)} IN
     /\ stale # {}
     /\ StartBatch(j, "retention", "purge", stale)
  /\ UNCHANGED <<row, faces, today, crashes>>

\* Bug variant: every face of a photo that was listed is deleted.
PurgeFaces_Listed(j) ==
  /\ At(j, "purge")
  /\ faces' = [p \in Photos |-> IF p \in task[j].batch THEN {} ELSE faces[p]]
  /\ task' = [task EXCEPT ![j].pc = "count", ![j].batch = {}]
  /\ UNCHANGED <<row, today, crashes, disturbed>>

\* The rows whose hold is over by the time of the delete, listed or not.
PurgeFaces(j) ==
  /\ At(j, "purge")
  /\ faces' = [p \in Photos |-> {f \in faces[p] : ~HoldOver(f, task[j].since)}]
  /\ task' = [task EXCEPT ![j].pc = "count", ![j].batch = {}]
  /\ UNCHANGED <<row, today, crashes, disturbed>>

CountFaces(j) ==
  /\ At(j, "count")
  /\ \E p \in task[j].todo :
       task' = [task EXCEPT ![j].todo = @ \ {p}, ![j].cur = IF faces[p] = {} THEN p ELSE NoPhoto,
                            ![j].pc = IF faces[p] = {} THEN "reset" ELSE "count"]
  /\ UNCHANGED <<row, faces, today, crashes, disturbed>>

\* Bug variant: the photo goes on believing that it is indexed.
ResetPhoto_CountOnly(j) ==
  /\ At(j, "reset")
  /\ task' = [task EXCEPT ![j].pc = "count", ![j].cur = NoPhoto]
  /\ UNCHANGED <<row, faces, today, crashes, disturbed>>

ResetPhoto(j) ==
  /\ At(j, "reset")
  /\ UpdateRow(Cur(j), [row[Cur(j)] EXCEPT !.indexed = FALSE])
  /\ task' = [task EXCEPT ![j].pc = "count", ![j].cur = NoPhoto]
  /\ UNCHANGED <<faces, today, crashes, disturbed>>

RetentionEnds(j) ==
  /\ At(j, "count") /\ task[j].todo = {}
  /\ Finish(j)
  /\ UNCHANGED <<row, faces, today, crashes, disturbed>>

Retention(j) == \/ StartRetention(j) \/ PurgeFaces(j) \/ CountFaces(j)
                \/ ResetPhoto(j) \/ RetentionEnds(j)

-----------------------------------------------------------------------------

\* A restart forgets every task; nothing takes up what it left half done.
Crash ==
  /\ crashes < MaxCrashes
  /\ crashes' = crashes + 1
  /\ task' = [j \in Tasks |-> Idle]
  /\ disturbed' = disturbed \cup UNION {WorksOn(task[j]) : j \in Tasks}
  /\ UNCHANGED <<row, faces, today>>

Tick ==
  /\ today < MaxDay
  /\ today' = today + 1
  /\ UNCHANGED <<row, faces, task, crashes, disturbed>>

Next ==
  \/ \E j \in Requests : \/ BulkAdd(j) \/ PatchAdd(j) \/ Remove(j)
                       \/ StartApprove(j) \/ ApproveUpdate(j) \/ StartCapture(j)
  \/ \E j \in Deleters : Delete(j)
  \/ \E j \in Sweeps : StartSweep(j)
  \/ \E j \in Requests \cup Sweeps : Index(j)
  \/ \E j \in Retentions : Retention(j)
  \/ \E p \in Archivable : ToggleArchived(p)
  \/ Crash \/ Tick

Spec == Init /\ [][Next]_vars

\* The sweep is a timer of the server, and what it awaits returns; the original
\* of an image can be read, and the engine answers, again and again.
FairSpec ==
  /\ Spec
  /\ \A j \in Sweeps : /\ WF_vars(StartSweep(j) \/ Index(j))
                       /\ \A p \in Photos : SF_vars(DetectOk(j, p))

-----------------------------------------------------------------------------
(* Properties.                                                             *)

\* The types of the state; no Face row outlives its photo (Face.photoId).
TypeOK ==
  /\ row \in [Photos -> Row]
  /\ faces \in [Photos -> SUBSET Face]
  /\ \A p \in Photos : ~Exists(p) => faces[p] = {}
  /\ task \in [Tasks -> Task]
  /\ today \in Days
  /\ crashes \in 0..MaxCrashes
  /\ disturbed \subseteq Photos

\* A photo that says it is indexed has a row for each of its faces, whatever
\* indexes, adds, sweeps and purges met on it, unless it was taken out while
\* another task worked on it (replacePhotoFaces and runFaceRetentionSweep).
StampedComplete ==
  \A p \in Photos \ disturbed :
    Quiet(p) /\ Exists(p) /\ row[p].indexed => {f.of : f \in faces[p]} = People

\* The two above: no face row outlives its photo, and no photo that is stamped
\* lacks a face (replacePhotoFaces, runFaceRetentionSweep, DELETE of a photo).
FaceInv == TypeOK /\ StampedComplete

\* Every face of a photo outside AI Search is on hold, so that it is purged in
\* time (softDeletePhotoFaces), with the same exception.
RemovedFacesHeld ==
  \A p \in Photos \ disturbed :
    Quiet(p) /\ Exists(p) /\ ~row[p].visible => \A f \in faces[p] : f.held # Never

\* A face outside AI Search is on hold; and a face row goes only when its hold
\* is over, when its photo is indexed anew, or with its photo: never because
\* the photo was on hold once (softDeletePhotoFaces, runFaceRetentionSweep).
HeldUntilDue ==
  /\ []RemovedFacesHeld
  /\ [][\A p \in Photos : \A f \in faces[p] \ faces'[p] :
          \/ HoldOver(f, today)
          \/ [f EXCEPT !.held = Never] \in faces'[p] \/ [f EXCEPT !.held = today] \in faces'[p]
          \/ \E j \in Tasks : At(j, "clear") /\ Cur(j) = p
          \/ \E j \in Tasks : At(j, "deleteFaces") /\ Cur(j) = p]_vars

\* An image that is a member is indexed in the end, whatever failed or was
\* killed before (sweepUnindexedFaces), as long as it stays a member.
EventuallyIndexed ==
  \A p \in Photos \ Videos : Member(p) /\ ~row[p].indexed ~> row[p].indexed \/ ~Member(p)

=============================================================================
