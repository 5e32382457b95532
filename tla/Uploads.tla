------------------------------- MODULE Uploads --------------------------------
(***************************************************************************)
(* How photos get into one event: a resumable upload of one large file, in *)
(* parts and over several requests; the background jobs that take in files *)
(* and report on a stream; the uploads of guests and their approval; the   *)
(* captures a camera leaves in the staging directory; and the limits on    *)
(* bytes and photos that all of these are held to.                         *)
(*                                                                         *)
(* A file is a sequence of blocks, the large one <<1, ..., Blocks>>; any   *)
(* other file is one block.  Everything that takes files in is a job here, *)
(* whether it has an entry in the job registry (the streamed ones) or is a *)
(* request.  A request or a job is overtaken when another has written,     *)
(* since it read, what it read.  Faces, thumbnails and where an original   *)
(* is kept are modules FaceIndex, PhotoOriginals and DriveSync.            *)
(***************************************************************************)
EXTENDS Integers, FiniteSets, Sequences

CONSTANTS
  Requests,      \* requests of the upload session that may be in flight together
  Jobs,          \* slots for jobs, each used once: an id is never used again
  Watchers, NoJob,
  Blocks,        \* the declared size of the large file
  StorageLimit, QuotaTotal,
  MaxRequests, MaxCrashes   \* bounds

ASSUME BlocksAssumption == Blocks \in Nat \ {0}
ASSUME LimitsAssumption ==
  StorageLimit \in Nat /\ QuotaTotal \in Nat /\ MaxRequests \in Nat /\ MaxCrashes \in Nat
ASSUME NoJobAssumption == NoJob \notin Jobs

VARIABLES
  stage,     \* the MediaUploadStage row; taken and mixed are history
  part,      \* the blocks of its part file
  req,       \* req[r]: the session request in slot r
  job,       \* job[j]: a job, and its entry in the registry
  watch,     \* watch[w]: the stream that w has open
  lib,       \* the event's photos: their bytes, how many are shown, and those pending
             \* approval, each by the job that took it in (NoJob: before the start)
  quota,     \* the active subscription; slipped is history
  shot,      \* the staging path that the camera writes
  requests, crashes

vars == <<stage, part, req, job, watch, lib, quota, shot, requests, crashes>>

File == [i \in 1..Blocks |-> i]
Small == <<0>>
NoStage == [status |-> "none", received |-> 0, taken |-> 0, mixed |-> FALSE]
\* at and data: of a part; buffer: what a completion has read.
Idle == [pc |-> "idle", at |-> 0, data |-> <<>>, overtaken |-> FALSE]
Streamed == {"batch", "large"}
Kinds == Streamed \cup {"guest", "capture", "approve"}
\* files: those left; used and counted: what it read of the limits; new: photos it added.
Unused == [kind |-> "batch", pc |-> "unused", files |-> <<>>, used |-> 0, counted |-> 0,
           new |-> 0, photo |-> NoJob, overtaken |-> FALSE]
Working == {"usage", "quota", "create", "approve", "consume"}
Settled == {"done", "error", "silent", "forgotten"}
Off == [job |-> NoJob, told |-> FALSE]

Init ==
  /\ stage = NoStage /\ part = <<>> /\ req = [r \in Requests |-> Idle]
  /\ job = [j \in Jobs |-> Unused] /\ watch = [w \in Watchers |-> Off]
  /\ \E plan \in {"none", "active", "paused"} :
       quota = [plan |-> plan, counted |-> 0, slipped |-> FALSE]
  \* To bound the start: a guest has sent a photo just where there is a subscription.
  /\ LET P == IF quota.plan = "active" THEN {NoJob} ELSE {}
     IN lib = [bytes |-> Cardinality(P), pending |-> P, shown |-> 0]
  /\ shot = "none" /\ requests = 0 /\ crashes = 0

-----------------------------------------------------------------------------
(* The upload session.                                                     *)

\* assertQuotaAvailable: a tenant that never had a subscription is not limited.
QuotaOk == quota.plan = "none" \/ (quota.plan = "active" /\ quota.counted < QuotaTotal)

Count == requests < MaxRequests /\ requests' = requests + 1
Begin(r, new) ==
  /\ Count /\ req[r].pc = "idle" /\ req' = [req EXCEPT ![r] = new]
  /\ UNCHANGED <<stage, part, job, watch, lib, quota, shot, crashes>>
Goto(r, pc) == req' = [req EXCEPT ![r].pc = pc]
End(r) == req' = [req EXCEPT ![r] = Idle]
Completing == {"size", "read", "status", "take"}
\* r ends or goes on, having written what others, at the steps in S, have read.
Overtaking(r, S, new) ==
  req' = [q \in Requests |-> IF q = r THEN new
            ELSE [req[q] EXCEPT !.overtaken = @ \/ req[q].pc \in S]]

\* createJob: an id is never used again, and which one it is does not matter.
Some(S) == CHOOSE x \in S : TRUE
Create(new) ==
  LET free == {j \in Jobs : job[j].pc = "unused"}
  IN free # {} /\ job' = [job EXCEPT ![Some(free)] = new]

Initiate ==
  /\ stage.status = "none" /\ QuotaOk /\ stage' = [stage EXCEPT !.status = "Uploading"]
  /\ UNCHANGED <<part, req, job, watch, lib, quota, shot, requests, crashes>>

\* Mutant: a part may overrun the declared size.
StartPart_Overrun(r) ==
  /\ stage.status = "Uploading"
  /\ \E at \in 0..(Blocks - 1) : Begin(r, [Idle EXCEPT !.pc = "stat", !.at = at, !.data = File])
\* The client sends any blocks of its file, once or again.
StartPart(r) ==
  /\ stage.status = "Uploading"
  /\ \E at \in 0..(Blocks - 1) : \E n \in 1..(Blocks - at) :
       Begin(r, [Idle EXCEPT !.pc = "stat", !.at = at, !.data = SubSeq(File, at + 1, at + n)])
\* Mutant: the offset is not compared.
PartOffset_Any(r) == TRUE
PartOffset(r) == Len(part) = req[r].at
StatPart(r) ==
  /\ req[r].pc = "stat"
  /\ IF PartOffset(r) THEN Goto(r, "append") ELSE End(r)
  /\ UNCHANGED <<stage, part, job, watch, lib, quota, shot, requests, crashes>>
\* The file is opened to append, wherever it ends by now.
Append1(r, data, new) ==
  /\ req[r].pc = "append" /\ part' = part \o data /\ Overtaking(r, {"append"}, new)
  /\ stage' = [stage EXCEPT !.mixed = @ \/ req[r].overtaken]
  /\ UNCHANGED <<job, watch, lib, quota, shot, requests, crashes>>
Stamping(r) == [req[r] EXCEPT !.pc = "received", !.overtaken = FALSE]
WritePart(r) == Append1(r, req[r].data, Stamping(r))
\* A disk that fills up takes some of the blocks, with an error or without one.
TearPart(r) ==
  \E n \in 0..(Len(req[r].data) - 1), new \in {Idle, Stamping(r)} :
    Append1(r, SubSeq(req[r].data, 1, n), new)
Received(r) ==
  /\ req[r].pc = "received"
  /\ stage' = [stage EXCEPT !.received = req[r].at + Len(req[r].data)] /\ End(r)
  /\ UNCHANGED <<part, job, watch, lib, quota, shot, requests, crashes>>

StartComplete(r) == stage.status = "Uploading" /\ Begin(r, [Idle EXCEPT !.pc = "size"])
SizeOk == Len(part) = Blocks
CheckSize(r) ==
  /\ req[r].pc = "size"
  /\ IF SizeOk THEN Goto(r, "read") ELSE End(r)
  /\ UNCHANGED <<stage, part, job, watch, lib, quota, shot, requests, crashes>>
\* The content is sniffed by its first block; a file that is gone cannot be read.
ReadPart(r) ==
  /\ req[r].pc = "read"
  /\ IF part # <<>> /\ Head(part) = 1
     THEN req' = [req EXCEPT ![r].pc = "status", ![r].data = part] ELSE End(r)
  /\ UNCHANGED <<stage, part, job, watch, lib, quota, shot, requests, crashes>>
SetCompleted(r) ==
  /\ req[r].pc = "status" /\ stage' = [stage EXCEPT !.status = "Completed"]
  /\ Overtaking(r, Completing, [req[r] EXCEPT !.pc = "take"])
  /\ UNCHANGED <<part, job, watch, lib, quota, shot, requests, crashes>>
\* The part file goes, and a job takes the buffer in.
TakeIn(r) ==
  /\ req[r].pc = "take" /\ part' = <<>> /\ Overtaking(r, {"append"}, Idle)
  /\ Create([Unused EXCEPT !.kind = "large", !.pc = "usage", !.files = <<req[r].data>>])
  /\ stage' = [stage EXCEPT !.taken = @ + 1]
  /\ UNCHANGED <<watch, lib, quota, shot, requests, crashes>>

StartAbort(r) == stage.status # "none" /\ Begin(r, [Idle EXCEPT !.pc = "discard"])
Discard(r) ==
  /\ req[r].pc = "discard" /\ part' = <<>>
  /\ Overtaking(r, Completing \cup {"append"}, [req[r] EXCEPT !.pc = "aborted"])
  /\ UNCHANGED <<stage, job, watch, lib, quota, shot, requests, crashes>>
SetAborted(r) ==
  /\ req[r].pc = "aborted" /\ stage' = [stage EXCEPT !.status = "Aborted"]
  /\ Overtaking(r, Completing, Idle)
  /\ UNCHANGED <<part, job, watch, lib, quota, shot, requests, crashes>>

-----------------------------------------------------------------------------
(* Jobs: what they read first, their files one by one, and how they end.   *)

NewJob(new) ==
  /\ Count /\ Create(new)
  /\ UNCHANGED <<stage, part, req, watch, lib, quota, crashes>>
PostPhotos ==
  \E n \in 1..2 : /\ NewJob([Unused EXCEPT !.pc = "usage", !.files = [i \in 1..n |-> Small]])
                  /\ UNCHANGED shot
GuestUpload ==
  NewJob([Unused EXCEPT !.kind = "guest", !.pc = "usage", !.files = <<Small>>]) /\ UNCHANGED shot
\* Approval counts a photo then, not when the guest sends it.
StartApprove ==
  \E p \in lib.pending : /\ NewJob([Unused EXCEPT !.kind = "approve", !.pc = "quota", !.photo = p])
                         /\ UNCHANGED shot

\* The camera may send a file of the same name while the first is taken in; one that
\* was staged before the server started is never noticed (ignoreInitial).
Shoot ==
  /\ shot \in {"none", "taken"} /\ Count /\ shot' = IF shot = "none" THEN "staged" ELSE "late"
  /\ UNCHANGED <<stage, part, req, job, watch, lib, quota, crashes>>
NoticeShot ==
  /\ shot = "staged" /\ shot' = "taken"
  /\ Create([Unused EXCEPT !.kind = "capture", !.pc = "usage", !.files = <<Small>>])
  /\ UNCHANGED <<stage, part, req, watch, lib, quota, requests, crashes>>

\* Mutant: an error is not told.
Tell_Done(j, pc) ==
  watch' = [w \in Watchers |-> IF watch[w].job = j /\ pc = "done"
                               THEN [watch[w] EXCEPT !.told = TRUE] ELSE watch[w]]
\* The terminal event reaches the streams that are open.
Tell(j, pc) ==
  watch' = [w \in Watchers |-> IF watch[w].job = j /\ pc \in {"done", "error"}
                               THEN [watch[w] EXCEPT !.told = TRUE] ELSE watch[w]]
\* The staged file of a capture goes when it ends, whatever is in it by now.
Ended(new) == IF new.pc \in Settled THEN [Unused EXCEPT !.kind = new.kind, !.pc = new.pc] ELSE new
Unstage(new) == shot' = IF new.kind = "capture" /\ new.pc \in Settled THEN "none" ELSE shot
Step(j, new) ==
  /\ job' = [job EXCEPT ![j] = Ended(new)] /\ Tell(j, new.pc) /\ Unstage(new)
  /\ UNCHANGED <<stage, part, req, requests, crashes>>
\* j has written; new is what it goes on with, and those that read before are overtaken.
Write(j, new) ==
  /\ job' = [k \in Jobs |-> IF k = j THEN Ended(new)
               ELSE IF job[k].pc \in Working \ {"usage"}
                    THEN [job[k] EXCEPT !.overtaken = TRUE] ELSE job[k]]
  /\ Tell(j, new.pc) /\ Unstage(new)
  /\ UNCHANGED <<stage, part, req, requests, crashes>>

\* Mutant: the photos that this job has added are not counted in.
QuotaLeft_Start(new) ==
  new.kind \in Streamed /\ quota.plan = "active" => new.counted < QuotaTotal
\* The next file is stored, or skipped when a limit is reached; after the last, done.
\* The files of a batch are of one size here, so that once one is skipped all are.
QuotaLeft(new) ==
  new.kind \in Streamed /\ quota.plan = "active" => new.counted + new.new < QuotaTotal
StorageLeft(new) == new.used + Len(Head(new.files)) <= StorageLimit
NextFile(new) ==
  [new EXCEPT !.pc = IF new.files # <<>> /\ QuotaLeft(new) /\ StorageLeft(new)
                     THEN "create" ELSE "done"]

ReadUsage(j) ==
  LET new == [job[j] EXCEPT !.used = lib.bytes]
  IN /\ job[j].pc = "usage"
     /\ Step(j, IF new.kind = "guest" THEN NextFile(new) ELSE [new EXCEPT !.pc = "quota"])
     /\ UNCHANGED <<lib, quota>>
ReadQuota(j) ==
  LET new == [job[j] EXCEPT !.counted = quota.counted]
  IN /\ job[j].pc = "quota"
     /\ Step(j, IF ~QuotaOk THEN [new EXCEPT !.pc = IF new.kind \in Streamed THEN "error" ELSE "done"]
                ELSE IF new.kind = "approve" THEN [new EXCEPT !.pc = "approve"] ELSE NextFile(new))
     /\ UNCHANGED <<lib, quota>>
\* Mutant: the upload of a guest counts at once, and again when approved.
CreatePhoto_CountGuest(j) ==
  LET size == Len(Head(job[j].files))
      guest == job[j].kind = "guest"
      new == [job[j] EXCEPT !.used = @ + size, !.new = @ + 1, !.files = Tail(@)]
  IN /\ job[j].pc = "create"
     /\ lib' = [lib EXCEPT !.bytes = @ + size,
                           !.pending = IF guest THEN @ \cup {j} ELSE @,
                           !.shown = IF guest THEN @ ELSE @ + 1]
     /\ Write(j, [new EXCEPT !.pc = "consume"])
     /\ UNCHANGED quota
CreatePhoto(j) ==
  LET size == Len(Head(job[j].files))
      guest == job[j].kind = "guest"
      new == [job[j] EXCEPT !.used = @ + size, !.new = @ + 1, !.files = Tail(@)]
  IN /\ job[j].pc = "create"
     /\ lib' = [lib EXCEPT !.bytes = @ + size,
                           !.pending = IF guest THEN @ \cup {j} ELSE @,
                           !.shown = IF guest THEN @ ELSE @ + 1]
     /\ Write(j, IF guest THEN NextFile(new) ELSE [new EXCEPT !.pc = "consume"])
     /\ UNCHANGED quota
ApprovePhoto(j) ==
  LET p == job[j].photo
      again == p \notin lib.pending
  IN /\ job[j].pc = "approve"
     /\ lib' = [lib EXCEPT !.pending = @ \ {p}, !.shown = IF again THEN @ ELSE @ + 1]
     /\ quota' = [quota EXCEPT !.slipped = @ \/ again]
     /\ Step(j, [job[j] EXCEPT !.pc = "consume"])
\* Only an active subscription counts.
ConsumeQuota(j) ==
  /\ job[j].pc = "consume"
  /\ quota' = IF quota.plan = "active" THEN [quota EXCEPT !.counted = @ + 1] ELSE quota
  /\ Write(j, IF job[j].kind = "approve" THEN [job[j] EXCEPT !.pc = "done"] ELSE NextFile(job[j]))
  /\ UNCHANGED lib

\* An await of a job rejects: before its try block nobody is told.
Fail(j) ==
  /\ job[j].pc \in Working /\ crashes < MaxCrashes /\ crashes' = crashes + 1
  /\ LET end == IF job[j].kind \in Streamed THEN IF job[j].pc = "usage" THEN "silent" ELSE "error"
                ELSE "done"
         new == [job[j] EXCEPT !.pc = end]
     IN job' = [job EXCEPT ![j] = Ended(new)] /\ Tell(j, end) /\ Unstage(new)
  /\ quota' = [quota EXCEPT !.slipped = @ \/ job[j].pc = "consume"]
  /\ UNCHANGED <<stage, part, req, lib, requests>>

-----------------------------------------------------------------------------
(* The stream of a job, and restarts.                                      *)

\* There is no await between looking the job up and listening to it.
Watch(w) ==
  /\ watch[w] = Off
  /\ \E j \in Jobs :
       /\ job[j].kind \in Streamed /\ job[j].pc \notin {"unused", "forgotten"}
       /\ watch' = [watch EXCEPT ![w] = [job |-> j, told |-> job[j].pc \in {"done", "error"}]]
  /\ UNCHANGED <<stage, part, req, job, lib, quota, shot, requests, crashes>>
CloseStream(w) ==
  /\ watch[w] # Off /\ watch' = [watch EXCEPT ![w] = Off]
  /\ UNCHANGED <<stage, part, req, job, lib, quota, shot, requests, crashes>>

\* Requests, jobs and streams go; rows and files stay, a staged shot with them.
Restart ==
  /\ crashes < MaxCrashes /\ crashes' = crashes + 1
  /\ req' = [r \in Requests |-> Idle] /\ watch' = [w \in Watchers |-> Off]
  /\ job' = [j \in Jobs |-> IF job[j].pc = "unused" THEN job[j]
                            ELSE [Unused EXCEPT !.kind = job[j].kind, !.pc = "forgotten"]]
  /\ quota' = [quota EXCEPT !.slipped = @ \/ \E j \in Jobs : job[j].pc = "consume"]
  /\ shot' = IF shot = "none" THEN "none" ELSE "stranded"
  /\ UNCHANGED <<stage, part, lib, requests>>

Session(r) ==
  \/ StartPart(r) \/ StatPart(r) \/ WritePart(r) \/ TearPart(r) \/ Received(r)
  \/ StartComplete(r) \/ CheckSize(r) \/ ReadPart(r) \/ SetCompleted(r) \/ TakeIn(r)
  \/ StartAbort(r) \/ Discard(r) \/ SetAborted(r)
JobStep(j) ==
  ReadUsage(j) \/ ReadQuota(j) \/ CreatePhoto(j) \/ ApprovePhoto(j) \/ ConsumeQuota(j)
Next ==
  \/ Initiate \/ \E r \in Requests : Session(r)
  \/ PostPhotos \/ GuestUpload \/ StartApprove \/ Shoot \/ NoticeShot
  \/ \E j \in Jobs : JobStep(j) \/ Fail(j)
  \/ \E w \in Watchers : Watch(w) \/ CloseStream(w)
  \/ Restart

Spec == Init /\ [][Next]_vars
\* A job runs by itself: each await of it returns.
FairSpec == Spec /\ \A j \in Jobs : WF_vars(JobStep(j))

-----------------------------------------------------------------------------
(* Properties.                                                             *)

\* Every variable stays in its type; what is received never exceeds the declared size.
TypeOK ==
  /\ stage \in [status : {"none", "Uploading", "Completed", "Aborted"}, received : 0..Blocks,
                taken : Nat, mixed : BOOLEAN]
  /\ part \in Seq(1..Blocks)
  /\ req \in [Requests -> [pc : {"idle", "stat", "append", "received", "size", "read", "status",
                                "take", "discard", "aborted"},
                           at : 0..Blocks, data : Seq(1..Blocks), overtaken : BOOLEAN]]
  /\ job \in [Jobs -> [kind : Kinds, pc : {"unused"} \cup Working \cup Settled,
                       files : Seq(Seq(0..Blocks)), used : Nat, counted : Nat, new : Nat,
                       photo : Jobs \cup {NoJob}, overtaken : BOOLEAN]]
  /\ watch \in [Watchers -> [job : Jobs \cup {NoJob}, told : BOOLEAN]]
  /\ lib \in [bytes : Nat, pending : SUBSET (Jobs \cup {NoJob}), shown : Nat]
  /\ quota \in [plan : {"none", "active", "paused"}, counted : Nat, slipped : BOOLEAN]
  /\ shot \in {"none", "staged", "taken", "late", "stranded"}
  /\ requests \in 0..MaxRequests /\ crashes \in 0..MaxCrashes

\* What a completion takes in is the file that the client sent, once, of a session that
\* nobody aborted: unless a part was appended after its offset had been passed by another,
\* or the session was completed or aborted, or its file discarded, since the completion began.
TakenInWhole ==
  [][\A r \in Requests : req[r].pc = "take" /\ stage'.taken > stage.taken =>
       \/ req[r].overtaken
       \/ /\ stage.taken = 0 /\ stage.status = "Completed"
          /\ stage.mixed \/ req[r].data = File]_vars

\* An upload goes above the storage limit or the photo quota only if another one wrote
\* since it read how much was left (processUploadJob reads both once, before its files).
LimitsHold ==
  [][\A j \in Jobs : ~job[j].overtaken =>
       /\ job[j].pc = "create" /\ job'[j].pc # "create" /\ lib'.bytes > lib.bytes
            => lib'.bytes <= StorageLimit
       /\ job[j].pc = "consume" /\ quota'.counted > quota.counted
            => quota'.counted <= QuotaTotal]_vars

\* Each photo that is shown has been counted once, a guest's when it was approved, unless
\* a job stopped between the two or two approvals of one photo overlapped.
CountedOnce ==
  quota.plan = "active" /\ ~quota.slipped =>
    quota.counted + Cardinality({j \in Jobs : job[j].pc = "consume"}) = lib.shown

\* The types, and what the quota counts is what the gallery shows (consumeQuota).
UploadInv == TypeOK /\ CountedOnce

\* The refinement: the jobs that have an entry in the registry, and their streams.
Phase(j) ==
  IF job[j].kind \notin Streamed \/ job[j].pc = "unused" THEN "none"
  ELSE IF job[j].pc \in Working THEN "running"
  ELSE IF job[j].pc \in {"done", "error"} THEN "ended" ELSE job[j].pc
Stream == INSTANCE JobStream WITH phase <- [j \in Jobs |-> Phase(j)], stream <- watch

\* The registry and the jobs implement JobStream: every watcher is told of the end of its
\* job, and every job ends unless it falls silent or the server restarts.
ImplementsJobStream == Stream!StreamSpec

=============================================================================
