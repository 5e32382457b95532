----------------------------- MODULE UploadsProofs -----------------------------
(***************************************************************************)
(* What holds of Uploads for any requests, jobs, watchers, sizes and       *)
(* limits: the types, that what is shown is what was counted, that a       *)
(* completion takes in the file that was sent, that a job whose reading    *)
(* nobody has overtaken stays below the limits, and that the jobs and      *)
(* their streams implement JobStream, step by step.                        *)
(*                                                                         *)
(* None of these is inductive as it stands.  The invariant says of every   *)
(* request and job what it still knows of the stage, of the part file, of  *)
(* the photos and of the quota, unless it has been overtaken.              *)
(***************************************************************************)
EXTENDS Uploads, FiniteSetTheorems, SequenceTheorems, TLAPS

\* The blocks of d are those of the file that follow the first at of them.
InOrder(at, d) == at + Len(d) <= Blocks /\ \A i \in DOMAIN d : d[i] = at + i

\* The part file is a beginning of the file, unless two parts have mixed.
PartInv == ~stage.mixed => InOrder(0, part)
StageInv == stage.status \in {"none", "Uploading"} => stage.taken = 0

\* q sends a part of the file; what it has read of the part file's end holds.
PartSound(q) ==
  /\ q.pc \in {"stat", "append", "received"} => q.at < Blocks /\ InOrder(q.at, q.data)
  /\ q.pc = "append" /\ ~q.overtaken => Len(part) = q.at
\* q completes the session; what it has read of the file and of the stage holds.
CompletionSound(q) ==
  /\ q.pc = "read" /\ ~q.overtaken /\ ~stage.mixed => Len(part) = Blocks
  /\ q.pc \in {"status", "take"} /\ ~q.overtaken /\ ~stage.mixed => q.data = File
  /\ q.pc \in {"size", "read", "status"} /\ ~q.overtaken => stage.status = "Uploading"
  /\ q.pc = "take" => stage.status # "Uploading"
  /\ q.pc = "take" /\ ~q.overtaken => stage.status = "Completed" /\ stage.taken = 0
RequestsInv ==
  /\ \A r \in Requests : PartSound(req[r]) /\ CompletionSound(req[r])
  /\ stage.status = "none" => \A r \in Requests : req[r].pc = "idle"
  /\ \A r, q \in Requests : r # q /\ req[r].pc = "take" /\ req[q].pc = "take" => req[r].overtaken
SessionInv == PartInv /\ StageInv /\ RequestsInv

\* k has read how many bytes are stored, and room for the file at hand was left.
BytesSound(k) ==
  /\ k.pc = "create" => k.files # <<>> /\ k.used + Len(Head(k.files)) <= StorageLimit
  /\ k.pc \in {"quota", "create", "consume"} /\ k.kind # "approve" /\ ~k.overtaken => k.used = lib.bytes
\* How many photos of k the quota has counted.
Booked(k) == IF k.pc = "consume" /\ k.kind # "approve" THEN k.new - 1 ELSE k.new
\* k has read how much of the quota is used, and room for the photo at hand was left.
QuotaSound(k) ==
  /\ k.pc = "quota" => k.new = 0
  /\ k.pc \in {"create", "approve", "consume"} /\ quota.plan = "active" /\ k.kind # "guest" =>
       /\ k.counted + Booked(k) < QuotaTotal
       /\ ~k.overtaken => quota.counted = k.counted + Booked(k)
\* What sort of job is where; one that takes in a capture or a guest's photo has one file.
KindSound(k) ==
  /\ k.kind = "guest" => k.pc \notin {"quota", "approve", "consume"}
  /\ k.kind = "approve" => k.pc \notin {"usage", "create"} /\ k.new = 0
  /\ k.kind # "approve" => k.pc # "approve"
  /\ k.kind = "capture" => Len(k.files) <= 1 /\ (k.pc = "consume" => k.files = <<>>)
  /\ k.pc \in {"usage", "quota"} => k.new = 0
Sound(k) == BytesSound(k) /\ QuotaSound(k) /\ KindSound(k)
JobsInv == \A j \in Jobs : Sound(job[j])

Consuming == {j \in Jobs : job[j].pc = "consume"}
CountInv == IsFiniteSet(Consuming) /\ CountedOnce

\* Only a job that has a stream is watched.
WatchInv == \A w \in Watchers : watch[w].job \in Jobs =>
  job[watch[w].job].kind \in Streamed /\ job[watch[w].job].pc # "unused"

IInv == TypeOK /\ SessionInv /\ JobsInv /\ CountInv /\ WatchInv

-----------------------------------------------------------------------------
(* The blocks of the file.                                                 *)

LEMMA TheFile ==
  File \in Seq(1..Blocks) /\ Len(File) = Blocks /\ \A i \in 1..Blocks : File[i] = i
<1>1. File \in [1..Blocks -> 1..Blocks]
  BY DEF File
<1>2. File \in Seq(1..Blocks)
  BY <1>1, SeqDef, BlocksAssumption
<1>3. Len(File) = Blocks
  BY <1>1, <1>2, LenProperties, BlocksAssumption
<1>4. QED
  BY <1>2, <1>3 DEF File

LEMMA PartOfFile ==
  ASSUME NEW at \in 0..(Blocks - 1), NEW n \in 1..(Blocks - at)
  PROVE  /\ SubSeq(File, at + 1, at + n) \in Seq(1..Blocks)
         /\ InOrder(at, SubSeq(File, at + 1, at + n))
<1> DEFINE d == SubSeq(File, at + 1, at + n)
<1>1. \A i \in (at + 1)..(at + n) : i \in 1..Blocks /\ File[i] = i
  BY TheFile, BlocksAssumption
<1>2. d \in Seq(1..Blocks) /\ Len(d) = n /\ \A i \in 1..n : d[i] = File[at + i]
  <2>1. PICK a \in Int, b \in Int : a = at + 1 /\ b = at + n
    BY BlocksAssumption
  <2>2. \A i \in a..b : File[i] \in 1..Blocks
    BY <1>1, <2>1
  <2>3. /\ SubSeq(File, a, b) \in Seq(1..Blocks)
        /\ Len(SubSeq(File, a, b)) = (IF a <= b THEN b - a + 1 ELSE 0)
        /\ \A i \in 1..(b - a + 1) : SubSeq(File, a, b)[i] = File[a + i - 1]
    BY <2>2, SubSeqProperties
  <2>4. d = SubSeq(File, a, b)
    BY <2>1
  <2> HIDE DEF d
  <2>5. a <= b /\ b - a + 1 = n /\ \A i \in 1..n : a + i - 1 = at + i
    BY <2>1, BlocksAssumption
  <2>6. QED
    BY <2>3, <2>4, <2>5
<1> HIDE DEF d
<1>3. DOMAIN d = 1..n
  BY <1>2, LenProperties
<1>4. InOrder(at, d)
  BY <1>1, <1>2, <1>3, BlocksAssumption DEF InOrder
<1>5. QED
  BY <1>2, <1>4 DEF d

\* What a disk that fills up takes of a part.
LEMMA Torn ==
  ASSUME NEW d \in Seq(1..Blocks), NEW n \in 0..(Len(d) - 1)
  PROVE  /\ SubSeq(d, 1, n) \in Seq(1..Blocks)
         /\ \A at \in Nat : InOrder(at, d) => InOrder(at, SubSeq(d, 1, n))
<1> DEFINE t == SubSeq(d, 1, n)
<1>1. Len(d) \in Nat /\ DOMAIN d = 1..Len(d)
  BY LenProperties
<1>2. ASSUME NEW i \in 1..n PROVE i \in 1..Len(d) /\ d[i] \in 1..Blocks
  <2>1. i \in 1..Len(d)
    BY <1>1
  <2>2. QED
    BY <2>1, ElementOfSeq
<1>3. t \in Seq(1..Blocks) /\ Len(t) = (IF 1 <= n THEN n - 1 + 1 ELSE 0)
      /\ \A i \in 1..(n - 1 + 1) : t[i] = d[1 + i - 1]
  <2>1. PICK a \in Int, b \in Int : a = 1 /\ b = n
    BY <1>1
  <2>2. \A i \in a..b : d[i] \in 1..Blocks
    BY <1>2, <2>1
  <2>3. /\ SubSeq(d, a, b) \in Seq(1..Blocks)
        /\ Len(SubSeq(d, a, b)) = (IF a <= b THEN b - a + 1 ELSE 0)
        /\ \A i \in 1..(b - a + 1) : SubSeq(d, a, b)[i] = d[a + i - 1]
    BY <2>2, SubSeqProperties
  <2>4. QED
    BY <2>1, <2>3
<1> HIDE DEF t
<1>4. Len(t) = n /\ DOMAIN t = 1..n /\ \A i \in 1..n : t[i] = d[i]
  BY <1>1, <1>3, LenProperties
<1>5. \A at \in Nat : InOrder(at, d) => InOrder(at, t)
  BY <1>1, <1>4, BlocksAssumption DEF InOrder
<1>6. QED
  BY <1>3, <1>5 DEF t

LEMMA Joined ==
  ASSUME NEW p \in Seq(1..Blocks), NEW d \in Seq(1..Blocks)
  PROVE  /\ p \o d \in Seq(1..Blocks)
         /\ InOrder(0, p) /\ InOrder(Len(p), d) => InOrder(0, p \o d)
<1> DEFINE c == p \o d
<1>1. /\ c \in Seq(1..Blocks) /\ Len(c) = Len(p) + Len(d)
      /\ \A i \in 1..(Len(p) + Len(d)) : c[i] = IF i <= Len(p) THEN p[i] ELSE d[i - Len(p)]
  BY ConcatProperties
<1> HIDE DEF c
<1>2. /\ Len(p) \in Nat /\ Len(d) \in Nat /\ DOMAIN p = 1..Len(p) /\ DOMAIN d = 1..Len(d)
      /\ DOMAIN c = 1..(Len(p) + Len(d))
  BY <1>1, LenProperties
<1>3. ASSUME InOrder(0, p), InOrder(Len(p), d) PROVE InOrder(0, c)
  <2>1. 0 + Len(c) <= Blocks
    BY <1>1, <1>2, <1>3, BlocksAssumption DEF InOrder
  <2>2. ASSUME NEW i \in DOMAIN c PROVE c[i] = 0 + i
    <3>1. i \in 1..(Len(p) + Len(d)) /\ i \in Nat
      BY <1>2
    <3>2. CASE i <= Len(p)
      <4>1. i \in DOMAIN p /\ c[i] = p[i]
        BY <1>1, <1>2, <3>1, <3>2
      <4>2. QED
        BY <1>3, <4>1 DEF InOrder
    <3>3. CASE ~(i <= Len(p))
      <4>1. i - Len(p) \in DOMAIN d /\ c[i] = d[i - Len(p)]
        BY <1>1, <1>2, <3>1, <3>3
      <4>2. d[i - Len(p)] = Len(p) + (i - Len(p))
        BY <1>3, <4>1 DEF InOrder
      <4>3. QED
        BY <1>2, <3>1, <4>1, <4>2
    <3>4. QED
      BY <3>2, <3>3
  <2>3. QED
    BY <2>1, <2>2 DEF InOrder
<1>4. QED
  BY <1>1, <1>3 DEF c

LEMMA Whole ==
  ASSUME NEW p \in Seq(1..Blocks), InOrder(0, p), Len(p) = Blocks
  PROVE  p = File
<1>1. DOMAIN p = 1..Len(p)
  BY LenProperties
<1>2. \A i \in 1..Len(p) : p[i] = File[i]
  BY <1>1, TheFile, BlocksAssumption DEF InOrder
<1>3. QED
  BY <1>2, TheFile, SeqEqual

-----------------------------------------------------------------------------
(* The types of the upload session.                                        *)

Stage == [status : {"none", "Uploading", "Completed", "Aborted"}, received : 0..Blocks,
          taken : Nat, mixed : BOOLEAN]
Request == [pc : {"idle", "stat", "append", "received", "size", "read", "status",
                  "take", "discard", "aborted"},
            at : 0..Blocks, data : Seq(1..Blocks), overtaken : BOOLEAN]
SessionTypes ==
  stage \in Stage /\ part \in Seq(1..Blocks) /\ req \in [Requests -> Request]

LEMMA IdleTyped == Idle \in Request /\ PartSound(Idle) /\ CompletionSound(Idle)
<1>1. <<>> \in Seq(1..Blocks)
  BY EmptySeq
<1>2. QED
  BY <1>1, BlocksAssumption DEF Idle, Request, PartSound, CompletionSound

\* What the others know when r has written.
LEMMA Others ==
  ASSUME SessionTypes, NEW r \in Requests, NEW S, NEW new \in Request, Overtaking(r, S, new)
  PROVE  /\ req' \in [Requests -> Request] /\ req'[r] = new
         /\ \A q \in Requests \ {r} :
              /\ req'[q].pc = req[q].pc /\ req'[q].at = req[q].at /\ req'[q].data = req[q].data
              /\ req'[q].overtaken <=> req[q].overtaken \/ req[q].pc \in S
<1>1. req' = [q \in Requests |-> IF q = r THEN new
                ELSE [req[q] EXCEPT !.overtaken = req[q].overtaken \/ req[q].pc \in S]]
  BY DEF Overtaking
<1>2. ASSUME NEW q \in Requests \ {r}
      PROVE  /\ req'[q] \in Request
             /\ req'[q].pc = req[q].pc /\ req'[q].at = req[q].at /\ req'[q].data = req[q].data
             /\ req'[q].overtaken <=> req[q].overtaken \/ req[q].pc \in S
  <2>1. req[q] \in Request
    BY DEF SessionTypes
  <2>2. req'[q] = [req[q] EXCEPT !.overtaken = req[q].overtaken \/ req[q].pc \in S]
    BY <1>1
  <2>3. QED
    BY <2>1, <2>2 DEF Request
<1>3. req'[r] = new
  BY <1>1
<1>4. req' \in [Requests -> Request]
  BY <1>1, <1>2, <1>3
<1>5. QED
  BY <1>2, <1>3, <1>4

-----------------------------------------------------------------------------
(* The upload session.  A request that only goes on, or ends, and one that *)
(* writes what others have read.                                           *)

SameStage ==
  /\ stage' \in Stage /\ stage'.status = stage.status /\ stage'.taken = stage.taken
  /\ stage'.mixed = stage.mixed /\ part' = part

LEMMA GoesOn ==
  ASSUME SessionTypes, SessionInv, SameStage,
         NEW r \in Requests, NEW new \in Request, req' = [req EXCEPT ![r] = new],
         PartSound(new), CompletionSound(new), new.pc # "take",
         stage.status = "none" => new.pc = "idle"
  PROVE  SessionTypes' /\ SessionInv'
<1>1. req' \in [Requests -> Request] /\ \A q \in Requests : req'[q] = IF q = r THEN new ELSE req[q]
  BY DEF SessionTypes
<1>2. PartInv' /\ StageInv'
  BY DEF SessionInv, PartInv, StageInv, SameStage
<1>3. ASSUME NEW k \in Request, PartSound(k), CompletionSound(k)
      PROVE  PartSound(k)' /\ CompletionSound(k)'
  BY <1>3 DEF PartSound, CompletionSound, SameStage
<1>4. ASSUME NEW q \in Requests PROVE PartSound(req[q])' /\ CompletionSound(req[q])'
  <2>1. PICK k \in Request : k = (IF q = r THEN new ELSE req[q])
    BY DEF SessionTypes
  <2>2. PartSound(k) /\ CompletionSound(k)
    BY <2>1 DEF SessionInv, RequestsInv
  <2>3. req'[q] = k
    BY <1>1, <2>1
  <2>4. QED
    BY <1>3, <2>2, <2>3
<1>5. stage'.status = "none" => \A q \in Requests : req'[q].pc = "idle"
  BY <1>1 DEF SessionInv, RequestsInv, SameStage
<1>6. \A p, q \in Requests : p # q /\ req'[p].pc = "take" /\ req'[q].pc = "take" => req'[p].overtaken
  BY <1>1 DEF SessionInv, RequestsInv
<1>7. QED
  BY <1>1, <1>2, <1>4, <1>5, <1>6 DEF SessionTypes, SessionInv, RequestsInv, SameStage

LEMMA Same == ASSUME SessionTypes, UNCHANGED <<stage, part>> PROVE SameStage
  BY DEF SessionTypes, SameStage

LEMMA PartsGoOn ==
  ASSUME SessionTypes, SessionInv, NEW r \in Requests,
         StartPart(r) \/ StatPart(r) \/ Received(r)
  PROVE  SessionTypes' /\ SessionInv'
<1>1. CASE StartPart(r)
  <2>0. PICK at \in 0..(Blocks - 1) : \E n \in 1..(Blocks - at) :
          Begin(r, [Idle EXCEPT !.pc = "stat", !.at = at, !.data = SubSeq(File, at + 1, at + n)])
    BY <1>1 DEF StartPart
  <2>1. PICK n \in 1..(Blocks - at) :
          Begin(r, [Idle EXCEPT !.pc = "stat", !.at = at, !.data = SubSeq(File, at + 1, at + n)])
    BY <2>0
  <2>2. PICK d \in Seq(1..Blocks) : d = SubSeq(File, at + 1, at + n) /\ InOrder(at, d)
    BY PartOfFile
  <2>3. [pc |-> "stat", at |-> at, data |-> d, overtaken |-> FALSE] \in Request
    BY BlocksAssumption DEF Request
  <2>4. PICK new \in Request : new = [pc |-> "stat", at |-> at, data |-> d, overtaken |-> FALSE]
    BY <2>3
  <2>5. req' = [req EXCEPT ![r] = new] /\ UNCHANGED <<stage, part>> /\ stage.status = "Uploading"
    BY <1>1, <2>1, <2>2, <2>4 DEF StartPart, Begin, Idle
  <2>6. PartSound(new) /\ CompletionSound(new)
    BY <2>2, <2>4, BlocksAssumption DEF PartSound, CompletionSound
  <2>7. QED
    BY <2>4, <2>5, <2>6, Same, GoesOn
<1>2. CASE StatPart(r)
  <2>1. PICK k \in Request : k = req[r] /\ k.pc = "stat" /\ PartSound(k)
    BY <1>2 DEF SessionTypes, StatPart, SessionInv, RequestsInv
  <2>2. stage.status # "none" /\ UNCHANGED <<stage, part>>
    BY <1>2, <2>1 DEF StatPart, SessionInv, RequestsInv
  <2>3. CASE PartOffset(r)
    <3>1. PICK new \in Request : new = [k EXCEPT !.pc = "append"]
      BY DEF Request
    <3>2. req' = [req EXCEPT ![r] = new]
      BY <1>2, <2>1, <2>3, <3>1 DEF StatPart, Goto
    <3>3. new.pc = "append" /\ new.at = k.at /\ new.data = k.data /\ Len(part) = k.at
      BY <2>1, <2>3, <3>1 DEF PartOffset, Request
    <3>4. PartSound(new) /\ CompletionSound(new)
      BY <2>1, <3>3 DEF PartSound, CompletionSound
    <3>5. QED
      BY <2>2, <3>2, <3>3, <3>4, Same, GoesOn
  <2>4. CASE ~PartOffset(r)
    <3>1. req' = [req EXCEPT ![r] = Idle]
      BY <1>2, <2>4 DEF StatPart, End
    <3>2. QED
      BY <2>2, <3>1, IdleTyped, Same, GoesOn DEF Idle
  <2>5. QED
    BY <2>3, <2>4
<1>3. CASE Received(r)
  <2>1. PICK k \in Request : k = req[r] /\ k.pc = "received" /\ PartSound(k)
    BY <1>3 DEF SessionTypes, Received, SessionInv, RequestsInv
  <2>2. k.at + Len(k.data) \in 0..Blocks
    <3>1. Len(k.data) \in Nat /\ k.at \in Nat
      BY LenProperties, BlocksAssumption DEF Request
    <3>2. QED
      BY <2>1, <3>1, BlocksAssumption DEF PartSound, InOrder
  <2>3. SameStage
    BY <1>3, <2>1, <2>2 DEF Received, SameStage, Stage, SessionTypes
  <2>4. req' = [req EXCEPT ![r] = Idle] /\ Idle.pc = "idle"
    BY <1>3 DEF Received, End, Idle
  <2>5. QED
    BY <2>3, <2>4, IdleTyped, GoesOn
<1>4. QED
  BY <1>1, <1>2, <1>3

LEMMA CompletionsGoOn ==
  ASSUME SessionTypes, SessionInv, NEW r \in Requests,
         StartComplete(r) \/ StartAbort(r) \/ CheckSize(r) \/ ReadPart(r)
  PROVE  SessionTypes' /\ SessionInv'
<1>1. PICK k \in Request : k = req[r] /\ PartSound(k) /\ CompletionSound(k)
  BY DEF SessionTypes, SessionInv, RequestsInv
<1>2. UNCHANGED <<stage, part>> /\ SameStage
  BY Same DEF StartComplete, StartAbort, CheckSize, ReadPart, Begin
<1>3. stage.status # "none"
  BY <1>1 DEF StartComplete, StartAbort, CheckSize, ReadPart, SessionInv, RequestsInv
<1>4. CASE req' = [req EXCEPT ![r] = Idle]
  BY <1>2, <1>3, <1>4, IdleTyped, GoesOn DEF Idle
<1>5. CASE StartComplete(r)
  <2>1. PICK new \in Request : new = [Idle EXCEPT !.pc = "size"]
    BY IdleTyped DEF Request
  <2>2. req' = [req EXCEPT ![r] = new] /\ stage.status = "Uploading" /\ new.pc = "size"
    BY <1>5, <2>1, IdleTyped DEF StartComplete, Begin, Request
  <2>3. PartSound(new) /\ CompletionSound(new)
    BY <2>2 DEF PartSound, CompletionSound
  <2>4. QED
    BY <1>2, <1>3, <2>2, <2>3, GoesOn
<1>6. CASE StartAbort(r)
  <2>1. PICK new \in Request : new = [Idle EXCEPT !.pc = "discard"]
    BY IdleTyped DEF Request
  <2>2. req' = [req EXCEPT ![r] = new] /\ new.pc = "discard"
    BY <1>6, <2>1, IdleTyped DEF StartAbort, Begin, Request
  <2>3. PartSound(new) /\ CompletionSound(new)
    BY <2>2 DEF PartSound, CompletionSound
  <2>4. QED
    BY <1>2, <1>3, <2>2, <2>3, GoesOn
<1>7. CASE CheckSize(r) /\ SizeOk
  <2>1. PICK new \in Request : new = [k EXCEPT !.pc = "read"]
    BY DEF Request
  <2>2. /\ req' = [req EXCEPT ![r] = new] /\ k.pc = "size"
        /\ new.pc = "read" /\ new.overtaken = k.overtaken
    BY <1>1, <1>7, <2>1 DEF CheckSize, Goto, Request
  <2>3. PartSound(new) /\ CompletionSound(new)
    BY <1>1, <1>7, <2>2 DEF PartSound, CompletionSound, SizeOk
  <2>4. QED
    BY <1>2, <1>3, <2>2, <2>3, GoesOn
<1>8. CASE ReadPart(r) /\ part # <<>> /\ Head(part) = 1
  <2>1. PICK new \in Request : new = [k EXCEPT !.pc = "status", !.data = part]
    BY DEF Request, SessionTypes
  <2>2. /\ req' = [req EXCEPT ![r] = new] /\ k.pc = "read"
        /\ new.pc = "status" /\ new.overtaken = k.overtaken /\ new.data = part
    BY ZenonT(40), <1>1, <1>8, <2>1 DEF ReadPart, Request
  <2>3. Len(part) = Blocks /\ ~stage.mixed => part = File
    BY Whole DEF SessionTypes, SessionInv, PartInv
  <2>4. PartSound(new) /\ CompletionSound(new)
    BY <1>1, <2>2, <2>3 DEF PartSound, CompletionSound
  <2>5. QED
    BY <1>2, <1>3, <2>2, <2>4, GoesOn
<1>9. QED
  BY <1>4, <1>5, <1>6, <1>7, <1>8 DEF CheckSize, ReadPart, End

\* What holds of the others holds when r has written, if it holds of each of them.
LEMMA Wrote ==
  ASSUME SessionTypes, SessionInv, NEW r \in Requests, NEW S, NEW new \in Request,
         Overtaking(r, S, new), stage' \in Stage, part' \in Seq(1..Blocks), PartInv', StageInv',
         stage'.status # "none", PartSound(new)', CompletionSound(new)',
         \A q \in Requests \ {r} : PartSound(req[q])' /\ CompletionSound(req[q])',
         \A q \in Requests \ {r} : /\ req[q].pc = "take" /\ new.pc = "take" => new.overtaken
                                   /\ req[q].pc = "take" /\ new.pc = "take" => "take" \in S
  PROVE  SessionTypes' /\ SessionInv'
<1>1. /\ req' \in [Requests -> Request] /\ req'[r] = new
      /\ \A q \in Requests \ {r} : /\ req'[q].pc = req[q].pc
                                   /\ req'[q].overtaken <=> req[q].overtaken \/ req[q].pc \in S
  BY Others
<1>2. ASSUME NEW q \in Requests PROVE PartSound(req[q])' /\ CompletionSound(req[q])'
  <2>1. CASE q = r
    BY <1>1, <2>1
  <2>2. CASE q # r
    BY <2>2
  <2>3. QED
    BY <2>1, <2>2
<1>3. ASSUME NEW p \in Requests, NEW q \in Requests, p # q, req'[p].pc = "take", req'[q].pc = "take"
      PROVE  req'[p].overtaken
  <2>1. CASE p = r
    BY <2>1, <1>1, <1>3
  <2>2. CASE q = r
    BY <2>2, <1>1, <1>3
  <2>3. CASE p # r /\ q # r
    BY <2>3, <1>1, <1>3 DEF SessionInv, RequestsInv
  <2>4. QED
    BY <2>1, <2>2, <2>3
<1>4. QED
  BY <1>1, <1>2, <1>3 DEF SessionTypes, SessionInv, RequestsInv

LEMMA Appends ==
  ASSUME SessionTypes, SessionInv, NEW r \in Requests, WritePart(r) \/ TearPart(r)
  PROVE  SessionTypes' /\ SessionInv'
<1>1. PICK k \in Request : k = req[r] /\ k.pc = "append" /\ PartSound(k)
  BY DEF SessionTypes, SessionInv, RequestsInv, WritePart, TearPart, Append1
<1>2. Stamping(r) \in Request /\ Stamping(r).pc = "received"
      /\ Stamping(r).at = k.at /\ Stamping(r).data = k.data
  BY <1>1 DEF Stamping, Request
<1>3. PICK d \in Seq(1..Blocks), new \in {Idle, Stamping(r)} : InOrder(k.at, d) /\ Append1(r, d, new)
  <2>1. InOrder(k.at, k.data) /\ k.data \in Seq(1..Blocks) /\ k.at \in Nat
    BY <1>1, BlocksAssumption DEF PartSound, Request
  <2>2. CASE WritePart(r)
    BY <1>1, <2>1, <2>2 DEF WritePart
  <2>3. CASE TearPart(r)
    <3>1. PICK n \in 0..(Len(k.data) - 1), new \in {Idle, Stamping(r)} :
            Append1(r, SubSeq(k.data, 1, n), new)
      BY <1>1, <2>3 DEF TearPart
    <3>2. SubSeq(k.data, 1, n) \in Seq(1..Blocks) /\ InOrder(k.at, SubSeq(k.data, 1, n))
      BY <2>1, Torn
    <3>3. QED
      BY <3>1, <3>2
  <2>4. QED
    BY <2>2, <2>3
<1>4. new \in Request /\ new.pc \in {"idle", "received"}
      /\ (new.pc = "received" => new.at = k.at /\ new.data = k.data)
  <2>1. Idle.pc = "idle"
    BY DEF Idle
  <2>2. QED
    BY <1>2, <2>1, IdleTyped
<1>5. /\ stage' \in Stage /\ stage'.status = stage.status /\ stage'.taken = stage.taken
      /\ stage'.mixed <=> stage.mixed \/ k.overtaken
  BY <1>1, <1>3 DEF Append1, SessionTypes, Stage
<1>6. Overtaking(r, {"append"}, new) /\ part' = part \o d
  BY <1>3 DEF Append1
<1>7. stage.status # "none"
  BY <1>1 DEF SessionInv, RequestsInv
<1>8. part' \in Seq(1..Blocks) /\ PartInv' /\ StageInv'
  <2>1. part' \in Seq(1..Blocks)
    BY <1>6, Joined DEF SessionTypes
  <2>2. ~stage'.mixed => InOrder(0, part) /\ InOrder(Len(part), d)
    BY <1>1, <1>3, <1>5 DEF PartSound, SessionInv, PartInv
  <2>3. PartInv'
    BY <1>6, <2>2, Joined DEF SessionTypes, PartInv
  <2>4. QED
    BY <1>5, <2>1, <2>3 DEF SessionInv, StageInv
<1>9. PartSound(new)' /\ CompletionSound(new)'
  BY <1>1, <1>4 DEF PartSound, CompletionSound
<1>10. ASSUME NEW q \in Requests \ {r} PROVE PartSound(req[q])' /\ CompletionSound(req[q])'
  <2>1. PICK o \in Request : o = req[q] /\ PartSound(o) /\ CompletionSound(o)
    BY DEF SessionTypes, SessionInv, RequestsInv
  <2>2. PICK n \in Request :
          /\ n = req'[q] /\ n.pc = o.pc /\ n.at = o.at /\ n.data = o.data
          /\ n.overtaken <=> o.overtaken \/ o.pc = "append"
    BY <1>4, <1>6, <2>1, Others
  <2>3. PartSound(n)'
    BY <2>1, <2>2 DEF PartSound
  <2>4. ~(o.pc = "read" /\ ~o.overtaken /\ ~stage'.mixed)
    BY <1>1, <1>5, <2>1, BlocksAssumption DEF PartSound, CompletionSound, Request
  <2>5. CompletionSound(n)'
    BY <1>5, <2>1, <2>2, <2>4 DEF CompletionSound
  <2>6. QED
    BY <2>2, <2>3, <2>5
<1>11. QED
  BY <1>4, <1>5, <1>6, <1>7, <1>8, <1>9, <1>10, Wrote

\* What q, another than r, was and is when r has written.
LEMMA Other ==
  ASSUME SessionTypes, SessionInv, NEW r \in Requests, NEW S, NEW new \in Request,
         Overtaking(r, S, new), NEW q \in Requests \ {r}
  PROVE  \E o, n \in Request :
           /\ o = req[q] /\ PartSound(o) /\ CompletionSound(o)
           /\ n = req'[q] /\ n.pc = o.pc /\ n.at = o.at /\ n.data = o.data
           /\ n.overtaken <=> o.overtaken \/ o.pc \in S
<1>1. req[q] \in Request /\ req'[q] \in Request
  BY Others DEF SessionTypes
<1>2. PartSound(req[q]) /\ CompletionSound(req[q])
  BY DEF SessionInv, RequestsInv
<1>3. /\ req'[q].pc = req[q].pc /\ req'[q].at = req[q].at /\ req'[q].data = req[q].data
      /\ req'[q].overtaken <=> req[q].overtaken \/ req[q].pc \in S
  BY Others
<1>4. QED
  BY <1>1, <1>2, <1>3

\* The status is written: those that complete are overtaken.
LEMMA Completes ==
  ASSUME SessionTypes, SessionInv, NEW r \in Requests, SetCompleted(r)
  PROVE  SessionTypes' /\ SessionInv'
<1>1. PICK k \in Request : k = req[r] /\ k.pc = "status" /\ CompletionSound(k)
  BY DEF SessionTypes, SessionInv, RequestsInv, SetCompleted
<1>2. PICK new \in Request : new = [k EXCEPT !.pc = "take"]
  BY DEF Request
<1>3. new.pc = "take" /\ new.overtaken = k.overtaken /\ new.data = k.data
  BY <1>2 DEF Request
<1>4. Overtaking(r, Completing, new) /\ UNCHANGED part
  BY <1>1, <1>2 DEF SetCompleted
<1>5. /\ stage' \in Stage /\ stage'.taken = stage.taken /\ stage'.mixed = stage.mixed
      /\ stage'.status = "Completed"
  BY DEF SetCompleted, SessionTypes, Stage
<1>6. PartInv' /\ StageInv' /\ part' \in Seq(1..Blocks) /\ stage'.status # "none"
  BY <1>4, <1>5 DEF SessionInv, PartInv, StageInv, SessionTypes
<1>7. PartSound(new)' /\ CompletionSound(new)'
  BY <1>1, <1>3, <1>5 DEF PartSound, CompletionSound, SessionInv, StageInv
<1>8. ASSUME NEW q \in Requests \ {r} PROVE PartSound(req[q])' /\ CompletionSound(req[q])'
  <2>1. PICK o \in Request, n \in Request :
          /\ o = req[q] /\ PartSound(o) /\ CompletionSound(o)
          /\ n = req'[q] /\ n.pc = o.pc /\ n.at = o.at /\ n.data = o.data
          /\ n.overtaken <=> o.overtaken \/ o.pc \in Completing
    BY <1>4, Other
  <2>2. PartSound(n)' /\ CompletionSound(n)'
    BY <1>4, <1>5, <2>1 DEF PartSound, CompletionSound, Completing
  <2>3. QED
    BY <2>1, <2>2
<1>9. ASSUME NEW q \in Requests \ {r}, req[q].pc = "take" PROVE new.overtaken /\ "take" \in Completing
  BY <1>1, <1>3, <1>9 DEF SessionInv, RequestsInv, CompletionSound, Completing
<1>10. QED
  BY <1>4, <1>5, <1>6, <1>7, <1>8, <1>9, Wrote

LEMMA Aborts ==
  ASSUME SessionTypes, SessionInv, NEW r \in Requests, SetAborted(r)
  PROVE  SessionTypes' /\ SessionInv'
<1>1. Overtaking(r, Completing, Idle) /\ UNCHANGED part
  BY DEF SetAborted
<1>2. /\ stage' \in Stage /\ stage'.taken = stage.taken /\ stage'.mixed = stage.mixed
      /\ stage'.status = "Aborted"
  BY DEF SetAborted, SessionTypes, Stage
<1>3. PartInv' /\ StageInv' /\ part' \in Seq(1..Blocks) /\ stage'.status # "none"
  BY <1>1, <1>2 DEF SessionInv, PartInv, StageInv, SessionTypes
<1>4. ASSUME NEW q \in Requests \ {r} PROVE PartSound(req[q])' /\ CompletionSound(req[q])'
  <2>1. PICK o \in Request, n \in Request :
          /\ o = req[q] /\ PartSound(o) /\ CompletionSound(o)
          /\ n = req'[q] /\ n.pc = o.pc /\ n.at = o.at /\ n.data = o.data
          /\ n.overtaken <=> o.overtaken \/ o.pc \in Completing
    BY <1>1, IdleTyped, Other
  <2>2. PartSound(n)' /\ CompletionSound(n)'
    BY <1>1, <1>2, <2>1 DEF PartSound, CompletionSound, Completing
  <2>3. QED
    BY <2>1, <2>2
<1>5. Idle.pc = "idle" /\ PartSound(Idle)' /\ CompletionSound(Idle)'
  BY DEF Idle, PartSound, CompletionSound
<1>6. QED
  BY <1>1, <1>2, <1>3, <1>4, <1>5, IdleTyped, Wrote

\* The part file goes: those that are about to append to it are overtaken.
LEMMA Unlinks ==
  ASSUME SessionTypes, SessionInv, NEW r \in Requests, TakeIn(r) \/ Discard(r)
  PROVE  SessionTypes' /\ SessionInv'
<1>0. PICK S \in SUBSET (Completing \cup {"append"}) :
        S = IF req[r].pc = "take" THEN {"append"} ELSE Completing \cup {"append"}
  OBVIOUS
<1>1. PICK new \in Request : /\ new.pc \in {"idle", "aborted"}
        /\ new = IF req[r].pc = "take" THEN Idle ELSE [req[r] EXCEPT !.pc = "aborted"]
  BY IdleTyped DEF Idle, SessionTypes, Request
<1>2. Overtaking(r, S, new) /\ part' = <<>> /\ "append" \in S
  BY <1>0, <1>1 DEF TakeIn, Discard
<1>3. /\ stage' \in Stage /\ stage'.mixed = stage.mixed /\ stage'.status = stage.status
      /\ stage'.taken = IF req[r].pc = "take" THEN stage.taken + 1 ELSE stage.taken
  BY DEF TakeIn, Discard, SessionTypes, Stage
<1>4. /\ req[r].pc = "take" => stage.status # "Uploading"
      /\ req[r].pc # "take" => Completing \subseteq S
      /\ stage.status # "none"
  BY <1>0 DEF SessionInv, RequestsInv, CompletionSound, TakeIn, Discard
<1>5. \A q \in Requests \ {r} : req[q].pc = "take" /\ ~req[q].overtaken => req[r].pc # "take"
  BY DEF SessionInv, RequestsInv
<1>6. part' \in Seq(1..Blocks) /\ Len(part') = 0 /\ DOMAIN part' = {}
  BY <1>2, EmptySeq
<1>7. PartInv' /\ StageInv'
  <2>1. PartInv'
    BY <1>6, BlocksAssumption DEF PartInv, InOrder
  <2>2. CASE req[r].pc = "take"
    BY <1>3, <1>4, <2>1, <2>2 DEF StageInv
  <2>3. CASE req[r].pc # "take"
    BY <1>3, <2>1, <2>3 DEF StageInv, SessionInv
  <2>4. QED
    BY <2>2, <2>3
<1>8. PartSound(new)' /\ CompletionSound(new)'
  BY <1>1 DEF PartSound, CompletionSound
<1>9. ASSUME NEW q \in Requests \ {r} PROVE PartSound(req[q])' /\ CompletionSound(req[q])'
  <2>1. PICK o \in Request, n \in Request :
          /\ o = req[q] /\ PartSound(o) /\ CompletionSound(o)
          /\ n = req'[q] /\ n.pc = o.pc /\ n.at = o.at /\ n.data = o.data
          /\ n.overtaken <=> o.overtaken \/ o.pc \in S
    BY <1>1, <1>2, Other
  <2>2. PartSound(n)'
    BY <1>2, <2>1 DEF PartSound
  <2>3. CompletionSound(n)'
    <3>1. CASE req[r].pc = "take"
      BY <1>3, <1>4, <1>5, <2>1, <3>1 DEF CompletionSound
    <3>2. CASE req[r].pc # "take"
      BY <1>3, <1>4, <2>1, <3>2 DEF CompletionSound, Completing
    <3>3. QED
      BY <3>1, <3>2
  <2>4. QED
    BY <2>1, <2>2, <2>3
<1>10. QED
  BY <1>1, <1>2, <1>3, <1>4, <1>6, <1>7, <1>8, <1>9, Wrote

LEMMA SessionStep ==
  ASSUME SessionTypes, SessionInv, [Next]_vars
  PROVE  SessionTypes' /\ SessionInv'
<1>1. ASSUME UNCHANGED <<stage, part, req>> PROVE SessionTypes' /\ SessionInv'
  <2>1. ASSUME NEW k \in Request, PartSound(k), CompletionSound(k)
        PROVE  PartSound(k)' /\ CompletionSound(k)'
    BY <1>1, <2>1 DEF PartSound, CompletionSound
  <2>2. ASSUME NEW q \in Requests PROVE PartSound(req[q])' /\ CompletionSound(req[q])'
    <3>1. PICK k \in Request : k = req[q] /\ k = req'[q] /\ PartSound(k) /\ CompletionSound(k)
      BY <1>1 DEF SessionTypes, SessionInv, RequestsInv
    <3>2. QED
      BY <2>1, <3>1
  <2>3. QED
    BY <1>1, <2>2 DEF SessionTypes, SessionInv, RequestsInv, PartInv, StageInv
<1>2. ASSUME req' = [r \in Requests |-> Idle], SameStage PROVE SessionTypes' /\ SessionInv'
  <2>1. PartSound(Idle)' /\ CompletionSound(Idle)' /\ Idle.pc = "idle"
    BY DEF Idle, PartSound, CompletionSound
  <2>2. \A q \in Requests : req'[q] = Idle
    BY <1>2
  <2>3. \A q \in Requests : PartSound(req[q])' /\ CompletionSound(req[q])'
    BY <2>1, <2>2
  <2>4. QED
    BY <1>2, <2>1, <2>2, <2>3, IdleTyped
      DEF SessionTypes, SessionInv, RequestsInv, PartInv, StageInv, SameStage
<1>3. CASE Initiate
  <2>1. /\ stage.status = "none" /\ UNCHANGED <<part, req>>
        /\ stage' \in Stage /\ stage'.taken = stage.taken /\ stage'.mixed = stage.mixed
        /\ stage'.status = "Uploading"
    BY <1>3 DEF Initiate, SessionTypes, Stage
  <2>2. \A q \in Requests : req[q].pc = "idle"
    BY <2>1 DEF SessionInv, RequestsInv
  <2>3. ASSUME NEW k \in Request, k.pc = "idle" PROVE PartSound(k)' /\ CompletionSound(k)'
    BY <2>3 DEF PartSound, CompletionSound
  <2>4. ASSUME NEW q \in Requests PROVE PartSound(req[q])' /\ CompletionSound(req[q])'
    <3>1. PICK k \in Request : k = req[q] /\ k = req'[q]
      BY <2>1 DEF SessionTypes
    <3>2. QED
      BY <2>2, <2>3, <3>1
  <2>5. QED
    BY <2>1, <2>2, <2>4 DEF SessionTypes, SessionInv, RequestsInv, PartInv, StageInv
<1>4. ASSUME NEW r \in Requests, Session(r) PROVE SessionTypes' /\ SessionInv'
  BY <1>4, PartsGoOn, CompletionsGoOn, Appends, Completes, Aborts, Unlinks DEF Session
<1>5. CASE Restart
  BY <1>2, <1>5, Same DEF Restart
<1>6. CASE PostPhotos \/ GuestUpload \/ StartApprove \/ Shoot \/ NoticeShot
  BY <1>1, <1>6 DEF PostPhotos, GuestUpload, StartApprove, Shoot, NoticeShot, NewJob
<1>7. ASSUME NEW j \in Jobs, JobStep(j) \/ Fail(j) PROVE SessionTypes' /\ SessionInv'
  BY <1>1, <1>7 DEF JobStep, Fail, ReadUsage, ReadQuota, CreatePhoto, ApprovePhoto, ConsumeQuota,
                    Step, Write
<1>8. ASSUME NEW w \in Watchers, Watch(w) \/ CloseStream(w) PROVE SessionTypes' /\ SessionInv'
  BY <1>1, <1>8 DEF Watch, CloseStream
<1>9. CASE UNCHANGED vars
  BY <1>1, <1>9 DEF vars
<1>10. QED
  BY <1>3, <1>4, <1>5, <1>6, <1>7, <1>8, <1>9 DEF Next

-----------------------------------------------------------------------------
(* The jobs.                                                               *)

Job == [kind : Kinds, pc : {"unused"} \cup Working \cup Settled,
        files : Seq(Seq(0..Blocks)), used : Nat, counted : Nat, new : Nat,
        photo : Jobs \cup {NoJob}, overtaken : BOOLEAN]
Library == [bytes : Nat, pending : SUBSET (Jobs \cup {NoJob}), shown : Nat]
Allowance == [plan : {"none", "active", "paused"}, counted : Nat, slipped : BOOLEAN]
JobTypes == job \in [Jobs -> Job] /\ lib \in Library /\ quota \in Allowance

LEMMA Types ==
  TypeOK <=> /\ SessionTypes /\ JobTypes
             /\ watch \in [Watchers -> [job : Jobs \cup {NoJob}, told : BOOLEAN]]
             /\ shot \in {"none", "staged", "taken", "late", "stranded"}
             /\ requests \in 0..MaxRequests /\ crashes \in 0..MaxCrashes
  BY DEF TypeOK, SessionTypes, Stage, Request, JobTypes, Job, Library, Allowance

LEMMA UnusedTyped == Unused \in Job
<1>1. <<>> \in Seq(Seq(0..Blocks))
  BY EmptySeq
<1>2. QED
  BY <1>1 DEF Unused, Job, Kinds, Streamed

LEMMA EndedTyped ==
  ASSUME NEW new \in Job
  PROVE  /\ Ended(new) \in Job /\ Ended(new).pc = new.pc /\ Ended(new).kind = new.kind
         /\ Sound(new) => Sound(Ended(new))
<1>1. CASE new.pc \notin Settled
  BY <1>1 DEF Ended
<1>2. CASE new.pc \in Settled
  <2>1. PICK e \in Job : e = [Unused EXCEPT !.kind = new.kind, !.pc = new.pc]
    BY UnusedTyped DEF Job
  <2>2. e.pc = new.pc /\ e.kind = new.kind /\ e.files = <<>> /\ e.new = 0
    BY <2>1, UnusedTyped DEF Unused, Job
  <2>3. Len(e.files) = 0
    BY <2>2, EmptySeq
  <2>4. Sound(e)
    BY <1>2, <2>2, <2>3 DEF Sound, BytesSound, QuotaSound, KindSound, Settled
  <2>5. QED
    BY <1>2, <2>1, <2>2, <2>4 DEF Ended
<1>3. QED
  BY <1>1, <1>2

LEMMA FileGoesOn ==
  ASSUME NEW new \in Job
  PROVE  \E k \in Job :
           /\ k = NextFile(new) /\ k.pc \in {"create", "done"}
           /\ k.kind = new.kind /\ k.files = new.files /\ k.used = new.used
           /\ k.counted = new.counted /\ k.new = new.new /\ k.overtaken = new.overtaken
           /\ k.pc = "create" => new.files # <<>> /\ StorageLeft(new) /\ QuotaLeft(new)
<1>1. PICK k \in Job : k = NextFile(new)
  BY DEF NextFile, Job, Working, Settled
<1>2. k = [new EXCEPT !.pc = IF new.files # <<>> /\ QuotaLeft(new) /\ StorageLeft(new)
                             THEN "create" ELSE "done"]
  BY <1>1 DEF NextFile
<1>3. QED
  BY <1>1, <1>2 DEF Job

\* What a job has read is as it was.
Unwritten == lib'.bytes = lib.bytes /\ quota'.plan = quota.plan /\ quota'.counted = quota.counted
Wrote1(j, e) ==
  job' = [k \in Jobs |-> IF k = j THEN e
            ELSE IF job[k].pc \in Working \ {"usage"}
                 THEN [job[k] EXCEPT !.overtaken = TRUE] ELSE job[k]]
\* Job j is now e, and the others are where they were.
Moves(j, e) ==
  /\ job' \in [Jobs -> Job] /\ job'[j] = e
  /\ \A k \in Jobs \ {j} : job'[k].pc = job[k].pc /\ job'[k].kind = job[k].kind

LEMMA StaysSound == ASSUME Unwritten, NEW k \in Job, Sound(k) PROVE Sound(k)'
  BY DEF Unwritten, Sound, BytesSound, QuotaSound, KindSound, Booked

LEMMA JobMoves ==
  ASSUME JobTypes, JobsInv, NEW j \in Jobs, NEW e \in Job, job' = [job EXCEPT ![j] = e],
         Unwritten, Sound(e)'
  PROVE  Moves(j, e) /\ JobsInv'
<1>1. Moves(j, e) /\ \A k \in Jobs \ {j} : job'[k] = job[k]
  BY DEF JobTypes, Moves
<1>2. ASSUME NEW k \in Jobs PROVE Sound(job[k])'
  <2>1. CASE k = j
    BY <1>1, <2>1 DEF Moves
  <2>2. CASE k # j
    <3>1. PICK o \in Job : o = job[k] /\ o = job'[k] /\ Sound(o)
      BY <1>1, <2>2 DEF JobTypes, JobsInv
    <3>2. QED
      BY <3>1, StaysSound
  <2>3. QED
    BY <2>1, <2>2
<1>3. QED
  BY <1>1, <1>2 DEF JobsInv

LEMMA JobWrites ==
  ASSUME JobTypes, JobsInv, NEW j \in Jobs, NEW e \in Job, Wrote1(j, e),
         quota'.plan = quota.plan, Sound(e)'
  PROVE  Moves(j, e) /\ JobsInv'
<1>1. ASSUME NEW k \in Jobs \ {j}
      PROVE  \E o, n \in Job :
               /\ o = job[k] /\ Sound(o) /\ n = job'[k]
               /\ n.pc = o.pc /\ n.kind = o.kind /\ n.files = o.files
               /\ n.used = o.used /\ n.counted = o.counted /\ n.new = o.new
               /\ o.pc \in Working \ {"usage"} => n.overtaken
  <2>1. PICK o \in Job : o = job[k] /\ Sound(o)
    BY DEF JobTypes, JobsInv
  <2>2. job'[k] = IF o.pc \in Working \ {"usage"} THEN [o EXCEPT !.overtaken = TRUE] ELSE o
    BY <2>1 DEF Wrote1
  <2>3. PICK n \in Job : n = job'[k]
    BY <2>1, <2>2 DEF Job
  <2>4. QED
    BY <2>1, <2>2, <2>3 DEF Job
<1>2. Moves(j, e)
  <2>1. job' \in [Jobs -> Job] /\ job'[j] = e
    <3>1. \A k \in Jobs \ {j} : job'[k] \in Job
      BY <1>1
    <3>2. QED
      BY <3>1 DEF Wrote1
  <2>2. QED
    BY <1>1, <2>1 DEF Moves
<1>3. ASSUME NEW k \in Jobs PROVE Sound(job[k])'
  <2>1. CASE k = j
    BY <1>2, <2>1 DEF Moves
  <2>2. CASE k # j
    <3>1. PICK o \in Job, n \in Job :
            /\ Sound(o) /\ n = job'[k]
            /\ n.pc = o.pc /\ n.kind = o.kind /\ n.files = o.files
            /\ n.used = o.used /\ n.counted = o.counted /\ n.new = o.new
            /\ o.pc \in Working \ {"usage"} => n.overtaken
      BY <1>1, <2>2
    <3>2. BytesSound(n)'
      BY <3>1 DEF Sound, BytesSound, Working
    <3>3. Booked(n) = Booked(o)
      BY <3>1 DEF Booked
    <3>4. QuotaSound(n)'
      BY <3>1, <3>3 DEF Sound, QuotaSound, Working, Booked
    <3>5. KindSound(n)'
      BY <3>1 DEF Sound, KindSound
    <3>6. QED
      BY <3>1, <3>2, <3>4, <3>5 DEF Sound
  <2>3. QED
    BY <2>1, <2>2
<1>4. QED
  BY <1>2, <1>3 DEF JobsInv

LEMMA JobStarts ==
  ASSUME JobTypes, JobsInv, NEW new \in Job, Create(new), Unwritten, Sound(new)
  PROVE  \E j \in Jobs : job[j].pc = "unused" /\ job' = [job EXCEPT ![j] = new]
                         /\ Moves(j, new) /\ JobsInv'
<1>1. PICK j \in Jobs : job[j].pc = "unused" /\ job' = [job EXCEPT ![j] = new]
  BY DEF Create, Some
<1>2. QED
  BY <1>1, JobMoves, StaysSound

\* What a job has counted or is about to, and what it has shown, go together.
Due(k) == IF k.pc = "consume" THEN 1 ELSE 0
Accounts(j, e) ==
  /\ quota'.plan = quota.plan
  /\ ~quota'.slipped =>
       /\ ~quota.slipped
       /\ quota.plan = "active" =>
            quota'.counted + Due(e) + lib.shown = quota.counted + Due(job[j]) + lib'.shown
\* Job j has become e, by a step of its own.
Stepped(j, e) ==
  /\ Moves(j, e) /\ JobTypes' /\ JobsInv' /\ Accounts(j, e)
  /\ job[j].pc \in Working /\ e.kind = job[j].kind /\ Tell(j, e.pc)
  /\ e.pc \notin {"unused", "forgotten"}

LEMMA StepFrom ==
  ASSUME JobTypes, JobsInv, NEW j \in Jobs, NEW new \in Job, Step(j, new), Unwritten,
         job[j].pc \in Working, new.kind = job[j].kind, Sound(new), new.pc \notin {"unused", "forgotten"},
         lib' \in Library, quota' \in Allowance, Accounts(j, new)
  PROVE  \E e \in Job : e.pc = new.pc /\ Stepped(j, e)
<1>1. PICK e \in Job : e = Ended(new) /\ e.pc = new.pc /\ e.kind = new.kind /\ Sound(e)
  BY EndedTyped
<1>2. Moves(j, e) /\ JobsInv'
  BY <1>1, JobMoves, StaysSound DEF Step
<1>3. Tell(j, e.pc) /\ Accounts(j, e)
  BY <1>1 DEF Step, Accounts, Due
<1>4. QED
  BY <1>1, <1>2, <1>3 DEF Stepped, JobTypes, Moves

LEMMA WriteFrom ==
  ASSUME JobTypes, JobsInv, NEW j \in Jobs, NEW new \in Job, Write(j, new),
         job[j].pc \in Working, new.kind = job[j].kind, Sound(new)', new.pc \notin {"unused", "forgotten"},
         lib' \in Library, quota' \in Allowance, Accounts(j, new)
  PROVE  \E e \in Job : e.pc = new.pc /\ Stepped(j, e)
<1>1. PICK e \in Job : e = Ended(new) /\ e.pc = new.pc /\ e.kind = new.kind
  BY EndedTyped
<1>2. Sound(e)'
  <2>1. CASE new.pc \notin Settled
    BY <1>1, <2>1 DEF Ended
  <2>2. CASE new.pc \in Settled
    <3>1. e.pc = new.pc /\ e.kind = new.kind /\ e.files = <<>> /\ e.new = 0
      BY <1>1, <2>2, UnusedTyped DEF Ended, Unused, Job
    <3>2. Len(e.files) = 0
      BY <3>1, EmptySeq
    <3>3. QED
      BY <2>2, <3>1, <3>2 DEF Sound, BytesSound, QuotaSound, KindSound, Settled
  <2>3. QED
    BY <2>1, <2>2
<1>3. Moves(j, e) /\ JobsInv'
  BY <1>1, <1>2, JobWrites DEF Write, Wrote1, Accounts
<1>4. Tell(j, e.pc) /\ Accounts(j, e)
  BY <1>1 DEF Write, Accounts, Due
<1>5. QED
  BY <1>1, <1>3, <1>4 DEF Stepped, JobTypes, Moves

LEMMA ReadsUsage ==
  ASSUME JobTypes, JobsInv, NEW j \in Jobs, ReadUsage(j)
  PROVE  \E e \in Job : Stepped(j, e)
<1>1. PICK o \in Job : o = job[j] /\ Sound(o) /\ o.pc = "usage"
  BY DEF JobTypes, JobsInv, ReadUsage
<1>2. PICK new \in Job : /\ new = [o EXCEPT !.used = lib.bytes] /\ new.used = lib.bytes
                         /\ new.kind = o.kind /\ new.files = o.files /\ new.new = o.new
  <2>1. PICK new \in Job : new = [o EXCEPT !.used = lib.bytes]
    BY DEF Job, JobTypes, Library
  <2>2. QED
    BY <2>1 DEF Job
<1>3. UNCHANGED <<lib, quota>> /\ Unwritten /\ lib' \in Library /\ quota' \in Allowance
  BY DEF ReadUsage, Unwritten, JobTypes
<1>4. CASE new.kind = "guest"
  <2>1. PICK k \in Job :
          /\ k = NextFile(new) /\ k.pc \in {"create", "done"}
          /\ k.kind = new.kind /\ k.files = new.files /\ k.used = new.used /\ k.new = new.new
          /\ k.pc = "create" => new.files # <<>> /\ StorageLeft(new) /\ QuotaLeft(new)
    BY FileGoesOn
  <2>2. Step(j, k)
    BY <1>1, <1>2, <1>4, <2>1 DEF ReadUsage
  <2>3. Sound(k)
    BY <1>1, <1>2, <1>4, <2>1 DEF Sound, BytesSound, QuotaSound, KindSound, StorageLeft
  <2>4. Accounts(j, k)
    BY <1>1, <1>3, <2>1 DEF Accounts, Due
  <2>5. QED
    BY <1>1, <1>2, <1>3, <2>1, <2>2, <2>3, <2>4, StepFrom DEF Working
<1>5. CASE new.kind # "guest"
  <2>1. PICK k \in Job :
          /\ k = [new EXCEPT !.pc = "quota"] /\ k.pc = "quota"
          /\ k.kind = new.kind /\ k.files = new.files /\ k.used = new.used /\ k.new = new.new
    <3>1. PICK k \in Job : k = [new EXCEPT !.pc = "quota"]
      BY DEF Job, Working
    <3>2. QED
      BY <3>1 DEF Job
  <2>2. Step(j, k)
    BY <1>1, <1>2, <1>5, <2>1 DEF ReadUsage
  <2>3. Sound(k)
    BY <1>1, <1>2, <1>5, <2>1 DEF Sound, BytesSound, QuotaSound, KindSound
  <2>4. Accounts(j, k)
    BY <1>1, <1>3, <2>1 DEF Accounts, Due
  <2>5. QED
    BY <1>1, <1>2, <1>3, <2>1, <2>2, <2>3, <2>4, StepFrom DEF Working
<1>6. QED
  BY <1>4, <1>5

LEMMA ReadsQuota ==
  ASSUME JobTypes, JobsInv, NEW j \in Jobs, ReadQuota(j)
  PROVE  \E e \in Job : Stepped(j, e)
<1>1. PICK o \in Job : o = job[j] /\ Sound(o) /\ o.pc = "quota"
  BY DEF JobTypes, JobsInv, ReadQuota
<1>2. PICK new \in Job :
        /\ new = [o EXCEPT !.counted = quota.counted] /\ new.counted = quota.counted
        /\ new.kind = o.kind /\ new.files = o.files /\ new.new = 0 /\ new.used = o.used
        /\ new.overtaken = o.overtaken
  <2>1. PICK new \in Job : new = [o EXCEPT !.counted = quota.counted]
    BY DEF Job, JobTypes, Allowance
  <2>2. o.new = 0
    BY <1>1 DEF Sound, KindSound
  <2>3. QED
    BY <2>1, <2>2 DEF Job
<1>3. UNCHANGED <<lib, quota>> /\ Unwritten /\ lib' \in Library /\ quota' \in Allowance
  BY DEF ReadQuota, Unwritten, JobTypes
<1>4. \A k \in Job : k.pc # "consume" => Accounts(j, k)
  BY <1>1, <1>3 DEF Accounts, Due
<1>5. CASE ~QuotaOk
  <2>1. PICK k \in Job :
          /\ k = [new EXCEPT !.pc = IF new.kind \in Streamed THEN "error" ELSE "done"]
          /\ k.pc \in {"error", "done"} /\ k.kind = new.kind /\ k.files = new.files /\ k.new = 0
    <3>1. PICK k \in Job : k = [new EXCEPT !.pc = IF new.kind \in Streamed THEN "error" ELSE "done"]
      BY DEF Job, Settled
    <3>2. QED
      BY <1>2, <3>1 DEF Job
  <2>2. Step(j, k)
    BY <1>1, <1>2, <1>5, <2>1 DEF ReadQuota
  <2>3. Sound(k)
    BY <1>1, <1>2, <2>1 DEF Sound, BytesSound, QuotaSound, KindSound
  <2>4. QED
    BY <1>1, <1>2, <1>3, <1>4, <2>1, <2>2, <2>3, StepFrom DEF Working
<1>6. CASE QuotaOk /\ new.kind = "approve"
  <2>1. PICK k \in Job :
          /\ k = [new EXCEPT !.pc = "approve"]
          /\ k.pc = "approve" /\ k.kind = new.kind /\ k.files = new.files /\ k.new = 0
          /\ k.counted = quota.counted
    <3>1. PICK k \in Job : k = [new EXCEPT !.pc = "approve"]
      BY DEF Job, Working
    <3>2. QED
      BY <1>2, <3>1 DEF Job
  <2>2. Step(j, k)
    BY <1>1, <1>2, <1>6, <2>1 DEF ReadQuota
  <2>3. Sound(k)
    <3>1. k.counted \in Nat /\ Booked(k) = 0
      BY <2>1 DEF Booked, Job
    <3>2. QuotaSound(k)
      BY <1>2, <1>6, <2>1, <3>1, LimitsAssumption DEF QuotaSound, QuotaOk
    <3>3. BytesSound(k) /\ KindSound(k)
      BY <1>2, <1>6, <2>1 DEF BytesSound, KindSound
    <3>4. QED
      BY <3>2, <3>3 DEF Sound
  <2>4. QED
    BY <1>1, <1>2, <1>3, <1>4, <2>1, <2>2, <2>3, StepFrom DEF Working
<1>7. CASE QuotaOk /\ new.kind # "approve"
  <2>1. PICK k \in Job :
          /\ k = NextFile(new) /\ k.pc \in {"create", "done"}
          /\ k.kind = new.kind /\ k.files = new.files /\ k.used = new.used
          /\ k.counted = new.counted /\ k.new = new.new /\ k.overtaken = new.overtaken
          /\ k.pc = "create" => new.files # <<>> /\ StorageLeft(new) /\ QuotaLeft(new)
    BY FileGoesOn
  <2>2. Step(j, k)
    BY <1>1, <1>2, <1>7, <2>1 DEF ReadQuota
  <2>3. BytesSound(k) /\ KindSound(k)
    BY <1>1, <1>2, <1>7, <2>1 DEF Sound, BytesSound, KindSound, StorageLeft
  <2>4. QuotaSound(k)
    BY <1>1, <1>2, <1>7, <2>1, LimitsAssumption DEF QuotaSound, QuotaOk, Booked, Job
  <2>5. QED
    BY <1>1, <1>2, <1>3, <1>4, <2>1, <2>2, <2>3, <2>4, StepFrom DEF Working, Sound
<1>8. QED
  BY <1>5, <1>6, <1>7

LEMMA LibraryTyped ==
  ASSUME lib \in Library, NEW b \in Nat, NEW P \in SUBSET (Jobs \cup {NoJob}), NEW n \in Nat,
         lib' = [lib EXCEPT !.bytes = b, !.pending = P, !.shown = n]
  PROVE  lib' \in Library /\ lib'.bytes = b /\ lib'.shown = n
  BY DEF Library

LEMMA Creates ==
  ASSUME JobTypes, JobsInv, NEW j \in Jobs, CreatePhoto(j)
  PROVE  \E e \in Job : Stepped(j, e)
<1>1. PICK o \in Job : o = job[j] /\ Sound(o) /\ o.pc = "create"
  BY DEF JobTypes, JobsInv, CreatePhoto
<1>2. PICK size \in Nat : size = Len(Head(o.files))
  <2>1. o.files # <<>> /\ o.files \in Seq(Seq(0..Blocks))
    BY <1>1 DEF Sound, BytesSound, Job
  <2>2. Head(o.files) \in Seq(0..Blocks)
    BY <2>1, HeadTailProperties
  <2>3. QED
    BY <2>2, LenProperties
<1>3. Tail(o.files) \in Seq(Seq(0..Blocks)) /\ (Len(o.files) <= 1 => Tail(o.files) = <<>>)
  <2>1. o.files # <<>> /\ o.files \in Seq(Seq(0..Blocks))
    BY <1>1 DEF Sound, BytesSound, Job
  <2>2. PICK t \in Seq(Seq(0..Blocks)) : t = Tail(o.files) /\ Len(t) = Len(o.files) - 1
    BY <2>1, HeadTailProperties
  <2>3. Len(o.files) \in Nat \ {0}
    BY <2>1, EmptySeq
  <2>4. Len(t) \in Nat /\ (t # <<>> => Len(t) \in Nat \ {0})
    BY EmptySeq, LenProperties
  <2>5. QED
    BY <2>2, <2>3, <2>4
<1>4. PICK new \in Job :
        /\ new = [o EXCEPT !.used = o.used + size, !.new = o.new + 1, !.files = Tail(o.files)]
        /\ new.used = o.used + size /\ new.new = o.new + 1 /\ new.files = Tail(o.files)
        /\ new.kind = o.kind /\ new.counted = o.counted /\ new.overtaken = o.overtaken
  <2>1. o.used + size \in Nat /\ o.new + 1 \in Nat
    BY DEF Job
  <2>2. PICK new \in Job :
          new = [o EXCEPT !.used = o.used + size, !.new = o.new + 1, !.files = Tail(o.files)]
    BY <1>3, <2>1 DEF Job
  <2>3. QED
    BY <2>2 DEF Job
<1>5. /\ UNCHANGED quota /\ quota' \in Allowance /\ lib' \in Library
      /\ lib'.bytes = lib.bytes + size
      /\ lib'.shown = IF o.kind = "guest" THEN lib.shown ELSE lib.shown + 1
  <2>1. /\ lib \in Library /\ lib.pending \cup {j} \in SUBSET (Jobs \cup {NoJob})
        /\ UNCHANGED quota /\ quota' \in Allowance
        /\ lib.bytes + size \in Nat /\ lib.shown \in Nat /\ lib.shown + 1 \in Nat
        /\ lib.pending \in SUBSET (Jobs \cup {NoJob})
    BY DEF JobTypes, Library, CreatePhoto
  <2>2. CASE o.kind = "guest"
    <3>1. lib' = [lib EXCEPT !.bytes = lib.bytes + size, !.pending = lib.pending \cup {j},
                             !.shown = lib.shown]
      BY <1>1, <1>2, <2>2 DEF CreatePhoto
    <3>2. QED
      BY <2>1, <2>2, <3>1, LibraryTyped
  <2>3. CASE o.kind # "guest"
    <3>1. lib' = [lib EXCEPT !.bytes = lib.bytes + size, !.pending = lib.pending,
                             !.shown = lib.shown + 1]
      BY <1>1, <1>2, <2>3 DEF CreatePhoto
    <3>2. QED
      BY <2>1, <2>3, <3>1, LibraryTyped
  <2>4. QED
    BY <2>2, <2>3
<1>6. o.kind # "approve" /\ (o.kind = "capture" => new.files = <<>>)
  BY <1>1, <1>3, <1>4 DEF Sound, KindSound
<1>7. ~o.overtaken => new.used = lib'.bytes
  BY <1>1, <1>4, <1>5, <1>6 DEF Sound, BytesSound
<1>8. CASE o.kind = "guest"
  <2>1. PICK k \in Job :
          /\ k = NextFile(new) /\ k.pc \in {"create", "done"}
          /\ k.kind = new.kind /\ k.files = new.files /\ k.used = new.used
          /\ k.overtaken = new.overtaken
          /\ k.pc = "create" => new.files # <<>> /\ StorageLeft(new) /\ QuotaLeft(new)
    BY FileGoesOn
  <2>2. Write(j, k)
    BY <1>1, <1>2, <1>4, <1>8, <2>1 DEF CreatePhoto
  <2>3. Sound(k)'
    BY <1>4, <1>7, <1>8, <2>1 DEF Sound, BytesSound, QuotaSound, KindSound, StorageLeft
  <2>4. Accounts(j, k)
    BY <1>1, <1>5, <1>8, <2>1 DEF Accounts, Due
  <2>5. QED
    BY <1>1, <1>4, <1>5, <2>1, <2>2, <2>3, <2>4, WriteFrom DEF Working
<1>9. CASE o.kind # "guest"
  <2>1. PICK k \in Job :
          /\ k = [new EXCEPT !.pc = "consume"] /\ k.pc = "consume"
          /\ k.kind = new.kind /\ k.files = new.files /\ k.used = new.used /\ k.new = new.new
          /\ k.counted = new.counted /\ k.overtaken = new.overtaken
    <3>1. PICK k \in Job : k = [new EXCEPT !.pc = "consume"]
      BY DEF Job, Working
    <3>2. QED
      BY <3>1 DEF Job
  <2>2. Write(j, k)
    BY <1>1, <1>2, <1>4, <1>9, <2>1 DEF CreatePhoto
  <2>3. BytesSound(k)' /\ KindSound(k)'
    <3>1. o.kind = "capture" => Len(k.files) <= 1
      BY <1>6, <2>1, EmptySeq
    <3>2. QED
      BY <1>4, <1>6, <1>7, <1>9, <2>1, <3>1 DEF BytesSound, KindSound
  <2>4. QuotaSound(k)'
    <3>1. Booked(k) = o.new /\ Booked(o) = o.new
      BY <1>1, <1>4, <1>6, <2>1 DEF Booked, Job
    <3>2. QuotaSound(o)
      BY <1>1 DEF Sound
    <3>3. Booked(k)' = o.new
      BY <3>1 DEF Booked
    <3>4. QED
      BY <1>1, <1>4, <1>5, <1>9, <2>1, <3>1, <3>2, <3>3 DEF QuotaSound
  <2>5. Accounts(j, k)
    BY <1>1, <1>5, <1>9, <2>1 DEF Accounts, Due, JobTypes, Library, Allowance
  <2>6. Sound(k)'
    BY <2>3, <2>4 DEF Sound
  <2>7. k.kind = job[j].kind /\ job[j].pc \in Working /\ k.pc \notin {"unused", "forgotten"}
    BY <1>1, <1>4, <2>1 DEF Working
  <2>8. QED
    BY <1>5, <2>2, <2>5, <2>6, <2>7, WriteFrom
<1>10. QED
  BY <1>8, <1>9

LEMMA Approves ==
  ASSUME JobTypes, JobsInv, NEW j \in Jobs, ApprovePhoto(j)
  PROVE  \E e \in Job : Stepped(j, e)
<1>1. PICK o \in Job : o = job[j] /\ Sound(o) /\ o.pc = "approve"
  BY DEF JobTypes, JobsInv, ApprovePhoto
<1>2. PICK k \in Job :
        /\ k = [o EXCEPT !.pc = "consume"] /\ k.pc = "consume"
        /\ k.kind = o.kind /\ k.files = o.files /\ k.used = o.used /\ k.new = o.new
        /\ k.counted = o.counted /\ k.overtaken = o.overtaken
  <2>1. PICK k \in Job : k = [o EXCEPT !.pc = "consume"]
    BY DEF Job, Working
  <2>2. QED
    BY <2>1 DEF Job
<1>3. o.kind = "approve"
  BY <1>1 DEF Sound, KindSound
<1>4. Step(j, k)
  BY <1>1, <1>2 DEF ApprovePhoto
<1>5. Sound(k)
  <2>1. BytesSound(k) /\ KindSound(k)
    BY <1>1, <1>2, <1>3 DEF Sound, BytesSound, KindSound
  <2>2. Booked(k) = Booked(o)
    BY <1>2, <1>3 DEF Booked
  <2>3. QED
    BY <1>1, <1>2, <2>1, <2>2 DEF Sound, QuotaSound
<1>6. PICK P \in SUBSET (Jobs \cup {NoJob}), n \in Nat, slipped \in BOOLEAN :
        /\ lib' = [lib EXCEPT !.pending = P, !.shown = n]
        /\ quota' = [quota EXCEPT !.slipped = slipped]
        /\ ~slipped => ~quota.slipped /\ n = lib.shown + 1
  <2>1. lib.pending \ {job[j].photo} \in SUBSET (Jobs \cup {NoJob}) /\ lib.shown \in Nat
        /\ quota.slipped \in BOOLEAN
    BY DEF JobTypes, Library, Allowance
  <2>2. CASE job[j].photo \notin lib.pending
    <3>1. /\ lib' = [lib EXCEPT !.pending = lib.pending \ {job[j].photo}, !.shown = lib.shown]
          /\ quota' = [quota EXCEPT !.slipped = TRUE]
      BY <1>1, <2>2 DEF ApprovePhoto
    <3>2. QED
      BY <2>1, <3>1
  <2>3. CASE job[j].photo \in lib.pending
    <3>1. lib' = [lib EXCEPT !.pending = lib.pending \ {job[j].photo}, !.shown = lib.shown + 1]
      BY <1>1, <2>3 DEF ApprovePhoto
    <3>2. quota' = [quota EXCEPT !.slipped = quota.slipped \/ job[j].photo \notin lib.pending]
      BY <1>1 DEF ApprovePhoto
    <3>3. (quota.slipped \/ job[j].photo \notin lib.pending) = quota.slipped
      BY <2>1, <2>3, Zenon
    <3>4. quota' = [quota EXCEPT !.slipped = quota.slipped]
      BY <3>2, <3>3, Zenon
    <3>5. PICK n \in Nat : n = lib.shown + 1
      BY <2>1
    <3>6. lib' = [lib EXCEPT !.pending = lib.pending \ {job[j].photo}, !.shown = n]
      BY <3>1, <3>5
    <3>7. QED
      BY <2>1, <3>4, <3>5, <3>6, Zenon
  <2>4. QED
    BY <2>2, <2>3
<1>7. lib' \in Library /\ lib'.bytes = lib.bytes /\ lib'.shown = n
  BY <1>6 DEF JobTypes, Library
<1>8. /\ quota' \in Allowance /\ quota'.plan = quota.plan /\ quota'.counted = quota.counted
      /\ quota'.slipped = slipped
  BY <1>6 DEF JobTypes, Allowance
<1>9. Accounts(j, k)
  BY <1>1, <1>2, <1>6, <1>7, <1>8 DEF Accounts, Due, JobTypes, Library, Allowance
<1>10. QED
  BY <1>1, <1>2, <1>4, <1>5, <1>7, <1>8, <1>9, StepFrom DEF Unwritten, Working

LEMMA Consumes ==
  ASSUME JobTypes, JobsInv, NEW j \in Jobs, ConsumeQuota(j)
  PROVE  \E e \in Job : Stepped(j, e)
<1>1. PICK o \in Job : o = job[j] /\ Sound(o) /\ o.pc = "consume"
  BY DEF JobTypes, JobsInv, ConsumeQuota
<1>2. /\ UNCHANGED lib /\ lib' \in Library /\ quota' \in Allowance
      /\ quota'.plan = quota.plan /\ quota'.slipped = quota.slipped
      /\ quota'.counted = IF quota.plan = "active" THEN quota.counted + 1 ELSE quota.counted
  BY DEF ConsumeQuota, JobTypes, Allowance
<1>3. \A k \in Job : k.pc # "consume" => Accounts(j, k)
  BY <1>1, <1>2 DEF Accounts, Due, JobTypes, Library, Allowance
<1>4. CASE o.kind = "approve"
  <2>1. PICK k \in Job : /\ k = [o EXCEPT !.pc = "done"] /\ k.pc = "done"
                         /\ k.kind = o.kind /\ k.files = o.files /\ k.new = o.new
    <3>1. PICK k \in Job : k = [o EXCEPT !.pc = "done"]
      BY DEF Job, Settled
    <3>2. QED
      BY <3>1 DEF Job
  <2>2. Write(j, k)
    BY <1>1, <1>4, <2>1 DEF ConsumeQuota
  <2>3. Sound(k)'
    BY <1>1, <1>4, <2>1 DEF Sound, BytesSound, QuotaSound, KindSound
  <2>4. QED
    BY <1>1, <1>2, <1>3, <2>1, <2>2, <2>3, WriteFrom DEF Working
<1>5. CASE o.kind # "approve"
  <2>1. PICK k \in Job :
          /\ k = NextFile(o) /\ k.pc \in {"create", "done"}
          /\ k.kind = o.kind /\ k.files = o.files /\ k.used = o.used
          /\ k.counted = o.counted /\ k.new = o.new /\ k.overtaken = o.overtaken
          /\ k.pc = "create" => o.files # <<>> /\ StorageLeft(o) /\ QuotaLeft(o)
    BY FileGoesOn
  <2>2. Write(j, k)
    BY <1>1, <1>5, <2>1 DEF ConsumeQuota
  <2>3. BytesSound(k)' /\ KindSound(k)'
    BY <1>1, <1>2, <1>5, <2>1 DEF Sound, BytesSound, KindSound, StorageLeft
  <2>4. QuotaSound(k)'
    <3>1. /\ Booked(o) = o.new - 1 /\ Booked(k)' = k.new /\ o.new \in Nat /\ o.counted \in Nat
          /\ quota.counted \in Nat
      BY <1>1, <1>5, <2>1 DEF Booked, Job, JobTypes, Allowance
    <3>2. k.pc = "create" /\ quota.plan = "active" => o.kind \in Streamed
      BY <1>1, <1>5, <2>1 DEF Sound, KindSound, Job, Kinds, Streamed
    <3>3. QuotaSound(o)
      BY <1>1 DEF Sound
    <3>4. k.pc = "create" /\ quota.plan = "active" =>
            /\ k.counted + k.new < QuotaTotal
            /\ ~k.overtaken => quota'.counted = k.counted + k.new
      BY <1>1, <1>2, <1>5, <2>1, <3>1, <3>2, <3>3 DEF QuotaSound, QuotaLeft, Streamed
    <3>5. QED
      BY <1>2, <2>1, <3>1, <3>4 DEF QuotaSound
  <2>5. QED
    BY <1>1, <1>2, <1>3, <2>1, <2>2, <2>3, <2>4, WriteFrom DEF Working, Sound
<1>6. QED
  BY <1>4, <1>5

LEMMA Fails ==
  ASSUME JobTypes, JobsInv, NEW j \in Jobs, Fail(j)
  PROVE  \E e \in Job : Stepped(j, e)
<1>1. PICK o \in Job : o = job[j] /\ Sound(o) /\ o.pc \in Working
  BY DEF JobTypes, JobsInv, Fail
<1>2. PICK end \in {"silent", "error", "done"} :
        end = IF o.kind \in Streamed THEN IF o.pc = "usage" THEN "silent" ELSE "error" ELSE "done"
  OBVIOUS
<1>3. PICK k \in Job : /\ k = [o EXCEPT !.pc = end] /\ k.pc = end
                       /\ k.kind = o.kind /\ k.files = o.files /\ k.new = o.new
  <2>1. PICK k \in Job : k = [o EXCEPT !.pc = end]
    BY DEF Job, Settled
  <2>2. QED
    BY <2>1 DEF Job
<1>4. job' = [job EXCEPT ![j] = Ended(k)] /\ Tell(j, end) /\ UNCHANGED lib
  BY <1>1, <1>2, <1>3 DEF Fail
<1>5. /\ quota' \in Allowance /\ quota'.plan = quota.plan /\ quota'.counted = quota.counted
      /\ quota'.slipped <=> quota.slipped \/ o.pc = "consume"
  BY <1>1 DEF Fail, JobTypes, Allowance
<1>6. Sound(k)
  BY <1>1, <1>3 DEF Sound, BytesSound, QuotaSound, KindSound, Settled
<1>7. PICK e \in Job : e = Ended(k) /\ e.pc = k.pc /\ e.kind = k.kind /\ Sound(e)
  BY <1>6, EndedTyped
<1>8. Moves(j, e) /\ JobsInv'
  BY <1>4, <1>5, <1>7, JobMoves, StaysSound DEF Unwritten
<1>9. Accounts(j, e)
  BY <1>1, <1>3, <1>4, <1>5, <1>7 DEF Accounts, Due, Settled
<1>10. QED
  BY <1>1, <1>3, <1>4, <1>5, <1>7, <1>8, <1>9 DEF Stepped, JobTypes, Moves

-----------------------------------------------------------------------------
(* A job that is created, and what counts and what watches.                *)

LEMMA SmallFiles ==
  /\ <<Small>> \in Seq(Seq(0..Blocks)) /\ Len(<<Small>>) = 1
  /\ \A n \in 1..2 : [i \in 1..n |-> Small] \in Seq(Seq(0..Blocks))
  /\ \A d \in Seq(1..Blocks) : <<d>> \in Seq(Seq(0..Blocks))
<1>1. 0 \in 0..Blocks /\ 1..Blocks \subseteq 0..Blocks
  BY BlocksAssumption
<1>2. Small \in Seq(0..Blocks)
  BY <1>1 DEF Small
<1>3. \A n \in 1..2 : [i \in 1..n |-> Small] \in Seq(Seq(0..Blocks))
  <2>1. \A n \in 1..2 : [i \in 1..n |-> Small] \in [1..n -> Seq(0..Blocks)] /\ n \in Nat
    BY <1>2
  <2>2. QED
    BY <2>1, SeqDef
<1>4. ASSUME NEW d \in Seq(1..Blocks) PROVE <<d>> \in Seq(Seq(0..Blocks))
  <2>1. d \in Seq(0..Blocks)
    BY <1>1, SeqMonotonic
  <2>2. QED
    BY <2>1
<1>5. QED
  BY <1>2, <1>3, <1>4

\* Job j has been created.
Started(j, e) ==
  /\ job[j].pc = "unused" /\ e.pc \in {"usage", "quota"}
  /\ Moves(j, e) /\ JobsInv' /\ UNCHANGED <<watch, lib, quota>>

LEMMA Starts ==
  ASSUME SessionTypes, JobTypes, JobsInv,
         \/ \E r \in Requests : TakeIn(r)
         \/ PostPhotos \/ GuestUpload \/ StartApprove \/ NoticeShot
  PROVE  \E j \in Jobs, e \in Job : Started(j, e)
<1>1. ASSUME NEW new \in Job, Create(new), new.pc \in {"usage", "quota"}, Sound(new),
             UNCHANGED <<watch, lib, quota>>
      PROVE  \E j \in Jobs, e \in Job : Started(j, e)
  BY <1>1, JobStarts DEF Unwritten, Started
<1>2. ASSUME NEW new \in Job, new.pc = "usage", new.new = 0, new.kind # "approve", new.kind # "capture"
      PROVE  Sound(new)
  BY <1>2 DEF Sound, BytesSound, QuotaSound, KindSound
<1>3. CASE \E r \in Requests : TakeIn(r)
  <2>1. PICK r \in Requests : TakeIn(r)
    BY <1>3
  <2>2. PICK f \in Seq(Seq(0..Blocks)) : f = <<req[r].data>>
    BY SmallFiles DEF SessionTypes, Request
  <2>3. PICK new \in Job : new = [Unused EXCEPT !.kind = "large", !.pc = "usage", !.files = f]
    BY UnusedTyped DEF Job, Working, Kinds, Streamed
  <2>4. new.pc = "usage" /\ new.kind = "large" /\ new.new = 0
    BY <2>3, UnusedTyped DEF Job, Unused
  <2>5. Create(new) /\ UNCHANGED <<watch, lib, quota>>
    BY <2>1, <2>2, <2>3 DEF TakeIn
  <2>6. QED
    BY <1>1, <1>2, <2>4, <2>5
<1>4. CASE PostPhotos
  <2>1. PICK n \in 1..2 : NewJob([Unused EXCEPT !.pc = "usage", !.files = [i \in 1..n |-> Small]])
    BY <1>4 DEF PostPhotos
  <2>2. PICK f \in Seq(Seq(0..Blocks)) : f = [i \in 1..n |-> Small]
    BY SmallFiles
  <2>3. PICK new \in Job : new = [Unused EXCEPT !.pc = "usage", !.files = f]
    BY UnusedTyped DEF Job, Working
  <2>4. new.pc = "usage" /\ new.kind = "batch" /\ new.new = 0
    BY <2>3, UnusedTyped DEF Job, Unused
  <2>5. Create(new) /\ UNCHANGED <<watch, lib, quota>>
    BY <2>1, <2>2, <2>3 DEF NewJob
  <2>6. QED
    BY <1>1, <1>2, <2>4, <2>5
<1>5. CASE GuestUpload
  <2>1. PICK f \in Seq(Seq(0..Blocks)) : f = <<Small>>
    BY SmallFiles
  <2>2. PICK new \in Job : new = [Unused EXCEPT !.kind = "guest", !.pc = "usage", !.files = f]
    BY UnusedTyped DEF Job, Working, Kinds
  <2>3. new.pc = "usage" /\ new.kind = "guest" /\ new.new = 0
    BY <2>2, UnusedTyped DEF Job, Unused
  <2>4. Create(new) /\ UNCHANGED <<watch, lib, quota>>
    BY <1>5, <2>1, <2>2 DEF GuestUpload, NewJob
  <2>5. QED
    BY <1>1, <1>2, <2>3, <2>4
<1>6. CASE StartApprove
  <2>1. PICK p \in lib.pending :
          NewJob([Unused EXCEPT !.kind = "approve", !.pc = "quota", !.photo = p])
    BY <1>6 DEF StartApprove
  <2>2. p \in Jobs \cup {NoJob}
    BY DEF JobTypes, Library
  <2>3. PICK new \in Job : new = [Unused EXCEPT !.kind = "approve", !.pc = "quota", !.photo = p]
    BY <2>2, UnusedTyped DEF Job, Working, Kinds
  <2>4. new.pc = "quota" /\ new.kind = "approve" /\ new.new = 0
    BY <2>3, UnusedTyped DEF Job, Unused
  <2>5. Create(new) /\ UNCHANGED <<watch, lib, quota>>
    BY <2>1, <2>3 DEF NewJob
  <2>6. Sound(new)
    BY <2>4 DEF Sound, BytesSound, QuotaSound, KindSound
  <2>7. QED
    BY <1>1, <2>4, <2>5, <2>6
<1>7. CASE NoticeShot
  <2>1. PICK f \in Seq(Seq(0..Blocks)) : f = <<Small>> /\ Len(f) = 1
    BY SmallFiles
  <2>2. PICK new \in Job : new = [Unused EXCEPT !.kind = "capture", !.pc = "usage", !.files = f]
    BY UnusedTyped DEF Job, Working, Kinds
  <2>3. new.pc = "usage" /\ new.kind = "capture" /\ new.new = 0 /\ new.files = f
    BY <2>2, UnusedTyped DEF Job, Unused
  <2>4. Create(new) /\ UNCHANGED <<watch, lib, quota>>
    BY <1>7, <2>1, <2>2 DEF NoticeShot
  <2>5. Sound(new)
    BY <2>1, <2>3 DEF Sound, BytesSound, QuotaSound, KindSound
  <2>6. QED
    BY <1>1, <2>3, <2>4, <2>5
<1>8. QED
  BY <1>3, <1>4, <1>5, <1>6, <1>7

LEMMA Counts ==
  ASSUME JobTypes, JobTypes', CountInv, NEW j \in Jobs, NEW e \in Job, Moves(j, e), Accounts(j, e)
  PROVE  CountInv'
<1>1. Consuming' = IF e.pc = "consume" THEN Consuming \cup {j} ELSE Consuming \ {j}
  BY DEF Consuming, Moves
<1>2. j \in Consuming <=> job[j].pc = "consume"
  BY DEF Consuming
<1>3. IsFiniteSet(Consuming) /\ Cardinality(Consuming) \in Nat
  BY FS_CardinalityType DEF CountInv
<1>4. /\ IsFiniteSet(Consuming \cup {j}) /\ IsFiniteSet(Consuming \ {j})
      /\ Cardinality(Consuming \cup {j}) =
           IF j \in Consuming THEN Cardinality(Consuming) ELSE Cardinality(Consuming) + 1
      /\ Cardinality(Consuming \ {j}) =
           IF j \in Consuming THEN Cardinality(Consuming) - 1 ELSE Cardinality(Consuming)
  BY <1>3, FS_AddElement, FS_RemoveElement
<1>5. IsFiniteSet(Consuming')
  BY <1>1, <1>4
<1>6. Cardinality(Consuming') = Cardinality(Consuming) + Due(e) - Due(job[j])
  BY <1>1, <1>2, <1>3, <1>4 DEF Due
<1>7. /\ lib.shown \in Nat /\ lib'.shown \in Nat /\ quota.counted \in Nat /\ quota'.counted \in Nat
      /\ Due(e) \in Int /\ Due(job[j]) \in Int
  BY DEF JobTypes, Library, Allowance, Due
<1>8. CountedOnce <=> (quota.plan = "active" /\ ~quota.slipped =>
                         quota.counted + Cardinality(Consuming) = lib.shown)
  BY DEF CountedOnce, Consuming
<1>9. ASSUME quota'.plan = "active", ~quota'.slipped
      PROVE  quota'.counted + Cardinality(Consuming') = lib'.shown
  <2>1. /\ quota.counted + Cardinality(Consuming) = lib.shown
        /\ quota'.counted + Due(e) + lib.shown = quota.counted + Due(job[j]) + lib'.shown
    BY <1>8, <1>9 DEF Accounts, CountInv
  <2>2. PICK c \in Nat, d \in Int, f \in Int, m \in Nat, n \in Nat, p \in Nat, q \in Nat :
          /\ c = Cardinality(Consuming) /\ d = Due(e) /\ f = Due(job[j]) /\ m = lib.shown
          /\ n = lib'.shown /\ p = quota.counted /\ q = quota'.counted
    BY <1>3, <1>7
  <2>3. Cardinality(Consuming') = c + d - f
    BY <1>6, <2>2
  <2>4. p + c = m /\ q + d + m = p + f + n
    BY <2>1, <2>2
  <2>5. q + (c + d - f) = n
    BY <2>4
  <2>6. QED
    BY <2>2, <2>3, <2>5
<1>10. QED
  BY <1>5, <1>9 DEF CountInv, CountedOnce, Consuming

Watch1 == [job : Jobs \cup {NoJob}, told : BOOLEAN]

LEMMA Watched ==
  ASSUME WatchInv, watch \in [Watchers -> Watch1], watch' \in [Watchers -> Watch1],
         \A w \in Watchers : watch'[w].job = watch[w].job,
         NEW j \in Jobs, NEW e \in Job, Moves(j, e),
         job[j].pc = "unused" \/ (e.kind = job[j].kind /\ e.pc # "unused")
  PROVE  WatchInv'
  BY DEF WatchInv, Moves

LEMMA Told ==
  ASSUME watch \in [Watchers -> Watch1], NEW j, NEW pc, Tell(j, pc)
  PROVE  /\ watch' \in [Watchers -> Watch1]
         /\ \A w \in Watchers : watch'[w].job = watch[w].job
  BY DEF Tell, Watch1

JobsGood == JobTypes /\ JobsInv /\ CountInv /\ WatchInv /\ watch \in [Watchers -> Watch1]

LEMMA SteppedGood ==
  ASSUME JobsGood, NEW j \in Jobs, NEW e \in Job, Stepped(j, e)
  PROVE  JobsGood'
<1>1. /\ watch' \in [Watchers -> Watch1]
      /\ \A w \in Watchers : watch'[w].job = watch[w].job
  BY Told DEF JobsGood, Stepped
<1>2. WatchInv'
  BY <1>1, Watched DEF JobsGood, Stepped
<1>3. CountInv'
  BY Counts DEF JobsGood, Stepped
<1>4. QED
  BY <1>1, <1>2, <1>3 DEF JobsGood, Stepped

LEMMA StartedGood ==
  ASSUME JobsGood, NEW j \in Jobs, NEW e \in Job, Started(j, e)
  PROVE  JobsGood'
<1>1. JobTypes' /\ Accounts(j, e)
  BY DEF JobsGood, Started, JobTypes, Moves, Accounts, Due, Library, Allowance
<1>2. WatchInv'
  BY Watched DEF JobsGood, Started
<1>3. CountInv'
  BY <1>1, Counts DEF JobsGood, Started
<1>4. QED
  BY <1>1, <1>2, <1>3 DEF JobsGood, Started

LEMMA RestartedGood == ASSUME JobsGood, Restart PROVE JobsGood'
<1>1. ASSUME NEW j \in Jobs
      PROVE  /\ job'[j] \in Job /\ job'[j].pc \in {"unused", "forgotten"} /\ Sound(job[j])'
  <2>1. PICK o \in Job : o = job[j] /\ Sound(o)
    BY DEF JobsGood, JobTypes, JobsInv
  <2>2. CASE o.pc = "unused"
    <3>1. job'[j] = o
      BY <2>1, <2>2 DEF Restart
    <3>2. Sound(o)'
      BY <2>1, <2>2 DEF Sound, BytesSound, QuotaSound, KindSound
    <3>3. QED
      BY <2>2, <3>1, <3>2
  <2>3. CASE o.pc # "unused"
    <3>1. PICK n \in Job : n = [Unused EXCEPT !.kind = o.kind, !.pc = "forgotten"]
      BY UnusedTyped DEF Job, Settled
    <3>2. n.pc = "forgotten" /\ n.files = <<>> /\ n.new = 0 /\ job'[j] = n
      BY <2>1, <2>3, <3>1, UnusedTyped DEF Restart, Unused, Job
    <3>3. Len(n.files) = 0
      BY <3>2, EmptySeq
    <3>4. Sound(n)'
      BY <3>2, <3>3 DEF Sound, BytesSound, QuotaSound, KindSound
    <3>5. QED
      BY <3>2, <3>4
  <2>4. QED
    BY <2>2, <2>3
<1>2. /\ UNCHANGED lib /\ quota' \in Allowance
      /\ quota'.plan = quota.plan /\ quota'.counted = quota.counted
      /\ quota'.slipped <=> (quota.slipped \/ \E j \in Jobs : job[j].pc = "consume")
  BY DEF Restart, JobsGood, JobTypes, Allowance
<1>3. JobTypes' /\ JobsInv'
  BY <1>1, <1>2 DEF JobsGood, JobTypes, JobsInv, Restart
<1>4. watch' \in [Watchers -> Watch1] /\ \A w \in Watchers : watch'[w].job = NoJob
  BY DEF Restart, Off, Watch1
<1>5. WatchInv'
  BY <1>4, NoJobAssumption DEF WatchInv
<1>6. CountInv'
  <2>1. Consuming' = {}
    BY <1>1 DEF Consuming
  <2>2. IsFiniteSet(Consuming') /\ Cardinality(Consuming') = 0
    BY <2>1, FS_EmptySet
  <2>3. ~quota'.slipped => Consuming = {}
    BY <1>2 DEF Consuming
  <2>4. ~quota'.slipped => Cardinality(Consuming) = 0
    BY <2>3, FS_EmptySet
  <2>5. quota'.plan = "active" /\ ~quota'.slipped => quota.counted + Cardinality(Consuming) = lib.shown
    BY <1>2 DEF JobsGood, CountInv, CountedOnce, Consuming
  <2>6. quota'.plan = "active" /\ ~quota'.slipped => quota'.counted + Cardinality(Consuming') = lib'.shown
    BY <1>2, <2>2, <2>4, <2>5
  <2>7. QED
    BY <2>2, <2>6 DEF CountInv, CountedOnce, Consuming
<1>7. QED
  BY <1>3, <1>4, <1>5, <1>6 DEF JobsGood

\* What a step does to the jobs, the library, the quota and the streams.
LEMMA JobsStep ==
  ASSUME SessionTypes, JobsGood, [Next]_vars
  PROVE  \/ \E j \in Jobs, e \in Job : Stepped(j, e)
         \/ \E j \in Jobs, e \in Job : Started(j, e)
         \/ \E w \in Watchers : Watch(w) \/ CloseStream(w)
         \/ Restart
         \/ UNCHANGED <<job, lib, quota, watch>>
<1> USE DEF JobsGood
<1>1. ASSUME NEW j \in Jobs, JobStep(j) \/ Fail(j) PROVE \E e \in Job : Stepped(j, e)
  BY <1>1, ReadsUsage, ReadsQuota, Creates, Approves, Consumes, Fails DEF JobStep
<1>2. CASE (\E r \in Requests : TakeIn(r)) \/ PostPhotos \/ GuestUpload \/ StartApprove \/ NoticeShot
  BY <1>2, Starts
<1>3. ASSUME NEW r \in Requests, Session(r), ~TakeIn(r) PROVE UNCHANGED <<job, lib, quota, watch>>
  BY <1>3 DEF Session, StartPart, StatPart, WritePart, TearPart, Received, StartComplete, CheckSize,
              ReadPart, SetCompleted, StartAbort, Discard, SetAborted, Begin, Append1
<1>4. CASE Initiate \/ Shoot \/ UNCHANGED vars
  BY <1>4 DEF Initiate, Shoot, vars
<1>5. QED
  BY <1>1, <1>2, <1>3, <1>4 DEF Next

LEMMA GoodStep == ASSUME SessionTypes, JobsGood, [Next]_vars PROVE JobsGood'
<1>1. ASSUME NEW k \in Job, Sound(k), Unwritten PROVE Sound(k)'
  BY <1>1, StaysSound
<1>2. ASSUME UNCHANGED <<job, lib, quota>> PROVE JobTypes' /\ JobsInv' /\ CountInv'
  <2>1. ASSUME NEW j \in Jobs PROVE Sound(job[j])'
    <3>1. PICK k \in Job : k = job[j] /\ k = job'[j] /\ Sound(k)
      BY <1>2 DEF JobsGood, JobTypes, JobsInv
    <3>2. QED
      BY <1>1, <1>2, <3>1 DEF Unwritten
  <2>2. CountInv'
    BY <1>2 DEF JobsGood, CountInv, CountedOnce, Consuming
  <2>3. QED
    BY <1>2, <2>1, <2>2 DEF JobsGood, JobTypes, JobsInv
<1>3. ASSUME NEW w \in Watchers, Watch(w) \/ CloseStream(w) PROVE JobsGood'
  <2>1. UNCHANGED <<job, lib, quota>>
    BY <1>3 DEF Watch, CloseStream
  <2>2. watch' \in [Watchers -> Watch1] /\ WatchInv'
    <3>1. CASE Watch(w)
      BY <2>1, <3>1 DEF Watch, JobsGood, WatchInv, Watch1
    <3>2. CASE CloseStream(w)
      BY <2>1, <3>2, NoJobAssumption DEF CloseStream, JobsGood, WatchInv, Watch1, Off
    <3>3. QED
      BY <1>3, <3>1, <3>2
  <2>3. QED
    BY <1>2, <2>1, <2>2 DEF JobsGood
<1>4. ASSUME UNCHANGED <<job, lib, quota, watch>> PROVE JobsGood'
  BY <1>2, <1>4 DEF JobsGood, WatchInv
<1>5. QED
  BY <1>3, <1>4, JobsStep, SteppedGood, StartedGood, RestartedGood

-----------------------------------------------------------------------------
(* The theorems.                                                           *)

RestTypes ==
  /\ shot \in {"none", "staged", "taken", "late", "stranded"}
  /\ requests \in 0..MaxRequests /\ crashes \in 0..MaxCrashes

LEMMA RestStep == ASSUME RestTypes, [Next]_vars PROVE RestTypes'
<1> USE LimitsAssumption DEF RestTypes
<1>1. CASE Initiate \/ UNCHANGED vars
  BY <1>1 DEF Initiate, vars
<1>2. ASSUME NEW r \in Requests, Session(r) PROVE RestTypes'
  <2>1. UNCHANGED <<shot, crashes>> /\ (UNCHANGED requests \/ Count)
    BY <1>2 DEF Session, StartPart, StatPart, WritePart, TearPart, Received, StartComplete, CheckSize,
                ReadPart, SetCompleted, TakeIn, StartAbort, Discard, SetAborted, Begin, Append1
  <2>2. QED
    BY <2>1 DEF Count
<1>3. CASE PostPhotos \/ GuestUpload \/ StartApprove
  <2>1. UNCHANGED <<shot, crashes>> /\ Count
    BY <1>3 DEF PostPhotos, GuestUpload, StartApprove, NewJob
  <2>2. QED
    BY <2>1 DEF Count
<1>4. CASE Shoot \/ NoticeShot
  BY <1>4 DEF Shoot, NoticeShot, Count
<1>5. ASSUME NEW j \in Jobs, JobStep(j) PROVE RestTypes'
  <2>1. UNCHANGED <<requests, crashes>> /\ \E new : Unstage(new)
    BY <1>5 DEF JobStep, ReadUsage, ReadQuota, CreatePhoto, ApprovePhoto, ConsumeQuota, Step, Write
  <2>2. QED
    BY <2>1 DEF Unstage
<1>6. ASSUME NEW j \in Jobs, Fail(j) PROVE RestTypes'
  <2>1. crashes < MaxCrashes /\ crashes' = crashes + 1 /\ UNCHANGED requests
    BY <1>6 DEF Fail
  <2>2. \E new : Unstage(new)
    BY <1>6, Zenon DEF Fail
  <2>3. QED
    BY <2>1, <2>2 DEF Unstage
<1>7. ASSUME NEW w \in Watchers, Watch(w) \/ CloseStream(w) PROVE RestTypes'
  BY <1>7 DEF Watch, CloseStream
<1>8. CASE Restart
  <2>1. /\ crashes < MaxCrashes /\ crashes' = crashes + 1 /\ UNCHANGED requests
        /\ shot' \in {"none", "stranded"}
    BY <1>8 DEF Restart
  <2>2. QED
    BY <2>1
<1>9. QED
  BY <1>1, <1>2, <1>3, <1>4, <1>5, <1>6, <1>7, <1>8 DEF Next

LEMMA Parts == IInv <=> SessionTypes /\ SessionInv /\ JobsGood /\ RestTypes
  BY Types DEF IInv, JobsGood, Watch1, RestTypes

LEMMA Begins == Init => IInv
<1> SUFFICES ASSUME Init PROVE IInv
  OBVIOUS
<1>1. part \in Seq(1..Blocks) /\ Len(part) = 0 /\ DOMAIN part = {}
  BY EmptySeq DEF Init
<1>2. stage \in Stage /\ stage.status = "none" /\ stage.taken = 0
  BY BlocksAssumption DEF Init, NoStage, Stage
<1>3. SessionTypes /\ SessionInv
  <2>1. \A r \in Requests : req[r] = Idle
    BY DEF Init
  <2>2. RequestsInv
    BY <2>1, IdleTyped DEF RequestsInv, Idle
  <2>3. PartInv /\ StageInv
    BY <1>1, <1>2, BlocksAssumption DEF PartInv, StageInv, InOrder
  <2>4. QED
    BY <1>1, <1>2, <2>2, <2>3, IdleTyped DEF SessionTypes, SessionInv, Init
<1>4. quota \in Allowance /\ quota.counted = 0
  <2>1. PICK plan \in {"none", "active", "paused"} :
          quota = [plan |-> plan, counted |-> 0, slipped |-> FALSE]
    BY DEF Init
  <2>2. QED
    BY <2>1 DEF Allowance
<1>5. PICK P \in SUBSET {NoJob} : lib = [bytes |-> Cardinality(P), pending |-> P, shown |-> 0]
  BY DEF Init
<1>6. Cardinality(P) \in Nat
  <2>1. IsFiniteSet(P)
    BY FS_EmptySet, FS_Singleton, FS_Subset
  <2>2. QED
    BY <2>1, FS_CardinalityType
<1>7. lib \in Library /\ lib.shown = 0
  BY <1>5, <1>6 DEF Library
<1>8. JobTypes /\ JobsInv
  <2>1. job \in [Jobs -> Job] /\ \A j \in Jobs : job[j] = Unused
    BY UnusedTyped DEF Init
  <2>2. Sound(Unused)
    BY EmptySeq DEF Unused, Sound, BytesSound, QuotaSound, KindSound
  <2>3. QED
    BY <1>4, <1>7, <2>1, <2>2 DEF JobTypes, JobsInv
<1>9. CountInv
  <2>1. Consuming = {}
    BY DEF Consuming, Init, Unused
  <2>2. QED
    BY <1>4, <1>7, <2>1, FS_EmptySet DEF CountInv, CountedOnce, Consuming
<1>10. watch \in [Watchers -> Watch1] /\ WatchInv
  BY NoJobAssumption DEF Init, Off, Watch1, WatchInv
<1>11. RestTypes
  BY LimitsAssumption DEF Init, RestTypes
<1>12. QED
  BY <1>3, <1>8, <1>9, <1>10, <1>11, Parts DEF JobsGood

LEMMA Goes == ASSUME IInv, [Next]_vars PROVE IInv'
<1>1. SessionTypes /\ SessionInv /\ JobsGood /\ RestTypes
  BY Parts
<1>2. SessionTypes' /\ SessionInv' /\ JobsGood' /\ RestTypes'
  BY <1>1, SessionStep, GoodStep, RestStep
<1>3. QED
  BY <1>2 DEF IInv, JobsGood, Watch1, RestTypes, TypeOK, SessionTypes, Stage, Request,
              JobTypes, Job, Library, Allowance

\* The state is well typed, what is received is never above the declared size, and each
\* photo that is shown has been counted once (consumeQuota), whatever jobs and approvals
\* overlap, fail or are cut short by a restart.
THEOREM UploadsCounted == Spec => []UploadInv
<1>1. IInv => UploadInv
  BY DEF IInv, UploadInv, CountInv
<1>2. QED
  BY Begins, Goes, <1>1, PTL DEF Spec

\* A completion that nobody has overtaken takes in the file that the client sent, and only
\* once (the routes under uploads/large).
THEOREM TakesInTheFile == Spec => TakenInWhole
<1>1. IInv =>
        \A r \in Requests : req[r].pc = "take" =>
          \/ req[r].overtaken
          \/ /\ stage.taken = 0 /\ stage.status = "Completed"
             /\ stage.mixed \/ req[r].data = File
  BY DEF IInv, SessionInv, RequestsInv, CompletionSound
<1>2. IInv /\ [Next]_vars =>
        [\A r \in Requests : req[r].pc = "take" /\ stage'.taken > stage.taken =>
           \/ req[r].overtaken
           \/ /\ stage.taken = 0 /\ stage.status = "Completed"
              /\ stage.mixed \/ req[r].data = File]_vars
  BY <1>1
<1>3. QED
  BY Begins, Goes, <1>2, PTL DEF Spec, TakenInWhole

LEMMA WhoAdds ==
  ASSUME [Next]_vars, JobTypes
  PROVE  /\ lib'.bytes = lib.bytes \/ \E k \in Jobs : CreatePhoto(k)
         /\ quota'.counted = quota.counted \/ \E k \in Jobs : ConsumeQuota(k)
<1>1. ASSUME NEW j \in Jobs, JobStep(j) \/ Fail(j)
      PROVE  /\ lib'.bytes = lib.bytes \/ CreatePhoto(j)
             /\ quota'.counted = quota.counted \/ ConsumeQuota(j)
  BY <1>1 DEF JobStep, ReadUsage, ReadQuota, CreatePhoto, ApprovePhoto, Fail, ConsumeQuota,
              JobTypes, Library, Allowance
<1>2. ASSUME NEW r \in Requests, Session(r) PROVE UNCHANGED <<lib, quota>>
  BY <1>2 DEF Session, StartPart, StatPart, WritePart, TearPart, Received, StartComplete, CheckSize,
              ReadPart, SetCompleted, TakeIn, StartAbort, Discard, SetAborted, Begin, Append1
<1>3. CASE Initiate \/ PostPhotos \/ GuestUpload \/ StartApprove \/ Shoot \/ NoticeShot \/ UNCHANGED vars
  BY <1>3 DEF Initiate, PostPhotos, GuestUpload, StartApprove, Shoot, NoticeShot, NewJob, vars
<1>4. ASSUME NEW w \in Watchers, Watch(w) \/ CloseStream(w) PROVE UNCHANGED <<lib, quota>>
  BY <1>4 DEF Watch, CloseStream
<1>5. CASE Restart
  BY <1>5 DEF Restart, JobTypes, Allowance
<1>6. QED
  BY <1>1, <1>2, <1>3, <1>4, <1>5 DEF Next

\* A job that nobody has overtaken stays below the limit on bytes and on photos, though it
\* reads both once, before its first file (processUploadJob).
THEOREM LimitsAreHeld == Spec => LimitsHold
<1> DEFINE Held ==
      \A j \in Jobs : ~job[j].overtaken =>
       /\ job[j].pc = "create" /\ job'[j].pc # "create" /\ lib'.bytes > lib.bytes
            => lib'.bytes <= StorageLimit
       /\ job[j].pc = "consume" /\ quota'.counted > quota.counted
            => quota'.counted <= QuotaTotal
<1>1. ASSUME IInv, [Next]_vars PROVE Held
  <2>1. SUFFICES ASSUME NEW j \in Jobs, ~job[j].overtaken
                 PROVE  /\ job[j].pc = "create" /\ job'[j].pc # "create" /\ lib'.bytes > lib.bytes
                             => lib'.bytes <= StorageLimit
                        /\ job[j].pc = "consume" /\ quota'.counted > quota.counted
                             => quota'.counted <= QuotaTotal
    OBVIOUS
  <2>2. JobTypes /\ JobsInv
    BY <1>1, Parts DEF JobsGood
  <2>3. PICK o \in Job : o = job[j] /\ Sound(o) /\ ~o.overtaken
    BY <2>1, <2>2 DEF JobTypes, JobsInv
  <2>4. ASSUME o.pc = "create", job'[j].pc # "create", lib'.bytes > lib.bytes
        PROVE  lib'.bytes <= StorageLimit
    <3>1. PICK k \in Jobs : CreatePhoto(k)
      BY <1>1, <2>2, <2>4, WhoAdds DEF JobTypes, Library
    <3>2. k = j
      BY <2>3, <2>4, <3>1 DEF CreatePhoto, Write, Working
    <3>3. lib'.bytes = lib.bytes + Len(Head(o.files))
      BY <2>2, <2>3, <3>1, <3>2 DEF CreatePhoto, JobTypes, Library
    <3>4. QED
      BY <2>3, <2>4, <3>3 DEF Sound, BytesSound, KindSound
  <2>5. ASSUME o.pc = "consume", quota'.counted > quota.counted
        PROVE  quota'.counted <= QuotaTotal
    <3>1. PICK k \in Jobs : ConsumeQuota(k)
      BY <1>1, <2>2, <2>5, WhoAdds DEF JobTypes, Allowance
    <3>2. quota.plan = "active" /\ quota'.counted = quota.counted + 1 /\ quota.counted \in Nat
      BY <2>2, <2>5, <3>1 DEF ConsumeQuota, JobTypes, Allowance
    <3>3. quota.counted < QuotaTotal
      BY <2>3, <2>5, <3>2 DEF Sound, QuotaSound, KindSound
    <3>4. QED
      BY <3>2, <3>3, LimitsAssumption
  <2>6. QED
    BY <2>3, <2>4, <2>5
<1>2. IInv /\ [Next]_vars => [Held]_vars
  BY <1>1
<1>3. QED
  BY Begins, Goes, <1>2, PTL DEF Spec, LimitsHold

-----------------------------------------------------------------------------
(* The refinement: a step of a job that has a stream is a step of it in    *)
(* JobStream, and any other is none.                                       *)

Streams == <<[j \in Jobs |-> Phase(j)], watch>>

\* What is told when job j, which has a stream, becomes e.
LEMMA StepsTheStream ==
  ASSUME JobsGood, NEW j \in Jobs, NEW e \in Job, Stepped(j, e)
  PROVE  Stream!StreamNext \/ UNCHANGED Streams
<1>1. \A k \in Jobs \ {j} : Phase(k)' = Phase(k)
  BY DEF Phase, Stepped, Moves
<1>2. PICK o \in Job : o = job[j] /\ o.pc \in Working /\ o.kind = e.kind /\ o.pc # "unused"
  BY DEF Stepped, JobsGood, JobTypes, Working
<1>3. e.pc \in Working \cup {"done", "error", "silent"} /\ job'[j] = e /\ e.pc # "unused"
  BY DEF Stepped, Moves, Job, Settled
<1>4. CASE e.kind \notin Streamed
  <2>1. Phase(j) = "none" /\ Phase(j)' = "none"
    BY <1>2, <1>3, <1>4 DEF Phase
  <2>2. \A w \in Watchers : watch[w].job # j
    BY <1>2, <1>4 DEF JobsGood, WatchInv
  <2>3. UNCHANGED watch
    BY <2>2 DEF Stepped, Tell, JobsGood
  <2>4. QED
    BY <1>1, <2>1, <2>3 DEF Streams
<1>5. CASE e.kind \in Streamed /\ e.pc \in Working
  <2>1. Phase(j) = "running" /\ Phase(j)' = "running"
    BY <1>2, <1>3, <1>5 DEF Phase
  <2>2. UNCHANGED watch
    BY <1>5 DEF Stepped, Tell, JobsGood, Working
  <2>3. QED
    BY <1>1, <2>1, <2>2 DEF Streams
<1>6. CASE e.kind \in Streamed /\ e.pc \in {"done", "error"}
  <2>1. Phase(j) = "running" /\ Phase(j)' = "ended"
    BY <1>2, <1>3, <1>6 DEF Phase, Working
  <2>2. [k \in Jobs |-> Phase(k)]' = [[k \in Jobs |-> Phase(k)] EXCEPT ![j] = "ended"]
    BY <1>1, <2>1
  <2>3. watch' = [w \in Watchers |->
                    IF watch[w].job = j THEN [watch[w] EXCEPT !.told = TRUE] ELSE watch[w]]
    BY <1>6 DEF Stepped, Tell
  <2>4. Stream!Finish(j)
    BY <2>1, <2>2, <2>3 DEF Stream!Finish
  <2>5. QED
    BY <2>4 DEF Stream!StreamNext
<1>7. CASE e.kind \in Streamed /\ e.pc = "silent"
  <2>1. Phase(j) = "running" /\ Phase(j)' = "silent"
    BY <1>2, <1>3, <1>7 DEF Phase, Working
  <2>2. [k \in Jobs |-> Phase(k)]' = [[k \in Jobs |-> Phase(k)] EXCEPT ![j] = "silent"]
    BY <1>1, <2>1
  <2>3. UNCHANGED watch
    BY <1>7 DEF Stepped, Tell, JobsGood
  <2>4. Stream!FallSilent(j)
    BY <2>1, <2>2, <2>3 DEF Stream!FallSilent
  <2>5. QED
    BY <2>4 DEF Stream!StreamNext
<1>8. QED
  BY <1>3, <1>4, <1>5, <1>6, <1>7

LEMMA StartsTheStream ==
  ASSUME JobsGood, NEW j \in Jobs, NEW e \in Job, Started(j, e)
  PROVE  Stream!StreamNext \/ UNCHANGED Streams
<1>1. \A k \in Jobs \ {j} : Phase(k)' = Phase(k)
  BY DEF Phase, Started, Moves
<1>2. UNCHANGED watch /\ Phase(j) = "none"
      /\ Phase(j)' = IF e.kind \in Streamed THEN "running" ELSE "none"
  BY DEF Phase, Started, Moves, Working
<1>3. CASE e.kind \in Streamed
  <2>1. [k \in Jobs |-> Phase(k)]' = [[k \in Jobs |-> Phase(k)] EXCEPT ![j] = "running"]
    BY <1>1, <1>2, <1>3
  <2>2. Stream!Start(j)
    BY <1>2, <2>1 DEF Stream!Start
  <2>3. QED
    BY <2>2 DEF Stream!StreamNext
<1>4. CASE e.kind \notin Streamed
  BY <1>1, <1>2, <1>4 DEF Streams
<1>5. QED
  BY <1>3, <1>4

LEMMA WatchesTheStream ==
  ASSUME JobsGood, NEW w \in Watchers, Watch(w) \/ CloseStream(w)
  PROVE  Stream!StreamNext
<1>1. [k \in Jobs |-> Phase(k)]' = [k \in Jobs |-> Phase(k)]
  BY DEF Watch, CloseStream, Phase
<1>2. CASE Watch(w)
  <2>1. PICK j \in Jobs :
          /\ job[j].kind \in Streamed /\ job[j].pc \notin {"unused", "forgotten"}
          /\ watch' = [watch EXCEPT ![w] = [job |-> j, told |-> job[j].pc \in {"done", "error"}]]
    BY <1>2 DEF Watch
  <2>2. Phase(j) \in {"running", "ended", "silent"}
        /\ (Phase(j) = "ended") = (job[j].pc \in {"done", "error"})
    BY <2>1 DEF Phase, JobsGood, JobTypes, Job, Working, Settled
  <2>3. Stream!Follow(w, j)
    BY <1>1, <2>1, <2>2 DEF Stream!Follow
  <2>4. QED
    BY <2>3 DEF Stream!StreamNext
<1>3. CASE CloseStream(w)
  BY <1>1, <1>3 DEF CloseStream, Off, Stream!HangUp, Stream!Closed, Stream!StreamNext
<1>4. QED
  BY <1>2, <1>3

LEMMA ForgetsTheStream == ASSUME JobsGood, Restart PROVE Stream!StreamNext
<1>1. ASSUME NEW j \in Jobs PROVE Phase(j)' = IF Phase(j) = "none" THEN "none" ELSE "forgotten"
  <2>1. job'[j] = IF job[j].pc = "unused" THEN job[j]
                  ELSE [Unused EXCEPT !.kind = job[j].kind, !.pc = "forgotten"]
    BY DEF Restart
  <2>2. CASE job[j].pc = "unused"
    BY <2>1, <2>2 DEF Phase
  <2>3. CASE job[j].pc # "unused"
    <3>1. job'[j].kind = job[j].kind /\ job'[j].pc = "forgotten"
      BY <2>1, <2>3 DEF Unused
    <3>2. QED
      BY <2>3, <3>1 DEF Phase, Working, JobsGood, JobTypes, Job, Settled
  <2>4. QED
    BY <2>2, <2>3
<1>2. watch' = [w \in Watchers |-> Stream!Closed]
  BY DEF Restart, Off, Stream!Closed
<1>3. Stream!Forget
  BY <1>1, <1>2 DEF Stream!Forget
<1>4. QED
  BY <1>3 DEF Stream!StreamNext

\* Whatever takes files in, jobs and their streams are those of JobStream: each step is one
\* of it or none (createJob, emit and the stream routes).
THEOREM JobsHaveStreams == Spec => Stream!StreamSafety
<1>1. Init => Stream!StreamInit
  BY DEF Init, Unused, Phase, Off, Stream!StreamInit, Stream!Closed
<1>2. IInv /\ [Next]_vars => [Stream!StreamNext]_(Stream!svars)
  <2> SUFFICES ASSUME IInv, [Next]_vars PROVE Stream!StreamNext \/ UNCHANGED Streams
    BY DEF Streams, Stream!svars
  <2>1. SessionTypes /\ JobsGood
    BY Parts
  <2>2. ASSUME UNCHANGED <<job, lib, quota, watch>> PROVE UNCHANGED Streams
    BY <2>2 DEF Streams, Phase
  <2>3. QED
    BY <2>1, <2>2, JobsStep, StepsTheStream, StartsTheStream, WatchesTheStream, ForgetsTheStream
<1>3. QED
  BY Begins, Goes, <1>1, <1>2, PTL DEF Spec, Stream!StreamSafety

-----------------------------------------------------------------------------
(* What JobStream promises, of any jobs and watchers.  The invariant is     *)
(* inductive as it stands: a stream is told when its job ends or, if it     *)
(* comes later, when it opens.                                              *)

StreamInv == Stream!StreamTypeOK /\ Stream!ToldOfTheEnd

LEMMA StreamStart == Stream!StreamInit => StreamInv
  BY DEF Stream!StreamInit, StreamInv, Stream!StreamTypeOK, Stream!ToldOfTheEnd, Stream!Phases,
         Stream!Closed

LEMMA StreamStep == ASSUME StreamInv, [Stream!StreamNext]_(Stream!svars) PROVE StreamInv'
<1> USE DEF StreamInv, Stream!StreamTypeOK, Stream!ToldOfTheEnd, Stream!Phases
<1>1. ASSUME NEW j \in Jobs, Stream!Start(j) PROVE StreamInv'
  BY <1>1 DEF Stream!Start
<1>2. ASSUME NEW j \in Jobs, Stream!Finish(j) PROVE StreamInv'
  <2>1. Stream!StreamTypeOK'
    BY <1>2 DEF Stream!Finish
  <2>2. ASSUME NEW w \in Watchers, watch'[w].job # NoJob
        PROVE  watch'[w].told <=> [k \in Jobs |-> Phase(k)]'[watch'[w].job] = "ended"
    <3>1. watch'[w].job = watch[w].job /\ watch[w].job \in Jobs
      BY <1>2, <2>1, <2>2 DEF Stream!Finish
    <3>2. watch[w].told <=> [k \in Jobs |-> Phase(k)][watch[w].job] = "ended"
      BY <2>2, <3>1
    <3>3. CASE watch[w].job = j
      BY <1>2, <3>1, <3>3 DEF Stream!Finish
    <3>4. CASE watch[w].job # j
      <4>1. watch'[w] = watch[w]
        BY <1>2, <3>4 DEF Stream!Finish
      <4>2. [k \in Jobs |-> Phase(k)]'[watch[w].job] = [k \in Jobs |-> Phase(k)][watch[w].job]
        BY <1>2, <3>1, <3>4 DEF Stream!Finish
      <4> QED BY <3>1, <3>2, <4>1, <4>2
    <3> QED BY <3>3, <3>4
  <2> QED BY <2>1, <2>2
<1>3. ASSUME NEW j \in Jobs, Stream!FallSilent(j) PROVE StreamInv'
  BY <1>3 DEF Stream!FallSilent
<1>4. ASSUME NEW w \in Watchers, Stream!HangUp(w) PROVE StreamInv'
  BY <1>4 DEF Stream!HangUp, Stream!Closed
<1>5. ASSUME NEW w \in Watchers, NEW j \in Jobs, Stream!Follow(w, j) PROVE StreamInv'
  BY <1>5 DEF Stream!Follow
<1>6. CASE Stream!Forget
  BY <1>6 DEF Stream!Forget, Stream!Closed
<1>7. CASE UNCHANGED Stream!svars
  BY <1>7 DEF Stream!svars
<1> QED
  BY <1>1, <1>2, <1>3, <1>4, <1>5, <1>6, <1>7 DEF Stream!StreamNext

\* Whoever follows a job of Uploads has been told of its end exactly if it has ended:
\* nobody is left waiting, nor told of an end that did not come (jobQueue.js, the
\* stream routes of events.js).
THEOREM WatchersAreTold == Spec => [](Stream!StreamTypeOK /\ Stream!ToldOfTheEnd)
<1>1. Stream!StreamInit => StreamInv
  BY StreamStart
<1>2. StreamInv /\ [Stream!StreamNext]_(Stream!svars) => StreamInv'
  BY StreamStep
<1>3. StreamInv => Stream!StreamTypeOK /\ Stream!ToldOfTheEnd
  BY DEF StreamInv
<1> QED
  BY <1>1, <1>2, <1>3, JobsHaveStreams, PTL DEF Stream!StreamSafety

=============================================================================
