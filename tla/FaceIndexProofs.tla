--------------------------- MODULE FaceIndexProofs ---------------------------
(***************************************************************************)
(* Proofs about FaceIndex: a photo that says it is indexed has all its     *)
(* faces, a photo outside AI Search has its faces on hold, and no face row *)
(* goes before its time, for any photos, people, tasks, days and restarts. *)
(*                                                                         *)
(* Neither is inductive.  A photo is incomplete while a task replaces its  *)
(* faces, or after a purge that has not reset it yet; it shows free faces  *)
(* while a request that adds it has not set the flag yet.  The invariant   *)
(* names the tasks that owe the photo something, and says what each of     *)
(* them may rely on although others work on the same photo.                *)
(***************************************************************************)
EXTENDS FaceIndex, TLAPS

-----------------------------------------------------------------------------
(* The inductive invariant.                                                *)

\* The program counters of each kind of task.
PCsOf ==
  [k \in Kinds |->
    CASE k = "add"       -> {"idle", "addUpdate", "restore", "index", "detect", "clear", "insert"}
      [] k = "patchAdd"  -> {"detect", "clear", "insert", "patchUpdate", "restore", "index"}
      [] k = "remove"    -> {"hold"}
      [] k = "approve"   -> {"detect", "clear", "insert", "approveUpdate"}
      [] k = "delete"    -> {"deleteFaces", "deleteRow"}
      [] k = "capture"   -> {"clear", "insert"}
      [] k = "sweep"     -> {"index", "detect", "clear", "insert"}
      [] k = "retention" -> {"purge", "count", "reset"}]

AtOnePhoto == {"detect", "clear", "insert", "patchUpdate", "approveUpdate",
               "deleteFaces", "deleteRow", "reset"}

\* What a task's locals say by themselves.
TaskSound(t) ==
  /\ t.pc \in PCsOf[t.kind]
  /\ t.pc = "idle" => t = Idle
  /\ t.pc \in AtOnePhoto => t.cur \in Photos
  /\ t.pc \in {"detect", "clear"} => t.left = People
  /\ t.pc = "addUpdate" => t.todo = t.batch /\ t.cur = NoPhoto
  /\ t.pc = "purge" => t.todo = t.batch
  /\ t.kind = "patchAdd" /\ t.pc = "restore" => t.batch = {}
  /\ t.kind = "patchAdd" /\ t.pc = "index" => t.todo = {}
  /\ t.since <= today

TasksInv == \A j \in Tasks : TaskSound(task[j])

\* Whoever removes or deletes an undisturbed photo works on it alone.
AloneInv ==
  \A p \in Photos \ disturbed : \A j, k \in Tasks :
    j # k /\ p \in WorksOn(task[j]) /\ p \in WorksOn(task[k])
      => task[j].kind \notin {"remove", "delete"}

\* An undisturbed photo is there as long as a task works on it.
PresentInv ==
  \A p \in Photos \ disturbed : \A j \in Tasks : p \in WorksOn(task[j]) => Exists(p)

\* A purge has listed every photo it will take faces from.
ListedInv ==
  \A j \in Tasks : At(j, "purge") =>
    \A p \in Photos : \A f \in faces[p] : HoldOver(f, task[j].since) => p \in task[j].batch

\* What a task t still owes the photo p.
Inserting(t, p) == t.pc = "insert" /\ t.cur = p
Resetting(t, p) == \/ t.pc \in {"count", "reset"} /\ p \in t.todo
                   \/ t.pc = "reset" /\ t.cur = p
Deleting(t, p) == t.pc = "deleteRow" /\ t.cur = p
Showing(t, p) == t.kind = "patchAdd" /\ t.pc \in {"insert", "patchUpdate"} /\ t.cur = p
Holding(t, p) == t.kind = "remove" /\ p \in t.batch

\* What t did or saw when it began: p is visible.
FoundVisible(t, p) ==
  /\ p \in WorksOn(t)
  /\ \/ t.kind \in {"capture", "sweep"}
     \/ t.kind = "add" /\ t.pc # "addUpdate"
     \/ t.kind = "approve" /\ t.pc \in {"detect", "clear", "insert"}
     \/ t.kind = "patchAdd" /\ t.pc \in {"restore", "index"}

Complete(p) == \A w \in People : \E f \in faces[p] : f.of = w

\* The faces of a photo go on hold and come back together.
Uniform(p) == \A f, g \in faces[p] : f.held = g.held

\* The insertion that cleared the photo last has lost none of its faces.
InsertionInv(p) ==
  \A j \in Tasks : Inserting(task[j], p) =>
    /\ \A f \in faces[p] : f.held = Never
    /\ \E k \in Tasks : /\ Inserting(task[k], p)
                        /\ \A w \in People \ task[k].left : \E f \in faces[p] : f.of = w

StampInv(p) ==
  Exists(p) /\ row[p].indexed =>
    \/ Complete(p)
    \/ \E j \in Tasks : Inserting(task[j], p)
    \/ faces[p] = {} /\ \E j \in Tasks : Resetting(task[j], p) \/ Deleting(task[j], p)

VisibleInv(p) == \A j \in Tasks : FoundVisible(task[j], p) => row[p].visible

HoldInv(p) ==
  Exists(p) /\ ~row[p].visible =>
    \/ \A f \in faces[p] : f.held # Never
    \/ \E j \in Tasks : Showing(task[j], p) \/ Holding(task[j], p)

PhotoInv(p) == Uniform(p) /\ InsertionInv(p) /\ StampInv(p) /\ VisibleInv(p) /\ HoldInv(p)

PhotosInv == \A p \in Photos \ disturbed : PhotoInv(p)

IInv == TypeOK /\ TasksInv /\ AloneInv /\ PresentInv /\ ListedInv /\ PhotosInv

-----------------------------------------------------------------------------
(* What a task is and works on.                                            *)

LEMMA IdleTask ==
  ASSUME TypeOK
  PROVE  Idle \in Task /\ TaskSound(Idle) /\ WorksOn(Idle) = {}
<1>1. Idle \in Task
  BY NumbersAssumption DEF Idle, Task, Kinds, PCs, Days
<1>2. today >= 0
  BY DEF TypeOK, Days
<1>3. TaskSound(Idle)
  BY <1>2 DEF TaskSound, PCsOf, Kinds, Idle, AtOnePhoto
<1>4. WorksOn(Idle) = {}
  BY DEF WorksOn, Idle
<1> QED
  BY <1>1, <1>3, <1>4

\* Who owes a photo something works on it.
LEMMA RolesWork ==
  ASSUME NEW t \in Task, NEW p \in Photos
  PROVE  /\ Inserting(t, p) => p \in WorksOn(t)
         /\ Resetting(t, p) => p \in WorksOn(t)
         /\ Deleting(t, p) => p \in WorksOn(t)
         /\ Showing(t, p) => p \in WorksOn(t)
         /\ Holding(t, p) => p \in WorksOn(t)
  BY PhotosAssumption DEF Inserting, Resetting, Deleting, Showing, Holding, WorksOn

\* A kind of task is only ever at its own program counters.
LEMMA KindsAtPCs ==
  ASSUME NEW t \in Task, TaskSound(t)
  PROVE  /\ t.pc = "insert" => t.kind \in {"add", "patchAdd", "approve", "capture", "sweep"}
         /\ t.pc = "restore" => t.kind \in {"add", "patchAdd"}
         /\ t.pc = "index" => t.kind \in {"add", "patchAdd", "sweep"}
         /\ t.pc \in {"detect", "clear"} =>
              t.kind \in {"add", "patchAdd", "approve", "capture", "sweep"}
         /\ t.pc = "detect" => t.kind # "capture"
         /\ t.pc = "addUpdate" => t.kind = "add"
         /\ t.pc = "patchUpdate" => t.kind = "patchAdd"
         /\ t.pc = "approveUpdate" => t.kind = "approve"
         /\ t.pc = "hold" <=> t.kind = "remove"
         /\ t.pc \in {"deleteFaces", "deleteRow"} <=> t.kind = "delete"
         /\ t.pc \in {"purge", "count", "reset"} <=> t.kind = "retention"
<1>1. t.kind \in Kinds /\ t.pc \in PCsOf[t.kind]
  BY DEF Task, TaskSound
<1> QED
  BY <1>1 DEF Kinds, PCsOf

-----------------------------------------------------------------------------
(* The two ways a task changes, and what they mean for the locals.         *)

\* j goes on with what it works on, or drops some of it.
Moves(j) ==
  /\ task' = [task EXCEPT ![j] = task'[j]]
  /\ task'[j] \in Task /\ TaskSound(task'[j])
  /\ WorksOn(task'[j]) \subseteq WorksOn(task[j])
  /\ task'[j].kind = task[j].kind \/ task'[j] = Idle
  /\ task'[j].pc # "purge"
  /\ disturbed' = disturbed /\ today' = today /\ crashes' = crashes

\* j takes up work.
Begins(j) ==
  /\ task[j] = Idle
  /\ task' = [task EXCEPT ![j] = task'[j]]
  /\ task'[j] \in Task /\ TaskSound(task'[j])
  /\ disturbed' = disturbed \cup Clashes(task')
  /\ today' = today /\ crashes' = crashes

LEMMA MovesKeepsLocals ==
  ASSUME TypeOK, TasksInv, AloneInv, PresentInv, NEW j \in Tasks, Moves(j),
         \A p \in Photos \ disturbed : \A k \in Tasks :
           p \in WorksOn(task'[k]) /\ Exists(p) => Exists(p)'
  PROVE  /\ task' \in [Tasks -> Task] /\ today' \in Days /\ crashes' \in 0..MaxCrashes
         /\ disturbed' \subseteq Photos
         /\ \A k \in Tasks : k # j => task'[k] = task[k]
         /\ TasksInv' /\ AloneInv' /\ PresentInv'
<1>1. /\ task' \in [Tasks -> Task] /\ today' \in Days /\ crashes' \in 0..MaxCrashes
      /\ disturbed' \subseteq Photos
  BY DEF TypeOK, Moves
<1>2. \A k \in Tasks : k # j => task'[k] = task[k]
  BY DEF TypeOK, Moves
<1>3. TasksInv'
  BY <1>2 DEF TasksInv, TaskSound, Moves
<1>4. \A k \in Tasks : /\ WorksOn(task'[k]) \subseteq WorksOn(task[k])
                       /\ task'[k].kind = task[k].kind \/ WorksOn(task'[k]) = {}
  BY <1>2, IdleTask DEF Moves
<1>5. AloneInv'
  BY <1>4 DEF AloneInv, Moves, WorksOn
<1>6. PresentInv'
  <2>1. SUFFICES ASSUME NEW p \in Photos \ disturbed, NEW k \in Tasks, p \in WorksOn(task'[k])
                 PROVE  Exists(p)'
    BY DEF PresentInv, Moves, WorksOn
  <2>2. p \in WorksOn(task[k])
    BY <1>4, <2>1
  <2> QED
    BY <2>1, <2>2 DEF PresentInv
<1> QED
  BY <1>1, <1>2, <1>3, <1>5, <1>6

LEMMA BeginsKeepsLocals ==
  ASSUME TypeOK, TasksInv, AloneInv, PresentInv, NEW j \in Tasks, Begins(j),
         \A p \in Photos : Exists(p) => Exists(p)',
         \A p \in Photos : p \in WorksOn(task'[j]) => Exists(p)'
  PROVE  /\ task' \in [Tasks -> Task] /\ today' \in Days /\ crashes' \in 0..MaxCrashes
         /\ disturbed' \subseteq Photos
         /\ \A k \in Tasks : k # j => task'[k] = task[k]
         /\ TasksInv' /\ AloneInv' /\ PresentInv'
<1>1. /\ task' \in [Tasks -> Task] /\ today' \in Days /\ crashes' \in 0..MaxCrashes
      /\ disturbed' \subseteq Photos
  BY DEF TypeOK, Begins, Clashes
<1>2. \A k \in Tasks : k # j => task'[k] = task[k]
  BY DEF TypeOK, Begins
<1>3. TasksInv'
  BY <1>2 DEF TasksInv, TaskSound, Begins
<1>4. AloneInv'
  <2>1. SUFFICES ASSUME NEW p \in Photos \ disturbed', NEW i \in Tasks, NEW k \in Tasks, i # k,
                        p \in WorksOn(task'[i]), p \in WorksOn(task'[k])
                 PROVE  task'[i].kind \notin {"remove", "delete"}
    BY DEF AloneInv, WorksOn
  <2>2. p \notin Clashes(task')
    BY <2>1 DEF Begins
  <2> QED
    BY <2>1, <2>2 DEF Clashes
<1>5. PresentInv'
  <2>1. SUFFICES ASSUME NEW p \in Photos \ disturbed', NEW k \in Tasks, p \in WorksOn(task'[k])
                 PROVE  Exists(p)'
    BY DEF PresentInv, WorksOn
  <2>2. p \in Photos \ disturbed
    BY <2>1 DEF Begins
  <2> QED
    BY <2>1, <2>2, <1>2 DEF PresentInv
<1> QED
  BY <1>1, <1>2, <1>3, <1>4, <1>5

\* No step makes a purge take more than it listed.
LEMMA ListedKept ==
  ASSUME TypeOK, TasksInv, ListedInv, today' = today,
         \A p \in Photos : \A f \in faces'[p] :
           f \in faces[p] \/ f.held = Never \/ f.held = today,
         \A j \in Tasks : task'[j].pc = "purge" => task'[j] = task[j]
  PROVE  ListedInv'
<1>1. SUFFICES ASSUME NEW j \in Tasks, task'[j].pc = "purge", NEW p \in Photos,
                      NEW f \in faces'[p], HoldOver(f, task'[j].since)
               PROVE  p \in task'[j].batch
  BY DEF ListedInv, At, HoldOver
<1>2. task'[j] = task[j]
  BY <1>1
<1>3. task[j].since <= today /\ task[j].since \in Nat /\ today \in Nat
  BY DEF TypeOK, TasksInv, TaskSound, Task, Days
<1>4. f \in faces[p]
  BY <1>1, <1>2, <1>3, NumbersAssumption DEF HoldOver
<1> QED
  BY <1>1, <1>2, <1>4 DEF ListedInv, At

-----------------------------------------------------------------------------
(* A photo whose faces a step leaves alone.                                *)

LEMMA FacesLeftAlone ==
  ASSUME TypeOK, NEW p \in Photos, PhotoInv(p), faces'[p] = faces[p],
         row'[p].exists = row[p].exists,
         row'[p].indexed => row[p].indexed,
         row[p].visible => row'[p].visible,
         \A k \in Tasks :
           /\ Inserting(task'[k], p) <=> Inserting(task[k], p)
           /\ Inserting(task[k], p) => task'[k].left = task[k].left
           /\ Resetting(task[k], p) \/ Deleting(task[k], p) =>
                \/ Resetting(task'[k], p) \/ Deleting(task'[k], p)
                \/ ~row'[p].indexed \/ faces[p] # {}
           /\ Showing(task[k], p) => Showing(task'[k], p) \/ row'[p].visible
           /\ Holding(task[k], p) => Holding(task'[k], p)
           /\ FoundVisible(task'[k], p) => row'[p].visible
  PROVE  PhotoInv(p)'
<1>1. Uniform(p)'
  BY DEF PhotoInv, Uniform
<1>2. InsertionInv(p)'
  <2>1. SUFFICES ASSUME NEW j \in Tasks, Inserting(task'[j], p)
                 PROVE  /\ \A f \in faces'[p] : f.held = Never
                        /\ \E k \in Tasks :
                             /\ Inserting(task'[k], p)
                             /\ \A w \in People \ task'[k].left : \E f \in faces'[p] : f.of = w
    BY DEF InsertionInv, Inserting
  <2>2. Inserting(task[j], p)
    BY <2>1
  <2>3. /\ \A f \in faces[p] : f.held = Never
        /\ \E k \in Tasks : /\ Inserting(task[k], p)
                            /\ \A w \in People \ task[k].left : \E f \in faces[p] : f.of = w
    BY <2>2 DEF PhotoInv, InsertionInv
  <2> QED
    BY <2>3
<1>3. StampInv(p)'
  <2>1. SUFFICES ASSUME row'[p].exists, row'[p].indexed
                 PROVE  \/ Complete(p)
                        \/ \E j \in Tasks : Inserting(task'[j], p)
                        \/ /\ faces[p] = {}
                           /\ \E j \in Tasks : Resetting(task'[j], p) \/ Deleting(task'[j], p)
    BY DEF StampInv, Exists, Complete, Inserting, Resetting, Deleting
  <2>2. \/ Complete(p)
        \/ \E j \in Tasks : Inserting(task[j], p)
        \/ /\ faces[p] = {}
           /\ \E j \in Tasks : Resetting(task[j], p) \/ Deleting(task[j], p)
    BY <2>1 DEF PhotoInv, StampInv, Exists
  <2> QED
    BY <2>1, <2>2
<1>4. VisibleInv(p)'
  BY DEF VisibleInv, FoundVisible, WorksOn
<1>5. HoldInv(p)'
  <2>1. SUFFICES ASSUME row'[p].exists, ~row'[p].visible
                 PROVE  \/ \A f \in faces[p] : f.held # Never
                        \/ \E j \in Tasks : Showing(task'[j], p) \/ Holding(task'[j], p)
    BY DEF HoldInv, Exists, Showing, Holding
  <2>2. \/ \A f \in faces[p] : f.held # Never
        \/ \E j \in Tasks : Showing(task[j], p) \/ Holding(task[j], p)
    BY <2>1 DEF PhotoInv, HoldInv, Exists
  <2> QED
    BY <2>1, <2>2
<1> QED
  BY <1>1, <1>2, <1>3, <1>4, <1>5 DEF PhotoInv

\* The same, where one task moves.
LEMMA FacesLeftAloneBy ==
  ASSUME TypeOK, NEW p \in Photos, PhotoInv(p), faces'[p] = faces[p],
         row'[p].exists = row[p].exists,
         row'[p].indexed => row[p].indexed,
         row[p].visible => row'[p].visible,
         NEW j \in Tasks, \A k \in Tasks : k # j => task'[k] = task[k],
         Inserting(task'[j], p) <=> Inserting(task[j], p),
         Inserting(task[j], p) => task'[j].left = task[j].left,
         Resetting(task[j], p) \/ Deleting(task[j], p) =>
           \/ Resetting(task'[j], p) \/ Deleting(task'[j], p)
           \/ ~row'[p].indexed \/ faces[p] # {},
         Showing(task[j], p) => Showing(task'[j], p) \/ row'[p].visible,
         Holding(task[j], p) => Holding(task'[j], p),
         FoundVisible(task'[j], p) => row'[p].visible
  PROVE  PhotoInv(p)'
<1>1. ASSUME NEW k \in Tasks
      PROVE  /\ Inserting(task'[k], p) <=> Inserting(task[k], p)
             /\ Inserting(task[k], p) => task'[k].left = task[k].left
             /\ Resetting(task[k], p) \/ Deleting(task[k], p) =>
                  \/ Resetting(task'[k], p) \/ Deleting(task'[k], p)
                  \/ ~row'[p].indexed \/ faces[p] # {}
             /\ Showing(task[k], p) => Showing(task'[k], p) \/ row'[p].visible
             /\ Holding(task[k], p) => Holding(task'[k], p)
             /\ FoundVisible(task'[k], p) => row'[p].visible
  <2>1. CASE k = j
    BY <2>1
  <2>2. CASE k # j
    <3>1. task'[k] = task[k]
      BY <2>2
    <3>2. FoundVisible(task[k], p) => row[p].visible
      BY DEF PhotoInv, VisibleInv
    <3> QED
      BY <3>1, <3>2
  <2> QED
    BY <2>1, <2>2
<1> QED
  BY <1>1, FacesLeftAlone

-----------------------------------------------------------------------------
(* Steps that change flags and locals only.                                *)

LEMMA FlagsMove ==
  ASSUME IInv, NEW j \in Tasks, Moves(j), faces' = faces, row' \in [Photos -> Row],
         \A p \in Photos : /\ row'[p].exists = row[p].exists
                           /\ row'[p].indexed => row[p].indexed
                           /\ row[p].visible => row'[p].visible,
         \A p \in Photos \ disturbed :
           /\ Inserting(task'[j], p) <=> Inserting(task[j], p)
           /\ Inserting(task[j], p) => task'[j].left = task[j].left
           /\ Resetting(task[j], p) \/ Deleting(task[j], p) =>
                \/ Resetting(task'[j], p) \/ Deleting(task'[j], p)
                \/ ~row'[p].indexed \/ faces[p] # {}
           /\ Showing(task[j], p) => Showing(task'[j], p) \/ row'[p].visible
           /\ Holding(task[j], p) => Holding(task'[j], p)
           /\ FoundVisible(task'[j], p) => row'[p].visible
  PROVE  IInv'
<1>1. \A p \in Photos : Exists(p)' = Exists(p)
  BY DEF Exists
<1>2. /\ task' \in [Tasks -> Task] /\ today' \in Days /\ crashes' \in 0..MaxCrashes
      /\ disturbed' \subseteq Photos
      /\ \A k \in Tasks : k # j => task'[k] = task[k]
      /\ TasksInv' /\ AloneInv' /\ PresentInv'
  BY <1>1, MovesKeepsLocals DEF IInv
<1>3. TypeOK'
  BY <1>1, <1>2 DEF IInv, TypeOK
<1>4. ListedInv'
  <2>1. \A k \in Tasks : task'[k].pc = "purge" => task'[k] = task[k]
    BY <1>2 DEF Moves
  <2> QED
    BY <2>1, ListedKept DEF IInv, Moves
<1>5. PhotosInv'
  <2>1. SUFFICES ASSUME NEW p \in Photos \ disturbed
                 PROVE  PhotoInv(p)'
    BY DEF PhotosInv, Moves
  <2>2. PhotoInv(p)
    BY DEF IInv, PhotosInv
  <2> QED
    BY <1>2, <2>2, FacesLeftAloneBy DEF IInv
<1> QED
  BY <1>2, <1>3, <1>4, <1>5 DEF IInv

LEMMA PlainBegin ==
  ASSUME IInv, NEW j \in Tasks, Begins(j), row' = row, faces' = faces,
         task'[j].pc # "insert",
         task'[j].pc = "purge" => \A p \in Photos : \A f \in faces[p] :
           HoldOver(f, task'[j].since) => p \in task'[j].batch,
         \A p \in Photos : p \in WorksOn(task'[j]) => Exists(p),
         \A p \in Photos \ disturbed : FoundVisible(task'[j], p) => row[p].visible
  PROVE  IInv'
<1>1. \A p \in Photos : Exists(p)' = Exists(p)
  BY DEF Exists
<1>2. /\ task' \in [Tasks -> Task] /\ today' \in Days /\ crashes' \in 0..MaxCrashes
      /\ disturbed' \subseteq Photos
      /\ \A k \in Tasks : k # j => task'[k] = task[k]
      /\ TasksInv' /\ AloneInv' /\ PresentInv'
  BY <1>1, BeginsKeepsLocals DEF IInv
<1>3. TypeOK'
  BY <1>1, <1>2 DEF IInv, TypeOK
<1>4. ListedInv'
  <2>1. SUFFICES ASSUME NEW k \in Tasks, task'[k].pc = "purge", NEW p \in Photos,
                        NEW f \in faces[p], HoldOver(f, task'[k].since)
                 PROVE  p \in task'[k].batch
    BY DEF ListedInv, At, HoldOver
  <2>2. CASE k = j
    BY <2>1, <2>2
  <2>3. CASE k # j
    BY <2>1, <2>3, <1>2 DEF IInv, ListedInv, At
  <2> QED
    BY <2>2, <2>3
<1>5. PhotosInv'
  <2>1. SUFFICES ASSUME NEW p \in Photos \ disturbed
                 PROVE  PhotoInv(p)'
    BY DEF PhotosInv, Begins
  <2>2. PhotoInv(p)
    BY DEF IInv, PhotosInv
  <2>3. /\ ~Inserting(task[j], p) /\ ~Resetting(task[j], p) /\ ~Deleting(task[j], p)
        /\ ~Showing(task[j], p) /\ ~Holding(task[j], p) /\ ~Inserting(task'[j], p)
    BY DEF Begins, Idle, Inserting, Resetting, Deleting, Showing, Holding
  <2> QED
    BY <1>2, <2>2, <2>3, FacesLeftAloneBy DEF IInv
<1> QED
  BY <1>2, <1>3, <1>4, <1>5 DEF IInv

LEMMA MyTask ==
  ASSUME IInv, NEW j \in Tasks
  PROVE  /\ task \in [Tasks -> Task] /\ task[j] \in Task /\ TaskSound(task[j])
         /\ Idle \in Task /\ TaskSound(Idle) /\ WorksOn(Idle) = {}
  BY IdleTask DEF IInv, TypeOK, TasksInv

LEMMA FinishMoves ==
  ASSUME IInv, NEW j \in Tasks, Finish(j), UNCHANGED <<disturbed, today, crashes>>
  PROVE  Moves(j) /\ task'[j] = Idle
  BY MyTask DEF Finish, Moves, Idle

LEMMA IdleOwes ==
  ASSUME NEW p \in Photos
  PROVE  /\ ~Inserting(Idle, p) /\ ~Resetting(Idle, p) /\ ~Deleting(Idle, p)
         /\ ~Showing(Idle, p) /\ ~Holding(Idle, p) /\ ~FoundVisible(Idle, p)
  BY PhotosAssumption
     DEF Inserting, Resetting, Deleting, Showing, Holding, FoundVisible, Idle, WorksOn

\* A task that owes nothing may end.
LEMMA PlainEnd ==
  ASSUME IInv, NEW j \in Tasks, Finish(j), UNCHANGED <<row, faces, disturbed, today, crashes>>,
         \A p \in Photos \ disturbed :
           /\ ~Inserting(task[j], p) /\ ~Showing(task[j], p) /\ ~Holding(task[j], p)
           /\ Resetting(task[j], p) \/ Deleting(task[j], p) => faces[p] # {}
  PROVE  IInv'
<1>1. Moves(j) /\ task'[j] = Idle
  BY FinishMoves
<1>2. row' \in [Photos -> Row]
  BY DEF IInv, TypeOK
<1> QED
  BY <1>1, <1>2, IdleOwes, FlagsMove

LEMMA IndexNextStep ==
  ASSUME IInv, NEW j \in Tasks, NEW p0 \in Photos, IndexNext(j, p0)
  PROVE  IInv'
<1>0. task[j].pc = "index" /\ p0 \in task[j].todo
  BY DEF IndexNext, At
<1>1. PICK here \in BOOLEAN : here = (Exists(p0) /\ p0 \notin Videos)
  BY Zenon
<1>2. /\ task[j] \in Task /\ TaskSound(task[j]) /\ task \in [Tasks -> Task]
      /\ row \in [Photos -> Row]
  BY MyTask DEF IInv, TypeOK
<1>3. task[j].kind \in {"add", "sweep"}
  BY <1>0, <1>2, KindsAtPCs DEF TaskSound
<1>4. /\ task' = [task EXCEPT ![j] = task'[j]]
      /\ task'[j] = [task[j] EXCEPT !.todo = @ \ {p0}, !.pc = IF here THEN "detect" ELSE "index",
                                    !.cur = IF here THEN p0 ELSE NoPhoto, !.left = People]
  BY <1>1, <1>2 DEF IndexNext
<1>5. /\ task'[j] \in Task
      /\ task'[j].kind = task[j].kind /\ task'[j].batch = task[j].batch
      /\ task'[j].since = task[j].since /\ task'[j].todo = task[j].todo \ {p0}
      /\ task'[j].left = People
      /\ \/ task'[j].pc = "detect" /\ task'[j].cur = p0
         \/ task'[j].pc = "index" /\ task'[j].cur = NoPhoto
  <2>1. CASE here
    <3>1. task'[j] = [task[j] EXCEPT !.todo = @ \ {p0}, !.pc = "detect", !.cur = p0, !.left = People]
      BY <1>4, <2>1
    <3> QED
      BY ZenonT(40), <1>2, <3>1 DEF Task, PCs
  <2>2. CASE ~here
    <3>1. task'[j] = [task[j] EXCEPT !.todo = @ \ {p0}, !.pc = "index", !.cur = NoPhoto,
                                     !.left = People]
      BY <1>4, <2>2
    <3> QED
      BY <1>2, <3>1 DEF Task, PCs
  <2> QED
    BY <1>1, <2>1, <2>2
<1>6. TaskSound(task'[j])
  BY <1>2, <1>3, <1>5 DEF TaskSound, PCsOf, Kinds, AtOnePhoto, Idle
<1>7. WorksOn(task'[j]) \subseteq WorksOn(task[j])
  BY <1>0, <1>5 DEF WorksOn
<1>8. Moves(j)
  BY <1>4, <1>5, <1>6, <1>7 DEF Moves, IndexNext
<1>9. \A p \in Photos :
        /\ ~Inserting(task'[j], p) /\ ~Inserting(task[j], p)
        /\ ~Resetting(task[j], p) /\ ~Deleting(task[j], p)
        /\ ~Showing(task[j], p) /\ ~Holding(task[j], p)
        /\ FoundVisible(task'[j], p) => FoundVisible(task[j], p)
  BY <1>0, <1>3, <1>5, <1>7
     DEF Inserting, Resetting, Deleting, Showing, Holding, FoundVisible
<1>10. \A p \in Photos \ disturbed : FoundVisible(task[j], p) => row[p].visible
  BY DEF IInv, PhotosInv, PhotoInv, VisibleInv
<1> QED
  BY <1>2, <1>8, <1>9, <1>10, FlagsMove DEF IndexNext

LEMMA DetectOkStep ==
  ASSUME IInv, NEW j \in Tasks, NEW p0 \in Photos, DetectOk(j, p0)
  PROVE  IInv'
<1>2. /\ task[j] \in Task /\ TaskSound(task[j]) /\ task \in [Tasks -> Task]
      /\ row \in [Photos -> Row] /\ task[j].pc = "detect"
  BY MyTask DEF IInv, TypeOK, DetectOk, At
<1>3. task[j].kind \in {"add", "patchAdd", "approve", "sweep"}
  BY <1>2, KindsAtPCs
<1>4. /\ task' = [task EXCEPT ![j] = task'[j]]
      /\ task'[j] = [task[j] EXCEPT !.pc = "clear"]
  BY <1>2 DEF DetectOk, Goto
<1>5. /\ task'[j] \in Task
      /\ task'[j].kind = task[j].kind /\ task'[j].batch = task[j].batch
      /\ task'[j].since = task[j].since /\ task'[j].todo = task[j].todo
      /\ task'[j].left = task[j].left /\ task'[j].cur = task[j].cur /\ task'[j].pc = "clear"
  BY <1>2, <1>4 DEF Task, PCs
<1>6. TaskSound(task'[j])
  BY <1>2, <1>3, <1>5 DEF TaskSound, PCsOf, Kinds, AtOnePhoto, Idle
<1>7. WorksOn(task'[j]) = WorksOn(task[j])
  BY <1>5 DEF WorksOn
<1>8. Moves(j)
  BY <1>4, <1>5, <1>6, <1>7 DEF Moves, DetectOk
<1>9. \A p \in Photos :
        /\ ~Inserting(task'[j], p) /\ ~Inserting(task[j], p)
        /\ ~Resetting(task[j], p) /\ ~Deleting(task[j], p)
        /\ ~Showing(task[j], p) /\ ~Holding(task[j], p)
        /\ FoundVisible(task'[j], p) => FoundVisible(task[j], p)
  BY <1>2, <1>3, <1>5, <1>7
     DEF Inserting, Resetting, Deleting, Showing, Holding, FoundVisible
<1>10. \A p \in Photos \ disturbed : FoundVisible(task[j], p) => row[p].visible
  BY DEF IInv, PhotosInv, PhotoInv, VisibleInv
<1> QED
  BY <1>2, <1>8, <1>9, <1>10, FlagsMove DEF DetectOk

\* The loop goes on with its next photo, or the handler ends, after an error.
LEMMA LoopsOn ==
  ASSUME IInv, NEW j \in Tasks, Looping(j), task[j].pc \in {"detect", "insert"},
         task' = [task EXCEPT ![j].pc = "index", ![j].cur = NoPhoto],
         UNCHANGED <<disturbed, today, crashes>>
  PROVE  /\ Moves(j) /\ task'[j].pc = "index"
         /\ \A p \in Photos : FoundVisible(task'[j], p) => FoundVisible(task[j], p)
<1>1. task[j] \in Task /\ TaskSound(task[j]) /\ task \in [Tasks -> Task]
  BY MyTask
<1>2. /\ task' = [task EXCEPT ![j] = task'[j]]
      /\ task'[j] = [task[j] EXCEPT !.pc = "index", !.cur = NoPhoto]
  BY <1>1
<1>3. /\ task'[j] \in Task
      /\ task'[j].kind = task[j].kind /\ task'[j].batch = task[j].batch
      /\ task'[j].since = task[j].since /\ task'[j].todo = task[j].todo
      /\ task'[j].left = task[j].left /\ task'[j].cur = NoPhoto /\ task'[j].pc = "index"
  BY <1>1, <1>2 DEF Task, PCs
<1>4. TaskSound(task'[j])
  BY <1>1, <1>3 DEF TaskSound, PCsOf, Kinds, AtOnePhoto, Idle, Looping
<1>5. WorksOn(task'[j]) \subseteq WorksOn(task[j])
  BY <1>3 DEF WorksOn
<1> QED
  BY <1>2, <1>3, <1>4, <1>5 DEF Moves, FoundVisible, Looping

LEMMA FailsMoves ==
  ASSUME IInv, NEW j \in Tasks, Fails(j), task[j].pc \in {"detect", "insert"},
         UNCHANGED <<disturbed, today, crashes>>
  PROVE  /\ Moves(j)
         /\ \A p \in Photos : /\ ~Inserting(task'[j], p)
                              /\ FoundVisible(task'[j], p) => FoundVisible(task[j], p)
<1>1. CASE Looping(j)
  BY <1>1, LoopsOn DEF Fails, Inserting
<1>2. CASE ~Looping(j)
  <2>1. Moves(j) /\ task'[j] = Idle
    BY <1>2, FinishMoves DEF Fails
  <2> QED
    BY <2>1, IdleOwes
<1> QED
  BY <1>1, <1>2

LEMMA DetectFailsStep ==
  ASSUME IInv, NEW j \in Tasks, DetectFails(j)
  PROVE  IInv'
<1>1. task[j].pc = "detect" /\ row \in [Photos -> Row] /\ task[j].kind # "remove"
  BY MyTask, KindsAtPCs DEF DetectFails, At, IInv, TypeOK
<1>2. /\ Moves(j)
      /\ \A p \in Photos : /\ ~Inserting(task'[j], p)
                           /\ FoundVisible(task'[j], p) => FoundVisible(task[j], p)
  BY <1>1, FailsMoves DEF DetectFails
<1>3. \A p \in Photos :
        /\ ~Inserting(task[j], p) /\ ~Resetting(task[j], p) /\ ~Deleting(task[j], p)
        /\ ~Showing(task[j], p) /\ ~Holding(task[j], p)
  BY <1>1 DEF Inserting, Resetting, Deleting, Showing, Holding
<1>4. \A p \in Photos \ disturbed : FoundVisible(task[j], p) => row[p].visible
  BY DEF IInv, PhotosInv, PhotoInv, VisibleInv
<1> QED
  BY <1>1, <1>2, <1>3, <1>4, FlagsMove DEF DetectFails

LEMMA IndexLoopEndsStep ==
  ASSUME IInv, NEW j \in Tasks, IndexLoopEnds(j)
  PROVE  IInv'
<1>1. task[j].pc = "index" /\ task[j].kind # "remove"
  BY MyTask, KindsAtPCs DEF IndexLoopEnds, At
<1>2. \A p \in Photos :
        /\ ~Inserting(task[j], p) /\ ~Resetting(task[j], p) /\ ~Deleting(task[j], p)
        /\ ~Showing(task[j], p) /\ ~Holding(task[j], p)
  BY <1>1 DEF Inserting, Resetting, Deleting, Showing, Holding
<1> QED
  BY <1>2, PlainEnd DEF IndexLoopEnds

LEMMA RemoveEndsStep ==
  ASSUME IInv, NEW j \in Tasks, RemoveEnds(j)
  PROVE  IInv'
<1>1. task[j].pc = "hold" /\ task[j].kind = "remove" /\ task[j].batch = {}
  BY MyTask, KindsAtPCs DEF RemoveEnds, At
<1>2. \A p \in Photos :
        /\ ~Inserting(task[j], p) /\ ~Resetting(task[j], p) /\ ~Deleting(task[j], p)
        /\ ~Showing(task[j], p) /\ ~Holding(task[j], p)
  BY <1>1 DEF Inserting, Resetting, Deleting, Showing, Holding
<1> QED
  BY <1>2, PlainEnd DEF RemoveEnds

LEMMA RetentionEndsStep ==
  ASSUME IInv, NEW j \in Tasks, RetentionEnds(j)
  PROVE  IInv'
<1>1. task[j].pc = "count" /\ task[j].kind = "retention" /\ task[j].todo = {}
  BY MyTask, KindsAtPCs DEF RetentionEnds, At
<1>2. \A p \in Photos :
        /\ ~Inserting(task[j], p) /\ ~Resetting(task[j], p) /\ ~Deleting(task[j], p)
        /\ ~Showing(task[j], p) /\ ~Holding(task[j], p)
  BY <1>1 DEF Inserting, Resetting, Deleting, Showing, Holding
<1> QED
  BY <1>2, PlainEnd DEF RetentionEnds

LEMMA StartIndexJobStep ==
  ASSUME IInv, NEW j \in Tasks, StartIndexJob(j)
  PROVE  IInv'
<1>1. /\ task[j].pc = "restore" /\ task[j].kind \in {"add", "patchAdd"}
      /\ task[j] \in Task /\ TaskSound(task[j]) /\ task \in [Tasks -> Task]
      /\ row \in [Photos -> Row]
  BY MyTask, KindsAtPCs DEF StartIndexJob, At, IInv, TypeOK
<1>2. PICK S \in SUBSET Photos : S = Candidates(task[j].batch)
  BY <1>1 DEF Candidates, Task
<1>3. S \subseteq task[j].batch
  BY <1>2 DEF Candidates
<1>4. /\ task' = [task EXCEPT ![j] = task'[j]]
      /\ task'[j] = [task[j] EXCEPT !.pc = "index", !.batch = {}, !.todo = S]
  BY <1>1, <1>2 DEF StartIndexJob
<1>5. /\ task'[j] \in Task
      /\ task'[j].kind = task[j].kind /\ task'[j].batch = {}
      /\ task'[j].since = task[j].since /\ task'[j].todo = S
      /\ task'[j].left = task[j].left /\ task'[j].cur = task[j].cur /\ task'[j].pc = "index"
  BY <1>1, <1>4 DEF Task, PCs
<1>6. TaskSound(task'[j])
  BY <1>1, <1>3, <1>5 DEF TaskSound, PCsOf, Kinds, AtOnePhoto, Idle
<1>7. WorksOn(task'[j]) \subseteq WorksOn(task[j])
  BY <1>3, <1>5 DEF WorksOn
<1>8. Moves(j)
  BY <1>4, <1>5, <1>6, <1>7 DEF Moves, StartIndexJob
<1>9. \A p \in Photos :
        /\ ~Inserting(task'[j], p) /\ ~Inserting(task[j], p)
        /\ ~Resetting(task[j], p) /\ ~Deleting(task[j], p)
        /\ ~Showing(task[j], p) /\ ~Holding(task[j], p)
        /\ FoundVisible(task'[j], p) => FoundVisible(task[j], p)
  BY <1>1, <1>5, <1>7 DEF Inserting, Resetting, Deleting, Showing, Holding, FoundVisible
<1>10. \A p \in Photos \ disturbed : FoundVisible(task[j], p) => row[p].visible
  BY DEF IInv, PhotosInv, PhotoInv, VisibleInv
<1> QED
  BY <1>1, <1>8, <1>9, <1>10, FlagsMove DEF StartIndexJob

LEMMA CountFacesStep ==
  ASSUME IInv, NEW j \in Tasks, CountFaces(j)
  PROVE  IInv'
<1>1. /\ task[j].pc = "count" /\ task[j].kind = "retention"
      /\ task[j] \in Task /\ TaskSound(task[j]) /\ task \in [Tasks -> Task]
      /\ row \in [Photos -> Row]
  BY MyTask, KindsAtPCs DEF CountFaces, At, IInv, TypeOK
<1>2. PICK q \in task[j].todo :
        task' = [task EXCEPT ![j].todo = @ \ {q}, ![j].cur = IF faces[q] = {} THEN q ELSE NoPhoto,
                             ![j].pc = IF faces[q] = {} THEN "reset" ELSE "count"]
  BY DEF CountFaces
<1>3. q \in Photos
  BY <1>1, <1>2 DEF Task
<1>4. task' = [task EXCEPT ![j] = task'[j]]
  BY <1>1, <1>2
<1>5. /\ task'[j] \in Task
      /\ task'[j].kind = task[j].kind /\ task'[j].batch = task[j].batch
      /\ task'[j].since = task[j].since /\ task'[j].todo = task[j].todo \ {q}
      /\ task'[j].left = task[j].left
      /\ \/ faces[q] = {} /\ task'[j].cur = q /\ task'[j].pc = "reset"
         \/ faces[q] # {} /\ task'[j].cur = NoPhoto /\ task'[j].pc = "count"
  <2>1. CASE faces[q] = {}
    <3>1. task'[j] = [task[j] EXCEPT !.todo = @ \ {q}, !.cur = q, !.pc = "reset"]
      BY <1>1, <1>2, <2>1
    <3> QED
      BY <1>1, <1>3, <2>1, <3>1 DEF Task, PCs
  <2>2. CASE faces[q] # {}
    <3>1. task'[j] = [task[j] EXCEPT !.todo = @ \ {q}, !.cur = NoPhoto, !.pc = "count"]
      BY <1>1, <1>2, <2>2
    <3> QED
      BY <1>1, <1>3, <2>2, <3>1 DEF Task, PCs
  <2> QED
    BY <2>1, <2>2
<1>6. TaskSound(task'[j])
  BY <1>1, <1>3, <1>5 DEF TaskSound, PCsOf, Kinds, AtOnePhoto, Idle
<1>7. WorksOn(task'[j]) \subseteq WorksOn(task[j])
  BY <1>2, <1>5 DEF WorksOn
<1>8. Moves(j)
  BY <1>4, <1>5, <1>6, <1>7 DEF Moves, CountFaces
<1>9. \A p \in Photos :
        /\ ~Inserting(task'[j], p) /\ ~Inserting(task[j], p)
        /\ Resetting(task[j], p) \/ Deleting(task[j], p) =>
             Resetting(task'[j], p) \/ faces[p] # {}
        /\ ~Showing(task[j], p) /\ ~Holding(task[j], p) /\ ~FoundVisible(task'[j], p)
  <2>1. \A p \in Photos :
          /\ ~Inserting(task'[j], p) /\ ~Inserting(task[j], p)
          /\ ~Showing(task[j], p) /\ ~Holding(task[j], p) /\ ~FoundVisible(task'[j], p)
          /\ ~Deleting(task[j], p)
    BY <1>1, <1>5 DEF Inserting, Deleting, Showing, Holding, FoundVisible
  <2>2. ASSUME NEW p \in Photos, Resetting(task[j], p), faces[p] = {}
        PROVE  Resetting(task'[j], p)
    <3>1. p \in task[j].todo
      BY <1>1, <2>2 DEF Resetting
    <3>2. CASE p = q
      BY <1>5, <2>2, <3>2 DEF Resetting
    <3>3. CASE p # q
      <4>1. p \in task'[j].todo
        BY <1>5, <3>1, <3>3
      <4> QED
        BY <1>5, <4>1 DEF Resetting
    <3> QED
      BY <3>2, <3>3
  <2> QED
    BY <2>1, <2>2
<1> QED
  BY <1>1, <1>8, <1>9, FlagsMove DEF CountFaces

-----------------------------------------------------------------------------
(* Steps that set flags.                                                   *)

LEMMA RowFields ==
  ASSUME TypeOK, NEW p \in Photos
  PROVE  /\ row[p] \in Row
         /\ row[p].exists \in BOOLEAN /\ row[p].visible \in BOOLEAN /\ row[p].approved \in BOOLEAN
         /\ row[p].archived \in BOOLEAN /\ row[p].indexed \in BOOLEAN
<1>1. row[p] \in Row
  BY DEF TypeOK
<1> QED
  BY <1>1 DEF Row

LEMMA Shown ==
  ASSUME TypeOK, NEW S, SetVisible(S, TRUE)
  PROVE  /\ row' \in [Photos -> Row]
         /\ \A p \in Photos : /\ row'[p].exists = row[p].exists
                              /\ row'[p].indexed => row[p].indexed
                              /\ row[p].visible => row'[p].visible
                              /\ p \in S /\ Exists(p) => row'[p].visible
<1>1. ASSUME NEW p \in Photos
      PROVE  /\ row'[p] \in Row /\ row'[p].exists = row[p].exists
             /\ row'[p].indexed = row[p].indexed
             /\ row[p].visible => row'[p].visible
             /\ p \in S /\ Exists(p) => row'[p].visible
  <2>1. CASE p \in S /\ Exists(p)
    <3>1. row'[p] = [row[p] EXCEPT !.visible = TRUE]
      BY <2>1 DEF SetVisible
    <3> QED
      BY <3>1, RowFields DEF Row
  <2>2. CASE ~(p \in S /\ Exists(p))
    <3>1. row'[p] = row[p]
      BY <2>2 DEF SetVisible
    <3> QED
      BY <2>2, <3>1, RowFields
  <2> QED
    BY <2>1, <2>2
<1>2. row' = [p \in Photos |-> row'[p]]
  BY DEF SetVisible
<1>3. row' \in [Photos -> Row]
  BY <1>1, <1>2
<1> QED
  BY <1>1, <1>3

\* prisma.photo.update of one photo to a row that still exists.
LEMMA Updated ==
  ASSUME TypeOK, NEW q \in Photos, NEW new \in Row, UpdateRow(q, new),
         Exists(q) => new.exists
  PROVE  /\ row' \in [Photos -> Row]
         /\ \A p \in Photos : row'[p].exists = row[p].exists
         /\ \A p \in Photos : p # q => row'[p] = row[p]
         /\ Exists(q) => row'[q] = new
         /\ ~Exists(q) => row' = row
<1>1. CASE Exists(q)
  <2>1. row' = [row EXCEPT ![q] = new] /\ row \in [Photos -> Row]
    BY <1>1 DEF UpdateRow, TypeOK
  <2>2. row'[q] = new /\ \A p \in Photos : p # q => row'[p] = row[p]
    BY <2>1
  <2>3. new.exists = row[q].exists
    BY <1>1, RowFields DEF Exists, Row
  <2> QED
    BY <1>1, <2>1, <2>2, <2>3
<1>2. CASE ~Exists(q)
  BY <1>2 DEF UpdateRow, TypeOK
<1> QED
  BY <1>1, <1>2

LEMMA AddUpdateStep ==
  ASSUME IInv, NEW j \in Tasks, AddUpdate(j)
  PROVE  IInv'
<1>1. /\ task[j].pc = "addUpdate" /\ task[j].kind = "add"
      /\ task[j] \in Task /\ TaskSound(task[j]) /\ task \in [Tasks -> Task]
      /\ task[j].todo = task[j].batch /\ task[j].cur = NoPhoto
  BY MyTask, KindsAtPCs DEF AddUpdate, At, TaskSound
<1>2. /\ task' = [task EXCEPT ![j] = task'[j]]
      /\ task'[j] = [task[j] EXCEPT !.pc = "restore"]
  BY <1>1 DEF AddUpdate, Goto
<1>3. /\ task'[j] \in Task
      /\ task'[j].kind = "add" /\ task'[j].batch = task[j].batch
      /\ task'[j].since = task[j].since /\ task'[j].todo = task[j].todo
      /\ task'[j].left = task[j].left /\ task'[j].cur = task[j].cur /\ task'[j].pc = "restore"
  BY <1>1, <1>2 DEF Task, PCs
<1>4. TaskSound(task'[j])
  BY <1>1, <1>3 DEF TaskSound, PCsOf, Kinds, AtOnePhoto, Idle
<1>5. WorksOn(task'[j]) = WorksOn(task[j]) /\ WorksOn(task[j]) = task[j].batch
  BY <1>1, <1>3 DEF WorksOn
<1>6. Moves(j)
  BY <1>2, <1>3, <1>4, <1>5 DEF Moves, AddUpdate
<1>7. /\ row' \in [Photos -> Row]
      /\ \A p \in Photos : /\ row'[p].exists = row[p].exists
                           /\ row'[p].indexed => row[p].indexed
                           /\ row[p].visible => row'[p].visible
                           /\ p \in task[j].batch /\ Exists(p) => row'[p].visible
  BY Shown DEF AddUpdate, IInv
<1>8. ASSUME NEW p \in Photos \ disturbed
      PROVE  /\ ~Inserting(task'[j], p) /\ ~Inserting(task[j], p)
             /\ ~Resetting(task[j], p) /\ ~Deleting(task[j], p)
             /\ ~Showing(task[j], p) /\ ~Holding(task[j], p)
             /\ FoundVisible(task'[j], p) => row'[p].visible
  <2>1. p \in WorksOn(task[j]) => Exists(p)
    BY DEF IInv, PresentInv
  <2>2. FoundVisible(task'[j], p) => row'[p].visible
    BY <1>5, <1>7, <2>1 DEF FoundVisible
  <2> QED
    BY <1>1, <1>3, <2>2 DEF Inserting, Resetting, Deleting, Showing, Holding
<1> QED
  BY <1>6, <1>7, <1>8, FlagsMove DEF AddUpdate

LEMMA PatchUpdateStep ==
  ASSUME IInv, NEW j \in Tasks, PatchUpdate(j)
  PROVE  IInv'
<1>1. /\ task[j].pc = "patchUpdate" /\ task[j].kind = "patchAdd"
      /\ task[j] \in Task /\ TaskSound(task[j]) /\ task \in [Tasks -> Task]
      /\ task[j].cur \in Photos
  BY MyTask, KindsAtPCs DEF PatchUpdate, At, TaskSound, AtOnePhoto
<1>2. PICK q \in Photos : q = task[j].cur
  BY <1>1
<1>3. /\ row' \in [Photos -> Row]
      /\ \A p \in Photos : /\ row'[p].exists = row[p].exists
                           /\ row'[p].indexed => row[p].indexed
                           /\ row[p].visible => row'[p].visible
                           /\ p \in {q} /\ Exists(p) => row'[p].visible
  <2>1. SetVisible({q}, TRUE)
    BY <1>2 DEF PatchUpdate, Cur
  <2> QED
    BY <2>1, Shown DEF IInv
<1>4. /\ Moves(j)
      /\ \A p \in Photos :
           /\ ~Inserting(task'[j], p)
           /\ FoundVisible(task'[j], p) => p = q /\ Exists(p)
  <2>1. CASE Exists(q)
    <3>1. /\ task' = [task EXCEPT ![j] = task'[j]]
          /\ task'[j] = [Idle EXCEPT !.kind = "patchAdd", !.pc = "restore", !.todo = {q}]
      BY <1>1, <1>2, <2>1 DEF PatchUpdate, Cur
    <3>2. /\ task'[j] \in Task
          /\ task'[j].kind = "patchAdd" /\ task'[j].batch = {}
          /\ task'[j].since = 0 /\ task'[j].todo = {q}
          /\ task'[j].left = {} /\ task'[j].cur = NoPhoto /\ task'[j].pc = "restore"
      <4>1. task'[j] = [kind |-> "patchAdd", pc |-> "restore", batch |-> {}, todo |-> {q},
                        cur |-> NoPhoto, left |-> {}, since |-> 0]
        BY <3>1 DEF Idle
      <4> QED
        BY <4>1, NumbersAssumption DEF Task, PCs, Kinds, Days
    <3>3. today \in Nat
      BY DEF IInv, TypeOK, Days
    <3>4. TaskSound(task'[j])
      BY <3>2, <3>3 DEF TaskSound, PCsOf, Kinds, AtOnePhoto, Idle
    <3>5. WorksOn(task'[j]) = {q} /\ q \in WorksOn(task[j])
      BY <1>2, <3>2, PhotosAssumption DEF WorksOn
    <3>6. Moves(j)
      BY <1>1, <3>1, <3>2, <3>4, <3>5 DEF Moves, PatchUpdate
    <3> QED
      BY <2>1, <3>2, <3>5, <3>6 DEF Inserting, FoundVisible
  <2>2. CASE ~Exists(q)
    <3>1. Moves(j) /\ task'[j] = Idle
      BY <1>2, <2>2, FinishMoves DEF PatchUpdate, Cur
    <3> QED
      BY <3>1, IdleOwes
  <2> QED
    BY <2>1, <2>2
<1>5. ASSUME NEW p \in Photos \ disturbed
      PROVE  /\ ~Inserting(task[j], p) /\ ~Resetting(task[j], p) /\ ~Deleting(task[j], p)
             /\ Showing(task[j], p) => row'[p].visible
             /\ ~Holding(task[j], p)
             /\ FoundVisible(task'[j], p) => row'[p].visible
  <2>1. Showing(task[j], p) => p = q /\ Exists(p)
    BY <1>2, RolesWork, <1>1 DEF Showing, IInv, PresentInv
  <2> QED
    BY <1>1, <1>3, <1>4, <2>1 DEF Inserting, Resetting, Deleting, Holding
<1> QED
  BY <1>3, <1>4, <1>5, FlagsMove DEF PatchUpdate

LEMMA ApproveUpdateStep ==
  ASSUME IInv, NEW j \in Tasks, ApproveUpdate(j)
  PROVE  IInv'
<1>1. /\ task[j].pc = "approveUpdate" /\ task[j].kind = "approve" /\ task[j].cur \in Photos
  BY MyTask, KindsAtPCs DEF ApproveUpdate, At, TaskSound, AtOnePhoto
<1>2. PICK q \in Photos : q = task[j].cur
  BY <1>1
<1>3. PICK new \in Row : new = [row[q] EXCEPT !.approved = TRUE]
  BY RowFields DEF IInv, Row
<1>4. /\ new.exists = row[q].exists /\ new.visible = row[q].visible
      /\ new.indexed = row[q].indexed
  BY <1>3, RowFields DEF IInv, Row
<1>5. UpdateRow(q, new)
  BY <1>2, <1>3 DEF ApproveUpdate, Cur
<1>6. /\ row' \in [Photos -> Row]
      /\ \A p \in Photos : /\ row'[p].exists = row[p].exists
                           /\ row'[p].indexed => row[p].indexed
                           /\ row[p].visible => row'[p].visible
  BY <1>4, <1>5, Updated DEF IInv, Exists
<1>7. Moves(j) /\ task'[j] = Idle
  BY FinishMoves DEF ApproveUpdate
<1>8. \A p \in Photos :
        /\ ~Inserting(task[j], p) /\ ~Resetting(task[j], p) /\ ~Deleting(task[j], p)
        /\ ~Showing(task[j], p) /\ ~Holding(task[j], p)
  BY <1>1 DEF Inserting, Resetting, Deleting, Showing, Holding
<1> QED
  BY <1>6, <1>7, <1>8, IdleOwes, FlagsMove DEF ApproveUpdate

LEMMA ResetPhotoStep ==
  ASSUME IInv, NEW j \in Tasks, ResetPhoto(j)
  PROVE  IInv'
<1>1. /\ task[j].pc = "reset" /\ task[j].kind = "retention" /\ task[j].cur \in Photos
      /\ task[j] \in Task /\ TaskSound(task[j]) /\ task \in [Tasks -> Task]
  BY MyTask, KindsAtPCs DEF ResetPhoto, At, TaskSound, AtOnePhoto
<1>2. PICK q \in Photos : q = task[j].cur
  BY <1>1
<1>3. PICK new \in Row : new = [row[q] EXCEPT !.indexed = FALSE]
  BY RowFields DEF IInv, Row
<1>4. new.exists = row[q].exists /\ new.visible = row[q].visible /\ ~new.indexed
  BY <1>3, RowFields DEF IInv, Row
<1>5. UpdateRow(q, new)
  BY <1>2, <1>3 DEF ResetPhoto, Cur
<1>6. /\ row' \in [Photos -> Row]
      /\ \A p \in Photos : /\ row'[p].exists = row[p].exists
                           /\ row'[p].indexed => row[p].indexed
                           /\ row[p].visible => row'[p].visible
      /\ Exists(q) => ~row'[q].indexed
  BY <1>4, <1>5, Updated DEF IInv, Exists
<1>7. /\ task' = [task EXCEPT ![j] = task'[j]]
      /\ task'[j] = [task[j] EXCEPT !.pc = "count", !.cur = NoPhoto]
  BY <1>1 DEF ResetPhoto
<1>8. /\ task'[j] \in Task
      /\ task'[j].kind = "retention" /\ task'[j].batch = task[j].batch
      /\ task'[j].since = task[j].since /\ task'[j].todo = task[j].todo
      /\ task'[j].left = task[j].left /\ task'[j].cur = NoPhoto /\ task'[j].pc = "count"
  BY <1>1, <1>7 DEF Task, PCs
<1>9. TaskSound(task'[j])
  BY <1>1, <1>8 DEF TaskSound, PCsOf, Kinds, AtOnePhoto, Idle
<1>10. WorksOn(task'[j]) \subseteq WorksOn(task[j])
  BY <1>8 DEF WorksOn
<1>11. Moves(j)
  BY <1>1, <1>7, <1>8, <1>9, <1>10 DEF Moves, ResetPhoto
<1>12. ASSUME NEW p \in Photos \ disturbed
       PROVE  /\ ~Inserting(task[j], p) /\ ~Inserting(task'[j], p) /\ ~Deleting(task[j], p)
              /\ Resetting(task[j], p) => Resetting(task'[j], p) \/ ~row'[p].indexed
              /\ ~Showing(task[j], p) /\ ~Holding(task[j], p) /\ ~FoundVisible(task'[j], p)
  <2>1. p \in WorksOn(task[j]) => Exists(p)
    BY DEF IInv, PresentInv
  <2>2. ASSUME Resetting(task[j], p)
        PROVE  Resetting(task'[j], p) \/ ~row'[p].indexed
    <3>1. CASE p \in task[j].todo
      BY <1>8, <3>1 DEF Resetting
    <3>2. CASE p = q
      BY <1>1, <1>6, <2>1, <2>2, <3>2, RolesWork
    <3> QED
      BY <1>2, <2>2, <3>1, <3>2 DEF Resetting
  <2> QED
    BY <1>1, <1>8, <2>2 DEF Inserting, Deleting, Showing, Holding, FoundVisible
<1> QED
  BY <1>6, <1>11, <1>12, FlagsMove DEF ResetPhoto

LEMMA ToggleArchivedStep ==
  ASSUME IInv, NEW q \in Photos, ToggleArchived(q)
  PROVE  IInv'
<1>1. row' = [row EXCEPT ![q].archived = ~@] /\ row \in [Photos -> Row]
  BY DEF ToggleArchived, IInv, TypeOK
<1>2. ASSUME NEW p \in Photos
      PROVE  /\ row'[p] \in Row /\ row'[p].exists = row[p].exists
             /\ row'[p].indexed = row[p].indexed /\ row'[p].visible = row[p].visible
  <2>1. CASE p = q
    <3>1. PICK b \in BOOLEAN : b = ~row[q].archived
      BY RowFields DEF IInv
    <3>2. row'[p] = [row[q] EXCEPT !.archived = b]
      BY <1>1, <2>1, <3>1
    <3> QED
      BY <2>1, <3>2, RowFields DEF IInv, Row
  <2>2. CASE p # q
    BY <1>1, <2>2
  <2> QED
    BY <2>1, <2>2
<1>3. \A p \in Photos : Exists(p)' = Exists(p)
  BY <1>2 DEF Exists
<1>4. TypeOK'
  BY <1>1, <1>2, <1>3 DEF IInv, TypeOK, ToggleArchived
<1>5. TasksInv' /\ AloneInv'
  BY DEF IInv, TasksInv, TaskSound, AloneInv, WorksOn, ToggleArchived
<1>6. PresentInv'
  BY <1>3 DEF IInv, PresentInv, WorksOn, ToggleArchived
<1>7. ListedInv'
  BY ListedKept DEF IInv, ToggleArchived
<1>8. PhotosInv'
  <2>1. SUFFICES ASSUME NEW p \in Photos \ disturbed
                 PROVE  PhotoInv(p)'
    BY DEF PhotosInv, ToggleArchived
  <2>2. PhotoInv(p)
    BY DEF IInv, PhotosInv
  <2>3. \A k \in Tasks : FoundVisible(task[k], p) => row'[p].visible
    BY <1>2, <2>2 DEF PhotoInv, VisibleInv
  <2> QED
    BY <1>2, <2>2, <2>3, FacesLeftAlone DEF IInv, ToggleArchived
<1> QED
  BY <1>4, <1>5, <1>6, <1>7, <1>8 DEF IInv

-----------------------------------------------------------------------------
(* Steps that take up work.                                                *)

LEMMA BatchBegins ==
  ASSUME IInv, NEW j \in Tasks, NEW kind \in Kinds, NEW pc \in PCsOf[kind],
         pc \in {"addUpdate", "hold", "purge"}, NEW S \in SUBSET Photos,
         StartBatch(j, kind, pc, S), UNCHANGED <<today, crashes>>
  PROVE  /\ Begins(j) /\ WorksOn(task'[j]) = S
         /\ task'[j].kind = kind /\ task'[j].pc = pc /\ task'[j].batch = S
         /\ task'[j].todo = S /\ task'[j].since = today
<1>1. /\ task \in [Tasks -> Task] /\ task[j] \in Task /\ TaskSound(task[j]) /\ task[j].pc = "idle"
      /\ today \in Days
  BY MyTask DEF StartBatch, Begin, IInv, TypeOK
<1>2. /\ task' = [task EXCEPT ![j] = task'[j]]
      /\ task'[j] = [Idle EXCEPT !.kind = kind, !.pc = pc, !.batch = S, !.todo = S, !.since = today]
      /\ disturbed' = disturbed \cup Clashes(task')
  BY <1>1 DEF StartBatch, Begin
<1>3. task'[j] = [kind |-> kind, pc |-> pc, batch |-> S, todo |-> S, cur |-> NoPhoto,
                  left |-> {}, since |-> today]
  BY <1>2 DEF Idle
<1>4. task'[j] \in Task
  BY <1>1, <1>3 DEF Task, PCs
<1>5. TaskSound(task'[j])
  <2>1. today <= today
    BY <1>1 DEF Days
  <2>2. kind # "patchAdd"
    BY DEF PCsOf, Kinds
  <2> QED
    BY <1>3, <2>1, <2>2 DEF TaskSound, AtOnePhoto
<1>6. WorksOn(task'[j]) = S
  BY <1>3 DEF WorksOn
<1> QED
  BY <1>1, <1>2, <1>3, <1>4, <1>5, <1>6 DEF Begins, TaskSound

LEMMA OneBegins ==
  ASSUME IInv, NEW j \in Tasks, NEW kind \in Kinds, NEW pc \in PCsOf[kind],
         pc \in {"detect", "clear", "patchUpdate", "approveUpdate", "deleteFaces"},
         NEW p \in Photos, StartOne(j, kind, pc, p), UNCHANGED <<today, crashes>>
  PROVE  /\ Begins(j) /\ WorksOn(task'[j]) = {p}
         /\ task'[j].kind = kind /\ task'[j].pc = pc /\ task'[j].cur = p
<1>1. /\ task \in [Tasks -> Task] /\ task[j] \in Task /\ TaskSound(task[j]) /\ task[j].pc = "idle"
      /\ today \in Nat
  BY MyTask DEF StartOne, Begin, IInv, TypeOK, Days
<1>2. /\ task' = [task EXCEPT ![j] = task'[j]]
      /\ task'[j] = [Idle EXCEPT !.kind = kind, !.pc = pc, !.cur = p, !.left = People]
      /\ disturbed' = disturbed \cup Clashes(task')
  BY <1>1 DEF StartOne, Begin
<1>3. task'[j] = [kind |-> kind, pc |-> pc, batch |-> {}, todo |-> {}, cur |-> p,
                  left |-> People, since |-> 0]
  BY <1>2 DEF Idle
<1>4. task'[j] \in Task
  BY <1>3, NumbersAssumption DEF Task, PCs, Days
<1>5. TaskSound(task'[j])
  BY <1>1, <1>3 DEF TaskSound
<1>6. WorksOn(task'[j]) = {p}
  BY <1>3, PhotosAssumption DEF WorksOn
<1> QED
  BY <1>1, <1>2, <1>3, <1>4, <1>5, <1>6 DEF Begins, TaskSound

LEMMA StartAddStep ==
  ASSUME IInv, NEW j \in Tasks, StartAdd(j)
  PROVE  IInv'
<1>1. PICK S \in SUBSET Photos : /\ \A p \in S : Exists(p)
                                 /\ StartBatch(j, "add", "addUpdate", S)
  BY DEF StartAdd
<1>2. /\ Begins(j) /\ WorksOn(task'[j]) = S /\ task'[j].kind = "add" /\ task'[j].pc = "addUpdate"
  BY <1>1, BatchBegins DEF StartAdd, PCsOf, Kinds
<1>3. \A p \in Photos \ disturbed : ~FoundVisible(task'[j], p)
  BY <1>2 DEF FoundVisible
<1> QED
  BY <1>1, <1>2, <1>3, PlainBegin DEF StartAdd

LEMMA StartPatchAddStep ==
  ASSUME IInv, NEW j \in Tasks, StartPatchAdd(j)
  PROVE  IInv'
<1>1. PICK q \in Photos :
        /\ Exists(q)
        /\ StartOne(j, "patchAdd",
                    IF row[q].indexed \/ q \in Videos THEN "patchUpdate" ELSE "detect", q)
  BY DEF StartPatchAdd
<1>2. PICK pc \in {"patchUpdate", "detect"} : StartOne(j, "patchAdd", pc, q)
  BY <1>1
<1>3. /\ Begins(j) /\ WorksOn(task'[j]) = {q} /\ task'[j].kind = "patchAdd" /\ task'[j].pc = pc
  BY <1>2, OneBegins DEF StartPatchAdd, PCsOf, Kinds
<1>4. \A p \in Photos \ disturbed : ~FoundVisible(task'[j], p)
  BY <1>3 DEF FoundVisible
<1> QED
  BY <1>1, <1>3, <1>4, PlainBegin DEF StartPatchAdd

LEMMA StartApproveStep ==
  ASSUME IInv, NEW j \in Tasks, StartApprove(j)
  PROVE  IInv'
<1>1. PICK q \in Photos :
        /\ Exists(q)
        /\ StartOne(j, "approve", IF row[q].visible /\ ~row[q].indexed THEN "detect"
                                                                      ELSE "approveUpdate", q)
  BY DEF StartApprove
<1>2. PICK pc \in {"approveUpdate", "detect"} : /\ StartOne(j, "approve", pc, q)
                                                /\ pc = "detect" => row[q].visible
  BY <1>1
<1>3. /\ Begins(j) /\ WorksOn(task'[j]) = {q} /\ task'[j].kind = "approve" /\ task'[j].pc = pc
  BY <1>2, OneBegins DEF StartApprove, PCsOf, Kinds
<1>4. \A p \in Photos \ disturbed : FoundVisible(task'[j], p) => row[p].visible
  BY <1>2, <1>3 DEF FoundVisible
<1> QED
  BY <1>1, <1>3, <1>4, PlainBegin DEF StartApprove

LEMMA StartDeleteStep ==
  ASSUME IInv, NEW j \in Tasks, StartDelete(j)
  PROVE  IInv'
<1>1. PICK q \in Photos : Exists(q) /\ StartOne(j, "delete", "deleteFaces", q)
  BY DEF StartDelete
<1>2. /\ Begins(j) /\ WorksOn(task'[j]) = {q} /\ task'[j].kind = "delete"
      /\ task'[j].pc = "deleteFaces"
  BY <1>1, OneBegins DEF StartDelete, PCsOf, Kinds
<1>3. \A p \in Photos \ disturbed : ~FoundVisible(task'[j], p)
  BY <1>2 DEF FoundVisible
<1> QED
  BY <1>1, <1>2, <1>3, PlainBegin DEF StartDelete

LEMMA StartSweepStep ==
  ASSUME IInv, NEW j \in Tasks, StartSweep(j)
  PROVE  IInv'
<1>1. PICK S \in SUBSET Photos : S = SweepBatch
  BY DEF SweepBatch, Unindexed
<1>2. \A p \in S : Exists(p) /\ row[p].visible
  BY <1>1 DEF SweepBatch, Unindexed, Member
<1>3. /\ task \in [Tasks -> Task] /\ task[j] \in Task /\ TaskSound(task[j]) /\ task[j].pc = "idle"
      /\ today \in Nat
  BY MyTask DEF StartSweep, Begin, IInv, TypeOK, Days
<1>4. /\ task' = [task EXCEPT ![j] = task'[j]]
      /\ task'[j] = [Idle EXCEPT !.kind = "sweep", !.pc = "index", !.todo = S]
      /\ disturbed' = disturbed \cup Clashes(task')
  BY <1>1, <1>3 DEF StartSweep, Begin
<1>5. task'[j] = [kind |-> "sweep", pc |-> "index", batch |-> {}, todo |-> S, cur |-> NoPhoto,
                  left |-> {}, since |-> 0]
  BY <1>4 DEF Idle
<1>6. task'[j] \in Task
  BY <1>5, NumbersAssumption DEF Task, PCs, Days, Kinds
<1>7. TaskSound(task'[j])
  BY <1>3, <1>5 DEF TaskSound, PCsOf, Kinds, AtOnePhoto
<1>8. WorksOn(task'[j]) = S
  BY <1>5 DEF WorksOn
<1>9. Begins(j)
  <2>1. task[j] = Idle /\ UNCHANGED <<today, crashes>>
    BY <1>3 DEF TaskSound, StartSweep
  <2> QED
    BY <1>4, <1>6, <1>7, <2>1 DEF Begins
<1>10. \A p \in Photos \ disturbed : FoundVisible(task'[j], p) => row[p].visible
  BY <1>2, <1>8 DEF FoundVisible
<1>11. task'[j].pc = "index"
  BY <1>5
<1> QED
  BY <1>2, <1>8, <1>9, <1>10, <1>11, PlainBegin DEF StartSweep

LEMMA StartRetentionStep ==
  ASSUME IInv, NEW j \in Tasks, StartRetention(j)
  PROVE  IInv'
<1>1. PICK S \in SUBSET Photos : S = {p \in Photos : \E f \in faces[p] : HoldOver(f, today)}
  OBVIOUS
<1>2. StartBatch(j, "retention", "purge", S)
  BY <1>1 DEF StartRetention
<1>3. /\ Begins(j) /\ WorksOn(task'[j]) = S /\ task'[j].kind = "retention"
      /\ task'[j].pc = "purge" /\ task'[j].batch = S /\ task'[j].since = today
  BY <1>2, BatchBegins DEF StartRetention, PCsOf, Kinds
<1>4. \A p \in Photos : p \in S => Exists(p)
  BY <1>1 DEF IInv, TypeOK
<1>5. \A p \in Photos \ disturbed : ~FoundVisible(task'[j], p)
  BY <1>3 DEF FoundVisible
<1>6. \A p \in Photos : \A f \in faces[p] : HoldOver(f, task'[j].since) => p \in task'[j].batch
  BY <1>1, <1>3
<1> QED
  BY <1>3, <1>4, <1>5, <1>6, PlainBegin DEF StartRetention

-----------------------------------------------------------------------------
(* Steps that change the faces of one photo.                               *)

\* The photos whose faces and flags a move of j leaves alone.
LEMMA OthersOf ==
  ASSUME IInv, NEW j \in Tasks, \A k \in Tasks : k # j => task'[k] = task[k],
         NEW p \in Photos \ disturbed, row'[p] = row[p], faces'[p] = faces[p],
         ~Inserting(task[j], p), ~Inserting(task'[j], p),
         ~Resetting(task[j], p), ~Deleting(task[j], p), ~Showing(task[j], p),
         Holding(task[j], p) => Holding(task'[j], p),
         FoundVisible(task'[j], p) => FoundVisible(task[j], p)
  PROVE  PhotoInv(p)'
<1>1. PhotoInv(p)
  BY DEF IInv, PhotosInv
<1>2. FoundVisible(task'[j], p) => row'[p].visible
  BY <1>1 DEF PhotoInv, VisibleInv
<1> QED
  BY <1>1, <1>2, FacesLeftAloneBy DEF IInv

\* Facts about j at work on its current photo.
LEMMA AtCur ==
  ASSUME IInv, NEW j \in Tasks, task[j].pc \in AtOnePhoto
  PROVE  /\ task[j].cur \in Photos /\ task[j].cur \in WorksOn(task[j])
         /\ task[j].cur \notin disturbed => Exists(task[j].cur)
<1>1. task[j].cur \in Photos
  BY MyTask DEF TaskSound
<1>2. task[j].cur \in WorksOn(task[j])
  BY <1>1, PhotosAssumption DEF WorksOn
<1> QED
  BY <1>1, <1>2 DEF IInv, PresentInv

\* j goes on to another program counter and changes nothing else.
LEMMA GotoMoves ==
  ASSUME IInv, NEW j \in Tasks, NEW pc \in PCsOf[task[j].kind] \cap PCs, Goto(j, pc),
         pc \in {"insert", "deleteRow", "patchUpdate", "approveUpdate"},
         task[j].pc \in AtOnePhoto,
         UNCHANGED <<disturbed, today, crashes>>
  PROVE  /\ Moves(j) /\ WorksOn(task'[j]) = WorksOn(task[j]) /\ task'[j].pc = pc
         /\ task'[j].kind = task[j].kind /\ task'[j].cur = task[j].cur
         /\ task'[j].left = task[j].left /\ task'[j].batch = task[j].batch
<1>1. task[j] \in Task /\ TaskSound(task[j]) /\ task \in [Tasks -> Task]
  BY MyTask
<1>2. /\ task' = [task EXCEPT ![j] = task'[j]]
      /\ task'[j] = [task[j] EXCEPT !.pc = pc]
  BY <1>1 DEF Goto
<1>3. /\ task'[j] \in Task
      /\ task'[j].kind = task[j].kind /\ task'[j].batch = task[j].batch
      /\ task'[j].since = task[j].since /\ task'[j].todo = task[j].todo
      /\ task'[j].left = task[j].left /\ task'[j].cur = task[j].cur /\ task'[j].pc = pc
  BY <1>1, <1>2 DEF Task
<1>4. TaskSound(task'[j])
  BY <1>1, <1>3 DEF TaskSound, AtOnePhoto
<1>5. WorksOn(task'[j]) = WorksOn(task[j])
  BY <1>3 DEF WorksOn
<1> QED
  BY <1>2, <1>3, <1>4, <1>5 DEF Moves

LEMMA ClearFacesStep ==
  ASSUME IInv, NEW j \in Tasks, ClearFaces(j)
  PROVE  IInv'
<1>1. /\ task[j].pc = "clear" /\ task[j].kind \in {"add", "patchAdd", "approve", "capture", "sweep"}
      /\ task[j].left = People /\ task[j].pc \in AtOnePhoto
  BY MyTask, KindsAtPCs DEF ClearFaces, At, TaskSound, AtOnePhoto
<1>2. PICK q \in Photos : q = task[j].cur
  BY <1>1, AtCur
<1>3. /\ Moves(j) /\ WorksOn(task'[j]) = WorksOn(task[j]) /\ task'[j].pc = "insert"
      /\ task'[j].kind = task[j].kind /\ task'[j].cur = q /\ task'[j].left = People
      /\ task'[j].batch = task[j].batch
  BY <1>1, <1>2, GotoMoves DEF ClearFaces, PCsOf, Kinds, PCs
<1>4. /\ faces'[q] = {} /\ \A p \in Photos : p # q => faces'[p] = faces[p]
      /\ row' = row /\ \A p \in Photos : faces'[p] \subseteq faces[p]
  <2>1. faces' = [faces EXCEPT ![q] = {}]
    BY <1>2 DEF ClearFaces, Cur
  <2> QED
    BY <2>1 DEF ClearFaces, IInv, TypeOK
<1>5. \A p \in Photos : Exists(p)' = Exists(p)
  BY <1>4 DEF Exists
<1>6. /\ task' \in [Tasks -> Task] /\ today' \in Days /\ crashes' \in 0..MaxCrashes
      /\ disturbed' \subseteq Photos
      /\ \A k \in Tasks : k # j => task'[k] = task[k]
      /\ TasksInv' /\ AloneInv' /\ PresentInv'
  BY <1>3, <1>5, MovesKeepsLocals DEF IInv
<1>7. TypeOK'
  BY <1>4, <1>5, <1>6 DEF IInv, TypeOK, ClearFaces, Cur
<1>8. ListedInv'
  <2>1. \A k \in Tasks : task'[k].pc = "purge" => task'[k] = task[k]
    BY <1>3, <1>6
  <2> QED
    BY <1>3, <1>4, <2>1, ListedKept DEF IInv, Moves
<1>9. PhotosInv'
  <2>1. SUFFICES ASSUME NEW p \in Photos \ disturbed
                 PROVE  PhotoInv(p)'
    BY <1>3 DEF PhotosInv, Moves
  <2>2. CASE p = q
    <3>1. Inserting(task'[j], p)
      BY <1>3, <2>2 DEF Inserting
    <3>2. Uniform(p)' /\ StampInv(p)' /\ HoldInv(p)'
      BY <1>4, <2>2, <3>1 DEF Uniform, StampInv, HoldInv, Inserting
    <3>3. InsertionInv(p)'
      <4>1. /\ \A f \in faces'[p] : f.held = Never
            /\ \A w \in People \ task'[j].left : \E f \in faces'[p] : f.of = w
        BY <1>3, <1>4, <2>2
      <4> QED
        BY <3>1, <4>1 DEF InsertionInv, Inserting
    <3>4. VisibleInv(p)'
      <4>1. \A k \in Tasks : FoundVisible(task'[k], p) => FoundVisible(task[k], p)
        BY <1>1, <1>3, <1>6 DEF FoundVisible
      <4> QED
        BY <1>4, <4>1 DEF IInv, PhotosInv, PhotoInv, VisibleInv, FoundVisible, WorksOn
    <3> QED
      BY <3>2, <3>3, <3>4 DEF PhotoInv
  <2>3. CASE p # q
    <3>1. /\ ~Inserting(task[j], p) /\ ~Inserting(task'[j], p)
          /\ ~Resetting(task[j], p) /\ ~Deleting(task[j], p) /\ ~Showing(task[j], p)
          /\ ~Holding(task[j], p) /\ (FoundVisible(task'[j], p) => FoundVisible(task[j], p))
      BY <1>1, <1>3, <2>3
         DEF Inserting, Resetting, Deleting, Showing, Holding, FoundVisible
    <3> QED
      BY <1>4, <1>6, <2>3, <3>1, OthersOf
  <2> QED
    BY <2>2, <2>3
<1> QED
  BY <1>6, <1>7, <1>8, <1>9 DEF IInv

LEMMA FacesMove ==
  ASSUME IInv, NEW j \in Tasks, Moves(j), row' \in [Photos -> Row],
         faces' \in [Photos -> SUBSET Face],
         \A p \in Photos \ disturbed : \A k \in Tasks :
           p \in WorksOn(task'[k]) /\ Exists(p) => Exists(p)',
         \A p \in Photos : ~Exists(p)' => faces'[p] = {},
         \A p \in Photos : \A f \in faces'[p] :
           f \in faces[p] \/ f.held = Never \/ f.held = today
  PROVE  /\ TypeOK' /\ TasksInv' /\ AloneInv' /\ PresentInv' /\ ListedInv'
         /\ \A k \in Tasks : k # j => task'[k] = task[k]
         /\ disturbed' = disturbed
<1>1. /\ task' \in [Tasks -> Task] /\ today' \in Days /\ crashes' \in 0..MaxCrashes
      /\ disturbed' \subseteq Photos
      /\ \A k \in Tasks : k # j => task'[k] = task[k]
      /\ TasksInv' /\ AloneInv' /\ PresentInv'
  BY MovesKeepsLocals DEF IInv
<1>2. TypeOK'
  BY <1>1 DEF TypeOK
<1>3. ListedInv'
  <2>1. \A k \in Tasks : task'[k].pc = "purge" => task'[k] = task[k]
    BY <1>1 DEF Moves
  <2> QED
    BY <2>1, ListedKept DEF IInv, Moves
<1> QED
  BY <1>1, <1>2, <1>3 DEF Moves

LEMMA RestoreNextStep ==
  ASSUME IInv, NEW j \in Tasks, RestoreNext(j)
  PROVE  IInv'
<1>1. /\ task[j].pc = "restore" /\ task[j].kind \in {"add", "patchAdd"}
      /\ task[j] \in Task /\ TaskSound(task[j]) /\ task \in [Tasks -> Task]
      /\ row \in [Photos -> Row] /\ faces \in [Photos -> SUBSET Face]
  BY MyTask, KindsAtPCs DEF RestoreNext, At, IInv, TypeOK
<1>2. PICK q \in task[j].todo : /\ faces' = Restored(q)
                                /\ task' = [task EXCEPT ![j].todo = @ \ {q}]
  BY DEF RestoreNext
<1>3. q \in Photos /\ q \in WorksOn(task[j])
  BY <1>1, <1>2 DEF Task, WorksOn
<1>4. /\ task' = [task EXCEPT ![j] = task'[j]]
      /\ task'[j] = [task[j] EXCEPT !.todo = @ \ {q}]
  BY <1>1, <1>2
<1>5. /\ task'[j] \in Task
      /\ task'[j].kind = task[j].kind /\ task'[j].batch = task[j].batch
      /\ task'[j].since = task[j].since /\ task'[j].todo = task[j].todo \ {q}
      /\ task'[j].left = task[j].left /\ task'[j].cur = task[j].cur /\ task'[j].pc = "restore"
  BY <1>1, <1>4 DEF Task
<1>6. TaskSound(task'[j])
  BY <1>1, <1>5 DEF TaskSound, AtOnePhoto
<1>7. WorksOn(task'[j]) \subseteq WorksOn(task[j])
  BY <1>5 DEF WorksOn
<1>8. Moves(j)
  BY <1>4, <1>5, <1>6, <1>7 DEF Moves, RestoreNext
<1>9. /\ faces'[q] = {[f EXCEPT !.held = Never] : f \in faces[q]}
      /\ \A p \in Photos : p # q => faces'[p] = faces[p]
  BY <1>1, <1>2, <1>3 DEF Restored
<1>10. \A g \in faces'[q] : g \in Face /\ g.held = Never
  <2>1. SUFFICES ASSUME NEW f \in faces[q]
                 PROVE  /\ [f EXCEPT !.held = Never] \in Face
                        /\ [f EXCEPT !.held = Never].held = Never
    BY <1>9
  <2>2. f \in Face
    BY <1>1, <1>3
  <2> QED
    BY <2>2 DEF Face
<1>11. \A f \in faces[q] : \E g \in faces'[q] : g.of = f.of
  <2>1. SUFFICES ASSUME NEW f \in faces[q]
                 PROVE  \E g \in faces'[q] : g.of = f.of
    OBVIOUS
  <2>2. [f EXCEPT !.held = Never].of = f.of
    BY <1>1, <1>3 DEF Face
  <2> QED
    BY <1>9, <2>2
<1>12. faces[q] = {} => faces'[q] = {}
  BY <1>9
<1>13. faces' \in [Photos -> SUBSET Face]
  <2>1. faces' = [faces EXCEPT ![q] = faces'[q]]
    BY <1>2, <1>9 DEF Restored
  <2> QED
    BY <1>1, <1>10, <2>1
<1>14. \A p \in Photos : Exists(p)' = Exists(p)
  BY DEF Exists, RestoreNext
<1>15. /\ TypeOK' /\ TasksInv' /\ AloneInv' /\ PresentInv' /\ ListedInv'
       /\ \A k \in Tasks : k # j => task'[k] = task[k]
       /\ disturbed' = disturbed
  <2>1. \A p \in Photos : ~Exists(p)' => faces'[p] = {}
    BY <1>9, <1>12, <1>14 DEF IInv, TypeOK
  <2>2. \A p \in Photos : \A f \in faces'[p] : f \in faces[p] \/ f.held = Never
    BY <1>9, <1>10
  <2>3. row' \in [Photos -> Row]
    BY <1>1 DEF RestoreNext
  <2> QED
    BY <1>8, <1>13, <1>14, <2>1, <2>2, <2>3, FacesMove
<1>16. PhotosInv'
  <2>1. SUFFICES ASSUME NEW p \in Photos \ disturbed
                 PROVE  PhotoInv(p)'
    BY <1>15 DEF PhotosInv
  <2>2. /\ ~Inserting(task[j], p) /\ ~Inserting(task'[j], p)
        /\ ~Resetting(task[j], p) /\ ~Deleting(task[j], p) /\ ~Showing(task[j], p)
        /\ ~Holding(task[j], p) /\ (FoundVisible(task'[j], p) => FoundVisible(task[j], p))
    BY <1>1, <1>5, <1>7 DEF Inserting, Resetting, Deleting, Showing, Holding, FoundVisible
  <2>3. CASE p = q
    <3>1. PhotoInv(p)
      BY DEF IInv, PhotosInv
    <3>2. row[p].visible
      <4>1. FoundVisible(task[j], p)
        BY <1>1, <1>3, <2>3 DEF FoundVisible
      <4> QED
        BY <3>1, <4>1 DEF PhotoInv, VisibleInv
    <3>3. Uniform(p)'
      BY <1>10, <2>3 DEF Uniform
    <3>4. HoldInv(p)' /\ VisibleInv(p)'
      BY <3>2 DEF HoldInv, VisibleInv, RestoreNext
    <3>5. \A k \in Tasks : /\ Inserting(task'[k], p) <=> Inserting(task[k], p)
                           /\ Inserting(task[k], p) => task'[k].left = task[k].left
                           /\ Resetting(task[k], p) => Resetting(task'[k], p)
                           /\ Deleting(task[k], p) => Deleting(task'[k], p)
      BY <1>15, <2>2
    <3>6. InsertionInv(p)'
      <4>1. SUFFICES ASSUME NEW i \in Tasks, Inserting(task'[i], p)
                     PROVE  \E k \in Tasks :
                              /\ Inserting(task'[k], p)
                              /\ \A w \in People \ task'[k].left : \E f \in faces'[p] : f.of = w
        BY <1>10, <2>3 DEF InsertionInv, Inserting
      <4>2. PICK k \in Tasks : /\ Inserting(task[k], p)
                               /\ \A w \in People \ task[k].left : \E f \in faces[p] : f.of = w
        BY <3>1, <3>5, <4>1 DEF PhotoInv, InsertionInv
      <4>3. \A w \in People \ task[k].left : \E f \in faces'[p] : f.of = w
        BY <1>11, <2>3, <4>2
      <4> QED
        BY <3>5, <4>2, <4>3
    <3>7. StampInv(p)'
      <4>1. SUFFICES ASSUME Exists(p), row[p].indexed
                     PROVE  \/ \A w \in People : \E f \in faces'[p] : f.of = w
                            \/ \E i \in Tasks : Inserting(task'[i], p)
                            \/ /\ faces'[p] = {}
                               /\ \E i \in Tasks : Resetting(task'[i], p) \/ Deleting(task'[i], p)
        BY DEF StampInv, Complete, Exists, Inserting, Resetting, Deleting, RestoreNext
      <4>2. \/ Complete(p)
            \/ \E i \in Tasks : Inserting(task[i], p)
            \/ faces[p] = {} /\ \E i \in Tasks : Resetting(task[i], p) \/ Deleting(task[i], p)
        BY <3>1, <4>1 DEF PhotoInv, StampInv
      <4>3. CASE Complete(p)
        BY <1>11, <2>3, <4>3 DEF Complete
      <4>4. CASE ~Complete(p)
        BY <1>12, <2>3, <3>5, <4>2, <4>4
      <4> QED
        BY <4>3, <4>4
    <3> QED
      BY <3>3, <3>4, <3>6, <3>7 DEF PhotoInv
  <2>4. CASE p # q
    BY <1>9, <1>15, <2>2, <2>4, OthersOf DEF RestoreNext
  <2> QED
    BY <2>3, <2>4
<1> QED
  BY <1>15, <1>16 DEF IInv

LEMMA InsertFaceStep ==
  ASSUME IInv, NEW j \in Tasks, InsertFace(j)
  PROVE  IInv'
<1>1. /\ task[j].pc = "insert" /\ task[j].kind \in {"add", "patchAdd", "approve", "capture", "sweep"}
      /\ task[j] \in Task /\ TaskSound(task[j]) /\ task \in [Tasks -> Task]
      /\ row \in [Photos -> Row] /\ faces \in [Photos -> SUBSET Face]
      /\ task[j].pc \in AtOnePhoto
  BY MyTask, KindsAtPCs DEF InsertFace, At, IInv, TypeOK, AtOnePhoto
<1>2. PICK q \in Photos : q = task[j].cur
  BY <1>1, AtCur
<1>3. q \notin disturbed => Exists(q)
  BY <1>1, <1>2, AtCur
<1>4. CASE ~Exists(q)
  <2>1. Fails(j) /\ UNCHANGED <<row, faces, disturbed, today, crashes>>
    BY <1>2, <1>4 DEF InsertFace, Cur
  <2>2. /\ Moves(j)
        /\ \A p \in Photos : /\ ~Inserting(task'[j], p)
                             /\ FoundVisible(task'[j], p) => FoundVisible(task[j], p)
    BY <1>1, <2>1, FailsMoves
  <2>3. \A p \in Photos \ disturbed :
          /\ ~Inserting(task[j], p) /\ ~Resetting(task[j], p) /\ ~Deleting(task[j], p)
          /\ ~Showing(task[j], p) /\ ~Holding(task[j], p)
    BY <1>1, <1>2, <1>3, <1>4 DEF Inserting, Resetting, Deleting, Showing, Holding
  <2>4. \A p \in Photos \ disturbed : FoundVisible(task[j], p) => row[p].visible
    BY DEF IInv, PhotosInv, PhotoInv, VisibleInv
  <2> QED
    BY <1>1, <2>1, <2>2, <2>3, <2>4, FlagsMove
<1>5. CASE Exists(q)
  <2>1. PICK w \in task[j].left :
          /\ faces' = [faces EXCEPT ![q] = @ \cup {[by |-> j, of |-> w, held |-> Never]}]
          /\ task' = [task EXCEPT ![j].left = @ \ {w}]
    BY <1>2, <1>5 DEF InsertFace, Cur
  <2>2. PICK g \in Face : g = [by |-> j, of |-> w, held |-> Never]
    BY <1>1, <2>1 DEF Face, Task
  <2>3. g.held = Never /\ g.of = w
    BY <2>2
  <2>4. /\ faces'[q] = faces[q] \cup {g}
        /\ \A p \in Photos : p # q => faces'[p] = faces[p]
        /\ faces' \in [Photos -> SUBSET Face]
    BY <1>1, <2>1, <2>2
  <2>5. /\ task' = [task EXCEPT ![j] = task'[j]]
        /\ task'[j] = [task[j] EXCEPT !.left = @ \ {w}]
    BY <1>1, <2>1
  <2>6. /\ task'[j] \in Task
        /\ task'[j].kind = task[j].kind /\ task'[j].batch = task[j].batch
        /\ task'[j].since = task[j].since /\ task'[j].todo = task[j].todo
        /\ task'[j].left = task[j].left \ {w} /\ task'[j].cur = q /\ task'[j].pc = "insert"
    BY <1>1, <1>2, <2>5 DEF Task
  <2>7. TaskSound(task'[j])
    BY <1>1, <1>2, <2>6 DEF TaskSound, AtOnePhoto
  <2>8. WorksOn(task'[j]) = WorksOn(task[j])
    BY <1>2, <2>6 DEF WorksOn
  <2>9. Moves(j)
    BY <2>5, <2>6, <2>7, <2>8 DEF Moves, InsertFace
  <2>10. \A p \in Photos : Exists(p)' = Exists(p)
    BY DEF Exists, InsertFace
  <2>11. /\ TypeOK' /\ TasksInv' /\ AloneInv' /\ PresentInv' /\ ListedInv'
         /\ \A k \in Tasks : k # j => task'[k] = task[k]
         /\ disturbed' = disturbed
    <3>1. \A p \in Photos : ~Exists(p)' => faces'[p] = {}
      BY <1>5, <2>4, <2>10 DEF IInv, TypeOK
    <3>2. \A p \in Photos : \A f \in faces'[p] : f \in faces[p] \/ f.held = Never
      BY <2>3, <2>4
    <3>3. row' \in [Photos -> Row]
      BY <1>1 DEF InsertFace
    <3> QED
      BY <2>4, <2>9, <2>10, <3>1, <3>2, <3>3, FacesMove
  <2>12. PhotosInv'
    <3>1. SUFFICES ASSUME NEW p \in Photos \ disturbed
                   PROVE  PhotoInv(p)'
      BY <2>11 DEF PhotosInv
    <3>2. PhotoInv(p)
      BY DEF IInv, PhotosInv
    <3>3. CASE p = q
      <4>1. Inserting(task[j], p) /\ Inserting(task'[j], p)
        BY <1>1, <1>2, <2>6, <3>3 DEF Inserting
      <4>2. \A f \in faces'[p] : f.held = Never
        BY <2>3, <2>4, <3>2, <3>3, <4>1 DEF PhotoInv, InsertionInv
      <4>3. Uniform(p)'
        BY <4>2 DEF Uniform
      <4>4. StampInv(p)'
        BY <4>1 DEF StampInv, Inserting
      <4>5. InsertionInv(p)'
        <5>1. SUFFICES \E k \in Tasks :
                         /\ Inserting(task'[k], p)
                         /\ \A v \in People \ task'[k].left : \E f \in faces'[p] : f.of = v
          BY <4>2 DEF InsertionInv, Inserting
        <5>2. PICK k \in Tasks : /\ Inserting(task[k], p)
                                 /\ \A v \in People \ task[k].left : \E f \in faces[p] : f.of = v
          BY <3>2, <4>1 DEF PhotoInv, InsertionInv
        <5>3. CASE k = j
          <6>1. \A v \in People \ task'[j].left : \E f \in faces'[p] : f.of = v
            BY <2>3, <2>4, <2>6, <3>3, <5>2, <5>3
          <6> QED
            BY <4>1, <6>1
        <5>4. CASE k # j
          <6>1. task'[k] = task[k]
            BY <2>11, <5>4
          <6> QED
            BY <2>4, <3>3, <5>2, <6>1
        <5> QED
          BY <5>3, <5>4
      <4>6. VisibleInv(p)'
        <5>1. \A k \in Tasks : FoundVisible(task'[k], p) => FoundVisible(task[k], p)
          BY <1>1, <2>6, <2>8, <2>11 DEF FoundVisible
        <5> QED
          BY <3>2, <5>1 DEF PhotoInv, VisibleInv, FoundVisible, WorksOn, InsertFace
      <4>7. HoldInv(p)'
        <5>1. SUFFICES ASSUME ~row[p].visible
                       PROVE  Showing(task'[j], p)
          BY DEF HoldInv, Showing, InsertFace
        <5>2. ~FoundVisible(task[j], p) /\ p \in WorksOn(task[j])
          BY <1>1, <1>2, <3>2, <3>3, <5>1, AtCur DEF PhotoInv, VisibleInv
        <5>3. task[j].kind = "patchAdd"
          BY <1>1, <5>2 DEF FoundVisible
        <5> QED
          BY <2>6, <3>3, <5>3 DEF Showing
      <4> QED
        BY <4>3, <4>4, <4>5, <4>6, <4>7 DEF PhotoInv
    <3>4. CASE p # q
      <4>1. /\ ~Inserting(task[j], p) /\ ~Inserting(task'[j], p)
            /\ ~Resetting(task[j], p) /\ ~Deleting(task[j], p) /\ ~Showing(task[j], p)
            /\ ~Holding(task[j], p) /\ (FoundVisible(task'[j], p) => FoundVisible(task[j], p))
        BY <1>1, <1>2, <2>6, <2>8, <3>4
           DEF Inserting, Resetting, Deleting, Showing, Holding, FoundVisible
      <4> QED
        BY <2>4, <2>11, <3>4, <4>1, OthersOf DEF InsertFace
    <3> QED
      BY <3>3, <3>4
  <2> QED
    BY <2>11, <2>12 DEF IInv
<1> QED
  BY <1>4, <1>5

\* A task that has inserted all faces goes where its caller goes on.
LEMMA SucceedsMoves ==
  ASSUME IInv, NEW j \in Tasks, Succeeds(j), task[j].pc = "insert",
         UNCHANGED <<disturbed, today, crashes>>
  PROVE  /\ Moves(j)
         /\ \A p \in Photos :
              /\ ~Inserting(task'[j], p)
              /\ Showing(task[j], p) => Showing(task'[j], p)
              /\ FoundVisible(task'[j], p) => FoundVisible(task[j], p)
<1>1. /\ task[j].kind \in {"add", "patchAdd", "approve", "capture", "sweep"}
      /\ task[j] \in Task /\ task[j].pc \in AtOnePhoto
  BY MyTask, KindsAtPCs DEF AtOnePhoto
<1>2. CASE Looping(j)
  <2>1. task' = [task EXCEPT ![j].pc = "index", ![j].cur = NoPhoto]
    BY <1>2 DEF Succeeds, Looping
  <2> QED
    BY <1>2, <2>1, LoopsOn DEF Inserting, Showing, Looping
<1>3. CASE task[j].kind = "patchAdd"
  <2>1. Goto(j, "patchUpdate")
    BY <1>3 DEF Succeeds, Looping
  <2>2. /\ Moves(j) /\ WorksOn(task'[j]) = WorksOn(task[j]) /\ task'[j].pc = "patchUpdate"
        /\ task'[j].kind = task[j].kind /\ task'[j].cur = task[j].cur
    BY <1>1, <1>3, <2>1, GotoMoves DEF PCsOf, Kinds, PCs
  <2> QED
    BY <1>3, <2>2 DEF Inserting, Showing, FoundVisible
<1>4. CASE task[j].kind = "approve"
  <2>1. Goto(j, "approveUpdate")
    BY <1>4 DEF Succeeds, Looping
  <2>2. /\ Moves(j) /\ task'[j].pc = "approveUpdate" /\ task'[j].kind = task[j].kind
    BY <1>1, <1>4, <2>1, GotoMoves DEF PCsOf, Kinds, PCs
  <2> QED
    BY <1>4, <2>2 DEF Inserting, Showing, FoundVisible
<1>5. CASE task[j].kind = "capture"
  <2>1. Finish(j)
    BY <1>5 DEF Succeeds, Looping
  <2>2. Moves(j) /\ task'[j] = Idle
    BY <2>1, FinishMoves
  <2> QED
    BY <1>5, <2>2, IdleOwes DEF Showing
<1> QED
  BY <1>1, <1>2, <1>3, <1>4, <1>5 DEF Looping

LEMMA StampIndexedStep ==
  ASSUME IInv, NEW j \in Tasks, StampIndexed(j)
  PROVE  IInv'
<1>1. /\ task[j].pc = "insert" /\ task[j].left = {} /\ task[j].pc \in AtOnePhoto
      /\ row \in [Photos -> Row] /\ faces \in [Photos -> SUBSET Face]
      /\ task[j].kind # "remove"
  BY MyTask, KindsAtPCs DEF StampIndexed, At, IInv, TypeOK, AtOnePhoto
<1>2. PICK q \in Photos : q = task[j].cur
  BY <1>1, AtCur
<1>3. q \notin disturbed => Exists(q)
  BY <1>1, <1>2, AtCur
<1>4. PICK new \in Row : new = [row[q] EXCEPT !.indexed = TRUE]
  BY RowFields DEF IInv, Row
<1>5. new.exists = row[q].exists /\ new.visible = row[q].visible
  BY <1>4, RowFields DEF IInv, Row
<1>6. /\ row' \in [Photos -> Row]
      /\ \A p \in Photos : row'[p].exists = row[p].exists /\ row'[p].visible = row[p].visible
      /\ \A p \in Photos : p # q => row'[p] = row[p]
  <2>1. UpdateRow(q, new)
    BY <1>2, <1>4 DEF StampIndexed, Cur
  <2> QED
    BY <1>5, <2>1, Updated DEF IInv, Exists
<1>7. /\ Moves(j)
      /\ \A p \in Photos :
           /\ ~Inserting(task'[j], p)
           /\ Exists(q) /\ Showing(task[j], p) => Showing(task'[j], p)
           /\ FoundVisible(task'[j], p) => FoundVisible(task[j], p)
  BY <1>1, <1>2, SucceedsMoves, FailsMoves DEF StampIndexed, Cur
<1>8. \A p \in Photos : Exists(p)' = Exists(p)
  BY <1>6 DEF Exists
<1>9. /\ TypeOK' /\ TasksInv' /\ AloneInv' /\ PresentInv' /\ ListedInv'
      /\ \A k \in Tasks : k # j => task'[k] = task[k]
      /\ disturbed' = disturbed
  <2>1. faces' = faces
    BY DEF StampIndexed
  <2>2. \A p \in Photos : ~Exists(p)' => faces'[p] = {}
    BY <1>8, <2>1 DEF IInv, TypeOK
  <2> QED
    BY <1>1, <1>6, <1>7, <1>8, <2>1, <2>2, FacesMove
<1>10. PhotosInv'
  <2>1. SUFFICES ASSUME NEW p \in Photos \ disturbed
                 PROVE  PhotoInv(p)'
    BY <1>9 DEF PhotosInv
  <2>2. PhotoInv(p) /\ faces' = faces
    BY DEF IInv, PhotosInv, StampIndexed
  <2>3. CASE p = q
    <3>1. Inserting(task[j], p) /\ Exists(q)
      BY <1>1, <1>2, <1>3, <2>3 DEF Inserting
    <3>2. Uniform(p)'
      BY <2>2 DEF PhotoInv, Uniform
    <3>3. PICK k \in Tasks : /\ Inserting(task[k], p)
                             /\ \A w \in People \ task[k].left : \E f \in faces[p] : f.of = w
      BY <2>2, <3>1 DEF PhotoInv, InsertionInv
    <3>4. k = j => Complete(p)
      BY <1>1, <3>3 DEF Complete
    <3>5. k # j => task'[k] = task[k] /\ Inserting(task'[k], p)
      BY <1>9, <3>3
    <3>6. StampInv(p)'
      <4>1. Complete(p) \/ \E i \in Tasks : Inserting(task'[i], p)
        BY <3>4, <3>5
      <4> QED
        BY <2>2, <4>1 DEF StampInv, Complete, Inserting
    <3>7. InsertionInv(p)'
      <4>1. SUFFICES ASSUME NEW i \in Tasks, Inserting(task'[i], p)
                     PROVE  \E l \in Tasks :
                              /\ Inserting(task'[l], p)
                              /\ \A w \in People \ task'[l].left : \E f \in faces[p] : f.of = w
        BY <2>2, <3>1 DEF PhotoInv, InsertionInv, Inserting
      <4>2. CASE k = j
        <5>1. \A w \in People \ task'[i].left : \E f \in faces[p] : f.of = w
          BY <3>4, <4>2 DEF Complete
        <5> QED
          BY <4>1, <5>1
      <4>3. CASE k # j
        BY <3>3, <3>5, <4>3
      <4> QED
        BY <4>2, <4>3
    <3>8. VisibleInv(p)'
      <4>1. \A i \in Tasks : FoundVisible(task'[i], p) => FoundVisible(task[i], p)
        BY <1>7, <1>9
      <4> QED
        BY <1>6, <2>2, <4>1 DEF PhotoInv, VisibleInv, FoundVisible, WorksOn
    <3>9. HoldInv(p)'
      <4>1. SUFFICES ASSUME Exists(p), ~row[p].visible
                     PROVE  \/ \A f \in faces[p] : f.held # Never
                            \/ \E i \in Tasks : Showing(task'[i], p) \/ Holding(task'[i], p)
        BY <1>6, <2>2 DEF HoldInv, Exists, Showing, Holding
      <4>2. \/ \A f \in faces[p] : f.held # Never
            \/ \E i \in Tasks : Showing(task[i], p) \/ Holding(task[i], p)
        BY <2>2, <4>1 DEF PhotoInv, HoldInv
      <4>3. \A i \in Tasks : Showing(task[i], p) \/ Holding(task[i], p)
                               => Showing(task'[i], p) \/ Holding(task'[i], p)
        BY <1>1, <1>7, <1>9, <3>1 DEF Holding
      <4> QED
        BY <4>2, <4>3
    <3> QED
      BY <3>2, <3>6, <3>7, <3>8, <3>9 DEF PhotoInv
  <2>4. CASE p # q
    <3>1. /\ ~Inserting(task[j], p) /\ ~Inserting(task'[j], p)
          /\ ~Resetting(task[j], p) /\ ~Deleting(task[j], p) /\ ~Showing(task[j], p)
          /\ ~Holding(task[j], p) /\ (FoundVisible(task'[j], p) => FoundVisible(task[j], p))
      BY <1>1, <1>2, <1>7, <2>4 DEF Inserting, Resetting, Deleting, Showing, Holding
    <3> QED
      BY <1>6, <1>9, <2>2, <2>4, <3>1, OthersOf
  <2> QED
    BY <2>3, <2>4
<1> QED
  BY <1>9, <1>10 DEF IInv

\* What a removal or a deletion of p knows of the others: they do not work on it.
LEMMA NobodyElse ==
  ASSUME IInv, NEW j \in Tasks, task[j].kind \in {"remove", "delete"},
         NEW p \in Photos \ disturbed, p \in WorksOn(task[j]),
         NEW k \in Tasks, k # j
  PROVE  /\ ~Inserting(task[k], p) /\ ~Resetting(task[k], p) /\ ~Deleting(task[k], p)
         /\ ~Showing(task[k], p) /\ ~Holding(task[k], p) /\ ~FoundVisible(task[k], p)
<1>1. p \notin WorksOn(task[k])
  BY DEF IInv, AloneInv
<1>2. task[k] \in Task
  BY MyTask
<1> QED
  BY <1>1, <1>2, RolesWork DEF FoundVisible

LEMMA HoldNextStep ==
  ASSUME IInv, NEW j \in Tasks, HoldNext(j)
  PROVE  IInv'
<1>1. /\ task[j].pc = "hold" /\ task[j].kind = "remove"
      /\ task[j] \in Task /\ TaskSound(task[j]) /\ task \in [Tasks -> Task]
      /\ row \in [Photos -> Row] /\ faces \in [Photos -> SUBSET Face] /\ today \in Days
  BY MyTask, KindsAtPCs DEF HoldNext, At, IInv, TypeOK
<1>2. PICK q \in task[j].batch : /\ faces' = Held(q)
                                 /\ task' = [task EXCEPT ![j].batch = @ \ {q}, ![j].todo = {}]
  BY DEF HoldNext
<1>3. q \in Photos /\ q \in WorksOn(task[j])
  BY <1>1, <1>2 DEF Task, WorksOn
<1>4. /\ task' = [task EXCEPT ![j] = task'[j]]
      /\ task'[j] = [task[j] EXCEPT !.batch = @ \ {q}, !.todo = {}]
  BY <1>1, <1>2
<1>5. /\ task'[j] \in Task
      /\ task'[j].kind = "remove" /\ task'[j].batch = task[j].batch \ {q}
      /\ task'[j].since = task[j].since /\ task'[j].todo = {}
      /\ task'[j].left = task[j].left /\ task'[j].cur = task[j].cur /\ task'[j].pc = "hold"
  BY ZenonT(40), <1>1, <1>4 DEF Task
<1>6. TaskSound(task'[j])
  BY <1>1, <1>5 DEF TaskSound, AtOnePhoto
<1>7. WorksOn(task'[j]) \subseteq WorksOn(task[j])
  BY <1>5 DEF WorksOn
<1>8. Moves(j)
  BY <1>1, <1>4, <1>5, <1>6, <1>7 DEF Moves, HoldNext
<1>9. /\ faces'[q] = {IF f.held = Never THEN [f EXCEPT !.held = today] ELSE f : f \in faces[q]}
      /\ \A p \in Photos : p # q => faces'[p] = faces[p]
      /\ faces' = [faces EXCEPT ![q] = faces'[q]]
  BY <1>1, <1>2, <1>3 DEF Held
<1>10. ASSUME NEW f \in faces[q]
       PROVE  \E g \in faces'[q] : g.of = f.of
  <2>1. CASE f.held = Never
    <3>1. [f EXCEPT !.held = today] \in faces'[q]
      BY <1>9, <2>1
    <3>2. [f EXCEPT !.held = today].of = f.of
      BY <1>1, <1>3 DEF Face
    <3> QED
      BY <3>1, <3>2
  <2>2. CASE f.held # Never
    BY <1>9, <2>2
  <2> QED
    BY <2>1, <2>2
<1>11. ASSUME NEW g \in faces'[q]
       PROVE  /\ g \in Face
              /\ \E f \in faces[q] : \/ f.held # Never /\ g = f
                                     \/ f.held = Never /\ g.held = today
  <2>1. PICK f \in faces[q] : g = IF f.held = Never THEN [f EXCEPT !.held = today] ELSE f
    BY <1>9
  <2>2. f \in Face
    BY <1>1, <1>3
  <2>3. CASE f.held = Never
    <3>1. g = [f EXCEPT !.held = today]
      BY <2>1, <2>3
    <3> QED
      BY <1>1, <2>2, <2>3, <3>1 DEF Face
  <2>4. CASE f.held # Never
    BY <2>1, <2>2, <2>4
  <2> QED
    BY <2>3, <2>4
<1>12. today # Never
  BY <1>1 DEF Days, Never
<1>13. faces[q] = {} => faces'[q] = {}
  BY <1>9
<1>14. \A p \in Photos : Exists(p)' = Exists(p)
  BY DEF Exists, HoldNext
<1>15. /\ TypeOK' /\ TasksInv' /\ AloneInv' /\ PresentInv' /\ ListedInv'
       /\ \A k \in Tasks : k # j => task'[k] = task[k]
       /\ disturbed' = disturbed
  <2>1. \A p \in Photos : ~Exists(p)' => faces'[p] = {}
    BY <1>9, <1>13, <1>14 DEF IInv, TypeOK
  <2>2. \A p \in Photos : \A f \in faces'[p] : f \in faces[p] \/ f.held = today
    BY <1>9, <1>11
  <2>3. row' \in [Photos -> Row]
    BY <1>1 DEF HoldNext
  <2>4. faces' \in [Photos -> SUBSET Face]
    BY <1>1, <1>9, <1>11
  <2> QED
    BY <1>8, <1>14, <2>1, <2>2, <2>3, <2>4, FacesMove
<1>16. PhotosInv'
  <2>1. SUFFICES ASSUME NEW p \in Photos \ disturbed
                 PROVE  PhotoInv(p)'
    BY <1>15 DEF PhotosInv
  <2>2. /\ ~Inserting(task[j], p) /\ ~Inserting(task'[j], p) /\ ~FoundVisible(task'[j], p)
        /\ ~Resetting(task[j], p) /\ ~Deleting(task[j], p) /\ ~Showing(task[j], p)
        /\ ~FoundVisible(task[j], p)
    BY <1>1, <1>5 DEF Inserting, Resetting, Deleting, Showing, FoundVisible
  <2>3. CASE p = q
    <3>1. PhotoInv(p)
      BY DEF IInv, PhotosInv
    <3>2. \A k \in Tasks : /\ ~Inserting(task[k], p) /\ ~Inserting(task'[k], p)
                           /\ ~Resetting(task[k], p) /\ ~Deleting(task[k], p)
                           /\ ~FoundVisible(task'[k], p)
      BY <1>1, <1>3, <1>15, <2>2, <2>3, NobodyElse
    <3>3. InsertionInv(p)' /\ VisibleInv(p)'
      BY <3>2 DEF InsertionInv, VisibleInv, Inserting, FoundVisible, WorksOn
    <3>4. Uniform(p)'
      <4>1. \A f, h \in faces[q] : f.held = h.held
        BY <2>3, <3>1 DEF PhotoInv, Uniform
      <4> QED
        BY <1>11, <2>3, <4>1 DEF Uniform
    <3>5. HoldInv(p)'
      BY <1>11, <1>12, <2>3 DEF HoldInv
    <3>6. StampInv(p)'
      <4>1. Exists(p) /\ row[p].indexed => Complete(p)
        BY <3>1, <3>2 DEF PhotoInv, StampInv
      <4>2. Complete(p) => \A w \in People : \E f \in faces'[p] : f.of = w
        BY <1>10, <2>3 DEF Complete
      <4> QED
        BY <4>1, <4>2 DEF StampInv, Complete, Exists, HoldNext
    <3> QED
      BY <3>3, <3>4, <3>5, <3>6 DEF PhotoInv
  <2>4. CASE p # q
    <3>1. Holding(task[j], p) => Holding(task'[j], p)
      BY <1>5, <2>4 DEF Holding
    <3> QED
      BY <1>9, <1>15, <2>2, <2>4, <3>1, OthersOf DEF HoldNext
  <2> QED
    BY <2>3, <2>4
<1> QED
  BY <1>15, <1>16 DEF IInv

\* A photo whose faces go with j, which works on it alone.
LEMMA DeleteFacesStep ==
  ASSUME IInv, NEW j \in Tasks, DeleteFaces(j)
  PROVE  IInv'
<1>1. /\ task[j].pc = "deleteFaces" /\ task[j].kind = "delete" /\ task[j].pc \in AtOnePhoto
      /\ row \in [Photos -> Row] /\ faces \in [Photos -> SUBSET Face]
  BY MyTask, KindsAtPCs DEF DeleteFaces, At, AtOnePhoto, IInv, TypeOK
<1>2. PICK q \in Photos : q = task[j].cur /\ q \in WorksOn(task[j])
  BY <1>1, AtCur
<1>3. /\ Moves(j) /\ task'[j].pc = "deleteRow" /\ task'[j].kind = "delete" /\ task'[j].cur = q
  BY <1>1, <1>2, GotoMoves DEF DeleteFaces, PCsOf, Kinds, PCs
<1>4. /\ faces'[q] = {} /\ \A p \in Photos : p # q => faces'[p] = faces[p]
      /\ faces' \in [Photos -> SUBSET Face] /\ row' = row
  BY <1>1, <1>2 DEF DeleteFaces, Cur
<1>5. /\ TypeOK' /\ TasksInv' /\ AloneInv' /\ PresentInv' /\ ListedInv'
      /\ \A k \in Tasks : k # j => task'[k] = task[k]
      /\ disturbed' = disturbed
  <2>1. \A p \in Photos : Exists(p)' = Exists(p)
    BY <1>4 DEF Exists
  <2>2. \A p \in Photos : ~Exists(p)' => faces'[p] = {}
    BY <1>4, <2>1 DEF IInv, TypeOK
  <2>3. \A p \in Photos : \A f \in faces'[p] : f \in faces[p]
    BY <1>4
  <2> QED
    BY <1>1, <1>3, <1>4, <2>1, <2>2, <2>3, FacesMove
<1>6. PhotosInv'
  <2>1. SUFFICES ASSUME NEW p \in Photos \ disturbed
                 PROVE  PhotoInv(p)'
    BY <1>5 DEF PhotosInv
  <2>2. /\ ~Inserting(task[j], p) /\ ~Inserting(task'[j], p) /\ ~FoundVisible(task'[j], p)
        /\ ~Resetting(task[j], p) /\ ~Deleting(task[j], p) /\ ~Showing(task[j], p)
        /\ ~Holding(task[j], p)
    BY <1>1, <1>3 DEF Inserting, Resetting, Deleting, Showing, Holding, FoundVisible
  <2>3. CASE p = q
    <3>1. \A k \in Tasks : ~Inserting(task'[k], p) /\ ~FoundVisible(task'[k], p)
      BY <1>1, <1>2, <1>5, <2>2, <2>3, NobodyElse
    <3>2. InsertionInv(p)' /\ VisibleInv(p)'
      BY <3>1 DEF InsertionInv, VisibleInv, Inserting, FoundVisible, WorksOn
    <3>3. Deleting(task'[j], p)
      BY <1>3, <2>3 DEF Deleting
    <3>4. Uniform(p)' /\ StampInv(p)' /\ HoldInv(p)'
      BY <1>4, <2>3, <3>3 DEF Uniform, StampInv, HoldInv, Deleting
    <3> QED
      BY <3>2, <3>4 DEF PhotoInv
  <2>4. CASE p # q
    BY <1>4, <1>5, <2>2, <2>4, OthersOf
  <2> QED
    BY <2>3, <2>4
<1> QED
  BY <1>5, <1>6 DEF IInv

LEMMA DeleteRowStep ==
  ASSUME IInv, NEW j \in Tasks, DeleteRow(j)
  PROVE  IInv'
<1>1. /\ task[j].pc = "deleteRow" /\ task[j].kind = "delete" /\ task[j].pc \in AtOnePhoto
      /\ row \in [Photos -> Row] /\ faces \in [Photos -> SUBSET Face]
  BY MyTask, KindsAtPCs DEF DeleteRow, At, AtOnePhoto, IInv, TypeOK
<1>2. PICK q \in Photos : q = task[j].cur /\ q \in WorksOn(task[j])
  BY <1>1, AtCur
<1>3. Moves(j) /\ task'[j] = Idle
  BY FinishMoves DEF DeleteRow
<1>4. /\ faces' = faces /\ row' \in [Photos -> Row]
      /\ \A p \in Photos : p # q => row'[p] = row[p]
      /\ faces[q] = {} => ~row'[q].exists
      /\ faces[q] # {} => row'[q] = row[q]
  <2>1. NoRow \in Row /\ ~NoRow.exists
    BY DEF NoRow, Row
  <2>2. CASE faces[q] = {}
    <3>1. row' = [row EXCEPT ![q] = NoRow]
      BY <1>2, <2>2 DEF DeleteRow, Cur
    <3> QED
      BY <1>1, <2>1, <2>2, <3>1 DEF DeleteRow
  <2>3. CASE faces[q] # {}
    <3>1. row' = row
      BY <1>2, <2>3 DEF DeleteRow, Cur
    <3> QED
      BY <1>1, <2>3, <3>1 DEF DeleteRow
  <2> QED
    BY <2>2, <2>3
<1>5. q \notin disturbed => \A k \in Tasks : q \notin WorksOn(task'[k])
  <2>1. ASSUME q \notin disturbed, NEW k \in Tasks
        PROVE  q \notin WorksOn(task'[k])
    <3>1. CASE k = j
      BY <1>3, <3>1, IdleTask DEF IInv
    <3>2. CASE k # j
      <4>1. task'[k] = task[k]
        BY <1>3, <3>2, MyTask DEF Moves
      <4> QED
        BY <1>1, <1>2, <2>1, <3>2, <4>1 DEF IInv, AloneInv
    <3> QED
      BY <3>1, <3>2
  <2> QED
    BY <2>1
<1>6. \A p \in Photos : p # q => Exists(p)' = Exists(p)
  BY <1>4 DEF Exists
<1>7. /\ TypeOK' /\ TasksInv' /\ AloneInv' /\ PresentInv' /\ ListedInv'
      /\ \A k \in Tasks : k # j => task'[k] = task[k]
      /\ disturbed' = disturbed
  <2>1. \A p \in Photos : ~Exists(p)' => faces'[p] = {}
    BY <1>4, <1>6 DEF IInv, TypeOK, Exists
  <2>2. \A p \in Photos \ disturbed : \A k \in Tasks :
          p \in WorksOn(task'[k]) /\ Exists(p) => Exists(p)'
    BY <1>5, <1>6
  <2> QED
    BY <1>1, <1>3, <1>4, <2>1, <2>2, FacesMove
<1>8. PhotosInv'
  <2>1. SUFFICES ASSUME NEW p \in Photos \ disturbed
                 PROVE  PhotoInv(p)'
    BY <1>7 DEF PhotosInv
  <2>2. /\ ~Inserting(task'[j], p) /\ ~FoundVisible(task'[j], p)
        /\ ~Resetting(task'[j], p) /\ ~Deleting(task'[j], p) /\ ~Showing(task'[j], p)
        /\ ~Holding(task'[j], p)
    BY <1>3, IdleOwes
  <2>3. /\ ~Inserting(task[j], p) /\ ~Resetting(task[j], p) /\ ~Showing(task[j], p)
        /\ ~Holding(task[j], p)
    BY <1>1 DEF Inserting, Resetting, Showing, Holding
  <2>4. CASE p = q /\ faces[q] = {}
    <3>1. \A k \in Tasks : ~Inserting(task'[k], p) /\ ~FoundVisible(task'[k], p)
      BY <1>1, <1>2, <1>7, <2>2, <2>4, NobodyElse
    <3>2. InsertionInv(p)' /\ VisibleInv(p)'
      BY <3>1 DEF InsertionInv, VisibleInv, Inserting, FoundVisible, WorksOn
    <3>3. Uniform(p)' /\ StampInv(p)' /\ HoldInv(p)'
      BY <1>4, <2>4 DEF Uniform, StampInv, HoldInv, Exists
    <3> QED
      BY <3>2, <3>3 DEF PhotoInv
  <2>5. CASE ~(p = q /\ faces[q] = {})
    <3>1. row'[p] = row[p]
      BY <1>4, <2>5
    <3>2. Deleting(task[j], p) => faces[p] # {}
      BY <1>2, <2>5 DEF Deleting
    <3>3. PhotoInv(p) /\ faces'[p] = faces[p]
      BY <1>4 DEF IInv, PhotosInv
    <3> QED
      BY <1>7, <2>2, <2>3, <3>1, <3>2, <3>3, FacesLeftAloneBy DEF IInv
  <2> QED
    BY <2>4, <2>5
<1> QED
  BY <1>7, <1>8 DEF IInv

LEMMA PurgeFacesStep ==
  ASSUME IInv, NEW j \in Tasks, PurgeFaces(j)
  PROVE  IInv'
<1>1. /\ task[j].pc = "purge" /\ task[j].kind = "retention" /\ task[j].todo = task[j].batch
      /\ task[j] \in Task /\ TaskSound(task[j]) /\ task \in [Tasks -> Task]
      /\ row \in [Photos -> Row] /\ faces \in [Photos -> SUBSET Face]
  BY MyTask, KindsAtPCs DEF PurgeFaces, At, IInv, TypeOK, TaskSound
<1>2. PICK since \in Int : since = task[j].since
  BY <1>1 DEF Task, Days
<1>3. /\ task' = [task EXCEPT ![j] = task'[j]]
      /\ task'[j] = [task[j] EXCEPT !.pc = "count", !.batch = {}]
  BY <1>1 DEF PurgeFaces
<1>4. /\ task'[j] \in Task
      /\ task'[j].kind = "retention" /\ task'[j].batch = {}
      /\ task'[j].since = task[j].since /\ task'[j].todo = task[j].batch
      /\ task'[j].left = task[j].left /\ task'[j].cur = task[j].cur /\ task'[j].pc = "count"
  BY <1>1, <1>3 DEF Task, PCs
<1>5. TaskSound(task'[j])
  BY <1>1, <1>4 DEF TaskSound, AtOnePhoto, PCsOf, Kinds
<1>6. WorksOn(task'[j]) \subseteq WorksOn(task[j])
  BY <1>1, <1>4 DEF WorksOn
<1>7. Moves(j)
  BY <1>1, <1>3, <1>4, <1>5, <1>6 DEF Moves, PurgeFaces
<1>8. \A p \in Photos : faces'[p] = {f \in faces[p] : ~HoldOver(f, since)}
  BY <1>2 DEF PurgeFaces
<1>9. faces' \in [Photos -> SUBSET Face]
  <2>1. faces' = [p \in Photos |-> faces'[p]]
    BY DEF PurgeFaces
  <2>2. \A p \in Photos : faces'[p] \in SUBSET Face
    BY <1>1, <1>8
  <2> QED
    BY <2>1, <2>2
<1>10. \A p \in Photos : Exists(p)' = Exists(p)
  BY DEF Exists, PurgeFaces
<1>11. /\ TypeOK' /\ TasksInv' /\ AloneInv' /\ PresentInv' /\ ListedInv'
       /\ \A k \in Tasks : k # j => task'[k] = task[k]
       /\ disturbed' = disturbed
  <2>1. \A p \in Photos : ~Exists(p)' => faces'[p] = {}
    BY <1>8, <1>10 DEF IInv, TypeOK
  <2>2. \A p \in Photos : \A f \in faces'[p] : f \in faces[p]
    BY <1>8
  <2>3. row' \in [Photos -> Row]
    BY <1>1 DEF PurgeFaces
  <2> QED
    BY <1>7, <1>9, <1>10, <2>1, <2>2, <2>3, FacesMove
<1>12. PhotosInv'
  <2>1. SUFFICES ASSUME NEW p \in Photos \ disturbed
                 PROVE  PhotoInv(p)'
    BY <1>11 DEF PhotosInv
  <2>2. PhotoInv(p) /\ row' = row
    BY DEF IInv, PhotosInv, PurgeFaces
  <2>3. /\ ~Inserting(task[j], p) /\ ~Inserting(task'[j], p)
        /\ ~Resetting(task[j], p) /\ ~Deleting(task[j], p) /\ ~Showing(task[j], p)
        /\ ~Holding(task[j], p) /\ ~FoundVisible(task'[j], p)
    BY <1>1, <1>4 DEF Inserting, Resetting, Deleting, Showing, Holding, FoundVisible
  <2>4. CASE \A f \in faces[p] : ~HoldOver(f, since)
    <3>1. faces'[p] = faces[p]
      BY <1>8, <2>4
    <3> QED
      BY <1>11, <2>2, <2>3, <3>1, OthersOf
  <2>5. CASE \E f \in faces[p] : HoldOver(f, since)
    <3>1. PICK f \in faces[p] : HoldOver(f, since)
      BY <2>5
    <3>2. \A g \in faces[p] : HoldOver(g, since)
      BY <2>2, <3>1 DEF PhotoInv, Uniform, HoldOver
    <3>3. faces'[p] = {}
      BY <1>8, <3>2
    <3>4. Resetting(task'[j], p)
      <4>1. p \in task[j].batch
        BY <1>1, <1>2, <3>1 DEF IInv, ListedInv, At
      <4> QED
        BY <1>4, <4>1 DEF Resetting
    <3>5. Uniform(p)' /\ StampInv(p)' /\ HoldInv(p)'
      BY <3>3, <3>4 DEF Uniform, StampInv, HoldInv, Resetting
    <3>6. \A k \in Tasks : ~Inserting(task[k], p)
      BY <2>2, <3>1 DEF PhotoInv, InsertionInv, HoldOver
    <3>7. InsertionInv(p)'
      BY <1>11, <2>3, <3>6 DEF InsertionInv, Inserting
    <3>8. VisibleInv(p)'
      <4>1. \A k \in Tasks : FoundVisible(task'[k], p) => FoundVisible(task[k], p)
        BY <1>11, <2>3
      <4> QED
        BY <2>2, <4>1 DEF PhotoInv, VisibleInv, FoundVisible, WorksOn
    <3> QED
      BY <3>5, <3>7, <3>8 DEF PhotoInv
  <2> QED
    BY <2>4, <2>5
<1> QED
  BY <1>11, <1>12 DEF IInv

LEMMA StartRemoveStep ==
  ASSUME IInv, NEW j \in Tasks, StartRemove(j)
  PROVE  IInv'
<1>1. PICK S \in SUBSET Photos :
        /\ \A p \in S : Exists(p)
        /\ SetVisible(S, FALSE)
        /\ StartBatch(j, "remove", "hold", S)
  BY DEF StartRemove
<1>2. /\ Begins(j) /\ WorksOn(task'[j]) = S /\ task'[j].kind = "remove" /\ task'[j].pc = "hold"
      /\ task'[j].batch = S
  BY <1>1, BatchBegins DEF StartRemove, PCsOf, Kinds
<1>3. ASSUME NEW p \in Photos
      PROVE  /\ row'[p] \in Row /\ row'[p].exists = row[p].exists
             /\ row'[p].indexed = row[p].indexed
             /\ p \notin S => row'[p] = row[p]
  <2>1. CASE p \in S
    <3>1. row'[p] = [row[p] EXCEPT !.visible = FALSE]
      BY <1>1, <2>1 DEF SetVisible
    <3> QED
      BY <2>1, <3>1, RowFields DEF IInv, Row
  <2>2. CASE p \notin S
    <3>1. row'[p] = row[p]
      BY <1>1, <2>2 DEF SetVisible
    <3> QED
      BY <3>1, RowFields DEF IInv
  <2> QED
    BY <2>1, <2>2
<1>4. row' \in [Photos -> Row] /\ faces' = faces
  <2>1. row' = [p \in Photos |-> row'[p]]
    BY <1>1 DEF SetVisible
  <2> QED
    BY <1>3, <2>1 DEF StartRemove
<1>5. \A p \in Photos : Exists(p)' = Exists(p)
  BY <1>3 DEF Exists
<1>6. /\ task' \in [Tasks -> Task] /\ today' \in Days /\ crashes' \in 0..MaxCrashes
      /\ disturbed' \subseteq Photos
      /\ \A k \in Tasks : k # j => task'[k] = task[k]
      /\ TasksInv' /\ AloneInv' /\ PresentInv'
  BY <1>1, <1>2, <1>5, BeginsKeepsLocals DEF IInv
<1>7. TypeOK'
  BY <1>4, <1>5, <1>6 DEF IInv, TypeOK
<1>8. ListedInv'
  <2>1. \A k \in Tasks : task'[k].pc = "purge" => task'[k] = task[k]
    BY <1>2, <1>6
  <2> QED
    BY <1>4, <2>1, ListedKept DEF IInv, StartRemove
<1>9. PhotosInv'
  <2>1. SUFFICES ASSUME NEW p \in Photos \ disturbed'
                 PROVE  PhotoInv(p)'
    BY DEF PhotosInv
  <2>2. p \in Photos \ disturbed /\ p \notin Clashes(task')
    BY <2>1, <1>2 DEF Begins
  <2>3. PhotoInv(p)
    BY <2>2 DEF IInv, PhotosInv
  <2>4. /\ ~Inserting(task'[j], p) /\ ~FoundVisible(task'[j], p)
    BY <1>2 DEF Inserting, FoundVisible
  <2>5. task[j] = Idle
    BY <1>2 DEF Begins
  <2>6. CASE p \in S
    <3>1. ASSUME NEW k \in Tasks, k # j
          PROVE  /\ ~Inserting(task'[k], p) /\ ~FoundVisible(task'[k], p)
                 /\ ~Resetting(task[k], p) /\ ~Deleting(task[k], p) /\ ~Inserting(task[k], p)
      <4>1. p \notin WorksOn(task'[k])
        BY <1>2, <2>2, <2>6, <3>1 DEF Clashes
      <4>2. task'[k] = task[k] /\ task[k] \in Task
        BY <1>6, <3>1, MyTask
      <4> QED
        BY <4>1, <4>2, RolesWork DEF FoundVisible
    <3>2. InsertionInv(p)' /\ VisibleInv(p)'
      BY <2>4, <3>1 DEF InsertionInv, VisibleInv, Inserting, FoundVisible, WorksOn
    <3>3. Uniform(p)'
      BY <1>4, <2>3 DEF PhotoInv, Uniform
    <3>4. HoldInv(p)'
      <4>1. Holding(task'[j], p)
        BY <1>2, <2>6 DEF Holding
      <4> QED
        BY <4>1 DEF HoldInv, Holding
    <3>5. StampInv(p)'
      <4>1. /\ ~Inserting(task[j], p) /\ ~Resetting(task[j], p) /\ ~Deleting(task[j], p)
        BY <2>5, <2>2, IdleOwes
      <4>2. Exists(p) /\ row[p].indexed => Complete(p)
        BY <2>3, <3>1, <4>1 DEF PhotoInv, StampInv
      <4> QED
        BY <1>3, <1>4, <2>2, <4>2 DEF StampInv, Complete, Exists
    <3> QED
      BY <3>2, <3>3, <3>4, <3>5 DEF PhotoInv
  <2>7. CASE p \notin S
    <3>1. row'[p] = row[p]
      BY <1>3, <2>2, <2>7
    <3>2. /\ ~Inserting(task[j], p) /\ ~Resetting(task[j], p) /\ ~Deleting(task[j], p)
          /\ ~Showing(task[j], p) /\ ~Holding(task[j], p) /\ ~FoundVisible(task[j], p)
      BY <2>2, <2>5, IdleOwes
    <3> QED
      BY <1>4, <1>6, <2>2, <2>4, <3>1, <3>2, OthersOf
  <2> QED
    BY <2>6, <2>7
<1> QED
  BY <1>6, <1>7, <1>8, <1>9 DEF IInv

LEMMA StartCaptureStep ==
  ASSUME IInv, NEW j \in Tasks, StartCapture(j)
  PROVE  IInv'
<1>1. PICK q \in Photos :
        /\ ~Exists(q) /\ Quiet(q)
        /\ row' = [row EXCEPT ![q] = [exists |-> TRUE, visible |-> TRUE, approved |-> TRUE,
                                      archived |-> FALSE, indexed |-> FALSE]]
        /\ StartOne(j, "capture", "clear", q)
  BY DEF StartCapture
<1>2. /\ Begins(j) /\ WorksOn(task'[j]) = {q} /\ task'[j].kind = "capture" /\ task'[j].pc = "clear"
      /\ task'[j].cur = q
  BY <1>1, OneBegins DEF StartCapture, PCsOf, Kinds
<1>3. PICK new \in Row : new = [exists |-> TRUE, visible |-> TRUE, approved |-> TRUE,
                                archived |-> FALSE, indexed |-> FALSE]
  BY DEF Row
<1>4. new.exists /\ new.visible /\ ~new.indexed
  BY <1>3
<1>5. /\ row' \in [Photos -> Row] /\ row'[q] = new /\ faces' = faces
      /\ \A p \in Photos : p # q => row'[p] = row[p]
  BY <1>1, <1>3 DEF IInv, TypeOK, StartCapture
<1>6. /\ \A p \in Photos : p # q => Exists(p)' = Exists(p)
      /\ Exists(q)'
  BY <1>4, <1>5 DEF Exists
<1>7. /\ task' \in [Tasks -> Task] /\ today' \in Days /\ crashes' \in 0..MaxCrashes
      /\ disturbed' \subseteq Photos
      /\ \A k \in Tasks : k # j => task'[k] = task[k]
      /\ TasksInv' /\ AloneInv' /\ PresentInv'
  BY <1>2, <1>6, BeginsKeepsLocals DEF IInv
<1>8. TypeOK'
  BY <1>5, <1>6, <1>7 DEF IInv, TypeOK
<1>9. ListedInv'
  <2>1. \A k \in Tasks : task'[k].pc = "purge" => task'[k] = task[k]
    BY <1>2, <1>7
  <2> QED
    BY <1>5, <2>1, ListedKept DEF IInv, StartCapture
<1>10. PhotosInv'
  <2>1. SUFFICES ASSUME NEW p \in Photos \ disturbed'
                 PROVE  PhotoInv(p)'
    BY DEF PhotosInv
  <2>2. p \in Photos \ disturbed
    BY <2>1, <1>2 DEF Begins
  <2>3. ~Inserting(task'[j], p) /\ task[j] = Idle
    BY <1>2 DEF Inserting, Begins
  <2>4. CASE p = q
    <3>1. faces[p] = {}
      BY <1>1, <2>4 DEF IInv, TypeOK
    <3>2. \A k \in Tasks : ~Inserting(task'[k], p)
      <4>1. ASSUME NEW k \in Tasks, k # j
            PROVE  ~Inserting(task'[k], p)
        <5>1. task'[k] = task[k] /\ task[k] \in Task /\ p \notin WorksOn(task[k])
          BY <1>1, <1>7, <2>4, <4>1, MyTask DEF Quiet
        <5> QED
          BY <2>2, <5>1, RolesWork
      <4> QED
        BY <2>3, <4>1
    <3>3. InsertionInv(p)'
      BY <3>2 DEF InsertionInv, Inserting
    <3>4. Uniform(p)' /\ StampInv(p)' /\ HoldInv(p)' /\ VisibleInv(p)'
      BY <1>4, <1>5, <2>4, <3>1 DEF Uniform, StampInv, HoldInv, VisibleInv
    <3> QED
      BY <3>3, <3>4 DEF PhotoInv
  <2>5. CASE p # q
    <3>1. ~FoundVisible(task'[j], p)
      BY <1>2, <2>5 DEF FoundVisible
    <3>2. /\ ~Inserting(task[j], p) /\ ~Resetting(task[j], p) /\ ~Deleting(task[j], p)
          /\ ~Showing(task[j], p) /\ ~Holding(task[j], p) /\ ~FoundVisible(task[j], p)
      BY <2>2, <2>3, IdleOwes
    <3> QED
      BY <1>5, <1>7, <2>2, <2>3, <2>5, <3>1, <3>2, OthersOf
  <2> QED
    BY <2>4, <2>5
<1> QED
  BY <1>7, <1>8, <1>9, <1>10 DEF IInv

-----------------------------------------------------------------------------
(* A restart, the clock, and the beginning.                                *)

\* A photo that nobody works on owes nothing and is owed nothing.
LEMMA CrashStep ==
  ASSUME IInv, Crash
  PROVE  IInv'
<1>1. /\ \A k \in Tasks : task'[k] = Idle
      /\ row' = row /\ faces' = faces /\ today' = today
      /\ disturbed' = disturbed \cup UNION {WorksOn(task[j]) : j \in Tasks}
  BY DEF Crash
<1>2. Idle \in Task /\ TaskSound(Idle) /\ WorksOn(Idle) = {}
  BY IdleTask DEF IInv
<1>3. TypeOK'
  <2>1. \A j \in Tasks : WorksOn(task[j]) \subseteq Photos
    <3>1. ASSUME NEW j \in Tasks PROVE WorksOn(task[j]) \subseteq Photos
      <4>1. task[j] \in Task
        BY DEF IInv, TypeOK
      <4> QED
        BY <4>1 DEF WorksOn, Task
    <3> QED
      BY <3>1
  <2>2. disturbed' \subseteq Photos
    BY <1>1, <2>1 DEF IInv, TypeOK
  <2>3. task' \in [Tasks -> Task] /\ crashes' \in 0..MaxCrashes
    BY <1>2, NumbersAssumption DEF Crash, IInv, TypeOK
  <2> QED
    BY <1>1, <2>2, <2>3 DEF IInv, TypeOK, Exists
<1>4. TasksInv'
  BY <1>1, <1>2 DEF TasksInv, TaskSound
<1>5. \A p \in Photos : \A k \in Tasks : p \notin WorksOn(task'[k])
  BY <1>1, <1>2
<1>6. AloneInv' /\ PresentInv'
  BY <1>5 DEF AloneInv, PresentInv, WorksOn
<1>7. ListedInv'
  BY <1>1 DEF ListedInv, At, Idle
<1>8. PhotosInv'
  <2>1. SUFFICES ASSUME NEW p \in Photos \ disturbed'
                 PROVE  PhotoInv(p)'
    BY DEF PhotosInv
  <2>2. p \in Photos \ disturbed /\ \A k \in Tasks : p \notin WorksOn(task[k])
    BY <1>1, <2>1
  <2>3. PhotoInv(p)
    BY <2>2 DEF IInv, PhotosInv
  <2>4. \A k \in Tasks :
          /\ ~Inserting(task[k], p) /\ ~Resetting(task[k], p) /\ ~Deleting(task[k], p)
          /\ ~Showing(task[k], p) /\ ~Holding(task[k], p)
    BY <2>2, RolesWork DEF IInv, TypeOK
  <2>5. \A k \in Tasks : ~Inserting(task'[k], p) /\ ~FoundVisible(task'[k], p)
    BY <1>1, <2>2, IdleOwes
  <2> QED
    BY <1>1, <2>2, <2>3, <2>4, <2>5, FacesLeftAlone DEF IInv
<1> QED
  BY <1>3, <1>4, <1>6, <1>7, <1>8 DEF IInv

LEMMA TickStep ==
  ASSUME IInv, Tick
  PROVE  IInv'
<1>1. /\ row' = row /\ faces' = faces /\ task' = task /\ disturbed' = disturbed
      /\ crashes' = crashes /\ today' = today + 1 /\ today < MaxDay /\ today \in 0..MaxDay
  BY DEF Tick, IInv, TypeOK, Days
<1>2. TypeOK'
  BY <1>1, NumbersAssumption DEF IInv, TypeOK, Days, Exists
<1>3. TasksInv'
  <2>1. SUFFICES ASSUME NEW j \in Tasks
                 PROVE  TaskSound(task[j])'
    BY <1>1 DEF TasksInv
  <2>2. TaskSound(task[j]) /\ task[j].since \in Int
    BY DEF IInv, TypeOK, TasksInv, Task, Days
  <2>3. task[j].since <= today + 1
    BY <1>1, <2>2, NumbersAssumption DEF TaskSound
  <2> QED
    BY <1>1, <2>2, <2>3 DEF TaskSound
<1>4. AloneInv' /\ PresentInv' /\ ListedInv'
  BY <1>1 DEF IInv, AloneInv, PresentInv, ListedInv, WorksOn, Exists, At, HoldOver
<1>5. PhotosInv'
  BY <1>1 DEF IInv, PhotosInv, PhotoInv, Uniform, InsertionInv, StampInv, VisibleInv, HoldInv,
     Inserting, Resetting, Deleting, Showing, Holding, FoundVisible, WorksOn, Exists, Complete
<1> QED
  BY <1>2, <1>3, <1>4, <1>5 DEF IInv

LEMMA Initially ==
  ASSUME Init
  PROVE  IInv
<1>1. PICK there \in SUBSET Uploaded : row = [p \in Photos |->
        [NoRow EXCEPT !.exists = p \in there, !.approved = p \in there \ Guests]]
  BY DEF Init
<1>2. ASSUME NEW p \in Photos
      PROVE  row[p] \in Row /\ ~row[p].indexed /\ ~row[p].visible
  <2>1. PICK e \in BOOLEAN : e <=> p \in there
    OBVIOUS
  <2>2. PICK a \in BOOLEAN : a <=> p \in there \ Guests
    OBVIOUS
  <2>3. row[p] = [NoRow EXCEPT !.exists = e, !.approved = a]
    BY <1>1, <2>1, <2>2
  <2> QED
    BY <2>3 DEF NoRow, Row
<1>3. TypeOK
  <2>1. Idle \in Task
    BY NumbersAssumption DEF Idle, Task, Kinds, PCs, Days
  <2>2. 0 \in Days /\ 0 \in 0..MaxCrashes
    BY NumbersAssumption DEF Days
  <2>3. row \in [Photos -> Row]
    BY <1>1, <1>2
  <2>4. /\ faces \in [Photos -> SUBSET Face] /\ \A p \in Photos : faces[p] = {}
        /\ task \in [Tasks -> Task] /\ disturbed = {}
    BY <2>1 DEF Init
  <2>5. today \in Days /\ crashes \in 0..MaxCrashes
    BY <2>2 DEF Init
  <2> QED
    BY <2>3, <2>4, <2>5 DEF TypeOK
<1>4. /\ \A k \in Tasks : task[k] = Idle
      /\ Idle \in Task /\ TaskSound(Idle) /\ WorksOn(Idle) = {}
  BY <1>3, IdleTask DEF Init
<1>5. TasksInv /\ AloneInv /\ PresentInv
  BY <1>4 DEF TasksInv, AloneInv, PresentInv
<1>6. ListedInv
  BY <1>4 DEF ListedInv, At, Idle
<1>7. PhotosInv
  <2>1. SUFFICES ASSUME NEW p \in Photos
                 PROVE  PhotoInv(p)
    BY DEF PhotosInv
  <2>2. \A k \in Tasks : ~Inserting(task[k], p) /\ ~FoundVisible(task[k], p)
    BY <1>4, IdleOwes
  <2>3. faces[p] = {}
    BY DEF Init
  <2> QED
    BY <1>2, <2>2, <2>3 DEF PhotoInv, Uniform, InsertionInv, StampInv, VisibleInv, HoldInv
<1> QED
  BY <1>3, <1>5, <1>6, <1>7 DEF IInv

-----------------------------------------------------------------------------
(* The theorems.                                                           *)

LEMMA Inductive ==
  ASSUME IInv, [Next]_vars
  PROVE  IInv'
<1>1. CASE Next
  <2>1. ASSUME NEW j \in Requests,
               \/ BulkAdd(j) \/ PatchAdd(j) \/ Remove(j)
               \/ StartApprove(j) \/ ApproveUpdate(j) \/ StartCapture(j)
        PROVE  IInv'
    <3>1. j \in Tasks
      BY DEF Tasks
    <3> QED
      BY <2>1, <3>1, StartAddStep, AddUpdateStep, RestoreNextStep, StartIndexJobStep,
         StartPatchAddStep, PatchUpdateStep, StartRemoveStep, HoldNextStep, RemoveEndsStep,
         StartApproveStep, ApproveUpdateStep, StartCaptureStep DEF BulkAdd, PatchAdd, Remove
  <2>2. ASSUME NEW j \in Deleters, Delete(j)
        PROVE  IInv'
    <3>1. j \in Tasks
      BY DEF Tasks
    <3> QED
      BY <2>2, <3>1, StartDeleteStep, DeleteFacesStep, DeleteRowStep DEF Delete
  <2>3. ASSUME NEW j \in Sweeps, StartSweep(j)
        PROVE  IInv'
    BY <2>3, StartSweepStep DEF Tasks
  <2>4. ASSUME NEW j \in Requests \cup Sweeps, Index(j)
        PROVE  IInv'
    <3>1. j \in Tasks
      BY DEF Tasks
    <3> QED
      BY <2>4, <3>1, IndexNextStep, DetectOkStep, DetectFailsStep, ClearFacesStep,
         InsertFaceStep, StampIndexedStep, IndexLoopEndsStep DEF Index
  <2>5. ASSUME NEW j \in Retentions, Retention(j)
        PROVE  IInv'
    <3>1. j \in Tasks
      BY DEF Tasks
    <3> QED
      BY <2>5, <3>1, StartRetentionStep, PurgeFacesStep, CountFacesStep, ResetPhotoStep,
         RetentionEndsStep DEF Retention
  <2>6. ASSUME NEW p \in Archivable, ToggleArchived(p)
        PROVE  IInv'
    BY <2>6, ToggleArchivedStep, PhotosAssumption
  <2> QED
    BY <1>1, <2>1, <2>2, <2>3, <2>4, <2>5, <2>6, CrashStep, TickStep DEF Next
<1>2. CASE UNCHANGED vars
  <2>1. TypeOK'
    BY <1>2 DEF vars, IInv, TypeOK, Exists
  <2>2. TasksInv' /\ AloneInv' /\ PresentInv' /\ ListedInv'
    BY <1>2 DEF vars, IInv, TasksInv, TaskSound, AloneInv, PresentInv, ListedInv, WorksOn,
       Exists, At, HoldOver
  <2>3. PhotosInv'
    BY <1>2 DEF vars, IInv, PhotosInv, PhotoInv, Uniform, InsertionInv, StampInv, VisibleInv,
       HoldInv, Inserting, Resetting, Deleting, Showing, Holding, FoundVisible, WorksOn,
       Exists, Complete
  <2> QED
    BY <2>1, <2>2, <2>3 DEF IInv
<1> QED
  BY <1>1, <1>2

\* The invariant of the tasks, the photos and their faces holds of every
\* reachable state (all handlers and sweeps of AI Search).
THEOREM FaceIndexInvariant == Spec => []IInv
<1>1. Init => IInv
  BY Initially
<1>2. IInv /\ [Next]_vars => IInv'
  BY Inductive
<1> QED
  BY <1>1, <1>2, PTL DEF Spec

\* A quiet photo owes nothing, so what it may lack while it is worked on is there.
LEMMA QuietPhotos ==
  ASSUME IInv
  PROVE  FaceInv /\ RemovedFacesHeld
<1>1. SUFFICES ASSUME NEW p \in Photos \ disturbed, Quiet(p), Exists(p)
               PROVE  /\ row[p].indexed => {f.of : f \in faces[p]} = People
                      /\ ~row[p].visible => \A f \in faces[p] : f.held # Never
  BY DEF FaceInv, IInv, StampedComplete, RemovedFacesHeld
<1>2. \A k \in Tasks :
        /\ ~Inserting(task[k], p) /\ ~Resetting(task[k], p) /\ ~Deleting(task[k], p)
        /\ ~Showing(task[k], p) /\ ~Holding(task[k], p)
  BY <1>1, RolesWork DEF Quiet, IInv, TypeOK
<1>3. PhotoInv(p)
  BY DEF IInv, PhotosInv
<1>4. ASSUME row[p].indexed
      PROVE  {f.of : f \in faces[p]} = People
  <2>1. Complete(p)
    BY <1>1, <1>2, <1>3, <1>4 DEF PhotoInv, StampInv
  <2>2. \A f \in faces[p] : f.of \in People
    BY DEF IInv, TypeOK, Face
  <2> QED
    BY <2>1, <2>2 DEF Complete
<1>5. ~row[p].visible => \A f \in faces[p] : f.held # Never
  BY <1>1, <1>2, <1>3 DEF PhotoInv, HoldInv
<1> QED
  BY <1>4, <1>5

\* FaceInv of every reachable state: no face row outlives its photo, and a photo
\* that is stamped as indexed has a row for each of its faces, whatever adds,
\* approvals, captures, sweeps and purges met on it (replacePhotoFaces,
\* runFaceRetentionSweep).
THEOREM StampedAreComplete == Spec => []FaceInv
<1>1. IInv => FaceInv
  BY QuietPhotos
<1> QED
  BY <1>1, FaceIndexInvariant, PTL

\* A face row goes only when its hold is over, when its photo is indexed anew,
\* or with its photo.
FacesGoWhenDue ==
  \A p \in Photos : \A f \in faces[p] \ faces'[p] :
    \/ HoldOver(f, today)
    \/ [f EXCEPT !.held = Never] \in faces'[p] \/ [f EXCEPT !.held = today] \in faces'[p]
    \/ \E j \in Tasks : At(j, "clear") /\ Cur(j) = p
    \/ \E j \in Tasks : At(j, "deleteFaces") /\ Cur(j) = p

LEMMA FacesStep ==
  ASSUME IInv, [Next]_vars
  PROVE  FacesGoWhenDue
<1>0. faces \in [Photos -> SUBSET Face] /\ today \in Int
  BY DEF IInv, TypeOK, Days
<1>1. CASE faces' = faces
  BY <1>1 DEF FacesGoWhenDue
<1>2. CASE \E j \in Requests \cup Sweeps : ClearFaces(j)
  BY <1>0, <1>2 DEF FacesGoWhenDue, ClearFaces, Tasks, At, Cur
<1>3. CASE \E j \in Deleters : DeleteFaces(j)
  BY <1>0, <1>3 DEF FacesGoWhenDue, DeleteFaces, Tasks, At, Cur
<1>4. CASE \E j \in Requests \cup Sweeps : InsertFace(j)
  <2>1. \A p \in Photos : faces[p] \subseteq faces'[p]
    BY <1>0, <1>4 DEF InsertFace
  <2> QED
    BY <2>1 DEF FacesGoWhenDue
<1>5. CASE \E j \in Requests : RestoreNext(j)
  <2>1. PICK q : faces' = Restored(q)
    BY <1>5 DEF RestoreNext
  <2>2. \A p \in Photos : p # q => faces'[p] = faces[p]
    BY <1>0, <2>1 DEF Restored
  <2>3. \A f \in faces[q] : q \in Photos => [f EXCEPT !.held = Never] \in faces'[q]
    BY <1>0, <2>1 DEF Restored
  <2> QED
    BY <2>2, <2>3 DEF FacesGoWhenDue
<1>6. CASE \E j \in Requests : HoldNext(j)
  <2>1. PICK q : faces' = Held(q)
    BY <1>6 DEF HoldNext
  <2>2. \A p \in Photos : p # q => faces'[p] = faces[p]
    BY <1>0, <2>1 DEF Held
  <2>3. \A f \in faces[q] :
          q \in Photos => [f EXCEPT !.held = today] \in faces'[q] \/ f \in faces'[q]
    BY <1>0, <2>1 DEF Held
  <2> QED
    BY <2>2, <2>3 DEF FacesGoWhenDue
<1>7. CASE \E j \in Retentions : PurgeFaces(j)
  <2>1. PICK j \in Retentions : PurgeFaces(j)
    BY <1>7
  <2>2. task[j].since \in Int /\ task[j].since <= today
    BY DEF Tasks, IInv, TypeOK, TasksInv, TaskSound, Task, Days
  <2>3. ASSUME NEW p \in Photos, NEW f \in faces[p], f \notin faces'[p]
        PROVE  HoldOver(f, today)
    <3>1. HoldOver(f, task[j].since) /\ f.held \in Int
      BY <1>0, <2>1, <2>3 DEF PurgeFaces, Face, Days, Never
    <3> QED
      BY <1>0, <2>2, <3>1, NumbersAssumption DEF HoldOver
  <2> QED
    BY <2>3 DEF FacesGoWhenDue
<1> QED
  BY ZenonT(40), <1>1, <1>2, <1>3, <1>4, <1>5, <1>6, <1>7
     DEF Next, vars, BulkAdd, StartAdd, AddUpdate, StartIndexJob, PatchAdd, StartPatchAdd,
         PatchUpdate, Remove, StartRemove, RemoveEnds, StartApprove, ApproveUpdate, StartCapture,
         Delete, StartDelete, DeleteRow, StartSweep, Index, IndexNext, DetectOk, DetectFails,
         StampIndexed, IndexLoopEnds, Retention, StartRetention, CountFaces, ResetPhoto,
         RetentionEnds, ToggleArchived, Crash, Tick

\* HeldUntilDue of every behaviour: what is outside AI Search is on hold, and no
\* face row goes before its time (softDeletePhotoFaces, restorePhotoFaces,
\* runFaceRetentionSweep).
THEOREM HoldsAreKept == Spec => HeldUntilDue
<1>1. IInv => RemovedFacesHeld
  BY QuietPhotos
<1>2. IInv /\ [Next]_vars => [FacesGoWhenDue]_vars
  BY FacesStep
<1>3. Spec => [][FacesGoWhenDue]_vars
  BY <1>2, FaceIndexInvariant, PTL DEF Spec
<1> QED
  BY <1>1, <1>3, FaceIndexInvariant, PTL DEF HeldUntilDue, FacesGoWhenDue

=============================================================================
