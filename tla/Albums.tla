------------------------------- MODULE Albums --------------------------------
(***************************************************************************)
(* Album proofing: the studio uploads versions made of spreads, sends the  *)
(* album, clients pin comments, ask for changes or approve, and an         *)
(* approved album is locked until its owner, or the platform, reopens it.  *)
(*                                                                         *)
(* Every handler loads the album, checks what it read, and then awaits a   *)
(* row or a file at a time; only the renumbering of spreads is a           *)
(* transaction.  One album is modelled, from a first version on that is    *)
(* drafted, sent, changed or approved, with a thread on its first spread.  *)
(* A file a request has just saved is its own until a row names it, so     *)
(* saving and naming a new spread is one step.  Thumbnails, print PDFs and *)
(* sources are left out.                                                   *)
(***************************************************************************)
EXTENDS Integers, Sequences, FiniteSetsExt, Functions

CONSTANTS
  Owners, Collaborators, Clients,  \* who sends requests
  Versions, Pages, Comments,       \* slots for rows: bounds on each table
  Files,                           \* page files, numbered as they are saved
  Spreads,                         \* images in an upload
  MaxRequests,                     \* bound: requests in all
  MaxCrashes,                      \* bound: restarts of the server
  NoVersion, NoPage, NoComment, NoFile

Studio == Owners \cup Collaborators
Users == Studio \cup Clients

\* The spreads the album starts with and its thread have slots.  Nothing in the code
\* keeps the studio and the clients of an event apart (POST /:id/collaborators and the
\* acceptance of an invite check no role): a person who is both is two users here.
ASSUME SlotsAssumption ==
  /\ IsFiniteSet(Versions) /\ IsFiniteSet(Pages) /\ IsFiniteSet(Comments)
  /\ Spreads \in Nat \ {0} /\ 1..Spreads \subseteq Pages \cap Files /\ 1..3 \subseteq Comments
  /\ Owners # {} /\ Clients # {} /\ Clients \cap Studio = {}
  /\ NoVersion \notin Versions /\ NoPage \notin Pages
  /\ NoComment \notin Comments /\ NoFile \notin Files
  /\ MaxRequests \in Nat /\ MaxCrashes \in Nat

VARIABLES
  album,    \* the Album row: exists, status, lockedAt set
  version,  \* version[v]: versionNumber, 0 when there is no such row
  page,     \* page[p]: version, pageNumber and storagePath
  disk,     \* the page files that exist
  comment,  \* comment[c]: version, page, parent, pinNumber, resolvedAt set
  req,      \* req[u]: the request of user u that is under way
  requests, crashes,
  races     \* history: the pairs of requests that met, by kind

vars == <<album, version, page, disk, comment, req, requests, crashes, races>>
rows == <<album, version, page, disk, comment>>
bounds == <<requests, crashes, races>>

\* "side": two of the studio or two of the clients; "pins": two comments;
\* "spread": one deletes a spread of the version that another is uploading.  "twice"
\* is no race but a reorder that listed a spread twice, nor is "override": the
\* platform forced the status while a request was under way.
Races == {"side", "pins", "spread", "twice", "override"}

Statuses == {"DRAFT", "SENT", "CHANGES_REQUESTED", "APPROVED"}
Page == [version : Versions \cup {NoVersion}, number : Nat,
         file : Files \cup {NoFile}]
Comment == [version : Versions \cup {NoVersion}, page : Pages \cup {NoPage},
            parent : Comments \cup {NoComment}, pin : Nat,
            author : Users, resolved : BOOLEAN]
NoPageRow == [version |-> NoVersion, number |-> 0, file |-> NoFile]
NoCommentRow == [version |-> NoVersion, page |-> NoPage, parent |-> NoComment, pin |-> 0,
                 author |-> CHOOSE u \in Users : TRUE, resolved |-> FALSE]

\* An uploaded image has no source file: NoFile stands for it in todo.
Request == [pc : {"idle", "newVersion", "spread", "resend", "unlink", "dropVersion",
                  "dropPage", "list", "renumber", "reorder", "repoint", "send",
                  "reopen", "dropAlbum", "check", "post", "uncomment", "resolve", "note",
                  "changes", "approve"},
            then : {"", "dropVersion", "dropPage", "repoint"},
            saw : Statuses, number : Nat, version : Versions \cup {NoVersion},
            page : Pages \cup {NoPage}, list : Seq(Pages),
            todo : Seq(Files \cup {NoFile}), file : Files \cup {NoFile},
            comment : Comment]
Idle == [pc |-> "idle", then |-> "", saw |-> "DRAFT", number |-> 0,
         version |-> NoVersion, page |-> NoPage, list |-> <<>>, todo |-> <<>>,
         file |-> NoFile, comment |-> NoCommentRow]

-----------------------------------------------------------------------------
(* Reading the tables.                                                     *)

HasVersion(v) == v \in Versions /\ version[v] > 0
PagesOf(v) == {p \in Pages : page[p].version = v}
Alive(c) == c \in Comments /\ comment[c].version # NoVersion
\* The i-th of them has i - 1 of them before it.
Before(S, p) == {q \in S : page[q].number < page[p].number}
InOrder(S) ==
  [i \in 1..Cardinality(S) |-> CHOOSE p \in S : Cardinality(Before(S, p)) = i - 1]
LastNumber == Max({version[v] : v \in Versions} \cup {0})
FilesOf(v) == [i \in 1..Cardinality(PagesOf(v)) |-> page[InOrder(PagesOf(v))[i]].file]

\* Fresh ids: slots without a row that no request refers to any more.
FreeVersion(v) ==
  /\ version[v] = 0
  /\ \A u \in Users : v \notin {req[u].version, req[u].comment.version}
FreePage(p) ==
  /\ page[p].version = NoVersion
  /\ \A u \in Users : p \notin {req[u].page, req[u].comment.page} \cup Range(req[u].list)
FreeFile(f) ==
  /\ f \notin disk /\ \A p \in Pages : page[p].file # f
  /\ \A u \in Users : f # req[u].file /\ f \notin Range(req[u].todo)
FreeComment(c) == ~Alive(c) /\ \A u \in Users : req[u].comment.parent # c

\* A slot is as good as another: {} when none is left, {x} otherwise.
Some(S) == IF S = {} THEN {} ELSE {CHOOSE x \in S : TRUE}

\* A thread to start from: two pins on a spread, and a reply to the first.
Thread ==
  LET by(u, parent, pin) == [NoCommentRow EXCEPT !.version = CHOOSE v \in Versions : TRUE,
                               !.page = 1, !.parent = parent, !.pin = pin, !.author = u]
      aClient == CHOOSE u \in Clients : TRUE
      anOwner == CHOOSE u \in Owners : TRUE
  IN <<by(aClient, NoComment, 1), by(aClient, NoComment, 2), by(anOwner, 1, 0)>>

Init ==
  \E status \in Statuses :
    /\ album = [live |-> TRUE, status |-> status, locked |-> status = "APPROVED"]
    /\ \E v \in Some(Versions), S \in {1..Spreads} :
         /\ version = [w \in Versions |-> IF w = v THEN 1 ELSE 0]
         /\ page = [p \in Pages |-> IF p \in S
                      THEN [version |-> v, number |-> p, file |-> p] ELSE NoPageRow]
         /\ disk = S
    /\ comment = [c \in Comments |-> IF c \in DOMAIN Thread THEN Thread[c] ELSE NoCommentRow]
    /\ req = [u \in Users |-> Idle]
    /\ requests = 0 /\ crashes = 0 /\ races = {}

-----------------------------------------------------------------------------
(* Steps shared by the requests.                                           *)

\* loadAlbum found the album, and the checks that follow it passed.
Begin(u, new) ==
  LET others == {req[w].pc : w \in Users \ {u}}
      side == IF u \in Clients THEN Clients ELSE Studio
  IN /\ album.live
     /\ requests' = requests + 1
     /\ req' = [req EXCEPT ![u] = [new EXCEPT !.saw = album.status]]
     /\ races' = races
          \cup {x \in {"side"} : \E w \in side \ {u} : req[w].pc # "idle"}
          \cup {x \in {"pins"} : new.pc = "check" /\ others \cap {"check", "post"} # {}}
          \cup {x \in {"spread"} : new.then = "dropPage" /\ \E w \in Users \ {u} :
                                     req[w].pc = "spread" /\ req[w].version = new.version}
          \cup {x \in {"twice"} : new.pc = "reorder" /\ ~IsInjective(new.list)}
     /\ UNCHANGED <<rows, crashes>>

Step(u, from, new) ==
  /\ req[u].pc = from
  /\ req' = [req EXCEPT ![u] = new]
  /\ UNCHANGED bounds

Goto(u, from, to) == Step(u, from, [req[u] EXCEPT !.pc = to])
\* The response is sent, be it of success or of an error.
End(u, from) == Step(u, from, Idle)

\* requireUnlocked
Unlocked == album.status # "APPROVED"
\* loadClientAlbum: a draft does not exist for a client.
Reviewing == album.status # "DRAFT"

\* The foreign keys cascade: rows of deleted versions, pages and comments go.
Swept(pages, C) ==
  LET gone == C \cup {c \in Comments : comment[c].page # NoPage
                                       /\ pages[comment[c].page].version = NoVersion}
  IN [c \in Comments |-> IF c \in gone \/ comment[c].parent \in gone
                           THEN NoCommentRow ELSE comment[c]]

-----------------------------------------------------------------------------
(* A new version: uploaded spreads, or copies of the spreads of another.   *)

StartUpload(u) ==
  /\ u \in Studio /\ Unlocked
  /\ Begin(u, [Idle EXCEPT !.pc = "newVersion", !.number = LastNumber + 1,
                 !.todo = [i \in 1..Spreads |-> NoFile]])

StartDuplicate(u, v) ==
  /\ u \in Studio /\ Unlocked
  /\ HasVersion(v) /\ PagesOf(v) # {}
  /\ Begin(u, [Idle EXCEPT !.pc = "newVersion", !.number = LastNumber + 1,
                 !.todo = FilesOf(v)])

\* @@unique([albumId, versionNumber]) refuses a number that was taken meanwhile.
CreateVersion(u) ==
  LET n == req[u].number
  IN IF ~album.live \/ \E v \in Versions : version[v] = n
       THEN End(u, "newVersion") /\ UNCHANGED rows
       ELSE \E v \in Some({w \in Versions : FreeVersion(w)}) :
              /\ version' = [version EXCEPT ![v] = n]
              /\ Step(u, "newVersion", [req[u] EXCEPT !.pc = "spread", !.version = v, !.number = 1])
              /\ UNCHANGED <<album, page, disk, comment>>

\* The new page gets a file of its own.  The file to copy may be gone, the
\* version too, and the number be taken.
AddSpread(u) ==
  LET r == req[u]
      taken == \E p \in PagesOf(r.version) : page[p].number = r.number
  IN /\ r.pc = "spread" /\ r.todo # <<>>
     /\ IF \/ ~HasVersion(r.version) \/ taken
           \/ Head(r.todo) # NoFile /\ Head(r.todo) \notin disk
          THEN End(u, "spread") /\ UNCHANGED rows
          ELSE \E p \in Some({q \in Pages : FreePage(q)}),
                  f \in Some({g \in Files : FreeFile(g)}) :
                 /\ page' = [page EXCEPT ![p] = [version |-> r.version, number |-> r.number, file |-> f]]
                 /\ disk' = disk \cup {f}
                 /\ Step(u, "spread", [r EXCEPT !.todo = Tail(@), !.number = @ + 1])
                 /\ UNCHANGED <<album, version, comment>>

SpreadsDone(u) ==
  /\ req[u].todo = <<>>
  /\ Goto(u, "spread", "resend")
  /\ UNCHANGED rows

\* Bug variant: a new version resends the album whatever was read.
Resend_Always(u) ==
  /\ End(u, "resend")
  /\ album' = IF album.live THEN [album EXCEPT !.status = "SENT"] ELSE album
  /\ UNCHANGED <<version, page, disk, comment>>

\* A new version answers the client's request for changes, if that was read.
Resend(u) ==
  /\ End(u, "resend")
  /\ album' = IF album.live /\ req[u].saw = "CHANGES_REQUESTED"
                THEN [album EXCEPT !.status = "SENT"] ELSE album
  /\ UNCHANGED <<version, page, disk, comment>>

-----------------------------------------------------------------------------
(* Deleting a version or a spread: files first, then rows.                 *)

StartDeleteVersion(u, v) ==
  /\ u \in Studio /\ Unlocked
  /\ HasVersion(v) /\ version[v] = LastNumber
  /\ Begin(u, [Idle EXCEPT !.pc = "unlink", !.then = "dropVersion", !.version = v,
                 !.todo = FilesOf(v)])

StartDeletePage(u, p) ==
  /\ u \in Studio /\ Unlocked
  /\ page[p].version # NoVersion /\ Cardinality(PagesOf(page[p].version)) > 1
  /\ Begin(u, [Idle EXCEPT !.pc = "unlink", !.then = "dropPage", !.page = p,
                 !.version = page[p].version, !.todo = <<page[p].file>>])

Unlink(u) ==
  /\ req[u].todo # <<>>
  /\ disk' = disk \ {Head(req[u].todo)}
  /\ Step(u, "unlink", [req[u] EXCEPT !.todo = Tail(@)])
  /\ UNCHANGED <<album, version, page, comment>>

Unlinked(u) ==
  /\ req[u].todo = <<>>
  /\ Goto(u, "unlink", req[u].then)
  /\ UNCHANGED rows

DropVersion(u) ==
  LET v == req[u].version
      pages == [p \in Pages |-> IF page[p].version = v THEN NoPageRow ELSE page[p]]
  IN /\ End(u, "dropVersion")
     /\ version' = [version EXCEPT ![v] = 0]
     /\ page' = pages
     /\ comment' = Swept(pages, {c \in Comments : comment[c].version = v})
     /\ UNCHANGED <<album, disk>>

DropPage(u) ==
  LET p == req[u].page
      pages == [page EXCEPT ![p] = NoPageRow]
  IN /\ req[u].pc = "dropPage"
     /\ IF page[p].version = NoVersion
          THEN End(u, "dropPage") /\ UNCHANGED rows
          ELSE /\ Goto(u, "dropPage", "list")
               /\ page' = pages
               /\ comment' = Swept(pages, {})
               /\ UNCHANGED <<album, version, disk>>

ListRemaining(u) ==
  /\ Step(u, "list", [req[u] EXCEPT !.pc = "renumber", !.list = InOrder(PagesOf(req[u].version))])
  /\ UNCHANGED rows

\* The transaction lists a page that is gone, or gives a number that a page it
\* does not list has: nothing is done.
Refused(pages, v) ==
  \/ \E p \in Range(pages) : page[p].version # v
  \/ \E p \in PagesOf(v) \ Range(pages) : page[p].number \in 1..Len(pages)

\* The number a page gets last.
NumberIn(pages, p) == Max({i \in 1..Len(pages) : pages[i] = p})

\* The two-phase transaction: all of it, or nothing.
Renumbered(pages, v) ==
  IF Refused(pages, v) THEN page
    ELSE [p \in Pages |-> IF p \in Range(pages)
            THEN [page[p] EXCEPT !.number = NumberIn(pages, p)] ELSE page[p]]

\* Bug variant: a page that was deleted meanwhile is skipped and leaves a gap.
Renumber_Skips(u) ==
  LET pages == req[u].list
  IN /\ End(u, "renumber")
     /\ page' = [p \in Pages |->
                   IF p \in Range(pages) /\ page[p].version = req[u].version
                     THEN [page[p] EXCEPT !.number = NumberIn(pages, p)] ELSE page[p]]
     /\ UNCHANGED <<album, version, disk, comment>>

Renumber(u) ==
  /\ End(u, "renumber")
  /\ page' = Renumbered(req[u].list, req[u].version)
  /\ UNCHANGED <<album, version, disk, comment>>

-----------------------------------------------------------------------------
(* Reordering the spreads, and replacing the file of one.                  *)

\* Any sequence of that many of the version's pages: one may be listed twice.
StartReorder(u, v, order) ==
  /\ u \in Studio /\ Unlocked
  /\ HasVersion(v)
  /\ Begin(u, [Idle EXCEPT !.pc = "reorder", !.version = v, !.list = order])

Reorder(u) ==
  /\ End(u, "reorder")
  /\ page' = Renumbered(req[u].list, req[u].version)
  /\ UNCHANGED <<album, version, disk, comment>>

StartReplace(u, p) ==
  /\ u \in Studio /\ Unlocked
  /\ page[p].version # NoVersion
  /\ \E f \in Some({g \in Files : FreeFile(g)}) :
       Begin(u, [Idle EXCEPT !.pc = "unlink", !.then = "repoint", !.page = p,
                   !.todo = <<page[p].file>>, !.file = f])

Repoint(u) ==
  LET p == req[u].page
  IN /\ End(u, "repoint")
     /\ disk' = disk \cup {req[u].file}
     /\ page' = IF page[p].version = NoVersion THEN page
                  ELSE [page EXCEPT ![p].file = req[u].file]
     /\ UNCHANGED <<album, version, comment>>

-----------------------------------------------------------------------------
(* The review.                                                             *)

StartSend(u) ==
  /\ u \in Studio /\ album.status = "DRAFT"
  /\ \E v \in Versions : HasVersion(v) /\ PagesOf(v) # {}
  /\ Begin(u, [Idle EXCEPT !.pc = "send"])

StartReopen(u) ==
  /\ u \in Owners /\ album.status = "APPROVED"
  /\ Begin(u, [Idle EXCEPT !.pc = "reopen"])

StartDeleteAlbum(u) ==
  /\ u \in Owners /\ Unlocked
  /\ Begin(u, [Idle EXCEPT !.pc = "dropAlbum"])

StartApprove(u) ==
  /\ u \in Clients /\ album.status = "SENT"
  /\ Begin(u, [Idle EXCEPT !.pc = "approve"])

\* With a message, or without.
StartRequestChanges(u) ==
  /\ u \in Clients /\ album.status = "SENT"
  /\ \/ Begin(u, [Idle EXCEPT !.pc = "changes"])
     \/ \E v \in Versions :
          /\ HasVersion(v) /\ version[v] = LastNumber
          /\ Begin(u, [Idle EXCEPT !.pc = "note", !.comment.version = v, !.comment.author = u])

\* album.update: throws when the album is gone.
SetStatus(u) ==
  LET set(status, locked) == IF album.live
        THEN [album EXCEPT !.status = status, !.locked = locked] ELSE album
  IN /\ \/ End(u, "send") /\ album' = set("SENT", album.locked)
        \/ End(u, "reopen") /\ album' = set("DRAFT", FALSE)
        \/ End(u, "approve") /\ album' = set("APPROVED", TRUE)
        \/ End(u, "changes") /\ album' = set("CHANGES_REQUESTED", album.locked)
     /\ UNCHANGED <<version, page, disk, comment>>

\* The rows cascade; the files stay until the event is deleted.
DropAlbum(u) ==
  /\ End(u, "dropAlbum")
  /\ album' = [album EXCEPT !.live = FALSE]
  /\ version' = [v \in Versions |-> 0]
  /\ page' = [p \in Pages |-> NoPageRow]
  /\ comment' = [c \in Comments |-> NoCommentRow]
  /\ UNCHANGED disk

-----------------------------------------------------------------------------
(* Comments.  createComment checks its version, page and parent and takes  *)
(* the next pin number, then inserts; the foreign keys check again.        *)

StartComment(u, new) ==
  /\ Unlocked
  /\ u \in Clients => Reviewing
  /\ Begin(u, [Idle EXCEPT !.pc = "check", !.comment = new])

\* Bug variant: pins are counted.
NextPin_Count(c) ==
  Cardinality({d \in Comments : Alive(d) /\ comment[d].version = c.version
                                /\ comment[d].page = c.page /\ comment[d].pin > 0}) + 1

NextPin(c) ==
  LET pins == {comment[d].pin : d \in {e \in Comments : Alive(e) /\ comment[e].version = c.version
                                                        /\ comment[e].page = c.page}}
  IN Max(pins \cup {0}) + 1

ParentOk(c) == c.parent # NoComment =>
  Alive(c.parent) /\ comment[c.parent].version = c.version /\ comment[c.parent].parent = NoComment

CheckComment(u) ==
  LET c == req[u].comment
      ok == /\ HasVersion(c.version) /\ ParentOk(c)
            /\ c.page # NoPage => page[c.page].version = c.version
      pinned == IF c.parent = NoComment /\ c.pin > 0 THEN NextPin(c) ELSE 0
  IN /\ req[u].pc = "check"
     /\ IF ok THEN Step(u, "check", [req[u] EXCEPT !.pc = "post", !.comment.pin = pinned])
              ELSE End(u, "check")
     /\ UNCHANGED rows

Insert(c) ==
  IF /\ HasVersion(c.version)
     /\ c.page # NoPage => page[c.page].version # NoVersion
     /\ c.parent # NoComment => Alive(c.parent)
    THEN \E d \in Some({e \in Comments : FreeComment(e)}) : comment' = [comment EXCEPT ![d] = c]
    ELSE UNCHANGED comment

PostComment(u) ==
  /\ End(u, "post")
  /\ Insert(req[u].comment)
  /\ UNCHANGED <<album, version, page, disk>>

\* The message of a request for changes; when it fails, so does the request.
PostNote(u) ==
  /\ req[u].pc = "note"
  /\ Insert(req[u].comment)
  /\ IF HasVersion(req[u].comment.version) THEN Goto(u, "note", "changes") ELSE End(u, "note")
  /\ UNCHANGED <<album, version, page, disk>>

\* A client deletes comments of its own.
StartDeleteComment(u, c) ==
  /\ Alive(c) /\ Unlocked
  /\ u \in Clients => Reviewing /\ comment[c].author = u
  /\ Begin(u, [Idle EXCEPT !.pc = "uncomment", !.comment.parent = c])

DropComment(u) ==
  /\ End(u, "uncomment")
  /\ comment' = Swept(page, {req[u].comment.parent})
  /\ UNCHANGED <<album, version, page, disk>>

\* The studio resolves a thread, or opens it again.
StartResolve(u, c, resolved) ==
  /\ u \in Studio /\ Unlocked
  /\ Alive(c) /\ comment[c].parent = NoComment
  /\ Begin(u, [Idle EXCEPT !.pc = "resolve", !.comment.parent = c, !.comment.resolved = resolved])

\* albumComment.update: throws when the comment is gone.
Resolve(u) ==
  LET c == req[u].comment.parent
  IN /\ End(u, "resolve")
     /\ comment' = IF Alive(c) THEN [comment EXCEPT ![c].resolved = req[u].comment.resolved]
                     ELSE comment
     /\ UNCHANGED <<album, version, page, disk>>

-----------------------------------------------------------------------------
\* The platform's escape hatch for a studio that cannot be reached: any status,
\* whatever is under way.
ForceStatus(status) ==
  /\ album.live
  /\ requests < MaxRequests
  /\ requests' = requests + 1
  /\ album' = [album EXCEPT !.status = status, !.locked = status = "APPROVED"]
  /\ races' = races \cup {x \in {"override"} : \E u \in Users : req[u].pc # "idle"}
  /\ UNCHANGED <<version, page, disk, comment, req, crashes>>

Crash ==
  /\ crashes < MaxCrashes
  /\ crashes' = crashes + 1
  /\ req' = [u \in Users |-> Idle]
  /\ UNCHANGED <<rows, requests, races>>

\* A reply, a pin (pin 1 stands for coordinates) or a note about a version.
NewComments(u) ==
  [version : {v \in Versions : HasVersion(v)},
   page : {p \in Pages : page[p].version # NoVersion} \cup {NoPage},
   parent : {c \in Comments : Alive(c)} \cup {NoComment}, pin : 0..1, author : {u},
   resolved : {FALSE}]

Start(u) ==
  /\ req[u].pc = "idle" /\ requests < MaxRequests
  /\ \/ StartUpload(u) \/ StartSend(u) \/ StartReopen(u) \/ StartDeleteAlbum(u)
     \/ StartApprove(u) \/ StartRequestChanges(u)
     \/ \E v \in Versions :
          \/ StartDuplicate(u, v) \/ StartDeleteVersion(u, v)
          \/ \E order \in [1..Cardinality(PagesOf(v)) -> PagesOf(v)] : StartReorder(u, v, order)
     \/ \E p \in Pages : StartDeletePage(u, p) \/ StartReplace(u, p)
     \/ \E c \in NewComments(u) : StartComment(u, c)
     \/ \E c \in Comments : StartDeleteComment(u, c) \/ \E b \in BOOLEAN : StartResolve(u, c, b)

Proceed(u) ==
  \/ CreateVersion(u) \/ AddSpread(u) \/ SpreadsDone(u) \/ Resend(u)
  \/ Unlink(u) \/ Unlinked(u) \/ DropVersion(u) \/ DropPage(u) \/ ListRemaining(u)
  \/ Renumber(u) \/ Reorder(u) \/ Repoint(u) \/ SetStatus(u) \/ DropAlbum(u)
  \/ CheckComment(u) \/ PostComment(u) \/ PostNote(u) \/ DropComment(u) \/ Resolve(u)

Next ==
  \/ Crash
  \/ \E status \in Statuses : ForceStatus(status)
  \/ \E u \in Users : Start(u) \/ Proceed(u)

Spec == Init /\ [][Next]_vars

-----------------------------------------------------------------------------
TypeOK ==
  /\ album \in [live : BOOLEAN, status : Statuses, locked : BOOLEAN]
  /\ version \in [Versions -> Nat]
  /\ page \in [Pages -> Page]
  /\ disk \subseteq Files
  /\ comment \in [Comments -> Comment]
  /\ req \in [Users -> Request]
  /\ requests \in 0..MaxRequests /\ crashes \in 0..MaxCrashes
  /\ races \subseteq Races

Quiet == \A u \in Users : req[u].pc = "idle"

\* When nothing is under way and nothing was killed, the spreads of a version
\* are numbered 1..N, however deletions and reorders met: "the rest renumber to
\* keep 1..N contiguous" (albums.js:668-697), unless one began to delete from a
\* version whose spreads were still being uploaded, or a reorder listed a spread
\* twice.  And each has its file: the requests that replace, copy and delete files
\* never take one from a row of another version or request ("copy-on-write",
\* albums.js:774-776).
SpreadsHold ==
  Quiet /\ crashes = 0 =>
    /\ races \cap {"spread", "twice"} = {} => \A v \in Versions :
         {page[p].number : p \in PagesOf(v)} = 1..Cardinality(PagesOf(v))
    /\ \A p \in Pages : page[p].version # NoVersion => page[p].file \in disk

\* Comments hang on what exists: a pin on a spread of its version, a reply on a
\* top-level comment of its version (albums.js:936-968).
ThreadsIntact ==
  \A c \in Comments : Alive(c) =>
    /\ HasVersion(comment[c].version)
    /\ comment[c].page # NoPage => page[comment[c].page].version = comment[c].version
    /\ LET q == comment[c].parent
       IN q # NoComment => /\ Alive(q) /\ comment[q].parent = NoComment
                           /\ comment[q].version = comment[c].version

\* As long as no two comments are under way together, no two pins of a spread
\* have the same number, after deletions either (albums.js:985-989).
PinsDistinct ==
  "pins" \notin races => \A c, d \in Comments :
    /\ Alive(c) /\ Alive(d) /\ c # d
    /\ comment[c].version = comment[d].version /\ comment[c].page = comment[d].page
    /\ comment[c].pin > 0
    => comment[c].pin # comment[d].pin

\* The three above: what hangs on an album hangs on what exists, whatever is
\* deleted under a comment, an upload or a reorder (albums.js, clientAlbums.js).
AlbumInv == TypeOK /\ ThreadsIntact /\ PinsDistinct

\* As long as the studio and the clients each send one request at a time, and the
\* platform forces no status on a request that is under way, an approval is undone
\* by the owner's reopening or the platform's override and by nothing else,
\* whatever the studio has under way when the client approves
\* (albums.js:522, 586, 832; admin.js:1152).
ApprovalStands ==
  [][races \cap {"side", "override"} = {} /\ album.status = "APPROVED"
       /\ album'.status # "APPROVED"
     => \/ \E u \in Owners : req[u].pc = "reopen"
        \/ \E status \in Statuses : ForceStatus(status)]_vars

=============================================================================
