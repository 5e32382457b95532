---------------------------- MODULE GalleryProofs -----------------------------
(***************************************************************************)
(* What holds of a gallery's visitors, however many there are: the clients *)
(* of ClientSelection and the guests of Guest.  First the clients, whose   *)
(* requests act on a grant or an invite that they read when they began.    *)
(***************************************************************************)
EXTENDS ClientSelection, Sequences, FiniteSetTheorems, TLAPS

-----------------------------------------------------------------------------
(* The inductive invariant of ClientSelection.                             *)

\* What a request carries is what its steps are going to need.
Shape(q) ==
  /\ q.pc # "idle" => q.client \in Clients
  /\ q.pc \in {"find", "count", "create"} => q.photo \in Photos
  /\ q.pc \in {"upsert", "supersede", "map", "accept", "mark"} => q.client \in account
  /\ q.pc \in {"invite", "account", "join", "accept", "mark"} => q.invite \in Invites

InviteRows ==
  \A i \in Invites : IF invite[i].status = "none" THEN invite[i].client = NoClient
                                                  ELSE invite[i].client \in Clients

\* An invite that a request holds is its client's, or is going to be.
Held(r) ==
  LET i == req[r].invite
  IN i \in Invites =>
       /\ invite[i].status # "none" => invite[i].client = req[r].client
       /\ invite[i].status = "none" =>
            req[r].pc = "invite" /\ \A q \in Requests : req[q].invite = i => q = r

\* What a request read when it began, and what it checked since, still holds
\* unless it was overtaken.
MayPick(q) == Access(q.client) /\ ~grant[q.client].submitted /\ q.terms = grant[q.client].terms
HasRoom(q) == q.on /\ q.terms.cap > 0 => Count(q.client) < q.terms.cap
Outstanding(q) == /\ invite[q.invite].status = "pending"
                  /\ invite[q.invite].terms = q.terms /\ q.terms.expires # "past"
Sound(q) ==
  ~q.overtaken =>
    /\ q.pc \in {"find", "count", "create"} => MayPick(q)
    /\ q.pc \in {"count", "create"} => q.photo \in shown
    /\ q.pc = "create" => HasRoom(q)
    /\ q.pc \in {"submit", "serve"} => Access(q.client)
    /\ q.pc = "serve" => event.downloads
    /\ q.pc \in {"account", "join", "accept"} => Outstanding(q)

IInv ==
  /\ TypeOK /\ InviteRows
  /\ \A r \in Requests : Shape(req[r]) /\ Held(r) /\ Sound(req[r])

-----------------------------------------------------------------------------
(* What a step leaves to the requests that it does not run.                *)

\* The rows that a request of client c reads are as they were.
Untouched(c) ==
  /\ event' = event /\ shown' = shown /\ grant'[c] = grant[c]
  /\ \A p \in Photos : <<c, p>> \in picks' <=> <<c, p>> \in picks
  /\ \A i \in Invites : invite[i].client = c => invite'[i] = invite[i]
\* A request that did not move is overtaken, or its rows are as they were.
Stays(q) ==
  \/ req'[q] = req[q] /\ (req[q].pc = "idle" \/ Untouched(req[q].client))
  \/ req'[q] = [req[q] EXCEPT !.overtaken = TRUE]

LEMMA TermsTypes ==
  /\ NoTerms \in Terms /\ Offers \subseteq Terms
  /\ NoGrant \in Grant /\ NoInviteRow \in Invite /\ Idle \in Request
  /\ \A t \in Terms : NewGrant(t) \in Grant /\ Pass(t) \in Terms
  /\ \A t, u \in Terms : Refresh(t, u) \in Terms
<1>1. (CHOOSE n \in Caps : TRUE) \in Caps
  BY SelectionAssumption
<1>2. NoTerms \in Terms /\ Offers \subseteq Terms
  BY <1>1 DEF NoTerms, Terms, Offers, Expiry
<1>3. \A t \in Terms : NewGrant(t) \in Grant /\ Pass(t) \in Terms
  BY DEF NewGrant, NoGrant, Grant, Pass, Terms, Expiry
<1>4. \A t, u \in Terms : Refresh(t, u) \in Terms
  BY DEF Refresh, Terms, Expiry
<1> QED
  BY <1>2, <1>3, <1>4 DEF NoGrant, Grant, NoInviteRow, Invite, Idle, Request

LEMMA SamePicks ==
  ASSUME NEW c, Untouched(c)
  PROVE  PicksOf(c)' = PicksOf(c) /\ Count(c)' = Count(c) /\ Access(c)' = Access(c)
<1>1. PicksOf(c)' = PicksOf(c)
  BY DEF Untouched, PicksOf
<1> QED BY <1>1 DEF Untouched, Count, Access

LEMMA SoundStays ==
  ASSUME IInv, NEW q \in Requests, Stays(q)
  PROVE  Sound(req[q])'
<1> DEFINE c == req[q].client
<1>1. req[q] \in Request /\ Sound(req[q]) /\ Shape(req[q]) /\ Held(q)
  BY DEF IInv, TypeOK
<1>2. CASE req'[q] = [req[q] EXCEPT !.overtaken = TRUE]
  BY <1>1, <1>2 DEF Sound, Request
<1>3. CASE req'[q] = req[q] /\ req[q].pc = "idle"
  BY <1>3 DEF Sound
<1>4. CASE req'[q] = req[q] /\ Untouched(c)
  <2>1. Count(c)' = Count(c) /\ Access(c)' = Access(c)
    BY <1>4, SamePicks
  <2>2. MayPick(req[q]) => MayPick(req[q])'
    BY <1>4, <2>1 DEF MayPick, Untouched
  <2>3. HasRoom(req[q]) => HasRoom(req[q])'
    BY <1>4, <2>1 DEF HasRoom
  <2>4. req[q].pc \in {"account", "join", "accept"} /\ Outstanding(req[q]) => Outstanding(req[q])'
    BY <1>1, <1>4 DEF Outstanding, Shape, Held, Untouched
  <2> QED BY <1>1, <1>4, <2>1, <2>2, <2>3, <2>4 DEF Sound, Untouched
<1> QED BY <1>2, <1>3, <1>4 DEF Stays

rows == <<event, shown, account, grant, invite, picks>>
RowTypes ==
  /\ event \in [archived : BOOLEAN, selection : BOOLEAN, downloads : BOOLEAN]
  /\ shown \subseteq Photos /\ account \subseteq Clients
  /\ grant \in [Clients -> Grant] /\ \A c \in Clients : grant[c].live => c \in account
  /\ invite \in [Invites -> Invite]
  /\ picks \subseteq Clients \X Photos

\* An invite of a request that does not run keeps its client, and is not made by another.
InvitesKept(r) ==
  /\ \A i \in Invites : \/ invite'[i] = invite[i]
                        \/ /\ invite'[i].status # "none"
                           /\ invite[i].status # "none" => invite'[i].client = invite[i].client
                           /\ invite[i].status = "none" => req[r].invite = i
  /\ LET i == req'[r].invite
     IN i \in Invites => \/ i = req[r].invite
                         \/ invite[i].status # "none"
                         \/ \A q \in Requests : req[q].invite # i

LEMMA HeldStays ==
  ASSUME IInv, NEW r \in Requests, InvitesKept(r),
         req' \in [Requests -> Request], \A s \in Requests \ {r} : Stays(s),
         NEW q \in Requests \ {r}
  PROVE  Held(q)'
<1> DEFINE i == req[q].invite
<1>1. req[q] \in Request /\ Held(q) /\ Held(r)
  BY DEF IInv, TypeOK
<1>2. /\ req'[q].invite = i /\ req'[q].client = req[q].client /\ req'[q].pc = req[q].pc
  BY <1>1 DEF Stays, Request
<1> SUFFICES ASSUME i \in Invites
    PROVE  /\ invite'[i].status # "none" => invite'[i].client = req[q].client
           /\ invite'[i].status = "none" =>
                req[q].pc = "invite" /\ \A s \in Requests : req'[s].invite = i => s = q
  BY <1>2 DEF Held
<1>3. CASE invite'[i] = invite[i]
  <2>1. ASSUME invite[i].status = "none", NEW s \in Requests, req'[s].invite = i PROVE s = q
    <3>1. \A t \in Requests : req[t].invite = i => t = q
      BY <1>1, <2>1 DEF Held
    <3>2. CASE s = r
      BY <1>1, <2>1, <3>1, <3>2 DEF InvitesKept
    <3>3. CASE s # r
      <4>1. req[s] \in Request /\ Stays(s)
        BY <3>3 DEF IInv, TypeOK
      <4>2. req[s].invite = i
        BY <2>1, <4>1 DEF Stays, Request
      <4> QED BY <3>1, <4>2
    <3> QED BY <3>2, <3>3
  <2> QED BY <1>1, <1>3, <2>1 DEF Held
<1>4. CASE invite'[i] # invite[i]
  <2>1. invite[i].status = "none" => req[r].invite = i
    BY <1>4 DEF InvitesKept
  <2>2. invite[i].status # "none"
    BY <1>1, <2>1 DEF Held
  <2> QED BY <1>1, <1>4, <2>2 DEF InvitesKept, Held
<1> QED BY <1>3, <1>4

\* A step of request r keeps the invariant if it keeps it of the rows and of r.
LEMMA Moves ==
  ASSUME IInv, NEW r \in Requests,
         RowTypes', InviteRows', account \subseteq account', InvitesKept(r),
         req' \in [Requests -> Request], requests' \in 0..MaxRequests,
         \A q \in Requests \ {r} : Stays(q),
         Shape(req[r])', Held(r)', Sound(req[r])'
  PROVE  IInv'
<1>1. TypeOK'
  BY DEF RowTypes, TypeOK
<1>2. ASSUME NEW q \in Requests \ {r} PROVE Shape(req[q])' /\ Held(q)' /\ Sound(req[q])'
  <2>1. req[q] \in Request /\ Shape(req[q]) /\ Stays(q)
    BY DEF IInv, TypeOK
  <2>2. Shape(req[q])'
    BY <2>1 DEF Shape, Stays, Request
  <2> QED BY <2>1, <2>2, HeldStays, SoundStays
<1> QED BY <1>1, <1>2 DEF IInv

-----------------------------------------------------------------------------
(* The steps.  Those that only read leave every row and other request alone. *)

LEMMA Reads ==
  ASSUME IInv, NEW r \in Requests, UNCHANGED rows, requests' \in 0..MaxRequests,
         req' = [req EXCEPT ![r] = req'[r]], req'[r] \in Request,
         LET i == req'[r].invite
         IN i \in Invites => \/ i = req[r].invite \/ invite[i].status # "none"
                             \/ \A q \in Requests : req[q].invite # i,
         Shape(req'[r]), Held(r)', Sound(req'[r])
  PROVE  IInv'
<1>1. /\ event' = event /\ shown' = shown /\ account' = account /\ grant' = grant
      /\ invite' = invite /\ picks' = picks
  BY DEF rows
<1>2. RowTypes' /\ InviteRows' /\ account \subseteq account' /\ InvitesKept(r)
  BY <1>1 DEF IInv, TypeOK, RowTypes, InviteRows, InvitesKept
<1>3. req' \in [Requests -> Request]
  BY DEF IInv, TypeOK
<1>4. ASSUME NEW q \in Requests \ {r} PROVE Stays(q)
  BY <1>1 DEF Stays, Untouched, IInv, TypeOK
<1>5. Shape(req[r])' /\ Sound(req[r])'
  BY <1>1 DEF Shape, Sound, MayPick, HasRoom, Outstanding, Access, Count, PicksOf
<1> QED BY <1>2, <1>3, <1>4, <1>5, Moves

\* Held of a request that goes on with the invite it has, or without one.
LEMMA HeldGoesOn ==
  ASSUME IInv, NEW r \in Requests, invite' = invite, req' = [req EXCEPT ![r] = req'[r]],
         \/ /\ req'[r].invite = req[r].invite /\ req'[r].client = req[r].client
            /\ req[r].pc = "invite" => req'[r].pc = "invite"
         \/ req'[r].invite \notin Invites
  PROVE  Held(r)'
<1>1. req \in [Requests -> Request] /\ Held(r)
  BY DEF IInv, TypeOK
<1> QED BY <1>1 DEF Held

LEMMA EndInv == ASSUME IInv, NEW r \in Requests, End(r) PROVE IInv'
<1>1. req'[r] = Idle /\ req' = [req EXCEPT ![r] = req'[r]] /\ UNCHANGED rows
      /\ invite' = invite /\ requests' \in 0..MaxRequests
  BY DEF End, Goto, rows, IInv, TypeOK
<1>2. req'[r] \in Request /\ Shape(req'[r]) /\ Sound(req'[r]) /\ req'[r].invite \notin Invites
  BY <1>1, TermsTypes, SelectionAssumption DEF Idle, Shape, Sound
<1> QED BY <1>1, <1>2, HeldGoesOn, Reads

LEMMA BeginIs ==
  ASSUME IInv, NEW r \in Requests, NEW new \in Request, Begin(r, new)
  PROVE  /\ req'[r] = new /\ req' = [req EXCEPT ![r] = req'[r]] /\ UNCHANGED rows
         /\ invite' = invite /\ requests' \in 0..MaxRequests
  BY SelectionAssumption DEF Begin, rows, IInv, TypeOK

LEMMA PickStarts == ASSUME IInv, NEW r \in Requests, StartPick(r) PROVE IInv'
<1>1. PICK c \in Clients, p \in Photos, on \in BOOLEAN :
        /\ Access(c) /\ ~grant[c].submitted
        /\ Begin(r, [Idle EXCEPT !.pc = "find", !.client = c, !.photo = p, !.on = on,
                       !.terms = grant[c].terms])
  BY DEF StartPick
<1>2. grant[c].terms \in Terms
  BY DEF IInv, TypeOK, Grant
<1>3. PICK new \in Request :
        new = [Idle EXCEPT !.pc = "find", !.client = c, !.photo = p, !.on = on,
                 !.terms = grant[c].terms]
  BY <1>2, TermsTypes DEF Request, Idle
<1>4. Begin(r, new)
  BY <1>1, <1>3
<1>5. /\ req'[r] = new /\ req' = [req EXCEPT ![r] = req'[r]] /\ UNCHANGED rows
      /\ invite' = invite /\ requests' \in 0..MaxRequests
  BY <1>4, BeginIs
<1>6. /\ new.pc = "find" /\ new.client = c /\ new.photo = p /\ new.terms = grant[c].terms
      /\ new.invite \notin Invites
  BY <1>3, SelectionAssumption DEF Idle
<1>7. Shape(new) /\ Sound(new)
  BY <1>1, <1>6 DEF Shape, Sound, MayPick
<1> QED BY <1>5, <1>6, <1>7, HeldGoesOn, Reads

LEMMA SubmitStarts == ASSUME IInv, NEW r \in Requests, StartSubmit(r) PROVE IInv'
<1>1. PICK c \in Clients :
        Access(c) /\ Begin(r, [Idle EXCEPT !.pc = "submit", !.client = c])
  BY DEF StartSubmit
<1>2. PICK new \in Request : new = [Idle EXCEPT !.pc = "submit", !.client = c]
  BY TermsTypes DEF Request, Idle
<1>3. /\ req'[r] = new /\ req' = [req EXCEPT ![r] = req'[r]] /\ UNCHANGED rows
      /\ invite' = invite /\ requests' \in 0..MaxRequests
  BY <1>1, <1>2, BeginIs
<1>4. new.pc = "submit" /\ new.client = c /\ new.invite \notin Invites
  BY <1>2, SelectionAssumption DEF Idle
<1>5. Shape(new) /\ Sound(new)
  BY <1>1, <1>4 DEF Shape, Sound
<1> QED BY <1>3, <1>4, <1>5, HeldGoesOn, Reads

LEMMA ExportStarts == ASSUME IInv, NEW r \in Requests, StartExport(r) PROVE IInv'
<1>1. PICK c \in Clients :
        Access(c) /\ event.downloads /\ Begin(r, [Idle EXCEPT !.pc = "serve", !.client = c])
  BY DEF StartExport
<1>2. PICK new \in Request : new = [Idle EXCEPT !.pc = "serve", !.client = c]
  BY TermsTypes DEF Request, Idle
<1>3. /\ req'[r] = new /\ req' = [req EXCEPT ![r] = req'[r]] /\ UNCHANGED rows
      /\ invite' = invite /\ requests' \in 0..MaxRequests
  BY <1>1, <1>2, BeginIs
<1>4. new.pc = "serve" /\ new.client = c /\ new.invite \notin Invites
  BY <1>2, SelectionAssumption DEF Idle
<1>5. Shape(new) /\ Sound(new)
  BY <1>1, <1>4 DEF Shape, Sound
<1> QED BY <1>3, <1>4, <1>5, HeldGoesOn, Reads

\* POST /:id/clients/create and /clients/invite begin in the same way.
LEMMA GrantStarts ==
  ASSUME IInv, NEW r \in Requests, StartGrant(r) \/ StartInvite(r)
  PROVE  IInv'
<1>1. PICK c \in Clients, t \in Offers, pc \in {"upsert", "provision", "pending"} :
        /\ pc = "upsert" => c \in account
        /\ Begin(r, [Idle EXCEPT !.client = c, !.terms = t, !.pc = pc])
  <2>1. CASE StartGrant(r)
    <3>1. PICK c \in Clients, t \in Offers :
            Begin(r, [Idle EXCEPT !.client = c, !.terms = t,
                        !.pc = IF c \in account THEN "upsert" ELSE "provision"])
      BY <2>1 DEF StartGrant
    <3>2. CASE c \in account
      BY <3>1, <3>2
    <3>3. CASE c \notin account
      BY <3>1, <3>3
    <3> QED BY <3>2, <3>3
  <2>2. CASE StartInvite(r)
    <3>1. PICK c \in Clients, t \in Offers :
            Begin(r, [Idle EXCEPT !.client = c, !.terms = t,
                        !.pc = IF c \in account THEN "upsert" ELSE "pending"])
      BY <2>2 DEF StartInvite
    <3>2. CASE c \in account
      BY <3>1, <3>2
    <3>3. CASE c \notin account
      BY <3>1, <3>3
    <3> QED BY <3>2, <3>3
  <2> QED BY <2>1, <2>2
<1>2. PICK new \in Request : new = [Idle EXCEPT !.client = c, !.terms = t, !.pc = pc]
  BY TermsTypes DEF Request, Idle
<1>3. /\ req'[r] = new /\ req' = [req EXCEPT ![r] = req'[r]] /\ UNCHANGED rows
      /\ invite' = invite /\ requests' \in 0..MaxRequests
  BY <1>1, <1>2, BeginIs
<1>4. new.pc = pc /\ new.client = c /\ new.invite \notin Invites
  BY <1>2, SelectionAssumption DEF Idle
<1>5. Shape(new) /\ Sound(new)
  BY <1>1, <1>4 DEF Shape, Sound
<1> QED BY <1>3, <1>4, <1>5, HeldGoesOn, Reads

LEMMA AcceptStarts == ASSUME IInv, NEW r \in Requests, StartAccept(r) PROVE IInv'
<1>1. PICK i \in Invites :
        /\ invite[i].status = "pending" /\ invite[i].terms.expires # "past"
        /\ Begin(r, [Idle EXCEPT !.pc = "account", !.client = invite[i].client,
                       !.invite = i, !.terms = invite[i].terms])
  BY DEF StartAccept
<1>2. invite[i].terms \in Terms /\ invite[i].client \in Clients
  BY <1>1 DEF IInv, TypeOK, Invite, InviteRows
<1>3. PICK new \in Request :
        new = [Idle EXCEPT !.pc = "account", !.client = invite[i].client,
                 !.invite = i, !.terms = invite[i].terms]
  BY <1>2, TermsTypes DEF Request, Idle
<1>4. Begin(r, new)
  BY <1>1, <1>3
<1>5. /\ req'[r] = new /\ req' = [req EXCEPT ![r] = req'[r]] /\ UNCHANGED rows
      /\ invite' = invite /\ requests' \in 0..MaxRequests
  BY <1>4, BeginIs
<1>6. /\ new.pc = "account" /\ new.client = invite[i].client /\ new.invite = i
      /\ new.terms = invite[i].terms
  BY <1>3 DEF Idle
<1>7. Shape(new) /\ Sound(new)
  BY <1>1, <1>2, <1>6 DEF Shape, Sound, Outstanding
<1>8. Held(r)'
  BY <1>1, <1>5, <1>6 DEF Held
<1> QED BY <1>1, <1>5, <1>6, <1>7, <1>8, Reads

\* A step that only reads and goes on to pc with the invite it has.
LEMMA GoesOn ==
  ASSUME IInv, NEW r \in Requests, NEW pc, Goto(r, [req[r] EXCEPT !.pc = pc]),
         [req[r] EXCEPT !.pc = pc] \in Request, req[r].pc # "invite",
         Shape([req[r] EXCEPT !.pc = pc]), Sound([req[r] EXCEPT !.pc = pc])
  PROVE  IInv'
<1>1. /\ req'[r] = [req[r] EXCEPT !.pc = pc] /\ req' = [req EXCEPT ![r] = req'[r]]
      /\ UNCHANGED rows /\ invite' = invite /\ requests' \in 0..MaxRequests
  BY DEF Goto, rows, IInv, TypeOK
<1>2. req[r] \in Request
  BY DEF IInv, TypeOK
<1>3. req'[r].invite = req[r].invite /\ req'[r].client = req[r].client
  BY <1>1, <1>2 DEF Request
<1>4. Held(r)'
  BY <1>1, <1>3, HeldGoesOn
<1> QED BY <1>1, <1>3, <1>4, Reads

LEMMA PickIsFound == ASSUME IInv, NEW r \in Requests, FindPick(r) PROVE IInv'
<1> DEFINE q == req[r]
<1>1. q \in Request /\ Shape(q) /\ Sound(q) /\ q.pc = "find"
  BY DEF IInv, TypeOK, FindPick
<1>2. CASE End(r)
  BY <1>2, EndInv
<1>3. CASE ~(q.photo \notin shown \/ q.on = (<<q.client, q.photo>> \in picks))
  <2>1. PICK pc \in {"count", "create"} :
          /\ Goto(r, [q EXCEPT !.pc = pc])
          /\ pc = "create" => ~(q.on /\ q.terms.cap > 0)
    <3>1. CASE q.on /\ q.terms.cap > 0
      BY <1>3, <3>1 DEF FindPick
    <3>2. CASE ~(q.on /\ q.terms.cap > 0)
      BY <1>3, <3>2 DEF FindPick
    <3> QED BY <3>1, <3>2
  <2>2. [q EXCEPT !.pc = pc] \in Request
    BY <1>1 DEF Request
  <2>3. Shape([q EXCEPT !.pc = pc])
    BY <1>1 DEF Shape, Request
  <2>4. Sound([q EXCEPT !.pc = pc])
    BY <1>1, <1>3, <2>1 DEF Sound, MayPick, HasRoom, Request
  <2> QED BY <1>1, <2>1, <2>2, <2>3, <2>4, GoesOn
<1> QED BY <1>2, <1>3 DEF FindPick

LEMMA CapsAreNumbers == \A c \in Caps : c \in Nat /\ c \in Int
BY SelectionAssumption

LEMMA PicksAreCounted == ASSUME IInv, NEW r \in Requests, CountPicks(r) PROVE IInv'
<1> DEFINE q == req[r]
           new == [q EXCEPT !.pc = "create"]
<1>1. q \in Request /\ Shape(q) /\ Sound(q) /\ q.pc = "count"
  BY DEF IInv, TypeOK, CountPicks
<1>2. CASE End(r)
  BY <1>2, EndInv
<1>3. CASE ~(Count(q.client) >= q.terms.cap) /\ Goto(r, new)
  <2>1. new \in Request /\ Shape(new)
    BY <1>1 DEF Request, Shape
  <2>2. Count(q.client) < q.terms.cap
    <3>1. q.terms.cap \in Int
      <4>1. q.terms \in Terms
        BY <1>1 DEF Request
      <4>2. q.terms.cap \in Caps
        BY <4>1 DEF Terms
      <4> QED BY <4>2, CapsAreNumbers
    <3>2. Count(q.client) \in Int
      <4>1. IsFiniteSet(PicksOf(q.client) \cap shown)
        BY SelectionAssumption, FS_Subset DEF PicksOf
      <4> QED BY <4>1, FS_CardinalityType DEF Count
    <3> QED BY <1>3, <3>1, <3>2
  <2>3. /\ new.pc = "create" /\ new.client = q.client /\ new.terms = q.terms
        /\ new.photo = q.photo /\ new.on = q.on /\ new.overtaken = q.overtaken
    BY <1>1 DEF Request
  <2>4. ~q.overtaken => MayPick(new)
    BY <1>1, <2>3 DEF Sound, MayPick
  <2>5. ~q.overtaken => new.photo \in shown
    BY <1>1, <2>3 DEF Sound
  <2>6. HasRoom(new)
    BY <2>2, <2>3 DEF HasRoom
  <2>7. Sound(new)
    BY <2>3, <2>4, <2>5, <2>6 DEF Sound
  <2> QED BY <1>1, <1>3, <2>1, <2>7, GoesOn
<1> QED BY <1>2, <1>3 DEF CountPicks

LEMMA AccountIsFound == ASSUME IInv, NEW r \in Requests, FindAccount(r) PROVE IInv'
<1> DEFINE q == req[r]
<1>1. q \in Request /\ Shape(q) /\ Sound(q) /\ q.pc = "account"
  BY DEF IInv, TypeOK, FindAccount
<1>2. PICK pc \in {"accept", "join"} :
        Goto(r, [q EXCEPT !.pc = pc]) /\ (pc = "accept" => q.client \in account)
  <2>1. CASE q.client \in account
    BY <2>1 DEF FindAccount
  <2>2. CASE q.client \notin account
    BY <2>2 DEF FindAccount
  <2> QED BY <2>1, <2>2
<1>3. [q EXCEPT !.pc = pc] \in Request
  BY <1>1 DEF Request
<1>4. Shape([q EXCEPT !.pc = pc]) /\ Sound([q EXCEPT !.pc = pc])
  BY <1>1, <1>2 DEF Shape, Sound, Outstanding, Request
<1> QED BY <1>1, <1>2, <1>3, <1>4, GoesOn

LEMMA PendingIsFound == ASSUME IInv, NEW r \in Requests, FindPending(r) PROVE IInv'
<1> DEFINE q == req[r]
<1>1. q \in Request /\ Shape(q) /\ q.pc = "pending"
  BY DEF IInv, TypeOK, FindPending
<1>2. PICK i \in Pending(q.client) \cup Unused :
        Goto(r, [q EXCEPT !.pc = "invite", !.invite = i])
  BY DEF FindPending, Some
<1>3. i \in Invites
  BY <1>2 DEF Pending, Unused
<1>4. /\ req'[r] = [q EXCEPT !.pc = "invite", !.invite = i] /\ req' = [req EXCEPT ![r] = req'[r]]
      /\ UNCHANGED rows /\ invite' = invite /\ requests' \in 0..MaxRequests
  BY <1>2 DEF Goto, rows, IInv, TypeOK
<1>5. /\ req'[r] \in Request /\ req'[r].pc = "invite" /\ req'[r].invite = i
      /\ req'[r].client = q.client
  BY <1>1, <1>3, <1>4 DEF Request
<1>6. Shape(req'[r]) /\ Sound(req'[r])
  BY <1>1, <1>3, <1>5 DEF Shape, Sound
<1>7. \/ invite[i].status # "none" /\ invite[i].client = q.client
      \/ invite[i].status = "none" /\ (\A s \in Requests : req[s].invite # i)
  BY <1>2 DEF Pending, Unused
<1>8. Held(r)'
  <2>1. ASSUME invite[i].status = "none", NEW s \in Requests, req'[s].invite = i PROVE s = r
    BY <1>4, <1>7, <2>1 DEF IInv, TypeOK
  <2> QED BY <1>4, <1>5, <1>7, <2>1 DEF Held
<1> QED BY <1>4, <1>5, <1>6, <1>7, <1>8, Reads

-----------------------------------------------------------------------------
(* Steps that write rows of their client overtake its other requests.      *)

LEMMA WriteIs ==
  ASSUME IInv, NEW r \in Requests, NEW pc, Write(r, pc), [req[r] EXCEPT !.pc = pc] \in Request
  PROVE  /\ event' = event /\ shown' = shown /\ requests' \in 0..MaxRequests
         /\ req' \in [Requests -> Request]
         /\ req'[r] = IF pc = "idle" THEN Idle ELSE [req[r] EXCEPT !.pc = pc]
         /\ \A q \in Requests \ {r} :
              req'[q] = IF req[q].client = req[r].client
                        THEN [req[q] EXCEPT !.overtaken = TRUE] ELSE req[q]
<1>1. req \in [Requests -> Request] /\ requests \in 0..MaxRequests
  BY DEF IInv, TypeOK
<1>2. \A q \in Requests : [req[q] EXCEPT !.overtaken = TRUE] \in Request
  BY <1>1 DEF Request
<1>3. Overtake({req[r].client}) \in [Requests -> Request]
  BY <1>1, <1>2 DEF Overtake
<1>4. (IF pc = "idle" THEN Idle ELSE [req[r] EXCEPT !.pc = pc]) \in Request
  BY TermsTypes
<1> QED BY <1>1, <1>3, <1>4 DEF Write, Overtake

LEMMA Writes ==
  ASSUME IInv, NEW r \in Requests, req[r].pc # "idle",
         NEW pc \in {"idle", "supersede", "map", "accept", "mark"}, Write(r, pc),
         RowTypes', InviteRows', account \subseteq account',
         \A c \in Clients \ {req[r].client} :
           /\ grant'[c] = grant[c]
           /\ \A p \in Photos : <<c, p>> \in picks' <=> <<c, p>> \in picks
           /\ \A i \in Invites : invite[i].client = c => invite'[i] = invite[i],
         \A i \in Invites : \/ invite'[i] = invite[i]
                            \/ /\ invite'[i].status # "none"
                               /\ invite[i].status # "none" => invite'[i].client = invite[i].client
                               /\ invite[i].status = "none" => req[r].invite = i,
         pc # "idle" => invite' = invite /\ req[r].pc # "invite" /\ req[r].client \in account',
         pc \in {"accept", "mark"} => req[r].pc \in {"join", "accept"},
         pc = "accept" => req[r].pc = "join"
  PROVE  IInv'
<1>1. req[r] \in Request /\ Shape(req[r]) /\ Held(r) /\ Sound(req[r]) /\ req[r].client \in Clients
  BY DEF IInv, TypeOK, Shape
<1>2. [req[r] EXCEPT !.pc = pc] \in Request
  BY <1>1 DEF Request
<1>3. /\ event' = event /\ shown' = shown /\ requests' \in 0..MaxRequests
      /\ req' \in [Requests -> Request]
      /\ req'[r] = IF pc = "idle" THEN Idle ELSE [req[r] EXCEPT !.pc = pc]
      /\ \A q \in Requests \ {r} :
           req'[q] = IF req[q].client = req[r].client
                     THEN [req[q] EXCEPT !.overtaken = TRUE] ELSE req[q]
  BY <1>2, WriteIs
<1>4. ASSUME NEW q \in Requests \ {r} PROVE Stays(q)
  <2>1. Shape(req[q])
    BY DEF IInv
  <2>2. CASE req[q].client = req[r].client
    BY <1>3, <2>2 DEF Stays
  <2>3. CASE req[q].client # req[r].client
    <3>1. req'[q] = req[q]
      BY <1>3, <2>3
    <3>2. req[q].pc # "idle" => req[q].client \in Clients \ {req[r].client}
      BY <2>1, <2>3 DEF Shape
    <3> QED BY <1>3, <3>1, <3>2 DEF Stays, Untouched
  <2> QED BY <2>2, <2>3
<1>5. CASE pc = "idle"
  <2>1. req'[r] = Idle
    BY <1>3, <1>5
  <2>2. Shape(req[r])' /\ Held(r)' /\ Sound(req[r])' /\ req'[r].invite \notin Invites
    BY <2>1, SelectionAssumption DEF Idle, Shape, Held, Sound
  <2>3. InvitesKept(r)
    BY <2>2 DEF InvitesKept
  <2> QED BY <1>3, <1>4, <2>2, <2>3, Moves
<1>6. CASE pc # "idle"
  <2>1. /\ req'[r].pc = pc /\ req'[r].client = req[r].client /\ req'[r].invite = req[r].invite
        /\ req'[r].terms = req[r].terms /\ req'[r].overtaken = req[r].overtaken
    BY <1>1, <1>3, <1>6 DEF Request
  <2>2. Shape(req[r])'
    BY <1>1, <1>6, <2>1 DEF Shape
  <2>3. Held(r)'
    BY <1>1, <1>6, <2>1 DEF Held
  <2>4. Sound(req[r])'
    BY <1>1, <1>6, <2>1 DEF Sound, Outstanding
  <2>5. InvitesKept(r)
    BY <2>1 DEF InvitesKept
  <2> QED BY <1>3, <1>4, <2>2, <2>3, <2>4, <2>5, Moves
<1> QED BY <1>5, <1>6

LEMMA PickIsSet == ASSUME IInv, NEW r \in Requests, SetPick(r) PROVE IInv'
<1> DEFINE q == req[r]
<1>1. q \in Request /\ q.pc = "create" /\ q.client \in Clients /\ q.photo \in Photos
  BY DEF IInv, TypeOK, SetPick, Shape
<1>2. CASE End(r)
  BY <1>2, EndInv
<1>3. CASE ~End(r)
  <2>1. /\ picks' = IF q.on THEN picks \cup {<<q.client, q.photo>>} ELSE picks \ {<<q.client, q.photo>>}
        /\ Write(r, "idle") /\ UNCHANGED <<account, grant, invite>>
    BY <1>3 DEF SetPick
  <2>2. event' = event /\ shown' = shown
    BY <2>1 DEF Write
  <2>3. RowTypes' /\ InviteRows'
    BY <1>1, <2>1, <2>2 DEF IInv, TypeOK, RowTypes, InviteRows
  <2>4. \A c \in Clients \ {q.client} : \A p \in Photos : <<c, p>> \in picks' <=> <<c, p>> \in picks
    BY <2>1
  <2> QED BY <1>1, <2>1, <2>3, <2>4, Writes
<1> QED BY <1>2, <1>3

LEMMA IsSubmitted == ASSUME IInv, NEW r \in Requests, Submit(r) PROVE IInv'
<1> DEFINE c == req[r].client
<1>1. req[r] \in Request /\ req[r].pc = "submit" /\ c \in Clients
  BY DEF IInv, TypeOK, Submit, Shape
<1>2. CASE End(r)
  BY <1>2, EndInv
<1>3. CASE ~End(r)
  <2>1. /\ grant' = [grant EXCEPT ![c].submitted = TRUE]
        /\ Write(r, "idle") /\ UNCHANGED <<account, invite, picks>>
    BY <1>3 DEF Submit
  <2>2. event' = event /\ shown' = shown
    BY <2>1 DEF Write
  <2>3. RowTypes' /\ InviteRows'
    BY <1>1, <2>1, <2>2 DEF IInv, TypeOK, RowTypes, InviteRows, Grant
  <2>4. \A d \in Clients \ {c} : grant'[d] = grant[d]
    BY <2>1 DEF IInv, TypeOK
  <2> QED BY <1>1, <2>1, <2>3, <2>4, Writes
<1> QED BY <1>2, <1>3

\* A grant is written: the client of the request has an account.
LEMMA Grants ==
  ASSUME IInv, NEW r \in Requests, NEW pc \in {"idle", "supersede", "mark"},
         NEW g \in Grant, g.live, req[r].pc \in {"upsert", "map", "accept"},
         grant' = [grant EXCEPT ![req[r].client] = g],
         Write(r, pc), UNCHANGED <<account, invite, picks>>,
         pc = "mark" => req[r].pc = "accept"
  PROVE  IInv'
<1> DEFINE c == req[r].client
<1>1. c \in Clients /\ c \in account
  BY DEF IInv, Shape
<1>2. event' = event /\ shown' = shown
  BY DEF Write
<1>3. RowTypes' /\ InviteRows'
  BY <1>1, <1>2 DEF IInv, TypeOK, RowTypes, InviteRows
<1>4. \A d \in Clients \ {c} : grant'[d] = grant[d]
  BY DEF IInv, TypeOK
<1> QED BY <1>1, <1>3, <1>4, Writes

LEMMA GrantIsUpserted == ASSUME IInv, NEW r \in Requests, UpsertGrant(r) PROVE IInv'
<1> DEFINE c == req[r].client
           new == IF grant[c].live
                  THEN [grant[c] EXCEPT !.terms = Refresh(grant[c].terms, req[r].terms)]
                  ELSE NewGrant(req[r].terms)
<1>1. req[r] \in Request /\ c \in Clients /\ grant[c] \in Grant /\ grant[c].terms \in Terms
      /\ req[r].terms \in Terms /\ req[r].pc = "upsert"
  BY DEF IInv, TypeOK, UpsertGrant, Shape, Request, Grant
<1>2. new \in Grant /\ new.live
  BY <1>1, TermsTypes DEF Grant, NewGrant, NoGrant
<1>3. grant' = [grant EXCEPT ![c] = new]
  BY <1>1 DEF UpsertGrant, IInv, TypeOK
<1> HIDE DEF new
<1>4. Write(r, "supersede") /\ UNCHANGED <<account, invite, picks>>
  BY DEF UpsertGrant
<1> QED BY <1>1, <1>2, <1>3, <1>4, Grants

LEMMA GrantIsMapped == ASSUME IInv, NEW r \in Requests, MapProvisioned(r) PROVE IInv'
<1> DEFINE new == NewGrant(req[r].terms)
<1>1. req[r] \in Request /\ req[r].pc = "map"
  BY DEF IInv, TypeOK, MapProvisioned
<1>2. new \in Grant /\ new.live
  BY <1>1, TermsTypes DEF Request, NewGrant, NoGrant
<1>3. CASE End(r)
  BY <1>3, EndInv
<1>4. CASE ~End(r)
  <2>1. /\ grant' = [grant EXCEPT ![req[r].client] = new]
        /\ Write(r, "idle") /\ UNCHANGED <<account, invite, picks>>
    BY <1>4 DEF MapProvisioned
  <2> HIDE DEF new
  <2> QED BY <1>1, <1>2, <2>1, Grants
<1> QED BY <1>3, <1>4

LEMMA InviteIsApplied == ASSUME IInv, NEW r \in Requests, ApplyInvite(r) PROVE IInv'
<1> DEFINE c == req[r].client
           new == IF grant[c].live THEN [grant[c] EXCEPT !.terms = req[r].terms]
                                   ELSE NewGrant(req[r].terms)
<1>1. req[r] \in Request /\ c \in Clients /\ grant[c] \in Grant
      /\ req[r].terms \in Terms /\ req[r].pc = "accept"
  BY DEF IInv, TypeOK, ApplyInvite, Shape, Request, Grant
<1>2. new \in Grant /\ new.live
  BY <1>1, TermsTypes DEF Grant, NewGrant, NoGrant
<1>3. grant' = [grant EXCEPT ![c] = new]
  BY <1>1 DEF ApplyInvite, IInv, TypeOK
<1> HIDE DEF new
<1>4. Write(r, "mark") /\ UNCHANGED <<account, invite, picks>>
  BY DEF ApplyInvite
<1> QED BY <1>1, <1>2, <1>3, <1>4, Grants

\* An account is made, and kept.
LEMMA AccountIsMade ==
  ASSUME IInv, NEW r \in Requests, Provision(r) \/ Join(r)
  PROVE  IInv'
<1> DEFINE c == req[r].client
<1>1. CASE End(r)
  BY <1>1, EndInv
<1>2. CASE ~End(r)
  <2>1. PICK pc \in {"map", "accept"} :
          /\ account' = account \cup {c} /\ Write(r, pc) /\ UNCHANGED <<grant, invite, picks>>
          /\ req[r].pc \in {"provision", "join"} /\ (pc = "accept" => req[r].pc = "join")
    BY <1>2 DEF Provision, Join
  <2>2. event' = event /\ shown' = shown
    BY <2>1 DEF Write
  <2>3. c \in Clients
    BY <2>1 DEF IInv, Shape
  <2>4. RowTypes' /\ InviteRows'
    BY <2>1, <2>2, <2>3 DEF IInv, TypeOK, RowTypes, InviteRows
  <2> QED BY <2>1, <2>4, Writes
<1> QED BY <1>1, <1>2

LEMMA InvitesAreDeleted == ASSUME IInv, NEW r \in Requests, DeleteInvites(r) PROVE IInv'
<1> DEFINE c == req[r].client
<1>1. req[r].pc = "supersede" /\ c \in Clients
  BY DEF DeleteInvites, IInv, Shape
<1>2. /\ invite' = [i \in Invites |-> IF i \in Pending(c)
                      THEN [invite[i] EXCEPT !.status = "deleted"] ELSE invite[i]]
      /\ Write(r, "idle") /\ UNCHANGED <<account, grant, picks>>
  BY DEF DeleteInvites
<1>3. event' = event /\ shown' = shown
  BY <1>2 DEF Write
<1>4. ASSUME NEW i \in Invites
      PROVE  /\ invite'[i] \in Invite
             /\ \/ invite'[i] = invite[i]
                \/ /\ invite[i].client = c /\ invite'[i].client = c
                   /\ invite[i].status = "pending" /\ invite'[i].status = "deleted"
  <2>1. invite[i] \in Invite
    BY DEF IInv, TypeOK
  <2> QED BY <1>2, <2>1 DEF Pending, Invite
<1>5. RowTypes'
  BY <1>2, <1>3, <1>4 DEF IInv, TypeOK, RowTypes
<1>6. InviteRows'
  BY <1>1, <1>4 DEF IInv, InviteRows
<1> QED BY <1>1, <1>2, <1>4, <1>5, <1>6, Writes

LEMMA InviteIsSaved == ASSUME IInv, NEW r \in Requests, SaveInvite(r) PROVE IInv'
<1> DEFINE q == req[r]  i == req[r].invite
<1>1. q \in Request /\ q.pc = "invite" /\ q.client \in Clients /\ i \in Invites /\ Held(r)
      /\ q.terms \in Terms /\ invite[i] \in Invite /\ invite[i].terms \in Terms
  BY DEF IInv, TypeOK, SaveInvite, Shape, Request, Invite
<1>2. CASE End(r)
  BY <1>2, EndInv
<1>3. CASE ~End(r)
  <2>1. /\ invite' = [invite EXCEPT ![i].client = q.client,
                        ![i].terms = Refresh(@, q.terms), ![i].status = IF @ = "none" THEN "pending" ELSE @]
        /\ Write(r, "idle") /\ UNCHANGED <<account, grant, picks>>
    BY <1>3 DEF SaveInvite
  <2>2. event' = event /\ shown' = shown
    BY <2>1 DEF Write
  <2>3. Refresh(invite[i].terms, q.terms) \in Terms
    BY <1>1, TermsTypes
  <2>4. /\ invite'[i] \in Invite /\ invite'[i].client = q.client
        /\ invite'[i].status = IF invite[i].status = "none" THEN "pending" ELSE invite[i].status
    BY <1>1, <2>1, <2>3 DEF Invite, IInv, TypeOK
  <2>5. \A j \in Invites \ {i} : invite'[j] = invite[j]
    BY <2>1 DEF IInv, TypeOK
  <2>6. RowTypes'
    <3>1. invite' \in [Invites -> Invite]
      BY <2>1, <2>4, <2>5 DEF IInv, TypeOK
    <3> QED BY <2>1, <2>2, <3>1 DEF IInv, TypeOK, RowTypes
  <2>7. InviteRows'
    BY <1>1, <2>4, <2>5 DEF IInv, InviteRows
  <2>8. invite[i].client \notin Clients \ {q.client}
    BY <1>1, SelectionAssumption DEF Held, IInv, InviteRows
  <2>9. invite[i].status # "none" => invite'[i].client = invite[i].client
    BY <1>1, <2>4 DEF Held
  <2>10. invite'[i].status # "none"
    BY <2>4
  <2> QED BY <1>1, <2>1, <2>5, <2>6, <2>7, <2>8, <2>9, <2>10, Writes
<1> QED BY <1>2, <1>3

LEMMA InviteIsMarked == ASSUME IInv, NEW r \in Requests, MarkAccepted(r) PROVE IInv'
<1> DEFINE i == req[r].invite
<1>1. req[r].pc = "mark" /\ req[r].client \in Clients /\ i \in Invites /\ Held(r)
      /\ invite[i] \in Invite
  BY DEF IInv, TypeOK, MarkAccepted, Shape
<1>2. invite[i].status # "none" /\ invite[i].client = req[r].client
  BY <1>1 DEF Held
<1>3. CASE End(r)
  BY <1>3, EndInv
<1>4. CASE ~End(r)
  <2>1. /\ invite' = [invite EXCEPT ![i].status = "accepted"]
        /\ Write(r, "idle") /\ UNCHANGED <<account, grant, picks>>
    BY <1>4 DEF MarkAccepted
  <2>2. event' = event /\ shown' = shown
    BY <2>1 DEF Write
  <2>3. /\ invite'[i] \in Invite /\ invite'[i].client = invite[i].client
        /\ invite'[i].status = "accepted"
    BY <1>1, <2>1 DEF Invite, IInv, TypeOK
  <2>4. \A j \in Invites \ {i} : invite'[j] = invite[j]
    BY <2>1 DEF IInv, TypeOK
  <2>5. RowTypes'
    <3>1. invite' \in [Invites -> Invite]
      BY <2>1, <2>3, <2>4 DEF IInv, TypeOK
    <3> QED BY <2>1, <2>2, <3>1 DEF IInv, TypeOK, RowTypes
  <2>6. InviteRows'
    BY <1>1, <1>2, <2>3, <2>4 DEF IInv, InviteRows
  <2> QED BY <1>1, <1>2, <2>1, <2>3, <2>4, <2>5, <2>6, Writes
<1> QED BY <1>3, <1>4

-----------------------------------------------------------------------------
(* What the studio and the clock do overtakes every request it concerns.   *)

LEMMA OvertakenInv ==
  ASSUME IInv, NEW C \in SUBSET Clients, req' = Overtake(C), requests' \in 0..MaxRequests,
         RowTypes', InviteRows', account' = account,
         \A i \in Invites : /\ invite'[i].status = invite[i].status
                            /\ invite'[i].client = invite[i].client,
         \A c \in Clients \ C : Untouched(c)
  PROVE  IInv'
<1>1. TypeOK' /\ \A q \in Requests : req'[q] \in Request
  <2>1. ASSUME NEW q \in Requests PROVE [req[q] EXCEPT !.overtaken = TRUE] \in Request
    <3>1. req[q] \in Request
      BY DEF IInv, TypeOK
    <3> QED BY <3>1 DEF Request
  <2>2. Overtake(C) \in [Requests -> Request]
    BY <2>1 DEF Overtake, IInv, TypeOK
  <2> QED BY <2>2 DEF RowTypes, TypeOK
<1>2. ASSUME NEW q \in Requests
      PROVE  /\ Stays(q) /\ req'[q].invite = req[q].invite /\ req'[q].client = req[q].client
             /\ req'[q].pc = req[q].pc /\ req'[q].photo = req[q].photo
  <2>1. req[q] \in Request /\ Shape(req[q])
    BY DEF IInv, TypeOK
  <2>2. req'[q] = IF req[q].client \in C THEN [req[q] EXCEPT !.overtaken = TRUE] ELSE req[q]
    BY DEF Overtake
  <2>3. req[q].pc # "idle" => req[q].client \in Clients
    BY <2>1 DEF Shape
  <2> QED BY <2>1, <2>2, <2>3 DEF Stays, Request
<1>3. ASSUME NEW q \in Requests PROVE Shape(req[q])' /\ Held(q)' /\ Sound(req[q])'
  <2>1. Shape(req[q]) /\ Held(q)
    BY DEF IInv
  <2>2. Shape(req[q])'
    BY <1>2, <2>1 DEF Shape
  <2>3. Held(q)'
    BY <1>2, <2>1 DEF Held
  <2> QED BY <1>2, <2>2, <2>3, SoundStays
<1> QED BY <1>1, <1>3 DEF IInv

LEMMA ManageInv ==
  ASSUME IInv, NEW c \in Clients, NEW g \in Grant, Manage(c, g)
  PROVE  IInv'
<1>1. /\ grant[c].live /\ grant' = [grant EXCEPT ![c] = g]
      /\ req' = Overtake({c}) /\ requests' \in 0..MaxRequests
      /\ UNCHANGED <<event, shown, account, invite, picks>>
  BY SelectionAssumption DEF Manage, Studio, IInv, TypeOK
<1>2. RowTypes' /\ InviteRows'
  BY <1>1 DEF IInv, TypeOK, RowTypes, InviteRows
<1>3. \A d \in Clients \ {c} : Untouched(d)
  BY <1>1 DEF Untouched, IInv, TypeOK
<1>4. {c} \in SUBSET Clients
  OBVIOUS
<1> QED BY <1>1, <1>2, <1>3, <1>4, OvertakenInv

LEMMA StudioInv ==
  ASSUME IInv, NEW c \in Clients, Patch(c) \/ Remove(c) \/ Lock(c) \/ Revoke(c)
  PROVE  IInv'
<1>1. grant[c] \in Grant
  BY DEF IInv, TypeOK
<1>2. CASE Patch(c)
  <2>1. PICK t \in Offers : Manage(c, [grant[c] EXCEPT !.terms = t])
    BY <1>2 DEF Patch
  <2>2. PICK g \in Grant : g = [grant[c] EXCEPT !.terms = t]
    BY <1>1, TermsTypes DEF Grant
  <2> QED BY <2>1, <2>2, ManageInv
<1>3. CASE Remove(c)
  BY <1>3, TermsTypes, ManageInv DEF Remove
<1>4. CASE Lock(c)
  <2>1. PICK b \in BOOLEAN : Manage(c, [grant[c] EXCEPT !.submitted = b])
    BY <1>4 DEF Lock
  <2>2. PICK g \in Grant : g = [grant[c] EXCEPT !.submitted = b]
    BY <1>1 DEF Grant
  <2> QED BY <2>1, <2>2, ManageInv
<1>5. CASE Revoke(c)
  <2>1. PICK b \in BOOLEAN : Manage(c, [grant[c] EXCEPT !.revoked = b])
    BY <1>5 DEF Revoke
  <2>2. PICK g \in Grant : g = [grant[c] EXCEPT !.revoked = b]
    BY <1>1 DEF Grant
  <2> QED BY <2>1, <2>2, ManageInv
<1> QED BY <1>2, <1>3, <1>4, <1>5

LEMMA SettingsInv == ASSUME IInv, Settings \/ ShowHide PROVE IInv'
<1>1. /\ req' = Overtake(Clients) /\ requests' \in 0..MaxRequests
      /\ UNCHANGED <<account, grant, invite, picks>>
  BY SelectionAssumption DEF Settings, ToggleSelection, Flip, ShowHide, Studio, IInv, TypeOK
<1>2. event' \in [archived : BOOLEAN, selection : BOOLEAN, downloads : BOOLEAN] /\ shown' \subseteq Photos
  BY DEF Settings, ToggleSelection, Flip, ShowHide, IInv, TypeOK
<1>3. RowTypes' /\ InviteRows'
  BY <1>1, <1>2 DEF IInv, TypeOK, RowTypes, InviteRows
<1>4. Clients \in SUBSET Clients
  OBVIOUS
<1> QED BY <1>1, <1>3, <1>4, OvertakenInv

LEMMA ClockInv == ASSUME IInv, TimePasses PROVE IInv'
<1>1. /\ grant' = [c \in Clients |-> [grant[c] EXCEPT !.terms = Pass(@)]]
      /\ invite' = [i \in Invites |-> [invite[i] EXCEPT !.terms = Pass(@)]]
      /\ req' = Overtake(Clients) /\ requests' \in 0..MaxRequests
      /\ UNCHANGED <<event, shown, account, picks>>
  BY DEF TimePasses, IInv, TypeOK
<1>2. ASSUME NEW c \in Clients PROVE grant'[c] \in Grant /\ grant'[c].live = grant[c].live
  <2>1. grant[c] \in Grant /\ Pass(grant[c].terms) \in Terms
    BY TermsTypes DEF IInv, TypeOK, Grant
  <2> QED BY <1>1, <2>1 DEF Grant
<1>3. ASSUME NEW i \in Invites
      PROVE  /\ invite'[i] \in Invite /\ invite'[i].status = invite[i].status
             /\ invite'[i].client = invite[i].client
  <2>1. invite[i] \in Invite /\ Pass(invite[i].terms) \in Terms
    BY TermsTypes DEF IInv, TypeOK, Invite
  <2> QED BY <1>1, <2>1 DEF Invite
<1>4. RowTypes'
  BY <1>1, <1>2, <1>3 DEF IInv, TypeOK, RowTypes
<1>5. InviteRows'
  BY <1>3 DEF IInv, InviteRows
<1>6. Clients \in SUBSET Clients
  OBVIOUS
<1> QED BY <1>1, <1>3, <1>4, <1>5, <1>6, OvertakenInv

LEMMA InitInv == Init => IInv
<1> SUFFICES ASSUME Init PROVE IInv
  OBVIOUS
<1>1. account \subseteq Clients /\ grant \in [Clients -> Grant]
      /\ \A c \in Clients : grant[c].live <=> c \in account
  <2>1. PICK A \in SUBSET Clients :
          /\ account = A
          /\ grant \in [Clients -> {NoGrant} \cup
                          {[NoGrant EXCEPT !.live = TRUE, !.terms = t] : t \in Offers}]
          /\ \A c \in Clients : grant[c].live <=> c \in A
    BY DEF Init
  <2>2. \A t \in Offers : [NoGrant EXCEPT !.live = TRUE, !.terms = t] \in Grant
    BY TermsTypes DEF Grant, NoGrant
  <2>3. {NoGrant} \cup {[NoGrant EXCEPT !.live = TRUE, !.terms = t] : t \in Offers} \subseteq Grant
    BY <2>2, TermsTypes
  <2> QED BY <2>1, <2>3
<1>2. TypeOK
  <2>1. req \in [Requests -> Request] /\ invite \in [Invites -> Invite]
    <3>1. req = [r \in Requests |-> Idle] /\ invite = [i \in Invites |-> NoInviteRow]
      BY DEF Init
    <3>2. Idle \in Request /\ NoInviteRow \in Invite
      BY TermsTypes
    <3> QED BY <3>1, <3>2
  <2>2. requests \in 0..MaxRequests
    <3>1. requests = 0
      BY DEF Init
    <3> QED BY <3>1, SelectionAssumption
  <2>3. /\ event \in [archived : BOOLEAN, selection : BOOLEAN, downloads : BOOLEAN]
        /\ shown \subseteq Photos /\ picks \subseteq Clients \X Photos
    BY DEF Init
  <2> QED BY <1>1, <2>1, <2>2, <2>3 DEF TypeOK
<1>3. InviteRows
  BY DEF Init, InviteRows, NoInviteRow
<1>4. \A r \in Requests : Shape(req[r]) /\ Held(r) /\ Sound(req[r])
  BY SelectionAssumption DEF Init, Idle, Shape, Held, Sound
<1> QED BY <1>2, <1>3, <1>4 DEF IInv

LEMMA RequestInv ==
  ASSUME IInv, NEW r \in Requests,
         \/ StartPick(r) \/ FindPick(r) \/ CountPicks(r) \/ SetPick(r)
         \/ StartSubmit(r) \/ Submit(r) \/ StartExport(r) \/ StartZip(r) \/ Serve(r)
         \/ StartGrant(r) \/ UpsertGrant(r) \/ DeleteInvites(r)
         \/ Provision(r) \/ MapProvisioned(r)
         \/ StartInvite(r) \/ FindPending(r) \/ SaveInvite(r)
         \/ StartAccept(r) \/ FindAccount(r) \/ Join(r) \/ ApplyInvite(r) \/ MarkAccepted(r)
  PROVE  IInv'
  BY PickStarts, PickIsFound, PicksAreCounted, PickIsSet, SubmitStarts, IsSubmitted,
     ExportStarts, EndInv, GrantStarts, GrantIsUpserted, InvitesAreDeleted, AccountIsMade,
     GrantIsMapped, PendingIsFound, InviteIsSaved, AcceptStarts, AccountIsFound,
     InviteIsApplied, InviteIsMarked DEF StartZip, Serve

LEMMA NextInv == ASSUME IInv, [Next]_vars PROVE IInv'
<1>1. CASE UNCHANGED vars
  <2>1. /\ event' = event /\ shown' = shown /\ account' = account /\ grant' = grant
        /\ invite' = invite /\ picks' = picks /\ req' = req /\ requests' = requests
    BY <1>1 DEF vars
  <2>2. TypeOK' /\ InviteRows'
    BY <2>1 DEF IInv, TypeOK, InviteRows
  <2>3. ASSUME NEW r \in Requests PROVE Shape(req[r])' /\ Held(r)' /\ Sound(req[r])'
    <3>1. Shape(req[r])' /\ Held(r)'
      BY <2>1 DEF IInv, Shape, Held
    <3>2. Stays(r)
      BY <2>1 DEF Stays, Untouched
    <3> QED BY <3>1, <3>2, SoundStays
  <2> QED BY <2>2, <2>3 DEF IInv
<1> QED BY <1>1, RequestInv, StudioInv, SettingsInv, ClockInv DEF Next

\* The rows and the requests of clients and studio are well typed, and whoever has
\* a grant has an account, for any number of clients, photos and invites
\* (client.js:28, events.js:3407-3475).
THEOREM ClientsTyped == Spec => []TypeOK
<1>1. IInv => TypeOK
  BY DEF IInv
<1> QED BY <1>1, InitInv, NextInv, PTL DEF Spec

-----------------------------------------------------------------------------
(* What each step may do, by what IInv says of the request that takes it.  *)

LEMMA PicksNeedAccess ==
  ASSUME IInv, NEW r \in Requests
  PROVE  /\ SetPick(r) =>
              \/ /\ Access(req[r].client) /\ ~grant[req[r].client].submitted
                 /\ req[r].photo \in shown
              \/ req[r].overtaken
         /\ Submit(r) => Access(req[r].client) \/ req[r].overtaken
         /\ Serve(r) => (Access(req[r].client) /\ event.downloads) \/ req[r].overtaken
  BY DEF IInv, Sound, MayPick, SetPick, Submit, Serve

\* Picks change, are submitted and are handed out only while the grant stands
\* (client.js:28, 182, 351), whatever the studio changes between the awaits of any
\* number of requests, unless that overtook the request.
THEOREM AccessIsNeeded == Spec => NothingWithoutAccess
<1> DEFINE A == \A r \in Requests :
       /\ SetPick(r) /\ picks' # picks =>
            \/ /\ Access(req[r].client) /\ ~grant[req[r].client].submitted
               /\ req[r].photo \in shown
            \/ req[r].overtaken
       /\ Submit(r) => Access(req[r].client) \/ req[r].overtaken
       /\ Serve(r) => (Access(req[r].client) /\ event.downloads) \/ req[r].overtaken
<1>1. IInv /\ [Next]_vars => [A]_vars
  BY PicksNeedAccess
<1>2. Spec => [][A]_vars
  <2> HIDE DEF A
  <2> QED BY <1>1, InitInv, NextInv, PTL DEF Spec
<1> QED BY <1>2 DEF NothingWithoutAccess

LEMMA AppliedOnce ==
  ASSUME IInv, NEW r \in Requests, ApplyInvite(r)
  PROVE  \/ /\ invite[req[r].invite].status = "pending"
            /\ invite[req[r].invite].terms = req[r].terms /\ req[r].terms.expires # "past"
         \/ req[r].overtaken
  BY DEF IInv, Sound, Outstanding, ApplyInvite

\* An invite gives its terms once (clientInvites.js:47-100): two acceptances of it,
\* or an acceptance and a new offer, do so twice only if one overtook the other.
THEOREM InvitesGiveOnce == Spec => InviteUsedOnce
<1> DEFINE A == \A r \in Requests : ApplyInvite(r) =>
       \/ /\ invite[req[r].invite].status = "pending"
          /\ invite[req[r].invite].terms = req[r].terms /\ req[r].terms.expires # "past"
       \/ req[r].overtaken
<1>1. IInv /\ [Next]_vars => [A]_vars
  BY AppliedOnce
<1>2. Spec => [][A]_vars
  <2> HIDE DEF A
  <2> QED BY <1>1, InitInv, NextInv, PTL DEF Spec
<1> QED BY <1>2 DEF InviteUsedOnce

-----------------------------------------------------------------------------
(* The cap: a pick that was not overtaken found room and still has it.     *)

LEMMA OnlyPicksPick ==
  ASSUME IInv, [Next]_vars, picks' # picks
  PROVE  \E r \in Requests : SetPick(r)
<1>2. ASSUME NEW r \in Requests,
             \/ StartPick(r) \/ FindPick(r) \/ CountPicks(r)
             \/ StartSubmit(r) \/ Submit(r) \/ StartExport(r) \/ StartZip(r) \/ Serve(r)
             \/ StartGrant(r) \/ UpsertGrant(r) \/ DeleteInvites(r)
             \/ Provision(r) \/ MapProvisioned(r)
             \/ StartInvite(r) \/ FindPending(r) \/ SaveInvite(r)
             \/ StartAccept(r) \/ FindAccount(r) \/ Join(r) \/ ApplyInvite(r) \/ MarkAccepted(r)
      PROVE  picks' = picks
  BY <1>2 DEF StartPick, FindPick, CountPicks, StartSubmit, Submit, StartExport, StartZip, Serve,
       StartGrant, UpsertGrant, DeleteInvites, Provision, MapProvisioned, StartInvite,
       FindPending, SaveInvite, StartAccept, FindAccount, Join, ApplyInvite, MarkAccepted,
       Begin, Goto, End
<1>3. ASSUME NEW c \in Clients, Patch(c) \/ Remove(c) \/ Lock(c) \/ Revoke(c) PROVE picks' = picks
  BY <1>3 DEF Patch, Remove, Lock, Revoke, Manage
<1>4. ASSUME Settings \/ ShowHide \/ TimePasses PROVE picks' = picks
  BY <1>4 DEF Settings, ToggleSelection, Flip, ShowHide, TimePasses
<1>5. ASSUME UNCHANGED vars PROVE picks' = picks
  BY <1>5 DEF vars
<1> QED BY <1>2, <1>3, <1>4, <1>5 DEF Next

LEMMA CountIs ==
  ASSUME IInv, NEW c \in Clients
  PROVE  /\ Count(c) \in Nat
         /\ picks' = picks /\ shown' = shown => Count(c)' = Count(c)
  BY SelectionAssumption, FS_Subset, FS_CardinalityType DEF Count, PicksOf

LEMMA OnePickMore ==
  ASSUME IInv, NEW r \in Requests, SetPick(r), NEW c \in Clients, shown' = shown
  PROVE  /\ Count(c)' \in Nat
         /\ Count(c)' > Count(c) =>
              c = req[r].client /\ req[r].on /\ Count(c)' <= Count(c) + 1
<1> DEFINE q == req[r]
           S == PicksOf(c) \cap shown
           T == PicksOf(c)' \cap shown
<1>1. q.client \in Clients /\ q.photo \in Photos
  BY DEF IInv, Shape, SetPick
<1>2. IsFiniteSet(S) /\ IsFiniteSet(T) /\ Cardinality(S) \in Nat /\ Cardinality(T) \in Nat
      /\ Count(c) = Cardinality(S) /\ Count(c)' = Cardinality(T)
  BY SelectionAssumption, FS_Subset, FS_CardinalityType DEF PicksOf, Count
<1>3. \/ picks' = picks
      \/ picks' = picks \cup {<<q.client, q.photo>>} /\ q.on
      \/ picks' = picks \ {<<q.client, q.photo>>}
  BY DEF SetPick, End, Goto
<1>4. CASE T \subseteq S
  BY <1>2, <1>4, FS_Subset
<1>5. CASE ~(T \subseteq S)
  <2>1. picks' = picks \cup {<<q.client, q.photo>>} /\ q.on /\ q.client = c
    BY <1>3, <1>5 DEF PicksOf
  <2>2. T \subseteq S \cup {q.photo}
    BY <2>1 DEF PicksOf
  <2>3. IsFiniteSet(S \cup {q.photo}) /\ Cardinality(S \cup {q.photo}) <= Cardinality(S) + 1
    <3> HIDE DEF S, q
    <3>1. /\ IsFiniteSet(S \cup {q.photo})
          /\ Cardinality(S \cup {q.photo})
               = IF q.photo \in S THEN Cardinality(S) ELSE Cardinality(S) + 1
      BY <1>2, FS_AddElement
    <3> QED BY <1>2, <3>1
  <2>4. Cardinality(T) <= Cardinality(S \cup {q.photo})
    BY <2>2, <2>3, FS_Subset
  <2>5. Cardinality(S \cup {q.photo}) \in Nat
    BY <2>3, FS_CardinalityType
  <2> HIDE DEF T, S
  <2> QED BY <1>2, <2>1, <2>3, <2>4, <2>5
<1> QED BY <1>4, <1>5

LEMMA CapStep ==
  ASSUME IInv, [Next]_vars, NEW c \in Clients, ~OverCap(c), OverCap(c)',
         grant'[c].terms = grant[c].terms, grant[c].live, shown' = shown
  PROVE  \E r \in Requests : SetPick(r) /\ req[r].client = c /\ req[r].overtaken
<1> DEFINE cap == grant[c].terms.cap
<1>1. cap \in Nat
  <2>1. grant[c].terms \in Terms
    BY DEF IInv, TypeOK, Grant
  <2>2. cap \in Caps
    BY <2>1 DEF Terms
  <2> QED BY <2>2, CapsAreNumbers
<1>2. cap > 0 /\ Count(c) <= cap /\ Count(c)' > cap /\ Count(c) \in Nat
  BY <1>1, CountIs DEF OverCap
<1>3. picks' # picks
  BY <1>1, <1>2, CountIs
<1>4. PICK r \in Requests : SetPick(r)
  BY <1>3, OnlyPicksPick
<1>5. Count(c)' \in Nat /\ (Count(c)' > Count(c) =>
        c = req[r].client /\ req[r].on /\ Count(c)' <= Count(c) + 1)
  BY <1>4, OnePickMore
<1>6. c = req[r].client /\ req[r].on /\ Count(c)' <= Count(c) + 1
  BY <1>1, <1>2, <1>5
<1>7. ~req[r].overtaken => Count(c) < cap
  <2>1. Sound(req[r]) /\ req[r].pc = "create"
    BY <1>4 DEF IInv, SetPick
  <2> QED BY <1>2, <1>6, <2>1 DEF Sound, MayPick, HasRoom
<1> QED BY <1>1, <1>2, <1>4, <1>5, <1>6, <1>7

\* The favourite cap (client.js:202-209): a client goes above it because its terms or
\* the photos changed, or by a pick that another one overtook, and in no other way.
THEOREM CapIsKept == Spec => CapHolds
<1> DEFINE A == \A c \in Clients : ~OverCap(c) /\ OverCap(c)' =>
       \/ grant'[c].terms # grant[c].terms \/ ~grant[c].live \/ shown' # shown
       \/ \E r \in Requests : SetPick(r) /\ req[r].client = c /\ req[r].overtaken
<1>1. IInv /\ [Next]_vars => [A]_vars
  BY CapStep
<1>2. Spec => [][A]_vars
  <2> HIDE DEF A
  <2> QED BY <1>1, InitInv, NextInv, PTL DEF Spec
<1> QED BY <1>2 DEF CapHolds

-----------------------------------------------------------------------------
(* Guests: their requests are visits here, and the alert jobs checks.      *)

CONSTANTS Guests, Slots, Checks, Asks, Zips, MaxNudges, MaxVisits, MaxRestarts, NoGuest, NoAsk
VARIABLES gallery, data, consented, alert, ask, zip, nudges, visit, check, visits, restarts

G == INSTANCE Guest WITH
       Requests <- Slots, Jobs <- Checks, MaxRequests <- MaxVisits, MaxCrashes <- MaxRestarts,
       event <- gallery, rows <- data, req <- visit, job <- check,
       requests <- visits, crashes <- restarts

Tables == G!Kinds \cup {"consent", "unreact", "leave", "nudge", "zip"}
Answering == {"ids", "erase", "resolve"}
\* What an erasure that has yet to empty these tables may still leave behind.
Still(K) == IF "lead" \in K THEN K \cup {"contact"} ELSE K
Carries(q) ==
  /\ q.pc # "idle" => q.guest \in Guests
  /\ q.pc = "write" => q.todo # <<>>
  /\ \A i \in 2..Len(q.todo) : q.todo[i] # "nudge"
  /\ q.pc \in Answering => q.ask \in Asks
  /\ q.pc = "erase" /\ ~q.failed => q.left \subseteq Still(q.wipe)
  /\ q.pc = "resolve" /\ q.answer = "completed" => q.left = {}
\* What a visit read holds until another one has written it.
Current(q) ==
  ~q.overtaken =>
    /\ q.pc \in Answering => ask[q.ask].status = "pending"
    /\ q.pc = "write" /\ Head(q.todo) = "nudge" => q.nudges = nudges
\* Who is due, and who is being written to, may be told; whoever was is not due again.
ToTell(g) == alert[g].active /\ ~alert[g].recent
Alerts(k) ==
  /\ k.pc \in {"send", "stamp"} => k.guest \in Guests \ k.due
  /\ k.pc # "idle" /\ ~k.overtaken => \A g \in k.due : ToTell(g)
  /\ k.pc = "send" /\ ~k.overtaken => ToTell(k.guest)

DataInv ==
  /\ data \in [Guests -> SUBSET G!Kinds]
  /\ \A g \in Guests : /\ "feedback" \in data[g] => "search" \in data[g]
                       /\ "contact" \in data[g] => "lead" \in data[g]
  /\ alert \in [Guests -> [active : BOOLEAN, recent : BOOLEAN]]
AskInv == ask \in [Asks -> G!Ask]
          /\ \A a \in Asks : ask[a].status = "pending" => ask[a].guest \in Guests
VisitInv == visit \in [Slots -> G!Request]
            /\ \A r \in Slots : Carries(visit[r]) /\ Current(visit[r])
CheckInv == check \in [Checks -> G!Job] /\ \A j \in Checks : Alerts(check[j])
RestInv ==
  /\ gallery \in G!Event /\ consented \subseteq Guests /\ zip \in [Zips -> G!ZipStates]
  /\ nudges \in 0..MaxNudges /\ visits \in 0..MaxVisits /\ restarts \in 0..MaxRestarts
GuestInv == G!GuestBounds /\ DataInv /\ AskInv /\ VisitInv /\ CheckInv /\ RestInv

LEMMA GuestInvTypes == GuestInv => G!TypeOK
BY DEF GuestInv, G!TypeOK, DataInv, AskInv, VisitInv, CheckInv, RestInv

\* What a step leaves alone.
LEMMA SameData == ASSUME DataInv, UNCHANGED <<data, alert>> PROVE DataInv'
BY DEF DataInv
LEMMA SameAsks == ASSUME AskInv, UNCHANGED ask PROVE AskInv'
BY DEF AskInv
LEMMA SameVisits == ASSUME VisitInv, UNCHANGED <<visit, ask, nudges>> PROVE VisitInv'
BY DEF VisitInv, Carries, Current
LEMMA SameChecks == ASSUME CheckInv, UNCHANGED <<check, alert>> PROVE CheckInv'
BY DEF CheckInv, Alerts, ToTell
LEMMA ChecksOvertaken == ASSUME CheckInv, check' = G!OvertakeJobs PROVE CheckInv'
<1>1. ASSUME NEW j \in Checks PROVE check'[j] \in G!Job /\ Alerts(check[j])'
  <2> DEFINE k == check[j]
  <2>1. k \in G!Job /\ Alerts(k)
    BY DEF CheckInv
  <2>2. check'[j] = [k EXCEPT !.overtaken = k.overtaken \/ k.pc # "idle"]
    BY DEF G!OvertakeJobs
  <2>3. check'[j] \in G!Job
    BY <2>1, <2>2 DEF G!Job
  <2>4. /\ check'[j].pc = k.pc /\ check'[j].guest = k.guest /\ check'[j].due = k.due
        /\ k.pc # "idle" => check'[j].overtaken
    BY <2>1, <2>2 DEF G!Job
  <2> QED BY <2>1, <2>3, <2>4 DEF Alerts
<1>2. check' \in [Checks -> G!Job]
  BY <1>1 DEF G!OvertakeJobs
<1> QED BY <1>1, <1>2 DEF CheckInv

-----------------------------------------------------------------------------
(* A visit begins.                                                         *)

\* A list of tables to write, none of them the threshold.
Listed(todo) == todo \in Seq(Tables) /\ todo # <<>> /\ \A i \in 1..Len(todo) : todo[i] # "nudge"
\* A visit whose next step writes neither the threshold nor an answer.
Plain(q) == /\ q \in G!Request /\ Carries(q) /\ q.pc \notin Answering
            /\ q.pc = "write" => Head(q.todo) # "nudge"

LEMMA IdleIsPlain == ASSUME G!GuestBounds PROVE Plain(G!Idle)
<1>1. G!Idle \in G!Request
  BY DEF G!Idle, G!Request, G!GuestBounds
<1> QED BY <1>1 DEF Plain, Carries, G!Idle, Answering

LEMMA WritesArePlain ==
  ASSUME G!GuestBounds, NEW g \in Guests, NEW todo, Listed(todo)
  PROVE  Plain(G!Writes(g, todo))
<1> DEFINE q == G!Writes(g, todo)
<1>0. G!Idle \in G!Request /\ todo \in Seq(Tables)
  BY IdleIsPlain DEF Plain, Listed
<1>1. q \in G!Request
  BY <1>0 DEF G!Writes, G!Request, Tables
<1>2. q.pc = "write" /\ q.guest = g /\ q.todo = todo
  BY DEF G!Writes, G!Idle
<1>3. Head(todo) = todo[1] /\ Len(todo) \in Nat \ {0}
  BY DEF Listed
<1> QED BY <1>1, <1>2, <1>3 DEF Plain, Carries, Answering, Listed

LEMMA VisitChanges ==
  ASSUME GuestInv, NEW r \in Slots, NEW new, visit' = [visit EXCEPT ![r] = new],
         UNCHANGED <<ask, nudges>>, new \in G!Request, Carries(new), Current(new)
  PROVE  VisitInv'
<1>1. \A s \in Slots : visit[s] \in G!Request /\ Carries(visit[s]) /\ Current(visit[s])
  BY DEF GuestInv, VisitInv
<1>2. visit' \in [Slots -> G!Request]
  BY DEF GuestInv, VisitInv
<1>3. ASSUME NEW s \in Slots PROVE Carries(visit[s])' /\ Current(visit[s])'
  <2>1. visit'[s] = IF s = r THEN new ELSE visit[s]
    BY DEF GuestInv, VisitInv
  <2> QED BY <1>1, <2>1 DEF Carries, Current
<1> QED BY <1>2, <1>3 DEF VisitInv

LEMMA VisitBegins ==
  ASSUME GuestInv, NEW r \in Slots, NEW new, G!Begin(r, new),
         new \in G!Request, Carries(new), Current(new)
  PROVE  GuestInv'
<1> USE DEF G!Begin, G!guestData
<1>1. VisitInv'
  BY VisitChanges
<1>2. DataInv' /\ AskInv' /\ CheckInv'
  BY SameData, SameAsks, SameChecks DEF GuestInv
<1>3. RestInv'
  BY DEF GuestInv, RestInv, G!GuestBounds
<1> QED BY <1>1, <1>2, <1>3 DEF GuestInv

LEMMA PlainVisitBegins ==
  ASSUME GuestInv, NEW r \in Slots, NEW new, G!Begin(r, new), Plain(new)
  PROVE  GuestInv'
BY VisitBegins DEF Plain, Current

LEMMA ConsentComesFirst == ASSUME NEW todo, Listed(todo) PROVE Listed(G!Consent \o todo)
<1>1. CASE G!Consent = <<"consent">>
  <2> DEFINE u == <<"consent">> \o todo
  <2>1. <<"consent">> \in Seq(Tables) /\ Len(<<"consent">>) = 1 /\ todo \in Seq(Tables)
    BY DEF Tables, Listed
  <2>2. u \in Seq(Tables)
    BY <2>1
  <2>3. Len(u) = 1 + Len(todo)
    BY <2>1
  <2>4. \A i \in 1..Len(u) : u[i] # "nudge"
    BY <2>1, <2>3 DEF Listed
  <2>5. Len(u) # 0
    BY <2>1, <2>3
  <2> QED BY <1>1, <2>2, <2>4, <2>5 DEF Listed
<1>2. CASE G!Consent = <<>>
  BY <1>2 DEF Listed
<1> QED BY <1>1, <1>2 DEF G!Consent

LEMMA ListsAreListed ==
  /\ \A k \in {"lead", "contact", "reaction", "unreact", "comment", "alert", "leave", "activity"} :
       Listed(<<k>>)
  /\ Listed(<<"lead", "activity">>) /\ Listed(<<"zip", "lead", "activity">>)
  /\ Listed(<<"search", "lead", "activity">>)
BY DEF Listed, Tables, G!Kinds

LEMMA VisitorStarts ==
  ASSUME GuestInv, NEW r \in Slots,
         \/ G!Search(r) \/ G!GroupSearch(r) \/ G!LeadForm(r) \/ G!Browse(r) \/ G!React(r)
         \/ G!Remark(r) \/ G!Subscribe(r) \/ G!Unsubscribe(r) \/ G!Share(r) \/ G!Download(r)
         \/ G!DownloadEmail(r)
  PROVE  GuestInv'
<1>1. ASSUME NEW g \in Guests, NEW todo, Listed(todo), G!Begin(r, G!Writes(g, todo))
      PROVE  GuestInv'
  BY <1>1, WritesArePlain, PlainVisitBegins DEF GuestInv
<1>2. /\ Listed(<<"lead", "activity">>) /\ Listed(<<"zip", "lead", "activity">>)
      /\ Listed(G!Consent \o <<"search", "lead", "activity">>)
      /\ Listed(G!Consent \o <<"lead", "activity">>)
      /\ \A k \in {"lead", "contact", "reaction", "unreact", "comment", "alert", "leave", "activity"} :
           Listed(<<k>>)
  BY ListsAreListed, ConsentComesFirst
<1>3. CASE G!Search(r) \/ G!GroupSearch(r)
  BY <1>1, <1>2, <1>3 DEF G!Search, G!GroupSearch
<1>4. CASE G!LeadForm(r)
  BY <1>1, <1>2, <1>4 DEF G!LeadForm
<1>5. CASE G!React(r)
  BY <1>1, <1>2, <1>5 DEF G!React
<1>6. CASE G!Browse(r) \/ G!Download(r) \/ G!DownloadEmail(r)
  BY <1>1, <1>2, <1>6 DEF G!Browse, G!Download, G!DownloadEmail
<1>7. CASE G!Remark(r) \/ G!Subscribe(r) \/ G!Unsubscribe(r) \/ G!Share(r)
  BY <1>1, <1>2, <1>7 DEF G!Remark, G!Subscribe, G!Unsubscribe, G!Share
<1> QED BY <1>3, <1>4, <1>5, <1>6, <1>7

\* The threshold is read with the event: it is what the visit holds.
LEMMA FeedbackStarts == ASSUME GuestInv, NEW r \in Slots, G!Feedback(r) PROVE GuestInv'
<1>1. PICK g \in Guests : G!Begin(r, [G!Writes(g, <<"nudge", "feedback", "activity">>) EXCEPT
                                        !.nudges = nudges])
  BY DEF G!Feedback
<1> DEFINE todo == <<"nudge", "feedback", "activity">>
           new == [G!Writes(g, todo) EXCEPT !.nudges = nudges]
<1>2. G!Idle \in G!Request /\ nudges \in 0..MaxNudges
  BY IdleIsPlain DEF Plain, GuestInv, RestInv
<1>3. todo \in Seq(Tables) /\ Len(todo) = 3 /\ todo # <<>> /\ Head(todo) = "nudge"
      /\ todo[2] # "nudge" /\ todo[3] # "nudge"
  BY DEF Tables, G!Kinds
<1> HIDE DEF todo
<1>4. new \in G!Request
  BY <1>2, <1>3 DEF G!Writes, G!Request, Tables
<1>5. new.pc = "write" /\ new.guest = g /\ new.todo = todo /\ new.nudges = nudges
  BY <1>2 DEF G!Writes, G!Idle, G!Request
<1>6. Carries(new) /\ Current(new)
  BY <1>3, <1>5 DEF Carries, Current, Answering
<1> QED BY <1>1, <1>4, <1>6, VisitBegins DEF todo

LEMMA AskStarts == ASSUME GuestInv, NEW r \in Slots, G!StartAsk(r) PROVE GuestInv'
<1>1. PICK g \in Guests, type \in {"export", "delete"} :
        G!Begin(r, [G!Idle EXCEPT !.pc = "file", !.guest = g, !.type = type])
  BY DEF G!StartAsk
<1> DEFINE new == [G!Idle EXCEPT !.pc = "file", !.guest = g, !.type = type]
<1>2. G!Idle \in G!Request
  BY IdleIsPlain DEF GuestInv, Plain
<1>3. new \in G!Request /\ new.pc = "file" /\ new.guest = g /\ new.todo = <<>>
  BY <1>2 DEF G!Idle, G!Request
<1>4. Plain(new)
  BY <1>3 DEF Plain, Carries, Answering
<1> HIDE DEF new
<1> QED BY <1>1, <1>4, PlainVisitBegins DEF new

LEMMA SweepStarts == ASSUME GuestInv, NEW r \in Slots, G!StartSweep(r) PROVE GuestInv'
<1>1. PICK g \in Guests : G!Begin(r, [G!Idle EXCEPT !.pc = "sweep", !.guest = g])
  BY DEF G!StartSweep
<1> DEFINE new == [G!Idle EXCEPT !.pc = "sweep", !.guest = g]
<1>2. G!Idle \in G!Request
  BY IdleIsPlain DEF GuestInv, Plain
<1>3. new \in G!Request /\ new.pc = "sweep" /\ new.guest = g /\ new.todo = <<>>
  BY <1>2 DEF G!Idle, G!Request
<1>4. Plain(new)
  BY <1>3 DEF Plain, Carries, Answering
<1> HIDE DEF new
<1> QED BY <1>1, <1>4, PlainVisitBegins DEF new

LEMMA AnswerStarts == ASSUME GuestInv, NEW r \in Slots, G!StartAnswer(r) PROVE GuestInv'
<1>1. PICK a \in Asks, answer \in {"completed", "rejected"} :
        LET g == ask[a].guest
            erases == answer = "completed" /\ ask[a].type = "delete"
        IN /\ ask[a].status = "pending"
           /\ G!Begin(r, [G!Idle EXCEPT !.pc = IF erases THEN "ids" ELSE "resolve", !.guest = g,
                            !.ask = a, !.answer = answer,
                            !.left = IF erases THEN data[g] ELSE {}])
  BY DEF G!StartAnswer
<1> DEFINE g == ask[a].guest
           erases == answer = "completed" /\ ask[a].type = "delete"
           pc == IF erases THEN "ids" ELSE "resolve"
           left == IF erases THEN data[g] ELSE {}
           new == [G!Idle EXCEPT !.pc = pc, !.guest = g, !.ask = a, !.answer = answer, !.left = left]
<1>2. g \in Guests
  BY <1>1 DEF GuestInv, AskInv
<1>3. left \subseteq G!Kinds /\ pc \in {"ids", "resolve"} /\ (pc = "resolve" => left = {})
  BY <1>2 DEF GuestInv, DataInv
<1> HIDE DEF g, left, pc
<1>4. G!Idle \in G!Request
  BY IdleIsPlain DEF Plain, GuestInv
<1>5. new \in G!Request
  BY <1>2, <1>3, <1>4 DEF G!Request
<1>6. /\ new.pc = pc /\ new.guest = g /\ new.ask = a /\ new.left = left
      /\ new.todo = <<>>
  BY <1>4 DEF G!Request, G!Idle
<1>7. Carries(new) /\ Current(new)
  BY <1>1, <1>2, <1>3, <1>6 DEF Carries, Current, Answering
<1>8. G!Begin(r, new)
  BY <1>1 DEF g, left, pc
<1> QED BY <1>5, <1>7, <1>8, VisitBegins

-----------------------------------------------------------------------------
(* A visit writes its next table.                                          *)

LEMMA DoneIsPlain ==
  ASSUME GuestInv, NEW r \in Slots, visit[r].pc = "write"
  PROVE  Plain(G!Done(r))
<1> DEFINE q == visit[r]
<1>1. q \in G!Request /\ Carries(q)
  BY DEF GuestInv, VisitInv
<1>2. q.todo \in Seq(Tables) /\ q.todo # <<>> /\ Len(q.todo) \in Nat \ {0}
  BY <1>1 DEF G!Request, Carries, Tables
<1>3. CASE Len(q.todo) = 1
  BY <1>3, IdleIsPlain DEF G!Done, GuestInv
<1>4. CASE Len(q.todo) # 1
  <2> DEFINE todo == Tail(q.todo)
             new == [q EXCEPT !.todo = todo]
  <2>0. todo \in Seq(Tables) /\ Len(todo) = Len(q.todo) - 1
        /\ \A i \in 1..Len(todo) : todo[i] = q.todo[i + 1]
    BY <1>2
  <2>1. todo \in Seq(Tables) /\ Len(todo) \in Nat \ {0} /\ todo # <<>> /\ Len(q.todo) = Len(todo) + 1
        /\ \A i \in 1..Len(todo) : todo[i] = q.todo[i + 1]
    <3> HIDE DEF todo
    <3>1. Len(q.todo) = Len(todo) + 1 /\ Len(todo) \in Nat \ {0}
      BY <2>0, <1>2, <1>4
    <3>2. todo # <<>>
      BY <3>1
    <3> QED BY <2>0, <3>1, <3>2, Zenon
  <2>2. \A i \in 1..Len(todo) : todo[i] # "nudge"
    BY <1>1, <1>2, <2>1 DEF Carries
  <2>3. Head(todo) = todo[1]
    BY <2>1
  <2> HIDE DEF todo
  <2>4. new \in G!Request
    BY <1>1, <2>1 DEF G!Request, Tables
  <2>5. new.pc = "write" /\ new.guest = q.guest /\ new.todo = todo
    BY <1>1 DEF G!Request
  <2>6. Plain(new)
    BY <1>1, <2>1, <2>2, <2>3, <2>4, <2>5 DEF Plain, Carries, Answering
  <2> QED BY <1>4, <2>6 DEF G!Done, G!NextTable, todo
<1> QED BY <1>3, <1>4

LEMMA PlainVisitGoesOn ==
  ASSUME GuestInv, NEW r \in Slots, NEW new, Plain(new), visit' = [visit EXCEPT ![r] = new],
         UNCHANGED <<ask, nudges>>
  PROVE  VisitInv'
BY VisitChanges DEF Plain, Current

LEMMA RowIsInserted == ASSUME GuestInv, NEW r \in Slots, G!Insert(r) PROVE GuestInv'
<1> DEFINE g == visit[r].guest
<1>1. PICK kind \in G!Kinds \ {"alert"} :
        /\ G!Has(r, kind)
        /\ IF G!Refused(g, kind) THEN visit' = [visit EXCEPT ![r] = G!Idle] /\ UNCHANGED data
           ELSE /\ data' = [data EXCEPT ![g] = data[g] \cup {kind}
                                     \cup (IF kind = "contact" THEN {"lead"} ELSE {})]
                /\ visit' = [visit EXCEPT ![r] = G!Done(r)]
        /\ UNCHANGED <<gallery, consented, alert, ask, zip, nudges, check, visits, restarts>>
  BY DEF G!Insert
<1>2. Plain(G!Idle) /\ Plain(G!Done(r)) /\ g \in Guests
  BY <1>1, IdleIsPlain, DoneIsPlain DEF G!Has, GuestInv, VisitInv, Carries
<1>3. VisitInv'
  BY <1>1, <1>2, PlainVisitGoesOn
<1>4. DataInv'
  <2>1. CASE UNCHANGED data
    BY <1>1, <2>1, SameData DEF GuestInv
  <2>2. CASE ~G!Refused(g, kind)
    <3> DEFINE new == data[g] \cup {kind} \cup (IF kind = "contact" THEN {"lead"} ELSE {})
    <3>1. /\ data \in [Guests -> SUBSET G!Kinds] /\ data' = [data EXCEPT ![g] = new]
          /\ "feedback" \in data[g] => "search" \in data[g]
          /\ "contact" \in data[g] => "lead" \in data[g]
      BY <1>1, <1>2, <2>2 DEF GuestInv, DataInv
    <3>2. kind = "feedback" => "search" \in data[g]
      BY <2>2 DEF G!Refused
    <3>3. /\ new \subseteq G!Kinds
          /\ "feedback" \in new => "search" \in new
          /\ "contact" \in new => "lead" \in new
      BY <1>2, <3>1, <3>2 DEF G!Kinds
    <3> HIDE DEF new
    <3> QED BY <1>1, <1>2, <3>1, <3>3 DEF GuestInv, DataInv
  <2> QED BY <1>1, <2>1, <2>2
<1> QED BY <1>1, <1>3, <1>4, SameAsks, SameChecks DEF GuestInv, RestInv

LEMMA ConsentIsLogged == ASSUME GuestInv, NEW r \in Slots, G!LogConsent(r) PROVE GuestInv'
<1> USE DEF G!LogConsent
<1>1. VisitInv' /\ visit[r].guest \in Guests
  BY DoneIsPlain, PlainVisitGoesOn DEF G!Has, GuestInv, VisitInv, Carries
<1> QED BY <1>1, SameData, SameAsks, SameChecks DEF GuestInv, RestInv

LEMMA ReactionIsTakenBack == ASSUME GuestInv, NEW r \in Slots, G!TakeBack(r) PROVE GuestInv'
<1> USE DEF G!TakeBack
<1>1. VisitInv' /\ visit[r].guest \in Guests
  BY DoneIsPlain, PlainVisitGoesOn DEF G!Has, GuestInv, VisitInv, Carries
<1>2. DataInv'
  BY <1>1 DEF GuestInv, DataInv
<1> QED BY <1>1, <1>2, SameAsks, SameChecks DEF GuestInv, RestInv

LEMMA AlertIsSet == ASSUME GuestInv, NEW r \in Slots, G!SetAlert(r) PROVE GuestInv'
<1> DEFINE g == visit[r].guest
           on == G!Has(r, "alert")
<1>1. /\ on \/ G!Has(r, "leave")
      /\ data' = [data EXCEPT ![g] = IF on THEN data[g] \cup {"alert"} ELSE data[g]]
      /\ alert' = [alert EXCEPT ![g].active = on]
      /\ check' = G!OvertakeJobs
      /\ visit' = [visit EXCEPT ![r] = G!Done(r)]
      /\ UNCHANGED <<gallery, consented, ask, zip, nudges, visits, restarts>>
  BY DEF G!SetAlert
<1>2. VisitInv' /\ g \in Guests
  BY <1>1, DoneIsPlain, PlainVisitGoesOn DEF G!Has, GuestInv, VisitInv, Carries
<1>3. on \in BOOLEAN
  BY DEF G!Has
<1> HIDE DEF on
<1>4. DataInv'
  BY <1>1, <1>2, <1>3 DEF GuestInv, DataInv, G!Kinds
<1> QED BY <1>1, <1>2, <1>4, SameAsks, ChecksOvertaken DEF GuestInv, RestInv

\* Whoever else has read the threshold is overtaken.
LEMMA ThresholdIsNudged == ASSUME GuestInv, NEW r \in Slots, G!Nudge(r) PROVE GuestInv'
<1> USE DEF G!guestData
<1>1. /\ nudges' = G!Raised(visit[r].nudges)
      /\ visit' = [q \in Slots |-> IF q = r THEN G!Done(r)
                     ELSE [visit[q] EXCEPT !.overtaken = visit[q].overtaken \/ visit[q].pc # "idle"]]
      /\ UNCHANGED <<gallery, data, consented, alert, ask, zip, check, visits, restarts>>
  BY DEF G!Nudge
<1>2. Plain(G!Done(r))
  BY DoneIsPlain DEF G!Nudge, G!Has
<1>3. ASSUME NEW q \in Slots
      PROVE  visit'[q] \in G!Request /\ Carries(visit[q])' /\ Current(visit[q])'
  <2>1. CASE q = r
    BY <1>1, <1>2, <2>1 DEF Plain, Current, Carries
  <2>2. CASE q # r
    <3> DEFINE o == visit[q]
    <3>1. o \in G!Request /\ Carries(o)
      BY DEF GuestInv, VisitInv
    <3>2. visit'[q] = [o EXCEPT !.overtaken = o.overtaken \/ o.pc # "idle"]
      BY <1>1, <2>2
    <3>3. visit'[q] \in G!Request
      BY <3>1, <3>2 DEF G!Request
    <3>4. /\ visit'[q].pc = o.pc /\ visit'[q].guest = o.guest /\ visit'[q].todo = o.todo
          /\ visit'[q].ask = o.ask /\ visit'[q].failed = o.failed /\ visit'[q].left = o.left
          /\ visit'[q].wipe = o.wipe /\ visit'[q].answer = o.answer
          /\ o.pc # "idle" => visit'[q].overtaken
      BY <3>1, <3>2 DEF G!Request
    <3> QED BY <3>1, <3>3, <3>4 DEF Carries, Current, Answering
  <2> QED BY <2>1, <2>2
<1>4. VisitInv'
  BY <1>1, <1>3 DEF VisitInv
<1>5. visit[r].nudges \in 0..MaxNudges
  BY DEF GuestInv, VisitInv, G!Request
<1>6. nudges' \in 0..MaxNudges
  BY <1>1, <1>5 DEF G!Raised, GuestInv, G!GuestBounds
<1> QED BY <1>1, <1>4, <1>6, SameData, SameAsks, SameChecks DEF GuestInv, RestInv

LEMMA ZipStarts == ASSUME GuestInv, NEW r \in Slots, G!StartZip(r) PROVE GuestInv'
<1> USE DEF G!StartZip, G!guestData
<1>1. VisitInv'
  BY DoneIsPlain, PlainVisitGoesOn DEF G!Has
<1>2. zip' \in [Zips -> G!ZipStates]
  BY DEF GuestInv, RestInv, G!ZipStates
<1> QED BY <1>1, <1>2, SameData, SameAsks, SameChecks DEF GuestInv, RestInv

LEMMA ZipIsBuilt == ASSUME GuestInv, NEW z \in Zips, G!BuildZip(z) PROVE GuestInv'
<1> USE DEF G!BuildZip, G!guestData
<1>1. zip' \in [Zips -> G!ZipStates]
  BY DEF GuestInv, RestInv, G!ZipStates
<1> QED BY <1>1, SameData, SameAsks, SameVisits, SameChecks DEF GuestInv, RestInv

-----------------------------------------------------------------------------
(* Requests for data: they are filed, and answered.                        *)

LEMMA AskIsFiled == ASSUME GuestInv, NEW r \in Slots, G!FileAsk(r) PROVE GuestInv'
<1> USE DEF G!guestData
<1>1. /\ visit[r].pc = "file" /\ visit' = [visit EXCEPT ![r] = G!Idle]
      /\ UNCHANGED <<gallery, data, consented, alert, zip, nudges, check, visits, restarts>>
      /\ \E a \in G!Some({b \in Asks : ask[b].status = "none"}) :
           ask' = [ask EXCEPT ![a] = [guest |-> visit[r].guest, type |-> visit[r].type,
                                      status |-> "pending"]]
  BY DEF G!FileAsk
<1>2. PICK a \in Asks : /\ ask[a].status = "none"
                        /\ ask' = [ask EXCEPT ![a] = [guest |-> visit[r].guest,
                             type |-> visit[r].type, status |-> "pending"]]
  BY <1>1 DEF G!Some
<1>3. visit[r].guest \in Guests /\ visit[r].type \in {"export", "delete"}
  BY <1>1 DEF GuestInv, VisitInv, Carries, G!Request
<1>4. AskInv'
  BY <1>2, <1>3 DEF GuestInv, AskInv, G!Ask
<1>5. \A b \in Asks : ask[b].status = "pending" => ask'[b].status = "pending"
  BY <1>2 DEF GuestInv, AskInv
<1>6. VisitInv'
  <2>1. Plain(G!Idle)
    BY IdleIsPlain DEF GuestInv
  <2>2. \A q \in Slots : visit'[q] = IF q = r THEN G!Idle ELSE visit[q]
    BY <1>1 DEF GuestInv, VisitInv
  <2>3. visit' \in [Slots -> G!Request]
    BY <1>1, <2>1 DEF GuestInv, VisitInv, Plain
  <2>4. ASSUME NEW q \in Slots PROVE Carries(visit[q])' /\ Current(visit[q])'
    <3>1. CASE q = r
      BY <2>1, <2>2, <3>1 DEF Plain, Carries, Current
    <3>2. CASE q # r
      BY <1>1, <1>5, <2>2, <3>2 DEF GuestInv, VisitInv, Carries, Current
    <3> QED BY <3>1, <3>2
  <2> QED BY <2>3, <2>4 DEF VisitInv
<1> QED BY <1>1, <1>4, <1>6, SameData, SameChecks DEF GuestInv, RestInv

\* Every other visit that has read the row is overtaken.
LEMMA AskIsResolved == ASSUME GuestInv, NEW r \in Slots, G!Resolve(r) PROVE GuestInv'
<1> DEFINE a == visit[r].ask
<1> USE DEF G!guestData
<1>1. /\ visit[r].pc = "resolve" /\ ask' = [ask EXCEPT ![a].status = visit[r].answer]
      /\ visit' = [q \in Slots |-> IF q = r THEN G!Idle
                     ELSE [visit[q] EXCEPT !.overtaken = visit[q].overtaken \/ visit[q].ask = a]]
      /\ UNCHANGED <<gallery, data, consented, alert, zip, nudges, check, visits, restarts>>
  BY DEF G!Resolve
<1>2. a \in Asks /\ visit[r].answer \in {"completed", "rejected"} /\ visit[r] \in G!Request
  BY <1>1 DEF GuestInv, VisitInv, Carries, Answering, G!Request
<1>3. Plain(G!Idle)
  BY IdleIsPlain DEF GuestInv
<1>4. ASSUME NEW q \in Slots
      PROVE  visit'[q] \in G!Request /\ Carries(visit[q])' /\ Current(visit[q])'
  <2>1. CASE q = r
    BY <1>1, <1>3, <2>1 DEF Plain, Carries, Current
  <2>2. CASE q # r
    <3> DEFINE o == visit[q]
    <3>1. o \in G!Request /\ Carries(o) /\ Current(o)
      BY DEF GuestInv, VisitInv
    <3>2. visit'[q] = [o EXCEPT !.overtaken = o.overtaken \/ o.ask = a]
      BY <1>1, <2>2
    <3>3. visit'[q] \in G!Request
      BY <3>1, <3>2 DEF G!Request
    <3>4. /\ visit'[q].pc = o.pc /\ visit'[q].guest = o.guest /\ visit'[q].todo = o.todo
          /\ visit'[q].ask = o.ask /\ visit'[q].failed = o.failed /\ visit'[q].left = o.left
          /\ visit'[q].wipe = o.wipe /\ visit'[q].answer = o.answer /\ visit'[q].nudges = o.nudges
          /\ o.overtaken \/ o.ask = a <=> visit'[q].overtaken
      BY <3>1, <3>2 DEF G!Request
    <3>5. o.ask # a => ask'[o.ask] = ask[o.ask] \/ o.ask \notin Asks
      BY <1>1 DEF GuestInv, AskInv
    <3> QED BY <1>1, <3>1, <3>3, <3>4, <3>5 DEF Carries, Current, Answering
  <2> QED BY <2>1, <2>2
<1>5. VisitInv'
  BY <1>1, <1>4 DEF VisitInv
<1>6. AskInv'
  BY <1>1, <1>2 DEF GuestInv, AskInv, G!Ask
<1> QED BY <1>1, <1>5, <1>6, SameData, SameChecks DEF GuestInv, RestInv

-----------------------------------------------------------------------------
(* Rows of a guest are deleted, by an erasure or by the retention sweep.   *)

\* What is left of an erasure only shrinks.
Less(q, S) == [q EXCEPT !.left = q.left \ S]

LEMMA LessIsGood ==
  ASSUME NEW q \in G!Request, Carries(q), NEW S
  PROVE  Less(q, S) \in G!Request /\ Carries(Less(q, S)) /\ (Current(q) => Current(Less(q, S)))
<1>1. Less(q, S) \in G!Request
  BY DEF Less, G!Request
<1>2. LET p == Less(q, S)
      IN /\ p.pc = q.pc /\ p.guest = q.guest /\ p.todo = q.todo /\ p.ask = q.ask
         /\ p.failed = q.failed /\ p.wipe = q.wipe /\ p.answer = q.answer
         /\ p.nudges = q.nudges /\ p.overtaken = q.overtaken /\ p.left = q.left \ S
  BY DEF Less, G!Request
<1> QED BY <1>1, <1>2 DEF Carries, Current

LEMMA RowsAreDeleted ==
  ASSUME GuestInv, NEW r \in Slots, NEW g, g = visit[r].guest, g \in Guests,
         NEW K \in SUBSET G!Kinds, NEW to \in G!Request,
         G!Delete(g, K, [slot |-> r, to |-> to]),
         "search" \in K => "feedback" \notin data[g], "lead" \in K => "contact" \in K,
         Carries(Less(to, K)), Current(Less(to, K))
  PROVE  GuestInv'
<1>1. /\ data' = [data EXCEPT ![g] = data[g] \ K]
      /\ alert' = IF "alert" \in K
                    THEN [alert EXCEPT ![g] = [active |-> FALSE, recent |-> FALSE]] ELSE alert
      /\ check' = IF "alert" \in K THEN G!OvertakeJobs ELSE check
      /\ UNCHANGED <<gallery, consented, ask, zip, nudges, visits, restarts>>
  BY DEF G!Delete
<1>2. \A q \in Slots : visit'[q] =
        IF q = r THEN Less(to, K)
        ELSE IF visit[q].guest = g THEN Less(visit[q], K) ELSE Less(visit[q], {})
  <2>1. visit' = [q \in Slots |-> [(IF q = r THEN to ELSE visit[q]) EXCEPT
          !.left = IF visit[q].guest = g THEN @ \ K ELSE @]]
    BY DEF G!Delete
  <2> TAKE q \in Slots
  <2>2. visit'[q] = [(IF q = r THEN to ELSE visit[q]) EXCEPT
          !.left = IF visit[q].guest = g THEN @ \ K ELSE @]
    BY <2>1
  <2>3. CASE q = r
    BY <2>2, <2>3 DEF Less
  <2>4. CASE q # r /\ visit[q].guest = g
    BY <2>2, <2>4 DEF Less
  <2>5. CASE q # r /\ visit[q].guest # g
    <3>1. visit[q].left \ {} = visit[q].left
      OBVIOUS
    <3> QED BY <2>2, <2>5, <3>1 DEF Less
  <2> QED BY <2>3, <2>4, <2>5
<1>3. ASSUME NEW q \in Slots
      PROVE  visit'[q] \in G!Request /\ Carries(visit[q])' /\ Current(visit[q])'
  <2>1. visit[q] \in G!Request /\ Carries(visit[q]) /\ Current(visit[q])
    BY DEF GuestInv, VisitInv
  <2>2. Less(to, K) \in G!Request
    BY DEF Less, G!Request
  <2>3. visit'[q] \in G!Request /\ Carries(visit'[q]) /\ Current(visit'[q])
    BY <1>2, <2>1, <2>2, LessIsGood
  <2> QED BY <1>1, <2>3 DEF Carries, Current
<1>4. VisitInv'
  <2>1. visit' \in [Slots -> G!Request]
    BY <1>3 DEF G!Delete
  <2> QED BY <1>3, <2>1 DEF VisitInv
<1>5. DataInv'
  BY <1>1 DEF GuestInv, DataInv
<1>6. CheckInv'
  BY <1>1, SameChecks, ChecksOvertaken DEF GuestInv
<1> QED BY <1>1, <1>4, <1>5, <1>6, SameAsks DEF GuestInv, RestInv

LEMMA FeedbackIsErased == ASSUME GuestInv, NEW r \in Slots, G!EraseFeedback(r) PROVE GuestInv'
<1> DEFINE q == visit[r]
           to == [q EXCEPT !.pc = "erase", !.wipe = G!Erased]
           p == Less(to, {"feedback"})
<1>1. q.pc = "ids" /\ G!Delete(q.guest, {"feedback"}, [slot |-> r, to |-> to])
  BY DEF G!EraseFeedback
<1>2. q \in G!Request /\ Carries(q) /\ Current(q)
  BY DEF GuestInv, VisitInv
<1>3. q.guest \in Guests /\ {"feedback"} \in SUBSET G!Kinds
  BY <1>1, <1>2 DEF Carries, G!Kinds
<1>4. to \in G!Request
  BY <1>2 DEF G!Request, G!Erased, G!Kinds
<1>5. /\ p.pc = "erase" /\ p.guest = q.guest /\ p.todo = q.todo /\ p.ask = q.ask
      /\ p.wipe = G!Erased /\ p.left = q.left \ {"feedback"} /\ p.overtaken = q.overtaken
  BY <1>2, <1>4 DEF Less, G!Request
<1>6. p.left \subseteq Still(p.wipe)
  BY <1>2, <1>5 DEF G!Request, G!Kinds, G!Erased, Still
<1>7. Carries(p) /\ Current(p)
  BY <1>1, <1>2, <1>5, <1>6 DEF Carries, Current, Answering
<1> HIDE DEF to, p
<1> QED BY <1>1, <1>3, <1>4, <1>7, RowsAreDeleted DEF p

\* A search that got feedback meanwhile makes it fail.
LEMMA KindIsErased == ASSUME GuestInv, NEW r \in Slots, G!EraseKind(r) PROVE GuestInv'
<1> DEFINE q == visit[r]
<1>1. PICK kind \in q.wipe :
        LET stuck == G!Locked(q.guest, kind)
            next == [q EXCEPT !.wipe = q.wipe \ {kind}, !.failed = q.failed \/ stuck]
            gone == IF kind = "lead" THEN {"lead", "contact"} ELSE {kind}
        IN /\ q.pc = "erase"
           /\ G!Delete(q.guest, IF stuck THEN {} ELSE gone, [slot |-> r, to |-> next])
  BY DEF G!EraseKind
<1> DEFINE stuck == G!Locked(q.guest, kind)
           to == [q EXCEPT !.wipe = q.wipe \ {kind}, !.failed = q.failed \/ stuck]
           K == IF stuck THEN {} ELSE IF kind = "lead" THEN {"lead", "contact"} ELSE {kind}
           p == Less(to, K)
<1>2. q.pc = "erase" /\ G!Delete(q.guest, K, [slot |-> r, to |-> to])
  BY <1>1
<1>3. q \in G!Request /\ Carries(q) /\ Current(q)
  BY DEF GuestInv, VisitInv
<1>4. q.guest \in Guests /\ kind \in G!Kinds /\ stuck \in BOOLEAN
  BY <1>2, <1>3 DEF Carries, G!Request, G!Locked
<1>5. /\ K \in SUBSET G!Kinds /\ ("lead" \in K => "contact" \in K)
      /\ "search" \in K => "feedback" \notin data[q.guest]
  BY <1>4 DEF G!Kinds, G!Locked
<1>6. ~stuck => kind \in K /\ (kind = "lead" => "contact" \in K)
  OBVIOUS
<1> HIDE DEF stuck, K
<1>7. to \in G!Request
  BY <1>3, <1>4 DEF G!Request
<1>8. /\ p.pc = "erase" /\ p.guest = q.guest /\ p.todo = q.todo /\ p.ask = q.ask
      /\ p.wipe = q.wipe \ {kind} /\ p.left = q.left \ K /\ p.overtaken = q.overtaken
      /\ p.failed = (q.failed \/ stuck)
  BY <1>2, <1>3, <1>7 DEF Less, G!Request
<1>9. ~p.failed => p.left \subseteq Still(p.wipe)
  BY <1>2, <1>3, <1>6, <1>8 DEF Carries, Still
<1>10. Carries(p) /\ Current(p)
  BY <1>2, <1>3, <1>8, <1>9 DEF Carries, Current, Answering
<1> HIDE DEF to, p
<1> QED BY <1>2, <1>4, <1>5, <1>7, <1>10, RowsAreDeleted DEF p

LEMMA FeedbackIsSwept == ASSUME GuestInv, NEW r \in Slots, G!SweepFeedback(r) PROVE GuestInv'
<1> DEFINE q == visit[r]
           to == [q EXCEPT !.pc = "purge"]
           p == Less(to, {"feedback"})
<1>1. q.pc = "sweep" /\ G!Delete(q.guest, {"feedback"}, [slot |-> r, to |-> to])
  BY DEF G!SweepFeedback
<1>2. q \in G!Request /\ Carries(q)
  BY DEF GuestInv, VisitInv
<1>3. q.guest \in Guests /\ {"feedback"} \in SUBSET G!Kinds
  BY <1>1, <1>2 DEF Carries, G!Kinds
<1>4. to \in G!Request
  BY <1>2 DEF G!Request
<1>5. p.pc = "purge" /\ p.guest = q.guest /\ p.todo = q.todo
  BY <1>2, <1>4 DEF Less, G!Request
<1>6. Carries(p) /\ Current(p)
  BY <1>2, <1>3, <1>5 DEF Carries, Current, Answering
<1> HIDE DEF to, p
<1> QED BY <1>1, <1>3, <1>4, <1>6, RowsAreDeleted DEF p

\* A search that got feedback meanwhile stays.
LEMMA SearchesAreSwept == ASSUME GuestInv, NEW r \in Slots, G!SweepSearches(r) PROVE GuestInv'
<1> DEFINE q == visit[r]
           K == IF G!Locked(q.guest, "search") THEN {} ELSE {"search"}
<1>1. q.pc = "purge" /\ G!Delete(q.guest, K, [slot |-> r, to |-> G!Idle])
  BY DEF G!SweepSearches
<1>2. q.guest \in Guests
  BY <1>1 DEF GuestInv, VisitInv, Carries
<1>3. K \in SUBSET G!Kinds /\ "lead" \notin K /\ ("search" \in K => "feedback" \notin data[q.guest])
  BY DEF G!Locked, G!Kinds
<1>4. Plain(G!Idle)
  BY IdleIsPlain DEF GuestInv
<1>5. Carries(Less(G!Idle, K)) /\ Current(Less(G!Idle, K))
  BY <1>4, LessIsGood DEF Plain, Current
<1> HIDE DEF K
<1> QED BY <1>1, <1>2, <1>3, <1>4, <1>5, RowsAreDeleted DEF Plain

\* An erasure that nothing made fail has left nothing of what was there.
LEMMA ErasureEnds == ASSUME GuestInv, NEW r \in Slots, G!EraseEnds(r) PROVE GuestInv'
<1> DEFINE q == visit[r]
           p == IF q.failed THEN G!Idle ELSE [q EXCEPT !.pc = "resolve"]
<1> USE DEF G!guestData
<1>1. /\ q.pc = "erase" /\ q.wipe = {} /\ visit' = [visit EXCEPT ![r] = p]
      /\ UNCHANGED <<gallery, data, consented, alert, ask, zip, nudges, check, visits, restarts>>
  BY DEF G!EraseEnds
<1>2. q \in G!Request /\ Carries(q) /\ Current(q)
  BY DEF GuestInv, VisitInv
<1>3. p \in G!Request /\ Carries(p) /\ Current(p)
  <2>1. CASE q.failed
    BY <2>1, IdleIsPlain DEF Plain, Current, GuestInv
  <2>2. CASE ~q.failed
    <3>1. p \in G!Request
      BY <1>2, <2>2 DEF G!Request
    <3>2. /\ p.pc = "resolve" /\ p.guest = q.guest /\ p.todo = q.todo /\ p.ask = q.ask
          /\ p.left = q.left /\ p.overtaken = q.overtaken
      BY <1>2, <2>2 DEF G!Request
    <3>3. q.left = {}
      BY <1>1, <1>2, <2>2 DEF Carries, Still
    <3> QED BY <1>1, <1>2, <3>1, <3>2, <3>3 DEF Carries, Current, Answering
  <2> QED BY <2>1, <2>2
<1> HIDE DEF p
<1>4. VisitInv'
  BY <1>1, <1>3, VisitChanges
<1> QED BY <1>1, <1>4, SameData, SameAsks, SameChecks DEF GuestInv, RestInv

-----------------------------------------------------------------------------
(* The alert checks, and what else happens.                                *)

LEMMA CheckMoves ==
  ASSUME GuestInv, NEW j \in Checks, NEW new \in G!Job, Alerts(new), G!JobStep(j, new),
         visits' \in 0..MaxVisits
  PROVE  GuestInv'
<1> USE DEF G!JobStep, G!guestData
<1>1. CheckInv'
  <2>1. \A k \in Checks : check'[k] = IF k = j THEN new ELSE check[k]
    BY DEF GuestInv, CheckInv
  <2>2. check' \in [Checks -> G!Job]
    BY DEF GuestInv, CheckInv
  <2> QED BY <2>1, <2>2 DEF GuestInv, CheckInv, Alerts, ToTell
<1> QED BY <1>1, SameData, SameAsks, SameVisits DEF GuestInv, RestInv

LEMMA ChecksStart == ASSUME GuestInv, NEW j \in Checks, G!StartAlerts(j) PROVE GuestInv'
<1> DEFINE k == check[j]
           new == [k EXCEPT !.pc = "next", !.due = G!Notifiable]
<1>1. visits < MaxVisits /\ visits' = visits + 1 /\ G!JobStep(j, new)
  BY DEF G!StartAlerts
<1>2. k \in G!Job /\ G!Notifiable \subseteq Guests
  BY DEF GuestInv, CheckInv, G!Notifiable
<1>3. new \in G!Job /\ new.pc = "next" /\ new.due = G!Notifiable
  BY <1>2 DEF G!Job
<1>4. Alerts(new)
  BY <1>3 DEF Alerts, ToTell, G!Notifiable
<1>5. visits' \in 0..MaxVisits
  BY <1>1 DEF GuestInv, RestInv, G!GuestBounds
<1> HIDE DEF new
<1> QED BY <1>1, <1>3, <1>4, <1>5, CheckMoves

LEMMA MatchesAreLookedFor == ASSUME GuestInv, NEW j \in Checks, G!Match(j) PROVE GuestInv'
<1> DEFINE k == check[j]
<1>1. k.pc = "next" /\ visits' = visits
  BY DEF G!Match
<1>2. k \in G!Job /\ Alerts(k) /\ visits' \in 0..MaxVisits
  BY <1>1 DEF GuestInv, CheckInv, RestInv
<1>3. CASE G!JobStep(j, G!NewJob)
  <2>1. G!NewJob \in G!Job /\ Alerts(G!NewJob)
    BY DEF G!NewJob, G!Job, Alerts
  <2> QED BY <1>2, <1>3, <2>1, CheckMoves
<1>4. ASSUME NEW g \in k.due, NEW pc \in {"next", "send"},
             G!JobStep(j, [k EXCEPT !.due = k.due \ {g}, !.pc = pc, !.guest = g])
      PROVE  GuestInv'
  <2> DEFINE new == [k EXCEPT !.due = k.due \ {g}, !.pc = pc, !.guest = g]
  <2>1. g \in Guests /\ new \in G!Job
    BY <1>2 DEF G!Job
  <2>2. new.pc = pc /\ new.due = k.due \ {g} /\ new.guest = g /\ new.overtaken = k.overtaken
    BY <1>2 DEF G!Job
  <2>3. Alerts(new)
    BY <1>1, <1>2, <2>1, <2>2 DEF Alerts
  <2> HIDE DEF new
  <2> QED BY <1>2, <1>4, <2>1, <2>3, CheckMoves DEF new
<1> QED BY <1>3, <1>4 DEF G!Match

LEMMA MessageIsSent == ASSUME GuestInv, NEW j \in Checks, G!Send(j) PROVE GuestInv'
<1> DEFINE k == check[j]
<1>1. PICK pc \in {"stamp", "next"} : G!JobStep(j, [k EXCEPT !.pc = pc])
  BY DEF G!Send
<1> DEFINE new == [k EXCEPT !.pc = pc]
<1>2. k.pc = "send" /\ k \in G!Job /\ Alerts(k) /\ visits' \in 0..MaxVisits
  BY DEF G!Send, GuestInv, CheckInv, RestInv
<1>3. /\ new \in G!Job /\ new.pc = pc /\ new.due = k.due /\ new.guest = k.guest
      /\ new.overtaken = k.overtaken
  BY <1>2 DEF G!Job
<1>4. Alerts(new)
  BY <1>2, <1>3 DEF Alerts
<1> HIDE DEF new
<1> QED BY <1>1, <1>2, <1>3, <1>4, CheckMoves DEF new

\* Every other check that has read the subscriptions is overtaken.
LEMMA MessageIsStamped == ASSUME GuestInv, NEW j \in Checks, G!Stamp(j) PROVE GuestInv'
<1> DEFINE k == check[j]
           g == k.guest
           new == [k EXCEPT !.pc = "next"]
<1>1. /\ k.pc = "stamp" /\ check' = [G!OvertakeJobs EXCEPT ![j] = new]
      /\ alert' = IF "alert" \in data[g] THEN [alert EXCEPT ![g].recent = TRUE] ELSE alert
      /\ UNCHANGED <<gallery, data, consented, ask, zip, nudges, visit, visits, restarts>>
  BY DEF G!Stamp
<1>2. k \in G!Job /\ Alerts(k)
  BY DEF GuestInv, CheckInv
<1>3. /\ new \in G!Job /\ new.pc = "next" /\ new.due = k.due /\ new.overtaken = k.overtaken
  BY <1>2 DEF G!Job
<1>4. g \in Guests /\ g \notin k.due /\ k.due \subseteq Guests
  BY <1>1, <1>2 DEF Alerts, G!Job
<1> HIDE DEF new
<1>5. DataInv'
  BY <1>1, <1>4 DEF GuestInv, DataInv
<1>6. \A h \in k.due : ToTell(h) => ToTell(h)'
  BY <1>1, <1>4 DEF GuestInv, DataInv, ToTell
<1>7. CheckInv'
  <2>1. ASSUME NEW i \in Checks PROVE check'[i] \in G!Job /\ Alerts(check[i])'
    <3>1. CASE i = j
      <4>1. check'[i] = new
        BY <1>1, <3>1 DEF G!OvertakeJobs
      <4> QED BY <1>3, <1>6, <1>1, <1>2, <4>1 DEF Alerts
    <3>2. CASE i # j
      <4> DEFINE o == check[i]
      <4>1. o \in G!Job /\ Alerts(o)
        BY DEF GuestInv, CheckInv
      <4>2. check'[i] = [o EXCEPT !.overtaken = o.overtaken \/ o.pc # "idle"]
        BY <1>1, <3>2 DEF G!OvertakeJobs
      <4>3. check'[i] \in G!Job
        BY <4>1, <4>2 DEF G!Job
      <4>4. /\ check'[i].pc = o.pc /\ check'[i].guest = o.guest /\ check'[i].due = o.due
            /\ o.pc # "idle" => check'[i].overtaken
        BY <4>1, <4>2 DEF G!Job
      <4> QED BY <4>1, <4>3, <4>4 DEF Alerts
    <3> QED BY <3>1, <3>2
  <2>2. check' \in [Checks -> G!Job]
    BY <1>1, <2>1 DEF G!OvertakeJobs
  <2> QED BY <2>1, <2>2 DEF CheckInv
<1> QED BY <1>1, <1>5, <1>7, SameAsks, SameVisits DEF GuestInv, RestInv

LEMMA IntervalIsOver == ASSUME GuestInv, NEW g \in Guests, G!IntervalPasses(g) PROVE GuestInv'
<1> USE DEF G!IntervalPasses
<1>1. DataInv'
  BY DEF GuestInv, DataInv
<1>2. \A h \in Guests : ToTell(h) => ToTell(h)'
  BY DEF GuestInv, DataInv, ToTell
<1>3. CheckInv'
  <2>1. ASSUME NEW j \in Checks PROVE Alerts(check[j])'
    <3>1. check[j] \in G!Job /\ Alerts(check[j]) /\ check'[j] = check[j]
      BY DEF GuestInv, CheckInv
    <3> QED BY <1>2, <3>1 DEF Alerts, G!Job
  <2> QED BY <2>1 DEF GuestInv, CheckInv
<1> QED BY <1>1, <1>3, SameAsks, SameVisits DEF GuestInv, RestInv

LEMMA StudioSets == ASSUME GuestInv, G!Settings PROVE GuestInv'
<1> USE DEF G!Settings, G!guestData
<1>1. gallery' \in G!Event
  BY DEF GuestInv, RestInv, G!Event
<1> QED BY <1>1, SameData, SameAsks, SameVisits, SameChecks DEF GuestInv, RestInv, G!GuestBounds

LEMMA ServerRestarts == ASSUME GuestInv, G!Crash PROVE GuestInv'
<1> USE DEF G!Crash, G!guestData
<1>1. VisitInv'
  <2>1. Plain(G!Idle) /\ visit' = [r \in Slots |-> G!Idle]
    BY IdleIsPlain DEF GuestInv
  <2>2. visit' \in [Slots -> G!Request]
    BY <2>1 DEF Plain
  <2>3. ASSUME NEW r \in Slots PROVE Carries(visit[r])' /\ Current(visit[r])'
    BY <2>1 DEF Plain, Carries, Current
  <2> QED BY <2>2, <2>3 DEF VisitInv
<1>2. CheckInv'
  BY DEF CheckInv, Alerts, G!NewJob, G!Job
<1>3. zip' \in [Zips -> G!ZipStates]
  BY DEF GuestInv, RestInv, G!ZipStates
<1>4. restarts' \in 0..MaxRestarts
  BY DEF GuestInv, RestInv, G!GuestBounds
<1> QED BY <1>1, <1>2, <1>3, <1>4, SameData, SameAsks DEF GuestInv, RestInv

LEMMA GuestStart == ASSUME G!GuestBounds, G!Init PROVE GuestInv
<1> USE DEF G!Init
<1>1. DataInv /\ consented \subseteq Guests
  <2>1. PICK known \in SUBSET Guests :
          /\ data = [g \in Guests |-> IF g \in known
                       THEN {"search", "alert", "lead", "contact", "activity"} ELSE {}]
          /\ consented = IF gallery.consent THEN known ELSE {}
          /\ alert = [g \in Guests |-> [active |-> g \in known, recent |-> FALSE]]
    OBVIOUS
  <2>2. \A g \in Guests : (g \in known) \in BOOLEAN
    OBVIOUS
  <2> QED BY <2>1, <2>2 DEF DataInv, G!Kinds
<1>2. AskInv
  BY DEF AskInv, G!NoAskRow, G!Ask
<1>3. VisitInv
  <2>1. Plain(G!Idle) /\ visit = [r \in Slots |-> G!Idle]
    BY IdleIsPlain
  <2> QED BY <2>1 DEF VisitInv, Plain, Current
<1>4. CheckInv
  BY DEF CheckInv, Alerts, G!NewJob, G!Job
<1>5. RestInv
  <2>1. gallery \in G!Event
    <3>1. PICK m \in G!LeadModes : gallery = [closed |-> FALSE, search |-> TRUE, consent |-> m # "disabled",
                                           leads |-> m, downloads |-> TRUE, deletion |-> TRUE]
      OBVIOUS
    <3> QED BY <3>1 DEF G!Event
  <2>2. zip \in [Zips -> G!ZipStates]
    BY DEF G!ZipStates
  <2>3. nudges \in 0..MaxNudges /\ visits \in 0..MaxVisits /\ restarts \in 0..MaxRestarts
    <3>1. nudges = 0 /\ visits = 0 /\ restarts = 0
      OBVIOUS
    <3> QED BY <3>1 DEF G!GuestBounds
  <2> QED BY <1>1, <2>1, <2>2, <2>3 DEF RestInv
<1> QED BY <1>1, <1>2, <1>3, <1>4, <1>5 DEF GuestInv

LEMMA GuestStep == ASSUME GuestInv, [G!Next]_(G!vars) PROVE GuestInv'
<1>1. ASSUME NEW r \in Slots,
             \/ G!Search(r) \/ G!GroupSearch(r) \/ G!LeadForm(r) \/ G!Browse(r) \/ G!React(r)
             \/ G!Remark(r) \/ G!Subscribe(r) \/ G!Unsubscribe(r) \/ G!Share(r) \/ G!Feedback(r)
             \/ G!Download(r) \/ G!DownloadEmail(r)
      PROVE  GuestInv'
  BY <1>1, VisitorStarts, FeedbackStarts
<1>2. ASSUME NEW r \in Slots,
             \/ G!Insert(r) \/ G!LogConsent(r) \/ G!TakeBack(r) \/ G!SetAlert(r) \/ G!Nudge(r)
             \/ G!StartZip(r)
      PROVE  GuestInv'
  BY <1>2, RowIsInserted, ConsentIsLogged, ReactionIsTakenBack, AlertIsSet, ThresholdIsNudged,
     ZipStarts
<1>3. ASSUME NEW r \in Slots,
             \/ G!StartAsk(r) \/ G!FileAsk(r) \/ G!StartAnswer(r) \/ G!EraseFeedback(r)
             \/ G!EraseKind(r) \/ G!EraseEnds(r) \/ G!Resolve(r) \/ G!StartSweep(r)
             \/ G!SweepFeedback(r) \/ G!SweepSearches(r)
      PROVE  GuestInv'
  BY <1>3, AskStarts, AskIsFiled, AnswerStarts, FeedbackIsErased, KindIsErased, ErasureEnds,
     AskIsResolved, SweepStarts, FeedbackIsSwept, SearchesAreSwept
<1>4. ASSUME NEW j \in Checks, G!StartAlerts(j) \/ G!Match(j) \/ G!Send(j) \/ G!Stamp(j)
      PROVE  GuestInv'
  BY <1>4, ChecksStart, MatchesAreLookedFor, MessageIsSent, MessageIsStamped
<1>5. CASE UNCHANGED G!vars
  BY <1>5, SameData, SameAsks, SameVisits, SameChecks DEF G!vars, G!guestData, GuestInv, RestInv
<1> QED BY <1>1, <1>2, <1>3, <1>4, <1>5, IntervalIsOver, ZipIsBuilt, StudioSets, ServerRestarts
        DEF G!Next

\* What guests and their requests hold is what the schema and the handlers put there,
\* and feedback has its search, a lead with contact details its row (facePrivacy.js:69).
THEOREM GuestsTyped == G!GuestBounds /\ G!Spec => []G!TypeOK
<1>1. G!GuestBounds /\ G!Init => GuestInv
  BY GuestStart
<1>2. GuestInv /\ [G!Next]_(G!vars) => GuestInv'
  BY GuestStep
<1>3. GuestInv => G!TypeOK
  BY GuestInvTypes
<1> QED BY <1>1, <1>2, <1>3, PTL DEF G!Spec

\* An answer is given while the request is pending, or was overtaken by another; and a
\* deletion is called completed only when all the guest had when it began is gone
\* (facePrivacy.js:118, admin.js:1227).
THEOREM AnswersAreTrue == G!GuestBounds /\ G!Spec => G!AnswersStand
<1> DEFINE Stand ==
      \A r \in Slots : G!Resolve(r) =>
        /\ ask[visit[r].ask].status = "pending" \/ visit[r].overtaken
        /\ visit[r].answer = "completed" => visit[r].left = {}
<1>1. G!GuestBounds /\ G!Init => GuestInv
  BY GuestStart
<1>2. GuestInv /\ [G!Next]_(G!vars) => GuestInv'
  BY GuestStep
<1>3. GuestInv => Stand
  BY DEF GuestInv, VisitInv, Carries, Current, Answering, G!Resolve
<1>4. Stand => [Stand]_(G!vars)
  OBVIOUS
<1> QED BY <1>1, <1>2, <1>3, <1>4, PTL DEF G!Spec, G!AnswersStand

LEMMA NudgesNudge ==
  ASSUME [G!Next]_(G!vars), nudges' # nudges
  PROVE  \E r \in Slots : G!Nudge(r)
<1>1. ASSUME NEW r \in Slots,
             \/ G!Search(r) \/ G!GroupSearch(r) \/ G!LeadForm(r) \/ G!Browse(r) \/ G!React(r)
             \/ G!Remark(r) \/ G!Subscribe(r) \/ G!Unsubscribe(r) \/ G!Share(r) \/ G!Feedback(r)
             \/ G!Download(r) \/ G!DownloadEmail(r) \/ G!StartAsk(r) \/ G!StartAnswer(r)
             \/ G!StartSweep(r)
      PROVE  nudges' = nudges
  <2>1. \E new : G!Begin(r, new)
    BY <1>1, Zenon DEF G!Search, G!GroupSearch, G!LeadForm, G!Browse, G!React, G!Remark, G!Subscribe,
       G!Unsubscribe, G!Share, G!Feedback, G!Download, G!DownloadEmail, G!StartAsk, G!StartAnswer,
       G!StartSweep
  <2> QED BY <2>1 DEF G!Begin
<1>2. ASSUME NEW r \in Slots,
             \/ G!Insert(r) \/ G!LogConsent(r) \/ G!TakeBack(r) \/ G!SetAlert(r) \/ G!StartZip(r)
             \/ G!FileAsk(r) \/ G!EraseEnds(r) \/ G!Resolve(r)
      PROVE  nudges' = nudges
  BY <1>2 DEF G!Insert, G!LogConsent, G!TakeBack, G!SetAlert, G!StartZip, G!FileAsk, G!EraseEnds,
     G!Resolve
<1>3. ASSUME NEW r \in Slots,
             \/ G!EraseFeedback(r) \/ G!EraseKind(r) \/ G!SweepFeedback(r) \/ G!SweepSearches(r)
      PROVE  nudges' = nudges
  BY <1>3 DEF G!EraseFeedback, G!EraseKind, G!SweepFeedback, G!SweepSearches, G!Delete
<1>4. ASSUME NEW j \in Checks, G!StartAlerts(j) \/ G!Match(j) \/ G!Send(j) \/ G!Stamp(j)
      PROVE  nudges' = nudges
  BY <1>4 DEF G!StartAlerts, G!Match, G!Send, G!Stamp, G!JobStep
<1>5. CASE \/ UNCHANGED G!vars \/ G!Settings \/ G!Crash \/ (\E g \in Guests : G!IntervalPasses(g))
           \/ \E z \in Zips : G!BuildZip(z)
  BY <1>5 DEF G!vars, G!Settings, G!Crash, G!IntervalPasses, G!BuildZip
<1> QED BY <1>1, <1>2, <1>3, <1>4, <1>5 DEF G!Next

\* Only feedback that was overtaken lowers the threshold.
LEMMA ThresholdRises ==
  ASSUME GuestInv, [G!Next]_(G!vars), nudges' < nudges
  PROVE  \E r \in Slots : G!Nudge(r) /\ visit[r].overtaken
<1>0. nudges' # nudges
  BY DEF GuestInv, RestInv
<1>1. PICK r \in Slots : G!Nudge(r)
  BY <1>0, NudgesNudge
<1>2. visit[r].overtaken
  <2> SUFFICES ASSUME ~visit[r].overtaken PROVE FALSE
    OBVIOUS
  <2>1. visit[r].nudges = nudges
    BY <1>1 DEF GuestInv, VisitInv, Current, G!Nudge, G!Has
  <2> QED BY <1>1, <2>1 DEF G!Nudge, G!Raised, GuestInv, RestInv, G!GuestBounds
<1> QED BY <1>1, <1>2

\* Feedback only makes matching stricter, and a guest is written to only while
\* subscribed and not within the interval, unless what was read had been overtaken
\* (threshold.js:15, guestAlerts.js:86).
THEOREM MatchingIsHeld == G!GuestBounds /\ G!Spec => G!MatchingHolds
<1> DEFINE Rises == nudges' < nudges => \E r \in Slots : G!Nudge(r) /\ visit[r].overtaken
           Tells == \A j \in Checks : LET g == check[j].guest IN
             G!Send(j) /\ check'[j].pc = "stamp" =>
               (alert[g].active /\ ~alert[g].recent) \/ check[j].overtaken
<1>1. G!GuestBounds /\ G!Init => GuestInv
  BY GuestStart
<1>2. GuestInv /\ [G!Next]_(G!vars) => GuestInv'
  BY GuestStep
<1>3. GuestInv /\ [G!Next]_(G!vars) => Rises
  BY ThresholdRises
<1>4. GuestInv => Tells
  BY DEF GuestInv, CheckInv, Alerts, ToTell, G!Send
<1>5. Rises /\ Tells => [Rises /\ Tells]_(G!vars)
  OBVIOUS
<1> QED BY <1>1, <1>2, <1>3, <1>4, <1>5, PTL DEF G!Spec, G!MatchingHolds

=============================================================================
