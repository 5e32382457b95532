--------------------------- MODULE ClientSelection ----------------------------
(***************************************************************************)
(* Photo Selection: the studio grants a client access to an event, by hand *)
(* or by an emailed invite, with a cap on picks and an expiry; the client  *)
(* picks photos, submits the selection and fetches it.                     *)
(*                                                                         *)
(* Every handler reads the grant (or the invite) once and then awaits one  *)
(* query at a time, so what it read may be old when it writes.  A request  *)
(* is overtaken when another request, or the clock, has changed the grant, *)
(* the invites, the picks or the photos of its client since it began.      *)
(***************************************************************************)
EXTENDS Integers, FiniteSets

CONSTANTS
  Clients, Photos,
  Invites,      \* slots for ClientInvite rows: how many are ever made
  Requests,     \* requests that may be in flight together
  Caps,         \* the caps the studio gives, 0 for none
  MaxRequests,  \* bound: requests of clients and of the studio in all
  NoClient, NoPhoto, NoInvite

\* A cap is a number of photos, and what stands for none is none of them.
ASSUME SelectionAssumption ==
  /\ Caps \subseteq Nat /\ Caps # {} /\ IsFiniteSet(Photos) /\ MaxRequests \in Nat
  /\ NoClient \notin Clients /\ NoPhoto \notin Photos /\ NoInvite \notin Invites

VARIABLES
  event,    \* the Event row: archivedAt set, photoSelectionEnabled, allowDownload
  shown,    \* the photos that are photoSelectionVisible and not archived
  account,  \* the clients with a USER account
  grant,    \* grant[c]: the EventUserMapping row
  invite,   \* invite[i]: the ClientInvite row
  picks,    \* ClientFavourite rows: pairs of a client and a photo
  req,      \* req[r]: the request that occupies slot r
  requests

vars == <<event, shown, account, grant, invite, picks, req, requests>>

Expiry == {"never", "ahead", "past"}  \* accessExpires, against the clock
Terms == [cap : Caps, expires : Expiry]
\* Expiries the studio chooses; invites and grants run out later.
Offers == [cap : Caps, expires : {"never", "ahead"}]
NoTerms == [cap |-> CHOOSE n \in Caps : TRUE, expires |-> "never"]

Grant == [live : BOOLEAN, terms : Terms, revoked : BOOLEAN, submitted : BOOLEAN]
NoGrant == [live |-> FALSE, terms |-> NoTerms, revoked |-> FALSE, submitted |-> FALSE]
Invite == [client : Clients \cup {NoClient}, terms : Terms,
           status : {"none", "pending", "accepted", "deleted"}]
NoInviteRow == [client |-> NoClient, terms |-> NoTerms, status |-> "none"]

Request == [pc : {"idle", "find", "count", "create", "submit", "serve",
                  "upsert", "supersede", "provision", "map",
                  "pending", "invite", "account", "join", "accept", "mark"},
            client : Clients \cup {NoClient}, photo : Photos \cup {NoPhoto},
            invite : Invites \cup {NoInvite}, terms : Terms, on : BOOLEAN,
            overtaken : BOOLEAN]
Idle == [pc |-> "idle", client |-> NoClient, photo |-> NoPhoto, invite |-> NoInvite,
         terms |-> NoTerms, on |-> FALSE, overtaken |-> FALSE]

-----------------------------------------------------------------------------
(* Reading the tables.                                                     *)

PicksOf(c) == {p \in Photos : <<c, p>> \in picks}
\* Hidden photos do not count, and come back into the count when they are shown.
Count(c) == Cardinality(PicksOf(c) \cap shown)
OverCap(c) == grant[c].live /\ grant[c].terms.cap > 0 /\ Count(c) > grant[c].terms.cap

\* loadClientAccess: not revoked, not expired, event not archived, and Photo
\* Selection turned on for it.
Access(c) ==
  /\ grant[c].live /\ ~grant[c].revoked
  /\ grant[c].terms.expires # "past"
  /\ ~event.archived /\ event.selection

Pending(c) == {i \in Invites : invite[i].status = "pending" /\ invite[i].client = c}
Unused == {i \in Invites : invite[i].status = "none" /\ \A r \in Requests : req[r].invite # i}
Some(S) == IF S = {} THEN {} ELSE {CHOOSE x \in S : TRUE}

Init ==
  /\ event = [archived |-> FALSE, selection |-> TRUE, downloads |-> TRUE]
  /\ shown = Photos
  /\ \E A \in SUBSET Clients :
       /\ account = A
       /\ grant \in [Clients -> {NoGrant} \cup
                       {[NoGrant EXCEPT !.live = TRUE, !.terms = t] : t \in Offers}]
       /\ \A c \in Clients : grant[c].live <=> c \in A
  /\ invite = [i \in Invites |-> NoInviteRow]
  /\ picks = {}
  /\ req = [r \in Requests |-> Idle]
  /\ requests = 0

-----------------------------------------------------------------------------
(* The shape of a request.                                                 *)

Overtake(C) ==
  [q \in Requests |-> IF req[q].client \in C THEN [req[q] EXCEPT !.overtaken = TRUE] ELSE req[q]]

\* The request begins: the grant or the invite was read and the checks passed.
Begin(r, new) ==
  /\ requests < MaxRequests /\ requests' = requests + 1
  /\ req[r].pc = "idle" /\ req' = [req EXCEPT ![r] = new]
  /\ UNCHANGED <<event, shown, account, grant, invite, picks>>

\* A step that only reads.
Goto(r, new) ==
  req' = [req EXCEPT ![r] = new] /\ UNCHANGED <<event, shown, account, grant, invite, picks, requests>>
\* A step that writes rows of the request's client.
Write(r, pc) ==
  /\ req' = [Overtake({req[r].client}) EXCEPT
               ![r] = IF pc = "idle" THEN Idle ELSE [req[r] EXCEPT !.pc = pc]]
  /\ UNCHANGED <<event, shown, requests>>
\* The response is sent without a change: nothing to do, refused, or an error.
End(r) == Goto(r, Idle)

-----------------------------------------------------------------------------
(* The client.                                                             *)

StartPick_AfterSubmit(r) ==
  \E c \in Clients, p \in Photos, on \in BOOLEAN :
    /\ Access(c)
    /\ Begin(r, [Idle EXCEPT !.pc = "find", !.client = c, !.photo = p, !.on = on,
                   !.terms = grant[c].terms])
\* POST /client/events/:id/photos/:photoId/favourite
StartPick(r) ==
  \E c \in Clients, p \in Photos, on \in BOOLEAN :
    /\ Access(c) /\ ~grant[c].submitted
    /\ Begin(r, [Idle EXCEPT !.pc = "find", !.client = c, !.photo = p, !.on = on,
                   !.terms = grant[c].terms])

\* The photo and the client's pick of it; without a cap nothing is counted.
FindPick(r) ==
  LET q == req[r] IN
  /\ q.pc = "find"
  /\ IF q.photo \notin shown \/ q.on = (<<q.client, q.photo>> \in picks) THEN End(r)
     ELSE Goto(r, [q EXCEPT !.pc = IF q.on /\ q.terms.cap > 0 THEN "count" ELSE "create"])

CountPicks_OffByOne(r) ==
  LET q == req[r] IN
  /\ q.pc = "count"
  /\ IF Count(q.client) > q.terms.cap THEN End(r) ELSE Goto(r, [q EXCEPT !.pc = "create"])
CountPicks(r) ==
  LET q == req[r] IN
  /\ q.pc = "count"
  /\ IF Count(q.client) >= q.terms.cap THEN End(r) ELSE Goto(r, [q EXCEPT !.pc = "create"])

\* The row is created, or deleted; a row that is already so is an error.
SetPick(r) ==
  LET q == req[r]
      row == <<q.client, q.photo>>
  IN /\ q.pc = "create"
     /\ IF q.on = (row \in picks) THEN End(r)
        ELSE /\ picks' = IF q.on THEN picks \cup {row} ELSE picks \ {row}
             /\ Write(r, "idle") /\ UNCHANGED <<account, grant, invite>>

\* POST /client/events/:id/submit
StartSubmit(r) ==
  \E c \in Clients : /\ Access(c) /\ ~grant[c].submitted
                     /\ Begin(r, [Idle EXCEPT !.pc = "submit", !.client = c])
Submit(r) ==
  LET c == req[r].client IN
  /\ req[r].pc = "submit"
  /\ IF ~grant[c].live THEN End(r)
     ELSE /\ grant' = [grant EXCEPT ![c].submitted = TRUE]
          /\ Write(r, "idle") /\ UNCHANGED <<account, invite, picks>>

\* The selection as CSV, TXT or PDF, and as a zip: when downloads are allowed.
StartExport(r) ==
  \E c \in Clients : /\ Access(c) /\ event.downloads
                     /\ Begin(r, [Idle EXCEPT !.pc = "serve", !.client = c])
StartZip(r) == StartExport(r)
\* resolveSelection, or the favourites of the zip: read, and sent.
Serve(r) == req[r].pc = "serve" /\ End(r)

-----------------------------------------------------------------------------
(* The studio: a direct grant, or an invite.                               *)

\* POST /:id/clients/create and /clients/invite, once the account was looked up.
StartGrant(r) ==
  \E c \in Clients, t \in Offers :
    Begin(r, [Idle EXCEPT !.client = c, !.terms = t, !.pc =
                IF c \in account THEN "upsert" ELSE "provision"])
StartInvite(r) ==
  \E c \in Clients, t \in Offers :
    Begin(r, [Idle EXCEPT !.client = c, !.terms = t, !.pc =
                IF c \in account THEN "upsert" ELSE "pending"])

\* New terms over old ones: an expiry that is left out stays as it was.
Refresh(old, t) == [t EXCEPT !.expires = IF @ = "never" THEN old.expires ELSE @]
NewGrant(t) == [NoGrant EXCEPT !.live = TRUE, !.terms = t]
UpsertGrant(r) ==
  LET c == req[r].client
      g == grant[c] IN
  /\ req[r].pc = "upsert"
  /\ grant' = [grant EXCEPT ![c] =
       IF g.live THEN [g EXCEPT !.terms = Refresh(g.terms, req[r].terms)] ELSE NewGrant(req[r].terms)]
  /\ Write(r, "supersede") /\ UNCHANGED <<account, invite, picks>>

\* Direct grants supersede any outstanding invite.
DeleteInvites(r) ==
  /\ req[r].pc = "supersede"
  /\ invite' = [i \in Invites |-> IF i \in Pending(req[r].client)
                  THEN [invite[i] EXCEPT !.status = "deleted"] ELSE invite[i]]
  /\ Write(r, "idle") /\ UNCHANGED <<account, grant, picks>>

Provision_GrantFirst(r) ==
  LET c == req[r].client IN
  /\ req[r].pc = "provision"
  /\ IF c \in account THEN End(r)
     ELSE Write(r, "map") /\ UNCHANGED <<account, grant, invite, picks>>
\* No account yet: the account and then the grant; a row that exists is an error.
Provision(r) ==
  LET c == req[r].client IN
  /\ req[r].pc = "provision"
  /\ IF c \in account THEN End(r)
     ELSE /\ account' = account \cup {c}
          /\ Write(r, "map") /\ UNCHANGED <<grant, invite, picks>>
MapProvisioned(r) ==
  LET c == req[r].client IN
  /\ req[r].pc = "map"
  /\ IF grant[c].live THEN End(r)
     ELSE /\ grant' = [grant EXCEPT ![c] = NewGrant(req[r].terms)]
          /\ Write(r, "idle") /\ UNCHANGED <<account, invite, picks>>

\* An outstanding invite is refreshed, else one is made; then the mail is sent.
FindPending(r) ==
  /\ req[r].pc = "pending"
  /\ \E i \in Some(Pending(req[r].client)) \cup {j \in Some(Unused) : Pending(req[r].client) = {}} :
       Goto(r, [req[r] EXCEPT !.pc = "invite", !.invite = i])
SaveInvite(r) ==
  LET q == req[r]  i == req[r].invite IN
  /\ q.pc = "invite"
  /\ IF invite[i].status = "deleted" THEN End(r)
     ELSE /\ invite' = [invite EXCEPT ![i].client = q.client,
                          ![i].terms = Refresh(@, q.terms), ![i].status = IF @ = "none" THEN "pending" ELSE @]
          /\ Write(r, "idle") /\ UNCHANGED <<account, grant, picks>>

-----------------------------------------------------------------------------
(* The client follows the link: POST /client-invites/:token/accept         *)

StartAccept_Again(r) ==
  \E i \in Invites :
    /\ invite[i].status \in {"pending", "accepted"} /\ invite[i].terms.expires # "past"
    /\ Begin(r, [Idle EXCEPT !.pc = "account", !.client = invite[i].client,
                   !.invite = i, !.terms = invite[i].terms])
StartAccept(r) ==
  \E i \in Invites :
    /\ invite[i].status = "pending" /\ invite[i].terms.expires # "past"
    /\ Begin(r, [Idle EXCEPT !.pc = "account", !.client = invite[i].client,
                   !.invite = i, !.terms = invite[i].terms])
FindAccount(r) ==
  /\ req[r].pc = "account"
  /\ Goto(r, [req[r] EXCEPT !.pc = IF req[r].client \in account THEN "accept" ELSE "join"])
\* A new client chooses a password; an account that came first is an error.
Join(r) ==
  /\ req[r].pc = "join"
  /\ IF req[r].client \in account THEN End(r)
     ELSE /\ account' = account \cup {req[r].client}
          /\ Write(r, "accept") /\ UNCHANGED <<grant, invite, picks>>
\* The terms of the invite replace those of the grant; a revoked one stays revoked.
ApplyInvite(r) ==
  /\ req[r].pc = "accept"
  /\ grant' = [grant EXCEPT ![req[r].client] =
       IF @.live THEN [@ EXCEPT !.terms = req[r].terms] ELSE NewGrant(req[r].terms)]
  /\ Write(r, "mark") /\ UNCHANGED <<account, invite, picks>>
MarkAccepted(r) ==
  /\ req[r].pc = "mark"
  /\ IF invite[req[r].invite].status = "deleted" THEN End(r)
     ELSE /\ invite' = [invite EXCEPT ![req[r].invite].status = "accepted"]
          /\ Write(r, "idle") /\ UNCHANGED <<account, grant, picks>>

-----------------------------------------------------------------------------
(* The studio's other requests write one row, whatever they read before.   *)

Studio(C) ==
  /\ requests < MaxRequests /\ requests' = requests + 1
  /\ req' = Overtake(C)

\* PATCH and DELETE /:id/clients/:userId, /submit, /unsubmit, /revoke, /restore
Manage(c, new) ==
  /\ grant[c].live /\ new # grant[c]
  /\ grant' = [grant EXCEPT ![c] = new]
  /\ Studio({c}) /\ UNCHANGED <<event, shown, account, invite, picks>>
Patch(c) == \E t \in Offers : Manage(c, [grant[c] EXCEPT !.terms = t])
Remove(c) == Manage(c, NoGrant)
Lock(c) == \E b \in BOOLEAN : Manage(c, [grant[c] EXCEPT !.submitted = b])
Revoke(c) == \E b \in BOOLEAN : Manage(c, [grant[c] EXCEPT !.revoked = b])

\* /:id/archive, /:id/restore and /:id/allow-download, and the features of the event
\* (only the owner may turn one off): each sets one column.
Flip(column) ==
  /\ event' = [event EXCEPT ![column] = ~@]
  /\ Studio(Clients) /\ UNCHANGED <<shown, account, grant, invite, picks>>
ToggleSelection == Flip("selection")
Settings == Flip("archived") \/ Flip("downloads") \/ ToggleSelection
\* A photo is archived, restored, or taken in or out of Photo Selection.
ShowHide ==
  \E p \in Photos :
    /\ shown' = IF p \in shown THEN shown \ {p} ELSE shown \cup {p}
    /\ Studio(Clients) /\ UNCHANGED <<event, account, grant, invite, picks>>

\* What was to expire has expired.
Pass(t) == IF t.expires = "ahead" THEN [t EXCEPT !.expires = "past"] ELSE t
TimePasses ==
  /\ grant' = [c \in Clients |-> [grant[c] EXCEPT !.terms = Pass(@)]]
  /\ invite' = [i \in Invites |-> [invite[i] EXCEPT !.terms = Pass(@)]]
  /\ <<grant', invite'>> # <<grant, invite>>
  /\ req' = Overtake(Clients)
  /\ UNCHANGED <<event, shown, account, picks, requests>>

Next ==
  \/ \E r \in Requests :
       \/ StartPick(r) \/ FindPick(r) \/ CountPicks(r) \/ SetPick(r)
       \/ StartSubmit(r) \/ Submit(r) \/ StartExport(r) \/ StartZip(r) \/ Serve(r)
       \/ StartGrant(r) \/ UpsertGrant(r) \/ DeleteInvites(r)
       \/ Provision(r) \/ MapProvisioned(r)
       \/ StartInvite(r) \/ FindPending(r) \/ SaveInvite(r)
       \/ StartAccept(r) \/ FindAccount(r) \/ Join(r) \/ ApplyInvite(r) \/ MarkAccepted(r)
  \/ \E c \in Clients : Patch(c) \/ Remove(c) \/ Lock(c) \/ Revoke(c)
  \/ Settings \/ ShowHide \/ TimePasses

Spec == Init /\ [][Next]_vars

-----------------------------------------------------------------------------
(* Properties.                                                             *)

\* Rows and requests are what the schema and the handlers make of them, and who
\* has a grant has an account: deleting a grant keeps the account (client.js:28).
TypeOK ==
  /\ event \in [archived : BOOLEAN, selection : BOOLEAN, downloads : BOOLEAN]
  /\ shown \subseteq Photos /\ account \subseteq Clients
  /\ grant \in [Clients -> Grant] /\ \A c \in Clients : grant[c].live => c \in account
  /\ invite \in [Invites -> Invite]
  /\ picks \subseteq Clients \X Photos
  /\ req \in [Requests -> Request] /\ requests \in 0..MaxRequests

\* The favourite cap (client.js:202).  A client has more picks than the cap only
\* because the terms or the photos changed, or by a pick that was overtaken: two
\* picks at once both count one below the cap.
CapHolds ==
  [][\A c \in Clients : ~OverCap(c) /\ OverCap(c)' =>
       \/ grant'[c].terms # grant[c].terms \/ ~grant[c].live \/ shown' # shown
       \/ \E r \in Requests : SetPick(r) /\ req[r].client = c /\ req[r].overtaken]_vars

\* Access and the submit lock (client.js:28, 182, 351).  Picks change, are submitted
\* and are handed out only while the grant stands in an event that is not archived
\* and has Photo Selection on, unsubmitted for a pick and with downloads allowed for
\* a file; a request that was overtaken is the exception.
NothingWithoutAccess ==
  [][\A r \in Requests :
       /\ SetPick(r) /\ picks' # picks =>
            \/ /\ Access(req[r].client) /\ ~grant[req[r].client].submitted
               /\ req[r].photo \in shown
            \/ req[r].overtaken
       /\ Submit(r) => Access(req[r].client) \/ req[r].overtaken
       /\ Serve(r) => (Access(req[r].client) /\ event.downloads) \/ req[r].overtaken]_vars

\* An invite gives its terms once (clientInvites.js:47): they reach the grant while
\* the invite is outstanding, has not run out and still says so, or else another
\* acceptance, a direct grant or the clock overtook the request.
InviteUsedOnce ==
  [][\A r \in Requests : ApplyInvite(r) =>
       \/ /\ invite[req[r].invite].status = "pending"
          /\ invite[req[r].invite].terms = req[r].terms /\ req[r].terms.expires # "past"
       \/ req[r].overtaken]_vars

=============================================================================
