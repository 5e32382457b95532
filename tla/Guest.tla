-------------------------------- MODULE Guest ---------------------------------
(***************************************************************************)
(* The guest surface of one event: searches, leads, reactions, comments,   *)
(* feedback, alerts and downloads of guests who have an id and no login,   *)
(* their requests to have their data exported or erased, and the studio's  *)
(* answer to those.                                                        *)
(*                                                                         *)
(* A guest's data is a set of kinds of rows: whether there is a row of a   *)
(* kind is what erasure is about.  A request passes its gates and then     *)
(* writes one table after another, and the rows of a guest may come and go *)
(* between its steps.  A request or an alert job is overtaken when another *)
(* has written, since it began, what it read.  Guests without an id, the   *)
(* ranking of matches and the uploads of guests (module Uploads) are left  *)
(* out.                                                                    *)
(***************************************************************************)
EXTENDS Integers, Sequences

CONSTANTS
  Guests,
  Requests,     \* requests that may be in flight together
  Jobs,         \* alert checks, one to a batch of new photos, that may run together
  Asks,         \* slots for GuestDataRequest rows: how many are ever filed
  Zips,         \* slots for ZipDownload rows
  MaxNudges,    \* threshold steps from the default to MAX_THRESHOLD
  MaxRequests, MaxCrashes,  \* bounds
  NoGuest, NoAsk

\* The bounds are numbers.
GuestBounds == MaxNudges \in Nat /\ MaxRequests \in Nat /\ MaxCrashes \in Nat
ASSUME GuestAssumption == GuestBounds

VARIABLES
  event,      \* the Event row: closed, search, consent, leads, downloads, deletion
  rows,       \* rows[g]: the kinds of rows that guest g has
  consented,  \* the guests with a GuestConsent row, which is never deleted
  alert,      \* alert[g]: the GuestAlertSubscription, when rows[g] has one
  ask,        \* ask[a]: the GuestDataRequest row
  zip,        \* zip[z]: the ZipDownload row and the job that fills it
  nudges,     \* matchThreshold, in steps above the default
  req,        \* req[r]: the request in slot r
  job,        \* job[j]: the alert check of batch j
  requests, crashes

guestData == <<rows, consented, alert>>
vars == <<event, guestData, ask, zip, nudges, req, job, requests, crashes>>

\* "contact" is a GuestLead with a name, a contact and consent: isLeadComplete.
Kinds == {"search", "feedback", "alert", "reaction", "comment", "lead", "contact", "activity"}
LeadModes == {"disabled", "required_search", "required_download"}
Event == [closed : BOOLEAN, search : BOOLEAN, consent : BOOLEAN, leads : LeadModes,
          downloads : BOOLEAN, deletion : BOOLEAN]
Ask == [guest : Guests \cup {NoGuest}, type : {"export", "delete"},
        status : {"none", "pending", "completed", "rejected"}]
NoAskRow == [guest |-> NoGuest, type |-> "export", status |-> "none"]
\* "built": ready, not mailed yet; "stranded": pending, and a restart took its job;
\* "unrecorded": pending, and its job could not even record that it failed.
ZipStates == {"none", "pending", "stranded", "unrecorded", "built", "ready", "failed"}

\* todo: the tables still to be written or, by an erasure, to be emptied.  left is
\* history: the kinds the guest had when the erasure began, not yet deleted since.
Request == [pc : {"idle", "write", "file", "ids", "erase", "resolve", "sweep", "purge"},
            guest : Guests \cup {NoGuest}, todo : Seq(Kinds \cup {"consent", "unreact", "leave", "nudge", "zip"}),
            wipe : SUBSET Kinds, left : SUBSET Kinds, ask : Asks \cup {NoAsk},
            type : {"export", "delete"}, answer : {"completed", "rejected"}, nudges : 0..MaxNudges,
            failed : BOOLEAN, overtaken : BOOLEAN]
Idle == [pc |-> "idle", guest |-> NoGuest, todo |-> <<>>, wipe |-> {}, left |-> {}, ask |-> NoAsk,
         type |-> "export", answer |-> "rejected", nudges |-> 0, failed |-> FALSE, overtaken |-> FALSE]
\* due: the subscriptions still to be looked at, as the job read them.
Job == [pc : {"idle", "next", "send", "stamp"}, due : SUBSET Guests,
        guest : Guests \cup {NoGuest}, overtaken : BOOLEAN]
NewJob == [pc |-> "idle", due |-> {}, guest |-> NoGuest, overtaken |-> FALSE]

Init ==
  \* To bound the start: consent is asked for just where leads are.
  /\ event \in {[closed |-> FALSE, search |-> TRUE, consent |-> m # "disabled", leads |-> m,
                 downloads |-> TRUE, deletion |-> TRUE] : m \in LeadModes}
  \* Guests are new, or have left their details, searched and asked for alerts.
  /\ \E known \in SUBSET Guests :
       /\ rows = [g \in Guests |-> IF g \in known
                    THEN {"search", "alert", "lead", "contact", "activity"} ELSE {}]
       /\ consented = IF event.consent THEN known ELSE {}
       /\ alert = [g \in Guests |-> [active |-> g \in known, recent |-> FALSE]]
  /\ ask = [a \in Asks |-> NoAskRow] /\ zip = [z \in Zips |-> "none"] /\ nudges = 0
  /\ req = [r \in Requests |-> Idle] /\ job = [j \in Jobs |-> NewJob]
  /\ requests = 0 /\ crashes = 0

-----------------------------------------------------------------------------
(* The shape of a request.                                                 *)

Some(S) == IF S = {} THEN {} ELSE {CHOOSE x \in S : TRUE}
Begin(r, new) ==
  /\ requests < MaxRequests /\ requests' = requests + 1
  /\ req[r].pc = "idle" /\ req' = [req EXCEPT ![r] = new]
  /\ UNCHANGED <<event, guestData, ask, zip, nudges, job, crashes>>
Writes(g, todo) == [Idle EXCEPT !.pc = "write", !.guest = g, !.todo = todo]

\* requireLeadFor and requireSelfieConsent: the consent is logged as it is given.
LeadOk(g, gate) == event.leads = gate => "contact" \in rows[g]
\* A search is open while the event is, and its faceSearchEnabled is on.
SearchOpen(g) == ~event.closed /\ event.search /\ LeadOk(g, "required_search")
Consent == IF event.consent THEN <<"consent">> ELSE <<>>

-----------------------------------------------------------------------------
(* What guests do: the gates, and the tables each request writes in turn.  *)

Search(r) ==
  \E g \in Guests : /\ SearchOpen(g)
                    /\ Begin(r, Writes(g, Consent \o <<"search", "lead", "activity">>))
\* One selfie for each of a group: no search is kept.
GroupSearch(r) ==
  \E g \in Guests : /\ SearchOpen(g)
                    /\ Begin(r, Writes(g, Consent \o <<"lead", "activity">>))
\* The form, filled in as much as the guest cares to: open when the event is closed.
LeadForm(r) == \E g \in Guests, kind \in {"lead", "contact"} : Begin(r, Writes(g, <<kind>>))
Browse(r) == \E g \in Guests : ~event.closed /\ Begin(r, Writes(g, <<"lead", "activity">>))
\* The same reaction again takes it back.
React(r) ==
  \E g \in Guests :
    /\ ~event.closed
    /\ Begin(r, Writes(g, IF "reaction" \in rows[g] THEN <<"unreact">> ELSE <<"reaction">>))
Remark(r) == \E g \in Guests : ~event.closed /\ Begin(r, Writes(g, <<"comment">>))
Subscribe(r) == \E g \in Guests : ~event.closed /\ Begin(r, Writes(g, <<"alert">>))
Unsubscribe(r) == \E g \in Guests : Begin(r, Writes(g, <<"leave">>))
Share(r) == \E g \in Guests : ~event.closed /\ Begin(r, Writes(g, <<"activity">>))
\* "Not me": the threshold was read with the event.
Feedback(r) ==
  \E g \in Guests :
    /\ ~event.closed /\ "search" \in rows[g]
    /\ Begin(r, [Writes(g, <<"nudge", "feedback", "activity">>) EXCEPT !.nudges = nudges])
Download(r) ==
  \E g \in Guests : /\ ~event.closed /\ event.downloads /\ LeadOk(g, "required_download")
                    /\ Begin(r, Writes(g, <<"lead", "activity">>))
DownloadEmail(r) ==
  \E g \in Guests : /\ ~event.closed /\ event.downloads /\ LeadOk(g, "required_download")
                    /\ \E z \in Zips : zip[z] = "none"
                    /\ Begin(r, Writes(g, <<"zip", "lead", "activity">>))

-----------------------------------------------------------------------------
(* Writing the next table.                                                 *)

NextTable(r) == [req[r] EXCEPT !.todo = Tail(@)]
Done(r) == IF Len(req[r].todo) = 1 THEN Idle ELSE NextTable(r)
Has(r, table) == req[r].pc = "write" /\ Head(req[r].todo) = table
OvertakeJobs == [j \in Jobs |-> [job[j] EXCEPT !.overtaken = @ \/ job[j].pc # "idle"]]

Refused_No(g, kind) == kind = "reaction" /\ kind \in rows[g]
\* A lead form with contact details makes the row complete; a touch keeps it so.
\* A reaction that exists, or feedback on a search that is gone, is an error.
Refused(g, kind) ==
  \/ kind = "reaction" /\ kind \in rows[g]
  \/ kind = "feedback" /\ "search" \notin rows[g]
Insert(r) ==
  LET g == req[r].guest IN
  \E kind \in Kinds \ {"alert"} :
    /\ Has(r, kind)
    /\ IF Refused(g, kind) THEN req' = [req EXCEPT ![r] = Idle] /\ UNCHANGED rows
       ELSE /\ rows' = [rows EXCEPT ![g] = @ \cup {kind} \cup (IF kind = "contact" THEN {"lead"} ELSE {})]
            /\ req' = [req EXCEPT ![r] = Done(r)]
    /\ UNCHANGED <<event, consented, alert, ask, zip, nudges, job, requests, crashes>>

LogConsent(r) ==
  /\ Has(r, "consent")
  /\ consented' = consented \cup {req[r].guest} /\ req' = [req EXCEPT ![r] = Done(r)]
  /\ UNCHANGED <<event, rows, alert, ask, zip, nudges, job, requests, crashes>>

TakeBack(r) ==
  /\ Has(r, "unreact")
  /\ rows' = [rows EXCEPT ![req[r].guest] = @ \ {"reaction"}] /\ req' = [req EXCEPT ![r] = Done(r)]
  /\ UNCHANGED <<event, consented, alert, ask, zip, nudges, job, requests, crashes>>

\* The upsert keeps lastNotifiedAt; unsubscribing keeps the row.
SetAlert(r) ==
  LET g == req[r].guest  on == Has(r, "alert") IN
  /\ on \/ Has(r, "leave")
  /\ rows' = [rows EXCEPT ![g] = IF on THEN @ \cup {"alert"} ELSE @]
  /\ alert' = [alert EXCEPT ![g].active = on]
  /\ job' = OvertakeJobs
  /\ req' = [req EXCEPT ![r] = Done(r)]
  /\ UNCHANGED <<event, consented, ask, zip, nudges, requests, crashes>>

\* adjustThresholdOnFeedback: one step up from what was read, bounded.
Raised(n) == IF n < MaxNudges THEN n + 1 ELSE MaxNudges
Nudge(r) ==
  /\ Has(r, "nudge")
  /\ nudges' = Raised(req[r].nudges)
  /\ req' = [q \in Requests |-> IF q = r THEN Done(r) ELSE [req[q] EXCEPT !.overtaken = @ \/ req[q].pc # "idle"]]
  /\ UNCHANGED <<event, guestData, ask, zip, job, requests, crashes>>

\* The row, and the job that is to fill it.
StartZip(r) ==
  /\ Has(r, "zip")
  /\ \E z \in Some({y \in Zips : zip[y] = "none"}) : zip' = [zip EXCEPT ![z] = "pending"]
  /\ req' = [req EXCEPT ![r] = Done(r)]
  /\ UNCHANGED <<event, guestData, ask, nudges, job, requests, crashes>>

BuildZip_NoCatch(z) ==
  /\ \E s \in {"pending", "built"} : zip[z] = "pending" /\ zip' = [zip EXCEPT ![z] = s]
  /\ UNCHANGED <<event, guestData, ask, nudges, req, job, requests, crashes>>
\* It is built and marked ready, then mailed; no visible photo, or a failure of any
\* of these, the mail included, marks it failed; if that fails too, the row stays.
BuildZip(z) ==
  /\ \/ /\ zip[z] = "pending"
        /\ \E s \in {"built", "failed", "unrecorded"} : zip' = [zip EXCEPT ![z] = s]
     \/ zip[z] = "built" /\ \E s \in {"ready", "failed"} : zip' = [zip EXCEPT ![z] = s]
  /\ UNCHANGED <<event, guestData, ask, nudges, req, job, requests, crashes>>

-----------------------------------------------------------------------------
(* Requests for data, and what the studio does with them.                  *)

Pending(g, type) ==
  {a \in Asks : ask[a].status = "pending" /\ ask[a].guest = g /\ ask[a].type = type}

\* POST /:slug/data-request: one that is pending already is the answer.
StartAsk(r) ==
  \E g \in Guests, type \in {"export", "delete"} :
    /\ type = "delete" => event.deletion
    /\ Pending(g, type) = {}
    /\ Begin(r, [Idle EXCEPT !.pc = "file", !.guest = g, !.type = type])
FileAsk(r) ==
  /\ req[r].pc = "file"
  /\ \E a \in Some({b \in Asks : ask[b].status = "none"}) :
       ask' = [ask EXCEPT ![a] = [guest |-> req[r].guest, type |-> req[r].type, status |-> "pending"]]
  /\ req' = [req EXCEPT ![r] = Idle]
  /\ UNCHANGED <<event, guestData, zip, nudges, job, requests, crashes>>

\* POST /admin/events/:id/data-requests/:requestId, pending only.  An export and a
\* rejection change nothing before the status; a deletion erases first.
StartAnswer_Again(r) ==
  \E a \in Asks, answer \in {"completed", "rejected"} :
    /\ ask[a].status # "none"
    /\ Begin(r, [Idle EXCEPT !.pc = "resolve", !.guest = ask[a].guest, !.ask = a, !.answer = answer])
StartAnswer(r) ==
  \E a \in Asks, answer \in {"completed", "rejected"} :
    LET g == ask[a].guest
        erases == answer = "completed" /\ ask[a].type = "delete"
    IN /\ ask[a].status = "pending"
       /\ Begin(r, [Idle EXCEPT !.pc = IF erases THEN "ids" ELSE "resolve", !.guest = g,
                      !.ask = a, !.answer = answer, !.left = IF erases THEN rows[g] ELSE {}])

\* Rows of these kinds of guest g are deleted; alert checks that read one are overtaken.
Delete(g, K, new) ==
  /\ rows' = [rows EXCEPT ![g] = @ \ K]
  /\ alert' = IF "alert" \in K THEN [alert EXCEPT ![g] = [active |-> FALSE, recent |-> FALSE]]
                                 ELSE alert
  /\ job' = IF "alert" \in K THEN OvertakeJobs ELSE job
  /\ req' = [q \in Requests |->
       [(IF q = new.slot THEN new.to ELSE req[q]) EXCEPT
          !.left = IF req[q].guest = g THEN @ \ K ELSE @]]
  /\ UNCHANGED <<event, consented, ask, zip, nudges, requests, crashes>>

\* eraseGuestData: feedback goes first, since a search with feedback cannot be
\* deleted; then six deletions run side by side, one failing if feedback came back.
Erased == {"search", "alert", "reaction", "comment", "lead", "activity"}
EraseFeedback(r) ==
  /\ req[r].pc = "ids"
  /\ Delete(req[r].guest, {"feedback"},
       [slot |-> r, to |-> [req[r] EXCEPT !.pc = "erase", !.wipe = Erased]])
Locked(g, kind) == kind = "search" /\ "feedback" \in rows[g]
EraseKind(r) ==
  /\ req[r].pc = "erase"
  /\ \E kind \in req[r].wipe :
       LET stuck == Locked(req[r].guest, kind)
           next == [req[r] EXCEPT !.wipe = @ \ {kind}, !.failed = @ \/ stuck]
           gone == IF kind = "lead" THEN {"lead", "contact"} ELSE {kind}
       IN Delete(req[r].guest, IF stuck THEN {} ELSE gone, [slot |-> r, to |-> next])
\* A failed deletion leaves the request pending, to be answered again.
EraseEnds(r) ==
  /\ req[r].pc = "erase" /\ req[r].wipe = {}
  /\ req' = [req EXCEPT ![r] = IF @.failed THEN Idle ELSE [@ EXCEPT !.pc = "resolve"]]
  /\ UNCHANGED <<event, guestData, ask, zip, nudges, job, requests, crashes>>
Resolve(r) ==
  LET a == req[r].ask IN
  /\ req[r].pc = "resolve"
  /\ ask' = [ask EXCEPT ![a].status = req[r].answer]
  /\ req' = [q \in Requests |-> IF q = r THEN Idle
       ELSE [req[q] EXCEPT !.overtaken = @ \/ req[q].ask = a]]
  /\ UNCHANGED <<event, guestData, zip, nudges, job, requests, crashes>>

\* runGuestDataRetentionSweep: searches that have grown old, with their feedback.
StartSweep(r) ==
  \E g \in Guests : /\ "search" \in rows[g]
                    /\ Begin(r, [Idle EXCEPT !.pc = "sweep", !.guest = g])
SweepFeedback(r) ==
  /\ req[r].pc = "sweep"
  /\ Delete(req[r].guest, {"feedback"}, [slot |-> r, to |-> [req[r] EXCEPT !.pc = "purge"]])
SweepSearches(r) ==
  /\ req[r].pc = "purge"
  /\ Delete(req[r].guest, IF Locked(req[r].guest, "search") THEN {} ELSE {"search"},
            [slot |-> r, to |-> Idle])

-----------------------------------------------------------------------------
(* Alerts: checkAndNotifyForNewPhotos.                                     *)

JobStep(j, new) ==
  /\ job' = [job EXCEPT ![j] = new]
  /\ UNCHANGED <<event, guestData, ask, zip, nudges, req, crashes>>
Notifiable_Any == {g \in Guests : "alert" \in rows[g] /\ alert[g].active}
\* A batch of new photos; the subscriptions are read at once, and who was told
\* within the interval is passed over.
Notifiable == {g \in Guests : "alert" \in rows[g] /\ alert[g].active /\ ~alert[g].recent}
StartAlerts(j) ==
  /\ requests < MaxRequests /\ requests' = requests + 1
  /\ job[j].pc = "idle"
  /\ JobStep(j, [job[j] EXCEPT !.pc = "next", !.due = Notifiable])
\* The photos match the guest's last search, or there is none, or no photo matches.
Match(j) ==
  /\ job[j].pc = "next" /\ requests' = requests
  /\ IF job[j].due = {} THEN JobStep(j, NewJob)
     ELSE \E g \in job[j].due, pc \in {"next", "send"} :
            /\ pc = "send" => "search" \in rows[g]
            /\ JobStep(j, [job[j] EXCEPT !.due = @ \ {g}, !.pc = pc, !.guest = g])
\* The message leaves, or fails and the guest stays due for a later batch.
Send(j) ==
  /\ job[j].pc = "send" /\ requests' = requests
  /\ \E pc \in {"stamp", "next"} : JobStep(j, [job[j] EXCEPT !.pc = pc])
\* lastNotifiedAt, if the subscription is still there.
Stamp(j) ==
  LET g == job[j].guest IN
  /\ job[j].pc = "stamp"
  /\ alert' = IF "alert" \in rows[g] THEN [alert EXCEPT ![g].recent = TRUE] ELSE alert
  /\ job' = [OvertakeJobs EXCEPT ![j] = [job[j] EXCEPT !.pc = "next"]]
  /\ UNCHANGED <<event, rows, consented, ask, zip, nudges, req, requests, crashes>>
\* MIN_NOTIFY_INTERVAL_MS has passed since the last message to g.
IntervalPasses(g) ==
  /\ alert[g].recent /\ alert' = [alert EXCEPT ![g].recent = FALSE]
  /\ UNCHANGED <<event, rows, consented, ask, zip, nudges, req, job, requests, crashes>>

-----------------------------------------------------------------------------

\* The studio changes a setting (PATCH /:id), switches the search on or off (POST
\* /:id/features/toggle), or closes the event.
Settings ==
  /\ requests < MaxRequests /\ requests' = requests + 1
  /\ \E e \in [closed : BOOLEAN, search : BOOLEAN, consent : {event.consent}, leads : {event.leads},
               downloads : BOOLEAN, deletion : BOOLEAN] : e # event /\ event' = e
  /\ UNCHANGED <<guestData, ask, zip, nudges, req, job, crashes>>

\* A restart: requests and jobs are gone, whatever they have not written with them.
Crash ==
  /\ crashes < MaxCrashes /\ crashes' = crashes + 1
  /\ req' = [r \in Requests |-> Idle]
  /\ job' = [j \in Jobs |-> NewJob]
  /\ zip' = [z \in Zips |-> CASE zip[z] = "pending" -> "stranded"
                               [] zip[z] = "built" -> "ready" [] OTHER -> zip[z]]
  /\ UNCHANGED <<event, guestData, ask, nudges, requests>>

Next ==
  \/ \E r \in Requests :
       \/ Search(r) \/ GroupSearch(r) \/ LeadForm(r) \/ Browse(r) \/ React(r) \/ Remark(r)
       \/ Subscribe(r) \/ Unsubscribe(r) \/ Share(r) \/ Feedback(r) \/ Download(r)
       \/ DownloadEmail(r)
       \/ Insert(r) \/ LogConsent(r) \/ TakeBack(r) \/ SetAlert(r) \/ Nudge(r) \/ StartZip(r)
       \/ StartAsk(r) \/ FileAsk(r) \/ StartAnswer(r) \/ EraseFeedback(r) \/ EraseKind(r)
       \/ EraseEnds(r) \/ Resolve(r) \/ StartSweep(r) \/ SweepFeedback(r) \/ SweepSearches(r)
  \/ \E j \in Jobs : StartAlerts(j) \/ Match(j) \/ Send(j) \/ Stamp(j)
  \/ \E g \in Guests : IntervalPasses(g)
  \/ \E z \in Zips : BuildZip(z)
  \/ Settings \/ Crash

Spec == Init /\ [][Next]_vars
\* A zip job runs by itself once it was started (guest.js:1346).
FairSpec == Spec /\ \A z \in Zips : WF_vars(BuildZip(z))

-----------------------------------------------------------------------------
(* Properties.                                                             *)

\* Variables hold what the schema and the handlers put there; feedback has its
\* search, by the foreign key (schema.prisma:867).
TypeOK ==
  /\ event \in Event
  /\ rows \in [Guests -> SUBSET Kinds]
  /\ \A g \in Guests : /\ "feedback" \in rows[g] => "search" \in rows[g]
                       /\ "contact" \in rows[g] => "lead" \in rows[g]
  /\ consented \subseteq Guests
  /\ alert \in [Guests -> [active : BOOLEAN, recent : BOOLEAN]]
  /\ ask \in [Asks -> Ask] /\ zip \in [Zips -> ZipStates] /\ nudges \in 0..MaxNudges
  /\ req \in [Requests -> Request] /\ job \in [Jobs -> Job]
  /\ requests \in 0..MaxRequests /\ crashes \in 0..MaxCrashes

\* A request for data is answered while it is pending, unless another answer
\* overtook this one (admin.js:1223).  A deletion is called completed only when
\* every row the guest had when it began has been deleted, consent apart, whatever
\* the guest did meanwhile (facePrivacy.js:118, admin.js:1227).
AnswersStand ==
  [][\A r \in Requests : Resolve(r) =>
       /\ ask[req[r].ask].status = "pending" \/ req[r].overtaken
       /\ req[r].answer = "completed" => req[r].left = {}]_vars

\* What guests are matched with.  Feedback only makes matching stricter, unless other
\* feedback moved the threshold after this request read it (threshold.js:15).  A guest
\* gets a message only while subscribed, and not within the interval after one that
\* was recorded, unless the subscription was changed or another check recorded its
\* message after this one read it (guestAlerts.js:86).
MatchingHolds ==
  [][/\ nudges' < nudges => \E r \in Requests : Nudge(r) /\ req[r].overtaken
     /\ \A j \in Jobs : LET g == job[j].guest IN
          Send(j) /\ job'[j].pc = "stamp" =>
            (alert[g].active /\ ~alert[g].recent) \/ job[j].overtaken]_vars

\* A download that was promised by mail is ready or has failed in the end, unless
\* the server was restarted while it was being built or the database refused to
\* record the failure (guest.js:1346).
ZipsSettle ==
  \A z \in Zips :
    zip[z] = "pending" ~> zip[z] \in {"ready", "failed", "stranded", "unrecorded"}

=============================================================================
