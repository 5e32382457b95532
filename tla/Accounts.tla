------------------------------- MODULE Accounts -------------------------------
(***************************************************************************)
(* One account: its sign-up, its sessions and their tokens, the lock after *)
(* wrong passwords, the links that verify its address and reset its        *)
(* password, what an administrator does to it, and its membership of one   *)
(* event of another studio, by invitation.                                 *)
(*                                                                         *)
(* Time is counted in ticks; a token has a lifetime and a session a cap,   *)
(* both shorter for a session that is not to be remembered.  A request is  *)
(* overtaken when another has written, since it began, what it read.  The  *)
(* super administrator of the environment, who has no row, is left out, as *)
(* are rate limits, hashing and mail.                                      *)
(***************************************************************************)
EXTENDS Integers, FiniteSets

CONSTANTS
  Requests,      \* requests that may be in flight together
  Tokens,        \* slots for tokens: how many are ever issued
  Invites,       \* slots for EventInvite rows
  Links,         \* slots for EmailVerificationToken and PasswordResetToken rows
  NoToken, NoInvite, NoLink,
  Ttl, LongTtl,  \* lifetimes of a token, and caps of a session: default, remembered
  Cap, LongCap,
  VerifyTtl, ResetTtl,   \* lifetimes of the links
  MaxAttempts,   \* ACCOUNT_LOCK_MAX_FAILED_ATTEMPTS
  MaxTime, MaxRequests, MaxCrashes   \* bounds

ASSUME LimitsAssumption ==
  /\ MaxAttempts \in Nat \ {0} /\ {Ttl, LongTtl, Cap, LongCap, VerifyTtl, ResetTtl} \subseteq Nat
  /\ {MaxTime, MaxRequests, MaxCrashes} \subseteq Nat

VARIABLES
  acct,      \* the User row; guesses and miscounted are history
  tok,       \* tok[t]: the claims of a token, and history: its session's login
  blocked,   \* the tokens with a TokenBlocklist row
  over,      \* history: the tokens logged out, rotated, changed or reset away
  spared,    \* history: of those, the ones that only a password reset was to end
  link,      \* link[l]: a link that was mailed, and the time of that
  invite,    \* invite[i]: the EventInvite row
  member,    \* whether there is an EventCollaborator row
  req, now, requests, crashes

rows == <<acct, tok, blocked, over, spared, link, invite, member>>
vars == <<rows, req, now, requests, crashes>>

LinkKinds == {"verify", "reset"}
NoLinkYet == [state |-> "none", kind |-> "verify", made |-> 0]
NoAccount == [id |-> 0, exists |-> FALSE, password |-> FALSE, suspended |-> FALSE, verified |-> FALSE,
              failed |-> 0, lock |-> 0, guesses |-> 0, miscounted |-> FALSE]
Account == [NoAccount EXCEPT !.exists = TRUE, !.password = TRUE]
\* children: history, the tokens it was rotated into.
NoTokenYet == [issued |-> FALSE, id |-> 0, rm |-> FALSE, iat |-> 0, login |-> 0, children |-> 0]
\* id, failed: of the account, as read; token: the one presented.
Idle == [pc |-> "idle", id |-> 0, failed |-> 0, token |-> NoToken, rm |-> FALSE, link |-> NoLink,
         invite |-> NoInvite, overtaken |-> FALSE]

Init ==
  /\ acct \in {NoAccount, Account} /\ tok = [t \in Tokens |-> NoTokenYet]
  /\ blocked = {} /\ over = {} /\ spared = {} /\ link = [l \in Links |-> NoLinkYet]
  /\ invite = [i \in Invites |-> "none"] /\ member = FALSE
  /\ req = [r \in Requests |-> Idle] /\ now = 0 /\ requests = 0 /\ crashes = 0

-----------------------------------------------------------------------------
(* The shape of a request.                                                 *)

Some(S) == CHOOSE x \in S : TRUE
Count == requests < MaxRequests /\ requests' = requests + 1
Begin(r, new) ==
  /\ Count /\ req[r].pc = "idle" /\ req' = [req EXCEPT ![r] = [new EXCEPT !.id = acct.id]]
  /\ UNCHANGED <<rows, now, crashes>>
Same(r) == acct.exists /\ acct.id = req[r].id
\* The requests that have read what is written now.
Logins == {q \in Requests : req[q].pc \in {"fail", "clear", "issue"}}
Sessions(t) == {q \in Requests : req[q].pc # "idle" /\ req[q].token = t}
LinkUsers(l) == {q \in Requests : req[q].pc \in {"apply", "spend"} /\ req[q].link = l}
Answers == {q \in Requests : req[q].pc \in {"save", "join", "accept", "decline"}}
Overtake(readers) ==
  [q \in Requests |-> IF q \in readers THEN [req[q] EXCEPT !.overtaken = TRUE] ELSE req[q]]
\* r has written what the readers had read, and goes on.
Write(r, readers, pc) ==
  /\ req' = [Overtake(readers \ {r}) EXCEPT ![r] = IF pc = "idle" THEN Idle ELSE [@ EXCEPT !.pc = pc]]
  /\ UNCHANGED <<now, requests, crashes>>
End(r) == req' = [req EXCEPT ![r] = Idle] /\ UNCHANGED <<rows, now, requests, crashes>>

-----------------------------------------------------------------------------
(* Tokens.                                                                 *)

TtlOf(rm) == IF rm THEN LongTtl ELSE Ttl
CapOf(rm) == IF rm THEN LongCap ELSE Cap
Live(t) == tok[t].issued /\ now < tok[t].iat + TtlOf(tok[t].rm)
\* requireAuth: not expired, not blocked, the account is there and not suspended.
Auth(t) == Live(t) /\ t \notin blocked /\ acct.exists /\ tok[t].id = acct.id /\ ~acct.suspended
\* signToken and issueSession: every token gets the time of its issue, whatever the session.
Free == {t \in Tokens : ~tok[t].issued}
Signed(id, rm, login) ==
  [issued |-> TRUE, id |-> id, rm |-> rm, iat |-> now, login |-> login, children |-> 0]

\* A new account gets a new id; a second one with the address is refused by the database.
StartRegister(r) ==
  \E password \in BOOLEAN :
    ~acct.exists /\ Begin(r, [Idle EXCEPT !.pc = IF password THEN "register" ELSE "google"])
Create(r) ==
  /\ req[r].pc \in {"register", "google"}
  /\ IF acct.exists THEN End(r)
     ELSE /\ acct' = [NoAccount EXCEPT !.id = acct.id + 1, !.exists = TRUE,
                        !.password = req[r].pc = "register", !.verified = req[r].pc = "google"]
          /\ \E rm \in BOOLEAN :
               req' = [req EXCEPT ![r].pc = "issue", ![r].rm = rm, ![r].id = acct.id + 1]
          /\ UNCHANGED <<tok, blocked, over, spared, link, invite, member, now, requests, crashes>>

\* Google is asked instead of the password: no lock there.
StartGoogle(r) ==
  \E rm \in BOOLEAN :
    acct.exists /\ ~acct.suspended /\ Begin(r, [Idle EXCEPT !.pc = "issue", !.rm = rm])
\* Mutant: the lock is not looked at.
StartLogin_Locked(r) ==
  \E right, rm \in BOOLEAN :
    /\ acct.exists /\ acct.password /\ (right => ~acct.suspended)
    /\ Begin(r, [Idle EXCEPT !.failed = acct.failed, !.rm = rm,
                   !.pc = IF ~right THEN "fail"
                          ELSE IF acct.failed > 0 \/ acct.lock > 0 THEN "clear" ELSE "issue"])
\* The lock is looked at, then the password is compared, with what was read.
StartLogin(r) ==
  \E right, rm \in BOOLEAN :
    /\ acct.exists /\ acct.password /\ acct.lock <= now
    /\ right => ~acct.suspended
    /\ Begin(r, [Idle EXCEPT !.failed = acct.failed, !.rm = rm,
                   !.pc = IF ~right THEN "fail"
                          ELSE IF acct.failed > 0 \/ acct.lock > 0 THEN "clear" ELSE "issue"])
\* Mutant: one attempt too many.
Locks_Late(n) == n > MaxAttempts
Locks(n) == n >= MaxAttempts
FailLogin(r) ==
  LET n == req[r].failed + 1
  IN /\ req[r].pc = "fail"
     /\ IF ~Same(r) THEN End(r)
        ELSE /\ acct' = [acct EXCEPT !.failed = IF Locks(n) THEN 0 ELSE n,
                                     !.lock = IF Locks(n) THEN now + 1 ELSE 0,
                                     !.guesses = IF Locks(n) THEN 0 ELSE @ + 1,
                                     !.miscounted = @ \/ req[r].overtaken]
             /\ Write(r, Logins, "idle") /\ UNCHANGED <<tok, blocked, over, spared, link, invite, member>>
Unlocked == [acct EXCEPT !.failed = 0, !.lock = 0, !.guesses = 0]
ClearLogin(r) ==
  /\ req[r].pc = "clear"
  /\ IF ~Same(r) THEN End(r)
     ELSE /\ acct' = Unlocked
          /\ Write(r, Logins, "issue") /\ UNCHANGED <<tok, blocked, over, spared, link, invite, member>>
Issue(r) ==
  /\ req[r].pc = "issue" /\ Free # {}
  /\ tok' = [tok EXCEPT ![Some(Free)] = Signed(req[r].id, req[r].rm, now)]
  /\ Write(r, {}, "idle") /\ UNCHANGED <<acct, blocked, over, spared, link, invite, member>>

\* The cap is measured from the time of issue of the token presented.
StartRefresh(r) == \E t \in Tokens : Auth(t) /\ Begin(r, [Idle EXCEPT !.pc = "refresh", !.token = t])
Block(t) == blocked' = blocked \cup {t} /\ over' = over \cup {t} /\ spared' = spared \ {t}
WithinCap(t) == now - tok[t].iat <= CapOf(tok[t].rm)
Refresh(r) ==
  LET t == req[r].token
  IN /\ req[r].pc = "refresh"
     /\ IF Live(t) /\ WithinCap(t)
        THEN /\ Block(t)
             /\ Write(r, Sessions(t), "rotate") /\ UNCHANGED <<acct, tok, link, invite, member>>
        ELSE End(r)
\* The identity is taken from the token: the account is not read again.
Rotate(r) ==
  LET t == req[r].token
  IN /\ req[r].pc = "rotate" /\ Free # {}
     /\ tok' = [tok EXCEPT ![t].children = @ + 1,
                           ![Some(Free)] = Signed(tok[t].id, tok[t].rm, tok[t].login)]
     /\ Write(r, Sessions(t), "idle") /\ UNCHANGED <<acct, blocked, over, spared, link, invite, member>>

\* A token is blocked whoever presents it, as long as it verifies.
Logout ==
  \E t \in Tokens :
    /\ Live(t) /\ Count /\ Block(t)
    /\ req' = Overtake(Sessions(t))
    /\ UNCHANGED <<acct, tok, link, invite, member, now, crashes>>

\* The password is compared as it was read; then it is set, then the token is blocked.
StartChange(r) == \E t \in Tokens : Auth(t) /\ Begin(r, [Idle EXCEPT !.pc = "change", !.token = t])
Change(r) ==
  /\ req[r].pc = "change"
  /\ IF ~Same(r) THEN End(r)
     ELSE /\ acct' = [acct EXCEPT !.password = TRUE]
          /\ Write(r, {}, "leave") /\ UNCHANGED <<tok, blocked, over, spared, link, invite, member>>
Leave(r) ==
  /\ req[r].pc = "leave" /\ Block(req[r].token)
  /\ Write(r, Sessions(req[r].token), "idle") /\ UNCHANGED <<acct, tok, link, invite, member>>
\* pruneExpiredBlocklist, every hour.
\* Mutant: a row goes while its token still verifies.
Prunable_Any(t) == tok[t].issued
Prunable(t) == ~Live(t)
Prune ==
  /\ \E t \in blocked : Prunable(t)
  /\ blocked' = {t \in blocked : ~Prunable(t)}
  /\ UNCHANGED <<acct, tok, over, spared, link, invite, member, req, now, requests, crashes>>

-----------------------------------------------------------------------------
(* Links: to verify the address, and to set a new password.                *)

\* By the user or, to verify, by an administrator or a registration: only an address
\* that is not verified yet gets a link for that.  Links mailed before stay valid.
AskLink(k) ==
  /\ acct.exists /\ (k = "verify" => ~acct.verified)
  /\ \E l \in Links :
       /\ link[l].state = "none"
       /\ link' = [link EXCEPT ![l] = [state |-> "valid", kind |-> k, made |-> now]]
  /\ Count /\ UNCHANGED <<acct, tok, blocked, over, spared, invite, member, req, now, crashes>>
LinkTtl(k) == IF k = "verify" THEN VerifyTtl ELSE ResetTtl
\* Mutant: a link that was used is not refused.
LinkValid_Used(l) == link[l].state # "none" /\ now <= link[l].made + LinkTtl(link[l].kind)
LinkValid(l) == link[l].state \in {"valid", "applied"} /\ now <= link[l].made + LinkTtl(link[l].kind)
StartLink(r) ==
  \E l \in Links : LinkValid(l) /\ Begin(r, [Idle EXCEPT !.pc = "apply", !.link = l])
\* A new password leaves every token in force; history: those it was to end.
OwnTokens == {t \in Tokens : tok[t].issued /\ tok[t].id = acct.id}
Spare == over' = over \cup OwnTokens /\ spared' = spared \cup (OwnTokens \ over)
\* "applied": in force, and its row not marked as used yet.
ApplyLink(r) ==
  LET l == req[r].link
  IN /\ req[r].pc = "apply"
     /\ IF ~Same(r) THEN End(r)
        ELSE /\ \/ /\ link[l].kind = "verify" /\ acct' = [acct EXCEPT !.verified = TRUE]
                   /\ UNCHANGED <<over, spared>>
                \/ link[l].kind = "reset" /\ acct' = [acct EXCEPT !.password = TRUE] /\ Spare
             /\ link' = [link EXCEPT ![l].state = IF @ = "used" THEN @ ELSE "applied"]
             /\ Write(r, LinkUsers(l), "spend") /\ UNCHANGED <<tok, blocked, invite, member>>
SpendLink(r) ==
  LET l == req[r].link
  IN /\ req[r].pc = "spend"
     /\ IF ~Same(r) THEN End(r)
        ELSE /\ link' = [link EXCEPT ![l].state = "used"]
             /\ Write(r, LinkUsers(l), "idle")
             /\ UNCHANGED <<acct, tok, blocked, over, spared, invite, member>>

-----------------------------------------------------------------------------
(* The administrator.                                                      *)

Administer(new) ==
  /\ acct.exists /\ Count /\ acct' = new /\ req' = Overtake(Logins \cup Answers)
  /\ UNCHANGED <<tok, blocked, now, crashes>>
Suspend == \E s \in BOOLEAN : /\ acct.suspended # s /\ Administer([acct EXCEPT !.suspended = s])
                              /\ UNCHANGED <<over, spared, link, invite, member>>
Unlock == Administer(Unlocked) /\ UNCHANGED <<over, spared, link, invite, member>>
ResetPassword ==
  Administer([Unlocked EXCEPT !.password = TRUE]) /\ Spare /\ UNCHANGED <<link, invite, member>>
\* Without a link; no request in flight has read what this writes.
Verify ==
  /\ acct.exists /\ Count /\ acct' = [acct EXCEPT !.verified = TRUE]
  /\ UNCHANGED <<tok, blocked, over, spared, link, invite, member, req, now, crashes>>
\* One transaction takes the account and all that hangs on it; tokens name an id that is gone.
Delete ==
  /\ Administer([NoAccount EXCEPT !.id = acct.id]) /\ member' = FALSE /\ UNCHANGED <<over, spared>>
  /\ link' = [l \in Links |-> NoLinkYet] /\ invite' = [i \in Invites |-> "none"]

-----------------------------------------------------------------------------
(* Membership: the owner invites, revokes and removes; the invited answers. *)

Pending == {i \in Invites : invite[i] = "pending"}
\* The account's status is a field it does not have: a suspended account is invited too.
StartInvite(r) ==
  /\ acct.exists /\ ~member /\ Pending = {}
  /\ Begin(r, [Idle EXCEPT !.pc = "save"])
\* A declined invite is opened again; the row is found and written in two awaits.
SaveInvite(r) ==
  LET declined == {i \in Invites : invite[i] = "declined"}
      fresh == {i \in Invites : invite[i] = "none"}
  IN /\ req[r].pc = "save" /\ declined \cup fresh # {}
     /\ invite' = [invite EXCEPT ![Some(IF declined # {} THEN declined ELSE fresh)] = "pending"]
     /\ Write(r, Answers, "idle") /\ UNCHANGED <<acct, tok, blocked, over, spared, link, member>>
\* Mutant: an invite that was declined may still be answered.
StartAnswer_Declined(r) ==
  \E i \in Invites, answer \in {"join", "decline"} :
    /\ invite[i] \in {"pending", "declined"}
    /\ acct.exists /\ Begin(r, [Idle EXCEPT !.pc = answer, !.invite = i])
StartAnswer(r) ==
  \E i \in Pending, answer \in {"join", "decline"} :
    acct.exists /\ Begin(r, [Idle EXCEPT !.pc = answer, !.invite = i])
Join(r) ==
  /\ req[r].pc = "join"
  /\ IF ~Same(r) THEN End(r)
     ELSE /\ member' = TRUE /\ Write(r, Answers, "accept")
          /\ UNCHANGED <<acct, tok, blocked, over, spared, link, invite>>
\* The row may be gone by now; both answers may be stamped, and accepted stands.
Answer(r) ==
  LET i == req[r].invite
  IN /\ req[r].pc \in {"accept", "decline"}
     /\ IF invite[i] = "none" THEN End(r)
        ELSE /\ invite' = [invite EXCEPT ![i] = IF req[r].pc = "accept" THEN "accepted"
                                               ELSE IF @ = "accepted" THEN @ ELSE "declined"]
             /\ Write(r, Answers, "idle") /\ UNCHANGED <<acct, tok, blocked, over, spared, link, member>>
Owner ==
  /\ Count /\ req' = Overtake(Answers)
  /\ UNCHANGED <<acct, tok, blocked, over, spared, link, now, crashes>>
RemoveMember == member /\ member' = FALSE /\ Owner /\ UNCHANGED invite
Revoke ==
  \E i \in Invites : /\ invite[i] \in {"pending", "declined"}
                     /\ invite' = [invite EXCEPT ![i] = "none"] /\ Owner /\ UNCHANGED member

-----------------------------------------------------------------------------
(* Time, restarts, and the whole.                                          *)

Tick == now < MaxTime /\ now' = now + 1 /\ UNCHANGED <<rows, req, requests, crashes>>
Restart ==
  /\ crashes < MaxCrashes /\ crashes' = crashes + 1
  /\ req' = [r \in Requests |-> Idle] /\ UNCHANGED <<rows, now, requests>>

SignIn(r) ==
  \/ StartRegister(r) \/ Create(r) \/ StartGoogle(r) \/ StartLogin(r)
  \/ FailLogin(r) \/ ClearLogin(r) \/ Issue(r)
Session(r) ==
  \/ StartRefresh(r) \/ Refresh(r) \/ Rotate(r) \/ StartChange(r) \/ Change(r) \/ Leave(r)
Next ==
  \/ \E r \in Requests :
       \/ SignIn(r) \/ Session(r)
       \/ StartLink(r) \/ ApplyLink(r) \/ SpendLink(r)
       \/ StartInvite(r) \/ SaveInvite(r) \/ StartAnswer(r) \/ Join(r) \/ Answer(r)
  \/ \E k \in LinkKinds : AskLink(k)
  \/ Logout \/ Prune \/ Suspend \/ Unlock \/ ResetPassword \/ Verify \/ Delete
  \/ RemoveMember \/ Revoke
  \/ Tick \/ Restart

Spec == Init /\ [][Next]_vars

-----------------------------------------------------------------------------
(* Properties.                                                             *)

\* Every variable stays in its type, and a locked account has no attempts left to count.
TypeOK ==
  /\ acct \in [id : Nat, exists : BOOLEAN, password : BOOLEAN, suspended : BOOLEAN, verified : BOOLEAN,
               failed : 0..(MaxAttempts - 1), lock : 0..(MaxTime + 1), guesses : Nat, miscounted : BOOLEAN]
  /\ tok \in [Tokens -> [issued : BOOLEAN, id : Nat, rm : BOOLEAN, iat : 0..MaxTime,
                         login : 0..MaxTime, children : Nat]]
  /\ blocked \subseteq Tokens /\ over \subseteq Tokens /\ spared \subseteq over
  /\ link \in [Links -> [state : {"none", "valid", "applied", "used"}, kind : LinkKinds,
                          made : 0..MaxTime]]
  /\ invite \in [Invites -> {"none", "pending", "accepted", "declined"}] /\ member \in BOOLEAN
  /\ req \in [Requests -> [pc : {"idle", "register", "google", "fail", "clear", "issue", "refresh", "rotate",
                                 "change", "leave", "apply", "spend", "save", "join", "accept", "decline"},
                           id : Nat, failed : 0..(MaxAttempts - 1), token : Tokens \cup {NoToken},
                           rm : BOOLEAN, link : Links \cup {NoLink}, invite : Invites \cup {NoInvite},
                           overtaken : BOOLEAN]]
  /\ now \in 0..MaxTime /\ requests \in 0..MaxRequests /\ crashes \in 0..MaxCrashes

\* A token that was logged out, rotated or changed away is refused for as long as it
\* verifies, also after the hourly prune; and a token is rotated into one other, never
\* after it was logged out, unless a request that presents it overtook the refresh.
\* The sessions that a password reset was to end (schema.prisma:153, middleware/auth.js:26)
\* go on until they end otherwise: nothing is blocked then.
EndedSessionsStayOut ==
  /\ [](\A t \in Tokens : Auth(t) => t \notin over \/ t \in spared)
  /\ [][\A r \in Requests : req[r].pc = "refresh" /\ req'[r].pc = "rotate" =>
            req[r].token \notin over \/ req[r].token \in spared \/ req[r].overtaken]_vars
  /\ [][\A r \in Requests, t \in Tokens : tok'[t].children > tok[t].children =>
            \/ tok[t].children = 0
            \/ \E q \in Requests : req[q].token = t /\ req[q].overtaken]_vars

\* Wrong passwords are counted and lock the account at the limit, and a lock is lifted
\* by time or an administrator only: unless logins overlapped (each writes the count it
\* read, and no lock with it).
LockoutHolds ==
  /\ [](~acct.miscounted => acct.guesses = acct.failed)
  /\ [][acct.lock > now /\ acct'.lock <= now' =>
         \/ now' > now \/ Unlock \/ ResetPassword \/ Delete
         \/ \E r \in Logins : req[r].overtaken /\ req'[r].pc # req[r].pc]_vars

\* A link takes effect once, however many are valid beside it, unless two requests with
\* it overlapped or the server stopped between its effect and its mark.
LinksWorkOnce ==
  [][\A r \in Requests : req[r].pc = "apply" /\ req'[r].pc = "spend" =>
       \/ link[req[r].link].state = "valid" \/ crashes > 0
       \/ req[r].overtaken \/ LinkUsers(req[r].link) # {r}]_vars

\* Nobody becomes a member, and no invite is answered, but from a pending invite; and there
\* is one pending invite at most: unless the request was overtaken.
MembersWereInvited ==
  [][\A r \in Requests : req'[r] # req[r] /\ ~req[r].overtaken /\ crashes' = crashes =>
       /\ req[r].pc \in {"join", "accept", "decline"} /\ acct.exists =>
            invite[req[r].invite] = "pending"
       /\ req[r].pc = "save" => Pending = {} /\ ~member]_vars

\* No token of a session is issued later than the session's cap after its login
\* (auth.js:216, middleware/auth.js:10).
SessionEndsWithinCap ==
  \A t \in Tokens : tok[t].issued => tok[t].iat - tok[t].login <= CapOf(tok[t].rm)

=============================================================================
