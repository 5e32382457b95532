----------------------------- MODULE AccountsProofs -----------------------------
(***************************************************************************)
(* What holds of every account, whatever requests overlap, however many    *)
(* tokens are issued and whenever the server stops: the inductive          *)
(* invariant of Accounts, and from it the four properties of its run.      *)
(***************************************************************************)
EXTENDS Accounts, TLAPS

-----------------------------------------------------------------------------
(* The inductive invariant: what a request in flight may still rely on.    *)

Steps == {"idle", "register", "google", "fail", "clear", "issue", "refresh", "rotate", "change", "leave",
          "apply", "spend", "save", "join", "accept", "decline"}
RequestType ==
  [pc : Steps, id : Nat, failed : 0..(MaxAttempts - 1), token : Tokens \cup {NoToken}, rm : BOOLEAN,
   link : Links \cup {NoLink}, invite : Invites \cup {NoInvite}, overtaken : BOOLEAN]
InSession == {"refresh", "rotate", "change", "leave"}
Answering == {"join", "accept", "decline"}

\* The tokens that were ended, and not only were to be ended by a password reset.
ended == over \ spared
\* A token that ended was issued, and is blocked for as long as it verifies; a token
\* is rotated after it has ended.
TokensInv ==
  \A t \in Tokens :
    /\ t \in ended => tok[t].issued /\ (Live(t) => t \in blocked)
    /\ tok[t].children > 0 => t \in ended
\* A request works with a token that was issued; if the token ended since, or was rotated
\* since, the request was overtaken.
SessionSafe(r) ==
  /\ req[r].pc \in InSession => req[r].token \in Tokens /\ tok[req[r].token].issued
  /\ req[r].pc = "refresh" /\ req[r].token \in ended => req[r].overtaken
  /\ req[r].pc = "rotate" =>
       req[r].token \in ended /\ (tok[req[r].token].children > 0 => req[r].overtaken)
\* The passwords guessed are those counted, unless a count was lost.
CountInv ==
  /\ ~acct.exists => acct.lock = 0
  /\ ~acct.miscounted => acct.guesses = acct.failed
\* A login has the count and saw no lock, unless it was overtaken or the account is another.
LoginSafe(r) ==
  /\ req[r].id <= acct.id
  /\ req[r].pc \in {"fail", "clear"} /\ req[r].id = acct.id /\ ~req[r].overtaken =>
       acct.lock <= now /\ (req[r].pc = "fail" => req[r].failed = acct.failed)
\* A link that is in force and not marked has a request that is about to mark it, unless
\* the server stopped.
InForce == {"valid", "applied"}
LinksInv ==
  /\ ~acct.exists => \A l \in Links : link[l].state = "none"
  /\ crashes = 0 => \A l \in Links : link[l].state = "applied" =>
       \E r \in Requests : req[r].pc = "spend" /\ req[r].link = l /\ req[r].id = acct.id
LinkSafe(r) ==
  /\ req[r].pc \in {"apply", "spend"} => req[r].link \in Links
  /\ req[r].pc = "apply" /\ req[r].id = acct.id /\ acct.exists /\ ~req[r].overtaken =>
       link[req[r].link].state \in InForce
\* An answer is to an invite that is pending, a new invite finds none, unless overtaken.
AnswerSafe(r) ==
  /\ req[r].pc \in Answering => req[r].invite \in Invites
  /\ req[r].pc \in Answering /\ ~req[r].overtaken => invite[req[r].invite] = "pending"
  /\ req[r].pc = "save" /\ ~req[r].overtaken => Pending = {} /\ ~member
RequestSafe(r) == SessionSafe(r) /\ LoginSafe(r) /\ LinkSafe(r) /\ AnswerSafe(r)
IInv == TypeOK /\ TokensInv /\ CountInv /\ LinksInv /\ \A r \in Requests : RequestSafe(r)

-----------------------------------------------------------------------------
(* What a step does to a request.                                          *)

SameLocals(q) ==
  /\ req'[q].id = req[q].id /\ req'[q].failed = req[q].failed /\ req'[q].token = req[q].token
  /\ req'[q].rm = req[q].rm /\ req'[q].link = req[q].link /\ req'[q].invite = req[q].invite
Stays(q) == req'[q] = req[q]
Marked(q) == SameLocals(q) /\ req'[q].pc = req[q].pc /\ req'[q].overtaken
Advances(q, pc) == SameLocals(q) /\ req'[q].pc = pc /\ req'[q].overtaken = req[q].overtaken
Ends(q) == req'[q] = Idle /\ req'[q].pc = "idle" /\ req'[q].id = 0
\* r did what it did; the readers among the others are overtaken.
OthersMarked(r, readers) ==
  \A q \in Requests \ {r} : IF q \in readers THEN Marked(q) ELSE Stays(q)
OthersStay(r) == \A q \in Requests \ {r} : Stays(q)

LEMMA RequestsTyped == TypeOK <=> TypeOK /\ req \in [Requests -> RequestType]
BY DEF TypeOK, RequestType, Steps

LEMMA IdleTyped == Idle \in RequestType /\ Idle.pc = "idle" /\ Idle.id = 0 /\ ~Idle.overtaken
BY LimitsAssumption DEF Idle, RequestType, Steps, LinkKinds

\* A CHOOSE from a set that has an element finds one.
LEMMA SomeIsIn == ASSUME NEW S, S # {} PROVE Some(S) \in S
BY DEF Some

LEMMA OvertakeShape ==
  ASSUME TypeOK, NEW S, NEW q \in Requests
  PROVE  /\ Overtake(S)[q] = IF q \in S THEN [req[q] EXCEPT !.overtaken = TRUE] ELSE req[q]
         /\ Overtake(S) \in [Requests -> RequestType]
         /\ DOMAIN Overtake(S) = Requests
<1>1. req \in [Requests -> RequestType]
  BY RequestsTyped
<1>2. ASSUME NEW p \in Requests PROVE [req[p] EXCEPT !.overtaken = TRUE] \in RequestType
  BY <1>1 DEF RequestType
<1> QED BY <1>1, <1>2 DEF Overtake

\* A write from outside overtakes those who read.
LEMMA MarkShape ==
  ASSUME TypeOK, NEW S, req' = Overtake(S)
  PROVE  /\ req' \in [Requests -> RequestType]
         /\ \A q \in Requests : IF q \in S THEN Marked(q) ELSE Stays(q)
<1>1. req \in [Requests -> RequestType]
  BY RequestsTyped
<1>2. req' \in [Requests -> RequestType] \/ Requests = {}
  BY OvertakeShape
<1>3. req' \in [Requests -> RequestType]
  BY <1>1, <1>2 DEF Overtake
<1>4. ASSUME NEW q \in Requests PROVE IF q \in S THEN Marked(q) ELSE Stays(q)
  <2>1. req'[q] = IF q \in S THEN [req[q] EXCEPT !.overtaken = TRUE] ELSE req[q]
    BY OvertakeShape
  <2> QED BY <1>1, <2>1 DEF Marked, Stays, SameLocals, RequestType
<1> QED BY <1>3, <1>4

\* A write of a request that goes on to pc.
LEMMA WriteShape ==
  ASSUME TypeOK, NEW r \in Requests, NEW S, NEW pc \in Steps \ {"idle"}, Write(r, S, pc)
  PROVE  /\ req' \in [Requests -> RequestType]
         /\ Advances(r, pc) /\ OthersMarked(r, S)
<1>1. req \in [Requests -> RequestType]
  BY RequestsTyped
<1>2. req' = [Overtake(S \ {r}) EXCEPT ![r] = [Overtake(S \ {r})[r] EXCEPT !.pc = pc]]
  BY DEF Write
<1>3. Overtake(S \ {r})[r] = req[r]
  BY OvertakeShape
<1>4. Overtake(S \ {r}) \in [Requests -> RequestType]
  BY OvertakeShape
<1>5. [req[r] EXCEPT !.pc = pc] \in RequestType
  BY <1>1 DEF RequestType
<1>6. req' \in [Requests -> RequestType]
  BY <1>2, <1>3, <1>4, <1>5
<1>7. req'[r] = [req[r] EXCEPT !.pc = pc]
  BY <1>2, <1>3, <1>4
<1>8. Advances(r, pc)
  BY <1>1, <1>7 DEF Advances, SameLocals, RequestType
<1>9. ASSUME NEW q \in Requests \ {r} PROVE IF q \in S THEN Marked(q) ELSE Stays(q)
  <2>1. req'[q] = IF q \in S \ {r} THEN [req[q] EXCEPT !.overtaken = TRUE] ELSE req[q]
    BY <1>2, <1>4, OvertakeShape
  <2> QED BY <1>1, <2>1 DEF Marked, Stays, SameLocals, RequestType
<1> QED BY <1>6, <1>8, <1>9 DEF OthersMarked

\* A write of a request that ends with it.
LEMMA LastWriteShape ==
  ASSUME TypeOK, NEW r \in Requests, NEW S, Write(r, S, "idle")
  PROVE  /\ req' \in [Requests -> RequestType]
         /\ Ends(r) /\ OthersMarked(r, S)
<1>1. req \in [Requests -> RequestType]
  BY RequestsTyped
<1>2. req' = [Overtake(S \ {r}) EXCEPT ![r] = Idle]
  BY DEF Write
<1>4. Overtake(S \ {r}) \in [Requests -> RequestType]
  BY OvertakeShape
<1>5. req' \in [Requests -> RequestType] /\ Ends(r)
  BY <1>2, <1>4, IdleTyped DEF Ends
<1>6. ASSUME NEW q \in Requests \ {r} PROVE IF q \in S THEN Marked(q) ELSE Stays(q)
  <2>1. req'[q] = IF q \in S \ {r} THEN [req[q] EXCEPT !.overtaken = TRUE] ELSE req[q]
    BY <1>2, <1>4, OvertakeShape
  <2> QED BY <1>1, <2>1 DEF Marked, Stays, SameLocals, RequestType
<1> QED BY <1>5, <1>6 DEF OthersMarked

LEMMA EndShape ==
  ASSUME TypeOK, NEW r \in Requests, End(r)
  PROVE  req' \in [Requests -> RequestType] /\ Ends(r) /\ OthersStay(r)
BY RequestsTyped, IdleTyped DEF End, Ends, OthersStay, Stays

\* A request begins with what it read, and with the account's id.
LEMMA BeginShape ==
  ASSUME TypeOK, NEW r \in Requests, NEW new \in RequestType, Begin(r, new)
  PROVE  /\ req' \in [Requests -> RequestType] /\ OthersStay(r)
         /\ req'[r].id = acct.id /\ req'[r].pc = new.pc /\ req'[r].failed = new.failed
         /\ req'[r].token = new.token /\ req'[r].rm = new.rm /\ req'[r].link = new.link
         /\ req'[r].invite = new.invite /\ req'[r].overtaken = new.overtaken
         /\ UNCHANGED <<rows, now, crashes>> /\ requests' \in 0..MaxRequests
<1>1. req \in [Requests -> RequestType] /\ acct.id \in Nat /\ requests \in 0..MaxRequests
  BY RequestsTyped DEF TypeOK
<1>2. [new EXCEPT !.id = acct.id] \in RequestType
  BY <1>1 DEF RequestType
<1>3. req' = [req EXCEPT ![r] = [new EXCEPT !.id = acct.id]]
  BY DEF Begin
<1>4. req' \in [Requests -> RequestType] /\ OthersStay(r)
  BY <1>1, <1>2, <1>3 DEF OthersStay, Stays
<1>5. req'[r] = [new EXCEPT !.id = acct.id]
  BY <1>1, <1>3
<1>6. requests' \in 0..MaxRequests
  BY <1>1, LimitsAssumption DEF Begin, Count
<1> QED BY <1>4, <1>5, <1>6 DEF Begin, RequestType
-----------------------------------------------------------------------------
(* Frames: the parts of the invariant a step leaves alone.                 *)

\* No session is ended: a password reset ends none either.
Keeps == UNCHANGED <<over, spared>> \/ Spare
LEMMA KeepsEnded ==
  ASSUME TypeOK, Keeps
  PROVE  ended' = ended /\ over' \subseteq Tokens /\ spared' \subseteq over'
BY DEF TypeOK, Keeps, Spare, OwnTokens, ended

LEMMA SessionFrame ==
  ASSUME IInv, NEW q \in Requests, Stays(q) \/ Marked(q), ended \subseteq ended',
         \A t \in Tokens : tok[t].issued => tok'[t].issued,
         Stays(q) => Marked(q) \/ req[q].token \notin Tokens
                     \/ /\ tok'[req[q].token].children = tok[req[q].token].children
                        /\ req[q].token \in ended' => req[q].token \in ended
  PROVE  SessionSafe(q)'
<1>1. SessionSafe(q)
  BY DEF IInv, RequestSafe
<1>2. CASE Marked(q)
  BY <1>1, <1>2 DEF SessionSafe, Marked, SameLocals, InSession
<1>3. CASE Stays(q) /\ ~Marked(q)
  BY <1>1, <1>3 DEF SessionSafe, Stays, InSession
<1> QED BY <1>2, <1>3

LEMMA LoginFrame ==
  ASSUME IInv, NEW q \in Requests, Stays(q) \/ Marked(q), acct'.id \in Nat, acct.id <= acct'.id, now' = now,
         Stays(q) /\ req[q].pc \in {"fail", "clear"} /\ acct'.id = acct.id =>
           Marked(q) \/ (acct'.lock = acct.lock /\ acct'.failed = acct.failed)
  PROVE  LoginSafe(q)'
<1>1. LoginSafe(q) /\ req[q] \in RequestType /\ acct.id \in Nat
  BY RequestsTyped DEF IInv, RequestSafe, TypeOK
<1>2. CASE Marked(q)
  BY <1>1, <1>2 DEF LoginSafe, Marked, SameLocals, RequestType
<1>3. CASE Stays(q) /\ ~Marked(q)
  BY <1>1, <1>3 DEF LoginSafe, Stays, RequestType
<1> QED BY <1>2, <1>3

LEMMA LinkFrame ==
  ASSUME IInv, NEW q \in Requests, Stays(q) \/ Marked(q), acct'.id = acct.id, acct'.exists => acct.exists,
         Stays(q) /\ acct'.exists /\ req[q].pc = "apply" /\ link[req[q].link].state \in InForce =>
           Marked(q) \/ link'[req[q].link].state \in InForce
  PROVE  LinkSafe(q)'
<1>1. LinkSafe(q)
  BY DEF IInv, RequestSafe
<1>2. CASE Marked(q)
  BY <1>1, <1>2 DEF LinkSafe, Marked, SameLocals
<1>3. CASE Stays(q) /\ ~Marked(q)
  BY <1>1, <1>3 DEF LinkSafe, Stays
<1> QED BY <1>2, <1>3

LEMMA AnswerFrame ==
  ASSUME IInv, NEW q \in Requests, Stays(q) \/ Marked(q),
         Stays(q) /\ req[q].pc \in Answering \cup {"save"} => Marked(q) \/ (invite' = invite /\ member' = member)
  PROVE  AnswerSafe(q)'
<1>1. AnswerSafe(q)
  BY DEF IInv, RequestSafe
<1>2. CASE Marked(q)
  BY <1>1, <1>2 DEF AnswerSafe, Marked, SameLocals, Answering
<1>3. CASE Stays(q) /\ ~Marked(q)
  BY <1>1, <1>3 DEF AnswerSafe, Stays, Answering, Pending
<1> QED BY <1>2, <1>3

\* No request has anything to rely on once it has ended.
LEMMA EndedSafe ==
  ASSUME IInv, NEW q \in Requests, Ends(q), acct'.id \in Nat
  PROVE  RequestSafe(q)'
<1>1. req'[q].pc = "idle" /\ req'[q].id = 0
  BY DEF Ends
<1> QED
  BY <1>1 DEF RequestSafe, SessionSafe, LoginSafe, LinkSafe, AnswerSafe, InSession, Answering

\* The rows are as they were: the other requests are as safe as they were.
LEMMA RowsFrame ==
  ASSUME IInv, NEW q \in Requests, Stays(q), UNCHANGED <<rows, now>>
  PROVE  RequestSafe(q)'
<1>1. UNCHANGED <<acct, tok, link, invite, member>> /\ Keeps /\ acct.id \in Nat
  BY DEF rows, IInv, TypeOK, Keeps
<1>2. SessionSafe(q)'
  BY <1>1, SessionFrame, KeepsEnded DEF IInv
<1>3. LoginSafe(q)'
  BY <1>1, LoginFrame
<1>4. LinkSafe(q)'
  BY <1>1, LinkFrame
<1>5. AnswerSafe(q)'
  BY <1>1, AnswerFrame
<1> QED BY <1>2, <1>3, <1>4, <1>5 DEF RequestSafe

LEMMA RowsTyped ==
  ASSUME TypeOK, UNCHANGED <<rows, now, crashes>>, req' \in [Requests -> RequestType],
         requests' \in 0..MaxRequests
  PROVE  TypeOK'
BY DEF TypeOK, rows, RequestType, Steps

LEMMA TokensFrame ==
  ASSUME TypeOK, TokensInv, UNCHANGED <<tok, blocked, now>>, Keeps
  PROVE  TokensInv'
BY KeepsEnded DEF TokensInv, Live

\* A request that begins disturbs nothing.
LEMMA BeginSafe ==
  ASSUME IInv, NEW r \in Requests, NEW new \in RequestType, Begin(r, new), RequestSafe(r)'
  PROVE  IInv'
<1>1. TypeOK /\ req[r].pc = "idle" /\ OthersStay(r) /\ UNCHANGED <<rows, now, crashes>>
  BY BeginShape DEF IInv, Begin
<1>2. UNCHANGED <<acct, tok, blocked, link, invite, member>> /\ Keeps
  BY <1>1 DEF rows, Keeps
<1>3. TypeOK'
  BY <1>1, BeginShape, RowsTyped
<1>4. TokensInv' /\ CountInv'
  BY <1>1, <1>2, TokensFrame DEF IInv, CountInv
<1>5. LinksInv'
  <2>1. LinksInv
    BY DEF IInv
  <2>2. ASSUME NEW l \in Links, crashes' = 0, link'[l].state = "applied"
        PROVE  \E q \in Requests : req'[q].pc = "spend" /\ req'[q].link = l /\ req'[q].id = acct'.id
    <3>1. PICK q \in Requests : req[q].pc = "spend" /\ req[q].link = l /\ req[q].id = acct.id
      BY <1>1, <1>2, <2>1, <2>2 DEF LinksInv
    <3>2. req'[q] = req[q]
      BY <1>1, <3>1 DEF OthersStay, Stays
    <3> QED BY <1>2, <3>1, <3>2
  <2> QED BY <1>2, <2>1, <2>2 DEF LinksInv
<1>6. ASSUME NEW q \in Requests PROVE RequestSafe(q)'
  <2>1. CASE q = r
    BY <2>1
  <2>2. CASE q # r
    BY <1>1, <2>2, RowsFrame DEF OthersStay
  <2> QED BY <2>1, <2>2
<1> QED BY <1>3, <1>4, <1>5, <1>6 DEF IInv

\* A request that ends disturbs nothing, unless it was to mark a link.
LEMMA EndSafe ==
  ASSUME IInv, NEW r \in Requests, End(r),
         req[r].pc = "spend" => link[req[r].link].state # "applied" \/ req[r].id # acct.id
  PROVE  IInv'
<1>1. TypeOK /\ OthersStay(r) /\ UNCHANGED <<rows, now, requests, crashes>> /\ Ends(r)
  BY EndShape DEF IInv, End
<1>2. UNCHANGED <<acct, tok, blocked, link, invite, member>> /\ Keeps /\ acct.id \in Nat
  BY <1>1 DEF rows, TypeOK, Keeps
<1>3. TypeOK'
  <2>1. requests' \in 0..MaxRequests
    BY <1>1 DEF TypeOK
  <2> QED BY <1>1, <2>1, EndShape, RowsTyped
<1>4. TokensInv' /\ CountInv'
  BY <1>1, <1>2, TokensFrame DEF IInv, CountInv
<1>5. LinksInv'
  <2>1. LinksInv
    BY DEF IInv
  <2>2. ASSUME NEW l \in Links, crashes' = 0, link'[l].state = "applied"
        PROVE  \E q \in Requests : req'[q].pc = "spend" /\ req'[q].link = l /\ req'[q].id = acct'.id
    <3>1. PICK q \in Requests : req[q].pc = "spend" /\ req[q].link = l /\ req[q].id = acct.id
      BY <1>1, <1>2, <2>1, <2>2 DEF LinksInv
    <3>2. req'[q] = req[q]
      BY <1>1, <1>2, <2>2, <3>1 DEF OthersStay, Stays
    <3> QED BY <1>2, <3>1, <3>2
  <2> QED BY <1>2, <2>1, <2>2 DEF LinksInv
<1>6. ASSUME NEW q \in Requests PROVE RequestSafe(q)'
  <2>1. CASE q = r
    BY <1>1, <1>2, <2>1, EndedSafe
  <2>2. CASE q # r
    BY <1>1, <2>2, RowsFrame DEF OthersStay
  <2> QED BY <2>1, <2>2
<1> QED BY <1>3, <1>4, <1>5, <1>6 DEF IInv
LEMMA LinksFrame ==
  ASSUME IInv, UNCHANGED <<link, crashes>>, acct'.id = acct.id, acct'.exists = acct.exists,
         \A q \in Requests : req[q].pc = "spend" => Stays(q) \/ Marked(q)
  PROVE  LinksInv'
<1>1. LinksInv
  BY DEF IInv
<1>2. ASSUME NEW l \in Links, crashes' = 0, link'[l].state = "applied"
      PROVE  \E q \in Requests : req'[q].pc = "spend" /\ req'[q].link = l /\ req'[q].id = acct'.id
  <2>1. PICK q \in Requests : req[q].pc = "spend" /\ req[q].link = l /\ req[q].id = acct.id
    BY <1>1, <1>2 DEF LinksInv
  <2> QED BY <2>1 DEF Stays, Marked, SameLocals
<1> QED BY <1>1, <1>2 DEF LinksInv

LEMMA CountFrame ==
  ASSUME IInv, UNCHANGED acct
  PROVE  CountInv'
BY DEF IInv, CountInv

\* Whoever is not written by r stays or is marked.
LEMMA OthersKept ==
  ASSUME NEW r \in Requests, NEW S, OthersMarked(r, S), NEW q \in Requests \ {r}
  PROVE  (Stays(q) \/ Marked(q)) /\ (q \in S => Marked(q)) /\ (Stays(q) \/ q \in S)
BY DEF OthersMarked

-----------------------------------------------------------------------------
(* The requests that begin.                                                *)

LEMMA StartRegisterSafe ==
  ASSUME IInv, NEW r \in Requests, StartRegister(r)
  PROVE  IInv'
<1>1. PICK pc \in {"register", "google"} : Begin(r, [Idle EXCEPT !.pc = pc])
  BY DEF StartRegister
<1> DEFINE new == [Idle EXCEPT !.pc = pc]
<1>2. new \in RequestType /\ new.pc = pc /\ Begin(r, new)
  BY <1>1, IdleTyped DEF RequestType, Steps
<1> HIDE DEF new
<1>3. req'[r].pc = pc /\ req'[r].id = acct.id /\ acct' = acct /\ acct.id \in Nat
  BY <1>2, BeginShape DEF IInv, TypeOK, rows
<1>4. RequestSafe(r)'
  BY <1>3 DEF RequestSafe, SessionSafe, LoginSafe, LinkSafe, AnswerSafe, InSession, Answering
<1> QED BY <1>2, <1>4, BeginSafe

LEMMA StartGoogleSafe ==
  ASSUME IInv, NEW r \in Requests, StartGoogle(r)
  PROVE  IInv'
<1>0. PICK rm \in BOOLEAN : Begin(r, [Idle EXCEPT !.pc = "issue", !.rm = rm])
  BY DEF StartGoogle
<1> DEFINE new == [Idle EXCEPT !.pc = "issue", !.rm = rm]
<1>1. Begin(r, new)
  BY <1>0
<1>2. new \in RequestType /\ new.pc = "issue"
  BY IdleTyped DEF RequestType, Steps
<1> HIDE DEF new
<1>3. req'[r].pc = "issue" /\ req'[r].id = acct.id /\ acct' = acct /\ acct.id \in Nat
  BY <1>1, <1>2, BeginShape DEF IInv, TypeOK, rows
<1>4. RequestSafe(r)'
  BY <1>3 DEF RequestSafe, SessionSafe, LoginSafe, LinkSafe, AnswerSafe, InSession, Answering
<1> QED BY <1>1, <1>2, <1>4, BeginSafe

LEMMA StartLoginSafe ==
  ASSUME IInv, NEW r \in Requests, StartLogin(r)
  PROVE  IInv'
<1>1. PICK rm \in BOOLEAN, pc \in {"fail", "clear", "issue"} :
        Begin(r, [Idle EXCEPT !.failed = acct.failed, !.rm = rm, !.pc = pc])
  BY DEF StartLogin
<1> DEFINE new == [Idle EXCEPT !.failed = acct.failed, !.rm = rm, !.pc = pc]
<1>2. acct.failed \in 0..(MaxAttempts - 1) /\ acct.lock <= now
  BY DEF StartLogin, IInv, TypeOK
<1>3. new \in RequestType /\ new.pc = pc /\ new.failed = acct.failed
  BY <1>2, IdleTyped DEF RequestType, Steps
<1>4. Begin(r, new)
  BY <1>1
<1> HIDE DEF new
<1>5. /\ req'[r].pc = pc /\ req'[r].id = acct.id /\ req'[r].failed = acct.failed
      /\ acct' = acct /\ acct.id \in Nat /\ now' = now
  BY <1>3, <1>4, BeginShape DEF IInv, TypeOK, rows
<1>6. RequestSafe(r)'
  BY <1>2, <1>5 DEF RequestSafe, SessionSafe, LoginSafe, LinkSafe, AnswerSafe, InSession, Answering
<1> QED BY <1>3, <1>4, <1>6, BeginSafe

\* A token that lets its bearer in has not ended.
LEMMA AuthFresh ==
  ASSUME IInv, NEW t \in Tokens, Auth(t)
  PROVE  tok[t].issued /\ t \notin ended /\ (t \notin over \/ t \in spared)
BY DEF IInv, TokensInv, Auth, Live, ended

LEMMA StartWithTokenSafe ==
  ASSUME IInv, NEW r \in Requests, NEW t \in Tokens, NEW pc \in {"refresh", "change"}, Auth(t),
         Begin(r, [Idle EXCEPT !.pc = pc, !.token = t])
  PROVE  IInv'
<1> DEFINE new == [Idle EXCEPT !.pc = pc, !.token = t]
<1>1. new \in RequestType /\ new.pc = pc /\ new.token = t
  BY IdleTyped DEF RequestType, Steps
<1>2. Begin(r, new)
  OBVIOUS
<1> HIDE DEF new
<1>3. /\ req'[r].pc = pc /\ req'[r].id = acct.id /\ req'[r].token = t
      /\ acct' = acct /\ tok' = tok /\ ended' = ended /\ acct.id \in Nat
  BY <1>1, <1>2, BeginShape DEF IInv, TypeOK, rows, ended
<1>4. RequestSafe(r)'
  BY <1>3, AuthFresh DEF RequestSafe, SessionSafe, LoginSafe, LinkSafe, AnswerSafe, InSession, Answering
<1> QED BY <1>1, <1>2, <1>4, BeginSafe

LEMMA StartLinkSafe ==
  ASSUME IInv, NEW r \in Requests, StartLink(r)
  PROVE  IInv'
<1>1. PICK l \in Links : LinkValid(l) /\ Begin(r, [Idle EXCEPT !.pc = "apply", !.link = l])
  BY DEF StartLink
<1> DEFINE new == [Idle EXCEPT !.pc = "apply", !.link = l]
<1>2. new \in RequestType /\ new.pc = "apply" /\ new.link = l
  BY IdleTyped DEF RequestType, Steps
<1>3. Begin(r, new)
  BY <1>1
<1> HIDE DEF new
<1>4. /\ req'[r].pc = "apply" /\ req'[r].id = acct.id /\ req'[r].link = l
      /\ acct' = acct /\ link' = link /\ acct.id \in Nat
  BY <1>2, <1>3, BeginShape DEF IInv, TypeOK, rows
<1>5. RequestSafe(r)'
  BY <1>1, <1>4
     DEF LinkValid, InForce, RequestSafe, SessionSafe, LoginSafe, LinkSafe, AnswerSafe, InSession, Answering
<1> QED BY <1>2, <1>3, <1>5, BeginSafe

LEMMA StartInviteSafe ==
  ASSUME IInv, NEW r \in Requests, StartInvite(r)
  PROVE  IInv'
<1> DEFINE new == [Idle EXCEPT !.pc = "save"]
<1>1. new \in RequestType /\ new.pc = "save"
  BY IdleTyped DEF RequestType, Steps
<1>2. Begin(r, new) /\ ~member /\ Pending = {}
  BY DEF StartInvite
<1> HIDE DEF new
<1>3. /\ req'[r].pc = "save" /\ req'[r].id = acct.id
      /\ acct' = acct /\ invite' = invite /\ member' = member /\ acct.id \in Nat
  BY <1>1, <1>2, BeginShape DEF IInv, TypeOK, rows
<1>4. RequestSafe(r)'
  BY <1>2, <1>3
     DEF RequestSafe, SessionSafe, LoginSafe, LinkSafe, AnswerSafe, InSession, Answering, Pending
<1> QED BY <1>1, <1>2, <1>4, BeginSafe

LEMMA StartAnswerSafe ==
  ASSUME IInv, NEW r \in Requests, StartAnswer(r)
  PROVE  IInv'
<1>1. PICK i \in Pending, pc \in {"join", "decline"} : Begin(r, [Idle EXCEPT !.pc = pc, !.invite = i])
  BY DEF StartAnswer
<1> DEFINE new == [Idle EXCEPT !.pc = pc, !.invite = i]
<1>2. i \in Invites /\ invite[i] = "pending"
  BY DEF Pending
<1>3. new \in RequestType /\ new.pc = pc /\ new.invite = i
  BY <1>2, IdleTyped DEF RequestType, Steps
<1>4. Begin(r, new)
  BY <1>1
<1> HIDE DEF new
<1>5. /\ req'[r].pc = pc /\ req'[r].id = acct.id /\ req'[r].invite = i
      /\ acct' = acct /\ invite' = invite /\ acct.id \in Nat
  BY <1>3, <1>4, BeginShape DEF IInv, TypeOK, rows
<1>6. RequestSafe(r)'
  BY <1>2, <1>5 DEF RequestSafe, SessionSafe, LoginSafe, LinkSafe, AnswerSafe, InSession, Answering
<1> QED BY <1>3, <1>4, <1>6, BeginSafe
-----------------------------------------------------------------------------
(* Signing in: what is written of the account.                             *)

\* The account is written, and nothing else: the parts that read tokens and invites stand.
LEMMA AccountWritten ==
  ASSUME IInv, NEW q \in Requests, Stays(q) \/ Marked(q), UNCHANGED <<tok, invite, member>>, Keeps
  PROVE  SessionSafe(q)' /\ AnswerSafe(q)'
<1>1. SessionSafe(q)'
  BY SessionFrame, KeepsEnded DEF IInv
<1>2. AnswerSafe(q)'
  BY AnswerFrame
<1> QED BY <1>1, <1>2

AccountType ==
  [id : Nat, exists : BOOLEAN, password : BOOLEAN, suspended : BOOLEAN, verified : BOOLEAN,
   failed : 0..(MaxAttempts - 1), lock : 0..(MaxTime + 1), guesses : Nat, miscounted : BOOLEAN]

LEMMA AccountTyped == TypeOK => acct \in AccountType
BY DEF TypeOK, AccountType

LEMMA CreateSafe ==
  ASSUME IInv, NEW r \in Requests, Create(r)
  PROVE  IInv'
<1>1. CASE acct.exists
  BY <1>1, EndSafe DEF Create
<1>2. CASE ~acct.exists
  <2>1. TypeOK /\ req \in [Requests -> RequestType] /\ acct.id \in Nat /\ req[r].pc # "spend"
    BY RequestsTyped DEF IInv, TypeOK, Create
  <2>0. PICK rm \in BOOLEAN : req' = [req EXCEPT ![r].pc = "issue", ![r].rm = rm, ![r].id = acct.id + 1]
    BY <1>2 DEF Create
  <2>2. /\ UNCHANGED <<tok, blocked, link, invite, member, now, requests, crashes>> /\ Keeps
        /\ req' = [req EXCEPT ![r].pc = "issue", ![r].rm = rm, ![r].id = acct.id + 1]
    BY <1>2, <2>0 DEF Create, Keeps
  <2>3. PICK p \in BOOLEAN, v \in BOOLEAN :
          acct' = [NoAccount EXCEPT !.id = acct.id + 1, !.exists = TRUE, !.password = p, !.verified = v]
    BY <1>2 DEF Create
  <2>4. /\ acct' \in AccountType
         /\ acct'.id = acct.id + 1 /\ acct'.exists /\ acct'.failed = 0 /\ acct'.guesses = 0
    <3>1. acct.id + 1 \in Nat /\ 0 \in 0..(MaxAttempts - 1) /\ 0 \in 0..(MaxTime + 1)
      BY <2>1, LimitsAssumption
    <3> QED BY <2>3, <3>1 DEF NoAccount, AccountType
  <2>5. req' = [req EXCEPT ![r] = [req[r] EXCEPT !.pc = "issue", !.rm = rm, !.id = acct.id + 1]]
    BY <2>1, <2>2 DEF RequestType
  <2>6. [req[r] EXCEPT !.pc = "issue", !.rm = rm, !.id = acct.id + 1] \in RequestType
    <3>1. acct.id + 1 \in Nat /\ req[r] \in RequestType
      BY <2>1
    <3> QED BY <3>1 DEF RequestType, Steps
  <2>7. /\ req' \in [Requests -> RequestType] /\ OthersStay(r)
         /\ req'[r] = [req[r] EXCEPT !.pc = "issue", !.rm = rm, !.id = acct.id + 1]
    BY <2>1, <2>5, <2>6 DEF OthersStay, Stays
  <2>8. req'[r].pc = "issue" /\ req'[r].id = acct.id + 1
    BY <2>1, <2>7 DEF RequestType
  <2>9. TypeOK'
    BY <2>1, <2>2, <2>4, <2>7, KeepsEnded DEF TypeOK, AccountType, RequestType, Steps
  <2>10. TokensInv'
    BY <2>1, <2>2, TokensFrame DEF IInv
  <2>11. CountInv'
    BY <2>4 DEF CountInv
  <2>12. LinksInv'
    <3>1. \A l \in Links : link'[l].state = "none"
      BY <1>2, <2>2 DEF IInv, LinksInv
    <3> QED BY <2>4, <3>1 DEF LinksInv
  <2>13. ASSUME NEW q \in Requests PROVE RequestSafe(q)'
    <3>1. CASE q = r
      BY <2>1, <2>4, <2>8, <3>1
         DEF RequestSafe, SessionSafe, LoginSafe, LinkSafe, AnswerSafe, InSession, Answering
    <3>2. CASE q # r
      <4>1. Stays(q) /\ LoginSafe(q) /\ LinkSafe(q) /\ req[q].id \in Nat
        BY <2>1, <2>7, <3>2 DEF OthersStay, IInv, RequestSafe, RequestType
      <4>2. SessionSafe(q)' /\ AnswerSafe(q)'
        BY <2>2, <4>1, AccountWritten
      <4>3. req'[q].id <= acct.id /\ acct'.id = acct.id + 1
        BY <2>4, <4>1 DEF Stays, LoginSafe
      <4>4. LoginSafe(q)' /\ LinkSafe(q)'
        BY <2>1, <2>2, <4>1, <4>3 DEF LoginSafe, LinkSafe, Stays
      <4> QED BY <4>2, <4>4 DEF RequestSafe
    <3> QED BY <3>1, <3>2
  <2> QED BY <2>9, <2>10, <2>11, <2>12, <2>13 DEF IInv
<1> QED BY <1>1, <1>2

\* The account is written in place: what is not about logins stands.
LEMMA AccountStep ==
  ASSUME IInv, acct' \in AccountType, req' \in [Requests -> RequestType],
         UNCHANGED <<tok, blocked, link, invite, member, now, crashes>>, Keeps, requests' \in 0..MaxRequests,
         acct'.id = acct.id, acct'.exists = acct.exists,
         \A q \in Requests : req[q].pc = "spend" => Stays(q) \/ Marked(q)
  PROVE  TypeOK' /\ TokensInv' /\ LinksInv'
<1>1. TypeOK'
  BY KeepsEnded DEF IInv, TypeOK, AccountType, RequestType, Steps
<1>2. TokensInv'
  BY TokensFrame DEF IInv
<1>3. LinksInv'
  BY LinksFrame
<1> QED BY <1>1, <1>2, <1>3

\* So does a login that was overtaken.
LEMMA AccountReader ==
  ASSUME IInv, acct' \in AccountType, UNCHANGED <<tok, link, invite, member, now>>, Keeps,
         acct'.id = acct.id, acct'.exists = acct.exists, NEW q \in Requests,
         Marked(q) \/ (Stays(q) /\ req[q].pc \notin {"fail", "clear"})
  PROVE  RequestSafe(q)'
<1>1. SessionSafe(q)' /\ AnswerSafe(q)'
  BY AccountWritten
<1>2. acct.id \in Nat /\ acct'.id \in Nat
  BY DEF IInv, TypeOK, AccountType
<1>3. LoginSafe(q)'
  BY <1>2, LoginFrame
<1>4. LinkSafe(q)'
  BY LinkFrame
<1> QED BY <1>1, <1>3, <1>4 DEF RequestSafe

LEMMA OverlookedLogins ==
  ASSUME NEW r \in Requests, OthersMarked(r, Logins), NEW q \in Requests \ {r}
  PROVE  Marked(q) \/ (Stays(q) /\ req[q].pc \notin {"fail", "clear"})
<1>1. (q \in Logins => Marked(q)) /\ (Stays(q) \/ q \in Logins)
  BY OthersKept
<1> QED BY <1>1 DEF Logins

LEMMA FailLoginSafe ==
  ASSUME IInv, NEW r \in Requests, FailLogin(r)
  PROVE  IInv'
<1>1. CASE ~Same(r)
  BY <1>1, EndSafe DEF FailLogin
<1>2. CASE Same(r)
  <2> DEFINE n == req[r].failed + 1
             new == [acct EXCEPT !.failed = IF Locks(n) THEN 0 ELSE n,
                                 !.lock = IF Locks(n) THEN now + 1 ELSE 0,
                                 !.guesses = IF Locks(n) THEN 0 ELSE @ + 1,
                                 !.miscounted = @ \/ req[r].overtaken]
  <2>1. TypeOK /\ acct \in AccountType /\ req[r] \in RequestType /\ now \in 0..MaxTime
        /\ requests \in 0..MaxRequests
    BY AccountTyped, RequestsTyped DEF IInv, TypeOK
  <2>2. /\ acct' = new /\ Write(r, Logins, "idle") /\ req[r].pc = "fail"
        /\ UNCHANGED <<tok, blocked, link, invite, member, now, requests, crashes>> /\ Keeps
    BY <1>2 DEF FailLogin, Write, Keeps
  <2>3. req' \in [Requests -> RequestType] /\ Ends(r) /\ OthersMarked(r, Logins)
    BY <2>1, <2>2, LastWriteShape
  <2>4. n \in 1..MaxAttempts /\ (Locks(n) <=> n = MaxAttempts)
    BY <2>1, LimitsAssumption DEF RequestType, Locks
  <2>5. PICK lost \in BOOLEAN : lost <=> (acct.miscounted \/ req[r].overtaken)
    OBVIOUS
  <2>6. acct' = [acct EXCEPT !.failed = IF n = MaxAttempts THEN 0 ELSE n,
                             !.lock = IF n = MaxAttempts THEN now + 1 ELSE 0,
                             !.guesses = IF n = MaxAttempts THEN 0 ELSE @ + 1,
                             !.miscounted = lost]
    <3>1. (acct.miscounted \/ req[r].overtaken) = lost
      BY <2>1, <2>5 DEF AccountType, RequestType
    <3> QED BY <2>2, <2>4, <3>1
  <2> HIDE DEF new
  <2>7. acct' \in AccountType /\ acct'.id = acct.id /\ acct'.exists = acct.exists
    <3>1. CASE n = MaxAttempts
      <4>1. acct' = [acct EXCEPT !.failed = 0, !.lock = now + 1, !.guesses = 0, !.miscounted = lost]
        BY <2>6, <3>1
      <4>2. 0 \in 0..(MaxAttempts - 1) /\ now + 1 \in 0..(MaxTime + 1)
        BY <2>1, LimitsAssumption
      <4> HIDE DEF n
      <4> QED BY <2>1, <4>1, <4>2 DEF AccountType
    <3>2. CASE n # MaxAttempts
      <4>1. acct' = [acct EXCEPT !.failed = n, !.lock = 0, !.guesses = acct.guesses + 1, !.miscounted = lost]
        BY <2>1, <2>6, <3>2 DEF AccountType
      <4>2. n \in 0..(MaxAttempts - 1) /\ 0 \in 0..(MaxTime + 1)
        BY <2>4, <3>2, LimitsAssumption
      <4>3. acct.guesses + 1 \in Nat
        BY <2>1 DEF AccountType
      <4> HIDE DEF n
      <4> QED BY <2>1, <4>1, <4>2, <4>3 DEF AccountType
    <3> QED BY <3>1, <3>2
  <2>8. CountInv'
    <3>1. acct.exists /\ acct.id = req[r].id
      BY <1>2 DEF Same
    <3>2. LoginSafe(r) /\ CountInv
      BY DEF IInv, RequestSafe
    <3>3. ~lost => acct.guesses = acct.failed /\ req[r].failed = acct.failed
      BY <2>1, <2>2, <2>5, <3>1, <3>2 DEF LoginSafe, CountInv
    <3>4. acct'.miscounted = lost /\ acct'.failed = (IF n = MaxAttempts THEN 0 ELSE n)
          /\ acct'.guesses = (IF n = MaxAttempts THEN 0 ELSE acct.guesses + 1)
      BY <2>1, <2>6 DEF AccountType
    <3> QED BY <2>1, <2>7, <3>1, <3>3, <3>4 DEF CountInv
  <2>9. \A q \in Requests : req[q].pc = "spend" => Stays(q) \/ Marked(q)
    BY <2>2, <2>3, OthersKept
  <2>10. RequestSafe(r)'
    BY <2>1, <2>3, <2>7, EndedSafe DEF AccountType
  <2>11. ASSUME NEW q \in Requests \ {r} PROVE RequestSafe(q)'
    <3>1. Marked(q) \/ (Stays(q) /\ req[q].pc \notin {"fail", "clear"})
      BY <2>3, OverlookedLogins
    <3> QED BY <2>2, <2>7, <3>1, AccountReader
  <2>12. TypeOK' /\ TokensInv' /\ LinksInv'
    BY <2>1, <2>2, <2>3, <2>7, <2>9, AccountStep
  <2>13. ASSUME NEW q \in Requests PROVE RequestSafe(q)'
    BY <2>10, <2>11
  <2> QED BY <2>8, <2>12, <2>13 DEF IInv
<1> QED BY <1>1, <1>2, EndSafe DEF FailLogin

LEMMA UnlockedShape ==
  ASSUME TypeOK
  PROVE  /\ Unlocked \in AccountType /\ Unlocked.id = acct.id /\ Unlocked.exists = acct.exists
         /\ Unlocked.failed = 0 /\ Unlocked.guesses = 0 /\ Unlocked.lock = 0
<1>1. acct \in AccountType
  BY AccountTyped
<1>2. 0 \in 0..(MaxAttempts - 1) /\ 0 \in 0..(MaxTime + 1)
  BY LimitsAssumption
<1> QED BY <1>1, <1>2 DEF Unlocked, AccountType

LEMMA ClearLoginSafe ==
  ASSUME IInv, NEW r \in Requests, ClearLogin(r)
  PROVE  IInv'
<1>1. CASE ~Same(r)
  BY <1>1, EndSafe DEF ClearLogin
<1>2. CASE Same(r)
  <2>1. TypeOK /\ req[r] \in RequestType /\ acct.id \in Nat /\ requests \in 0..MaxRequests
    BY RequestsTyped DEF IInv, TypeOK
  <2>2. /\ acct' = Unlocked /\ Write(r, Logins, "issue") /\ req[r].pc = "clear"
        /\ UNCHANGED <<tok, blocked, link, invite, member, now, requests, crashes>> /\ Keeps
    BY <1>2 DEF ClearLogin, Write, Keeps
  <2>3. req' \in [Requests -> RequestType] /\ Advances(r, "issue") /\ OthersMarked(r, Logins)
    BY <2>1, <2>2, WriteShape DEF Steps
  <2>4. acct' \in AccountType /\ acct'.id = acct.id /\ acct'.exists = acct.exists /\ CountInv'
    BY <2>1, <2>2, UnlockedShape DEF CountInv
  <2>5. \A q \in Requests : req[q].pc = "spend" => Stays(q) \/ Marked(q)
    BY <2>2, <2>3, OthersKept
  <2>6. RequestSafe(r)'
    <3>1. LoginSafe(r)
      BY DEF IInv, RequestSafe
    <3> QED BY <2>1, <2>3, <2>4, <3>1
            DEF Advances, SameLocals, RequestSafe, SessionSafe, LoginSafe, LinkSafe, AnswerSafe, InSession, Answering
  <2>7. ASSUME NEW q \in Requests \ {r} PROVE RequestSafe(q)'
    <3>1. Marked(q) \/ (Stays(q) /\ req[q].pc \notin {"fail", "clear"})
      BY <2>3, OverlookedLogins
    <3> QED BY <2>2, <2>4, <3>1, AccountReader
  <2>8. TypeOK' /\ TokensInv' /\ LinksInv'
    BY <2>1, <2>2, <2>3, <2>4, <2>5, AccountStep
  <2>9. ASSUME NEW q \in Requests PROVE RequestSafe(q)'
    BY <2>6, <2>7
  <2> QED BY <2>4, <2>8, <2>9 DEF IInv
<1> QED BY <1>1, <1>2
-----------------------------------------------------------------------------
(* Tokens: what is written of them and of the blocklist.                   *)

LEMMA TokenStep ==
  ASSUME IInv, UNCHANGED <<acct, link, invite, member, now, crashes>>,
         \A q \in Requests : req[q].pc = "spend" => Stays(q) \/ Marked(q)
  PROVE  CountInv' /\ LinksInv'
BY CountFrame, LinksFrame

LEMMA TokenReader ==
  ASSUME IInv, UNCHANGED <<acct, link, invite, member, now>>, NEW q \in Requests, Stays(q) \/ Marked(q),
         SessionSafe(q)'
  PROVE  RequestSafe(q)'
<1>1. acct.id \in Nat
  BY DEF IInv, TypeOK
<1>2. LoginSafe(q)'
  BY <1>1, LoginFrame
<1>3. LinkSafe(q)'
  BY LinkFrame
<1>4. AnswerSafe(q)'
  BY AnswerFrame
<1> QED BY <1>2, <1>3, <1>4 DEF RequestSafe

\* A request that goes on to something that is no login, link or answer.
LEMMA TokenWriter ==
  ASSUME IInv, UNCHANGED acct, NEW r \in Requests,
         NEW pc \in {"rotate", "leave"}, Advances(r, pc), SessionSafe(r)'
  PROVE  RequestSafe(r)'
<1>1. LoginSafe(r)
  BY DEF IInv, RequestSafe
<1> QED BY <1>1 DEF Advances, SameLocals, RequestSafe, LoginSafe, LinkSafe, AnswerSafe, Answering

TokenType == [issued : BOOLEAN, id : Nat, rm : BOOLEAN, iat : 0..MaxTime, login : 0..MaxTime, children : Nat]

LEMMA TokensTyped == TypeOK => tok \in [Tokens -> TokenType]
BY DEF TypeOK, TokenType

LEMMA TypeStep ==
  ASSUME TypeOK, UNCHANGED <<acct, link, invite, member, now, crashes>>, requests' \in 0..MaxRequests,
         tok' \in [Tokens -> TokenType], blocked' \subseteq Tokens,
         over' \subseteq Tokens, spared' \subseteq over',
         req' \in [Requests -> RequestType]
  PROVE  TypeOK'
BY DEF TypeOK, TokenType, RequestType, Steps

LEMMA SignedShape ==
  ASSUME TypeOK, NEW id \in Nat, NEW rm \in BOOLEAN, NEW login \in 0..MaxTime
  PROVE  /\ Signed(id, rm, login) \in TokenType /\ Signed(id, rm, login).issued
         /\ Signed(id, rm, login).children = 0
BY DEF TypeOK, Signed, TokenType

\* Tokens that are there stay as they are, but for those they are rotated into.
LEMMA TokensWritten ==
  ASSUME TypeOK, TokensInv, UNCHANGED <<blocked, now>>, Keeps, tok' \in [Tokens -> TokenType],
         \A t \in Tokens :
           \/ ~tok[t].issued /\ tok'[t].children = 0
           \/ /\ tok'[t].issued = tok[t].issued /\ tok'[t].rm = tok[t].rm /\ tok'[t].iat = tok[t].iat
              /\ tok'[t].children # tok[t].children => t \in ended
  PROVE  TokensInv'
<1>1. ASSUME NEW t \in Tokens
      PROVE  /\ t \in ended' => tok'[t].issued /\ (Live(t)' => t \in blocked')
             /\ tok'[t].children > 0 => t \in ended'
  <2>1. CASE ~tok[t].issued /\ tok'[t].children = 0
    BY <2>1, KeepsEnded DEF TokensInv
  <2>2. CASE /\ tok'[t].issued = tok[t].issued /\ tok'[t].rm = tok[t].rm /\ tok'[t].iat = tok[t].iat
             /\ tok'[t].children # tok[t].children => t \in ended
    <3>1. Live(t)' <=> Live(t)
      BY <2>2 DEF Live, TtlOf
    <3> QED BY <2>2, <3>1, KeepsEnded DEF TokensInv
  <2> QED BY <2>1, <2>2
<1> QED BY <1>1 DEF TokensInv

LEMMA IssueSafe ==
  ASSUME IInv, NEW r \in Requests, Issue(r)
  PROVE  IInv'
<1>1. /\ TypeOK /\ req[r] \in RequestType /\ now \in 0..MaxTime /\ requests \in 0..MaxRequests
      /\ acct.id \in Nat /\ blocked \subseteq Tokens /\ over \subseteq Tokens /\ spared \subseteq over
      /\ tok \in [Tokens -> TokenType]
  BY RequestsTyped, TokensTyped DEF IInv, TypeOK
<1>2. PICK f \in Tokens : ~tok[f].issued /\ tok' = [tok EXCEPT ![f] = Signed(req[r].id, req[r].rm, now)]
  BY SomeIsIn DEF Issue, Free
<1>3. /\ Write(r, {}, "idle") /\ req[r].pc = "issue"
      /\ UNCHANGED <<acct, blocked, link, invite, member, now, requests, crashes>> /\ Keeps
  BY DEF Issue, Write, Keeps
<1>4. req' \in [Requests -> RequestType] /\ Ends(r) /\ OthersMarked(r, {})
  BY <1>1, <1>3, LastWriteShape
<1>5. /\ Signed(req[r].id, req[r].rm, now) \in TokenType
      /\ Signed(req[r].id, req[r].rm, now).issued /\ Signed(req[r].id, req[r].rm, now).children = 0
  BY <1>1, SignedShape DEF RequestType
<1>6. /\ tok' \in [Tokens -> TokenType] /\ tok'[f].issued /\ tok'[f].children = 0
      /\ \A t \in Tokens : t # f => tok'[t] = tok[t]
  BY <1>1, <1>2, <1>5
<1>7. TypeOK'
  BY <1>1, <1>3, <1>4, <1>6, KeepsEnded, TypeStep
<1>8. TokensInv'
  <2>1. ASSUME NEW t \in Tokens
        PROVE  \/ ~tok[t].issued /\ tok'[t].children = 0
               \/ /\ tok'[t].issued = tok[t].issued /\ tok'[t].rm = tok[t].rm /\ tok'[t].iat = tok[t].iat
                  /\ tok'[t].children # tok[t].children => t \in ended
    BY <1>2, <1>6
  <2> QED BY <1>1, <1>3, <1>6, <2>1, TokensWritten DEF IInv
<1>9. CountInv' /\ LinksInv'
  BY <1>3, <1>4, OthersKept, TokenStep
<1>10. ASSUME NEW q \in Requests PROVE RequestSafe(q)'
  <2>1. CASE q = r
    BY <1>1, <1>3, <1>4, <2>1, EndedSafe
  <2>2. CASE q # r
    <3>1. Stays(q)
      BY <1>4, <2>2, OthersKept
    <3>2. SessionSafe(q)'
      <4>1. req[q].token = f => SessionSafe(q)'
        <5>1. SessionSafe(q)
          BY DEF IInv, RequestSafe
        <5>2. f \notin ended
          BY <1>2 DEF IInv, TokensInv
        <5> QED BY <1>2, <1>3, <1>6, <3>1, <5>1, <5>2 DEF SessionSafe, Stays, InSession
      <4>2. req[q].token # f => SessionSafe(q)'
        BY <1>1, <1>2, <1>3, <1>6, <3>1, SessionFrame, KeepsEnded
      <4> QED BY <4>1, <4>2
    <3> QED BY <1>3, <3>1, <3>2, TokenReader
  <2> QED BY <2>1, <2>2
<1> QED BY <1>7, <1>8, <1>9, <1>10 DEF IInv
\* A token ends: it is blocked, and those who present it are overtaken.
LEMMA BlockedTokens ==
  ASSUME TypeOK, TokensInv, NEW t \in Tokens, tok[t].issued, Block(t), UNCHANGED <<tok, now>>
  PROVE  /\ TokensInv' /\ blocked' \subseteq Tokens /\ over' \subseteq Tokens /\ spared' \subseteq over'
         /\ ended' = ended \cup {t}
<1>1. ended' = ended \cup {t}
  BY DEF TypeOK, Block, ended
<1> QED BY <1>1 DEF TypeOK, TokensInv, Block, Live

LEMMA BlockReader ==
  ASSUME IInv, NEW t, ended' = ended \cup {t}, UNCHANGED <<acct, tok, link, invite, member, now>>,
         NEW q \in Requests, Stays(q) \/ Marked(q),
         q \in Sessions(t) => Marked(q)
  PROVE  RequestSafe(q)'
<1>1. CASE Marked(q)
  <2>1. SessionSafe(q)'
    BY <1>1, SessionFrame
  <2> QED BY <2>1, TokenReader
<1>2. CASE Stays(q) /\ q \notin Sessions(t)
  <2>1. SessionSafe(q)
    BY DEF IInv, RequestSafe
  <2>2. req[q].pc = "idle" \/ req[q].token # t
    BY <1>2 DEF Sessions
  <2>3. SessionSafe(q)'
    BY <1>2, <2>1, <2>2 DEF SessionSafe, Stays, InSession
  <2> QED BY <2>3, TokenReader
<1> QED BY <1>1, <1>2

LEMMA RefreshSafe ==
  ASSUME IInv, NEW r \in Requests, Refresh(r)
  PROVE  IInv'
<1> DEFINE t == req[r].token
<1>1. CASE ~(Live(t) /\ WithinCap(t))
  BY <1>1, EndSafe DEF Refresh
<1>2. CASE Live(t) /\ WithinCap(t)
  <2>1. /\ Block(t) /\ Write(r, Sessions(t), "rotate") /\ req[r].pc = "refresh"
        /\ UNCHANGED <<acct, tok, link, invite, member, now, requests, crashes>>
    BY <1>2 DEF Refresh, Write, Block
  <2>2. /\ TypeOK /\ TokensInv /\ SessionSafe(r) /\ requests \in 0..MaxRequests
        /\ tok \in [Tokens -> TokenType]
    BY TokensTyped DEF IInv, RequestSafe, TypeOK
  <2>3. t \in Tokens /\ tok[t].issued
    BY <2>1, <2>2 DEF SessionSafe, InSession
  <2>4. req' \in [Requests -> RequestType] /\ Advances(r, "rotate") /\ OthersMarked(r, Sessions(t))
    BY <2>1, <2>2, WriteShape DEF Steps
  <2>5. /\ TokensInv' /\ blocked' \subseteq Tokens /\ over' \subseteq Tokens /\ spared' \subseteq over'
        /\ ended' = ended \cup {t}
    BY <2>1, <2>2, <2>3, BlockedTokens
  <2> HIDE DEF t
  <2>6. TypeOK'
    BY <2>1, <2>2, <2>4, <2>5, TypeStep
  <2>7. CountInv' /\ LinksInv'
    BY <2>1, <2>4, OthersKept, TokenStep
  <2>8. ASSUME NEW q \in Requests PROVE RequestSafe(q)'
    <3>1. CASE q = r
      <4>1. SessionSafe(r)'
        BY <2>1, <2>2, <2>3, <2>4, <2>5 DEF t, TokensInv, Advances, SameLocals, SessionSafe, InSession
      <4> QED BY <2>1, <2>4, <3>1, <4>1, TokenWriter
    <3>2. CASE q # r
      <4>1. (Stays(q) \/ Marked(q)) /\ (q \in Sessions(t) => Marked(q))
        BY <2>4, <3>2, OthersKept
      <4> QED BY <2>1, <2>5, <4>1, BlockReader
    <3> QED BY <3>1, <3>2
  <2> QED BY <2>5, <2>6, <2>7, <2>8 DEF IInv
<1> QED BY <1>1, <1>2

LEMMA RotateSafe ==
  ASSUME IInv, NEW r \in Requests, Rotate(r)
  PROVE  IInv'
<1> DEFINE t == req[r].token
<1>1. /\ TypeOK /\ TokensInv /\ SessionSafe(r) /\ requests \in 0..MaxRequests
      /\ blocked \subseteq Tokens /\ over \subseteq Tokens /\ spared \subseteq over
      /\ tok \in [Tokens -> TokenType]
  BY TokensTyped DEF IInv, RequestSafe, TypeOK
<1>2. /\ Write(r, Sessions(t), "idle") /\ req[r].pc = "rotate"
      /\ UNCHANGED <<acct, blocked, link, invite, member, now, requests, crashes>> /\ Keeps
  BY DEF Rotate, Write, Keeps
<1>3. t \in Tokens /\ tok[t].issued /\ t \in ended
  BY <1>1, <1>2 DEF SessionSafe, InSession
<1>4. PICK f \in Tokens :
        /\ ~tok[f].issued
        /\ tok' = [tok EXCEPT ![t].children = @ + 1, ![f] = Signed(tok[t].id, tok[t].rm, tok[t].login)]
  BY SomeIsIn DEF Rotate, Free
<1>5. /\ Signed(tok[t].id, tok[t].rm, tok[t].login) \in TokenType
      /\ Signed(tok[t].id, tok[t].rm, tok[t].login).issued
      /\ Signed(tok[t].id, tok[t].rm, tok[t].login).children = 0
  BY <1>1, <1>3, SignedShape DEF TokenType
<1>6. req' \in [Requests -> RequestType] /\ Ends(r) /\ OthersMarked(r, Sessions(t))
  BY <1>1, <1>2, LastWriteShape
<1> HIDE DEF t
<1>7. [tok[t] EXCEPT !.children = tok[t].children + 1] \in TokenType
  BY <1>1, <1>3 DEF TokenType
<1>8. /\ tok' \in [Tokens -> TokenType] /\ f # t
      /\ tok'[f].issued /\ tok'[f].children = 0
      /\ tok'[t] = [tok[t] EXCEPT !.children = tok[t].children + 1]
      /\ \A u \in Tokens \ {t, f} : tok'[u] = tok[u]
  BY <1>1, <1>3, <1>4, <1>5, <1>7
<1>9. tok'[t].issued /\ tok'[t].rm = tok[t].rm /\ tok'[t].iat = tok[t].iat
  BY <1>1, <1>3, <1>8 DEF TokenType
<1>10. TypeOK'
  BY <1>1, <1>2, <1>6, <1>8, KeepsEnded, TypeStep
<1>11. TokensInv'
  <2>1. ASSUME NEW u \in Tokens
        PROVE  \/ ~tok[u].issued /\ tok'[u].children = 0
               \/ /\ tok'[u].issued = tok[u].issued /\ tok'[u].rm = tok[u].rm /\ tok'[u].iat = tok[u].iat
                  /\ tok'[u].children # tok[u].children => u \in ended
    <3>1. CASE u = f
      BY <1>4, <1>8, <3>1
    <3>2. CASE u = t
      <4>1. tok'[t].issued = tok[t].issued
        BY <1>1, <1>3, <1>8, <1>9 DEF TokenType
      <4> QED BY <1>3, <1>9, <3>2, <4>1
    <3>3. CASE u \notin {t, f}
      BY <1>8, <3>3
    <3> QED BY <3>1, <3>2, <3>3
  <2> QED BY <1>1, <1>2, <1>8, <2>1, TokensWritten
<1>12. CountInv' /\ LinksInv'
  BY <1>2, <1>6, OthersKept, TokenStep
<1>13. ASSUME NEW q \in Requests PROVE RequestSafe(q)'
  <2>1. CASE q = r
    BY <1>1, <1>2, <1>6, <1>10, <2>1, EndedSafe DEF TypeOK
  <2>2. CASE q # r
    <3>1. (Stays(q) \/ Marked(q)) /\ (q \in Sessions(t) => Marked(q)) /\ SessionSafe(q)
      BY <1>6, <2>2, OthersKept DEF IInv, RequestSafe
    <3>2. SessionSafe(q)'
      <4>1. CASE Marked(q)
        <5>1. \A u \in Tokens : tok[u].issued => tok'[u].issued
          BY <1>8, <1>9
        <5> QED BY <1>1, <1>2, <4>1, <5>1, SessionFrame, KeepsEnded
      <4>2. CASE Stays(q) /\ q \notin Sessions(t)
        <5>1. req[q].pc = "idle" \/ req[q].token # t
          BY <4>2 DEF Sessions
        <5>2. f \notin ended
          BY <1>1, <1>4 DEF TokensInv
        <5> QED BY <1>1, <1>2, <1>4, <1>8, <3>1, <4>2, <5>1, <5>2, KeepsEnded DEF SessionSafe, Stays, InSession
      <4> QED BY <3>1, <4>1, <4>2
    <3> QED BY <1>2, <3>1, <3>2, TokenReader
  <2> QED BY <2>1, <2>2
<1> QED BY <1>10, <1>11, <1>12, <1>13 DEF IInv

LEMMA ChangeSafe ==
  ASSUME IInv, NEW r \in Requests, Change(r)
  PROVE  IInv'
<1>1. CASE ~Same(r)
  BY <1>1, EndSafe DEF Change
<1>2. CASE Same(r)
  <2>1. /\ acct' = [acct EXCEPT !.password = TRUE] /\ Write(r, {}, "leave") /\ req[r].pc = "change"
        /\ UNCHANGED <<tok, blocked, link, invite, member, now, requests, crashes>> /\ Keeps
    BY <1>2 DEF Change, Write, Keeps
  <2>2. TypeOK /\ acct \in AccountType /\ requests \in 0..MaxRequests /\ RequestSafe(r) /\ CountInv
    BY AccountTyped DEF IInv, TypeOK
  <2>3. req' \in [Requests -> RequestType] /\ Advances(r, "leave") /\ OthersMarked(r, {})
    BY <2>1, <2>2, WriteShape DEF Steps
  <2>4. /\ acct' \in AccountType /\ acct'.id = acct.id /\ acct'.exists = acct.exists
        /\ acct'.lock = acct.lock /\ acct'.failed = acct.failed /\ CountInv'
    BY <2>1, <2>2 DEF AccountType, CountInv
  <2>5. TypeOK' /\ TokensInv' /\ LinksInv'
    BY <2>1, <2>2, <2>3, <2>4, OthersKept, AccountStep
  <2>6. ASSUME NEW q \in Requests PROVE RequestSafe(q)'
    <3>1. CASE q = r
      BY <2>1, <2>2, <2>3, <2>4, <3>1 DEF RequestSafe, Advances, SameLocals, SessionSafe, LoginSafe,
         LinkSafe, AnswerSafe, InSession, Answering
    <3>2. CASE q # r
      <4>1. Stays(q)
        BY <2>3, <3>2, OthersKept
      <4>2. SessionSafe(q)' /\ AnswerSafe(q)'
        BY <2>1, <4>1, AccountWritten
      <4>3. acct.id \in Nat
        BY <2>2 DEF AccountType
      <4>4. LoginSafe(q)' /\ LinkSafe(q)'
        BY <2>1, <2>4, <4>1, <4>3, LoginFrame, LinkFrame
      <4> QED BY <4>2, <4>4 DEF RequestSafe
    <3> QED BY <3>1, <3>2
  <2> QED BY <2>4, <2>5, <2>6 DEF IInv
<1> QED BY <1>1, <1>2

LEMMA LeaveSafe ==
  ASSUME IInv, NEW r \in Requests, Leave(r)
  PROVE  IInv'
<1> DEFINE t == req[r].token
<1>1. /\ Block(t) /\ Write(r, Sessions(t), "idle") /\ req[r].pc = "leave"
      /\ UNCHANGED <<acct, tok, link, invite, member, now, requests, crashes>>
  BY DEF Leave, Write
<1>2. /\ TypeOK /\ TokensInv /\ SessionSafe(r) /\ requests \in 0..MaxRequests
      /\ tok \in [Tokens -> TokenType]
  BY TokensTyped DEF IInv, RequestSafe, TypeOK
<1>3. t \in Tokens /\ tok[t].issued
  BY <1>1, <1>2 DEF SessionSafe, InSession
<1>4. req' \in [Requests -> RequestType] /\ Ends(r) /\ OthersMarked(r, Sessions(t))
  BY <1>1, <1>2, LastWriteShape
<1> HIDE DEF t
<1>5. /\ TokensInv' /\ blocked' \subseteq Tokens /\ over' \subseteq Tokens /\ spared' \subseteq over'
      /\ ended' = ended \cup {t}
  BY <1>1, <1>2, <1>3, BlockedTokens
<1>6. TypeOK'
  BY <1>1, <1>2, <1>4, <1>5, TypeStep
<1>7. CountInv' /\ LinksInv'
  BY <1>1, <1>4, OthersKept, TokenStep
<1>8. ASSUME NEW q \in Requests PROVE RequestSafe(q)'
  <2>1. CASE q = r
    BY <1>4, <1>6, <2>1, EndedSafe DEF TypeOK
  <2>2. CASE q # r
    <3>1. (Stays(q) \/ Marked(q)) /\ (q \in Sessions(t) => Marked(q))
      BY <1>4, <2>2, OthersKept
    <3> QED BY <1>1, <1>5, <3>1, BlockReader
  <2> QED BY <2>1, <2>2
<1> QED BY <1>5, <1>6, <1>7, <1>8 DEF IInv

LEMMA LogoutSafe ==
  ASSUME IInv, Logout
  PROVE  IInv'
<1>1. PICK t \in Tokens :
        /\ Live(t) /\ Block(t) /\ req' = Overtake(Sessions(t))
        /\ UNCHANGED <<acct, tok, link, invite, member, now, crashes>>
  BY DEF Logout
<1>2. TypeOK /\ TokensInv /\ tok \in [Tokens -> TokenType] /\ requests' \in 0..MaxRequests
  BY TokensTyped, LimitsAssumption DEF IInv, TypeOK, Logout, Count
<1>3. tok[t].issued
  BY <1>1 DEF Live
<1>4. /\ req' \in [Requests -> RequestType]
      /\ \A q \in Requests : IF q \in Sessions(t) THEN Marked(q) ELSE Stays(q)
  BY <1>1, <1>2, MarkShape
<1>5. /\ TokensInv' /\ blocked' \subseteq Tokens /\ over' \subseteq Tokens /\ spared' \subseteq over'
      /\ ended' = ended \cup {t}
  BY <1>1, <1>2, <1>3, BlockedTokens
<1>6. TypeOK'
  BY <1>1, <1>2, <1>4, <1>5, TypeStep
<1>7. CountInv' /\ LinksInv'
  BY <1>1, <1>4, TokenStep
<1>8. ASSUME NEW q \in Requests PROVE RequestSafe(q)'
  BY <1>1, <1>4, <1>5, BlockReader
<1> QED BY <1>5, <1>6, <1>7, <1>8 DEF IInv

LEMMA PruneSafe ==
  ASSUME IInv, Prune
  PROVE  IInv'
<1>1. /\ blocked' = {t \in blocked : ~Prunable(t)}
      /\ UNCHANGED <<acct, tok, link, invite, member, req, now, requests, crashes>> /\ Keeps
  BY DEF Prune, Keeps
<1>2. TypeOK'
  BY <1>1, KeepsEnded DEF IInv, TypeOK
<1>3. TokensInv'
  BY <1>1, KeepsEnded DEF IInv, TokensInv, Prunable, Live
<1>4. CountInv' /\ LinksInv'
  BY <1>1, TokenStep DEF Stays
<1>5. ASSUME NEW q \in Requests PROVE RequestSafe(q)'
  <2>1. Stays(q)
    BY <1>1 DEF Stays
  <2>2. SessionSafe(q)'
    BY <1>1, <2>1, SessionFrame, KeepsEnded DEF IInv
  <2> QED BY <1>1, <2>1, <2>2, TokenReader
<1> QED BY <1>2, <1>3, <1>4, <1>5 DEF IInv
-----------------------------------------------------------------------------
(* Links: mailed, applied, marked.                                         *)

LinkType ==
  [state : {"none", "valid", "applied", "used"}, kind : LinkKinds, made : 0..MaxTime]

\* A link is written, and of the account at most what no login reads.
LEMMA LinkStep ==
  ASSUME IInv, UNCHANGED <<tok, blocked, invite, member, now, crashes>>, Keeps, acct' \in AccountType,
         acct'.id = acct.id, acct'.exists = acct.exists, acct'.lock = acct.lock,
         acct'.failed = acct.failed, acct'.guesses = acct.guesses, acct'.miscounted = acct.miscounted,
         link' \in [Links -> LinkType], req' \in [Requests -> RequestType], requests' \in 0..MaxRequests
  PROVE  TypeOK' /\ TokensInv' /\ CountInv'
<1>1. TypeOK'
  BY KeepsEnded DEF IInv, TypeOK, AccountType, LinkType, RequestType, Steps
<1>2. TokensInv'
  BY TokensFrame DEF IInv
<1>3. CountInv'
  BY DEF IInv, CountInv
<1> QED BY <1>1, <1>2, <1>3

LEMMA LinkReader ==
  ASSUME IInv, UNCHANGED <<tok, invite, member, now>>, Keeps, acct' \in AccountType,
         acct'.id = acct.id, acct'.exists = acct.exists, acct'.lock = acct.lock, acct'.failed = acct.failed,
         NEW q \in Requests, Stays(q) \/ Marked(q),
         Stays(q) /\ req[q].pc = "apply" /\ link[req[q].link].state \in InForce =>
           Marked(q) \/ link'[req[q].link].state \in InForce
  PROVE  RequestSafe(q)'
<1>1. SessionSafe(q)' /\ AnswerSafe(q)'
  BY AccountWritten
<1>2. acct.id \in Nat
  BY DEF IInv, TypeOK
<1>3. LoginSafe(q)'
  BY <1>2, LoginFrame
<1>4. LinkSafe(q)'
  BY LinkFrame
<1> QED BY <1>1, <1>3, <1>4 DEF RequestSafe

\* A link is written: the other links stand.
LEMMA LinkWritten ==
  ASSUME TypeOK, NEW l \in Links, NEW new \in LinkType, link' = [link EXCEPT ![l] = new]
  PROVE  /\ link' \in [Links -> LinkType] /\ link'[l] = new
         /\ \A m \in Links : m # l => link'[m] = link[m]
BY DEF TypeOK, LinkType

\* It is written by the action on its own state.
LEMMA LinkStateWritten ==
  ASSUME TypeOK, NEW l \in Links, NEW s \in {"applied", "used"}, link' = [link EXCEPT ![l].state = s]
  PROVE  /\ link' \in [Links -> LinkType] /\ link'[l].state = s
         /\ \A m \in Links : m # l => link'[m] = link[m]
<1>1. link \in [Links -> LinkType]
  BY DEF TypeOK, LinkType
<1>2. link' = [link EXCEPT ![l] = [link[l] EXCEPT !.state = s]]
  BY <1>1
<1>3. [link[l] EXCEPT !.state = s] \in LinkType /\ [link[l] EXCEPT !.state = s].state = s
  BY <1>1 DEF LinkType
<1> QED BY <1>2, <1>3, LinkWritten

LEMMA AskLinkSafe ==
  ASSUME IInv, NEW k \in LinkKinds, AskLink(k)
  PROVE  IInv'
<1> DEFINE new == [state |-> "valid", kind |-> k, made |-> now]
<1>1. PICK l \in Links : link[l].state = "none" /\ link' = [link EXCEPT ![l] = new]
  BY DEF AskLink
<1>2. /\ acct.exists /\ UNCHANGED <<acct, tok, blocked, invite, member, req, now, crashes>> /\ Keeps
  BY DEF AskLink, Keeps
<1>3. /\ TypeOK /\ acct \in AccountType /\ now \in 0..MaxTime
      /\ req' \in [Requests -> RequestType] /\ requests' \in 0..MaxRequests
  BY <1>2, AccountTyped, RequestsTyped, LimitsAssumption DEF IInv, TypeOK, AskLink, Count
<1>4. new \in LinkType /\ new.state = "valid"
  BY <1>3 DEF LinkType
<1> HIDE DEF new
<1>5. /\ link' \in [Links -> LinkType] /\ link'[l].state = "valid"
      /\ \A m \in Links : m # l => link'[m] = link[m]
  BY <1>1, <1>3, <1>4, LinkWritten
<1>6. TypeOK' /\ TokensInv' /\ CountInv'
  BY <1>2, <1>3, <1>5, LinkStep
<1>7. LinksInv'
  <2>1. ASSUME NEW m \in Links, crashes' = 0, link'[m].state = "applied"
        PROVE  \E q \in Requests : req'[q].pc = "spend" /\ req'[q].link = m /\ req'[q].id = acct'.id
    <3>1. link[m].state = "applied"
      BY <1>5, <2>1
    <3> QED BY <1>2, <2>1, <3>1 DEF IInv, LinksInv
  <2> QED BY <1>2, <2>1 DEF LinksInv
<1>8. ASSUME NEW q \in Requests PROVE RequestSafe(q)'
  <2>1. Stays(q) /\ LinkSafe(q)
    BY <1>2 DEF Stays, IInv, RequestSafe
  <2>2. req[q].pc = "apply" /\ link[req[q].link].state \in InForce => link'[req[q].link].state \in InForce
    BY <1>1, <1>5, <2>1 DEF LinkSafe, InForce
  <2> QED BY <1>2, <1>3, <2>1, <2>2, LinkReader
<1> QED BY <1>6, <1>7, <1>8 DEF IInv

LEMMA ApplyLinkSafe ==
  ASSUME IInv, NEW r \in Requests, ApplyLink(r)
  PROVE  IInv'
<1>1. CASE ~Same(r)
  BY <1>1, EndSafe DEF ApplyLink
<1>2. CASE Same(r)
  <2> DEFINE l == req[r].link
             s == IF link[l].state = "used" THEN "used" ELSE "applied"
  <2>1. /\ acct' = [acct EXCEPT !.verified = TRUE] \/ acct' = [acct EXCEPT !.password = TRUE]
        /\ Keeps
    BY <1>2 DEF ApplyLink, Keeps
  <2>2. /\ Write(r, LinkUsers(l), "spend") /\ req[r].pc = "apply" /\ acct.exists /\ acct.id = req[r].id
        /\ UNCHANGED <<tok, blocked, invite, member, now, requests, crashes>>
        /\ link' = [link EXCEPT ![l].state = IF @ = "used" THEN @ ELSE "applied"]
    BY <1>2 DEF ApplyLink, Write, Same
  <2>3. /\ TypeOK /\ acct \in AccountType /\ requests \in 0..MaxRequests /\ RequestSafe(r) /\ LinksInv
        /\ l \in Links /\ link \in [Links -> LinkType]
    BY <2>2, AccountTyped DEF IInv, TypeOK, LinkType, RequestSafe, LinkSafe
  <2>4. req' \in [Requests -> RequestType] /\ Advances(r, "spend") /\ OthersMarked(r, LinkUsers(l))
    BY <2>2, <2>3, WriteShape DEF Steps
  <2>5. /\ acct' \in AccountType /\ acct'.id = acct.id /\ acct'.exists = acct.exists /\ acct'.lock = acct.lock
        /\ acct'.failed = acct.failed /\ acct'.guesses = acct.guesses /\ acct'.miscounted = acct.miscounted
    BY <2>1, <2>3 DEF AccountType
  <2>6. s \in {"applied", "used"} /\ link' = [link EXCEPT ![l].state = s]
    BY <2>2, <2>3 DEF LinkType
  <2> HIDE DEF l, s
  <2>7. /\ link' \in [Links -> LinkType] /\ \A m \in Links : m # l => link'[m] = link[m]
    BY <2>3, <2>6, LinkStateWritten
  <2>8. TypeOK' /\ TokensInv' /\ CountInv'
    BY <2>1, <2>2, <2>3, <2>4, <2>5, <2>7, LinkStep
  <2>9. LinksInv'
    <3>1. ASSUME NEW m \in Links, crashes' = 0, link'[m].state = "applied"
          PROVE  \E q \in Requests : req'[q].pc = "spend" /\ req'[q].link = m /\ req'[q].id = acct'.id
      <4>1. CASE m = l
        BY <2>2, <2>4, <2>5, <4>1 DEF l, Advances, SameLocals
      <4>2. CASE m # l
        <5>1. PICK q \in Requests : req[q].pc = "spend" /\ req[q].link = m /\ req[q].id = acct.id
          BY <2>2, <2>3, <2>7, <3>1, <4>2 DEF LinksInv
        <5>2. Stays(q) \/ Marked(q)
          BY <2>2, <2>4, <5>1, OthersKept
        <5> QED BY <2>5, <5>1, <5>2 DEF Stays, Marked, SameLocals
      <4> QED BY <4>1, <4>2
    <3> QED BY <2>2, <2>5, <3>1 DEF LinksInv
  <2>10. ASSUME NEW q \in Requests PROVE RequestSafe(q)'
    <3>1. CASE q = r
      <4>1. ended' = ended
        BY <2>1, <2>3, KeepsEnded
      <4> QED BY <2>2, <2>3, <2>4, <2>5, <4>1, <3>1 DEF RequestSafe, Advances, SameLocals, SessionSafe,
              LoginSafe, LinkSafe, AnswerSafe, InSession, Answering
    <3>2. CASE q # r
      <4>1. (Stays(q) \/ Marked(q)) /\ (q \in LinkUsers(l) => Marked(q)) /\ LinkSafe(q)
        BY <2>4, <3>2, OthersKept DEF IInv, RequestSafe
      <4>2. req[q].pc = "apply" => q \in LinkUsers(l) \/ (req[q].link # l /\ req[q].link \in Links)
        BY <4>1 DEF LinkUsers, LinkSafe
      <4> QED BY <2>1, <2>2, <2>5, <2>7, <4>1, <4>2, LinkReader
    <3> QED BY <3>1, <3>2
  <2> QED BY <2>8, <2>9, <2>10 DEF IInv
<1> QED BY <1>1, <1>2

LEMMA SpendLinkSafe ==
  ASSUME IInv, NEW r \in Requests, SpendLink(r)
  PROVE  IInv'
<1> DEFINE l == req[r].link
<1>0. TypeOK /\ req[r].pc = "spend" /\ l \in Links /\ req[r].id \in Nat /\ LinksInv
  BY RequestsTyped DEF IInv, SpendLink, RequestSafe, LinkSafe, RequestType
<1>1. CASE ~Same(r)
  <2>1. End(r)
    BY <1>1 DEF SpendLink
  <2>2. link[l].state # "applied" \/ req[r].id # acct.id
    BY <1>0, <1>1 DEF LinksInv, Same
  <2> QED BY <2>1, <2>2, EndSafe
<1>2. CASE Same(r)
  <2>1. /\ link' = [link EXCEPT ![l].state = "used"] /\ Write(r, LinkUsers(l), "idle")
        /\ UNCHANGED <<acct, tok, blocked, invite, member, now, requests, crashes>> /\ Keeps
    BY <1>2 DEF SpendLink, Write, Keeps
  <2>2. acct \in AccountType /\ requests \in 0..MaxRequests /\ acct.exists
    BY <1>2, AccountTyped DEF IInv, TypeOK, Same
  <2>3. req' \in [Requests -> RequestType] /\ Ends(r) /\ OthersMarked(r, LinkUsers(l))
    BY <1>0, <2>1, LastWriteShape
  <2> HIDE DEF l
  <2>4. /\ link' \in [Links -> LinkType] /\ link'[l].state = "used"
        /\ \A m \in Links : m # l => link'[m] = link[m]
    BY <1>0, <2>1, LinkStateWritten
  <2>5. TypeOK' /\ TokensInv' /\ CountInv'
    BY <2>1, <2>2, <2>3, <2>4, LinkStep
  <2>6. LinksInv'
    <3>1. ASSUME NEW m \in Links, crashes' = 0, link'[m].state = "applied"
          PROVE  \E q \in Requests : req'[q].pc = "spend" /\ req'[q].link = m /\ req'[q].id = acct'.id
      <4>1. m # l /\ link[m].state = "applied"
        BY <2>4, <3>1
      <4>2. PICK q \in Requests : req[q].pc = "spend" /\ req[q].link = m /\ req[q].id = acct.id
        BY <1>0, <2>1, <3>1, <4>1 DEF LinksInv
      <4>3. q # r
        BY <4>1, <4>2 DEF l
      <4>4. Stays(q) \/ Marked(q)
        BY <2>3, <4>3, OthersKept
      <4> QED BY <2>1, <4>2, <4>4 DEF Stays, Marked, SameLocals
    <3> QED BY <2>1, <2>2, <3>1 DEF LinksInv
  <2>7. ASSUME NEW q \in Requests PROVE RequestSafe(q)'
    <3>1. CASE q = r
      BY <2>3, <2>5, <3>1, EndedSafe DEF TypeOK
    <3>2. CASE q # r
      <4>1. (Stays(q) \/ Marked(q)) /\ (q \in LinkUsers(l) => Marked(q)) /\ LinkSafe(q)
        BY <2>3, <3>2, OthersKept DEF IInv, RequestSafe
      <4>2. req[q].pc = "apply" => q \in LinkUsers(l) \/ (req[q].link # l /\ req[q].link \in Links)
        BY <4>1 DEF LinkUsers, LinkSafe
      <4> QED BY <2>1, <2>2, <2>4, <4>1, <4>2, LinkReader
    <3> QED BY <3>1, <3>2
  <2> QED BY <2>5, <2>6, <2>7 DEF IInv
<1> QED BY <1>1, <1>2
-----------------------------------------------------------------------------
(* The administrator, and the deletion of the account.                     *)

\* Whatever the administrator writes, logins and answers are overtaken.
LEMMA AdministerShape ==
  ASSUME TypeOK, NEW new, Administer(new)
  PROVE  /\ acct.exists /\ acct' = new /\ UNCHANGED <<tok, blocked, now, crashes>>
         /\ requests' \in 0..MaxRequests /\ req' \in [Requests -> RequestType]
         /\ \A q \in Requests : \/ Marked(q)
                                \/ Stays(q) /\ req[q].pc \notin {"fail", "clear", "save"} \cup Answering
<1>1. acct.exists /\ acct' = new /\ UNCHANGED <<tok, blocked, now, crashes>>
  BY DEF Administer
<1>2. requests' \in 0..MaxRequests
  BY LimitsAssumption DEF TypeOK, Administer, Count
<1>3. /\ req' \in [Requests -> RequestType]
      /\ \A q \in Requests : IF q \in Logins \cup Answers THEN Marked(q) ELSE Stays(q)
  BY MarkShape DEF Administer
<1>4. \A q \in Requests : req[q].pc \in {"fail", "clear", "save"} \cup Answering => q \in Logins \cup Answers
  BY DEF Logins, Answers, Answering
<1> QED BY <1>1, <1>2, <1>3, <1>4

LEMMA AdministerSafe ==
  ASSUME IInv, NEW new \in AccountType, Administer(new), Keeps, UNCHANGED <<link, invite, member>>,
         new.id = acct.id, new.exists = acct.exists, new.miscounted = acct.miscounted,
         \/ new.failed = acct.failed /\ new.guesses = acct.guesses /\ new.lock = acct.lock
         \/ new.failed = 0 /\ new.guesses = 0 /\ new.lock = 0
  PROVE  IInv'
<1>1. TypeOK /\ CountInv
  BY DEF IInv
<1>2. /\ acct' = new /\ UNCHANGED <<tok, blocked, now, crashes>>
      /\ requests' \in 0..MaxRequests /\ req' \in [Requests -> RequestType]
      /\ \A q \in Requests : \/ Marked(q)
                             \/ Stays(q) /\ req[q].pc \notin {"fail", "clear", "save"} \cup Answering
  BY <1>1, AdministerShape
<1>3. TypeOK' /\ TokensInv' /\ LinksInv'
  BY <1>2, AccountStep
<1>4. CountInv'
  BY <1>1, <1>2 DEF CountInv
<1>5. ASSUME NEW q \in Requests PROVE RequestSafe(q)'
  BY <1>2, AccountReader
<1> QED BY <1>3, <1>4, <1>5 DEF IInv

LEMMA SuspendSafe ==
  ASSUME IInv, Suspend
  PROVE  IInv'
<1>1. PICK s \in BOOLEAN :
        Administer([acct EXCEPT !.suspended = s]) /\ UNCHANGED <<link, invite, member>> /\ Keeps
  BY DEF Suspend, Keeps
<1> DEFINE new == [acct EXCEPT !.suspended = s]
<1>2. acct \in AccountType
  BY AccountTyped DEF IInv
<1>3. /\ new \in AccountType /\ new.id = acct.id /\ new.exists = acct.exists /\ new.miscounted = acct.miscounted
      /\ new.failed = acct.failed /\ new.guesses = acct.guesses /\ new.lock = acct.lock
  BY <1>2 DEF AccountType
<1>4. Administer(new)
  BY <1>1
<1> HIDE DEF new
<1> QED BY <1>1, <1>3, <1>4, AdministerSafe

LEMMA UnlockSafe ==
  ASSUME IInv, Unlock
  PROVE  IInv'
<1>1. Administer(Unlocked) /\ UNCHANGED <<link, invite, member>> /\ Keeps
  BY DEF Unlock, Keeps
<1>2. /\ Unlocked \in AccountType /\ Unlocked.id = acct.id /\ Unlocked.exists = acct.exists
      /\ Unlocked.failed = 0 /\ Unlocked.guesses = 0 /\ Unlocked.lock = 0
  BY UnlockedShape DEF IInv
<1>3. Unlocked.miscounted = acct.miscounted
  BY AccountTyped DEF IInv, AccountType, Unlocked
<1> QED BY <1>1, <1>2, <1>3, AdministerSafe

LEMMA ResetPasswordSafe ==
  ASSUME IInv, ResetPassword
  PROVE  IInv'
<1> DEFINE new == [Unlocked EXCEPT !.password = TRUE]
<1>1. Administer(new) /\ UNCHANGED <<link, invite, member>> /\ Keeps
  BY DEF ResetPassword, Keeps
<1>2. /\ Unlocked \in AccountType /\ Unlocked.id = acct.id /\ Unlocked.exists = acct.exists
      /\ Unlocked.failed = 0 /\ Unlocked.guesses = 0 /\ Unlocked.lock = 0
  BY UnlockedShape DEF IInv
<1>3. Unlocked.miscounted = acct.miscounted
  BY AccountTyped DEF IInv, AccountType, Unlocked
<1>4. /\ new \in AccountType /\ new.id = acct.id /\ new.exists = acct.exists
      /\ new.failed = 0 /\ new.guesses = 0 /\ new.lock = 0 /\ new.miscounted = acct.miscounted
  BY <1>2, <1>3 DEF AccountType
<1> HIDE DEF new
<1> QED BY <1>1, <1>4, AdministerSafe

\* The address is verified by hand: nothing that a request has read.
LEMMA VerifySafe ==
  ASSUME IInv, Verify
  PROVE  IInv'
<1>1. /\ acct' = [acct EXCEPT !.verified = TRUE] /\ Keeps
      /\ UNCHANGED <<tok, blocked, link, invite, member, req, now, crashes>>
  BY DEF Verify, Keeps
<1>2. /\ acct \in AccountType /\ link' \in [Links -> LinkType] /\ req' \in [Requests -> RequestType]
      /\ requests' \in 0..MaxRequests
  BY <1>1, AccountTyped, RequestsTyped, LimitsAssumption DEF IInv, TypeOK, LinkType, Verify, Count
<1>3. /\ acct' \in AccountType /\ acct'.id = acct.id /\ acct'.exists = acct.exists /\ acct'.lock = acct.lock
      /\ acct'.failed = acct.failed /\ acct'.guesses = acct.guesses /\ acct'.miscounted = acct.miscounted
  BY <1>1, <1>2 DEF AccountType
<1>4. TypeOK' /\ TokensInv' /\ CountInv'
  BY <1>1, <1>2, <1>3, LinkStep
<1>5. LinksInv'
  BY <1>1, <1>3, LinksFrame DEF Stays
<1>6. ASSUME NEW q \in Requests PROVE RequestSafe(q)'
  BY <1>1, <1>3, LinkReader DEF Stays
<1> QED BY <1>4, <1>5, <1>6 DEF IInv

LEMMA DeleteSafe ==
  ASSUME IInv, Delete
  PROVE  IInv'
<1> DEFINE new == [NoAccount EXCEPT !.id = acct.id]
<1>1. /\ Administer(new) /\ member' = FALSE
      /\ link' = [l \in Links |-> NoLinkYet] /\ invite' = [i \in Invites |-> "none"] /\ Keeps
  BY DEF Delete, Keeps
<1>2. acct.id \in Nat /\ 0 \in 0..(MaxAttempts - 1) /\ 0 \in 0..(MaxTime + 1) /\ 0 \in 0..MaxTime
  BY LimitsAssumption DEF IInv, TypeOK
<1>3. /\ new \in AccountType /\ new.id = acct.id /\ ~new.exists /\ new.failed = 0 /\ new.guesses = 0
      /\ new.lock = 0
  BY <1>2 DEF AccountType, NoAccount
<1> HIDE DEF new
<1>4. /\ acct' = new /\ UNCHANGED <<tok, blocked, now, crashes>>
      /\ requests' \in 0..MaxRequests /\ req' \in [Requests -> RequestType]
      /\ \A q \in Requests : \/ Marked(q)
                             \/ Stays(q) /\ req[q].pc \notin {"fail", "clear", "save"} \cup Answering
  BY <1>1, AdministerShape DEF IInv
<1>5. TypeOK'
  <2>1. over' \subseteq Tokens /\ spared' \subseteq over'
    BY <1>1, KeepsEnded DEF IInv
  <2>2. NoLinkYet \in LinkType
    BY <1>2 DEF NoLinkYet, LinkKinds, LinkType
  <2>3. link' \in [Links -> LinkType]
    BY <1>1, <2>2
  <2> QED BY <1>1, <1>3, <1>4, <2>1, <2>3 DEF IInv, TypeOK, AccountType, LinkType, RequestType, Steps
<1>6. TokensInv'
  BY <1>1, <1>4, TokensFrame DEF IInv
<1>7. CountInv' /\ LinksInv'
  BY <1>1, <1>3, <1>4 DEF CountInv, LinksInv, NoLinkYet
<1>8. ASSUME NEW q \in Requests PROVE RequestSafe(q)'
  <2>1. Marked(q) \/ (Stays(q) /\ req[q].pc \notin {"fail", "clear", "save"} \cup Answering)
    BY <1>4
  <2>2. SessionSafe(q)'
    BY <1>1, <1>4, <2>1, SessionFrame, KeepsEnded DEF IInv
  <2>3. LoginSafe(q)'
    BY <1>2, <1>3, <1>4, <2>1, LoginFrame
  <2>4. LinkSafe(q)'
    <3>1. LinkSafe(q)
      BY DEF IInv, RequestSafe
    <3> QED BY <1>3, <1>4, <2>1, <3>1 DEF LinkSafe, Stays, Marked, SameLocals
  <2>5. AnswerSafe(q)'
    BY <2>1, AnswerFrame
  <2> QED BY <2>2, <2>3, <2>4, <2>5 DEF RequestSafe
<1> QED BY <1>5, <1>6, <1>7, <1>8 DEF IInv

-----------------------------------------------------------------------------
(* Invitations and members.                                                *)

LEMMA AnsweringReaders == \A q \in Requests : req[q].pc \in Answering \cup {"save"} <=> q \in Answers
BY DEF Answers, Answering

LEMMA MemberStep ==
  ASSUME IInv, UNCHANGED <<acct, tok, blocked, link, now, crashes>>, Keeps,
         invite' \in [Invites -> {"none", "pending", "accepted", "declined"}], member' \in BOOLEAN,
         req' \in [Requests -> RequestType], requests' \in 0..MaxRequests,
         \A q \in Requests : req[q].pc = "spend" => Stays(q) \/ Marked(q)
  PROVE  TypeOK' /\ TokensInv' /\ CountInv' /\ LinksInv'
<1>1. TypeOK'
  BY KeepsEnded DEF IInv, TypeOK, RequestType, Steps
<1>2. TokensInv'
  BY TokensFrame DEF IInv
<1> QED BY <1>1, <1>2, CountFrame, LinksFrame

LEMMA MemberReader ==
  ASSUME IInv, UNCHANGED <<acct, tok, link, now>>, Keeps, NEW q \in Requests, Stays(q) \/ Marked(q),
         q \in Answers => Marked(q)
  PROVE  RequestSafe(q)'
<1>1. acct.id \in Nat
  BY DEF IInv, TypeOK
<1>2. SessionSafe(q)'
  BY SessionFrame, KeepsEnded DEF IInv
<1>3. LoginSafe(q)'
  BY <1>1, LoginFrame
<1>4. LinkSafe(q)'
  BY LinkFrame
<1>5. AnswerSafe(q)'
  BY AnsweringReaders, AnswerFrame
<1> QED BY <1>2, <1>3, <1>4, <1>5 DEF RequestSafe
\* An answer that is the last write of its request.
LEMMA LastAnswer ==
  ASSUME IInv, NEW r \in Requests, Write(r, Answers, "idle"),
         UNCHANGED <<acct, tok, blocked, link, member>>, Keeps, req[r].pc # "spend",
         invite' \in [Invites -> {"none", "pending", "accepted", "declined"}]
  PROVE  IInv'
<1>1. TypeOK /\ member \in BOOLEAN /\ requests \in 0..MaxRequests /\ acct.id \in Nat
  BY DEF IInv, TypeOK
<1>2. UNCHANGED <<now, requests, crashes>>
  BY DEF Write
<1>3. req' \in [Requests -> RequestType] /\ Ends(r) /\ OthersMarked(r, Answers)
  BY <1>1, LastWriteShape
<1>4. TypeOK' /\ TokensInv' /\ CountInv' /\ LinksInv'
  BY <1>1, <1>2, <1>3, OthersKept, MemberStep
<1>5. ASSUME NEW q \in Requests PROVE RequestSafe(q)'
  <2>1. CASE q = r
    BY <1>1, <1>3, <2>1, EndedSafe
  <2>2. CASE q # r
    BY <1>2, <1>3, <2>2, OthersKept, MemberReader
  <2> QED BY <2>1, <2>2
<1> QED BY <1>4, <1>5 DEF IInv

LEMMA SaveInviteSafe ==
  ASSUME IInv, NEW r \in Requests, SaveInvite(r)
  PROVE  IInv'
<1>1. invite \in [Invites -> {"none", "pending", "accepted", "declined"}]
  BY DEF IInv, TypeOK
<1>2. \E i : invite' = [invite EXCEPT ![i] = "pending"]
  BY DEF SaveInvite
<1>3. invite' \in [Invites -> {"none", "pending", "accepted", "declined"}]
  BY <1>1, <1>2
<1> QED BY <1>3, LastAnswer DEF SaveInvite, Keeps

LEMMA JoinSafe ==
  ASSUME IInv, NEW r \in Requests, Join(r)
  PROVE  IInv'
<1>1. CASE ~Same(r)
  BY <1>1, EndSafe DEF Join
<1>2. CASE Same(r)
  <2>1. /\ member' = TRUE /\ Write(r, Answers, "accept") /\ req[r].pc = "join"
        /\ UNCHANGED <<acct, tok, blocked, link, invite, now, requests, crashes>> /\ Keeps
    BY <1>2 DEF Join, Write, Keeps
  <2>2. /\ TypeOK /\ requests \in 0..MaxRequests /\ RequestSafe(r)
        /\ invite \in [Invites -> {"none", "pending", "accepted", "declined"}]
    BY DEF IInv, TypeOK
  <2>3. req' \in [Requests -> RequestType] /\ Advances(r, "accept") /\ OthersMarked(r, Answers)
    BY <2>1, <2>2, WriteShape DEF Steps
  <2>4. TypeOK' /\ TokensInv' /\ CountInv' /\ LinksInv'
    BY <2>1, <2>2, <2>3, OthersKept, MemberStep
  <2>5. ASSUME NEW q \in Requests PROVE RequestSafe(q)'
    <3>1. CASE q = r
      BY <2>1, <2>2, <2>3, <3>1 DEF RequestSafe, Advances, SameLocals, SessionSafe, LoginSafe,
         LinkSafe, AnswerSafe, InSession, Answering
    <3>2. CASE q # r
      BY <2>1, <2>3, <3>2, OthersKept, MemberReader
    <3> QED BY <3>1, <3>2
  <2> QED BY <2>4, <2>5 DEF IInv
<1> QED BY <1>1, <1>2

LEMMA AnswerSafeStep ==
  ASSUME IInv, NEW r \in Requests, Answer(r)
  PROVE  IInv'
<1> DEFINE i == req[r].invite
<1>1. CASE invite[i] = "none"
  <2>1. End(r) /\ req[r].pc # "spend"
    BY <1>1 DEF Answer
  <2> QED BY <2>1, EndSafe
<1>2. CASE invite[i] # "none"
  <2>1. /\ invite' = [invite EXCEPT ![i] = IF req[r].pc = "accept" THEN "accepted"
                                           ELSE IF @ = "accepted" THEN @ ELSE "declined"]
        /\ Write(r, Answers, "idle") /\ req[r].pc # "spend"
        /\ UNCHANGED <<acct, tok, blocked, link, member>> /\ Keeps
    BY <1>2 DEF Answer, Keeps
  <2>2. invite \in [Invites -> {"none", "pending", "accepted", "declined"}]
    BY DEF IInv, TypeOK
  <2>3. invite' \in [Invites -> {"none", "pending", "accepted", "declined"}]
    BY <2>1, <2>2
  <2> QED BY <2>1, <2>3, LastAnswer
<1> QED BY <1>1, <1>2

\* The owner overtakes whoever answers.
LEMMA OwnerSafe ==
  ASSUME IInv, Owner, invite' \in [Invites -> {"none", "pending", "accepted", "declined"}],
         member' \in BOOLEAN
  PROVE  IInv'
<1>1. TypeOK /\ UNCHANGED <<acct, tok, blocked, link, now, crashes>> /\ Keeps /\ requests' \in 0..MaxRequests
  BY LimitsAssumption DEF IInv, TypeOK, Owner, Count, Keeps
<1>2. /\ req' \in [Requests -> RequestType]
      /\ \A q \in Requests : IF q \in Answers THEN Marked(q) ELSE Stays(q)
  BY <1>1, MarkShape DEF Owner
<1>3. TypeOK' /\ TokensInv' /\ CountInv' /\ LinksInv'
  BY <1>1, <1>2, MemberStep
<1>4. ASSUME NEW q \in Requests PROVE RequestSafe(q)'
  BY <1>1, <1>2, MemberReader
<1> QED BY <1>3, <1>4 DEF IInv

LEMMA RemoveMemberSafe ==
  ASSUME IInv, RemoveMember
  PROVE  IInv'
<1>1. Owner /\ member' = FALSE /\ invite' = invite
  BY DEF RemoveMember
<1>2. invite \in [Invites -> {"none", "pending", "accepted", "declined"}]
  BY DEF IInv, TypeOK
<1> QED BY <1>1, <1>2, OwnerSafe

LEMMA RevokeSafe ==
  ASSUME IInv, Revoke
  PROVE  IInv'
<1>1. Owner /\ member' = member /\ \E i : invite' = [invite EXCEPT ![i] = "none"]
  BY DEF Revoke
<1>2. invite \in [Invites -> {"none", "pending", "accepted", "declined"}] /\ member \in BOOLEAN
  BY DEF IInv, TypeOK
<1>3. invite' \in [Invites -> {"none", "pending", "accepted", "declined"}]
  BY <1>1, <1>2
<1> QED BY <1>1, <1>2, <1>3, OwnerSafe

-----------------------------------------------------------------------------
(* Time and restarts.                                                      *)

LEMMA TickSafe ==
  ASSUME IInv, Tick
  PROVE  IInv'
<1>1. /\ now' = now + 1 /\ now \in 0..MaxTime /\ now' \in 0..MaxTime
      /\ UNCHANGED <<acct, tok, blocked, link, invite, member, req, requests, crashes>> /\ Keeps
  BY LimitsAssumption DEF IInv, TypeOK, Tick, rows, Keeps
<1>2. TypeOK'
  BY <1>1, KeepsEnded DEF IInv, TypeOK
<1>3. TokensInv'
  <2>1. ASSUME NEW t \in Tokens, Live(t)' PROVE Live(t)
    <3>1. tok[t].iat \in Nat /\ tok[t].rm \in BOOLEAN
      BY TokensTyped DEF IInv, TokenType
    <3>2. TtlOf(tok[t].rm) \in Nat
      BY LimitsAssumption DEF TtlOf
    <3> QED BY <1>1, <2>1, <3>1, <3>2 DEF Live
  <2> QED BY <1>1, <2>1, KeepsEnded DEF IInv, TokensInv
<1>4. CountInv' /\ LinksInv'
  BY <1>1, CountFrame, LinksFrame DEF Stays
<1>5. ASSUME NEW q \in Requests PROVE RequestSafe(q)'
  <2>1. Stays(q)
    BY <1>1 DEF Stays
  <2>2. SessionSafe(q)' /\ LinkSafe(q)' /\ AnswerSafe(q)'
    BY <1>1, <2>1, SessionFrame, LinkFrame, AnswerFrame, KeepsEnded DEF IInv
  <2>3. LoginSafe(q) /\ acct.lock \in Nat
    BY DEF IInv, RequestSafe, TypeOK
  <2>4. LoginSafe(q)'
    BY <1>1, <2>3 DEF LoginSafe
  <2> QED BY <2>2, <2>4 DEF RequestSafe
<1> QED BY <1>2, <1>3, <1>4, <1>5 DEF IInv

LEMMA RestartSafe ==
  ASSUME IInv, Restart
  PROVE  IInv'
<1>1. /\ UNCHANGED <<acct, tok, blocked, link, invite, member, now, requests>> /\ Keeps
      /\ crashes \in 0..MaxCrashes /\ crashes' \in 0..MaxCrashes /\ crashes' # 0
      /\ req' = [q \in Requests |-> Idle]
  BY LimitsAssumption DEF IInv, TypeOK, Restart, rows, Keeps
<1>2. TypeOK'
  BY <1>1, IdleTyped, KeepsEnded DEF IInv, TypeOK, RequestType, Steps
<1>3. TokensInv' /\ CountInv'
  BY <1>1, TokensFrame, CountFrame DEF IInv
<1>4. LinksInv'
  BY <1>1 DEF IInv, LinksInv
<1>5. ASSUME NEW q \in Requests PROVE RequestSafe(q)'
  <2>1. Ends(q)
    BY <1>1, IdleTyped DEF Ends
  <2> QED BY <1>1, <2>1, EndedSafe DEF IInv, TypeOK
<1> QED BY <1>2, <1>3, <1>4, <1>5 DEF IInv

-----------------------------------------------------------------------------
(* The invariant, and what follows from it.                                *)

LEMMA InitInv == Init => IInv
<1> SUFFICES ASSUME Init PROVE IInv
  OBVIOUS
<1>1. 0 \in 0..(MaxAttempts - 1) /\ 0 \in 0..(MaxTime + 1) /\ 0 \in 0..MaxTime /\ 0 \in 0..MaxRequests
      /\ 0 \in 0..MaxCrashes
  BY LimitsAssumption
<1>2. acct \in AccountType /\ acct.id = 0 /\ acct.lock = 0 /\ acct.guesses = acct.failed
  <2>1. CASE acct = NoAccount
    BY <1>1, <2>1 DEF NoAccount, AccountType
  <2>2. CASE acct = Account
    <3>1. acct = [NoAccount EXCEPT !.exists = TRUE, !.password = TRUE]
      BY <2>2 DEF Account
    <3>2. /\ NoAccount \in AccountType /\ NoAccount.id = 0 /\ NoAccount.lock = 0
          /\ NoAccount.guesses = NoAccount.failed
      BY <1>1 DEF NoAccount, AccountType
    <3> QED BY <3>1, <3>2 DEF AccountType
  <2> QED BY <2>1, <2>2 DEF Init
<1>3. tok \in [Tokens -> TokenType] /\ \A t \in Tokens : tok[t].children = 0
  BY <1>1 DEF Init, NoTokenYet, TokenType
<1>4. req = [r \in Requests |-> Idle] /\ req \in [Requests -> RequestType]
  BY IdleTyped DEF Init
<1>5. TypeOK
  BY <1>1, <1>2, <1>3, <1>4 DEF Init, NoLinkYet, LinkKinds, TypeOK, AccountType, TokenType, RequestType, Steps
<1>6. TokensInv /\ CountInv /\ LinksInv
  BY <1>2, <1>3 DEF Init, NoLinkYet, ended, TokensInv, CountInv, LinksInv
<1>7. ASSUME NEW r \in Requests PROVE RequestSafe(r)
  BY <1>2, <1>4, IdleTyped DEF RequestSafe, SessionSafe, LoginSafe, LinkSafe, AnswerSafe, InSession, Answering
<1> QED BY <1>5, <1>6, <1>7 DEF IInv

LEMMA StutterSafe ==
  ASSUME IInv, UNCHANGED vars
  PROVE  IInv'
<1>1. UNCHANGED <<acct, tok, blocked, link, invite, member, req, now, requests, crashes>> /\ Keeps
  BY DEF vars, rows, Keeps
<1>2. TypeOK'
  BY <1>1, KeepsEnded DEF IInv, TypeOK
<1>3. TokensInv' /\ CountInv' /\ LinksInv'
  BY <1>1, TokensFrame, CountFrame, LinksFrame DEF IInv, Stays
<1>4. ASSUME NEW q \in Requests PROVE RequestSafe(q)'
  BY RowsFrame DEF vars, Stays
<1> QED BY <1>2, <1>3, <1>4 DEF IInv

LEMMA StepInv == IInv /\ [Next]_vars => IInv'
<1> SUFFICES ASSUME IInv, [Next]_vars PROVE IInv'
  OBVIOUS
<1>1. ASSUME NEW r \in Requests, SignIn(r) PROVE IInv'
  BY <1>1, StartRegisterSafe, CreateSafe, StartGoogleSafe, StartLoginSafe, FailLoginSafe,
     ClearLoginSafe, IssueSafe DEF SignIn
<1>2. ASSUME NEW r \in Requests, Session(r) PROVE IInv'
  <2>1. CASE StartRefresh(r)
    BY <2>1, StartWithTokenSafe DEF StartRefresh
  <2>2. CASE StartChange(r)
    BY <2>2, StartWithTokenSafe DEF StartChange
  <2> QED BY <1>2, <2>1, <2>2, RefreshSafe, RotateSafe, ChangeSafe, LeaveSafe DEF Session
<1>3. ASSUME NEW r \in Requests,
             \/ StartLink(r) \/ ApplyLink(r) \/ SpendLink(r)
             \/ StartInvite(r) \/ SaveInvite(r) \/ StartAnswer(r) \/ Join(r) \/ Answer(r)
      PROVE  IInv'
  BY <1>3, StartLinkSafe, ApplyLinkSafe, SpendLinkSafe, StartInviteSafe, SaveInviteSafe, StartAnswerSafe,
     JoinSafe, AnswerSafeStep
<1>4. ASSUME \/ \E k \in LinkKinds : AskLink(k)
             \/ Logout \/ Prune \/ Suspend \/ Unlock \/ ResetPassword \/ Verify \/ Delete \/ RemoveMember \/ Revoke
             \/ Tick \/ Restart
      PROVE  IInv'
  BY <1>4, AskLinkSafe, LogoutSafe, PruneSafe, SuspendSafe, UnlockSafe, ResetPasswordSafe, VerifySafe, DeleteSafe,
     RemoveMemberSafe, RevokeSafe, TickSafe, RestartSafe
<1> QED BY <1>1, <1>2, <1>3, <1>4, StutterSafe DEF Next

\* The invariant holds of every account, however many requests overlap.
THEOREM AccountsInvariant == Spec => []IInv
BY InitInv, StepInv, PTL DEF Spec

\* The types of the rows (User, TokenBlocklist, EventInvite, EventCollaborator) and of
\* the locals of the requests.
THEOREM TypeCorrect == Spec => []TypeOK
<1>1. IInv => TypeOK
  BY DEF IInv
<1> QED BY <1>1, AccountsInvariant, PTL
-----------------------------------------------------------------------------
(* Who writes what: the steps the action properties are about.             *)

\* Tokens are written when one is issued: at a login or a rotation.
LEMMA TokenWriters ==
  ASSUME Next, tok' # tok
  PROVE  \E r \in Requests : Issue(r) \/ Rotate(r)
<1>1. ASSUME NEW r \in Requests, SignIn(r), ~Issue(r) PROVE FALSE
  BY <1>1 DEF SignIn, StartRegister, Create, StartGoogle, StartLogin, FailLogin, ClearLogin, Begin, End, rows
<1>2. ASSUME NEW r \in Requests, Session(r), ~Rotate(r) PROVE FALSE
  BY <1>2 DEF Session, StartRefresh, Refresh, StartChange, Change, Leave, Begin, End, rows
<1>3. ASSUME NEW r \in Requests, StartLink(r) \/ ApplyLink(r) \/ SpendLink(r) PROVE FALSE
  BY <1>3 DEF StartLink, ApplyLink, SpendLink, Begin, End, rows
<1>4. ASSUME NEW r \in Requests, StartInvite(r) \/ SaveInvite(r) \/ StartAnswer(r) \/ Join(r) \/ Answer(r)
      PROVE  FALSE
  BY <1>4 DEF StartInvite, SaveInvite, StartAnswer, Join, Answer, Begin, End, rows
<1>5. ASSUME \/ \E k \in LinkKinds : AskLink(k)
             \/ Logout \/ Prune \/ Suspend \/ Unlock \/ ResetPassword \/ Verify \/ Delete \/ RemoveMember \/ Revoke
             \/ Tick \/ Restart
      PROVE  FALSE
  BY <1>5 DEF AskLink, Logout, Prune, Suspend, Unlock, ResetPassword, Verify, Delete, Administer, RemoveMember,
     Revoke, Owner, Tick, Restart, rows
<1> QED BY <1>1, <1>2, <1>3, <1>4, <1>5 DEF Next

\* The lock is written by logins and by the administrator.
LEMMA LockWriters ==
  ASSUME IInv, Next, acct'.lock # acct.lock, acct.exists
  PROVE  \/ \E r \in Requests : FailLogin(r) \/ ClearLogin(r)
         \/ Unlock \/ ResetPassword \/ Delete
<1>0. acct \in AccountType
  BY AccountTyped DEF IInv
<1>1. ASSUME NEW r \in Requests, SignIn(r), ~FailLogin(r), ~ClearLogin(r) PROVE FALSE
  BY <1>1 DEF SignIn, StartRegister, Create, StartGoogle, StartLogin, Issue, Begin, End, rows
<1>2. ASSUME NEW r \in Requests, Session(r) PROVE FALSE
  <2>1. CASE Change(r)
    BY <1>0, <2>1 DEF Change, End, rows, AccountType
  <2> QED BY <1>2, <2>1 DEF Session, StartRefresh, Refresh, Rotate, StartChange, Leave, Begin, End, rows
<1>3. ASSUME NEW r \in Requests, StartLink(r) \/ ApplyLink(r) \/ SpendLink(r) PROVE FALSE
  <2>1. CASE ApplyLink(r)
    BY <1>0, <2>1 DEF ApplyLink, End, rows, AccountType
  <2> QED BY <1>3, <2>1 DEF StartLink, SpendLink, Begin, End, rows
<1>4. ASSUME NEW r \in Requests, StartInvite(r) \/ SaveInvite(r) \/ StartAnswer(r) \/ Join(r) \/ Answer(r)
      PROVE  FALSE
  BY <1>4 DEF StartInvite, SaveInvite, StartAnswer, Join, Answer, Begin, End, rows
<1>5. ASSUME Suspend \/ Verify PROVE FALSE
  BY <1>0, <1>5 DEF Suspend, Administer, Verify, AccountType
<1>6. ASSUME \/ \E k \in LinkKinds : AskLink(k)
             \/ Logout \/ Prune \/ RemoveMember \/ Revoke \/ Tick \/ Restart
      PROVE  FALSE
  BY <1>6 DEF AskLink, Logout, Prune, RemoveMember, Revoke, Owner, Tick, Restart, rows
<1> QED BY <1>1, <1>2, <1>3, <1>4, <1>5, <1>6 DEF Next

\* A request moves by a step of its own only; the others overtake it at most.
LEMMA BeginMoves ==
  ASSUME TypeOK, NEW r \in Requests, NEW new, Begin(r, new), NEW q \in Requests \ {r}
  PROVE  Stays(q)
BY RequestsTyped DEF Begin, Stays

LEMMA WriteMoves ==
  ASSUME TypeOK, NEW r \in Requests, NEW S, NEW pc, Write(r, S, pc), NEW q \in Requests \ {r}
  PROVE  req'[q].pc = req[q].pc
<1>1. req'[q] = Overtake(S \ {r})[q]
  BY OvertakeShape DEF Write
<1>2. Overtake(S \ {r})[q] = IF q \in S \ {r} THEN [req[q] EXCEPT !.overtaken = TRUE] ELSE req[q]
  BY OvertakeShape
<1>3. req[q] \in RequestType
  BY RequestsTyped
<1> QED BY <1>1, <1>2, <1>3 DEF RequestType

\* Only an application makes a request that is to apply a link one that is to mark it.
LEMMA Appliers ==
  ASSUME IInv, Next, NEW r \in Requests, req[r].pc = "apply", req'[r].pc = "spend"
  PROVE  ApplyLink(r) /\ Same(r)
<1>0. TypeOK /\ req \in [Requests -> RequestType] /\ Idle.pc = "idle"
  BY RequestsTyped, IdleTyped DEF IInv
<1>1. ASSUME NEW q \in Requests \ {r}, SignIn(q) \/ Session(q) PROVE FALSE
  <2>1. (\E new : Begin(q, new)) \/ End(q) \/ (\E S, pc : Write(q, S, pc)) \/ Create(q)
    BY <1>1 DEF SignIn, Session, StartRegister, StartGoogle, StartLogin, FailLogin, ClearLogin, Issue,
       StartRefresh, Refresh, Rotate, StartChange, Change, Leave
  <2>2. CASE Create(q)
    BY <1>0, <2>2 DEF Create, End
  <2> QED BY <1>0, <2>1, <2>2, BeginMoves, WriteMoves, EndShape DEF OthersStay, Stays
<1>2. ASSUME NEW q \in Requests \ {r},
             \/ StartLink(q) \/ ApplyLink(q) \/ SpendLink(q)
             \/ StartInvite(q) \/ SaveInvite(q) \/ StartAnswer(q) \/ Join(q) \/ Answer(q)
      PROVE  FALSE
  <2>1. (\E new : Begin(q, new)) \/ End(q) \/ (\E S, pc : Write(q, S, pc))
    BY <1>2 DEF StartLink, ApplyLink, SpendLink, StartInvite, SaveInvite, StartAnswer, Join, Answer
  <2> QED BY <1>0, <2>1, BeginMoves, WriteMoves, EndShape DEF OthersStay, Stays
<1>3. ASSUME SignIn(r) \/ Session(r) PROVE FALSE
  BY <1>3 DEF SignIn, Session, StartRegister, Create, StartGoogle, StartLogin, FailLogin, ClearLogin, Issue,
     StartRefresh, Refresh, Rotate, StartChange, Change, Leave, Begin
<1>4. ASSUME \/ StartLink(r) \/ SpendLink(r)
             \/ StartInvite(r) \/ SaveInvite(r) \/ StartAnswer(r) \/ Join(r) \/ Answer(r)
      PROVE  FALSE
  BY <1>4 DEF StartLink, SpendLink, StartInvite, SaveInvite, StartAnswer, Join, Answer, Begin
<1>5. ASSUME ApplyLink(r) PROVE Same(r)
  <2>1. CASE ~Same(r)
    BY <1>0, <1>5, <2>1, EndShape DEF ApplyLink, Ends
  <2> QED BY <2>1
<1>6. ASSUME \/ \E k \in LinkKinds : AskLink(k)
             \/ Prune \/ Verify \/ Tick \/ Restart
      PROVE  FALSE
  BY <1>0, <1>6 DEF AskLink, Prune, Verify, Tick, Restart
<1>7. ASSUME \E S : req' = Overtake(S) PROVE FALSE
  BY <1>0, <1>7, MarkShape DEF Marked, Stays
<1>8. ASSUME Logout \/ Suspend \/ Unlock \/ ResetPassword \/ Delete \/ RemoveMember \/ Revoke PROVE FALSE
  <2>1. \E S : req' = Overtake(S)
    BY <1>8 DEF Logout, Suspend, Unlock, ResetPassword, Delete, Administer, RemoveMember, Revoke, Owner
  <2> QED BY <1>7, <2>1
<1> QED BY <1>1, <1>2, <1>3, <1>4, <1>5, <1>6, <1>8 DEF Next

-----------------------------------------------------------------------------
(* The properties.                                                         *)

\* EndedSessionsStayOut: logout, refresh and change-password end a token for good; a
\* token is rotated into two only by requests that overlapped (auth.js, middleware/auth.js).
THEOREM EndedStayOut == Spec => EndedSessionsStayOut
<1>1. IInv => \A t \in Tokens : Auth(t) => t \notin over \/ t \in spared
  BY AuthFresh
<1>2. ASSUME IInv, NEW r \in Requests, req[r].pc = "refresh"
      PROVE  req[r].token \notin over \/ req[r].token \in spared \/ req[r].overtaken
  BY <1>2 DEF IInv, RequestSafe, SessionSafe, ended
<1>3. ASSUME IInv, [Next]_vars, NEW t \in Tokens, tok'[t].children > tok[t].children
      PROVE  \/ tok[t].children = 0
             \/ \E q \in Requests : req[q].token = t /\ req[q].overtaken
  <2>1. TypeOK /\ TokensInv /\ tok \in [Tokens -> TokenType] /\ tok[t].children \in Nat
    BY <1>3, TokensTyped DEF IInv, TokenType
  <2>2. tok'[t] # tok[t] /\ tok'[t].children # 0
    BY <1>3, <2>1
  <2>3. tok' # tok /\ Next
    BY <1>3, <2>2 DEF vars, rows
  <2>4. PICK r \in Requests : Issue(r) \/ Rotate(r)
    BY <2>3, TokenWriters
  <2>5. CASE Issue(r)
    <3>1. PICK f : tok' = [tok EXCEPT ![f] = Signed(req[r].id, req[r].rm, now)]
      BY <2>5 DEF Issue
    <3>2. tok'[t] = tok[t] \/ tok'[t].children = 0
      BY <2>1, <3>1 DEF Signed
    <3> QED BY <2>2, <3>2
  <2>6. CASE Rotate(r)
    <3>1. PICK f : tok' = [tok EXCEPT ![req[r].token].children = @ + 1,
                                      ![f] = Signed(tok[req[r].token].id, tok[req[r].token].rm,
                                                    tok[req[r].token].login)]
      BY <2>6 DEF Rotate
    <3>2. tok'[t] = tok[t] \/ tok'[t].children = 0 \/ t = req[r].token
      BY <2>1, <3>1 DEF Signed
    <3>3. t = req[r].token
      BY <2>2, <3>2
    <3>4. SessionSafe(r) /\ req[r].pc = "rotate"
      BY <1>3, <2>6 DEF IInv, RequestSafe, Rotate
    <3> QED BY <2>1, <3>3, <3>4 DEF SessionSafe
  <2> QED BY <2>4, <2>5, <2>6
<1>4. IInv /\ [Next]_vars =>
        [\A r \in Requests : req[r].pc = "refresh" /\ req'[r].pc = "rotate" =>
           req[r].token \notin over \/ req[r].token \in spared \/ req[r].overtaken]_vars
  BY <1>2
<1>5. IInv /\ [Next]_vars =>
        [\A r \in Requests, t \in Tokens : tok'[t].children > tok[t].children =>
           \/ tok[t].children = 0
           \/ \E q \in Requests : req[q].token = t /\ req[q].overtaken]_vars
  BY <1>3
<1> QED BY <1>1, <1>4, <1>5, AccountsInvariant, PTL DEF Spec, EndedSessionsStayOut

\* LockoutHolds: wrong passwords are counted, and no login lifts a lock but one that
\* was overtaken (auth.js, loginUser).
THEOREM LocksHold == Spec => LockoutHolds
<1>1. IInv => (~acct.miscounted => acct.guesses = acct.failed)
  BY DEF IInv, CountInv
<1>2. ASSUME IInv, [Next]_vars, acct.lock > now, acct'.lock <= now'
      PROVE  \/ now' > now \/ Unlock \/ ResetPassword \/ Delete
             \/ \E r \in Logins : req[r].overtaken /\ req'[r].pc # req[r].pc
  <2>1. TypeOK /\ TypeOK' /\ CountInv
    BY <1>2, StepInv DEF IInv
  <2>2. /\ TypeOK /\ CountInv /\ acct \in AccountType /\ acct.lock \in Nat /\ now \in Nat
        /\ acct'.lock \in Nat /\ now' \in Nat
    BY <2>1, AccountTyped, LimitsAssumption DEF TypeOK
  <2>3. acct.exists
    BY <1>2, <2>2 DEF CountInv
  <2>4. CASE acct'.lock = acct.lock
    BY <1>2, <2>2, <2>4
  <2>5. CASE acct'.lock # acct.lock
    <3>1. Next
      BY <1>2, <2>5 DEF vars, rows
    <3>2. CASE \E r \in Requests : FailLogin(r) \/ ClearLogin(r)
      <4>1. PICK r \in Requests : FailLogin(r) \/ ClearLogin(r)
        BY <3>2
      <4>2. Same(r)
        <5>1. ASSUME ~Same(r) PROVE FALSE
          <6>1. End(r)
            BY <4>1, <5>1 DEF FailLogin, ClearLogin
          <6> QED BY <2>5, <6>1 DEF End, rows
        <5> QED BY <5>1
      <4>3. req[r].pc \in {"fail", "clear"} /\ r \in Logins
        BY <4>1 DEF FailLogin, ClearLogin, Logins
      <4>4. req[r].overtaken
        BY <1>2, <2>2, <4>2, <4>3 DEF IInv, RequestSafe, LoginSafe, Same
      <4>5. req'[r].pc \in {"idle", "issue"}
        <5>1. CASE FailLogin(r)
          BY <2>2, <4>2, <5>1, LastWriteShape DEF FailLogin, Ends
        <5>2. CASE ClearLogin(r)
          BY <2>2, <4>2, <5>2, WriteShape DEF ClearLogin, Advances, Steps
        <5> QED BY <4>1, <5>1, <5>2
      <4> QED BY <4>3, <4>4, <4>5
    <3> QED BY <1>2, <2>3, <2>5, <3>1, <3>2, LockWriters
  <2> QED BY <2>4, <2>5
<1>3. IInv /\ [Next]_vars =>
        [acct.lock > now /\ acct'.lock <= now' =>
           \/ now' > now \/ Unlock \/ ResetPassword \/ Delete
           \/ \E r \in Logins : req[r].overtaken /\ req'[r].pc # req[r].pc]_vars
  BY <1>2
<1> QED BY <1>1, <1>3, AccountsInvariant, PTL DEF Spec, LockoutHolds

\* LinksWorkOnce: the links that verify an address or reset a password (auth.js).
THEOREM LinksAreSpent == Spec => LinksWorkOnce
<1>1. ASSUME IInv, [Next]_vars, NEW r \in Requests, req[r].pc = "apply", req'[r].pc = "spend"
      PROVE  \/ link[req[r].link].state = "valid" \/ crashes > 0
             \/ req[r].overtaken \/ LinkUsers(req[r].link) # {r}
  <2>1. Next
    BY <1>1 DEF vars
  <2>2. ApplyLink(r) /\ Same(r)
    BY <1>1, <2>1, Appliers
  <2>3. SUFFICES ASSUME ~req[r].overtaken, link[req[r].link].state # "valid", ~(crashes > 0)
                 PROVE  LinkUsers(req[r].link) # {r}
    OBVIOUS
  <2>4. LinkSafe(r) /\ LinksInv /\ crashes \in Nat /\ req[r].link \in Links
    BY <1>1 DEF IInv, RequestSafe, TypeOK, LinkSafe
  <2>5. link[req[r].link].state = "applied"
    BY <1>1, <2>2, <2>3, <2>4 DEF LinkSafe, Same, InForce
  <2>6. PICK q \in Requests : req[q].pc = "spend" /\ req[q].link = req[r].link
    BY <2>3, <2>4, <2>5 DEF LinksInv
  <2> QED BY <1>1, <2>6 DEF LinkUsers
<1>2. IInv /\ [Next]_vars =>
        [\A r \in Requests : req[r].pc = "apply" /\ req'[r].pc = "spend" =>
           \/ link[req[r].link].state = "valid" \/ crashes > 0
           \/ req[r].overtaken \/ LinkUsers(req[r].link) # {r}]_vars
  BY <1>1
<1> QED BY <1>2, AccountsInvariant, PTL DEF Spec, LinksWorkOnce

\* MembersWereInvited: an answer or a new invite that nothing overtook decides on
\* what still is (invites.js, events.js).
THEOREM MembersAreInvited == Spec => MembersWereInvited
<1>1. IInv /\ [Next]_vars =>
        [\A r \in Requests : req'[r] # req[r] /\ ~req[r].overtaken /\ crashes' = crashes =>
           /\ req[r].pc \in {"join", "accept", "decline"} /\ acct.exists =>
                invite[req[r].invite] = "pending"
           /\ req[r].pc = "save" => Pending = {} /\ ~member]_vars
  BY DEF IInv, RequestSafe, AnswerSafe, Answering
<1> QED BY <1>1, AccountsInvariant, PTL DEF Spec, MembersWereInvited

=============================================================================
