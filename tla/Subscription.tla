---------------------------- MODULE Subscription ----------------------------
(***************************************************************************)
(* A studio's subscription, photo quota and AI-credit wallet               *)
(* (lib/subscriptionAccess.js and the routes that call it).                *)
(*                                                                         *)
(* Nothing expires by itself: getActiveSubscription reads the active row,  *)
(* and, when its period or grace is over, advances it, deleting all the    *)
(* studio's events first when the grace is over.  Every request may be     *)
(* interleaved with the others at each await.  A transaction is one step,  *)
(* or an error that leaves nothing (two that meet on a unique index).      *)
(***************************************************************************)
EXTENDS Integers, Sequences

CONSTANTS
  Requests,     \* calls of these functions, each of any kind
  Plans,        \* subscription plans of one billing period
  Price, Quota, AiCost,          \* of each plan
  PlanDays, Credits,
  GrantDays,    \* bound: how many days ahead a free grant may end
  Settings,     \* the values PlatformSettings may take
  MaxDay,       \* bound: the clock stops here
  MaxRows,      \* bound: subscription rows
  MaxPhotos,    \* bound: photos of one upload
  NoPlan, NoWallet

ASSUME PlansAssumption ==
  /\ Price \in [Plans -> Nat] /\ Quota \in [Plans -> Nat] /\ AiCost \in [Plans -> Nat]
  /\ NoPlan \notin Plans
ASSUME NumbersAssumption ==
  /\ PlanDays \in Nat /\ Credits \in Nat /\ GrantDays \subseteq Nat
  /\ MaxDay \in Nat /\ MaxRows \in Nat /\ MaxPhotos \in Nat
  /\ NoWallet \notin Int   \* a balance may become negative

ASSUME SettingsAssumption ==
  Settings \subseteq [freeAccess : BOOLEAN, graceDays : Nat, trialDays : Nat, trialQuota : Nat]

VARIABLES
  subs,        \* the TenantSubscription rows, in order of creation
  events,      \* the studio's events (and photos) exist
  balance,     \* TenantWallet.balanceCredits, or NoWallet
  ledger,      \* the WalletTransaction rows, in order of creation
  settings,    \* the PlatformSettings row
  shortest,    \* history: the fewest grace days the settings have had
  today,
  req          \* req[r]: program counter and locals of request r

vars == <<subs, events, balance, ledger, settings, shortest, today, req>>

Never == -1      \* a date that is null

Row == [plan : Plans \cup {NoPlan}, status : {"TRIAL", "ACTIVE", "GRACE", "EXPIRED", "CANCELLED"},
        change : {"TRIAL", "SUBSCRIBE", "SWAP", "FREE_GRANT", "ADMIN_SET"},
        total : Nat, used : Nat, expires : Nat \cup {Never}, grace : Nat \cup {Never}, active : BOOLEAN]

NewRow(plan, status, change, total, used, expires) ==
  [plan |-> plan, status |-> status, change |-> change, total |-> total, used |-> used,
   expires |-> expires, grace |-> Never, active |-> TRUE]

\* What a request remembers: the row it read (id 0 for none) and its plan; kind
\* says who called getActiveSubscription, days are the grace days it read.
Kinds == {"view", "upload", "index"}
Local == [kind : Kinds \cup {"other"},
          pc : {"idle", "purge", "patch", "upload", "count", "trial", "swapRead",
                "swapTx", "assignTx", "recharge", "debit", "debitTx", "done"},
          id : Nat, seen : Seq(Row), plan : Plans \cup {NoPlan}, count : Nat, days : Nat]

Fresh == [kind |-> "other", pc |-> "idle", id |-> 0, seen |-> <<>>, plan |-> NoPlan, count |-> 0,
          days |-> 0]

Init ==
  /\ subs = <<>>
  /\ events = TRUE
  /\ balance = NoWallet
  /\ ledger = <<>>
  /\ settings \in Settings
  /\ shortest = settings.graceDays
  /\ today = 0
  /\ req = [r \in Requests |-> Fresh]

-----------------------------------------------------------------------------
(* Rows and transactions.                                                  *)

ActiveIds == {i \in DOMAIN subs : subs[i].active}
Current == IF ActiveIds = {} THEN 0 ELSE CHOOSE i \in ActiveIds : TRUE

\* findFirst({ isActive: true }): the row read, as a sequence of at most one.
Found(i) == IF i = 0 THEN <<>> ELSE <<subs[i]>>

Deactivated(rows, S) ==
  [i \in DOMAIN rows |-> IF i \in S THEN [rows[i] EXCEPT !.active = FALSE] ELSE rows[i]]
Cancelled(rows, S) ==
  [i \in DOMAIN rows |-> IF i \in S
     THEN [rows[i] EXCEPT !.active = FALSE, !.status = "CANCELLED"] ELSE rows[i]]

\* create, which the index on the one active row of a tenant may refuse.
Create(rows, row) ==
  /\ Len(rows) < MaxRows
  /\ \A i \in DOMAIN rows : ~rows[i].active
  /\ subs' = Append(rows, row)

Goto(r, pc) == req' = [req EXCEPT ![r].pc = pc]

\* The handler has returned: its locals are gone.
Done(r) == req' = [req EXCEPT ![r] = [Fresh EXCEPT !.pc = "done"]]

-----------------------------------------------------------------------------
(* getActiveSubscription.                                                  *)

\* Bug variant: the last day of the grace is taken to be over.
Over_Early(row) ==
  \/ row.status = "GRACE" /\ row.grace <= today
  \/ row.status \in {"TRIAL", "ACTIVE"} /\ row.expires # Never /\ row.expires < today

\* The row must change now: evaluateSubscriptionLifecycle is not null.
Over(row) ==
  \/ row.status = "GRACE" /\ row.grace < today
  \/ row.status \in {"TRIAL", "ACTIVE"} /\ row.expires # Never /\ row.expires < today

\* The row read as seen, with these grace days, advanced by its id.
Advanced(row, seen, days) ==
  IF seen.status = "GRACE" THEN [row EXCEPT !.status = "EXPIRED", !.active = FALSE]
                           ELSE [row EXCEPT !.status = "GRACE", !.grace = seen.expires + days]

AllowsUpload(row) == row.status \in {"TRIAL", "ACTIVE"} /\ row.used < row.total
CostOf(row) == IF row.plan \in Plans THEN AiCost[row.plan] ELSE 0

\* What the caller does with the row i that getActiveSubscription gives it.
Resumed(kind, row) ==
  CASE kind = "upload" -> IF AllowsUpload(row) THEN "upload" ELSE "done"
    [] kind = "index"  -> IF CostOf(row) > 0 THEN "debit" ELSE "done"
    [] OTHER           -> "done"

\* The handler goes on with these locals, or returns.
Hold(r, locals) == IF locals.pc = "done" THEN Done(r) ELSE req' = [req EXCEPT ![r] = locals]

\* A view (GET /me, an admin page) reads it always; an upload (in
\* assertQuotaAvailable) and consumeAiPhotoCredits only when plans are enforced.
ReadSubscription(r) ==
  /\ req[r].pc = "idle"
  /\ Current # 0
  /\ \E kind \in IF settings.freeAccess THEN {"view"} ELSE Kinds :
       LET row == subs[Current]
           pc  == IF ~Over(row) THEN Resumed(kind, row)
                  ELSE IF row.status = "GRACE" THEN "purge" ELSE "patch"
       IN  Hold(r, [Fresh EXCEPT !.kind = kind, !.pc = pc, !.id = Current, !.seen = <<row>>,
                                 !.days = IF pc = "patch" THEN settings.graceDays ELSE 0])
  /\ UNCHANGED <<subs, events, balance, ledger, settings, shortest, today>>

\* An upload that no row limits: plans are not enforced, or the studio never had one.
UploadFreely(r) ==
  /\ req[r].pc = "idle"
  /\ settings.freeAccess \/ subs = <<>>
  /\ Goto(r, "upload")
  /\ UNCHANGED <<subs, events, balance, ledger, settings, shortest, today>>

PurgeContent(r) ==
  /\ req[r].pc = "purge"
  /\ events' = FALSE
  /\ Goto(r, "patch")
  /\ UNCHANGED <<subs, balance, ledger, settings, shortest, today>>

PatchRow(r) ==
  /\ req[r].pc = "patch"
  /\ LET i == req[r].id
         row == Advanced(subs[i], req[r].seen[1], req[r].days) IN
     /\ subs' = [subs EXCEPT ![i] = row]
     /\ Hold(r, [req[r] EXCEPT !.pc = Resumed(req[r].kind, row), !.seen = <<row>>, !.days = 0])
  /\ UNCHANGED <<events, balance, ledger, settings, shortest, today>>

-----------------------------------------------------------------------------
(* Uploads: assertQuotaAvailable is ReadSubscription; then photo by photo. *)

HasRoom(r) == \A i \in DOMAIN req[r].seen :
                req[r].seen[i].used + req[r].count < req[r].seen[i].total

AddPhoto(r) ==
  /\ req[r].pc = "upload" /\ req[r].count < MaxPhotos
  /\ HasRoom(r)
  /\ IF events THEN req' = [req EXCEPT ![r].pc = "count", ![r].count = @ + 1]
               ELSE Done(r)                  \* its event is gone: the insert fails
  /\ UNCHANGED <<subs, events, balance, ledger, settings, shortest, today>>

\* consumeQuota: counted against the row that is active by now, if it is usable.
ConsumeQuota(r) ==
  /\ req[r].pc = "count"
  /\ subs' = [i \in DOMAIN subs |->
       IF ~settings.freeAccess /\ i \in ActiveIds /\ subs[i].status \in {"TRIAL", "ACTIVE"}
         THEN [subs[i] EXCEPT !.used = @ + 1] ELSE subs[i]]
  /\ Goto(r, "upload")
  /\ UNCHANGED <<events, balance, ledger, settings, shortest, today>>

EndUpload(r) ==
  /\ req[r].pc = "upload"
  /\ Done(r)
  /\ UNCHANGED <<subs, events, balance, ledger, settings, shortest, today>>

-----------------------------------------------------------------------------
(* Changes of plan.                                                        *)

TrialCheck(r) ==
  /\ req[r].pc = "idle"
  /\ IF \E i \in DOMAIN subs : subs[i].change = "TRIAL" THEN Done(r) ELSE Goto(r, "trial")
  /\ UNCHANGED <<subs, events, balance, ledger, settings, shortest, today>>

TrialCreate(r) ==
  /\ req[r].pc = "trial"
  /\ \/ Create(Deactivated(subs, ActiveIds),
               NewRow(NoPlan, "TRIAL", "TRIAL", settings.trialQuota, 0, today + settings.trialDays))
     \/ UNCHANGED subs
  /\ Done(r)
  /\ UNCHANGED <<events, balance, ledger, settings, shortest, today>>

Subscribe(r) ==
  /\ req[r].pc = "idle"
  /\ \/ \E p \in Plans :
          Create(Deactivated(subs, ActiveIds),
                 NewRow(p, "ACTIVE", "SUBSCRIBE", Quota[p], 0, today + PlanDays))
     \/ UNCHANGED subs
  /\ Done(r)
  /\ UNCHANGED <<events, balance, ledger, settings, shortest, today>>

\* upgradePlan and downgradePlan compare prices on a first read ...
CurrentPrice == IF Current = 0 \/ subs[Current].plan = NoPlan
                     \/ subs[Current].change = "FREE_GRANT"
                  THEN 0 ELSE Price[subs[Current].plan]

SwapCheckPrice(r) ==
  /\ req[r].pc = "idle"
  /\ \E p \in Plans :
       /\ Price[p] # CurrentPrice
       /\ req' = [req EXCEPT ![r].pc = "swapRead", ![r].plan = p]
  /\ UNCHANGED <<subs, events, balance, ledger, settings, shortest, today>>

\* ... and swapActivePlan everything else on a second one.
SwapAllowed(i, p) ==
  /\ i # 0
  /\ subs[i].status \in {"TRIAL", "ACTIVE"}
  /\ subs[i].plan \notin {NoPlan, p}

SwapRead(r) ==
  /\ req[r].pc = "swapRead"
  /\ IF SwapAllowed(Current, req[r].plan)
       THEN req' = [req EXCEPT ![r].pc = "swapTx", ![r].id = Current, ![r].seen = Found(Current)]
       ELSE Done(r)
  /\ UNCHANGED <<subs, events, balance, ledger, settings, shortest, today>>

\* Bug variant: the new row is created before the old one is deactivated,
\* and no index refuses it.
SwapCreate_NoIndex(r) ==
  /\ req[r].pc = "swapTx" /\ Len(subs) < MaxRows
  /\ LET old == req[r].seen[1] IN
     subs' = Append(Deactivated(subs, {req[r].id}),
                    NewRow(req[r].plan, old.status, "SWAP", Quota[req[r].plan],
                           old.used, old.expires))
  /\ Done(r)
  /\ UNCHANGED <<events, balance, ledger, settings, shortest, today>>

SwapCreate(r) ==
  /\ req[r].pc = "swapTx"
  /\ \/ LET old == req[r].seen[1] IN
        Create(Deactivated(subs, {req[r].id}),
               NewRow(req[r].plan, old.status, "SWAP", Quota[req[r].plan],
                      old.used, old.expires))
     \/ UNCHANGED subs
  /\ Done(r)
  /\ UNCHANGED <<events, balance, ledger, settings, shortest, today>>

-----------------------------------------------------------------------------
(* The admin console.                                                      *)

GrantFree(r) ==
  /\ req[r].pc = "idle"
  /\ \/ \E p \in Plans, d \in {today + n : n \in GrantDays} \cup {Never} :
          Create(Cancelled(subs, ActiveIds),
                 NewRow(p, "ACTIVE", "FREE_GRANT", Quota[p], 0, d))
     \/ UNCHANGED subs
  /\ Done(r)
  /\ UNCHANGED <<events, balance, ledger, settings, shortest, today>>

RevokeFree(r) ==
  /\ req[r].pc = "idle"
  /\ subs' = Cancelled(subs, {i \in ActiveIds : subs[i].change = "FREE_GRANT"})
  /\ Done(r)
  /\ UNCHANGED <<events, balance, ledger, settings, shortest, today>>

AssignRead(r) ==
  /\ req[r].pc = "idle"
  /\ \E p \in Plans :
       req' = [req EXCEPT ![r].pc = "assignTx", ![r].plan = p, ![r].seen = Found(Current)]
  /\ UNCHANGED <<subs, events, balance, ledger, settings, shortest, today>>

AssignCreate(r) ==
  /\ req[r].pc = "assignTx"
  /\ LET used == IF req[r].seen = <<>> THEN 0 ELSE req[r].seen[1].used IN
     \/ Create(Cancelled(subs, ActiveIds),
               NewRow(req[r].plan, "ACTIVE", "ADMIN_SET", Quota[req[r].plan], used,
                      today + PlanDays))
     \/ UNCHANGED subs
  /\ Done(r)
  /\ UNCHANGED <<events, balance, ledger, settings, shortest, today>>

\* PATCH /platform-settings: any of the days, the quota and the launch switch.
ChangeSettings ==
  /\ settings' \in Settings \ {settings}
  /\ shortest' = IF settings'.graceDays < shortest THEN settings'.graceDays ELSE shortest
  /\ UNCHANGED <<subs, events, balance, ledger, today, req>>

-----------------------------------------------------------------------------
(* The wallet.                                                             *)

\* A wallet transaction row, with the balance the same transaction left.
Entry(credits, after) == [credits |-> credits, after |-> after]

\* rechargeWallet: the plan's tier must fit whether there is a wallet.
RechargeCheck(r) ==
  /\ req[r].pc = "idle"
  /\ \E tier \in {"INITIAL", "TOPUP"} :
       IF (tier = "INITIAL") <=> (balance = NoWallet) THEN Goto(r, "recharge") ELSE Done(r)
  /\ UNCHANGED <<subs, events, balance, ledger, settings, shortest, today>>

Recharge(r) ==
  /\ req[r].pc = "recharge"
  /\ \/ LET after == (IF balance = NoWallet THEN 0 ELSE balance) + Credits IN
        balance' = after /\ ledger' = Append(ledger, Entry(Credits, after))
     \/ UNCHANGED <<balance, ledger>>
  /\ Done(r)
  /\ UNCHANGED <<subs, events, settings, shortest, today>>

Cost(r) == CostOf(req[r].seen[1])

\* deductAiCredits: the transaction reads the balance without locking it ...
DebitCheck(r) ==
  /\ req[r].pc = "debit"
  /\ IF balance = NoWallet \/ balance < Cost(r)
       THEN Done(r)
       ELSE req' = [req EXCEPT ![r].pc = "debitTx", ![r].count = balance]
  /\ UNCHANGED <<subs, events, balance, ledger, settings, shortest, today>>

\* Bug variant: the entry repeats the balance that was read, less the cost.
Debit_StaleAfter(r) ==
  /\ req[r].pc = "debitTx"
  /\ balance' = balance - Cost(r)
  /\ ledger' = Append(ledger, Entry(-Cost(r), req[r].count - Cost(r)))
  /\ Done(r)
  /\ UNCHANGED <<subs, events, settings, shortest, today>>

\* ... and then decrements whatever it is by now.
Debit(r) ==
  /\ req[r].pc = "debitTx"
  /\ balance' = balance - Cost(r)
  /\ ledger' = Append(ledger, Entry(-Cost(r), balance - Cost(r)))
  /\ Done(r)
  /\ UNCHANGED <<subs, events, settings, shortest, today>>

-----------------------------------------------------------------------------

Tick ==
  /\ today < MaxDay
  /\ today' = today + 1
  /\ UNCHANGED <<subs, events, balance, ledger, settings, shortest, req>>

Lifecycle(r) == ReadSubscription(r) \/ PurgeContent(r) \/ PatchRow(r)
Upload(r) == UploadFreely(r) \/ AddPhoto(r) \/ ConsumeQuota(r) \/ EndUpload(r)
\* POST /trial, /subscribe, /upgrade, /downgrade: one library call and its answer.
ChangePlan(r) == \/ TrialCheck(r) \/ TrialCreate(r) \/ Subscribe(r)
                 \/ SwapCheckPrice(r) \/ SwapRead(r) \/ SwapCreate(r)
Administer(r) == GrantFree(r) \/ RevokeFree(r) \/ AssignRead(r) \/ AssignCreate(r)
\* POST /wallet/recharge, and the debits of AI credits.
Wallet(r) == RechargeCheck(r) \/ Recharge(r) \/ DebitCheck(r) \/ Debit(r)

Next ==
  \/ \E r \in Requests : \/ Lifecycle(r) \/ Upload(r) \/ ChangePlan(r)
                         \/ Administer(r) \/ Wallet(r)
  \/ ChangeSettings \/ Tick

Spec == Init /\ [][Next]_vars

-----------------------------------------------------------------------------
(* Properties.                                                             *)

\* The types of the state; a subscription in or past its grace knows its end.
TypeOK ==
  /\ subs \in Seq(Row) /\ Len(subs) <= MaxRows
  /\ \A i \in DOMAIN subs : subs[i].status \in {"GRACE", "EXPIRED"} => subs[i].grace # Never
  /\ events \in BOOLEAN
  /\ balance \in Int \cup {NoWallet}
  /\ ledger \in Seq([credits : Int, after : Int])
  /\ settings \in Settings /\ shortest \in Nat
  /\ today \in 0..MaxDay
  /\ req \in [Requests -> Local]

\* A studio has at most one active subscription, however requests that read one
\* row and write another interleave (the partial unique index is the guarantee).
OneActive == \A i, j \in ActiveIds : i = j

\* The two above: at most one active row, and a grace that has its end
\* (getActiveSubscription reads both without looking further).
SubscriptionInv == TypeOK /\ OneActive

\* A subscription expires only once its own period and then the shortest grace
\* the settings have had are over: a slow lazy sweep never expires the row a
\* studio has moved to meanwhile.  Events are deleted (purgeTenantContent) only
\* when that is true of a subscription of the studio.  It cannot be said of
\* graceEndsAt: two sweeps around a change of the days set it twice.
UsedUp(row) == row.expires # Never /\ row.expires + shortest < today
LapsesOnlyWhenDue ==
  [][/\ \A i \in DOMAIN subs :
          subs'[i].status = "EXPIRED" /\ subs[i].status # "EXPIRED" => UsedUp(subs[i])
     /\ events /\ ~events' => \E i \in DOMAIN subs : UsedUp(subs[i])]_vars

\* The wallet's ledger adds up: each entry continues the one before it, and the
\* last one is the balance, however recharges and debits interleave.
LedgerAddsUp ==
  /\ \A i \in DOMAIN ledger :
       ledger[i].after = ledger[i].credits + (IF i = 1 THEN 0 ELSE ledger[i - 1].after)
  /\ IF ledger = <<>> THEN balance = NoWallet ELSE balance = ledger[Len(ledger)].after

=============================================================================
