------------------------- MODULE SubscriptionProofs --------------------------
(***************************************************************************)
(* Proofs about Subscription, for any requests, plans, prices and periods: *)
(* one active row, a lapse only when it is due, a ledger that adds up.     *)
(***************************************************************************)
EXTENDS Subscription, TLAPS, SequenceTheorems

-----------------------------------------------------------------------------
(* The inductive invariant.                                                *)

\* A row whose grace has begun has at least the shortest one after its period.
GraceSound ==
  \A i \in DOMAIN subs :
    subs[i].grace # Never => subs[i].expires # Never /\ subs[i].expires + shortest <= subs[i].grace

RowsInv ==
  /\ subs \in Seq(Row) /\ Len(subs) <= MaxRows
  /\ \A i \in DOMAIN subs : subs[i].status \in {"GRACE", "EXPIRED"} => subs[i].grace # Never
  /\ OneActive /\ GraceSound /\ shortest \in Nat

\* What the locals l of a request may still be trusted for.  A request that is
\* about to advance row l.id read it when it was due, and since then nobody has
\* changed the end of its period or taken its grace away; the days that it read,
\* and the grace that it saw, are no shorter than the shortest.
LocalSound(l) ==
  /\ l.pc \in {"purge", "patch", "swapTx", "debit", "debitTx"} => Len(l.seen) = 1
  /\ l.pc \in {"purge", "patch"} =>
       /\ l.id \in DOMAIN subs
       /\ Over(l.seen[1]) /\ l.seen[1].expires = subs[l.id].expires
       /\ l.seen[1].status = "GRACE" =>
            /\ l.seen[1].expires # Never /\ l.seen[1].expires + shortest <= l.seen[1].grace
            /\ subs[l.id].grace # Never
       /\ l.seen[1].status # "GRACE" => shortest <= l.days
  /\ l.pc = "purge" => l.seen[1].status = "GRACE"
  /\ l.pc = "swapTx" => l.seen[1].status \in {"TRIAL", "ACTIVE"}
  /\ l.pc \in {"swapRead", "swapTx", "assignTx"} => l.plan \in Plans
  /\ l.pc = "debitTx" => balance # NoWallet

LocalsInv == req \in [Requests -> Local] /\ \A r \in Requests : LocalSound(req[r])

WalletInv ==
  /\ balance \in Int \cup {NoWallet} /\ ledger \in Seq([credits : Int, after : Int])
  /\ LedgerAddsUp

RestInv == /\ events \in BOOLEAN /\ today \in 0..MaxDay
           /\ settings \in Settings /\ shortest <= settings.graceDays

IInv == RowsInv /\ LocalsInv /\ WalletInv /\ RestInv

\* What no step does to the rows: none goes, the end of a period stays, and a
\* grace, once it has an end, has one.
Evolves ==
  \A i \in DOMAIN subs :
    /\ i \in DOMAIN subs' /\ subs'[i].expires = subs[i].expires
    /\ subs[i].grace # Never => subs'[i].grace # Never

\* The days may be made longer again; the shortest they have been stays.
Shrinks == shortest' \in Nat /\ shortest' <= shortest

-----------------------------------------------------------------------------
(* The rows: lists of rows, and the operators that change them.            *)

LEMMA RowFields ==
  ASSUME NEW row \in Row
  PROVE  /\ row.plan \in Plans \cup {NoPlan} /\ row.total \in Nat /\ row.used \in Nat
         /\ row.status \in {"TRIAL", "ACTIVE", "GRACE", "EXPIRED", "CANCELLED"}
         /\ row.expires \in Nat \cup {Never} /\ row.grace \in Nat \cup {Never}
         /\ row.active \in BOOLEAN
BY DEF Row

LEMMA RowAt ==
  ASSUME RowsInv, NEW i \in DOMAIN subs
  PROVE  i \in 1..Len(subs) /\ i \in Nat /\ subs[i] \in Row
BY LenProperties, ElementOfSeq DEF RowsInv

\* findFirst({ isActive: true }) finds no row, or an active one.
LEMMA CurrentRow ==
  ASSUME RowsInv
  PROVE  /\ Current \in Nat
         /\ Current # 0 => Current \in DOMAIN subs /\ subs[Current] \in Row
         /\ Found(Current) \in Seq(Row) /\ (Current # 0 => Len(Found(Current)) = 1 /\ Found(Current)[1] = subs[Current])
<1>1. CASE ActiveIds = {}
  BY <1>1, EmptySeq DEF Current, Found
<1>2. CASE ActiveIds # {}
  <2>1. Current \in ActiveIds
    BY <1>2 DEF Current
  <2>2. Current \in DOMAIN subs
    BY <2>1 DEF ActiveIds
  <2>3. Current \in Nat /\ Current # 0 /\ subs[Current] \in Row
    BY <2>2, RowAt
  <2>4. Found(Current) = <<subs[Current]>>
    BY <2>3 DEF Found
  <2>5. QED
    BY <2>2, <2>3, <2>4
<1>3. QED
  BY <1>1, <1>2

\* A list of rows that has the length of another, and a row in each place.
LEMMA Rewritten ==
  ASSUME NEW rows \in Seq(Row), NEW new, DOMAIN new = DOMAIN rows,
         new = [i \in DOMAIN rows |-> new[i]], \A i \in DOMAIN rows : new[i] \in Row
  PROVE  new \in Seq(Row) /\ Len(new) = Len(rows)
<1>1. Len(rows) \in Nat /\ DOMAIN rows = 1..Len(rows)
  BY LenProperties
<1>2. new \in [1..Len(rows) -> Row]
  BY <1>1
<1>3. new \in Seq(Row)
  BY <1>1, <1>2, SeqDef
<1>4. QED
  BY <1>1, <1>3, LenProperties

LEMMA Retired ==
  ASSUME NEW rows \in Seq(Row), NEW S, NEW new, new \in {Deactivated(rows, S), Cancelled(rows, S)}
  PROVE  /\ new \in Seq(Row) /\ Len(new) = Len(rows) /\ DOMAIN new = DOMAIN rows
         /\ \A i \in DOMAIN rows :
              /\ new[i].expires = rows[i].expires /\ new[i].grace = rows[i].grace
              /\ new[i].status \in {rows[i].status, "CANCELLED"}
              /\ new[i].active => rows[i].active
<1>1. \A i \in DOMAIN rows : rows[i] \in Row
  BY LenProperties, ElementOfSeq
<1>2. /\ DOMAIN new = DOMAIN rows
      /\ new = [i \in DOMAIN rows |-> new[i]]
      /\ \A i \in DOMAIN rows :
           \/ new[i] = rows[i]
           \/ new[i] = [rows[i] EXCEPT !.active = FALSE]
           \/ new[i] = [rows[i] EXCEPT !.active = FALSE, !.status = "CANCELLED"]
  BY DEF Deactivated, Cancelled
<1>3. \A i \in DOMAIN rows :
        /\ new[i] \in Row
        /\ new[i].expires = rows[i].expires /\ new[i].grace = rows[i].grace
        /\ new[i].status \in {rows[i].status, "CANCELLED"}
        /\ new[i].active => rows[i].active
  <2> TAKE i \in DOMAIN rows
  <2>1. rows[i] \in Row
    BY <1>1
  <2>2. CASE new[i] = rows[i]
    BY <2>1, <2>2
  <2>3. CASE new[i] = [rows[i] EXCEPT !.active = FALSE]
    BY <2>1, <2>3 DEF Row
  <2>4. CASE new[i] = [rows[i] EXCEPT !.active = FALSE, !.status = "CANCELLED"]
    BY <2>1, <2>4 DEF Row
  <2>5. QED
    BY <1>2, <2>2, <2>3, <2>4
<1>4. QED
  BY <1>2, <1>3, Rewritten

\* A transaction that retires rows and creates one, or that is refused.
LEMMA Created ==
  ASSUME RowsInv, Shrinks, NEW S, NEW rows, rows \in {Deactivated(subs, S), Cancelled(subs, S)},
         NEW row \in Row, row.status \in {"TRIAL", "ACTIVE"}, row.grace = Never, Create(rows, row)
  PROVE  /\ RowsInv' /\ Evolves
         /\ \A i \in DOMAIN subs : subs'[i].status \in {subs[i].status, "CANCELLED"}
<1>1. subs \in Seq(Row) /\ Len(subs) \in Nat /\ MaxRows \in Nat
  BY LenProperties, NumbersAssumption DEF RowsInv
<1>2. /\ rows \in Seq(Row) /\ Len(rows) = Len(subs) /\ DOMAIN rows = DOMAIN subs
      /\ \A i \in DOMAIN subs :
           /\ rows[i].expires = subs[i].expires /\ rows[i].grace = subs[i].grace
           /\ rows[i].status \in {subs[i].status, "CANCELLED"}
  BY <1>1, Retired
<1>3. /\ subs' = Append(rows, row) /\ Len(rows) < MaxRows
      /\ \A i \in DOMAIN rows : ~rows[i].active
  BY DEF Create
<1>4. /\ subs' \in Seq(Row) /\ Len(subs') = Len(rows) + 1
      /\ DOMAIN rows = 1..Len(rows) /\ DOMAIN subs' = 1..(Len(rows) + 1)
      /\ \A i \in 1..Len(rows) : subs'[i] = rows[i]
      /\ subs'[Len(rows) + 1] = row
  BY <1>1, <1>2, <1>3
<1>5. \A i \in DOMAIN subs' : i \in DOMAIN rows \/ i = Len(rows) + 1
  BY <1>1, <1>2, <1>4
<1>6. OneActive'
  BY <1>3, <1>4, <1>5 DEF OneActive, ActiveIds
<1>7. GraceSound'
  <2>1. \A i \in DOMAIN subs : subs[i].expires \in Nat \cup {Never} /\ subs[i].grace \in Nat \cup {Never}
    BY RowAt, RowFields
  <2>2. QED
    BY <1>2, <1>4, <1>5, <2>1 DEF GraceSound, RowsInv, Shrinks, Never
<1>8. \A i \in DOMAIN subs' : subs'[i].status \in {"GRACE", "EXPIRED"} => subs'[i].grace # Never
  BY <1>2, <1>4, <1>5 DEF RowsInv
<1>9. RowsInv'
  BY <1>1, <1>2, <1>3, <1>4, <1>6, <1>7, <1>8 DEF RowsInv, Shrinks
<1>10. \A i \in DOMAIN subs : i \in DOMAIN subs' /\ subs'[i] = rows[i]
  BY <1>1, <1>2, <1>4
<1>11. QED
  BY <1>2, <1>9, <1>10 DEF Evolves

-----------------------------------------------------------------------------
(* The locals of a request.                                                *)

LEMMA FreshSound == Fresh \in Local /\ LocalSound(Fresh)
BY EmptySeq DEF Fresh, Local, LocalSound

\* What the others may trust is still true after a step that keeps the rows.
LEMMA SoundStays ==
  ASSUME IInv, Evolves, Shrinks, today' \in Nat, today <= today',
         balance # NoWallet => balance' # NoWallet,
         NEW l \in Local, LocalSound(l)
  PROVE  LocalSound(l)'
<1>1. CASE l.pc \in {"purge", "patch"}
  <2>1. l.id \in DOMAIN subs /\ l.seen \in Seq(Row) /\ Len(l.seen) = 1
    BY <1>1 DEF LocalSound, Local
  <2>2. l.seen[1] \in Row
    BY <2>1, ElementOfSeq
  <2>3. l.id \in DOMAIN subs' /\ subs'[l.id].expires = subs[l.id].expires
    BY <2>1 DEF Evolves
  <2>4. Over(l.seen[1])'
    <3>1. today \in Nat
      BY NumbersAssumption DEF IInv, RestInv
    <3>2. QED
      BY <1>1, <2>2, <3>1, RowFields DEF LocalSound, Over, Never
  <2>5. /\ l.seen[1].status = "GRACE" =>
             /\ l.seen[1].expires # Never /\ l.seen[1].expires + shortest' <= l.seen[1].grace
             /\ subs'[l.id].grace # Never
        /\ l.seen[1].status # "GRACE" => shortest' <= l.days
    <3>1. shortest \in Nat /\ l.days \in Nat
      BY DEF IInv, RowsInv, Local
    <3>2. l.seen[1].expires \in Nat \cup {Never} /\ l.seen[1].grace \in Nat \cup {Never}
      BY <2>2, RowFields
    <3>3. CASE l.seen[1].status = "GRACE"
      <4>1. /\ l.seen[1].expires # Never /\ l.seen[1].expires + shortest <= l.seen[1].grace
            /\ subs[l.id].grace # Never
        BY <1>1, <3>3 DEF LocalSound
      <4>2. l.seen[1].expires \in Nat /\ l.seen[1].grace \in Int
        BY <3>2, <4>1 DEF Never
      <4>3. l.seen[1].expires + shortest' <= l.seen[1].grace
        BY <3>1, <4>1, <4>2 DEF Shrinks
      <4>4. subs'[l.id].grace # Never
        BY <2>1, <4>1 DEF Evolves
      <4>5. QED
        BY <3>3, <4>1, <4>3, <4>4
    <3>4. CASE l.seen[1].status # "GRACE"
      BY <1>1, <3>1, <3>4 DEF LocalSound, Shrinks
    <3>5. QED
      BY <3>3, <3>4
  <2>6. QED
    BY <1>1, <2>1, <2>3, <2>4, <2>5, Zenon DEF LocalSound
<1>2. CASE l.pc \notin {"purge", "patch"}
  BY <1>2 DEF LocalSound
<1>3. QED
  BY <1>1, <1>2

\* A step of r that leaves r with sound locals, and the others with theirs.
LEMMA LocalsStep ==
  ASSUME IInv, Evolves, Shrinks, today' \in Nat, today <= today',
         balance # NoWallet => balance' # NoWallet,
         NEW r \in Requests, NEW l \in Local, LocalSound(l)', req' = [req EXCEPT ![r] = l]
  PROVE  LocalsInv'
<1>1. req' \in [Requests -> Local]
  BY DEF IInv, LocalsInv
<1>2. \A k \in Local : LocalSound(k) => LocalSound(k)'
  BY SoundStays
<1>3. ASSUME NEW s \in Requests PROVE LocalSound(req[s])'
  <2>1. PICK k \in Local : k = req'[s] /\ LocalSound(k)'
    <3>1. CASE s = r
      BY <3>1 DEF IInv, LocalsInv
    <3>2. CASE s # r
      BY <1>2, <3>2 DEF IInv, LocalsInv
    <3>3. QED
      BY <3>1, <3>2
  <2>2. QED
    BY <2>1 DEF LocalSound
<1>4. QED
  BY <1>1, <1>3 DEF LocalsInv

-----------------------------------------------------------------------------
(* The rows after one step.                                                *)

\* No subscription expires before it is used up: the first half of
\* LapsesOnlyWhenDue, and its second half.
ExpiresWhenDue ==
  \A i \in DOMAIN subs :
    subs'[i].status = "EXPIRED" /\ subs[i].status # "EXPIRED" => UsedUp(subs[i])
PurgesWhenDue ==
  events /\ ~events' => \E i \in DOMAIN subs : UsedUp(subs[i])

RowsGood == RowsInv' /\ Evolves /\ ExpiresWhenDue

LEMMA SameRows == ASSUME RowsInv, Shrinks, UNCHANGED subs PROVE RowsGood
BY RowAt, RowFields DEF Shrinks, RowsInv, OneActive, ActiveIds, GraceSound, Evolves, ExpiresWhenDue, RowsGood

LEMMA CreatedGood ==
  ASSUME RowsInv, Shrinks, NEW S, NEW rows, rows \in {Deactivated(subs, S), Cancelled(subs, S)},
         NEW row \in Row, row.status \in {"TRIAL", "ACTIVE"}, row.grace = Never, Create(rows, row)
  PROVE  RowsGood
BY Created DEF ExpiresWhenDue, RowsGood

LEMMA NewRowType ==
  ASSUME NEW plan \in Plans \cup {NoPlan}, NEW status \in {"TRIAL", "ACTIVE"},
         NEW change \in {"TRIAL", "SUBSCRIBE", "SWAP", "FREE_GRANT", "ADMIN_SET"},
         NEW total \in Nat, NEW used \in Nat, NEW expires \in Nat \cup {Never}
  PROVE  /\ NewRow(plan, status, change, total, used, expires) \in Row
         /\ NewRow(plan, status, change, total, used, expires).status = status
         /\ NewRow(plan, status, change, total, used, expires).grace = Never
BY DEF NewRow, Row

LEMMA RowsRetired ==
  ASSUME RowsInv, Shrinks, NEW S, subs' = Cancelled(subs, S)
  PROVE  RowsGood
<1>1. /\ subs' \in Seq(Row) /\ Len(subs') = Len(subs) /\ DOMAIN subs' = DOMAIN subs
      /\ \A i \in DOMAIN subs :
           /\ subs'[i].expires = subs[i].expires /\ subs'[i].grace = subs[i].grace
           /\ subs'[i].status \in {subs[i].status, "CANCELLED"}
           /\ subs'[i].active => subs[i].active
  <2>1. subs' \in {Deactivated(subs, S), Cancelled(subs, S)} /\ subs \in Seq(Row)
    BY DEF RowsInv
  <2>2. QED
    BY <2>1, Retired
<1>2. OneActive' /\ GraceSound'
  <2>1. \A i \in DOMAIN subs : subs[i].expires \in Nat \cup {Never} /\ subs[i].grace \in Nat \cup {Never}
    BY RowAt, RowFields
  <2>2. QED
    BY <1>1, <2>1 DEF RowsInv, OneActive, ActiveIds, GraceSound, Shrinks, Never
<1>3. \A i \in DOMAIN subs' : subs'[i].status \in {"GRACE", "EXPIRED"} => subs'[i].grace # Never
  BY <1>1 DEF RowsInv
<1>4. QED
  BY <1>1, <1>2, <1>3 DEF RowsInv, Evolves, ExpiresWhenDue, RowsGood, Shrinks

\* The row a request has read and found due, advanced.
LEMMA AdvancedRow ==
  ASSUME IInv, NEW r \in Requests, req[r].pc = "patch"
  PROVE  LET i == req[r].id
             seen == req[r].seen[1]
             row == Advanced(subs[i], seen, req[r].days)
         IN /\ i \in DOMAIN subs /\ subs[i] \in Row /\ row \in Row
            /\ row.expires = subs[i].expires /\ row.grace # Never
            /\ row.expires # Never /\ row.expires + shortest <= row.grace
            /\ row.active => subs[i].active
            /\ row.status \in {"GRACE", "EXPIRED"}
            /\ row.status = "EXPIRED" => UsedUp(subs[i])
<1> DEFINE i == req[r].id
           seen == req[r].seen[1]
           row == Advanced(subs[i], seen, req[r].days)
<1>1. req[r] \in Local /\ LocalSound(req[r])
  BY DEF IInv, LocalsInv
<1>2. seen \in Row
  BY <1>1, ElementOfSeq DEF LocalSound, Local
<1>3. i \in DOMAIN subs /\ Over(seen) /\ seen.expires = subs[i].expires
      /\ (seen.status = "GRACE" => /\ seen.expires # Never /\ seen.expires + shortest <= seen.grace
                                  /\ subs[i].grace # Never)
      /\ (seen.status # "GRACE" => shortest <= req[r].days)
  BY <1>1 DEF LocalSound
<1>4. subs[i] \in Row
  BY <1>3, RowAt DEF IInv
<1>5. req[r].days \in Nat /\ today \in Nat /\ shortest \in Nat
  BY <1>1, NumbersAssumption DEF IInv, RestInv, RowsInv, Local
<1>6. subs[i].grace # Never => subs[i].expires # Never /\ subs[i].expires + shortest <= subs[i].grace
  BY <1>3 DEF IInv, RowsInv, GraceSound
<1>7. CASE seen.status = "GRACE"
  <2>1. row = [subs[i] EXCEPT !.status = "EXPIRED", !.active = FALSE]
    BY <1>7 DEF Advanced
  <2>2. seen.grace < today
    BY <1>3, <1>7 DEF Over
  <2>3. /\ row \in Row /\ row.expires = subs[i].expires /\ row.grace = subs[i].grace
        /\ row.active = FALSE /\ row.status = "EXPIRED"
    BY <1>4, <2>1 DEF Row
  <2>4. UsedUp(subs[i])
    BY <1>2, <1>3, <1>5, <1>7, <2>2, RowFields DEF UsedUp, Never
  <2>5. QED
    BY <1>3, <1>4, <1>6, <1>7, <2>3, <2>4
<1>8. CASE seen.status # "GRACE"
  <2>1. row = [subs[i] EXCEPT !.status = "GRACE", !.grace = seen.expires + req[r].days]
    BY <1>8 DEF Advanced
  <2>2. seen.expires # Never /\ seen.expires \in Nat
    BY <1>2, <1>3, <1>8, RowFields DEF Over
  <2>3. seen.expires + req[r].days \in Nat
    BY <1>5, <2>2
  <2>4. /\ row \in Row /\ row.expires = subs[i].expires /\ row.grace = seen.expires + req[r].days
        /\ row.active = subs[i].active /\ row.status = "GRACE"
    BY <1>4, <2>1, <2>3 DEF Row
  <2>5. row.grace # Never
    BY <2>3, <2>4 DEF Never
  <2>6. row.expires # Never /\ row.expires + shortest <= row.grace
    <3>1. row.expires = seen.expires /\ row.grace = seen.expires + req[r].days
      BY <1>3, <2>4
    <3>2. shortest <= req[r].days
      BY <1>3, <1>8
    <3> HIDE DEF row, seen
    <3>3. QED
      BY <1>5, <2>2, <3>1, <3>2
  <2>7. QED
    BY <1>3, <1>4, <2>4, <2>5, <2>6
<1>9. QED
  BY <1>7, <1>8

LEMMA RowsPatched ==
  ASSUME IInv, Shrinks, NEW r \in Requests, PatchRow(r)
  PROVE  RowsGood
<1> DEFINE i == req[r].id
           row == Advanced(subs[i], req[r].seen[1], req[r].days)
<1>1. req[r].pc = "patch" /\ subs' = [subs EXCEPT ![i] = row]
  BY DEF PatchRow
<1>2. /\ i \in DOMAIN subs /\ subs[i] \in Row /\ row \in Row
      /\ row.expires = subs[i].expires /\ row.grace # Never
      /\ row.expires # Never /\ row.expires + shortest <= row.grace
      /\ (row.active => subs[i].active)
      /\ row.status \in {"GRACE", "EXPIRED"}
      /\ (row.status = "EXPIRED" => UsedUp(subs[i]))
  BY <1>1, AdvancedRow
<1> HIDE DEF i, row
<1>3. subs \in Seq(Row) /\ i \in 1..Len(subs)
  BY <1>2, RowAt DEF IInv, RowsInv
<1>4. subs' \in Seq(Row) /\ Len(subs') = Len(subs) /\ DOMAIN subs' = DOMAIN subs
  BY <1>1, <1>2, <1>3, ExceptSeq, LenProperties
<1>5. \A k \in DOMAIN subs : subs'[k] = IF k = i THEN row ELSE subs[k]
  BY <1>1
<1>6. OneActive' /\ GraceSound'
  <2>1. OneActive'
    BY <1>2, <1>4, <1>5 DEF IInv, RowsInv, OneActive, ActiveIds
  <2>2. row.expires \in Nat \cup {Never} /\ row.grace \in Nat \cup {Never}
    BY <1>2, RowFields
  <2>3. \A k \in DOMAIN subs : subs[k].expires \in Nat \cup {Never} /\ subs[k].grace \in Nat \cup {Never}
    BY RowAt, RowFields DEF IInv
  <2>4. ASSUME NEW k \in DOMAIN subs', subs'[k].grace # Never
        PROVE  subs'[k].expires # Never /\ subs'[k].expires + shortest' <= subs'[k].grace
    <3>1. shortest \in Nat /\ shortest' \in Nat /\ shortest' <= shortest
      BY DEF IInv, RowsInv, Shrinks
    <3>2. CASE k = i
      BY <1>2, <1>4, <1>5, <2>2, <2>4, <3>1, <3>2 DEF Never
    <3>3. CASE k # i
      <4>1. subs'[k] = subs[k] /\ k \in DOMAIN subs
        BY <1>4, <1>5, <3>3
      <4>2. subs[k].expires # Never /\ subs[k].expires + shortest <= subs[k].grace
        BY <2>4, <4>1 DEF IInv, RowsInv, GraceSound
      <4>3. QED
        BY <2>3, <2>4, <3>1, <4>1, <4>2 DEF Never
    <3>4. QED
      BY <3>2, <3>3
  <2>5. QED
    BY <2>1, <2>4 DEF GraceSound
<1>7. \A k \in DOMAIN subs' : subs'[k].status \in {"GRACE", "EXPIRED"} => subs'[k].grace # Never
  BY <1>2, <1>4, <1>5 DEF IInv, RowsInv
<1>8. RowsInv'
  BY <1>4, <1>6, <1>7 DEF IInv, RowsInv, Shrinks
<1>9. Evolves
  BY <1>2, <1>4, <1>5 DEF Evolves
<1>10. ExpiresWhenDue
  BY <1>2, <1>5 DEF ExpiresWhenDue
<1>11. QED
  BY <1>8, <1>9, <1>10 DEF RowsGood

LEMMA RowsCounted ==
  ASSUME RowsInv, Shrinks, NEW r, ConsumeQuota(r)
  PROVE  RowsGood
<1>1. \A i \in DOMAIN subs : subs[i] \in Row
  BY RowAt
<1>2. /\ subs' = [i \in DOMAIN subs |-> subs'[i]] /\ DOMAIN subs' = DOMAIN subs
      /\ \A i \in DOMAIN subs : subs'[i] = subs[i] \/ subs'[i] = [subs[i] EXCEPT !.used = subs[i].used + 1]
  BY DEF ConsumeQuota
<1>3. \A i \in DOMAIN subs :
        /\ subs'[i] \in Row /\ subs'[i].expires = subs[i].expires /\ subs'[i].grace = subs[i].grace
        /\ subs'[i].status = subs[i].status /\ subs'[i].active = subs[i].active
  <2> TAKE i \in DOMAIN subs
  <2>1. subs[i] \in Row /\ subs[i].used + 1 \in Nat
    BY <1>1, RowFields
  <2>2. CASE subs'[i] = subs[i]
    BY <2>1, <2>2
  <2>3. CASE subs'[i] = [subs[i] EXCEPT !.used = subs[i].used + 1]
    BY <2>1, <2>3 DEF Row
  <2>4. QED
    BY <1>2, <2>2, <2>3
<1>4. subs' \in Seq(Row) /\ Len(subs') = Len(subs)
  BY <1>2, <1>3, Rewritten DEF RowsInv
<1>5. OneActive' /\ GraceSound'
  <2>1. \A i \in DOMAIN subs : subs[i].expires \in Nat \cup {Never} /\ subs[i].grace \in Nat \cup {Never}
    BY <1>1, RowFields
  <2>2. OneActive'
    BY <1>2, <1>3 DEF RowsInv, OneActive, ActiveIds
  <2>3. GraceSound'
    BY <1>2, <1>3, <2>1 DEF RowsInv, GraceSound, Shrinks, Never
  <2>4. QED
    BY <2>2, <2>3
<1>6. \A i \in DOMAIN subs' : subs'[i].status \in {"GRACE", "EXPIRED"} => subs'[i].grace # Never
  BY <1>2, <1>3 DEF RowsInv
<1>7. QED
  BY <1>2, <1>3, <1>4, <1>5, <1>6 DEF RowsInv, Evolves, ExpiresWhenDue, RowsGood, Shrinks

\* What a request read of a row that it goes on with.
LEMMA LocalFields ==
  ASSUME IInv, NEW r \in Requests
  PROVE  /\ req[r] \in Local /\ LocalSound(req[r])
         /\ req[r].seen \in Seq(Row) /\ req[r].plan \in Plans \cup {NoPlan} /\ req[r].count \in Nat
         /\ req[r].pc \in {"purge", "patch", "swapTx", "debit", "debitTx"} => req[r].seen[1] \in Row
         /\ req[r].seen # <<>> => req[r].seen[1] \in Row
<1>1. req[r] \in Local /\ LocalSound(req[r])
  BY DEF IInv, LocalsInv
<1>2. req[r].seen \in Seq(Row) /\ req[r].plan \in Plans \cup {NoPlan} /\ req[r].count \in Nat
  BY <1>1 DEF Local
<1>3. req[r].seen # <<>> => req[r].seen[1] \in Row
  BY <1>2, EmptySeq, ElementOfSeq
<1>4. QED
  BY <1>1, <1>2, <1>3, ElementOfSeq DEF LocalSound

LEMMA Dates ==
  ASSUME IInv
  PROVE  /\ today \in Nat /\ today + settings.trialDays \in Nat /\ today + PlanDays \in Nat
         /\ settings.trialQuota \in Nat /\ \A p \in Plans : Quota[p] \in Nat
         /\ \A n \in GrantDays : today + n \in Nat
BY NumbersAssumption, PlansAssumption, SettingsAssumption DEF IInv, RestInv

LEMMA RowsNewRow ==
  ASSUME IInv, Shrinks, NEW S, NEW rows, rows \in {Deactivated(subs, S), Cancelled(subs, S)},
         NEW plan \in Plans \cup {NoPlan}, NEW status \in {"TRIAL", "ACTIVE"},
         NEW change \in {"TRIAL", "SUBSCRIBE", "SWAP", "FREE_GRANT", "ADMIN_SET"},
         NEW total \in Nat, NEW used \in Nat, NEW expires \in Nat \cup {Never},
         Create(rows, NewRow(plan, status, change, total, used, expires))
  PROVE  RowsGood
<1> DEFINE row == NewRow(plan, status, change, total, used, expires)
<1>1. row \in Row /\ row.status = status /\ row.grace = Never
  BY SMTT(30), NewRowType
<1>2. Create(rows, row)
  OBVIOUS
<1> HIDE DEF row
<1>3. QED
  BY <1>1, <1>2, CreatedGood DEF IInv

LEMMA RowsSwapped ==
  ASSUME IInv, Shrinks, NEW r \in Requests, SwapCreate(r)
  PROVE  RowsGood
<1>1. CASE UNCHANGED subs
  BY <1>1, SameRows DEF IInv
<1>2. CASE LET old == req[r].seen[1] IN
             Create(Deactivated(subs, {req[r].id}),
                    NewRow(req[r].plan, old.status, "SWAP", Quota[req[r].plan], old.used, old.expires))
  <2>1. req[r].pc = "swapTx"
    BY DEF SwapCreate
  <2>2. req[r].seen[1] \in Row /\ req[r].seen[1].status \in {"TRIAL", "ACTIVE"}
    BY <2>1, LocalFields DEF LocalSound
  <2>3. req[r].plan \in Plans
    BY <2>1, LocalFields DEF LocalSound
  <2>4. req[r].seen[1].used \in Nat /\ req[r].seen[1].expires \in Nat \cup {Never} /\ Quota[req[r].plan] \in Nat
    BY <2>2, <2>3, Dates, RowFields
  <2>5. QED
    BY <1>2, <2>2, <2>3, <2>4, RowsNewRow
<1>3. QED
  BY <1>1, <1>2 DEF SwapCreate

LEMMA RowsAssigned ==
  ASSUME IInv, Shrinks, NEW r \in Requests, AssignCreate(r)
  PROVE  RowsGood
<1>1. CASE UNCHANGED subs
  BY <1>1, SameRows DEF IInv
<1>2. CASE LET used == IF req[r].seen = <<>> THEN 0 ELSE req[r].seen[1].used IN
             Create(Cancelled(subs, ActiveIds),
                    NewRow(req[r].plan, "ACTIVE", "ADMIN_SET", Quota[req[r].plan], used, today + PlanDays))
  <2>1. (IF req[r].seen = <<>> THEN 0 ELSE req[r].seen[1].used) \in Nat
    BY LocalFields, RowFields
  <2>2. req[r].plan \in Plans
    BY LocalFields DEF LocalSound, AssignCreate
  <2>3. QED
    BY <1>2, <2>1, <2>2, Dates, RowsNewRow
<1>3. QED
  BY <1>1, <1>2 DEF AssignCreate

LEMMA ShortestShrinks == ASSUME IInv, [Next]_vars PROVE Shrinks
<1>1. shortest \in Nat
  BY DEF IInv, RowsInv
<1>2. ASSUME UNCHANGED shortest PROVE Shrinks
  BY <1>1, <1>2 DEF Shrinks
<1>3. CASE ChangeSettings
  <2>1. settings'.graceDays \in Nat
    BY <1>3, SettingsAssumption DEF ChangeSettings
  <2>2. QED
    BY <1>1, <1>3, <2>1 DEF ChangeSettings, Shrinks
<1>4. CASE \E r \in Requests : Lifecycle(r) \/ Upload(r)
  BY <1>2, <1>4 DEF Lifecycle, ReadSubscription, PurgeContent, PatchRow,
                    Upload, UploadFreely, AddPhoto, ConsumeQuota, EndUpload
<1>5. CASE \E r \in Requests : ChangePlan(r) \/ Administer(r)
  BY <1>2, <1>5 DEF ChangePlan, TrialCheck, TrialCreate, Subscribe, SwapCheckPrice, SwapRead,
                    SwapCreate, Administer, GrantFree, RevokeFree, AssignRead, AssignCreate
<1>6. CASE \E r \in Requests : Wallet(r)
  BY <1>2, <1>6 DEF Wallet, RechargeCheck, Recharge, DebitCheck, Debit
<1>7. CASE Tick \/ UNCHANGED vars
  BY <1>2, <1>7 DEF Tick, vars
<1>8. QED
  BY <1>3, <1>4, <1>5, <1>6, <1>7 DEF Next

LEMMA RowsNext == ASSUME IInv, [Next]_vars PROVE RowsGood
<1> USE ShortestShrinks
<1>1. ASSUME UNCHANGED subs PROVE RowsGood
  BY <1>1, SameRows DEF IInv
<1>2. ASSUME NEW r \in Requests, Lifecycle(r) PROVE RowsGood
  BY <1>1, <1>2, RowsPatched DEF Lifecycle, ReadSubscription, PurgeContent
<1>3. ASSUME NEW r \in Requests, Upload(r) PROVE RowsGood
  BY <1>1, <1>3, RowsCounted DEF IInv, Upload, UploadFreely, AddPhoto, EndUpload
<1>4. ASSUME NEW r \in Requests, ChangePlan(r) PROVE RowsGood
  <2>1. CASE TrialCreate(r)
    BY <1>1, <2>1, Dates, RowsNewRow DEF TrialCreate
  <2>2. CASE Subscribe(r)
    BY <1>1, <2>2, Dates, RowsNewRow DEF Subscribe
  <2>3. QED
    BY <1>1, <1>4, <2>1, <2>2, RowsSwapped DEF ChangePlan, TrialCheck, SwapCheckPrice, SwapRead
<1>5. ASSUME NEW r \in Requests, Administer(r) PROVE RowsGood
  <2>1. CASE GrantFree(r)
    <3>1. ASSUME NEW p \in Plans, NEW d \in {today + n : n \in GrantDays} \cup {Never},
                 Create(Cancelled(subs, ActiveIds), NewRow(p, "ACTIVE", "FREE_GRANT", Quota[p], 0, d))
          PROVE  RowsGood
      <4>1. d \in Nat \cup {Never} /\ Quota[p] \in Nat
        BY Dates
      <4>2. QED
        BY <3>1, <4>1, RowsNewRow
    <3>2. QED
      BY <1>1, <2>1, <3>1 DEF GrantFree
  <2>2. CASE RevokeFree(r)
    BY <2>2, RowsRetired DEF RevokeFree, IInv
  <2>3. QED
    BY <1>1, <1>5, <2>1, <2>2, RowsAssigned DEF Administer, AssignRead
<1>6. ASSUME NEW r \in Requests, Wallet(r) PROVE RowsGood
  BY <1>1, <1>6 DEF Wallet, RechargeCheck, Recharge, DebitCheck, Debit
<1>7. CASE ChangeSettings \/ Tick \/ UNCHANGED vars
  BY <1>1, <1>7 DEF ChangeSettings, Tick, vars
<1>8. QED
  BY <1>2, <1>3, <1>4, <1>5, <1>6, <1>7 DEF Next

-----------------------------------------------------------------------------
(* The wallet after one step.                                              *)

LEMMA CostType == ASSUME NEW row \in Row PROVE CostOf(row) \in Nat
BY PlansAssumption DEF CostOf

\* Appending an entry that continues the last one keeps the ledger adding up.
LEMMA EntryAdded ==
  ASSUME WalletInv, NEW credits \in Int, NEW after \in Int, NEW before \in Int,
         before = IF balance = NoWallet THEN 0 ELSE balance, after = before + credits,
         balance' = after, ledger' = Append(ledger, Entry(credits, after))
  PROVE  WalletInv'
<1>1. ledger \in Seq([credits : Int, after : Int]) /\ Len(ledger) \in Nat /\ DOMAIN ledger = 1..Len(ledger)
  BY LenProperties DEF WalletInv
<1>2. Entry(credits, after) \in [credits : Int, after : Int]
  BY DEF Entry
<1>3. /\ ledger' \in Seq([credits : Int, after : Int]) /\ Len(ledger') = Len(ledger) + 1
      /\ DOMAIN ledger' = 1..(Len(ledger) + 1)
      /\ \A i \in 1..Len(ledger) : ledger'[i] = ledger[i]
      /\ ledger'[Len(ledger) + 1] = Entry(credits, after)
  BY <1>1, <1>2
<1>4. IF Len(ledger) = 0 THEN before = 0 ELSE before = ledger[Len(ledger)].after
  <2>1. CASE ledger = <<>>
    BY <2>1 DEF WalletInv, LedgerAddsUp
  <2>2. CASE ledger # <<>>
    <3>1. Len(ledger) # 0 /\ Len(ledger) \in 1..Len(ledger)
      BY <1>1, <2>2, EmptySeq
    <3>2. balance = ledger[Len(ledger)].after /\ ledger[Len(ledger)].after \in Int
      BY <1>1, <2>2, <3>1, ElementOfSeq DEF WalletInv, LedgerAddsUp
    <3>3. QED
      BY <3>1, <3>2, NumbersAssumption
  <2>3. QED
    BY <2>1, <2>2
<1>5. \A i \in DOMAIN ledger' :
        ledger'[i].after = ledger'[i].credits + (IF i = 1 THEN 0 ELSE ledger'[i - 1].after)
  <2> TAKE i \in DOMAIN ledger'
  <2>1. CASE i = Len(ledger) + 1
    <3>1. ledger'[i].after = after /\ ledger'[i].credits = credits
      BY <1>3, <2>1 DEF Entry
    <3>2. CASE Len(ledger) = 0
      BY <1>4, <2>1, <3>1, <3>2
    <3>3. CASE Len(ledger) # 0
      <4>1. i # 1 /\ i - 1 = Len(ledger) /\ Len(ledger) \in 1..Len(ledger)
        BY <1>1, <2>1, <3>3
      <4>2. ledger'[i - 1] = ledger[Len(ledger)]
        BY <1>3, <4>1
      <4>3. QED
        BY <1>4, <3>1, <3>3, <4>1, <4>2
    <3>4. QED
      BY <3>2, <3>3
  <2>2. CASE i # Len(ledger) + 1
    <3>1. i \in DOMAIN ledger /\ ledger'[i] = ledger[i] /\ (i # 1 => ledger'[i - 1] = ledger[i - 1])
      BY SMTT(30), <1>1, <1>3, <2>2
    <3>2. QED
      BY <3>1 DEF WalletInv, LedgerAddsUp
  <2>3. QED
    BY <2>1, <2>2
<1>6. ledger' # <<>> /\ balance' = ledger'[Len(ledger')].after
  BY <1>1, <1>3, EmptySeq DEF Entry
<1>7. QED
  BY ZenonT(40), <1>3, <1>5, <1>6 DEF WalletInv, LedgerAddsUp

LEMMA SameWallet == ASSUME WalletInv, UNCHANGED <<balance, ledger>> PROVE WalletInv'
BY DEF WalletInv, LedgerAddsUp

LEMMA WalletNext ==
  ASSUME IInv, [Next]_vars
  PROVE  WalletInv' /\ (balance # NoWallet => balance' # NoWallet)
<1> DEFINE Good == WalletInv' /\ (balance # NoWallet => balance' # NoWallet)
<1>1. ASSUME UNCHANGED <<balance, ledger>> PROVE Good
  BY <1>1, SameWallet DEF IInv
<1>2. ASSUME NEW r \in Requests, Recharge(r) PROVE Good
  <2>1. CASE UNCHANGED <<balance, ledger>>
    BY <1>1, <2>1
  <2>2. CASE LET after == (IF balance = NoWallet THEN 0 ELSE balance) + Credits IN
               balance' = after /\ ledger' = Append(ledger, Entry(Credits, after))
    <3> DEFINE before == IF balance = NoWallet THEN 0 ELSE balance
    <3>1. before \in Int /\ Credits \in Int /\ before + Credits \in Int
      BY NumbersAssumption DEF IInv, WalletInv
    <3>2. balance' = before + Credits /\ ledger' = Append(ledger, Entry(Credits, before + Credits))
      BY <2>2
    <3>3. WalletInv'
      BY <3>1, <3>2, EntryAdded DEF IInv
    <3>4. QED
      BY <3>1, <3>2, <3>3, NumbersAssumption
  <2>3. QED
    BY <1>2, <2>1, <2>2 DEF Recharge
<1>3. ASSUME NEW r \in Requests, Debit(r) PROVE Good
  <2>1. req[r].pc = "debitTx" /\ req[r].seen[1] \in Row /\ balance # NoWallet
    BY <1>3, LocalFields DEF Debit, LocalSound
  <2>2. Cost(r) \in Nat /\ balance \in Int
    BY <2>1, CostType DEF Cost, IInv, WalletInv
  <2>3. /\ balance - Cost(r) \in Int /\ -Cost(r) \in Int
        /\ balance - Cost(r) = balance + (-Cost(r))
    BY <2>2
  <2>4. balance' = balance - Cost(r) /\ ledger' = Append(ledger, Entry(-Cost(r), balance - Cost(r)))
    BY <1>3 DEF Debit
  <2>5. WalletInv'
    BY <2>1, <2>2, <2>3, <2>4, EntryAdded DEF IInv
  <2>6. QED
    BY <2>3, <2>4, <2>5, NumbersAssumption
<1>4. ASSUME NEW r \in Requests, Lifecycle(r) \/ Upload(r) PROVE Good
  BY <1>1, <1>4 DEF Lifecycle, ReadSubscription, PurgeContent, PatchRow,
                    Upload, UploadFreely, AddPhoto, ConsumeQuota, EndUpload
<1>5. ASSUME NEW r \in Requests, ChangePlan(r) \/ Administer(r) PROVE Good
  BY <1>1, <1>5 DEF ChangePlan, TrialCheck, TrialCreate, Subscribe, SwapCheckPrice, SwapRead,
                    SwapCreate, Administer, GrantFree, RevokeFree, AssignRead, AssignCreate
<1>6. ASSUME NEW r \in Requests, RechargeCheck(r) \/ DebitCheck(r) PROVE Good
  BY <1>1, <1>6 DEF RechargeCheck, DebitCheck
<1>7. CASE ChangeSettings \/ Tick \/ UNCHANGED vars
  BY <1>1, <1>7 DEF ChangeSettings, Tick, vars
<1>8. QED
  BY <1>2, <1>3, <1>4, <1>5, <1>6, <1>7 DEF Next, Wallet

-----------------------------------------------------------------------------
(* The locals after one step: what each action leaves r with.              *)

\* Some sound locals l are what r goes on with.
Leaves(r) == \E l \in Local : LocalSound(l)' /\ req' = [req EXCEPT ![r] = l]

LEMMA DoneLeaves ==
  ASSUME IInv, NEW r \in Requests, Done(r)
  PROVE  Leaves(r)
<1> DEFINE l == [Fresh EXCEPT !.pc = "done"]
<1>1. l \in Local /\ LocalSound(l)'
  BY FreshSound DEF Fresh, Local, LocalSound
<1>2. QED
  BY <1>1 DEF Done, Leaves

\* Going to a place where the locals need not be sound of anything.
Free == {"upload", "count", "trial", "recharge"}
LEMMA GotoLeaves ==
  ASSUME IInv, NEW r \in Requests, NEW pc \in Free, Goto(r, pc)
  PROVE  Leaves(r)
<1>1. req[r] \in Local
  BY LocalFields
<1>2. PICK l \in Local : l = [req[r] EXCEPT !.pc = pc]
  BY <1>1 DEF Local, Free
<1>3. l.pc = pc /\ req' = [req EXCEPT ![r] = l]
  BY <1>1, <1>2 DEF Goto, Local
<1>4. LocalSound(l)'
  BY <1>3 DEF LocalSound, Free
<1>5. QED
  BY <1>3, <1>4 DEF Leaves

\* What getActiveSubscription gives its caller: the row it read or advanced.
LEMMA HoldLeaves ==
  ASSUME IInv, NEW r \in Requests, NEW l \in Local, Hold(r, l),
         l.pc # "done" => LocalSound(l)'
  PROVE  Leaves(r)
BY DoneLeaves DEF Hold, Leaves

LEMMA ResumedType ==
  ASSUME NEW kind, NEW row
  PROVE  Resumed(kind, row) \in {"upload", "debit", "done"}
BY DEF Resumed

LEMMA ReadLeaves ==
  ASSUME IInv, NEW r \in Requests, ReadSubscription(r)
  PROVE  Leaves(r)
<1>1. PICK kind \in Kinds :
        LET row == subs[Current]
            pc  == IF ~Over(row) THEN Resumed(kind, row)
                   ELSE IF row.status = "GRACE" THEN "purge" ELSE "patch"
        IN  Hold(r, [Fresh EXCEPT !.kind = kind, !.pc = pc, !.id = Current, !.seen = <<row>>,
                                  !.days = IF pc = "patch" THEN settings.graceDays ELSE 0])
  BY DEF ReadSubscription, Kinds
<1> DEFINE row == subs[Current]
           pc  == IF ~Over(row) THEN Resumed(kind, row)
                  ELSE IF row.status = "GRACE" THEN "purge" ELSE "patch"
           days == IF pc = "patch" THEN settings.graceDays ELSE 0
           new == [Fresh EXCEPT !.kind = kind, !.pc = pc, !.id = Current, !.seen = <<row>>,
                                !.days = days]
<1>2. Current \in Nat /\ Current \in DOMAIN subs /\ row \in Row
  BY CurrentRow DEF ReadSubscription, IInv
<1>3. /\ new \in Local /\ new.pc = pc /\ new.id = Current /\ new.seen = <<row>> /\ new.days = days
      /\ pc \in {"purge", "patch", "upload", "debit", "done"}
  <2>1. pc \in {"purge", "patch", "upload", "debit", "done"}
    BY ResumedType
  <2>2. <<row>> \in Seq(Row)
    BY <1>2
  <2>3. days \in Nat
    BY SettingsAssumption DEF IInv, RestInv
  <2> HIDE DEF row, pc, days
  <2>4. QED
    BY <1>2, <2>1, <2>2, <2>3, FreshSound DEF Fresh, Local, Kinds
<1>4. UNCHANGED <<subs, balance, today, shortest>>
  BY DEF ReadSubscription
<1>5. LocalSound(new)
  <2>1. pc \in {"purge", "patch"} => Over(row)
    BY ResumedType
  <2>2. pc = "purge" => row.status = "GRACE"
    BY ResumedType
  <2>3. row.status = "GRACE" =>
          row.grace # Never /\ row.expires # Never /\ row.expires + shortest <= row.grace
    BY <1>2 DEF IInv, RowsInv, GraceSound
  <2>4. pc = "patch" => row.status # "GRACE" /\ shortest <= days
    BY ResumedType DEF IInv, RestInv
  <2>5. Len(<<row>>) = 1 /\ <<row>>[1] = row
    OBVIOUS
  <2> HIDE DEF row, pc, days, new
  <2>6. QED
    BY <1>2, <1>3, <2>1, <2>2, <2>3, <2>4, <2>5 DEF LocalSound, row
<1>6. PICK l \in Local : l = new
  BY <1>3
<1>7. LocalSound(l)'
  <2>1. LocalSound(l)
    BY <1>5, <1>6 DEF LocalSound
  <2>2. QED
    BY <1>4, <2>1 DEF LocalSound, Over
<1>8. QED
  BY <1>1, <1>6, <1>7, HoldLeaves

LEMMA PurgeLeaves ==
  ASSUME IInv, NEW r \in Requests, PurgeContent(r)
  PROVE  Leaves(r)
<1>1. req[r] \in Local /\ req[r].pc = "purge" /\ LocalSound(req[r])
  BY LocalFields DEF PurgeContent
<1>2. PICK l \in Local : l = [req[r] EXCEPT !.pc = "patch"]
  BY <1>1 DEF Local
<1>3. /\ l.pc = "patch" /\ l.id = req[r].id /\ l.seen = req[r].seen
      /\ req' = [req EXCEPT ![r] = l] /\ UNCHANGED <<subs, today, shortest>>
  BY <1>1, <1>2 DEF PurgeContent, Goto, Local
<1>4. LocalSound(l)'
  BY <1>1, <1>3 DEF LocalSound, Over
<1>5. QED
  BY <1>3, <1>4 DEF Leaves

LEMMA PatchLeaves ==
  ASSUME IInv, NEW r \in Requests, PatchRow(r)
  PROVE  Leaves(r)
<1> DEFINE row == Advanced(subs[req[r].id], req[r].seen[1], req[r].days)
           pc == Resumed(req[r].kind, row)
<1>1. req[r] \in Local /\ row \in Row /\ pc \in {"upload", "debit", "done"}
  BY LocalFields, AdvancedRow, ResumedType DEF PatchRow
<1>2. Hold(r, [req[r] EXCEPT !.pc = pc, !.seen = <<row>>, !.days = 0])
  BY DEF PatchRow
<1> HIDE DEF row, pc
<1>3. PICK l \in Local : l = [req[r] EXCEPT !.pc = pc, !.seen = <<row>>, !.days = 0]
  <2>1. <<row>> \in Seq(Row)
    BY <1>1
  <2>2. QED
    BY <1>1, <2>1 DEF Local
<1>4. l.pc \in {"upload", "debit", "done"} /\ l.seen = <<row>> /\ Len(l.seen) = 1
  BY <1>1, <1>3 DEF Local
<1>5. LocalSound(l)'
  BY <1>4 DEF LocalSound
<1>6. QED
  BY <1>2, <1>3, <1>5, HoldLeaves

LEMMA AddPhotoLeaves ==
  ASSUME IInv, NEW r \in Requests, AddPhoto(r)
  PROVE  Leaves(r)
<1>1. CASE Done(r)
  BY <1>1, DoneLeaves
<1>2. CASE req' = [req EXCEPT ![r].pc = "count", ![r].count = @ + 1]
  <2>1. req[r] \in Local /\ req[r].count + 1 \in Nat
    BY LocalFields
  <2>2. PICK l \in Local : l = [req[r] EXCEPT !.pc = "count", !.count = @ + 1]
    BY <2>1 DEF Local
  <2>3. l.pc = "count" /\ req' = [req EXCEPT ![r] = l]
    BY <1>2, <2>1, <2>2 DEF Local, IInv, LocalsInv
  <2>4. QED
    BY <2>3 DEF Leaves, LocalSound
<1>3. QED
  BY <1>1, <1>2 DEF AddPhoto

LEMMA SwapCheckLeaves ==
  ASSUME IInv, NEW r \in Requests, SwapCheckPrice(r)
  PROVE  Leaves(r)
<1>1. PICK p \in Plans : req' = [req EXCEPT ![r].pc = "swapRead", ![r].plan = p]
  BY DEF SwapCheckPrice
<1>2. req[r] \in Local
  BY LocalFields
<1>3. PICK l \in Local : l = [req[r] EXCEPT !.pc = "swapRead", !.plan = p]
  BY <1>2 DEF Local
<1>4. l.pc = "swapRead" /\ l.plan = p /\ req' = [req EXCEPT ![r] = l]
  BY <1>1, <1>2, <1>3 DEF Local, IInv, LocalsInv
<1>5. QED
  BY <1>4 DEF Leaves, LocalSound

LEMMA SwapReadLeaves ==
  ASSUME IInv, NEW r \in Requests, SwapRead(r)
  PROVE  Leaves(r)
<1>1. CASE Done(r)
  BY <1>1, DoneLeaves
<1>2. CASE /\ SwapAllowed(Current, req[r].plan)
           /\ req' = [req EXCEPT ![r].pc = "swapTx", ![r].id = Current, ![r].seen = Found(Current)]
  <2>1. /\ req[r] \in Local /\ req[r].plan \in Plans
    BY LocalFields DEF SwapRead, LocalSound
  <2>2. /\ Current \in Nat /\ Found(Current) \in Seq(Row) /\ Len(Found(Current)) = 1
        /\ Found(Current)[1].status \in {"TRIAL", "ACTIVE"}
    BY <1>2, CurrentRow DEF SwapAllowed, IInv
  <2>3. PICK l \in Local : l = [req[r] EXCEPT !.pc = "swapTx", !.id = Current, !.seen = Found(Current)]
    BY <2>1, <2>2 DEF Local
  <2>4. /\ l.pc = "swapTx" /\ l.seen = Found(Current) /\ l.plan = req[r].plan
        /\ req' = [req EXCEPT ![r] = l]
    BY ZenonT(40), <1>2, <2>1, <2>3 DEF Local, IInv, LocalsInv
  <2>5. LocalSound(l)'
    BY <2>1, <2>2, <2>4 DEF LocalSound
  <2>6. QED
    BY <2>4, <2>5 DEF Leaves
<1>3. QED
  BY <1>1, <1>2 DEF SwapRead

LEMMA AssignReadLeaves ==
  ASSUME IInv, NEW r \in Requests, AssignRead(r)
  PROVE  Leaves(r)
<1>1. PICK p \in Plans : req' = [req EXCEPT ![r].pc = "assignTx", ![r].plan = p, ![r].seen = Found(Current)]
  BY DEF AssignRead
<1>2. req[r] \in Local /\ Found(Current) \in Seq(Row)
  BY LocalFields, CurrentRow DEF IInv
<1>3. PICK l \in Local : l = [req[r] EXCEPT !.pc = "assignTx", !.plan = p, !.seen = Found(Current)]
  BY <1>2 DEF Local
<1>4. l.pc = "assignTx" /\ l.plan = p /\ req' = [req EXCEPT ![r] = l]
  BY ZenonT(40), <1>1, <1>2, <1>3 DEF Local, IInv, LocalsInv
<1>5. QED
  BY <1>4 DEF Leaves, LocalSound

LEMMA DebitCheckLeaves ==
  ASSUME IInv, NEW r \in Requests, DebitCheck(r)
  PROVE  Leaves(r)
<1>1. CASE Done(r)
  BY <1>1, DoneLeaves
<1>2. CASE /\ ~(balance = NoWallet \/ balance < Cost(r))
           /\ req' = [req EXCEPT ![r].pc = "debitTx", ![r].count = balance]
  <2>1. /\ req[r] \in Local /\ Len(req[r].seen) = 1 /\ req[r].seen[1] \in Row
    BY LocalFields DEF DebitCheck, LocalSound
  <2>2. balance \in Nat
    BY <1>2, <2>1, CostType DEF Cost, IInv, WalletInv
  <2>3. PICK l \in Local : l = [req[r] EXCEPT !.pc = "debitTx", !.count = balance]
    BY <2>1, <2>2 DEF Local
  <2>4. /\ l.pc = "debitTx" /\ l.seen = req[r].seen /\ req' = [req EXCEPT ![r] = l]
    BY <1>2, <2>1, <2>3 DEF Local, IInv, LocalsInv
  <2>5. balance' = balance
    BY DEF DebitCheck
  <2>6. QED
    BY <1>2, <2>1, <2>4, <2>5 DEF Leaves, LocalSound
<1>3. QED
  BY <1>1, <1>2 DEF DebitCheck

\* A request that is served goes on with sound locals.
LEMMA StepLeaves ==
  ASSUME IInv, NEW r \in Requests,
         Lifecycle(r) \/ Upload(r) \/ ChangePlan(r) \/ Administer(r) \/ Wallet(r)
  PROVE  Leaves(r)
<1>1. ASSUME Done(r) PROVE Leaves(r)
  BY <1>1, DoneLeaves
<1>2. ASSUME NEW pc \in Free, Goto(r, pc) PROVE Leaves(r)
  BY <1>2, GotoLeaves
<1>3. CASE Lifecycle(r)
  BY <1>3, ReadLeaves, PurgeLeaves, PatchLeaves DEF Lifecycle
<1>4. CASE Upload(r)
  BY <1>1, <1>2, <1>4, AddPhotoLeaves DEF Upload, UploadFreely, ConsumeQuota, EndUpload, Free
<1>5. CASE ChangePlan(r)
  BY <1>1, <1>2, <1>5, SwapCheckLeaves, SwapReadLeaves
     DEF ChangePlan, TrialCheck, TrialCreate, Subscribe, SwapCreate, Free
<1>6. CASE Administer(r)
  BY <1>1, <1>6, AssignReadLeaves DEF Administer, GrantFree, RevokeFree, AssignCreate
<1>7. CASE Wallet(r)
  BY <1>1, <1>2, <1>7, DebitCheckLeaves DEF Wallet, RechargeCheck, Recharge, Debit, Free
<1>8. QED
  BY <1>3, <1>4, <1>5, <1>6, <1>7

\* No action of a request moves the clock.
LEMMA StepKeeps ==
  ASSUME IInv, NEW r \in Requests,
         Lifecycle(r) \/ Upload(r) \/ ChangePlan(r) \/ Administer(r) \/ Wallet(r)
  PROVE  /\ today' = today /\ RestInv'
         /\ req[r].pc # "purge" => events' = events
<1>1. CASE Lifecycle(r)
  BY <1>1 DEF Lifecycle, ReadSubscription, PurgeContent, PatchRow, IInv, RestInv
<1>2. CASE Upload(r)
  BY <1>2 DEF Upload, UploadFreely, AddPhoto, ConsumeQuota, EndUpload, IInv, RestInv
<1>3. CASE ChangePlan(r)
  BY <1>3 DEF ChangePlan, TrialCheck, TrialCreate, Subscribe, SwapCheckPrice, SwapRead, SwapCreate,
              IInv, RestInv
<1>4. CASE Administer(r)
  BY <1>4 DEF Administer, GrantFree, RevokeFree, AssignRead, AssignCreate, IInv, RestInv
<1>5. CASE Wallet(r)
  BY <1>5 DEF Wallet, RechargeCheck, Recharge, DebitCheck, Debit, IInv, RestInv
<1>6. QED
  BY <1>1, <1>2, <1>3, <1>4, <1>5

LEMMA SameLocals ==
  ASSUME IInv, Evolves, Shrinks, today' \in Nat, today <= today', UNCHANGED req,
         balance # NoWallet => balance' # NoWallet
  PROVE  LocalsInv'
<1>1. \A k \in Local : LocalSound(k) => LocalSound(k)'
  BY SoundStays
<1>2. ASSUME NEW s \in Requests PROVE LocalSound(req[s])'
  <2>1. PICK k \in Local : k = req[s] /\ k = req'[s] /\ LocalSound(k)'
    BY <1>1 DEF IInv, LocalsInv
  <2>2. QED
    BY <2>1 DEF LocalSound
<1>3. QED
  BY <1>2 DEF IInv, LocalsInv

-----------------------------------------------------------------------------
(* The theorems.                                                           *)

LEMMA Start == Init => IInv
<1> SUFFICES ASSUME Init PROVE IInv
  OBVIOUS
<1>1. subs = <<>> /\ subs \in Seq(Row) /\ Len(subs) = 0 /\ DOMAIN subs = {}
  BY EmptySeq DEF Init
<1>2. RowsInv
  BY <1>1, NumbersAssumption, SettingsAssumption DEF Init, RowsInv, OneActive, ActiveIds, GraceSound
<1>3. LocalsInv
  BY FreshSound DEF Init, LocalsInv
<1>4. WalletInv
  BY EmptySeq DEF Init, WalletInv, LedgerAddsUp
<1>5. RestInv
  BY NumbersAssumption, SettingsAssumption DEF Init, RestInv
<1>6. QED
  BY <1>2, <1>3, <1>4, <1>5 DEF IInv

LEMMA Step == ASSUME IInv, [Next]_vars PROVE IInv'
<1>1. RowsInv' /\ Evolves
  BY RowsNext DEF RowsGood
<1>2. WalletInv' /\ (balance # NoWallet => balance' # NoWallet)
  BY WalletNext
<1>3. today \in Nat /\ MaxDay \in Nat /\ Shrinks
  BY NumbersAssumption, ShortestShrinks DEF IInv, RestInv
<1>4. ASSUME NEW r \in Requests,
             Lifecycle(r) \/ Upload(r) \/ ChangePlan(r) \/ Administer(r) \/ Wallet(r)
      PROVE  LocalsInv' /\ RestInv'
  <2>1. PICK l \in Local : LocalSound(l)' /\ req' = [req EXCEPT ![r] = l]
    BY <1>4, StepLeaves DEF Leaves
  <2>2. today' = today /\ RestInv'
    BY <1>4, StepKeeps
  <2>3. today' \in Nat /\ today <= today'
    BY <1>3, <2>2
  <2>4. LocalsInv'
    BY <1>1, <1>2, <1>3, <2>1, <2>3, LocalsStep
  <2>5. QED
    BY <2>2, <2>4
<1>5. CASE ChangeSettings \/ Tick \/ UNCHANGED vars
  <2>1. UNCHANGED req /\ today' \in Nat /\ today <= today' /\ RestInv'
    <3>1. CASE ChangeSettings
      <4>1. /\ UNCHANGED <<req, today, events>> /\ settings' \in Settings
            /\ shortest' = IF settings'.graceDays < shortest THEN settings'.graceDays ELSE shortest
        BY <3>1 DEF ChangeSettings
      <4>2. settings'.graceDays \in Nat /\ shortest \in Nat
        BY <4>1, SettingsAssumption DEF IInv, RowsInv
      <4>3. shortest' <= settings'.graceDays
        BY <4>1, <4>2
      <4>4. QED
        BY <1>3, <4>1, <4>3 DEF IInv, RestInv
    <3>2. CASE Tick
      BY <1>3, <3>2 DEF Tick, IInv, RestInv
    <3>3. CASE UNCHANGED vars
      BY <1>3, <3>3 DEF vars, IInv, RestInv
    <3>4. QED
      BY <1>5, <3>1, <3>2, <3>3
  <2>2. QED
    BY <1>1, <1>2, <1>3, <2>1, SameLocals DEF IInv
<1>6. LocalsInv' /\ RestInv'
  <2>1. \/ \E r \in Requests :
            Lifecycle(r) \/ Upload(r) \/ ChangePlan(r) \/ Administer(r) \/ Wallet(r)
        \/ ChangeSettings \/ Tick \/ UNCHANGED vars
    BY Zenon DEF Next
  <2>2. CASE \E r \in Requests :
               Lifecycle(r) \/ Upload(r) \/ ChangePlan(r) \/ Administer(r) \/ Wallet(r)
    BY <2>2, <1>4, Zenon
  <2>3. QED
    BY <2>1, <2>2, <1>5, Zenon DEF IInv
<1>7. QED
  BY <1>1, <1>2, <1>6 DEF IInv

LEMMA Purges == ASSUME IInv, [Next]_vars PROVE PurgesWhenDue
<1> SUFFICES ASSUME events, ~events'
             PROVE  \E i \in DOMAIN subs : UsedUp(subs[i])
  BY DEF PurgesWhenDue
<1>1. PICK r \in Requests : req[r].pc = "purge"
  BY StepKeeps DEF Next, ChangeSettings, Tick, vars
<1>2. /\ req[r].id \in DOMAIN subs /\ req[r].seen[1].status = "GRACE" /\ Over(req[r].seen[1])
      /\ req[r].seen[1] \in Row /\ req[r].seen[1].expires = subs[req[r].id].expires
      /\ req[r].seen[1].expires # Never
      /\ req[r].seen[1].expires + shortest <= req[r].seen[1].grace
  BY <1>1, LocalFields DEF LocalSound
<1>3. shortest \in Nat /\ today \in Nat
  BY NumbersAssumption DEF IInv, RowsInv, RestInv
<1>4. QED
  BY <1>2, <1>3, RowFields DEF Over, UsedUp, Never

\* The rows and the locals are well typed, and a studio has at most one active
\* subscription, however requests that read one row and write another interleave.
THEOREM SubscriptionsHold == Spec => []SubscriptionInv
<1>1. IInv => SubscriptionInv
  BY DEF IInv, RowsInv, LocalsInv, WalletInv, RestInv, SubscriptionInv, TypeOK
<1>2. QED
  BY Start, Step, <1>1, PTL DEF Spec

\* The ledger adds up to the balance, however recharges and debits interleave
\* (rechargeWallet, deductAiCredits), below zero too.
THEOREM WalletAddsUp == Spec => []LedgerAddsUp
<1>1. IInv => LedgerAddsUp
  BY DEF IInv, WalletInv
<1>2. QED
  BY Start, Step, <1>1, PTL DEF Spec

\* No stale read expires the row a studio has moved to, and content goes only
\* when a subscription has used up its period and the shortest grace the
\* settings have had, however the administrator changes them meanwhile.
THEOREM LapsesWhenDue == Spec => LapsesOnlyWhenDue
<1>1. IInv /\ [Next]_vars => [ExpiresWhenDue /\ PurgesWhenDue]_vars
  BY RowsNext, Purges DEF RowsGood
<1>2. Spec => [][ExpiresWhenDue /\ PurgesWhenDue]_vars
  BY Start, Step, <1>1, PTL DEF Spec
<1>3. QED
  BY <1>2, PTL DEF LapsesOnlyWhenDue, ExpiresWhenDue, PurgesWhenDue

=============================================================================
