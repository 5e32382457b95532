------------------------------ MODULE StudioDesk ------------------------------
(***************************************************************************)
(* The papers of one studio: quotations, the bills they are confirmed to   *)
(* and the payments on them; an inquiry and its conversion into an event,  *)
(* an invite and a booking; contracts and questionnaires for its clients.  *)
(*                                                                         *)
(* Amounts are counted in Epsilon, one hundredth.  A list of items is a    *)
(* set of lines, each with the request that wrote it.  A transaction is    *)
(* one step, except that the lines an edit deletes are those it saw.  A    *)
(* read that a constraint of the database repeats is one step with its     *)
(* write.  A request may break off after any step: an error or a restart.  *)
(***************************************************************************)
EXTENDS Integers, FiniteSets, FiniteSetsExt

CONSTANTS
  Requests,     \* requests that may be in flight together
  Quotes,       \* slots for quotations, each with its bill, if any
  Events, Desk, \* slots for events; Desk is there from the start
  NoQuote, NoEvent,
  Prices, Discounts, Amounts,  \* of a line, of a document, of a payment
  Names, Questions,
  Budgets       \* how many requests of each area a behaviour may have (bound)

Areas == {"billing", "sales", "papers"}
ASSUME SlotsAssumption ==
  /\ NoQuote \notin Quotes /\ NoEvent \notin Events /\ Desk \in Events
  /\ Budgets \subseteq [Areas -> Nat]

VARIABLES
  client,   \* the User row a quotation is made out to: "none", "USER" or "staff"
  quote,    \* quote[q]: the Quotation row and its lines; raced is history
  bill,     \* bill[q]: the Bill row of q, its lines and payments; raced is history
  next,     \* TenantBillingSettings: the next number of each kind
  inquiry,  \* the BookingInquiry row; raced, loose are history
  event,    \* event[e]: "none", "open" or "gone"; and its client invite
  booking,  \* the Booking rows
  template, \* the contract template: its row and its file
  contract, \* the ClientContract row
  form,     \* the Questionnaire row
  sheet,    \* its QuestionnaireAssignment and its response
  req, left

billing == <<client, quote, bill, next>>
sales == <<inquiry, event, booking>>
papers == <<template, contract, form, sheet>>
vars == <<billing, sales, papers, req, left>>

Epsilon == 1
NoQuotation == [st |-> "none", no |-> 0, items |-> {}, discount |-> 0, raced |-> FALSE]
NoBill == [st |-> "none", no |-> 0, items |-> {}, discount |-> 0, payments |-> {}, raced |-> FALSE]
Idle == [pc |-> "idle", q |-> NoQuote, items |-> {}, keep |-> FALSE, discount |-> 0, seen |-> {},
         amount |-> 0, paid |-> 0, e |-> NoEvent, on |-> FALSE, name |-> "none", answers |-> {},
         overtaken |-> FALSE]

Init ==
  /\ client \in {"none", "staff"} /\ quote = [q \in Quotes |-> NoQuotation]
  /\ bill = [q \in Quotes |-> NoBill] /\ next = [quotation |-> 1, bill |-> 1, receipt |-> 1]
  /\ inquiry = [st |-> "none", event |-> NoEvent, raced |-> FALSE, loose |-> FALSE]
  /\ event = [e \in Events |-> [st |-> IF e = Desk THEN "open" ELSE "none", invite |-> FALSE]]
  /\ booking = {} /\ template = [row |-> "none", file |-> FALSE]
  /\ contract = [st |-> "none", name |-> "none", template |-> FALSE]
  /\ form = [st |-> "none", active |-> TRUE, questions |-> {}]
  /\ sheet = [st |-> "none", answers |-> {}]
  /\ req = [r \in Requests |-> Idle] /\ left \in Budgets

-----------------------------------------------------------------------------
(* The shape of a request.                                                 *)

Some(S) == CHOOSE x \in S : TRUE
Count(area) == left[area] > 0 /\ left' = [left EXCEPT ![area] = @ - 1]
Begin(r, area, new) ==
  /\ Count(area) /\ req[r].pc = "idle" /\ req' = [req EXCEPT ![r] = new]
  /\ UNCHANGED <<billing, sales, papers>>
\* The requests that wait to write after they read q, the bill, the inquiry and so on.
At(pcs) == {r \in Requests : req[r].pc \in pcs}
Readers(q) == {r \in At({"clear", "patch", "delete", "confirm"}) : req[r].q = q}
Payers(q) == {r \in At({"pay"}) : req[r].q = q}
Overtake(readers) ==
  [r \in Requests |-> IF r \in readers THEN [req[r] EXCEPT !.overtaken = TRUE] ELSE req[r]]
\* r has written what the readers had read, and goes on.
Write(r, readers, pc) ==
  /\ req' = [Overtake(readers \ {r}) EXCEPT ![r] = IF pc = "idle" THEN Idle ELSE [@ EXCEPT !.pc = pc]]
  /\ UNCHANGED left
End(r) == req' = [req EXCEPT ![r] = Idle] /\ UNCHANGED <<billing, sales, papers, left>>
\* A write in one statement: of no request in flight, but it overtakes those.
Once(area, readers) == Count(area) /\ req' = Overtake(readers)

-----------------------------------------------------------------------------
(* Quotations, bills and payments.                                         *)

\* Every item has a price; the discount of a document never makes it negative.
Payable(items, discount) ==
  Max({0, MapThenSumSet(LAMBDA i : i.price, items) - discount})
Paid(payments) == MapThenSumSet(LAMBDA p : p.amount, payments)
\* At most one line is enough: none, or one at a price.
Lines(by) == {{}} \cup {{[by |-> by, price |-> p]} : p \in Prices}

StartQuote(r) ==
  \E items \in Lines(left["billing"]), d \in Discounts :
    /\ client # "staff"
    /\ Begin(r, "billing", [Idle EXCEPT !.items = items, !.discount = d,
                              !.pc = IF client = "none" THEN "client" ELSE "quote"])
\* Another request may have created the client: its address is unique.
CreateClient(r) ==
  /\ req[r].pc = "client"
  /\ IF client # "none" THEN End(r)
     ELSE client' = "USER" /\ Write(r, {}, "quote") /\ UNCHANGED <<quote, bill, next, sales, papers>>
Blank == {q \in Quotes : quote[q].st = "none"}
Claim(kind) == [next EXCEPT ![kind] = @ + 1]
CreateQuote(r) ==
  /\ req[r].pc = "quote" /\ Blank # {}
  /\ quote' = [quote EXCEPT ![Some(Blank)] =
       [NoQuotation EXCEPT !.st = "DRAFT", !.no = next.quotation,
          !.items = req[r].items, !.discount = req[r].discount]]
  /\ next' = Claim("quotation") /\ Write(r, {}, "idle") /\ UNCHANGED <<client, bill, sales, papers>>

\* Items, the discount or both are given; a list of no items too.
Same == -1
StartPatch(r) ==
  \E q \in Quotes, keep \in BOOLEAN, items \in Lines(left["billing"]), d \in Discounts \cup {Same} :
    /\ quote[q].st = "DRAFT" /\ (keep => items = {})
    /\ Begin(r, "billing", [Idle EXCEPT !.pc = IF keep THEN "patch" ELSE "clear", !.q = q,
                              !.keep = keep, !.items = items, !.discount = d])
ClearItems(r) ==
  /\ req[r].pc = "clear" /\ req' = [req EXCEPT ![r].pc = "patch", ![r].seen = quote[req[r].q].items]
  /\ UNCHANGED <<billing, sales, papers, left>>
SavePatch(r) ==
  LET q == req[r].q
  IN /\ req[r].pc = "patch"
     /\ IF quote[q].st = "gone" THEN End(r)
        ELSE /\ quote' = [quote EXCEPT
                  ![q].items = IF req[r].keep THEN @ ELSE (@ \ req[r].seen) \cup req[r].items,
                  ![q].discount = IF req[r].discount = Same THEN @ ELSE req[r].discount,
                  ![q].raced = @ \/ req[r].overtaken]
             /\ Write(r, Readers(q), "idle") /\ UNCHANGED <<client, bill, next, sales, papers>>

StartDelete(r) ==
  \E q \in Quotes : quote[q].st = "DRAFT" /\ Begin(r, "billing", [Idle EXCEPT !.pc = "delete", !.q = q])
\* Mutant: the bill does not keep its quotation.
DeleteRefused_Never(q) == quote[q].st = "gone"
\* A bill names its quotation: the database refuses.
DeleteRefused(q) == quote[q].st = "gone" \/ bill[q].st # "none"
DeleteQuote(r) ==
  LET q == req[r].q
  IN /\ req[r].pc = "delete"
     /\ IF DeleteRefused(q) THEN End(r)
        ELSE /\ quote' = [quote EXCEPT ![q] = [NoQuotation EXCEPT !.st = "gone", !.no = quote[q].no]]
             /\ Write(r, Readers(q), "idle") /\ UNCHANGED <<client, bill, next, sales, papers>>

\* The bill will have the items and the discount read here.
StartConfirm(r) ==
  \E q \in Quotes :
    /\ quote[q].st = "DRAFT" /\ bill[q].st = "none" /\ quote[q].items # {}
    /\ Begin(r, "billing", [Idle EXCEPT !.pc = "confirm", !.q = q, !.items = quote[q].items,
                              !.discount = quote[q].discount])
\* A second bill, or the bill of a quotation that has gone, is refused; the number with it.
Confirm(r) ==
  LET q == req[r].q
  IN /\ req[r].pc = "confirm"
     /\ IF quote[q].st = "gone" \/ bill[q].st # "none" THEN End(r)
        ELSE /\ bill' = [bill EXCEPT ![q] = [NoBill EXCEPT !.st = "UNPAID", !.no = next.bill,
                                               !.items = req[r].items, !.discount = req[r].discount]]
             /\ quote' = [quote EXCEPT ![q].st = "CONFIRMED", ![q].raced = @ \/ req[r].overtaken]
             /\ next' = Claim("bill") /\ Write(r, Readers(q), "idle")
             /\ UNCHANGED <<client, sales, papers>>

\* Mutant: a payment is held against the bill, not against what is left of it.
MayPay_Full(b, amount) ==
  /\ b.st \in {"UNPAID", "PARTIALLY_PAID"}
  /\ amount <= Payable(b.items, b.discount) + Epsilon
MayPay(b, amount) ==
  /\ b.st \in {"UNPAID", "PARTIALLY_PAID"}
  /\ amount <= Payable(b.items, b.discount) - Paid(b.payments) + Epsilon
StartPay(r) ==
  \E q \in Quotes, a \in Amounts :
    /\ MayPay(bill[q], a)
    /\ Begin(r, "billing",
         [Idle EXCEPT !.pc = "pay", !.q = q, !.amount = a, !.paid = Paid(bill[q].payments)])
\* The status follows from the payments read before the transaction.
PaidStatus(b, total) ==
  IF total >= Payable(b.items, b.discount) - Epsilon THEN "PAID" ELSE "PARTIALLY_PAID"
Pay(r) ==
  LET q == req[r].q
  IN /\ req[r].pc = "pay"
     /\ bill' = [bill EXCEPT
          ![q].payments = @ \cup {[no |-> next.receipt, amount |-> req[r].amount]},
          ![q].st = PaidStatus(bill[q], req[r].paid + req[r].amount),
          ![q].raced = @ \/ req[r].overtaken]
     /\ next' = Claim("receipt") /\ Write(r, Payers(q), "idle")
     /\ UNCHANGED <<client, quote, sales, papers>>

-----------------------------------------------------------------------------
(* The inquiry and its conversion.                                         *)

Inquire ==
  /\ inquiry.st = "none" /\ inquiry' = [inquiry EXCEPT !.st = "new"]
  /\ Once("sales", {}) /\ UNCHANGED <<billing, event, booking, papers>>
\* Any status may be set by hand, "converted" too.
SetStatus ==
  \E st \in {"new", "contacted", "converted", "lost"} :
    /\ inquiry.st # "none" /\ inquiry' = [inquiry EXCEPT !.st = st]
    /\ Once("sales", {}) /\ UNCHANGED <<billing, event, booking, papers>>

StartConvert(r) ==
  /\ inquiry.st # "none" /\ inquiry.event = NoEvent
  /\ Begin(r, "sales", [Idle EXCEPT !.pc = "event"])
Converting == {"event", "invite", "book", "mark"}
CreateEvent(r) ==
  \E e \in Events :
    /\ req[r].pc = "event" /\ event[e].st = "none" /\ event' = [event EXCEPT ![e].st = "open"]
    /\ req' = [req EXCEPT ![r].pc = "invite", ![r].e = e]
    /\ UNCHANGED <<billing, inquiry, booking, papers, left>>
\* What is left of a conversion that ends before its time.
Loose(r) == IF req[r].pc \in {"invite", "book", "mark"} THEN [inquiry EXCEPT !.loose = TRUE] ELSE inquiry
Drop(r) ==
  /\ inquiry' = Loose(r) /\ req' = [req EXCEPT ![r] = Idle]
  /\ UNCHANGED <<billing, event, booking, papers, left>>
\* The database refuses a row for an event that has gone.
EventRefused(e) == e # NoEvent /\ event[e].st = "gone"
CreateInvite(r) ==
  /\ req[r].pc = "invite"
  /\ IF EventRefused(req[r].e) THEN Drop(r)
     ELSE /\ event' = [event EXCEPT ![req[r].e].invite = TRUE]
          /\ Write(r, {}, "book") /\ UNCHANGED <<billing, inquiry, booking, papers>>
\* The mail may fail without consequence; the booking names the event.
Book(r) ==
  /\ req[r].pc = "book"
  /\ IF EventRefused(req[r].e) THEN Drop(r)
     ELSE /\ booking' = booking \cup {[of |-> req[r].e, event |-> req[r].e, st |-> "confirmed"]}
          /\ Write(r, {}, "mark") /\ UNCHANGED <<billing, inquiry, event, papers>>
\* Mutant: the inquiry is marked as soon as the event is there.
Marks_Early(r) == req[r].pc \in {"invite", "mark"}
Marks(r) == req[r].pc = "mark"
Mark(r) ==
  /\ Marks(r)
  /\ inquiry' = [inquiry EXCEPT !.st = "converted", !.event = req[r].e, !.raced = @ \/ req[r].overtaken]
  /\ Write(r, At(Converting), "idle") /\ UNCHANGED <<billing, event, booking, papers>>
\* A booking by hand, for an event or none; the event may go before the row is written.
StartBooking(r) ==
  \E e \in {NoEvent} \cup {x \in Events : event[x].st = "open"} :
    Begin(r, "sales", [Idle EXCEPT !.pc = "booking", !.e = e])
Manual == [of |-> NoEvent, event |-> NoEvent, st |-> "inquiry"]
SaveBooking(r) ==
  /\ req[r].pc = "booking"
  /\ IF EventRefused(req[r].e) THEN End(r)
     ELSE /\ booking' = booking \cup {[Manual EXCEPT !.event = req[r].e]}
          /\ Write(r, {}, "idle") /\ UNCHANGED <<billing, inquiry, event, papers>>
\* Status and event of a booking may be changed at will.
EditBooking ==
  \E b \in booking, st \in {"confirmed", "cancelled"}, e \in {NoEvent} \cup {x \in Events : event[x].st = "open"} :
    /\ booking' = (booking \ {b}) \cup {[b EXCEPT !.st = st, !.event = e]}
    /\ Once("sales", {}) /\ UNCHANGED <<billing, inquiry, event, papers>>
\* An event goes with its invites and assignments; its bookings stay without it.
DeleteEvent(area) ==
  \E e \in Events :
    /\ event[e].st = "open" /\ event' = [event EXCEPT ![e] = [st |-> "gone", invite |-> FALSE]]
    /\ booking' = {IF b.event = e THEN [b EXCEPT !.event = NoEvent] ELSE b : b \in booking}
    /\ sheet' = IF e = Desk /\ sheet.st = "open" THEN [st |-> "gone", answers |-> {}] ELSE sheet
    /\ Once(area, {}) /\ UNCHANGED <<billing, inquiry, template, contract, form>>

-----------------------------------------------------------------------------
(* Contracts and questionnaires.                                           *)

SaveTemplateFile(r) ==
  /\ template.row = "none" /\ ~template.file /\ Count("papers") /\ req[r].pc = "idle"
  /\ template' = [template EXCEPT !.file = TRUE] /\ req' = [req EXCEPT ![r].pc = "template"]
  /\ UNCHANGED <<billing, sales, contract, form, sheet>>
CreateTemplate(r) ==
  /\ req[r].pc = "template" /\ template' = [template EXCEPT !.row = "open"]
  /\ Write(r, {}, "idle") /\ UNCHANGED <<billing, sales, contract, form, sheet>>
\* The file goes first, then the row; contracts with it lose it.
UnlinkTemplate(r) ==
  /\ template.row = "open" /\ Count("papers") /\ req[r].pc = "idle"
  /\ template' = [template EXCEPT !.file = FALSE] /\ req' = [req EXCEPT ![r].pc = "untemplate"]
  /\ UNCHANGED <<billing, sales, contract, form, sheet>>
DeleteTemplate(r) ==
  /\ req[r].pc = "untemplate" /\ template' = [template EXCEPT !.row = "gone"]
  /\ contract' = [contract EXCEPT !.template = FALSE]
  /\ Write(r, {}, "idle") /\ UNCHANGED <<billing, sales, form, sheet>>

StartContract(r) ==
  \E on \in BOOLEAN :
    /\ on => template.row = "open"
    /\ Begin(r, "papers", [Idle EXCEPT !.pc = "contract", !.on = on])
SaveContract(r) ==
  /\ req[r].pc = "contract"
  /\ IF contract.st # "none" \/ (req[r].on /\ template.row # "open") THEN End(r)
     ELSE /\ contract' = [st |-> "sent", name |-> "none", template |-> req[r].on]
          /\ Write(r, {}, "idle") /\ UNCHANGED <<billing, sales, template, form, sheet>>
\* A contract is deleted whether signed or not.
DeleteContract ==
  /\ contract.st \in {"sent", "signed"} /\ contract' = [contract EXCEPT !.st = "gone"]
  /\ Once("papers", At({"sign"})) /\ UNCHANGED <<billing, sales, template, form, sheet>>
\* Mutant: a signed contract may be signed again.
Signable_Again == contract.st \in {"sent", "signed"}
Signable == contract.st = "sent"
StartSign(r) ==
  \E n \in Names : Signable /\ Begin(r, "papers", [Idle EXCEPT !.pc = "sign", !.name = n])
Sign(r) ==
  /\ req[r].pc = "sign"
  /\ IF contract.st = "gone" THEN End(r)
     ELSE /\ contract' = [contract EXCEPT !.st = "signed", !.name = req[r].name]
          /\ Write(r, At({"sign"}), "idle") /\ UNCHANGED <<billing, sales, template, form, sheet>>

CreateForm ==
  \E qs \in SUBSET Questions \ {{}} :
    /\ form.st = "none" /\ form' = [st |-> "open", active |-> TRUE, questions |-> qs]
    /\ Once("papers", {}) /\ UNCHANGED <<billing, sales, template, contract, sheet>>
\* Questions may be replaced after they were answered; the answers stay.
EditForm ==
  \E qs \in SUBSET Questions \ {{}}, active \in BOOLEAN :
    /\ form.st = "open" /\ form' = [form EXCEPT !.active = active, !.questions = qs]
    /\ Once("papers", At({"answer"})) /\ UNCHANGED <<billing, sales, template, contract, sheet>>
DeleteForm ==
  /\ form.st = "open" /\ form' = [form EXCEPT !.st = "gone"]
  /\ sheet' = IF sheet.st = "open" THEN [st |-> "gone", answers |-> {}] ELSE sheet
  /\ Once("papers", At({"answer"})) /\ UNCHANGED <<billing, sales, template, contract>>
Assign ==
  /\ form.st = "open" /\ event[Desk].st = "open" /\ sheet.st = "none"
  /\ sheet' = [sheet EXCEPT !.st = "open"]
  /\ Once("papers", {}) /\ UNCHANGED <<billing, sales, template, contract, form>>
Answerable(answers) == sheet.st = "open" /\ form.active /\ answers \subseteq form.questions
StartAnswer(r) ==
  \E answers \in SUBSET Questions :
    Answerable(answers) /\ Begin(r, "papers", [Idle EXCEPT !.pc = "answer", !.answers = answers])
Answer(r) ==
  /\ req[r].pc = "answer"
  /\ IF sheet.st = "gone" THEN End(r)
     ELSE /\ sheet' = [sheet EXCEPT !.answers = req[r].answers]
          /\ Write(r, {}, "idle") /\ UNCHANGED <<billing, sales, template, contract, form>>

-----------------------------------------------------------------------------
BreakOff(r) == req[r].pc # "idle" /\ Drop(r)

BillingStep(r) ==
  \/ StartQuote(r) \/ CreateClient(r) \/ CreateQuote(r)
  \/ StartPatch(r) \/ ClearItems(r) \/ SavePatch(r) \/ StartDelete(r) \/ DeleteQuote(r)
  \/ StartConfirm(r) \/ Confirm(r) \/ StartPay(r) \/ Pay(r)
SalesStep(r) ==
  \/ StartConvert(r) \/ CreateEvent(r) \/ CreateInvite(r) \/ Book(r) \/ Mark(r)
  \/ StartBooking(r) \/ SaveBooking(r)
PapersStep(r) ==
  \/ SaveTemplateFile(r) \/ CreateTemplate(r) \/ UnlinkTemplate(r) \/ DeleteTemplate(r)
  \/ StartContract(r) \/ SaveContract(r) \/ StartSign(r) \/ Sign(r)
  \/ StartAnswer(r) \/ Answer(r)
OneStatement ==
  \/ Inquire \/ SetStatus \/ EditBooking \/ DeleteEvent("sales") \/ DeleteEvent("papers")
  \/ DeleteContract \/ CreateForm \/ EditForm \/ DeleteForm \/ Assign
Next ==
  \/ \E r \in Requests : BillingStep(r) \/ SalesStep(r) \/ PapersStep(r) \/ BreakOff(r)
  \/ OneStatement
Spec == Init /\ [][Next]_vars

-----------------------------------------------------------------------------
(* Properties.                                                             *)

Line == [by : Nat, price : Prices]
\* Types: rows are of the shapes the schema gives them.
TypeOK ==
  /\ client \in {"none", "USER", "staff"}
  /\ quote \in [Quotes -> [st : {"none", "DRAFT", "CONFIRMED", "gone"}, no : Nat, items : SUBSET Line,
                           discount : Discounts \cup {0}, raced : BOOLEAN]]
  /\ \A q \in Quotes :
       /\ bill[q].st \in {"none", "UNPAID", "PARTIALLY_PAID", "PAID"} /\ bill[q].no \in Nat
       /\ bill[q].items \subseteq Line /\ bill[q].payments \subseteq [no : Nat, amount : Amounts]
  /\ \A k \in DOMAIN next : next[k] \in Nat \ {0}
  /\ inquiry.st \in {"none", "new", "contacted", "converted", "lost"}
  /\ inquiry.event \in Events \cup {NoEvent}
  /\ \A e \in Events : event[e].st \in {"none", "open", "gone"}
  /\ \A b \in booking : b.event = NoEvent \/ event[b.event].st = "open"
  /\ template.row \in {"none", "open", "gone"} /\ (contract.template => template.row = "open")
  /\ contract.name \in Names \cup {"none"} /\ sheet.answers \subseteq Questions
  /\ sheet.st = "open" => form.st = "open" /\ event[Desk].st = "open"

\* A quotation is confirmed exactly when it has its one bill, which nothing
\* removes.  The bill has the lines and the discount of the quotation, and
\* these are of a single request, unless two requests overlapped on it:
\* PATCH, DELETE and confirm decide on a row read before their transaction.
BillsAsQuoted ==
  \A q \in Quotes :
    /\ quote[q].st = "CONFIRMED" <=> bill[q].st # "none"
    /\ ~quote[q].raced =>
         /\ Cardinality(quote[q].items) <= 1
         /\ bill[q].st # "none" =>
              bill[q].items = quote[q].items /\ bill[q].discount = quote[q].discount

\* Every number of a quotation, a bill and a receipt is given once and none is
\* left out, whatever overlaps or breaks off (claimNextNumber).
Receipts == UNION {bill[q].payments : q \in Quotes}
Billed == {q \in Quotes : bill[q].st # "none"}
NumbersWithoutGaps ==
  /\ {quote[q].no : q \in Quotes \ Blank} = 1 .. next.quotation - 1
  /\ {bill[q].no : q \in Billed} = 1 .. next.bill - 1
  /\ {p.no : p \in Receipts} = 1 .. next.receipt - 1
  /\ Cardinality(Receipts) = next.receipt - 1

\* The three above: bills are as their quotations were confirmed, their numbers
\* have no gaps, and no row of the desk names a row that has gone (billing.js,
\* studio.js).
StudioInv == TypeOK /\ BillsAsQuoted /\ NumbersWithoutGaps

\* Whether a bill's payments are what it says of them.
Settled(b) ==
  LET total == Paid(b.payments)
  IN /\ total <= Payable(b.items, b.discount) + Epsilon
     /\ b.st = IF b.payments = {} THEN "UNPAID" ELSE PaidStatus(b, total)
\* The payments of a bill never exceed what is payable by more than the
\* tolerance and its status tells how much of it they cover, unless two
\* payments overlapped on it.
PaymentsAddUp == \A q \in Billed : ~bill[q].raced => Settled(bill[q])

\* An inquiry that names an event has been converted into it: the event has
\* its invite, unless it was removed since, and there is the booking made
\* with it.  There is no other booking of the inquiry, unless two conversions
\* overlapped or one broke off halfway.
ConvertedMeansBooked ==
  LET made == {b \in booking : b.of # NoEvent}
  IN inquiry.event # NoEvent =>
       /\ event[inquiry.event].st = "gone" \/ event[inquiry.event].invite
       /\ \E b \in made : b.of = inquiry.event
       /\ inquiry.raced \/ inquiry.loose \/ At(Converting) # {} \/ Cardinality(made) = 1

\* What clients gave stands: no later acceptance replaces a signature, and
\* answers are saved only to questions that are asked, on a questionnaire that
\* is open; unless what the request had found was changed before it wrote.
ClientPapersStand ==
  [][\A r \in Requests : req'[r] = Idle /\ ~req[r].overtaken =>
       /\ req[r].pc = "sign" /\ contract.st = "signed" => contract'.name = contract.name
       /\ req[r].pc = "answer" /\ sheet'.answers # sheet.answers =>
            form.active /\ sheet'.answers \subseteq form.questions]_vars

=============================================================================
